----------------------------- MODULE AclAqueue -------------------------------
(***************************************************************************)
(* The blocking queue between threads of lib_acl, ACL_AQUEUE               *)
(* (acl_aqueue.c), a linked list under a mutex and a condition variable.   *)
(* Any number of threads push and pop.                                     *)
(*                                                                         *)
(* What a thread does from taking the mutex to giving it back, or to       *)
(* waiting on the condition variable, is one action; the error field, the  *)
(* quit flag and the signal, which the code touches without the mutex, are *)
(* steps of their own.  An item a pop has unlinked belongs to its thread,  *)
(* so reading and freeing it are part of the same action.  A block that is *)
(* free is shown cleared, which no block in use is.                        *)
(***************************************************************************)
EXTENDS Integers, FiniteSets, Sequences

CONSTANTS
  Poppers, Pushers, \* the threads that pop, and those that push
  Items,            \* the ACL_AQUEUE_ITEM blocks malloc can return
  Msgs,             \* what is pushed
  NULL, Nil         \* no item; what a pop without an item returns

ASSUME AqueueAssumption ==
  /\ NULL \notin Items /\ Nil \notin Msgs
  /\ Poppers \cap Pushers = {}
  /\ IsFiniteSet(Items) /\ IsFiniteSet(Poppers) /\ IsFiniteSet(Pushers)

VARIABLES
  next, data,        \* the fields of the items
  first, last, qlen, \* ACL_AQUEUE
  quit, error,
  pc,                \* where each thread is; "wait" is inside pthread_cond_wait
  tmo,               \* whether the pop of a thread has a timeout
  ret,               \* what the last pop to return returned
  freed              \* acl_aqueue_free was called

listVars   == <<next, data, first, last, qlen>>
aqueueVars == <<listVars, quit, error, pc, tmo, ret, freed>>

Init ==
  /\ next = [i \in Items |-> NULL] /\ data = [i \in Items |-> Nil]
  /\ first = NULL /\ last = NULL /\ qlen = 0
  /\ quit = FALSE /\ error = "ok"
  /\ pc = [t \in Poppers \cup Pushers |-> "idle"]
  /\ tmo = [p \in Poppers |-> FALSE]
  /\ ret = Nil
  /\ freed = FALSE

Goto(t, there) == pc' = [pc EXCEPT ![t] = there]

(* The items linked from first on, the oldest first.                       *)
Chain[n \in 1 .. qlen] == IF n = 1 THEN first ELSE next[Chain[n - 1]]

-----------------------------------------------------------------------------
(* acl_aqueue_push: the list, under the mutex, then the signal.            *)

(* Faulty variant of Link: the item was not cleared when it was allocated.  *)
LinkDirty(i, m) ==
  /\ data' = [data EXCEPT ![i] = m]
  /\ \E old \in Items \cup {NULL} :
       IF first = NULL
       THEN first' = i /\ next' = [next EXCEPT ![i] = old]
       ELSE next' = [next EXCEPT ![i] = old, ![last] = i] /\ UNCHANGED first
  /\ last' = i
  /\ qlen' = qlen + 1

Link(i, m) ==
  /\ data' = [data EXCEPT ![i] = m]
  /\ IF first = NULL
     THEN first' = i /\ next' = [next EXCEPT ![i] = NULL]
     ELSE next' = [next EXCEPT ![i] = NULL, ![last] = i] /\ UNCHANGED first
  /\ last' = i
  /\ qlen' = qlen + 1

acl_aqueue_push(s, m) ==
  /\ ~freed /\ pc[s] = "idle"
  /\ \E i \in Items : data[i] = Nil /\ Link(i, m)
  /\ Goto(s, "signal")
  /\ UNCHANGED <<quit, error, tmo, ret, freed>>

Waiting == {p \in Poppers : pc[p] = "wait"}

(* Faulty variant of Signal: only the push into an empty queue signals.     *)
SignalIfOne(s) ==
  /\ pc[s] = "signal"
  /\ IF qlen = 1 /\ Waiting # {}
     THEN \E p \in Waiting : pc' = [pc EXCEPT ![s] = "idle", ![p] = "woken"]
     ELSE Goto(s, "idle")
  /\ UNCHANGED <<listVars, quit, error, tmo, ret, freed>>

Signal(s) ==
  /\ pc[s] = "signal"
  /\ IF Waiting # {}
     THEN \E p \in Waiting : pc' = [pc EXCEPT ![s] = "idle", ![p] = "woken"]
     ELSE Goto(s, "idle")
  /\ UNCHANGED <<listVars, quit, error, tmo, ret, freed>>

-----------------------------------------------------------------------------
(* acl_aqueue_pop and acl_aqueue_pop_timedwait.                            *)

PopEnter(p) ==
  /\ ~freed /\ pc[p] = "idle"
  /\ error' = "ok"
  /\ tmo' \in {[tmo EXCEPT ![p] = b] : b \in BOOLEAN}
  /\ Goto(p, "enter")
  /\ UNCHANGED <<listVars, quit, ret, freed>>

(* It has the mutex, for the first time or back from the wait.             *)
Locked(p) == pc[p] \in {"enter", "woken"}

Take(p) ==
  /\ Locked(p) /\ first # NULL
  /\ ret' = data[first]
  /\ first' = next[first]
  /\ next' = [next EXCEPT ![first] = NULL]
  /\ data' = [data EXCEPT ![first] = Nil]
  /\ last' = IF last = first THEN NULL ELSE last
  /\ qlen' = qlen - 1
  /\ Goto(p, "idle")
  /\ UNCHANGED <<quit, error, tmo, freed>>

PopQuits(p) ==
  /\ Locked(p) /\ first = NULL /\ quit
  /\ ret' = Nil
  /\ Goto(p, "idle")
  /\ UNCHANGED <<listVars, quit, error, tmo, freed>>

(* The nanoseconds of the deadline are not carried into its seconds: when  *)
(* they come to a second or more the wait fails at once.                   *)
Block(p) ==
  /\ Locked(p) /\ first = NULL /\ ~quit
  /\ \/ Goto(p, "wait")
     \/ tmo[p] /\ Goto(p, "invalid")
  /\ UNCHANGED <<listVars, quit, error, tmo, ret, freed>>

Section(p) == Take(p) \/ PopQuits(p) \/ Block(p)

(* Spurious wake-ups are allowed by POSIX.                                 *)
Spurious(p) ==
  /\ pc[p] = "wait"
  /\ Goto(p, "woken")
  /\ UNCHANGED <<listVars, quit, error, tmo, ret, freed>>

Expire(p) ==
  /\ pc[p] = "wait" /\ tmo[p]
  /\ Goto(p, "expired")
  /\ UNCHANGED <<listVars, quit, error, tmo, ret, freed>>

(* The error is stored after the mutex was given back, and the list not    *)
(* looked at again.                                                        *)
GiveUp(p) ==
  /\ pc[p] \in {"expired", "invalid"}
  /\ error' = IF pc[p] = "expired" THEN "timeout" ELSE "cond_wait"
  /\ ret' = Nil
  /\ Goto(p, "idle")
  /\ UNCHANGED <<listVars, quit, tmo, freed>>

-----------------------------------------------------------------------------
(* acl_aqueue_set_quit takes no lock and signals nobody.                   *)
acl_aqueue_set_quit ==
  /\ ~freed
  /\ quit' = TRUE
  /\ UNCHANGED <<listVars, error, pc, tmo, ret, freed>>

(* acl_aqueue_free, by an owner who knows that no thread is inside; what   *)
(* is left in the list is freed with it.                                   *)
acl_aqueue_free ==
  /\ ~freed /\ \A t \in Poppers \cup Pushers : pc[t] = "idle"
  /\ freed' = TRUE /\ quit' = TRUE
  /\ UNCHANGED <<listVars, error, pc, tmo, ret>>

Next ==
  \/ \E p \in Poppers :
       \/ PopEnter(p)
       \/ Section(p)
       \/ Spurious(p)
       \/ Expire(p)
       \/ GiveUp(p)
  \/ \E s \in Pushers : Signal(s) \/ \E m \in Msgs : acl_aqueue_push(s, m)
  \/ acl_aqueue_set_quit
  \/ acl_aqueue_free

Spec == Init /\ [][Next]_aqueueVars

(* Threads inside a call keep running, and deadlines are reached: a wait   *)
(* for one that has passed returns whatever woke the thread before.        *)
FairSpec ==
  /\ Spec
  /\ \A p \in Poppers :
       WF_aqueueVars(Section(p)) /\ WF_aqueueVars(GiveUp(p)) /\ SF_aqueueVars(Expire(p))
  /\ \A s \in Pushers : WF_aqueueVars(Signal(s))

-----------------------------------------------------------------------------
(* Every variable holds a value its C counterpart can hold.                *)
TypeOK ==
  /\ next \in [Items -> Items \cup {NULL}]
  /\ data \in [Items -> Msgs \cup {Nil}]
  /\ first \in Items \cup {NULL} /\ last \in Items \cup {NULL}
  /\ qlen \in Nat
  /\ quit \in BOOLEAN /\ freed \in BOOLEAN
  /\ error \in {"ok", "timeout", "cond_wait"}
  /\ pc \in [Poppers \cup Pushers ->
               {"idle", "enter", "wait", "woken", "expired", "invalid", "signal"}]
  /\ \A p \in Poppers : pc[p] # "signal"
  /\ \A s \in Pushers : pc[s] \in {"idle", "signal"}
  /\ tmo \in [Poppers -> BOOLEAN]
  /\ ret \in Msgs \cup {Nil}

(* While a thread sleeps, every item in the list has somebody who will     *)
(* come for it: a thread on its way to the mutex, or a push that has not   *)
(* signalled yet.  The signal is sent after the mutex was given back       *)
(* (acl_aqueue.c:284-291), a pop that arrives late may take the item of    *)
(* one that was woken, and a pop that timed out does not look again        *)
(* (159-166): none of that may leave an item to threads that all sleep.    *)
Coming == {p \in Poppers : Locked(p)} \cup {s \in Pushers : pc[s] = "signal"}

NoLostWakeup == Waiting # {} => qlen <= Cardinality(Coming)

(* The list, read from first, is a queue: a pop takes the oldest item or   *)
(* returns nothing, a push appends (acl_aqueue.h:50-72).                   *)
Box == INSTANCE Mailbox WITH queue <- [n \in 1 .. qlen |-> data[Chain[n]]]

ImplementsMailbox == Box!Spec

(* A pop with a timeout returns, and none sleeps on while an item stays    *)
(* in the list.                                                            *)
PopsReturn ==
  \A p \in Poppers :
    /\ (pc[p] # "idle" /\ tmo[p]) ~> pc[p] = "idle"
    /\ (pc[p] = "wait" /\ first # NULL) ~> (pc[p] # "wait" \/ first = NULL)

(* A quit reaches the threads that sleep without a timeout.                *)
QuitReaches == \A p \in Poppers : (quit /\ pc[p] # "idle") ~> pc[p] = "idle"
=============================================================================
