------------------------------ MODULE FiberSem -------------------------------
(***************************************************************************)
(* The fiber semaphore (ACL_FIBER_SEM, fiber_sem.c) on top of FiberSched.  *)
(* The semaphore is named by the head of its waiting ring.  A fiber that   *)
(* blocks is suspended in the middle of acl_fiber_sem_wait; WaitReturn is  *)
(* the rest of the function.                                               *)
(*                                                                         *)
(* The model is of one thread.  A semaphore is bound to a thread (tid) and *)
(* refuses every call of another one, so of tid it matters only whether it *)
(* is this thread.                                                         *)
(***************************************************************************)
EXTENDS FiberSched

CONSTANTS
  Sem,      \* the waiting ring of the semaphore
  InitNum,  \* the number given to acl_fiber_sem_create
  MaxFresh, \* bound of the model: posts by contexts that hold no unit
  Checks    \* callers test acl_fiber_killed when a wait returns

ASSUME SemAssumption ==
  /\ Sem \in WaitRings
  /\ InitNum \in Nat /\ MaxFresh \in Nat
  /\ Checks \in BOOLEAN

VARIABLES
  num,     \* ACL_FIBER_SEM.num
  mine,    \* ACL_FIBER_SEM.tid is this thread
  waiting, \* the fibers suspended inside acl_fiber_sem_wait
  units,   \* the units each fiber obtained and did not give back
  fresh    \* the units posted by a context that held none

countVars == <<num, mine, waiting, units, fresh>>
semVars   == <<schedVars, countVars>>

SemInit ==
  /\ Init
  /\ num = InitNum
  /\ mine = TRUE
  /\ waiting = {}
  /\ units = [f \in Fibers |-> 0]
  /\ fresh = 0

-----------------------------------------------------------------------------
(* acl_fiber_sem_trywait, and acl_fiber_sem_wait when a unit is there.     *)
acl_fiber_sem_trywait(f) ==
  /\ running = f /\ f \notin waiting
  /\ mine /\ num > 0
  /\ num' = num - 1
  /\ units' = [units EXCEPT ![f] = @ + 1]
  /\ UNCHANGED <<schedVars, mine, waiting, fresh>>

(* acl_fiber_sem_wait when there is none.                                  *)
SemBlock(f) ==
  /\ running = f /\ f \notin waiting
  /\ mine /\ num <= 0
  /\ WaitIn(f, Sem)
  /\ waiting' = waiting \cup {f}
  /\ UNCHANGED <<num, mine, units, fresh>>

acl_fiber_sem_wait(f) == acl_fiber_sem_trywait(f) \/ SemBlock(f)

(* The rest of it, after a post or a signal: the value returned is num,    *)
(* which is no error, so the caller takes it that it obtained a unit.      *)
WaitReturn(f) ==
  /\ running = f /\ f \in waiting
  /\ ring' = acl_ring_detach(ring, f)
  /\ waiting' = waiting \ {f}
  /\ units' = IF Checks /\ killed[f] THEN units ELSE [units EXCEPT ![f] = @ + 1]
  /\ UNCHANGED <<running, status, killed, signum, fibers, slot, scheduled>>
  /\ UNCHANGED <<num, mine, fresh>>

AtTop == running \notin waiting

(* acl_fiber_sem_post by any context: a unit given back, or a new one.  It *)
(* goes to the first waiter without passing through num.                   *)
Posted ==
  /\ CanCall /\ AtTop /\ mine
  /\ \/ \E f \in Fibers :
          /\ running = f /\ units[f] > 0
          /\ units' = [units EXCEPT ![f] = @ - 1]
          /\ UNCHANGED fresh
     \/ /\ \A f \in Fibers : running = f => units[f] = 0
        /\ fresh < MaxFresh
        /\ fresh' = fresh + 1
        /\ UNCHANGED units
  /\ UNCHANGED <<mine, waiting>>

(* Faulty variants: the unit is counted and given to the waiter as well;   *)
(* the unit is counted although somebody waits for it.                     *)
PostTwice ==
  /\ Posted
  /\ num' = num + 1
  /\ IF NoEntry(ring, Sem) THEN UNCHANGED schedVars ELSE WakeFirst(Sem)

PostSilently ==
  /\ Posted
  /\ num' = num + 1
  /\ UNCHANGED schedVars

acl_fiber_sem_post ==
  /\ Posted
  /\ \/ /\ NoEntry(ring, Sem)
        /\ num' = num + 1
        /\ UNCHANGED schedVars
     \/ /\ WakeFirst(Sem)
        /\ UNCHANGED num

(* Faulty variant of acl_fiber_sem_set_tid: waiters are not looked for.     *)
SetTidUntested(self) ==
  /\ CanCall /\ AtTop
  /\ mine' = self
  /\ UNCHANGED <<schedVars, num, waiting, units, fresh>>

(* acl_fiber_sem_set_tid; with waiters and another thread the code aborts. *)
acl_fiber_sem_set_tid(self) ==
  /\ CanCall /\ AtTop
  /\ self # mine => ~(acl_ring_size(ring, Sem) > 0)
  /\ mine' = self
  /\ UNCHANGED <<schedVars, num, waiting, units, fresh>>

OtherStep ==
  \/ acl_fiber_schedule
  \/ /\ AtTop
     /\ \E f \in Fibers :
          \/ Create(f)
          \/ acl_fiber_yield(f)
          \/ Suspend(f)
          \/ fiber_exit(f) /\ units[f] = 0
          \/ Wake(f)
          \/ \E g \in Fibers, sig \in Signals : acl_fiber_signal(f, g, sig)

SemNext ==
  \/ OtherStep /\ UNCHANGED countVars
  \/ \E f \in Fibers : acl_fiber_sem_wait(f) \/ WaitReturn(f)
  \/ acl_fiber_sem_post
  \/ \E self \in BOOLEAN : acl_fiber_sem_set_tid(self)

SemSpec == SemInit /\ [][SemNext]_semVars

(* The thread keeps running and no context keeps it for ever, who holds a  *)
(* unit and gets to run gives it back in the end, the semaphore comes back *)
(* to this thread and suspended fibers are woken.                          *)
SemFairSpec ==
  /\ SemSpec
  /\ WF_semVars(SemNext)
  /\ WF_semVars(SemNext /\ (running' # running \/ scheduled' # scheduled))
  /\ \A f \in Fibers : SF_semVars(running = f /\ units[f] > 0 /\ acl_fiber_sem_post)
  /\ SF_semVars(~mine /\ acl_fiber_sem_set_tid(TRUE))
  /\ \A g \in Fibers : SF_semVars(AtTop /\ Wake(g) /\ UNCHANGED countVars)

-----------------------------------------------------------------------------
(* The semaphore state has the type of its C fields.                       *)
SemTypeOK ==
  /\ num \in Nat /\ mine \in BOOLEAN
  /\ waiting \subseteq Fibers
  /\ units \in [Fibers -> Nat]
  /\ fresh \in Nat

Total == FoldFunction(LAMBDA x, y : x + y, 0, units)

(* The fibers a post let go and that have not returned from wait yet.      *)
Granted == {f \in waiting : ring.parent[f] # Sem}

(* Units are neither lost nor made: every unit is in num, with a fiber, or *)
(* on its way to one (lib_fiber.h:334-356).  Only a signal to a waiter and *)
(* the return of a killed one that tests for it may change the balance.    *)
Balance == num + Total + Cardinality(Granted) - fresh

UnitsConserved ==
  [][Balance' = Balance \/ SignalStep \/ \E f \in Fibers : killed[f] /\ WaitReturn(f)]_semVars

(* Fibers never hold more units than there are: a wait that returns a      *)
(* value >= 0 has decremented the semaphore (lib_fiber.h:334-339).         *)
NoOverdraft == Total <= InitNum + fresh

(* Nobody waits while a unit is free: post tests the ring before it counts *)
(* (fiber_sem.c:96-102), wait counts before it queues (49-58).             *)
NoIdleUnit == num > 0 => NoEntry(ring, Sem)

(* A semaphore that left for another thread left no waiter behind, whom no *)
(* post could reach any more (fiber_sem.c:28, 93-94).                      *)
NobodyStranded == ~mine => \A f \in waiting : ring.parent[f] # Sem

(* While nobody is signalled, and there is a unit at all, every fiber that *)
(* waits gets one, if no fiber waits for a second while it holds one.      *)
OneUnitEach == \A f \in waiting : units[f] = 0

WaiterServed ==
  []Unsignalled /\ []OneUnitEach /\ <>(InitNum + fresh > 0) =>
    \A f \in Fibers : f \in waiting ~> f \notin waiting
=============================================================================
