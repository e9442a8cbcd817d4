------------------------------ MODULE FifoLocks ------------------------------
(***************************************************************************)
(* What the fiber mutex promises: each lock has at most one owner, those   *)
(* that find it taken queue up, and a release hands it to the head of the  *)
(* queue in the same step, so that nobody can overtake.  A waiter leaves   *)
(* the queue early only because it is signalled.                           *)
(***************************************************************************)
EXTENDS QueueOps

CONSTANTS Fibers, Locks, None

VARIABLES owner, queue

fifoVars == <<owner, queue>>

Init ==
  /\ owner = [l \in Locks |-> None]
  /\ queue = [l \in Locks |-> << >>]

Take(f, l) ==
  /\ owner[l] = None /\ queue[l] = << >>
  /\ owner' = [owner EXCEPT ![l] = f]
  /\ UNCHANGED queue

Wait(f, l) ==
  /\ owner[l] # None
  /\ queue' = [queue EXCEPT ![l] = Append(@, f)]
  /\ UNCHANGED owner

Release(l) ==
  /\ owner[l] # None
  /\ IF queue[l] = << >>
     THEN owner' = [owner EXCEPT ![l] = None] /\ UNCHANGED queue
     ELSE /\ owner' = [owner EXCEPT ![l] = Head(queue[l])]
          /\ queue' = [queue EXCEPT ![l] = Tail(@)]

Leave(f, l) ==
  /\ queue' = [queue EXCEPT ![l] = Without(@, f)]
  /\ UNCHANGED owner

Next == \E l \in Locks : Release(l) \/ \E f \in Fibers : Take(f, l) \/ Wait(f, l) \/ Leave(f, l)

Spec == Init /\ [][Next]_fifoVars
=============================================================================
