------------------------------- MODULE JobBag -------------------------------
(***************************************************************************)
(* What a thread pool promises: a job that was submitted is started once,  *)
(* finishes once, and no more than Limit jobs run at the same time.  The   *)
(* order in which jobs start is left open.  A closed pool runs nothing and *)
(* takes no job.                                                           *)
(***************************************************************************)
EXTENDS Integers, FiniteSets

CONSTANTS
  Jobs,   \* every job that may be submitted
  Limit   \* the number of jobs that may run at a time

VARIABLES pending, running, done, closed

bagVars == <<pending, running, done, closed>>

BagInit == pending = {} /\ running = {} /\ done = {} /\ closed = FALSE

Submit(j) ==
  /\ ~closed
  /\ j \notin pending \cup running \cup done
  /\ pending' = pending \cup {j}
  /\ UNCHANGED <<running, done, closed>>

Start(j) ==
  /\ j \in pending
  /\ Cardinality(running) < Limit
  /\ pending' = pending \ {j}
  /\ running' = running \cup {j}
  /\ UNCHANGED <<done, closed>>

Finish(j) ==
  /\ j \in running
  /\ running' = running \ {j}
  /\ done' = done \cup {j}
  /\ UNCHANGED <<pending, closed>>

Close ==
  /\ running = {}
  /\ closed' = TRUE
  /\ UNCHANGED <<pending, running, done>>

BagNext ==
  \/ Close
  \/ \E j \in Jobs : Submit(j) \/ Start(j) \/ Finish(j)

BagSpec == BagInit /\ [][BagNext]_bagVars
=============================================================================
