----------------------------- MODULE FiberSched ------------------------------
(***************************************************************************)
(* The fiber scheduler of one thread (lib_fiber/c/src/fiber.c): the ready  *)
(* and dead rings, the table of live fibers, creation with reuse of dead   *)
(* blocks, yield, suspend and wake, signal/kill, exit, and the loop of     *)
(* acl_fiber_schedule.  Scheduling is cooperative, so one action is the    *)
(* code a context runs from one context switch to the next.                *)
(*                                                                         *)
(* A fiber is named by its ACL_FIBER block: a block is "free" (not         *)
(* allocated), "ready" (allocated; the code never stores another status    *)
(* for a fiber that has not ended, not even for the running one) or        *)
(* "exiting" (ended, kept in the dead ring to be reused).                  *)
(***************************************************************************)
EXTENDS AclRing, FiniteSets, Functions, Sequences

CONSTANTS
  Fibers,      \* the ACL_FIBER blocks malloc can return
  Ready, Dead, \* the heads of the two rings of FIBER_TLS
  WaitRings,   \* the heads of the waiting rings of synchronisation objects
  Original,    \* the context that called acl_fiber_schedule; running is
               \* NULL in C while it executes
  MaxCache,    \* MAX_CACHE, 1000 in the code
  Signals,     \* the signal numbers in use; {} switches signals off
  Fatal,       \* SIGKILL, SIGTERM and SIGQUIT among them
  NoSignal     \* 0, what a new fiber's signum is

Heads == {Ready, Dead} \cup WaitRings
Nodes == Fibers \cup Heads

ASSUME HeadsAssumption ==
  /\ Heads \cap Fibers = {}
  /\ Ready # Dead
  /\ {Ready, Dead} \cap WaitRings = {}
ASSUME ConstantsAssumption ==
  /\ Original \notin Nodes
  /\ MaxCache \in Nat
  /\ Fatal \subseteq Signals
  /\ NoSignal \notin Signals

VARIABLES
  ring,      \* the ring memory of all fibers and heads
  running,   \* the context that executes
  status,    \* ACL_FIBER.status of each block
  killed,    \* FIBER_F_KILLED in ACL_FIBER.flag
  signum,    \* ACL_FIBER.signum, the last signal received
  fibers,    \* FIBER_TLS.fibers[0 .. slot-1], the live fibers
  slot,      \* ACL_FIBER.slot, its place in that table
  scheduled  \* __scheduled: acl_fiber_schedule is on the stack

schedVars == <<ring, running, status, killed, signum, fibers, slot, scheduled>>

Linked(f) == ring.parent[f] # f
Alive(f)  == status[f] = "ready"

(* No living fiber has ever received a signal.                             *)
Unsignalled == \A f \in Fibers : signum[f] = NoSignal

(* A fiber that called acl_fiber_switch without entering a ring.           *)
Suspended(f) == Alive(f) /\ running # f /\ ~Linked(f)

Init ==
  /\ ring = acl_ring_init(Nodes)
  /\ running = Original
  /\ status = [f \in Fibers |-> "free"]
  /\ killed = [f \in Fibers |-> FALSE]
  /\ signum = [f \in Fibers |-> NoSignal]
  /\ fibers = << >>
  /\ slot = [f \in Fibers |-> 0]
  /\ scheduled = FALSE

-----------------------------------------------------------------------------
(* The two calls every operation ends with, on the ring memory m that the  *)
(* caller has changed so far.                                              *)

(* Faulty variant: a fiber made ready runs before those already waiting.    *)
ReadyAtFront(m, f) ==
  IF status[f] = "exiting" THEN m ELSE acl_ring_append(m, Ready, f)

acl_fiber_ready(m, f) ==
  IF status[f] = "exiting" THEN m ELSE acl_ring_prepend(m, Ready, f)

(* Hand the thread to the first ready fiber or, when there is none, back   *)
(* to the loop of acl_fiber_schedule.                                      *)
acl_fiber_switch(m) ==
  /\ ring' = acl_ring_pop_head(m, Ready)
  /\ running' = IF NoEntry(m, Ready) THEN Original ELSE First(m, Ready)

(* A running fiber, or the thread before and after acl_fiber_schedule.     *)
CanCall == running \in Fibers \/ ~scheduled

(* acl_fiber_create with fiber_alloc: a block of the dead ring is reused   *)
(* before a new one is allocated.                                          *)
Create(f) ==
  LET m == acl_ring_pop_head(ring, Dead)
  IN  /\ CanCall
      /\ IF NoEntry(ring, Dead) THEN status[f] = "free"
                                ELSE f = First(ring, Dead)
      /\ status' = [status EXCEPT ![f] = "ready"]
      /\ killed' = [killed EXCEPT ![f] = FALSE]
      /\ signum' = [signum EXCEPT ![f] = NoSignal]
      /\ fibers' = Append(fibers, f)
      /\ slot'   = [slot EXCEPT ![f] = Len(fibers) + 1]
      /\ ring'   = acl_ring_prepend(m, Ready, f)
      /\ UNCHANGED <<running, scheduled>>

acl_fiber_yield(f) ==
  /\ running = f
  /\ acl_ring_size(ring, Ready) # 0
  /\ acl_fiber_switch(acl_fiber_ready(ring, f))
  /\ UNCHANGED <<status, killed, signum, fibers, slot, scheduled>>

(* acl_fiber_switch called by the application, or by a channel: the fiber  *)
(* stays out of every ring until some other fiber readies it.              *)
Suspend(f) ==
  /\ running = f
  /\ acl_fiber_switch(ring)
  /\ UNCHANGED <<status, killed, signum, fibers, slot, scheduled>>

(* acl_fiber_ready called on a suspended fiber.  To call it on one that is *)
(* in a ring is an error of the caller, which the code does not test.      *)
Wake(g) ==
  /\ CanCall
  /\ Suspended(g)
  /\ ring' = acl_fiber_ready(ring, g)
  /\ UNCHANGED <<running, status, killed, signum, fibers, slot, scheduled>>

(* Faulty variant of WaitIn: the newest waiter is the first of the ring.    *)
WaitAtFront(f, w) ==
  /\ running = f
  /\ acl_fiber_switch(acl_ring_append(ring, w, f))
  /\ UNCHANGED <<status, killed, signum, fibers, slot, scheduled>>

(* What a lock or a semaphore does to block its caller (fiber_lock.c:33,   *)
(* fiber_sem.c:58): queue it behind the other waiters and switch.          *)
WaitIn(f, w) ==
  /\ running = f
  /\ acl_fiber_switch(acl_ring_prepend(ring, w, f))
  /\ UNCHANGED <<status, killed, signum, fibers, slot, scheduled>>

(* What it does to let the first waiter go (fiber_lock.c:79-84,            *)
(* fiber_sem.c:96-102).                                                    *)
ReadyFirst(m, w) == acl_fiber_ready(acl_ring_detach(m, First(m, w)), First(m, w))

WakeFirst(w) ==
  /\ CanCall
  /\ ~NoEntry(ring, w)
  /\ ring' = ReadyFirst(ring, w)
  /\ UNCHANGED <<running, status, killed, signum, fibers, slot, scheduled>>

(* Faulty variant of acl_fiber_signal: the target is not taken out of the   *)
(* ring it waits in.                                                       *)
SignalUndetached(f, g, sig) ==
  LET m == acl_ring_detach(ring, f)
  IN  /\ running = f
      /\ Alive(g)
      /\ killed' = [killed EXCEPT ![g] = @ \/ sig \in Fatal]
      /\ signum' = [signum EXCEPT ![g] = sig]
      /\ IF g = f
         THEN UNCHANGED <<ring, running>>
         ELSE acl_fiber_switch(
                acl_ring_append(acl_ring_append(m, Ready, f), Ready, g))
      /\ UNCHANGED <<status, fibers, slot, scheduled>>

(* acl_fiber_signal; acl_fiber_kill is the case of a fatal signal.  The    *)
(* target is taken out of whatever ring it waits in and runs next, the     *)
(* caller right after it.  The caller passes a living fiber: the code      *)
(* does not test that.                                                     *)
acl_fiber_signal(f, g, sig) ==
  LET m == acl_ring_detach(acl_ring_detach(ring, f), g)
  IN  /\ running = f
      /\ Alive(g)
      /\ killed' = [killed EXCEPT ![g] = @ \/ sig \in Fatal]
      /\ signum' = [signum EXCEPT ![g] = sig]
      /\ IF g = f
         THEN UNCHANGED <<ring, running>>
         ELSE acl_fiber_switch(
                acl_ring_append(acl_ring_append(m, Ready, f), Ready, g))
      /\ UNCHANGED <<status, fibers, slot, scheduled>>

(* acl_fiber_signum as it is written: a fiber given by the caller is       *)
(* replaced by the running one (the test of fiber.c:458 is inverted).      *)
acl_fiber_signum(fiber) ==
  LET f == IF fiber # Original THEN running ELSE fiber
  IN  IF f # Original THEN signum[f] ELSE NoSignal

-----------------------------------------------------------------------------
(* The part of fiber_swap a fiber that ends goes through, on memory m from *)
(* which the next fiber has already been popped.                           *)

(* How many dead blocks are freed first.  Dead blocks are added one at a   *)
(* time, so the loop of fiber_kick never has more than one to free; that   *)
(* is part of RingsComplete.                                               *)
Excess(m) == IF acl_ring_size(m, Dead) > MaxCache
             THEN acl_ring_size(m, Dead) - MaxCache ELSE 0

fiber_kick(m) == IF Excess(m) = 0 THEN m ELSE acl_ring_pop_head(m, Dead)

Kicked(m) == IF Excess(m) = 0 \/ NoEntry(m, Dead) THEN {} ELSE {First(m, Dead)}

(* Faulty variant of DropFromTable: the moved fiber keeps its old slot.     *)
DropWithoutSlot(f) ==
  LET n == Len(fibers)
  IN  /\ fibers' = [i \in 1 .. n - 1 |->
                      IF i = slot[f] THEN fibers[n] ELSE fibers[i]]
      /\ UNCHANGED slot

(* The last fiber of the table takes the place of the one that ends.       *)
DropFromTable(f) ==
  LET n    == Len(fibers)
      last == fibers[n]
  IN  /\ fibers' = [i \in 1 .. n - 1 |-> IF i = slot[f] THEN last ELSE fibers[i]]
      /\ slot'   = [slot EXCEPT ![last] = slot[f]]

(* fiber_start's end, fiber_exit, acl_fiber_switch and fiber_swap.         *)
fiber_exit(f) ==
  LET m == acl_ring_pop_head(ring, Ready)
  IN  /\ running = f
      /\ running' = IF NoEntry(ring, Ready) THEN Original ELSE First(ring, Ready)
      /\ ring'    = acl_ring_prepend(fiber_kick(m), Dead, f)
      /\ status'  = [g \in Fibers |-> IF g = f THEN "exiting"
                                      ELSE IF g \in Kicked(m) THEN "free"
                                      ELSE status[g]]
      /\ DropFromTable(f)
      /\ UNCHANGED <<killed, signum, scheduled>>

-----------------------------------------------------------------------------
(* acl_fiber_schedule: run ready fibers until there is none, then free the *)
(* dead ones and return.                                                   *)

ScheduleEnter ==
  /\ running = Original /\ ~scheduled
  /\ scheduled' = TRUE
  /\ UNCHANGED <<ring, running, status, killed, signum, fibers, slot>>

ScheduleRun ==
  /\ running = Original /\ scheduled
  /\ ~NoEntry(ring, Ready)
  /\ acl_fiber_switch(ring)
  /\ UNCHANGED <<status, killed, signum, fibers, slot, scheduled>>

(* Faulty variant of ScheduleFree: the block stays in the dead ring.        *)
FreeLinked ==
  /\ running = Original /\ scheduled
  /\ NoEntry(ring, Ready) /\ ~NoEntry(ring, Dead)
  /\ status' = [status EXCEPT ![First(ring, Dead)] = "free"]
  /\ UNCHANGED <<ring, running, killed, signum, fibers, slot, scheduled>>

ScheduleFree ==
  /\ running = Original /\ scheduled
  /\ NoEntry(ring, Ready) /\ ~NoEntry(ring, Dead)
  /\ status' = [status EXCEPT ![First(ring, Dead)] = "free"]
  /\ ring' = acl_ring_pop_head(ring, Dead)
  /\ UNCHANGED <<running, killed, signum, fibers, slot, scheduled>>

ScheduleReturn ==
  /\ running = Original /\ scheduled
  /\ NoEntry(ring, Ready) /\ NoEntry(ring, Dead)
  /\ scheduled' = FALSE
  /\ UNCHANGED <<ring, running, status, killed, signum, fibers, slot>>

acl_fiber_schedule == ScheduleEnter \/ ScheduleRun \/ ScheduleFree \/ ScheduleReturn

-----------------------------------------------------------------------------
Next ==
  \/ acl_fiber_schedule
  \/ \E f \in Fibers :
       \/ Create(f)
       \/ acl_fiber_yield(f)
       \/ Suspend(f)
       \/ fiber_exit(f)
       \/ Wake(f)
       \/ \E w \in WaitRings : WaitIn(f, w)
       \/ \E g \in Fibers, sig \in Signals : acl_fiber_signal(f, g, sig)
  \/ \E w \in WaitRings : WakeFirst(w)

Spec == Init /\ [][Next]_schedVars

(* Fibers are cooperative: a fiber that runs gives the thread back sooner  *)
(* or later, and the thread runs acl_fiber_schedule.                       *)
FairSpec == Spec /\ WF_schedVars(Next)
-----------------------------------------------------------------------------
(* Every variable holds a value its C counterpart can hold.                *)
TypeOK ==
  /\ RingType(ring, Fibers, Heads)
  /\ running \in Fibers \cup {Original}
  /\ status \in [Fibers -> {"free", "ready", "exiting"}]
  /\ killed \in [Fibers -> BOOLEAN]
  /\ signum \in [Fibers -> Signals \cup {NoSignal}]
  /\ fibers \in Seq(Fibers)
  /\ slot \in [Fibers -> Nat]
  /\ scheduled \in BOOLEAN

(* No operation links a fiber into a ring while it is still in another:    *)
(* the one node a fiber has keeps every ring a proper ring (fiber.c:438,   *)
(* 477, 370 all link the same ACL_FIBER.me).                               *)
RingsWellFormed == WellLinked(ring, Fibers, Heads)

(* Following a ring from its head meets every fiber that believes to be in *)
(* it, once, and the length the head keeps is their number: yield tests    *)
(* the length (fiber.c:485) while switch tests the link (fiber.c:761).     *)
(* The dead ring is never more than one above its limit, so that           *)
(* fiber_kick never has to free more than one block (fiber.c:358-361).     *)
RingsComplete ==
  /\ \A h \in Heads :
       /\ ring.len[h] = Cardinality(Members(ring, h, Fibers))
       /\ Range(Walk(ring, h)) = Members(ring, h, Fibers)
  /\ acl_ring_size(ring, Dead) <= MaxCache + 1

(* The running fiber is alive and in no ring, the ready ring holds only    *)
(* living fibers, the dead ring exactly those that ended, and memory that  *)
(* was freed is referenced by no ring.                                     *)
RingsMatchStatus ==
  /\ running \in Fibers => Alive(running) /\ ~Linked(running)
  /\ \A f \in Fibers :
       /\ status[f] = "exiting" <=> ring.parent[f] = Dead
       /\ status[f] = "free" => ~Linked(f)

(* The table of fibers lists the living fibers, each at the place its slot *)
(* field names (the move of the last entry at fiber.c:366-368).            *)
TableExact ==
  /\ \A i \in 1 .. Len(fibers) : Alive(fibers[i]) /\ slot[fibers[i]] = i
  /\ \A f \in Fibers :
       Alive(f) => slot[f] \in 1 .. Len(fibers) /\ fibers[slot[f]] = f

(* acl_fiber_signum returns the signal of the fiber it is asked about      *)
(* (lib_fiber.h:106-111).                                                  *)
SignumReported ==
  \A f \in Fibers :
    running \in Fibers /\ Alive(f) => acl_fiber_signum(f) = signum[f]

(* A fiber in the ready ring gets to run, unless fibers signal each other  *)
(* for ever: a signal makes its target and its sender jump the queue       *)
(* (fiber.c:446-450), nothing else does.                                   *)
SignalStep == \E f, g \in Fibers, sig \in Signals : acl_fiber_signal(f, g, sig)

ReadyRuns ==
  <>[][~SignalStep]_schedVars =>
    \A f \in Fibers : ring.parent[f] = Ready ~> running = f

(* The scheduler implements the run queue of FiberRunQueue.                *)
PhaseOf(f) ==
  CASE ~Alive(f) -> "absent"
    [] Alive(f) /\ running = f -> "running"
    [] Alive(f) /\ running # f /\ ring.parent[f] = Ready -> "queued"
    [] OTHER -> "parked"

RunQueue == INSTANCE FiberRunQueue WITH
  None <- Original, current <- running,
  queue <- Walk(ring, Ready), phase <- [f \in Fibers |-> PhaseOf(f)]

ImplementsRunQueue == RunQueue!Spec
=============================================================================
