-------------------------- MODULE FiberMutex_proofs --------------------------
(***************************************************************************)
(* Proofs about the fiber mutex, for any fibers, locks and callers.        *)
(***************************************************************************)
EXTENDS FiberMutex, FiberSched_proofs

-----------------------------------------------------------------------------
(* The mutex uses the scheduler as FiberSched says it may be used, so what *)
(* is proved there holds here.                                             *)

(* Every step of the mutex is a step of the scheduler, or none at all.  *)
LEMMA MutexStepIsSchedStep == IInv /\ [MutexNext]_mutexVars => [Next]_schedVars
<1> SUFFICES ASSUME IInv, [MutexNext]_mutexVars PROVE [Next]_schedVars
  OBVIOUS
<1>1. CASE UNCHANGED mutexVars
  BY <1>1 DEF mutexVars
<1>2. CASE OtherStep
  BY <1>2 DEF OtherStep, Next
<1>3. ASSUME NEW f \in Fibers, NEW l \in WaitRings, __lock(f, l)
      PROVE  [Next]_schedVars
  BY <1>3 DEF __lock, Next
<1>4. ASSUME NEW f \in Fibers, NEW l \in WaitRings, LockReturn(f, l)
      PROVE  UNCHANGED schedVars
  <2>1. ring' = ring
    BY <1>4, RunningFiber DEF LockReturn, acl_ring_detach
  <2> QED BY <1>4, <2>1 DEF LockReturn, schedVars
<1>5. ASSUME NEW f \in Fibers, NEW l \in WaitRings, acl_fiber_mutex_unlock(f, l)
      PROVE  [Next]_schedVars
  BY <1>5 DEF acl_fiber_mutex_unlock, Next
<1> QED BY <1>1, <1>2, <1>3, <1>4, <1>5 DEF MutexNext

(* The invariant of the scheduler holds under the mutex.                   *)
LEMMA MutexIInv == MutexSpec => []IInv
<1>1. MutexInit => IInv
  BY InitIInv DEF MutexInit
<1>2. IInv /\ [MutexNext]_mutexVars => IInv'
  BY MutexStepIsSchedStep, NextIInv
<1> QED BY <1>1, <1>2, PTL DEF MutexSpec

(* The specification of the mutex implies that of the scheduler.           *)
THEOREM MutexImplementsSched == MutexSpec => Spec
<1>1. MutexInit => Init
  BY DEF MutexInit
<1> QED BY <1>1, MutexIInv, MutexStepIsSchedStep, PTL DEF MutexSpec, Spec

-----------------------------------------------------------------------------
(* Ownership.  A caller can only be sure of the lock if the one thing that *)
(* can wake it early, a signal, is one it recognises afterwards.           *)

Careful == Signals = {} \/ (Checks /\ Signals \subseteq Fatal)

(* A fiber suspended in __lock was handed the lock, is still in its ring,  *)
(* or was killed.                                                          *)
WaiterCause(f) ==
  waits[f] # None =>
    \/ owner[waits[f]] = f
    \/ ring.parent[f] = waits[f]
    \/ killed[f] /\ Checks

OwnInv ==
  /\ MutexTypeOK
  /\ \A f \in Fibers : waits[f] # None \/ held[f] # {} => Alive(f)
  /\ Careful => HolderOwns /\ \A f \in Fibers : WaiterCause(f)

(* The NULL owner is neither a lock nor a fiber.                           *)
LEMMA LockFacts == None \notin WaitRings /\ None \notin Fibers
BY ConstantsAssumption DEF None, Nodes, Heads

(* New locks satisfy the invariant.                                        *)
LEMMA InitOwnInv == MutexInit => OwnInv
BY LockFacts DEF MutexInit, OwnInv, MutexTypeOK, HolderOwns, WaiterCause, Alive

(* The steps that do not touch the lock.                                   *)
LEMMA OtherOwnInv ==
  ASSUME IInv, OwnInv, OtherStep, UNCHANGED lockVars
  PROVE  OwnInv'
<1>1. MutexTypeOK'
  BY DEF OwnInv, MutexTypeOK, lockVars
<1> DEFINE Keeps(f) ==
      /\ waits[f] # None \/ held[f] # {} => Alive(f)'
      /\ Careful => WaiterCause(f)'
<1>2. \A f \in Fibers : /\ waits[f] # None \/ held[f] # {} => status[f] = "ready"
                        /\ Careful => WaiterCause(f)
                        /\ waits[f] \in WaitRings \cup {None}
  BY DEF OwnInv, Alive, MutexTypeOK
<1>3. ASSUME NEW f \in Fibers, Stays(f), waits[f] # None => killed'[f] = killed[f],
             waits[f] # None \/ held[f] # {} => Alive(f)'
      PROVE  Keeps(f)
  BY <1>2, <1>3 DEF WaiterCause, Stays, lockVars
<1>4. CASE acl_fiber_schedule
  <2>1. ASSUME NEW f \in Fibers PROVE Keeps(f)
    <3>1. Stays(f) /\ killed' = killed
      BY <1>4, ScheduleStays DEF acl_fiber_schedule, ScheduleEnter, ScheduleRun,
                                 ScheduleFree, ScheduleReturn
    <3>2. status[f] = "ready" => status'[f] = "ready"
      <4>1. CASE ScheduleFree
        <5>1. First(ring, Dead) \in Fibers /\ ring.parent[First(ring, Dead)] = Dead
          BY <4>1, FirstIsEntry, HeadsFacts
             DEF ScheduleFree, IInv, TypeOK, RingsWellFormed
        <5>2. status[First(ring, Dead)] = "exiting"
          BY <5>1 DEF IInv, RingsMatchStatus
        <5> QED BY <4>1, <5>1, <5>2 DEF ScheduleFree, IInv, TypeOK
      <4>2. CASE ScheduleEnter \/ ScheduleRun \/ ScheduleReturn
        BY <4>2 DEF ScheduleEnter, ScheduleRun, ScheduleReturn
      <4> QED BY <1>4, <4>1, <4>2 DEF acl_fiber_schedule
    <3> QED BY <1>2, <1>3, <3>1, <3>2 DEF Alive
  <2> QED BY <1>1, <2>1 DEF OwnInv, HolderOwns, lockVars
<1>5. ASSUME NEW g \in Fibers,
             Create(g) \/ acl_fiber_yield(g) \/ Suspend(g) \/ Wake(g)
      PROVE  \A f \in Fibers : Keeps(f)
  <2> TAKE f \in Fibers
  <2>1. Stays(f) /\ (Create(g) => (Alive(f) => f # g))
    BY <1>5, CreateStays, YieldStays, SuspendStays, WakeStays
  <2>2. /\ status[f] = "ready" => status'[f] = "ready" /\ killed'[f] = killed[f]
    BY <1>5, <2>1 DEF Create, acl_fiber_yield, Suspend, Wake, Alive, IInv, TypeOK
  <2> QED BY <1>2, <1>3, <2>1, <2>2 DEF Alive
<1>6. ASSUME NEW g \in Fibers, fiber_exit(g), held[g] = {}, AtTop
      PROVE  \A f \in Fibers : Keeps(f)
  <2> TAKE f \in Fibers
  <2>1. /\ Stays(f) /\ (Alive(f) /\ f # g => Alive(f)') /\ killed' = killed
        /\ waits[g] = None
    BY <1>6, ExitStays DEF fiber_exit, AtTop
  <2> QED BY <1>2, <1>3, <1>6, <2>1 DEF Alive
<1>7. ASSUME NEW g \in Fibers, NEW h \in Fibers, NEW sig \in Signals,
             acl_fiber_signal(g, h, sig)
      PROVE  \A f \in Fibers : Keeps(f)
  <2> TAKE f \in Fibers
  <2>1. /\ status' = status
        /\ killed' = [killed EXCEPT ![h] = @ \/ sig \in Fatal]
    BY <1>7 DEF acl_fiber_signal
  <2>2. CASE f # h
    BY <1>2, <1>3, <1>7, <2>1, <2>2, SignalStays DEF Alive, IInv, TypeOK
  <2>3. CASE f = h
    <3>1. Careful => Checks /\ killed'[f]
      BY <2>1, <2>3 DEF Careful, IInv, TypeOK
    <3> QED BY <1>2, <2>1, <3>1 DEF Alive, WaiterCause, lockVars
  <2> QED BY <2>2, <2>3
<1>9. (\A f \in Fibers : Keeps(f)) => OwnInv'
  BY <1>1 DEF OwnInv, HolderOwns, lockVars
<1> QED
  BY <1>4, <1>5, <1>6, <1>7, <1>9 DEF OtherStep

(* acl_fiber_mutex_lock keeps it, up to its switch.                        *)
LEMMA LockOwnInv ==
  ASSUME IInv, OwnInv, NEW f \in Fibers, NEW l \in WaitRings, __lock(f, l)
  PROVE  OwnInv'
<1>0. status[f] = "ready" /\ running = f /\ waits[f] = None
  BY RunningFiber DEF __lock
<1>1. CASE owner[l] = None /\ owner' = [owner EXCEPT ![l] = f]
  <2>1. /\ held' = [held EXCEPT ![f] = @ \cup {l}]
        /\ UNCHANGED <<ring, running, status, killed, waits>>
    BY <1>1, LockFacts DEF __lock, schedVars
  <2>2. MutexTypeOK'
    BY <1>1, <2>1 DEF OwnInv, MutexTypeOK
  <2>3. \A g \in Fibers : waits'[g] # None \/ held'[g] # {} => Alive(g)'
    BY <1>0, <2>1 DEF OwnInv, MutexTypeOK, Alive
  <2>4. ASSUME Careful PROVE HolderOwns'
    <3>1. \A g \in Fibers : \A k \in held[g] : owner[k] = g /\ k \in WaitRings
      BY <2>4 DEF OwnInv, HolderOwns, MutexTypeOK
    <3> QED BY <1>1, <2>1, <3>1, LockFacts DEF HolderOwns, OwnInv, MutexTypeOK
  <2>5. ASSUME Careful, NEW g \in Fibers PROVE WaiterCause(g)'
    BY <1>0, <1>1, <2>1, <2>5, LockFacts DEF WaiterCause, OwnInv, MutexTypeOK
  <2> QED BY <2>2, <2>3, <2>4, <2>5 DEF OwnInv
<1>2. CASE ~(owner[l] = None /\ owner' = [owner EXCEPT ![l] = f])
  <2>1. /\ WaitIn(f, l) /\ waits' = [waits EXCEPT ![f] = l] /\ UNCHANGED <<owner, held>>
        /\ UNCHANGED <<status, killed>>
    BY <1>2 DEF __lock, WaitIn
  <2>2. MutexTypeOK' /\ \A g \in Fibers : waits'[g] # None \/ held'[g] # {} => Alive(g)'
    BY <1>0, <2>1 DEF OwnInv, MutexTypeOK, Alive
  <2>3. ASSUME Careful, NEW g \in Fibers PROVE WaiterCause(g)'
    <3>1. Stays(g) /\ (g = f => ring'.parent[g] = l)
      BY <2>1, WaitInStays
    <3> QED BY <2>1, <2>3, <3>1, LockFacts DEF WaiterCause, Stays, OwnInv, MutexTypeOK
  <2> QED BY <2>1, <2>2, <2>3 DEF OwnInv, HolderOwns
<1> QED BY <1>1, <1>2

(* The return from a blocked lock call keeps it.                           *)
LEMMA LockReturnOwnInv ==
  ASSUME IInv, OwnInv, NEW f \in Fibers, NEW l \in WaitRings, LockReturn(f, l)
  PROVE  OwnInv'
<1>1. /\ status[f] = "ready" /\ ring.parent[f] = f /\ f # l
      /\ ring' = ring /\ waits[f] = l
      /\ UNCHANGED <<status, killed, owner>> /\ waits' = [waits EXCEPT ![f] = None]
      /\ held' = IF Checks /\ killed[f] THEN held ELSE [held EXCEPT ![f] = @ \cup {l}]
  BY RunningFiber, HeadsFacts DEF LockReturn, acl_ring_detach
<1>2. MutexTypeOK' /\ \A g \in Fibers : waits'[g] # None \/ held'[g] # {} => Alive(g)'
  BY <1>1 DEF OwnInv, MutexTypeOK, Alive
<1>3. ASSUME Careful PROVE HolderOwns' /\ \A g \in Fibers : WaiterCause(g)'
  <2>1. owner[l] = f \/ (killed[f] /\ Checks)
    BY <1>1, <1>3, LockFacts DEF OwnInv, WaiterCause
  <2>2. HolderOwns'
    BY <1>1, <1>3, <2>1 DEF OwnInv, HolderOwns, MutexTypeOK
  <2>3. \A g \in Fibers : WaiterCause(g)'
    BY <1>1, <1>3 DEF OwnInv, WaiterCause, MutexTypeOK
  <2> QED BY <2>2, <2>3
<1> QED BY <1>2, <1>3 DEF OwnInv

(* acl_fiber_mutex_unlock keeps it.                                        *)
LEMMA UnlockOwnInv ==
  ASSUME IInv, OwnInv, NEW f \in Fibers, NEW l \in WaitRings,
         acl_fiber_mutex_unlock(f, l)
  PROVE  OwnInv'
<1>1. /\ waits[f] = None /\ l \in held[f] /\ waits' = waits
      /\ held' = [held EXCEPT ![f] = @ \ {l}]
      /\ UNCHANGED <<status, killed>>
  BY DEF acl_fiber_mutex_unlock, WakeFirst, schedVars
<1>2. \/ /\ owner' = [owner EXCEPT ![l] = None] /\ ring' = ring
      \/ /\ WakeFirst(l) /\ First(ring, l) \in Fibers
         /\ owner' = [owner EXCEPT ![l] = First(ring, l)]
  BY ReadyFirstKeeps DEF acl_fiber_mutex_unlock, WakeFirst, schedVars
<1>3. MutexTypeOK' /\ \A g \in Fibers : waits'[g] # None \/ held'[g] # {} => Alive(g)'
  BY <1>1, <1>2 DEF OwnInv, MutexTypeOK, Alive
<1>4. ASSUME Careful PROVE HolderOwns' /\ \A g \in Fibers : WaiterCause(g)'
  <2>1. owner[l] = f /\ HolderOwns
    BY <1>1, <1>4 DEF OwnInv, HolderOwns
  <2>2. HolderOwns'
    <3> SUFFICES ASSUME NEW g \in Fibers, NEW k \in held'[g] PROVE owner'[k] = g
      BY DEF HolderOwns
    <3>1. k \in held[g] /\ ~(g = f /\ k = l) /\ owner[k] = g /\ k \in WaitRings
      BY <1>1, <2>1 DEF HolderOwns, OwnInv, MutexTypeOK
    <3>2. k # l
      BY <2>1, <3>1
    <3> QED BY <1>2, <3>1, <3>2 DEF OwnInv, MutexTypeOK
  <2>3. ASSUME NEW g \in Fibers PROVE WaiterCause(g)'
    <3> SUFFICES ASSUME waits[g] # None PROVE WaiterCause(g)'
      BY <1>1 DEF WaiterCause
    <3>1. g # f /\ WaiterCause(g) /\ waits[g] \in WaitRings
      BY <1>1, <1>4 DEF OwnInv, MutexTypeOK
    <3>2. CASE owner[waits[g]] = g
      <4>1. waits[g] # l
        BY <2>1, <3>1, <3>2
      <4> QED BY <1>1, <1>2, <3>1, <3>2, <4>1 DEF WaiterCause, OwnInv, MutexTypeOK
    <3>3. CASE ring.parent[g] = waits[g] /\ owner[waits[g]] # g
      <4>1. CASE owner' = [owner EXCEPT ![l] = None] /\ ring' = ring
        BY <1>1, <3>3, <4>1 DEF WaiterCause
      <4>2. CASE WakeFirst(l) /\ owner' = [owner EXCEPT ![l] = First(ring, l)]
        <5>1. CASE g = First(ring, l)
          <6>1. waits[g] = l
            BY <3>3, <5>1, <4>2, ReadyFirstKeeps DEF WakeFirst
          <6> QED BY <1>1, <4>2, <5>1, <6>1 DEF WaiterCause, OwnInv, MutexTypeOK
        <5>2. CASE g # First(ring, l)
          BY <1>1, <3>1, <3>3, <4>2, <5>2, WakeFirstStays DEF WaiterCause, Stays
        <5> QED BY <5>1, <5>2
      <4> QED BY <1>2, <4>1, <4>2
    <3>4. CASE killed[g] /\ Checks
      BY <1>1, <3>4 DEF WaiterCause
    <3> QED BY <3>1, <3>2, <3>3, <3>4 DEF WaiterCause
  <2> QED BY <2>2, <2>3
<1> QED BY <1>3, <1>4 DEF OwnInv

(* So every step keeps it.                                                 *)
LEMMA NextOwnInv == IInv /\ OwnInv /\ [MutexNext]_mutexVars => OwnInv'
<1> SUFFICES ASSUME IInv, OwnInv, [MutexNext]_mutexVars PROVE OwnInv'
  OBVIOUS
<1>1. CASE UNCHANGED mutexVars
  BY <1>1 DEF mutexVars, schedVars, lockVars, OwnInv, MutexTypeOK, HolderOwns,
              WaiterCause, Alive
<1>2. CASE MutexNext
  BY <1>2, OtherOwnInv, LockOwnInv, LockReturnOwnInv, UnlockOwnInv DEF MutexNext
<1> QED BY <1>1, <1>2

(* Hence it always holds.                                                  *)
LEMMA MutexOwnInv == MutexSpec => []OwnInv
BY InitOwnInv, NextOwnInv, MutexIInv, PTL DEF MutexSpec

(* The lock fields keep the types of the C struct.                         *)
THEOREM MutexTypeCorrect == MutexSpec => []MutexTypeOK
BY MutexOwnInv, PTL DEF OwnInv

(* With careful callers, a lock call that returned a lock made its caller  *)
(* the owner, whatever the number of fibers and locks.                     *)
THEOREM OwnershipSafe == MutexSpec => [](Careful => HolderOwns)
BY MutexOwnInv, PTL DEF OwnInv

(* Two fibers never hold one lock.                                         *)
MutualExclusion ==
  \A f, g \in Fibers : f # g => held[f] \cap held[g] = {}

(* With careful callers two fibers never hold one lock (fiber_lock.c:20-85). *)
THEOREM MutexSafe == MutexSpec => [](Careful => MutualExclusion)
<1>1. OwnInv => (Careful => MutualExclusion)
  BY DEF OwnInv, HolderOwns, MutualExclusion
<1> QED BY <1>1, MutexOwnInv, PTL

-----------------------------------------------------------------------------
(* No lost waiters, whatever the callers and the signals do.               *)

(* No step leaves a waiter at a free lock.                                 *)
LEMMA NextNoLostWaiter ==
  IInv /\ MutexTypeOK /\ NoLostWaiter /\ [MutexNext]_mutexVars => NoLostWaiter'
<1> SUFFICES ASSUME IInv, MutexTypeOK, NoLostWaiter, [MutexNext]_mutexVars,
                    NEW l \in WaitRings, ~NoEntry(ring', l)
             PROVE  owner'[l] # None
  BY DEF NoLostWaiter, NoEntry
<1>2. CASE ~NoEntry(ring, l)
  <2>1. owner[l] # None
    BY <1>2 DEF NoLostWaiter
  <2>2. CASE UNCHANGED lockVars
    BY <2>1, <2>2 DEF lockVars
  <2>3. ASSUME NEW f \in Fibers, NEW k \in WaitRings, __lock(f, k) PROVE owner'[l] # None
    BY <2>1, <2>3, LockFacts DEF __lock, MutexTypeOK
  <2>4. ASSUME NEW f \in Fibers, NEW k \in WaitRings, LockReturn(f, k) PROVE owner'[l] # None
    BY <2>1, <2>4 DEF LockReturn
  <2>5. ASSUME NEW f \in Fibers, NEW k \in WaitRings, acl_fiber_mutex_unlock(f, k)
        PROVE  owner'[l] # None
    <3>1. CASE k = l
      <4>1. First(ring, l) \in Fibers
        BY <1>2, ReadyFirstKeeps
      <4>2. owner' = [owner EXCEPT ![l] = First(ring, l)]
        BY <1>2, <2>5, <3>1 DEF acl_fiber_mutex_unlock
      <4> QED BY <4>1, <4>2, LockFacts DEF MutexTypeOK
    <3>2. CASE k # l
      BY <2>1, <2>5, <3>2 DEF acl_fiber_mutex_unlock, MutexTypeOK
    <3> QED BY <3>1, <3>2
  <2>6. CASE UNCHANGED mutexVars
    BY <2>1, <2>6 DEF mutexVars, lockVars
  <2> QED BY <2>2, <2>3, <2>4, <2>5, <2>6 DEF MutexNext
<1>3. CASE NoEntry(ring, l)
  <2>1. ~NextBut(l)
    BY <1>3, EmptyStays
  <2>2. ring' # ring
    BY <1>3
  <2>3. ~OtherStep
    BY <2>1 DEF OtherStep, NextBut
  <2>4. ASSUME NEW f \in Fibers, NEW k \in WaitRings, __lock(f, k) PROVE owner'[l] # None
    <3>1. WaitIn(f, k) /\ owner[k] # None /\ owner' = owner
      BY <2>2, <2>4 DEF __lock, schedVars
    <3>2. k = l
      BY <2>1, <3>1 DEF NextBut
    <3> QED BY <3>1, <3>2
  <2>5. \A f \in Fibers : \A k \in WaitRings : ~LockReturn(f, k)
    BY <2>2, RunningFiber DEF LockReturn, acl_ring_detach
  <2>6. \A f \in Fibers : \A k \in WaitRings : ~acl_fiber_mutex_unlock(f, k)
    BY <2>1, <2>2 DEF acl_fiber_mutex_unlock, NextBut, schedVars
  <2> QED BY <2>2, <2>3, <2>4, <2>5, <2>6 DEF MutexNext, mutexVars, schedVars
<1> QED BY <1>2, <1>3

(* Nobody waits for a free lock, whatever the callers do and whoever is    *)
(* signalled.                                                              *)
THEOREM NoLostWaiterSafe == MutexSpec => []NoLostWaiter
<1>1. MutexInit => NoLostWaiter
  BY LockFacts DEF MutexInit, Init, NoLostWaiter, NoEntry, acl_ring_init, Nodes, Heads
<1> QED BY <1>1, NextNoLostWaiter, MutexIInv, MutexTypeCorrect, PTL DEF MutexSpec
-----------------------------------------------------------------------------
(* The locks implement first-come first-served locks.                      *)

(* The waiting rings are queues under the mutex too.                       *)
LEMMA MutexQInv == MutexSpec => []QInv
<1>1. MutexInit => QInv
  BY InitQInv DEF MutexInit
<1>2. IInv /\ QInv /\ [MutexNext]_mutexVars => QInv'
  BY MutexStepIsSchedStep, NextQInv
<1> QED BY <1>1, <1>2, MutexIInv, PTL DEF MutexSpec

(* The queue of each lock.                                                 *)
lockQueue == [l \in WaitRings |-> Walk(ring, l)]

(* A step that does not touch the owners leaves the queues as they are, or *)
(* takes a waiter that is signalled out of its queue.                      *)
LEMMA OtherMaps ==
  ASSUME IInv, QInv, OtherStep, UNCHANGED lockVars
  PROVE  FifoLock!Next \/ UNCHANGED FifoLock!fifoVars
<1> DEFINE Same == \A l \in WaitRings : Walk(ring', l) = Walk(ring, l)
<1>0. Queues(ring) /\ WaitRings \subseteq Heads \ {Ready} /\ owner' = owner
  BY HeadsFacts DEF QInv, lockVars
<1>1. ASSUME Same PROVE UNCHANGED FifoLock!fifoVars
  BY <1>0, <1>1 DEF FifoLock!fifoVars
<1>2. CASE acl_fiber_schedule
  BY <1>0, <1>1, <1>2, ScheduleQueues
<1>3. ASSUME NEW f \in Fibers, Create(f) \/ fiber_exit(f) PROVE Same
  BY <1>3, CreateQueues, ExitQueues DEF QInv
<1>4. ASSUME NEW f \in Fibers, acl_fiber_yield(f) \/ Suspend(f) \/ Wake(f) PROVE Same
  <2>1. acl_fiber_yield(f) => Same
    BY <1>0, YieldQueues
  <2>2. Suspend(f) => Same
    BY <1>0, SwitchQueues DEF Suspend
  <2>3. Wake(f) => Same
    BY <1>0, WakeQueues
  <2> QED BY <1>4, <2>1, <2>2, <2>3
<1>5. ASSUME NEW f \in Fibers, NEW g \in Fibers, NEW sig \in Signals,
             acl_fiber_signal(f, g, sig)
      PROVE  FifoLock!Next \/ UNCHANGED FifoLock!fifoVars
  <2>1. CASE f = g
    <3>1. ring' = ring
      BY <1>5, <2>1 DEF acl_fiber_signal
    <3> QED BY <1>1, <3>1
  <2>2. CASE f # g
    <3>1. \A l \in WaitRings : /\ Walk(ring', l) = Without(Walk(ring, l), g)
                               /\ ring.parent[g] # l => Walk(ring', l) = Walk(ring, l)
      BY <1>0, <1>5, <2>2, SignalQueues
    <3>2. CASE ring.parent[g] \notin WaitRings
      BY <1>1, <3>1, <3>2
    <3>3. CASE ring.parent[g] \in WaitRings
      <4> DEFINE w == ring.parent[g]
      <4>1. lockQueue' = [lockQueue EXCEPT ![w] = Without(@, g)]
        <5> HIDE DEF w
        <5>1. \A l \in WaitRings :
                Walk(ring', l) = IF l = w THEN Without(Walk(ring, l), g) ELSE Walk(ring, l)
          BY <3>1 DEF w
        <5> QED BY <5>1 DEF lockQueue
      <4>2. FifoLock!Leave(g, w)
        BY <1>0, <4>1 DEF FifoLock!Leave, lockQueue, FifoLock!Without, Without
      <4> QED BY <3>3, <4>2 DEF FifoLock!Next
    <3> QED BY <3>2, <3>3
  <2> QED BY <2>1, <2>2
<1> QED BY <1>1, <1>2, <1>3, <1>4, <1>5 DEF OtherStep

(* acl_fiber_mutex_lock takes a free lock, whose queue is empty, or queues *)
(* its caller up.                                                          *)
LEMMA LockMaps ==
  ASSUME IInv, QInv, MutexTypeOK, NoLostWaiter,
         NEW f \in Fibers, NEW l \in WaitRings, __lock(f, l)
  PROVE  FifoLock!Take(f, l) \/ FifoLock!Wait(f, l)
<1>0. Queues(ring) /\ l \in Heads
  BY HeadsFacts DEF QInv
<1>1. CASE owner[l] = None /\ UNCHANGED schedVars /\ owner' = [owner EXCEPT ![l] = f]
  <2>1. NoEntry(ring, l)
    BY <1>1 DEF NoLostWaiter
  <2>2. Walk(ring, l) = << >>
    BY <1>0, <2>1, QueueFacts
  <2> QED BY <1>1, <2>2 DEF FifoLock!Take, schedVars
<1>2. CASE owner[l] # None /\ WaitIn(f, l) /\ owner' = owner
  <2>1. /\ Walk(ring', l) = Append(Walk(ring, l), f)
        /\ \A g \in Heads \ {Ready, l} : Walk(ring', g) = Walk(ring, g)
    BY <1>0, <1>2, WaitInQueues
  <2>2. \A k \in WaitRings :
          Walk(ring', k) = IF k = l THEN Append(Walk(ring, k), f) ELSE Walk(ring, k)
    BY <2>1, HeadsFacts
  <2>3. lockQueue' = [lockQueue EXCEPT ![l] = Append(@, f)]
    BY <2>2 DEF lockQueue
  <2> QED BY <1>2, <2>3 DEF FifoLock!Wait, lockQueue
<1> QED BY <1>1, <1>2 DEF __lock

(* acl_fiber_mutex_unlock hands the lock to the head of its queue.         *)
LEMMA UnlockMaps ==
  ASSUME IInv, QInv, MutexTypeOK,
         NEW f \in Fibers, NEW l \in WaitRings, acl_fiber_mutex_unlock(f, l)
  PROVE  FifoLock!Release(l)
<1>0. Queues(ring) /\ l \in Heads /\ owner[l] # None
  BY HeadsFacts DEF QInv, acl_fiber_mutex_unlock
<1>1. CASE NoEntry(ring, l) /\ UNCHANGED schedVars /\ owner' = [owner EXCEPT ![l] = None]
  <2>1. Walk(ring, l) = << >>
    BY <1>0, <1>1, QueueFacts
  <2> QED BY <1>0, <1>1, <2>1 DEF FifoLock!Release, schedVars
<1>2. CASE WakeFirst(l) /\ owner' = [owner EXCEPT ![l] = First(ring, l)]
  <2>1. /\ Walk(ring, l) # << >> /\ First(ring, l) = Head(Walk(ring, l))
        /\ Walk(ring', l) = Tail(Walk(ring, l))
        /\ \A h \in Heads \ {Ready, l} : Walk(ring', h) = Walk(ring, h)
    BY <1>0, <1>2, WakeFirstQueues DEF WakeFirst
  <2>2. \A k \in WaitRings :
          Walk(ring', k) = IF k = l THEN Tail(Walk(ring, k)) ELSE Walk(ring, k)
    BY <2>1, HeadsFacts
  <2>3. lockQueue' = [lockQueue EXCEPT ![l] = Tail(@)]
    BY <2>2 DEF lockQueue
  <2>4. lockQueue[l] = Walk(ring, l)
    BY DEF lockQueue
  <2> QED BY <1>0, <1>2, <2>1, <2>3, <2>4 DEF FifoLock!Release, lockQueue
<1> QED BY <1>1, <1>2 DEF acl_fiber_mutex_unlock

(* Every step of the mutex is a step of those locks or none.               *)
LEMMA MutexNextMaps ==
  IInv /\ QInv /\ MutexTypeOK /\ NoLostWaiter /\ [MutexNext]_mutexVars
    => [FifoLock!Next]_(FifoLock!fifoVars)
<1> SUFFICES ASSUME IInv, QInv, MutexTypeOK, NoLostWaiter, [MutexNext]_mutexVars
             PROVE  FifoLock!Next \/ UNCHANGED FifoLock!fifoVars
  OBVIOUS
<1>1. CASE UNCHANGED mutexVars
  BY <1>1 DEF mutexVars, schedVars, lockVars, FifoLock!fifoVars
<1>2. CASE OtherStep /\ UNCHANGED lockVars
  BY <1>2, OtherMaps
<1>3. ASSUME NEW f \in Fibers, NEW l \in WaitRings, __lock(f, l) PROVE FifoLock!Next
  BY <1>3, LockMaps DEF FifoLock!Next
<1>4. ASSUME NEW f \in Fibers, NEW l \in WaitRings, LockReturn(f, l)
      PROVE  UNCHANGED FifoLock!fifoVars
  <2>1. ring' = ring
    BY <1>4, RunningFiber DEF LockReturn, acl_ring_detach
  <2> QED BY <1>4, <2>1 DEF LockReturn, FifoLock!fifoVars
<1>5. ASSUME NEW f \in Fibers, NEW l \in WaitRings, acl_fiber_mutex_unlock(f, l)
      PROVE  FifoLock!Next
  BY <1>5, UnlockMaps DEF FifoLock!Next
<1> QED BY <1>1, <1>2, <1>3, <1>4, <1>5 DEF MutexNext

(* A lock that is released goes to the one that waits for it longest, in   *)
(* the same step: nobody overtakes, whatever the callers do (fiber_lock.c: *)
(* 20-85).                                                                 *)
THEOREM FifoLocksRefined == MutexSpec => ImplementsFifoLocks
<1>1. MutexInit => FifoLock!Init
  <2> SUFFICES ASSUME MutexInit PROVE FifoLock!Init
    OBVIOUS
  <2>1. Queues(ring)
    BY InitQInv DEF MutexInit, QInv
  <2>2. \A l \in WaitRings : NoEntry(ring, l)
    BY HeadsFacts DEF MutexInit, Init, NoEntry, acl_ring_init, Nodes
  <2>3. \A l \in WaitRings : Walk(ring, l) = << >>
    BY <2>1, <2>2, QueueFacts, HeadsFacts
  <2> QED BY <2>3 DEF MutexInit, FifoLock!Init
<1> QED
  BY <1>1, MutexNextMaps, MutexIInv, MutexQInv, MutexTypeCorrect, NoLostWaiterSafe, PTL
     DEF MutexSpec, ImplementsFifoLocks, FifoLock!Spec
=============================================================================
