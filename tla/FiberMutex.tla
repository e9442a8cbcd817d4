----------------------------- MODULE FiberMutex ------------------------------
(***************************************************************************)
(* The fiber mutex (ACL_FIBER_MUTEX, fiber_lock.c) on top of the scheduler *)
(* of FiberSched.  A lock is named by the head of its waiting ring, so     *)
(* WaitRings is the set of locks.  A fiber that blocks in __lock is        *)
(* suspended in the middle of the function: waits says in which lock, and  *)
(* LockReturn is the rest of the function.                                 *)
(*                                                                         *)
(* The callers are part of the model: they unlock only what they believe   *)
(* to hold, end only after they released everything, and do not lock what  *)
(* they hold.  acl_fiber_mutex_lock returns nothing; a caller that must    *)
(* survive a kill tests acl_fiber_killed afterwards, as                    *)
(* samples/fiber_kill/main.c does: that is what Checks selects.            *)
(***************************************************************************)
EXTENDS FiberSched

CONSTANT Checks  \* callers test acl_fiber_killed when a lock call returns

ASSUME ChecksAssumption == Checks \in BOOLEAN

None == Original  \* the NULL owner, which is also what running is in C

VARIABLES
  owner,  \* ACL_FIBER_MUTEX.owner
  waits,  \* the lock whose __lock call the fiber is suspended in, or None
  held    \* the locks a fiber believes it holds

lockVars  == <<owner, waits, held>>
mutexVars == <<schedVars, lockVars>>

MutexInit ==
  /\ Init
  /\ owner = [l \in WaitRings |-> None]
  /\ waits = [f \in Fibers |-> None]
  /\ held = [f \in Fibers |-> {}]

-----------------------------------------------------------------------------
(* acl_fiber_mutex_lock up to its return or its switch.  A trylock is the  *)
(* first branch, or nothing at all.                                        *)
__lock(f, l) ==
  /\ running = f /\ waits[f] = None
  /\ l \notin held[f]
  /\ \/ /\ owner[l] = None
        /\ owner' = [owner EXCEPT ![l] = f]
        /\ held' = [held EXCEPT ![f] = @ \cup {l}]
        /\ UNCHANGED <<schedVars, waits>>
     \/ /\ owner[l] # None
        /\ WaitIn(f, l)
        /\ waits' = [waits EXCEPT ![f] = l]
        /\ UNCHANGED <<owner, held>>

(* The rest of __lock, after somebody switched back to the fiber.  Whether *)
(* it owns the lock or was only woken by a signal, it returns 1.           *)
LockReturn(f, l) ==
  /\ running = f /\ waits[f] = l
  /\ ring' = acl_ring_detach(ring, f)
  /\ waits' = [waits EXCEPT ![f] = None]
  /\ held' = IF Checks /\ killed[f] THEN held
             ELSE [held EXCEPT ![f] = @ \cup {l}]
  /\ UNCHANGED <<running, status, killed, signum, fibers, slot, scheduled, owner>>

(* Faulty variants of acl_fiber_mutex_unlock.                               *)
Unlocker(f, l) ==
  /\ running = f /\ waits[f] = None
  /\ l \in held[f]
  /\ owner[l] # None
  /\ held' = [held EXCEPT ![f] = @ \ {l}]
  /\ UNCHANGED waits

(* The lock is free while the waiter is on its way.                        *)
UnlockBarging(f, l) ==
  /\ Unlocker(f, l)
  /\ owner' = [owner EXCEPT ![l] = None]
  /\ IF NoEntry(ring, l) THEN UNCHANGED schedVars ELSE WakeFirst(l)

(* Nobody is woken.                                                        *)
UnlockSilently(f, l) ==
  /\ Unlocker(f, l)
  /\ owner' = [owner EXCEPT ![l] = None]
  /\ UNCHANGED schedVars

(* The lock goes straight to the first waiter, which owns it before it     *)
(* runs again.  With a NULL owner the code aborts: no action.              *)
acl_fiber_mutex_unlock(f, l) ==
  /\ running = f /\ waits[f] = None
  /\ l \in held[f]
  /\ owner[l] # None
  /\ held' = [held EXCEPT ![f] = @ \ {l}]
  /\ \/ /\ NoEntry(ring, l)
        /\ owner' = [owner EXCEPT ![l] = None]
        /\ UNCHANGED schedVars
     \/ /\ WakeFirst(l)
        /\ owner' = [owner EXCEPT ![l] = First(ring, l)]
  /\ UNCHANGED waits

(* Everything else the running context may do when it is not inside __lock.*)
AtTop == running \in Fibers => waits[running] = None

OtherStep ==
  \/ acl_fiber_schedule
  \/ /\ AtTop
     /\ \E f \in Fibers :
          \/ Create(f)
          \/ acl_fiber_yield(f)
          \/ Suspend(f)
          \/ fiber_exit(f) /\ held[f] = {}
          \/ Wake(f)
          \/ \E g \in Fibers, sig \in Signals : acl_fiber_signal(f, g, sig)

MutexNext ==
  \/ OtherStep /\ UNCHANGED lockVars
  \/ \E f \in Fibers, l \in WaitRings :
       __lock(f, l) \/ LockReturn(f, l) \/ acl_fiber_mutex_unlock(f, l)

MutexSpec == MutexInit /\ [][MutexNext]_mutexVars

(* The thread keeps running; a holder that gets the thread again and again *)
(* unlocks in the end, and a suspended fiber is woken in the end: without  *)
(* that no lock can promise anything to those that wait for it.            *)
MutexFairSpec ==
  /\ MutexSpec
  /\ WF_mutexVars(MutexNext)
  /\ \A f \in Fibers, l \in WaitRings : SF_mutexVars(acl_fiber_mutex_unlock(f, l))
  /\ \A g \in Fibers : SF_mutexVars(AtTop /\ Wake(g) /\ UNCHANGED lockVars)

-----------------------------------------------------------------------------
(* The lock state has the type of its C fields.                            *)
MutexTypeOK ==
  /\ owner \in [WaitRings -> Fibers \cup {None}]
  /\ waits \in [Fibers -> WaitRings \cup {None}]
  /\ held \in [Fibers -> SUBSET WaitRings]

(* A fiber to which acl_fiber_mutex_lock returned owns the lock until it   *)
(* unlocks (lib_fiber.h:228-232, and the owner of 241-246): hence two      *)
(* fibers never hold one lock, and unlock never meets a NULL owner.        *)
HolderOwns == \A f \in Fibers : \A l \in held[f] : owner[l] = f

(* Nobody waits for a lock that is free: unlock and the detaching of       *)
(* killed waiters never leave a waiter behind (fiber_lock.c:79-84).        *)
NoLostWaiter == \A l \in WaitRings : ~NoEntry(ring, l) => owner[l] # None

(* While nobody is signalled, a fiber that waits for a lock gets it, if no *)
(* fiber waits for one lock while it holds another: nothing in the code    *)
(* keeps two fibers from waiting for each other.                           *)
OneLockEach == \A f \in Fibers : waits[f] # None => held[f] = {}

WaiterServed ==
  []Unsignalled /\ []OneLockEach =>
    \A f \in Fibers : \A l \in WaitRings : waits[f] = l ~> l \in held[f]

(* The locks implement first-come first-served locks: a free lock has an   *)
(* empty queue, and a lock that is released goes to the longest waiter.    *)
FifoLock == INSTANCE FifoLocks WITH
  Locks <- WaitRings, queue <- [l \in WaitRings |-> Walk(ring, l)]

ImplementsFifoLocks == FifoLock!Spec
=============================================================================
