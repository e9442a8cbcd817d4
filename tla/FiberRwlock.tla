----------------------------- MODULE FiberRwlock -----------------------------
(***************************************************************************)
(* The fiber read/write lock (ACL_FIBER_RWLOCK, fiber_lock.c) on top of    *)
(* FiberSched, down to the links of its two waiting rings.  To let a       *)
(* waiter go, the unlock functions detach the head of the ring instead of  *)
(* the waiter (fiber_lock.c:176, 197 and 203); acl_ring_detach does        *)
(* nothing for a head, and the waiter is put in the ready ring while the   *)
(* waiting ring still refers to it.                                        *)
(*                                                                         *)
(* RwTrySpec is the lock as clients use it that call only the try          *)
(* functions; RwSpec has the blocking calls too.                           *)
(***************************************************************************)
EXTENDS FiberSched

CONSTANTS
  RWaiting, WWaiting, \* the heads of rwaiting and wwaiting
  MaxReaders          \* bound of the model: readers saturates there

ASSUME RwlockAssumption ==
  /\ RWaiting # WWaiting
  /\ {RWaiting, WWaiting} \subseteq WaitRings
  /\ MaxReaders \in Nat

None == Original

VARIABLES
  readers,  \* ACL_FIBER_RWLOCK.readers
  writer,   \* ACL_FIBER_RWLOCK.writer
  waits,    \* what the fiber is suspended for in __rlock or __wlock
  has,      \* what the fiber believes it holds
  looping   \* the running fiber is in the loop of acl_fiber_rwlock_wunlock

rwVars     == <<readers, writer, waits, has, looping>>
rwlockVars == <<schedVars, rwVars>>

RwInit ==
  /\ Init
  /\ readers = 0 /\ writer = None
  /\ waits = [f \in Fibers |-> "none"]
  /\ has = [f \in Fibers |-> "none"]
  /\ looping = FALSE

(* A fiber that is in no call of the lock.                                 *)
Calls(f) == running = f /\ Alive(f) /\ waits[f] = "none" /\ ~looping

-----------------------------------------------------------------------------
ReadFree  == writer = None /\ NoEntry(ring, WWaiting)
WriteFreeUntested == writer = None  \* faulty variant: readers is not tested
WriteFree == writer = None /\ readers = 0

acl_fiber_rwlock_tryrlock(f) ==
  /\ Calls(f) /\ has[f] = "none" /\ ReadFree
  /\ readers' = readers + 1
  /\ has' = [has EXCEPT ![f] = "read"]
  /\ UNCHANGED <<schedVars, writer, waits, looping>>

acl_fiber_rwlock_trywlock(f) ==
  /\ Calls(f) /\ has[f] = "none" /\ WriteFree
  /\ writer' = f
  /\ has' = [has EXCEPT ![f] = "write"]
  /\ UNCHANGED <<schedVars, readers, waits, looping>>

(* The blocking parts of __rlock and __wlock, and what follows them once   *)
(* somebody switched back.                                                 *)
Block(f, w, kind) ==
  /\ Calls(f) /\ has[f] = "none"
  /\ WaitIn(f, w)
  /\ waits' = [waits EXCEPT ![f] = kind]
  /\ UNCHANGED <<readers, writer, has, looping>>

LockReturn(f) ==
  /\ running = f /\ waits[f] # "none" /\ ~looping
  /\ ring' = acl_ring_detach(ring, f)
  /\ has' = [has EXCEPT ![f] = waits[f]]
  /\ waits' = [waits EXCEPT ![f] = "none"]
  /\ UNCHANGED <<running, status, killed, signum, fibers, slot, scheduled>>
  /\ UNCHANGED <<readers, writer, looping>>

-----------------------------------------------------------------------------
(* FIRST_FIBER, the detach of the head, and acl_fiber_ready.               *)
ReadyKept(w) ==
  /\ ring' = acl_fiber_ready(acl_ring_detach(ring, w), First(ring, w))
  /\ UNCHANGED <<running, status, killed, signum, fibers, slot, scheduled>>

GrantWriter(r) ==
  IF r = 0 /\ ~NoEntry(ring, WWaiting)
  THEN /\ First(ring, WWaiting) \in Fibers
       /\ writer' = First(ring, WWaiting)
       /\ ReadyKept(WWaiting)
  ELSE UNCHANGED <<schedVars, writer>>

acl_fiber_rwlock_runlock(f) ==
  /\ Calls(f) /\ has[f] = "read"
  /\ has' = [has EXCEPT ![f] = "none"]
  /\ readers' = readers - 1
  /\ GrantWriter(readers - 1)
  /\ UNCHANGED <<waits, looping>>

(* acl_fiber_rwlock_wunlock up to its loop; it aborts when there are       *)
(* readers.                                                                *)
acl_fiber_rwlock_wunlock(f) ==
  /\ Calls(f) /\ has[f] = "write"
  /\ writer # None /\ readers = 0
  /\ writer' = None
  /\ has' = [has EXCEPT ![f] = "none"]
  /\ looping' = TRUE
  /\ UNCHANGED <<schedVars, readers, waits>>

(* One turn of the loop.                                                   *)
GrantReader ==
  /\ looping /\ ~NoEntry(ring, RWaiting)
  /\ First(ring, RWaiting) \in Fibers
  /\ readers' = IF readers < MaxReaders THEN readers + 1 ELSE readers
  /\ ReadyKept(RWaiting)
  /\ UNCHANGED <<writer, waits, has, looping>>

(* The rest of the function.                                               *)
WunlockReturn ==
  /\ looping /\ NoEntry(ring, RWaiting)
  /\ GrantWriter(readers)
  /\ looping' = FALSE
  /\ UNCHANGED <<readers, waits, has>>

-----------------------------------------------------------------------------
(* What the running context does besides: fibers end when they hold        *)
(* nothing; nobody is signalled.                                           *)
RwOtherStep ==
  \/ acl_fiber_schedule
  \/ /\ running \in Fibers => Calls(running)
     /\ \E f \in Fibers :
          \/ Create(f)
          \/ acl_fiber_yield(f)
          \/ fiber_exit(f) /\ has[f] = "none"

RwTryNext ==
  \/ RwOtherStep /\ UNCHANGED rwVars
  \/ \E f \in Fibers :
       \/ acl_fiber_rwlock_tryrlock(f) \/ acl_fiber_rwlock_trywlock(f)
       \/ acl_fiber_rwlock_runlock(f)  \/ acl_fiber_rwlock_wunlock(f)
  \/ WunlockReturn

RwNext ==
  \/ RwTryNext
  \/ \E f \in Fibers :
       \/ ~ReadFree /\ Block(f, RWaiting, "read")
       \/ ~WriteFree /\ Block(f, WWaiting, "write")
       \/ LockReturn(f)
  \/ GrantReader

RwTrySpec == RwInit /\ [][RwTryNext]_rwlockVars
RwSpec    == RwInit /\ [][RwNext]_rwlockVars

-----------------------------------------------------------------------------
Holders(kind) == {f \in Fibers : has[f] = kind}

(* A fiber gets the write lock only when no fiber has the lock in either   *)
(* way (lib_fiber.h:274-279).                                              *)
RwExclusion ==
  Holders("write") # {} => Cardinality(Holders("write") \cup Holders("read")) = 1
=============================================================================
