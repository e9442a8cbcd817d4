---------------------------- MODULE MCFiberMutex -----------------------------
(* Small instances of FiberMutex for TLC. *)
EXTENDS FiberMutex, TLC

CONSTANTS f1, f2, f3, kill, l1, l2

MCFibers    == {f1, f2, f3}
MCOneLock   == {l1}
MCTwoLocks  == {l1, l2}
MCKill      == {kill}
MCNone      == {}
MCSymmetry  == Permutations(MCFibers) \cup Permutations(MCTwoLocks)
=============================================================================
