--------------------------- MODULE MCFiberChannel ----------------------------
(* Small instances of FiberChannel for TLC. *)
EXTENDS FiberChannel, TLC

CONSTANTS f1, f2, f3, kill

MCFibers   == {f1, f2, f3}
MCKill     == {kill}
MCNone     == {}
MCSizes    == {0, 1, 2}
MCNoBuffer == {0}
MCSymmetry == Permutations(MCFibers)
=============================================================================
