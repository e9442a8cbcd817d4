----------------------------- MODULE MCFiberSem ------------------------------
(* Small instances of FiberSem for TLC. *)
EXTENDS FiberSem, TLC

CONSTANTS f1, f2, f3, kill

MCFibers   == {f1, f2, f3}
MCRings    == {Sem}
MCKill     == {kill}
MCNone     == {}
MCSymmetry == Permutations(MCFibers)
=============================================================================
