------------------------------ MODULE MCFiberIO ------------------------------
(* Small instances of FiberIO for TLC. *)
EXTENDS FiberIO

CONSTANTS f1, f2, f3, a, b, kill

MCFibers2 == {Io, f1, f2}
MCFibers3 == {Io, f1, f2, f3}
MCRings   == {Timer}
MCFds     == {a, b}
MCKill    == {kill}
MCNone    == {}
=============================================================================
