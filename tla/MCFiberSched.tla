---------------------------- MODULE MCFiberSched -----------------------------
(* Small instances of FiberSched for TLC. *)
EXTENDS FiberSched, TLC

CONSTANTS f1, f2, f3, kill, Lock

MCFibers   == {f1, f2, f3}
MCRings    == {Lock}
MCSignals  == {kill}
MCNone     == {}
=============================================================================
