---------------------------- MODULE MCFiberRwlock ----------------------------
(* Small instances of FiberRwlock for TLC. *)
EXTENDS FiberRwlock

CONSTANTS f1, f2, f3

MCFibers   == {f1, f2, f3}
MCRings    == {RWaiting, WWaiting}
MCNone     == {}
=============================================================================
