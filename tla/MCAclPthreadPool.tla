-------------------------- MODULE MCAclPthreadPool --------------------------
(* Small instances of AclPthreadPool for TLC. *)
EXTENDS AclPthreadPool, TLC

CONSTANTS w1, w2, w3, c1, c2

MCWorkers == {w1, w2}
MCThree   == {w1, w2, w3}
MCClients == {c1, c2}
MCSafe    == {{"expire"}, {"batch"}, {"batch", "nothread"}, {"noinit"}}
MCInit    == {{"noinit"}}
MCBoth    == {{"expire", "batch"}}
=============================================================================
