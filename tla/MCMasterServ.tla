---------------------------- MODULE MCMasterServ ----------------------------
(* Small instances of MasterServ for TLC. *)
EXTENDS MasterServ, TLC

CONSTANTS p1, p2, p3, p4

MCPids     == {p1, p2, p3, p4}
MCThree    == {p1, p2, p3}
MCServices == {[prefork |-> 0, max |-> 2, removed |-> TRUE],
               [prefork |-> 1, max |-> 2, removed |-> FALSE],
               [prefork |-> 0, max |-> 1, removed |-> FALSE]}
MCPreforks == {[prefork |-> 2, max |-> 2, removed |-> FALSE]}
MCRemoved  == {[prefork |-> 1, max |-> 2, removed |-> TRUE]}
=============================================================================
