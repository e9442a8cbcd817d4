------------------------------ MODULE MCAclMbox ------------------------------
(* Small instances of AclMbox for TLC. *)
EXTENDS AclMbox

CONSTANTS s1, s2, s3, a, b

MCTwo      == {s1, s2}
MCThree    == {s1, s2, s3}
MCMsgs     == {a, b}
MCOneMsg   == {a}
=============================================================================
