---------------------------- MODULE MCAclAqueue ------------------------------
(* Small instances of AclAqueue for TLC. *)
EXTENDS AclAqueue

CONSTANTS p1, p2, p3, s1, s2, i1, i2, i3, m1, m2

MCPoppers == {p1, p2}
MCMorePoppers == {p1, p2, p3}
MCPushers == {s1, s2}
MCItems   == {i1, i2, i3}
MCMsgs    == {m1, m2}
=============================================================================
