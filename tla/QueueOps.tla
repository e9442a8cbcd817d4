------------------------------ MODULE QueueOps -------------------------------
(* An operation on queues that the abstract specifications share. *)
EXTENDS Integers, Sequences

(* The queue q without the member x, the others in their order.            *)
Without(q, x) ==
  IF \E i \in 1 .. Len(q) : q[i] = x
  THEN LET at == CHOOSE i \in 1 .. Len(q) : q[i] = x
       IN  [i \in 1 .. Len(q) - 1 |-> IF i < at THEN q[i] ELSE q[i + 1]]
  ELSE q
=============================================================================
