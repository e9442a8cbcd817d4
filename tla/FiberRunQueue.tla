---------------------------- MODULE FiberRunQueue ----------------------------
(***************************************************************************)
(* What the fiber scheduler promises, without rings, tables or reuse of    *)
(* memory: one first-in first-out queue of the fibers that can run, of     *)
(* which the running one is not a member.  Nothing leaves the queue except *)
(* by being run, and only a signal lets a fiber jump it.                   *)
(***************************************************************************)
EXTENDS QueueOps

CONSTANTS Fibers, None

VARIABLES
  queue,    \* the fibers that can run, oldest first
  current,  \* the one that runs, or None
  phase     \* "absent", "queued", "running" or "parked"

runVars == <<queue, current, phase>>

Init ==
  /\ queue = << >>
  /\ current = None
  /\ phase = [f \in Fibers |-> "absent"]

(* Give the thread to the head of q, the others keep their order.          *)
HandOver(q, ph) ==
  IF q = << >>
  THEN queue' = q /\ current' = None /\ phase' = ph
  ELSE /\ queue' = Tail(q)
       /\ current' = Head(q)
       /\ phase' = [ph EXCEPT ![Head(q)] = "running"]

Spawn(f) ==
  /\ phase[f] = "absent"
  /\ queue' = Append(queue, f)
  /\ phase' = [phase EXCEPT ![f] = "queued"]
  /\ UNCHANGED current

Dispatch == current = None /\ queue # << >> /\ HandOver(queue, phase)

Rotate(f) ==
  /\ current = f
  /\ HandOver(Append(queue, f), [phase EXCEPT ![f] = "queued"])

Park(f) ==
  /\ current = f
  /\ HandOver(queue, [phase EXCEPT ![f] = "parked"])

Unpark(g) ==
  /\ phase[g] = "parked"
  /\ queue' = Append(queue, g)
  /\ phase' = [phase EXCEPT ![g] = "queued"]
  /\ UNCHANGED current

(* A signal: g runs at once and f right after it.                          *)
Jump(f, g) ==
  /\ current = f /\ g # f
  /\ phase[g] \in {"queued", "parked"}
  /\ queue' = <<f>> \o Without(queue, g)
  /\ current' = g
  /\ phase' = [phase EXCEPT ![f] = "queued", ![g] = "running"]

Finish(f) ==
  /\ current = f
  /\ HandOver(queue, [phase EXCEPT ![f] = "absent"])

Next ==
  \/ Dispatch
  \/ \E f \in Fibers : Spawn(f) \/ Rotate(f) \/ Park(f) \/ Unpark(f) \/ Finish(f)
  \/ \E f, g \in Fibers : Jump(f, g)

Spec == Init /\ [][Next]_runVars
=============================================================================
