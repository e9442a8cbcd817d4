------------------------------- MODULE Mailbox -------------------------------
(***************************************************************************)
(* What ACL_MBOX promises: one queue, to which any thread appends and from *)
(* which one thread takes the oldest message, or nothing when it gives up. *)
(***************************************************************************)
EXTENDS Sequences

CONSTANTS Msgs, Nil

VARIABLES
  queue,  \* the messages sent and not yet received, oldest first
  ret     \* what the last receive returned

mailVars == <<queue, ret>>

Init == queue = << >> /\ ret = Nil

Put(m) == queue' = Append(queue, m) /\ UNCHANGED ret

Take == /\ queue # << >>
        /\ ret' = Head(queue)
        /\ queue' = Tail(queue)

GiveUp == ret' = Nil /\ UNCHANGED queue

Next == (\E m \in Msgs : Put(m)) \/ Take \/ GiveUp

Spec == Init /\ [][Next]_mailVars
=============================================================================
