---------------------------- MODULE FiberChannel -----------------------------
(***************************************************************************)
(* A channel between fibers (ACL_CHANNEL, channel.c) on top of FiberSched. *)
(* Every public operation is channel_op with a single FIBER_ALT, which     *)
(* lives on the stack of the caller; a fiber that blocks leaves that alt   *)
(* in one of the two arrays of the channel and is suspended in the middle  *)
(* of channel_alt, whose rest is ChanReturn.  The arrays are sets here:    *)
(* the peer is picked with rand(), so their order means nothing.           *)
(*                                                                         *)
(* Messages are numbered in the order in which they are sent.  The fibers  *)
(* switch only through the channel and by yielding.                        *)
(***************************************************************************)
EXTENDS FiberSched

CONSTANTS
  Sizes,    \* what acl_channel_create is given for the size of the buffer
  MaxMsgs   \* bound of the model: messages that are ever sent

ASSUME ChannelAssumption == Sizes \subseteq Nat /\ MaxMsgs \in Nat

Msgs == 1 .. MaxMsgs
NoMsg == 0

VARIABLES
  bufsize, \* ACL_CHANNEL.bufsize, 0 for a channel without a buffer
  chan,   \* ACL_CHANNEL: buf, nbuf and off
  asend,  \* the fibers whose alt is in ACL_CHANNEL.asend
  arecv,  \* those whose alt is in ACL_CHANNEL.arecv
  op,     \* the blocking operation a fiber is suspended in: CHANSND, CHANRCV, CHANNOP
  v,      \* FIBER_ALT.v: what that operation sends, or has received so far
  next,   \* the number of the next message
  sent,   \* the messages that left their sender, in order
  taken,  \* the messages copied to a receiver, in order
  result  \* the messages receive calls returned

chanOnly == <<bufsize, chan, asend, arecv, op, v, next, sent, taken, result>>
chanVars == <<schedVars, chanOnly>>

ChanInit ==
  /\ Init
  /\ bufsize \in Sizes
  /\ chan = [buf |-> [i \in 0 .. bufsize - 1 |-> NoMsg], nbuf |-> 0, off |-> 0]
  /\ asend = {} /\ arecv = {}
  /\ op = [f \in Fibers |-> "CHANNOP"]
  /\ v = [f \in Fibers |-> NoMsg]
  /\ next = 1
  /\ sent = << >> /\ taken = << >> /\ result = << >>

-----------------------------------------------------------------------------
(* The halves of alt_copy: receive from the buffer, then send into it.     *)
Oldest == chan.buf[chan.off]

CopyOut(c) ==
  [c EXCEPT !.nbuf = @ - 1, !.off = IF @ + 1 = bufsize THEN 0 ELSE @ + 1]

CopyIn(c, m) ==
  [c EXCEPT !.buf[(c.off + c.nbuf) % bufsize] = m, !.nbuf = @ + 1]

(* What is in the buffer, oldest first.                                    *)
Buffered == [i \in 1 .. chan.nbuf |-> chan.buf[(chan.off + i - 1) % bufsize]]

(* Faulty variant of CanRecv: one message is not enough.                    *)
CanRecvTwo == IF bufsize = 0 THEN asend # {} ELSE chan.nbuf > 1

(* alt_can_exec for an operation whose peers wait in array.                *)
CanSend == IF bufsize = 0 THEN arecv # {} ELSE chan.nbuf < bufsize
CanRecv == IF bufsize = 0 THEN asend # {} ELSE chan.nbuf > 0

ChanAtTop == running \in Fibers => op[running] = "CHANNOP"

(* The peer is dequeued and made ready.                                    *)
Release(g) ==
  /\ ring' = acl_fiber_ready(ring, g)
  /\ UNCHANGED <<running, status, killed, signum, fibers, slot, scheduled>>

-----------------------------------------------------------------------------
(* Faulty variant of SendToReceiver: the receiver's alt stays queued.       *)
SendKeepingAlt(g) ==
  /\ CanSend /\ g \in arecv
  /\ sent' = Append(sent, next)
  /\ v' = [v EXCEPT ![g] = next]
  /\ taken' = Append(taken, next)
  /\ Release(g)
  /\ UNCHANGED <<chan, asend, arecv, op>>

(* acl_channel_send: alt_exec with a waiting receiver, alt_exec into the   *)
(* buffer, or alt_queue and a switch.  acl_channel_send_nb is the first    *)
(* two, or nothing.                                                        *)
SendToReceiver(g) ==
  /\ CanSend /\ g \in arecv
  /\ arecv' = arecv \ {g}
  /\ sent' = Append(sent, next)
  /\ IF chan.nbuf = 0
     THEN /\ v' = [v EXCEPT ![g] = next]
          /\ taken' = Append(taken, next)
          /\ UNCHANGED chan
     ELSE /\ v' = [v EXCEPT ![g] = Oldest]
          /\ taken' = Append(taken, Oldest)
          /\ chan' = CopyIn(CopyOut(chan), next)
  /\ Release(g)
  /\ UNCHANGED <<asend, op>>

SendToBuffer ==
  /\ CanSend /\ arecv = {}
  /\ chan' = CopyIn(chan, next)
  /\ sent' = Append(sent, next)
  /\ UNCHANGED <<schedVars, asend, arecv, op, v, taken>>

SendBlock(f) ==
  /\ ~CanSend
  /\ asend' = asend \cup {f}
  /\ op' = [op EXCEPT ![f] = "CHANSND"]
  /\ v' = [v EXCEPT ![f] = next]
  /\ Suspend(f)
  /\ UNCHANGED <<chan, arecv, sent, taken>>

acl_channel_send(f) ==
  /\ running = f /\ ChanAtTop
  /\ next \in Msgs
  /\ next' = next + 1
  /\ (\E g \in Fibers : SendToReceiver(g)) \/ SendToBuffer \/ SendBlock(f)
  /\ UNCHANGED result

(* Faulty variants of RecvFromSender: the sender's message overtakes those  *)
(* in the buffer; the sender's alt stays queued.                           *)
RecvOvertaking(g) ==
  /\ CanRecv /\ g \in asend
  /\ asend' = asend \ {g}
  /\ sent' = Append(sent, v[g])
  /\ taken' = Append(taken, v[g])
  /\ result' = Append(result, v[g])
  /\ Release(g)
  /\ UNCHANGED <<chan, arecv, op, v>>

RecvKeepingAlt(g) ==
  /\ CanRecv /\ g \in asend
  /\ sent' = Append(sent, v[g])
  /\ LET m == IF chan.nbuf = 0 THEN v[g] ELSE Oldest
     IN  taken' = Append(taken, m) /\ result' = Append(result, m)
  /\ chan' = IF chan.nbuf = 0 THEN chan ELSE CopyIn(CopyOut(chan), v[g])
  /\ Release(g)
  /\ UNCHANGED <<asend, arecv, op, v>>

(* acl_channel_recv, in the same way.                                      *)
RecvFromSender(g) ==
  /\ CanRecv /\ g \in asend
  /\ asend' = asend \ {g}
  /\ sent' = Append(sent, v[g])
  /\ LET m == IF chan.nbuf = 0 THEN v[g] ELSE Oldest
     IN  taken' = Append(taken, m) /\ result' = Append(result, m)
  /\ chan' = IF chan.nbuf = 0 THEN chan ELSE CopyIn(CopyOut(chan), v[g])
  /\ Release(g)
  /\ UNCHANGED <<arecv, op, v>>

RecvFromBuffer ==
  /\ CanRecv /\ asend = {}
  /\ chan' = CopyOut(chan)
  /\ taken' = Append(taken, Oldest)
  /\ result' = Append(result, Oldest)
  /\ UNCHANGED <<schedVars, asend, arecv, op, v, sent>>

RecvBlock(f) ==
  /\ ~CanRecv
  /\ arecv' = arecv \cup {f}
  /\ op' = [op EXCEPT ![f] = "CHANRCV"]
  /\ Suspend(f)
  /\ UNCHANGED <<chan, asend, v, sent, taken, result>>

acl_channel_recv(f) ==
  /\ running = f /\ ChanAtTop
  /\ (\E g \in Fibers : RecvFromSender(g)) \/ RecvFromBuffer \/ RecvBlock(f)
  /\ UNCHANGED next

(* The rest of channel_alt after the switch.  A killed fiber gets -1, and  *)
(* its alt stays where it is.                                              *)
ChanReturn(f) ==
  /\ running = f /\ op[f] # "CHANNOP"
  /\ op' = [op EXCEPT ![f] = "CHANNOP"]
  /\ v' = [v EXCEPT ![f] = NoMsg]
  /\ result' = IF op[f] = "CHANRCV" /\ ~killed[f] THEN Append(result, v[f]) ELSE result
  /\ UNCHANGED <<schedVars, chan, asend, arecv, next, sent, taken>>

ChanOtherStep ==
  \/ acl_fiber_schedule
  \/ /\ ChanAtTop
     /\ \E f \in Fibers :
          \/ Create(f)
          \/ acl_fiber_yield(f)
          \/ fiber_exit(f)
          \/ \E g \in Fibers, sig \in Signals : acl_fiber_signal(f, g, sig)

ChanNext ==
  \/ ChanOtherStep /\ UNCHANGED chanOnly
  \/ /\ \E f \in Fibers : acl_channel_send(f) \/ acl_channel_recv(f) \/ ChanReturn(f)
     /\ UNCHANGED bufsize

ChanSpec == ChanInit /\ [][ChanNext]_chanVars

-----------------------------------------------------------------------------
(* The channel state has the type of its C fields.                         *)
ChanTypeOK ==
  /\ bufsize \in Sizes
  /\ chan \in [buf : [0 .. bufsize - 1 -> Msgs \cup {NoMsg}],
               nbuf : 0 .. bufsize, off : 0 .. bufsize]
  /\ asend \subseteq Fibers /\ arecv \subseteq Fibers
  /\ op \in [Fibers -> {"CHANSND", "CHANRCV", "CHANNOP"}]
  /\ v \in [Fibers -> Msgs \cup {NoMsg}]

(* Messages leave the channel in the order in which they entered it, none  *)
(* lost, none twice: what entered is what was taken followed by what is in *)
(* the ring buffer (the off and nbuf arithmetic of channel.c:182-194).     *)
FifoDelivery == sent = taken \o Buffered /\ IsInjective(sent)

(* Nobody is blocked who need not be: senders wait only at a full channel, *)
(* receivers only at an empty one, and never both (channel.c:66-88).       *)
NobodyBlockedNeedlessly ==
  /\ asend # {} => chan.nbuf = bufsize /\ arecv = {}
  /\ arecv # {} => chan.nbuf = 0

(* The alts in the arrays are those of the fibers that are suspended in    *)
(* channel_alt, and nobody else's: "the guy who ran the op took care of    *)
(* dequeueing us" (channel.c:303-306).  An alt that outlives its call is a *)
(* pointer into a stack that was left.                                     *)
QueuedAreSuspended ==
  \A f \in Fibers :
    /\ f \in asend <=> op[f] = "CHANSND" /\ Suspended(f)
    /\ f \in arecv <=> op[f] = "CHANRCV" /\ Suspended(f)

(* A blocked operation resumes only after it was carried out: a sender's   *)
(* message is in the channel, a receiver has one; and no message is given  *)
(* to two receivers, nor lost between the copy and the return.             *)
InHand == {f \in Fibers : op[f] = "CHANRCV" /\ f \notin arecv}

DeliveredOnce ==
  /\ \A f \in Fibers : op[f] = "CHANSND" /\ f \notin asend => v[f] \in Range(sent)
  /\ Range(taken) = Range(result) \cup {v[f] : f \in InHand}
  /\ Len(taken) = Len(result) + Cardinality(InHand)
=============================================================================
