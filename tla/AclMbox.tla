------------------------------- MODULE AclMbox -------------------------------
(***************************************************************************)
(* The mailbox between threads of lib_acl: ACL_MBOX (acl_mbox.c), which is *)
(* a lock-free pipe, ACL_YPIPE (acl_ypipe.c), and a socket pair on which a *)
(* sender writes one byte when it finds that the reader is asleep.  Any    *)
(* number of threads send, under a lock, and one thread reads.             *)
(*                                                                         *)
(* A slot of the queue under the pipe is named by its position in the      *)
(* whole life of the queue; NULL is 0.  The chunks in which ACL_YQUEUE     *)
(* keeps the slots are not modelled.  One action is what a thread does up  *)
(* to its next access to memory or a socket that another thread uses.      *)
(***************************************************************************)
EXTENDS Integers, FiniteSets

CONSTANTS
  Senders,   \* the threads that send
  Msgs,      \* the messages
  Nil,       \* a slot never written, and the NULL acl_mbox_read returns
  Unlocked,  \* the owner of a lock nobody holds
  MaxMsgs,   \* bound of the model: messages that are ever sent
  MaxWaits   \* bound of the model: nread saturates there

ASSUME MboxAssumption ==
  /\ Nil \notin Msgs
  /\ Unlocked \notin Senders /\ IsFiniteSet(Senders)
  /\ MaxMsgs \in Nat /\ MaxWaits \in Nat

NULL  == 0
Slots == 1 .. MaxMsgs + 1

VARIABLES
  slot,          \* the memory of the queue
  front, back,   \* acl_yqueue_front, acl_yqueue_back (and ACL_YPIPE.f)
  w, r, c,       \* ACL_YPIPE: first unflushed, end of prefetched, shared end
  lock,          \* ACL_MBOX.lock
  bytes,         \* the bytes in the socket
  nsend, nread,  \* the statistics
  spc, seen,     \* where each sender is, and the nsend it loaded
  rpc, timed,    \* where the reader is, and whether its call has a timeout
  ret            \* what its last successful call returned

pipeVars == <<slot, front, back, w, r, c>>
mboxVars == <<pipeVars, lock, bytes, nsend, nread, spc, seen, rpc, timed, ret>>

Init ==
  /\ slot = [i \in Slots |-> Nil]
  /\ front = 1 /\ back = 1
  /\ w = 1 /\ r = 1 /\ c = 1
  /\ lock = Unlocked
  /\ bytes = 0
  /\ nsend = 0 /\ nread = 0
  /\ spc = [s \in Senders |-> "idle"] /\ seen = [s \in Senders |-> 0]
  /\ rpc = "idle" /\ timed = TRUE /\ ret = Nil

Goto(s, here, there) == spc[s] = here /\ spc' = [spc EXCEPT ![s] = there]

readerOnly == <<front, r, nread, rpc, timed, ret>>

-----------------------------------------------------------------------------
(* Faulty variants: the lock is not taken; the byte is written although    *)
(* the reader is awake; it is not written although the reader is asleep.   *)
SendUnlocked(s, m) ==
  /\ Goto(s, "idle", "flush")
  /\ lock' = s
  /\ back < MaxMsgs + 1
  /\ slot' = [slot EXCEPT ![back] = m]
  /\ back' = back + 1
  /\ UNCHANGED <<w, c, bytes, nsend, seen, readerOnly>>

FlushSignals(s) ==
  /\ Goto(s, "flush", "count")
  /\ c = w
  /\ c' = back /\ w' = back
  /\ lock' = Unlocked
  /\ UNCHANGED <<slot, back, bytes, nsend, seen, readerOnly>>

SetSilently(s) ==
  /\ Goto(s, "set", "idle")
  /\ c' = back /\ w' = back
  /\ lock' = Unlocked
  /\ UNCHANGED <<slot, back, bytes, nsend, seen, readerOnly>>

(* acl_mbox_send: the lock and acl_ypipe_write.                            *)
SendWrite(s, m) ==
  /\ Goto(s, "idle", "flush")
  /\ lock = Unlocked /\ lock' = s
  /\ back < MaxMsgs + 1
  /\ slot' = [slot EXCEPT ![back] = m]
  /\ back' = back + 1
  /\ UNCHANGED <<w, c, bytes, nsend, seen, readerOnly>>

(* acl_ypipe_flush: the reader is awake and finds the message.             *)
FlushAwake(s) ==
  /\ Goto(s, "flush", "idle")
  /\ c = w
  /\ c' = back /\ w' = back
  /\ lock' = Unlocked
  /\ UNCHANGED <<slot, back, bytes, nsend, seen, readerOnly>>

(* The compare and swap fails: the reader is asleep.                       *)
FlushAsleep(s) ==
  /\ Goto(s, "flush", "set")
  /\ c # w
  /\ UNCHANGED <<slot, back, w, c, lock, bytes, nsend, seen, readerOnly>>

FlushSet(s) ==
  /\ Goto(s, "set", "count")
  /\ c' = back /\ w' = back
  /\ lock' = Unlocked
  /\ UNCHANGED <<slot, back, bytes, nsend, seen, readerOnly>>

(* nsend++, after the lock was released: a load and a store.               *)
CountLoad(s) ==
  /\ Goto(s, "count", "store")
  /\ seen' = [seen EXCEPT ![s] = nsend]
  /\ UNCHANGED <<slot, back, w, c, lock, bytes, nsend, readerOnly>>

CountStore(s) ==
  /\ Goto(s, "store", "signal")
  /\ nsend' = seen[s] + 1
  /\ seen' = [seen EXCEPT ![s] = 0]
  /\ UNCHANGED <<slot, back, w, c, lock, bytes, readerOnly>>

(* The byte that wakes the reader.                                         *)
SendSignal(s) ==
  /\ Goto(s, "signal", "idle")
  /\ bytes' = bytes + 1
  /\ UNCHANGED <<slot, back, w, c, lock, nsend, seen, readerOnly>>

acl_mbox_send(s) ==
  \/ \E m \in Msgs : SendWrite(s, m)
  \/ FlushAwake(s) \/ FlushAsleep(s) \/ FlushSet(s)
  \/ CountLoad(s) \/ CountStore(s) \/ SendSignal(s)

-----------------------------------------------------------------------------
(* The end of acl_ypipe_read and of the call when there is a message.      *)
TakeFront ==
  /\ ret' = slot[front]
  /\ front' = front + 1
  /\ rpc' = "idle"

(* The first test of acl_ypipe_check_read; it reads the slot at r, which a *)
(* sender may be writing.                                                  *)
Prefetched == front # r /\ r # NULL /\ slot[r] # Nil

senderOnly == <<slot, back, w, lock, nsend, spc, seen>>

(* acl_mbox_read is called.                                                *)
ReadBegin(t) ==
  /\ rpc = "idle"
  /\ timed' = t
  /\ \/ Prefetched /\ TakeFront
     \/ ~Prefetched /\ rpc' = "cas" /\ UNCHANGED <<front, ret>>
  /\ UNCHANGED <<r, c, bytes, nread, senderOnly>>

(* The compare and swap of acl_ypipe_check_read: with nothing to read, c   *)
(* becomes NULL, which tells the senders that the reader goes to sleep.    *)
CheckCas ==
  /\ r' = c
  /\ c' = IF c = front THEN NULL ELSE c

Empty == c = front \/ c = NULL

ReadCas ==
  /\ rpc = "cas"
  /\ CheckCas
  /\ \/ /\ ~Empty /\ TakeFront
        /\ UNCHANGED nread
     \/ /\ Empty /\ rpc' = "wait"
        /\ nread' = IF nread < MaxWaits THEN nread + 1 ELSE nread
        /\ UNCHANGED <<front, ret>>
  /\ UNCHANGED <<bytes, timed, senderOnly>>

(* acl_vstream_readn returns a byte, or times out.                         *)
ReadByte ==
  /\ rpc = "wait" /\ bytes > 0
  /\ bytes' = bytes - 1
  /\ rpc' = "again"
  /\ UNCHANGED <<front, r, c, nread, timed, ret, senderOnly>>

ReadTimeout ==
  /\ rpc = "wait" /\ bytes = 0
  /\ timed
  /\ rpc' = "idle" /\ ret' = Nil
  /\ UNCHANGED <<front, r, c, bytes, nread, timed, senderOnly>>

(* acl_ypipe_read once more; what it returns, the call returns.            *)
ReadAgain ==
  /\ rpc = "again"
  /\ \/ Prefetched /\ TakeFront
     \/ ~Prefetched /\ rpc' = "recas" /\ UNCHANGED <<front, ret>>
  /\ UNCHANGED <<r, c, bytes, nread, timed, senderOnly>>

ReadRecas ==
  /\ rpc = "recas"
  /\ CheckCas
  /\ \/ ~Empty /\ TakeFront
     \/ Empty /\ rpc' = "idle" /\ ret' = Nil /\ UNCHANGED front
  /\ UNCHANGED <<bytes, nread, timed, senderOnly>>

(* The rest of a call once it was made.                                    *)
ReadRest == ReadCas \/ ReadByte \/ ReadTimeout \/ ReadAgain \/ ReadRecas

acl_mbox_read(T) == (\E t \in T : ReadBegin(t)) \/ ReadRest

-----------------------------------------------------------------------------
(* T says which calls the reader makes: with a timeout, without, or both.  *)
NextT(T) == (\E s \in Senders : acl_mbox_send(s)) \/ acl_mbox_read(T)

Next == NextT(BOOLEAN)
Spec == Init /\ [][Next]_mboxVars

(* The threads are scheduled by the system, and the reader reads on.       *)
FairSpec ==
  /\ Spec
  /\ WF_mboxVars(acl_mbox_read(BOOLEAN))
  /\ \A s \in Senders :
       WF_mboxVars(acl_mbox_send(s) /\ spc[s] # "idle")

-----------------------------------------------------------------------------
SenderSteps == {"idle", "flush", "set", "count", "store", "signal"}
ReaderSteps == {"idle", "cas", "wait", "again", "recas"}

(* Every variable holds a value its C counterpart can hold.                *)
TypeOK ==
  /\ slot \in [Slots -> Msgs \cup {Nil}]
  /\ front \in Slots /\ back \in Slots /\ w \in Slots
  /\ r \in Slots \cup {NULL} /\ c \in Slots \cup {NULL}
  /\ lock \in Senders \cup {Unlocked}
  /\ bytes \in Nat /\ nsend \in Nat /\ nread \in Nat
  /\ spc \in [Senders -> SenderSteps] /\ seen \in [Senders -> Nat]
  /\ rpc \in ReaderSteps /\ timed \in BOOLEAN
  /\ ret \in Msgs \cup {Nil}

(* A sender that saw the reader asleep and has not written its byte yet.   *)
Signalling(s) == spc[s] \in {"count", "store", "signal"}

(* The reader does not sleep over a message: if it is about to wait for a  *)
(* byte, or waits, while a flushed message is there, a byte is there too   *)
(* or on its way (acl_mbox.c:71-81 against 93-104).                        *)
NoLostWakeup ==
  rpc = "wait" /\ front # w => bytes > 0 \/ \E s \in Senders : Signalling(s)

(* The socket never fills up: whatever times out, the bytes in it and      *)
(* those on their way are at most two more than there are senders, so that *)
(* acl_mbox_send never blocks in acl_mbox.c:80.                            *)
BytesBounded ==
  bytes + Cardinality({s \in Senders : Signalling(s)}) <= Cardinality(Senders) + 2

(* A read without a timeout returns a message (mbox.hpp:32-33).            *)
ForeverReadsMessage == rpc = "idle" /\ ~timed => ret \in Msgs

(* A reader that never gives a timeout gets a message from every call.     *)
FreshReader == rpc = "idle" /\ ret = Nil /\ front = 1

ForeverAlwaysReads == [](timed => FreshReader) => []ForeverReadsMessage

(* Every message that is sent is received, even by a reader that times out *)
(* now and then.                                                           *)
AllReceived == \A i \in Slots : w > i ~> front > i

(* The mailbox implements the queue of Mailbox: messages are received in   *)
(* the order of the lock, each once, and none before it is complete.       *)
Mail == INSTANCE Mailbox WITH
  queue <- [i \in 1 .. w - front |-> slot[front + i - 1]]

ImplementsMailbox == Mail!Spec
=============================================================================
