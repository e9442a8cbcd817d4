---------------------------- MODULE AclMbox_proofs ----------------------------
(***************************************************************************)
(* Proofs about AclMbox: types, no lost wake-up, reads that wait for ever  *)
(* return a message, the socket does not fill, and the refinement of       *)
(* Mailbox.                                                                *)
(***************************************************************************)
EXTENDS AclMbox, SequenceTheorems, FiniteSetTheorems, TLAPS

-----------------------------------------------------------------------------
(* The indices follow one another, the slots before back are written, and  *)
(* the shared end c is the flushed end w, or NULL when the reader found    *)
(* nothing: then there is nothing flushed before the next FlushSet.        *)
Ordered ==
  /\ front <= w /\ w <= back
  /\ r = NULL \/ (front <= r /\ r <= w)
  /\ c = NULL \/ c = w
  /\ c = NULL => front = w

Written ==
  /\ \A i \in Slots : i < back => slot[i] \in Msgs
  /\ \A i \in Slots : i >= back => slot[i] = Nil

(* The lock is held by the one sender that wrote and did not flush.        *)
Locked ==
  /\ \A s \in Senders : lock = s <=> spc[s] \in {"flush", "set"}
  /\ lock = Unlocked => w = back
  /\ lock # Unlocked => back = w + 1
  /\ \A s \in Senders : spc[s] = "set" => c = NULL

PipeInv == TypeOK /\ Ordered /\ Written /\ Locked

(* The pipe remembers in c that the reader sleeps; a sender that clears    *)
(* that mark owes it a byte.                                               *)
Awakened ==
  rpc = "wait" /\ c # NULL => bytes > 0 \/ \E s \in Senders : Signalling(s)

MInv == PipeInv /\ Awakened

(* A new mailbox (acl_mbox_create) satisfies the invariant.                *)
LEMMA InitMInv == Init => MInv
BY MboxAssumption DEF Init, MInv, PipeInv, TypeOK, Ordered, Written, Locked,
   Awakened, Slots, NULL, SenderSteps, ReaderSteps

(* A reader takes a message only when one was flushed.                     *)
LEMMA PrefetchedFlushed ==
  ASSUME PipeInv, Prefetched
  PROVE  front < w /\ slot[front] \in Msgs /\ front + 1 \in Slots
BY MboxAssumption DEF PipeInv, TypeOK, Ordered, Written, Prefetched, Slots, NULL

(* The same when the compare and swap finds something.                     *)
LEMMA NonEmptyFlushed ==
  ASSUME PipeInv, ~Empty
  PROVE  c = w /\ front < w /\ slot[front] \in Msgs /\ front + 1 \in Slots
BY MboxAssumption DEF PipeInv, TypeOK, Ordered, Written, Empty, Slots, NULL

-----------------------------------------------------------------------------
(* No step of acl_mbox_send disturbs the pipe.                             *)
LEMMA SendPipe ==
  ASSUME PipeInv, NEW s \in Senders, acl_mbox_send(s)
  PROVE  PipeInv'
<1>1. ASSUME NEW m \in Msgs, SendWrite(s, m) PROVE PipeInv'
  BY <1>1, MboxAssumption DEF PipeInv, TypeOK, Ordered, Written, Locked, SendWrite,
     Goto, readerOnly, Slots, NULL, SenderSteps
<1>2. CASE FlushAwake(s)
  BY <1>2, MboxAssumption DEF PipeInv, TypeOK, Ordered, Written, Locked, FlushAwake,
     Goto, readerOnly, Slots, NULL, SenderSteps
<1>3. CASE FlushAsleep(s)
  BY <1>3, MboxAssumption DEF PipeInv, TypeOK, Ordered, Written, Locked, FlushAsleep,
     Goto, readerOnly, Slots, NULL, SenderSteps
<1>4. CASE FlushSet(s)
  BY <1>4, MboxAssumption DEF PipeInv, TypeOK, Ordered, Written, Locked, FlushSet,
     Goto, readerOnly, Slots, NULL, SenderSteps
<1>5. CASE CountLoad(s)
  BY <1>5, MboxAssumption DEF PipeInv, TypeOK, Ordered, Written, Locked, CountLoad,
     Goto, readerOnly, Slots, NULL, SenderSteps
<1>6. CASE CountStore(s)
  BY <1>6, MboxAssumption DEF PipeInv, TypeOK, Ordered, Written, Locked, CountStore,
     Goto, readerOnly, Slots, NULL, SenderSteps
<1>7. CASE SendSignal(s)
  BY <1>7, MboxAssumption DEF PipeInv, TypeOK, Ordered, Written, Locked, SendSignal,
     Goto, readerOnly, Slots, NULL, SenderSteps
<1> QED BY <1>1, <1>2, <1>3, <1>4, <1>5, <1>6, <1>7 DEF acl_mbox_send

(* Nor does the first test of a read.                                      *)
LEMMA BeginPipe ==
  ASSUME PipeInv, NEW t \in BOOLEAN, ReadBegin(t)
  PROVE  PipeInv'
<1>1. CASE Prefetched /\ TakeFront
  BY <1>1, PrefetchedFlushed, MboxAssumption DEF PipeInv, TypeOK, Ordered, Written,
     Locked, ReadBegin, TakeFront, Prefetched, senderOnly, Slots, NULL, ReaderSteps
<1>2. CASE ~Prefetched /\ rpc' = "cas" /\ UNCHANGED <<front, ret>>
  BY <1>2 DEF PipeInv, TypeOK, Ordered, Written, Locked, ReadBegin, senderOnly, ReaderSteps
<1> QED BY <1>1, <1>2 DEF ReadBegin

(* The compare and swap, whatever the call does with its outcome.          *)
LEMMA CasPipe ==
  ASSUME PipeInv, CheckCas, UNCHANGED <<bytes, senderOnly>>,
         nread' \in Nat, timed' \in BOOLEAN, rpc' \in ReaderSteps,
         \/ ~Empty /\ TakeFront
         \/ Empty /\ UNCHANGED front /\ ret' \in Msgs \cup {Nil}
  PROVE  PipeInv'
<1>1. CASE ~Empty /\ TakeFront
  BY <1>1, NonEmptyFlushed, MboxAssumption DEF PipeInv, TypeOK, Ordered, Written,
     Locked, TakeFront, CheckCas, senderOnly, Slots, NULL, ReaderSteps
<1>2. CASE Empty /\ UNCHANGED front /\ ret' \in Msgs \cup {Nil}
  BY <1>2, MboxAssumption DEF PipeInv, TypeOK, Ordered, Written,
     Locked, Empty, CheckCas, senderOnly, Slots, NULL, ReaderSteps
<1> QED BY <1>1, <1>2

(* Nor does the rest of a read.                                            *)
LEMMA RestPipe ==
  ASSUME PipeInv, ReadRest
  PROVE  PipeInv'
<1>1. CASE ReadCas
  <2>1. nread' \in Nat /\ timed' \in BOOLEAN /\ rpc' \in ReaderSteps
    BY <1>1 DEF ReadCas, TakeFront, PipeInv, TypeOK, ReaderSteps
  <2>2. \/ ~Empty /\ TakeFront
        \/ Empty /\ UNCHANGED front /\ ret' \in Msgs \cup {Nil}
    BY <1>1 DEF ReadCas, PipeInv, TypeOK
  <2> QED BY <1>1, <2>1, <2>2, CasPipe DEF ReadCas
<1>2. CASE ReadByte
  BY <1>2 DEF PipeInv, TypeOK, Ordered, Written, Locked, ReadByte, senderOnly, ReaderSteps
<1>3. CASE ReadTimeout
  BY <1>3 DEF PipeInv, TypeOK, Ordered, Written, Locked, ReadTimeout, senderOnly, ReaderSteps
<1>4. CASE ReadAgain
  <2>1. CASE Prefetched /\ TakeFront
    BY <1>4, <2>1, PrefetchedFlushed, MboxAssumption DEF PipeInv, TypeOK, Ordered,
       Written, Locked, ReadAgain, TakeFront, Prefetched, senderOnly, Slots, NULL,
       ReaderSteps
  <2>2. CASE ~Prefetched /\ rpc' = "recas" /\ UNCHANGED <<front, ret>>
    BY <1>4, <2>2 DEF PipeInv, TypeOK, Ordered, Written, Locked, ReadAgain,
       senderOnly, ReaderSteps
  <2> QED BY <1>4, <2>1, <2>2 DEF ReadAgain
<1>5. CASE ReadRecas
  <2>1. nread' \in Nat /\ timed' \in BOOLEAN /\ rpc' \in ReaderSteps
    BY <1>5 DEF ReadRecas, TakeFront, PipeInv, TypeOK, ReaderSteps
  <2>2. \/ ~Empty /\ TakeFront
        \/ Empty /\ UNCHANGED front /\ ret' \in Msgs \cup {Nil}
    BY <1>5 DEF ReadRecas
  <2> QED BY <1>5, <2>1, <2>2, CasPipe DEF ReadRecas
<1> QED BY <1>1, <1>2, <1>3, <1>4, <1>5 DEF ReadRest

(* So every step of the mailbox keeps the pipe sound.                      *)
LEMMA NextPipe == PipeInv /\ [Next]_mboxVars => PipeInv'
<1> SUFFICES ASSUME PipeInv, [Next]_mboxVars PROVE PipeInv'
  OBVIOUS
<1>1. ASSUME NEW s \in Senders, acl_mbox_send(s) PROVE PipeInv'
  BY <1>1, SendPipe
<1>2. ASSUME NEW t \in BOOLEAN, ReadBegin(t) PROVE PipeInv'
  BY <1>2, BeginPipe
<1>3. CASE ReadRest
  BY <1>3, RestPipe
<1>4. CASE UNCHANGED mboxVars
  BY <1>4 DEF mboxVars, pipeVars, PipeInv, TypeOK, Ordered, Written, Locked
<1> QED BY <1>1, <1>2, <1>3, <1>4 DEF Next, NextT, acl_mbox_read

-----------------------------------------------------------------------------
(* Who sets c and w writes a byte afterwards, and a reader that starts to  *)
(* wait has just seen that there is nothing.                               *)
LEMMA SendWakes ==
  ASSUME MInv, NEW s \in Senders, acl_mbox_send(s)
  PROVE  Awakened'
<1> USE DEF MInv, PipeInv, TypeOK, Awakened, Signalling, Goto, readerOnly
<1>1. ASSUME NEW m \in Msgs, SendWrite(s, m) PROVE Awakened'
  BY <1>1 DEF SendWrite
<1>2. CASE FlushAwake(s)
  <2>1. c # NULL
    BY <1>2 DEF FlushAwake, Slots, NULL
  <2> QED BY <1>2, <2>1 DEF FlushAwake
<1>3. CASE FlushAsleep(s)
  BY <1>3 DEF FlushAsleep
<1>4. CASE FlushSet(s)
  BY <1>4 DEF FlushSet
<1>5. CASE CountLoad(s)
  BY <1>5 DEF CountLoad
<1>6. CASE CountStore(s)
  BY <1>6 DEF CountStore
<1>7. CASE SendSignal(s)
  BY <1>7 DEF SendSignal
<1> QED BY <1>1, <1>2, <1>3, <1>4, <1>5, <1>6, <1>7 DEF acl_mbox_send

(* Nor does a reader forget a sender that owes it a byte.                  *)
LEMMA ReadWakes ==
  ASSUME MInv, acl_mbox_read(BOOLEAN)
  PROVE  Awakened'
<1> USE DEF MInv, PipeInv, TypeOK, Awakened, Signalling, TakeFront
<1>1. ASSUME NEW t \in BOOLEAN, ReadBegin(t) PROVE Awakened'
  BY <1>1 DEF ReadBegin
<1>2. CASE ReadCas
  BY <1>2 DEF ReadCas, CheckCas, Empty
<1>3. CASE ReadByte
  BY <1>3 DEF ReadByte
<1>4. CASE ReadTimeout
  BY <1>4 DEF ReadTimeout
<1>5. CASE ReadAgain
  BY <1>5 DEF ReadAgain
<1>6. CASE ReadRecas
  BY <1>6 DEF ReadRecas
<1> QED BY <1>1, <1>2, <1>3, <1>4, <1>5, <1>6 DEF acl_mbox_read, ReadRest

(* The inductive invariant.                                                *)
THEOREM NextMInv == MInv /\ [Next]_mboxVars => MInv'
<1> SUFFICES ASSUME MInv, [Next]_mboxVars PROVE MInv'
  OBVIOUS
<1>1. PipeInv'
  BY NextPipe DEF MInv
<1>2. Awakened'
  <2>1. CASE UNCHANGED mboxVars
    BY <2>1 DEF mboxVars, pipeVars, MInv, Awakened, Signalling
  <2> QED BY <2>1, SendWakes, ReadWakes DEF Next, NextT
<1> QED BY <1>1, <1>2 DEF MInv

(* Hence it holds for ever in every mailbox.                               *)
THEOREM SpecMInv == Spec => []MInv
<1>1. Init => MInv
  BY InitMInv
<1>2. MInv /\ [Next]_mboxVars => MInv'
  BY NextMInv
<1> QED BY <1>1, <1>2, PTL DEF Spec

(* Every value of the mailbox keeps its type; the positions stay inside    *)
(* the queue.                                                              *)
THEOREM TypeCorrect == Spec => []TypeOK
<1>1. MInv => TypeOK
  BY DEF MInv, PipeInv
<1> QED BY <1>1, SpecMInv, PTL

(* However the senders and the reader interleave, and whatever times out,  *)
(* the reader does not sleep over a flushed message without a byte in the  *)
(* socket or on its way.                                                   *)
THEOREM WakeupSafe == Spec => []NoLostWakeup
<1>1. MInv => NoLostWakeup
  BY DEF MInv, PipeInv, Ordered, Awakened, NoLostWakeup
<1> QED BY <1>1, SpecMInv, PTL

-----------------------------------------------------------------------------
(* A reader that always waits goes to sleep once per byte: nothing is in   *)
(* the socket or on its way, except between a FlushSet that found it       *)
(* asleep and the byte that wakes it, and it is one byte.                  *)
Quiet == bytes = 0 /\ \A s \in Senders : ~Signalling(s)

OneByte ==
  \/ bytes = 1 /\ \A s \in Senders : ~Signalling(s)
  \/ /\ bytes = 0
     /\ \E s \in Senders : Signalling(s) /\ \A q \in Senders \ {s} : ~Signalling(q)

Paired ==
  /\ rpc # "wait" => c # NULL /\ Quiet
  /\ rpc = "wait" => (c = NULL /\ Quiet) \/ (c # NULL /\ front < w /\ OneByte)
  /\ rpc \in {"again", "recas"} => front < w
  /\ rpc # "idle" => ~timed

FInv == PipeInv /\ Paired /\ ForeverReadsMessage

(* A sender keeps the pairing of sleeps and bytes.                         *)
LEMMA SendForever ==
  ASSUME FInv, NEW s \in Senders, acl_mbox_send(s)
  PROVE  Paired' /\ ForeverReadsMessage'
<1> USE DEF FInv, PipeInv, TypeOK, Paired, Quiet, OneByte, ForeverReadsMessage,
        Signalling, Goto, readerOnly
<1>1. ASSUME NEW m \in Msgs, SendWrite(s, m) PROVE Paired' /\ ForeverReadsMessage'
  BY <1>1 DEF SendWrite
<1>2. CASE FlushAwake(s)
  <2>1. c # NULL /\ c' # NULL /\ w < w'
    BY <1>2, MboxAssumption DEF FlushAwake, Slots, NULL, Locked, Ordered
  <2>2. \A q \in Senders : Signalling(q)' <=> Signalling(q)
    BY <1>2 DEF FlushAwake
  <2>3. front < w => front < w'
    BY <1>2, <2>1 DEF Slots, FlushAwake
  <2> QED BY <1>2, <2>1, <2>2, <2>3 DEF FlushAwake
<1>3. CASE FlushAsleep(s)
  BY <1>3 DEF FlushAsleep
<1>4. CASE FlushSet(s)
  <2>1. c = NULL /\ front = w /\ rpc = "wait" /\ Quiet
    BY <1>4 DEF FlushSet, Locked, Ordered
  <2>2. front < back /\ back # NULL
    BY <1>4, <2>1, MboxAssumption DEF FlushSet, Locked, Ordered, Slots, NULL
  <2> QED BY <1>4, <2>1, <2>2 DEF FlushSet
<1>5. CASE CountLoad(s)
  BY <1>5 DEF CountLoad
<1>6. CASE CountStore(s)
  BY <1>6 DEF CountStore
<1>7. CASE SendSignal(s)
  BY <1>7 DEF SendSignal
<1> QED BY <1>1, <1>2, <1>3, <1>4, <1>5, <1>6, <1>7 DEF acl_mbox_send

(* A reader that always waits keeps it too.                                *)
LEMMA ReadForever ==
  ASSUME FInv, acl_mbox_read({FALSE})
  PROVE  Paired' /\ ForeverReadsMessage'
<1> USE DEF FInv, Paired, Quiet, ForeverReadsMessage, Signalling, TakeFront, senderOnly
<1>1. CASE ReadBegin(FALSE)
  BY <1>1, PrefetchedFlushed DEF ReadBegin
<1>2. CASE ReadCas
  BY <1>2, NonEmptyFlushed DEF ReadCas, CheckCas, Empty
<1>3. CASE ReadByte
  BY <1>3 DEF ReadByte, OneByte
<1>4. CASE ReadTimeout
  BY <1>4 DEF ReadTimeout
<1>5. CASE ReadAgain
  BY <1>5, PrefetchedFlushed DEF ReadAgain
<1>6. CASE ReadRecas
  <2>1. ~Empty
    BY <1>6 DEF ReadRecas, Empty, PipeInv, TypeOK, Ordered, Slots
  <2> QED BY <1>6, <2>1, NonEmptyFlushed DEF ReadRecas, CheckCas, Empty
<1> QED BY <1>1, <1>2, <1>3, <1>4, <1>5, <1>6 DEF acl_mbox_read, ReadRest

(* The invariant of a mailbox whose reader always waits is inductive.      *)
NextForever == NextT({FALSE})

THEOREM NextFInv == FInv /\ [NextForever]_mboxVars => FInv'
<1> SUFFICES ASSUME FInv, [NextForever]_mboxVars PROVE FInv'
  OBVIOUS
<1>1. PipeInv'
  <2>1. [Next]_mboxVars
    BY DEF NextForever, Next, NextT, acl_mbox_read
  <2> QED BY <2>1, NextPipe DEF FInv
<1>2. Paired' /\ ForeverReadsMessage'
  <2>1. CASE UNCHANGED mboxVars
    BY <2>1 DEF mboxVars, pipeVars, FInv, Paired, Quiet, OneByte, ForeverReadsMessage,
       Signalling
  <2> QED BY <2>1, SendForever, ReadForever DEF NextForever, NextT
<1> QED BY <1>1, <1>2 DEF FInv

(* A step after which no call with a timeout was ever made is one of a     *)
(* reader that always waits.                                               *)
LEMMA NeverTimed ==
  ASSUME PipeInv, [Next]_mboxVars, (timed => FreshReader)'
  PROVE  [NextForever]_mboxVars
<1>1. ~ReadBegin(TRUE)
  BY MboxAssumption DEF PipeInv, TypeOK, Slots, ReadBegin, TakeFront, FreshReader
<1>2. acl_mbox_read(BOOLEAN) => acl_mbox_read({FALSE})
  BY <1>1 DEF acl_mbox_read
<1> QED BY <1>2 DEF Next, NextForever, NextT

(* A reader that never gives a timeout gets a message from every call: the *)
(* bytes in the socket and the sleeping reader go together for ever.       *)
THEOREM ForeverSafe == Spec => ForeverAlwaysReads
<1>1. Init => FInv
  <2>1. Init => PipeInv
    BY InitMInv DEF MInv
  <2>2. Init => Paired /\ ForeverReadsMessage
    BY DEF Init, Paired, Quiet, ForeverReadsMessage, Signalling, NULL
  <2> QED BY <2>1, <2>2 DEF FInv
<1>2. FInv /\ [Next]_mboxVars /\ (timed => FreshReader)' => FInv'
  BY NextFInv, NeverTimed DEF FInv
<1>3. FInv => ForeverReadsMessage
  BY DEF FInv
<1> QED BY <1>1, <1>2, <1>3, PTL DEF Spec, ForeverAlwaysReads

-----------------------------------------------------------------------------
(* The socket does not fill.  A byte is owed for each time a sender found  *)
(* the reader asleep, and the reader is marked asleep again only by a call *)
(* that then waits for a byte: it takes one, or finds none in the socket,  *)
(* in which case only the senders that are signalling still owe one.       *)
Owing == {s \in Senders : Signalling(s)}

(* The bytes there and to come, with the one the next FlushSet promises.   *)
Due == bytes + Cardinality(Owing) + (IF c = NULL THEN 1 ELSE 0)

BytesInv ==
  /\ Due <= Cardinality(Senders) + (IF rpc = "wait" THEN 2 ELSE 1)
  /\ rpc \in {"wait", "again", "recas"} => c = NULL \/ front < w

LEMMA OwingFinite ==
  /\ IsFiniteSet(Owing) /\ Cardinality(Owing) \in Nat /\ Cardinality(Senders) \in Nat
  /\ Cardinality(Owing) <= Cardinality(Senders)
<1>1. Owing \subseteq Senders
  BY DEF Owing
<1> QED BY <1>1, MboxAssumption, FS_Subset, FS_CardinalityType

(* A sender owes a byte from the moment it clears the mark.                *)
LEMMA SendDue ==
  ASSUME PipeInv, BytesInv, NEW s \in Senders, acl_mbox_send(s)
  PROVE  BytesInv'
<1> USE DEF PipeInv, TypeOK, Goto, readerOnly
<1>0. Cardinality(Owing) \in Nat /\ Cardinality(Senders) \in Nat /\ IsFiniteSet(Owing)
  BY OwingFinite
<1>1. ASSUME Owing' = Owing, bytes' = bytes, (c' = NULL) <=> (c = NULL), front' = front,
             rpc' = rpc, w' \in Int, w <= w'
      PROVE  BytesInv'
  BY <1>0, <1>1 DEF BytesInv, Due, Slots, NULL
<1>2. ASSUME NEW m \in Msgs, SendWrite(s, m) PROVE BytesInv'
  <2>1. Owing' = Owing
    BY <1>2 DEF SendWrite, Owing, Signalling
  <2> QED BY <1>1, <1>2, <2>1 DEF SendWrite, Slots
<1>3. CASE FlushAwake(s)
  <2>1. Owing' = Owing
    BY <1>3 DEF FlushAwake, Owing, Signalling
  <2> QED BY <1>1, <1>3, <2>1 DEF FlushAwake, Ordered, Slots, NULL
<1>4. CASE FlushAsleep(s)
  <2>1. Owing' = Owing
    BY <1>4 DEF FlushAsleep, Owing, Signalling
  <2> QED BY <1>1, <1>4, <2>1 DEF FlushAsleep, Slots
<1>5. CASE FlushSet(s)
  <2>1. Owing' = Owing \cup {s} /\ s \notin Owing
    BY <1>5 DEF FlushSet, Owing, Signalling
  <2>2. Cardinality(Owing') = Cardinality(Owing) + 1
    BY <1>0, <2>1, FS_AddElement
  <2>3. c = NULL /\ c' # NULL /\ front = w /\ w' = w + 1
    BY <1>5, MboxAssumption DEF FlushSet, Locked, Ordered, Slots, NULL
  <2> QED BY <1>0, <1>5, <2>2, <2>3 DEF FlushSet, BytesInv, Due, Slots
<1>6. CASE CountLoad(s)
  <2>1. Owing' = Owing
    BY <1>6 DEF CountLoad, Owing, Signalling
  <2> QED BY <1>1, <1>6, <2>1 DEF CountLoad, Slots
<1>7. CASE CountStore(s)
  <2>1. Owing' = Owing
    BY <1>7 DEF CountStore, Owing, Signalling
  <2> QED BY <1>1, <1>7, <2>1 DEF CountStore, Slots
<1>8. CASE SendSignal(s)
  <2>1. Owing' = Owing \ {s} /\ s \in Owing
    BY <1>8 DEF SendSignal, Owing, Signalling
  <2>2. Cardinality(Owing') = Cardinality(Owing) - 1
    BY <1>0, <2>1, FS_RemoveElement
  <2> QED BY <1>0, <1>8, <2>2 DEF SendSignal, BytesInv, Due
<1> QED BY <1>2, <1>3, <1>4, <1>5, <1>6, <1>7, <1>8 DEF acl_mbox_send

(* A reader that is marked asleep waits.                                   *)
LEMMA ReadDue ==
  ASSUME PipeInv, BytesInv, acl_mbox_read(BOOLEAN)
  PROVE  BytesInv'
<1> USE DEF PipeInv, TypeOK, senderOnly
<1>0. Cardinality(Owing) \in Nat /\ Cardinality(Senders) \in Nat
      /\ Cardinality(Owing) <= Cardinality(Senders)
  BY OwingFinite
<1>1. Owing' = Owing /\ w' = w
  BY DEF acl_mbox_read, ReadBegin, ReadRest, ReadCas, ReadByte, ReadTimeout, ReadAgain,
     ReadRecas, Owing, Signalling
<1>2. ASSUME NEW t \in BOOLEAN, ReadBegin(t) PROVE BytesInv'
  BY <1>0, <1>1, <1>2 DEF ReadBegin, TakeFront, BytesInv, Due
<1>3. CASE ReadCas
  <2>0. bytes' = bytes /\ rpc = "cas" /\ Due <= Cardinality(Senders) + 1
    BY <1>3 DEF ReadCas, BytesInv
  <2>1. CASE Empty
    <3>1. c' = NULL /\ rpc' = "wait"
      BY <1>3, <2>1 DEF ReadCas, CheckCas, Empty, TakeFront
    <3> QED BY <1>0, <1>1, <2>0, <3>1 DEF BytesInv, Due
  <2>2. CASE ~Empty
    <3>1. c' = c /\ rpc' = "idle"
      BY <1>3, <2>2 DEF ReadCas, CheckCas, Empty, TakeFront
    <3> QED BY <1>0, <1>1, <2>0, <3>1 DEF BytesInv, Due
  <2> QED BY <2>1, <2>2
<1>4. CASE ReadByte
  BY <1>0, <1>1, <1>4 DEF ReadByte, BytesInv, Due
<1>5. CASE ReadTimeout
  BY <1>0, <1>1, <1>5 DEF ReadTimeout, BytesInv, Due
<1>6. CASE ReadAgain
  BY <1>0, <1>1, <1>6 DEF ReadAgain, TakeFront, BytesInv, Due
<1>7. CASE ReadRecas
  <2>1. c = NULL \/ c # front
    BY <1>7 DEF ReadRecas, BytesInv, Ordered, Slots
  <2>2. c' = c
    BY <1>7, <2>1 DEF ReadRecas, CheckCas
  <2> QED BY <1>0, <1>1, <1>7, <2>2 DEF ReadRecas, TakeFront, BytesInv, Due
<1> QED BY <1>2, <1>3, <1>4, <1>5, <1>6, <1>7 DEF acl_mbox_read, ReadRest

(* The bytes in the socket and on their way are at most two more than the  *)
(* senders, for any number of them, of messages and of calls that time     *)
(* out: acl_mbox_send does not block on the socket (acl_mbox.c:80).        *)
THEOREM BytesSafe == Spec => []BytesBounded
<1>1. Init => PipeInv /\ BytesInv
  <2> SUFFICES ASSUME Init PROVE PipeInv /\ BytesInv
    OBVIOUS
  <2>1. Owing = {}
    BY DEF Init, Owing, Signalling
  <2>2. Cardinality(Owing) = 0 /\ Cardinality(Senders) \in Nat
    BY <2>1, OwingFinite, FS_EmptySet
  <2> QED BY <2>2, InitMInv DEF Init, MInv, BytesInv, Due, NULL
<1>2. PipeInv /\ BytesInv /\ [Next]_mboxVars => (PipeInv /\ BytesInv)'
  <2> SUFFICES ASSUME PipeInv, BytesInv, [Next]_mboxVars PROVE BytesInv'
    BY NextPipe
  <2>1. CASE UNCHANGED mboxVars
    BY <2>1 DEF mboxVars, pipeVars, BytesInv, Due, Owing, Signalling
  <2> QED BY <2>1, SendDue, ReadDue DEF Next, NextT
<1>3. PipeInv /\ BytesInv => BytesBounded
  <2> SUFFICES ASSUME PipeInv, BytesInv PROVE BytesBounded
    OBVIOUS
  <2>1. bytes \in Nat
    BY DEF PipeInv, TypeOK
  <2> QED BY <2>1, OwingFinite DEF BytesInv, Due, Owing, BytesBounded
<1> QED BY <1>1, <1>2, <1>3, PTL DEF Spec

-----------------------------------------------------------------------------
(* The refinement: a flush is a Put, taking the front a Take, a call that  *)
(* returns NULL a GiveUp, and every other step leaves the queue alone.     *)
Queue == [i \in 1 .. w - front |-> slot[front + i - 1]]

(* The slots from front to w are a sequence of messages.                   *)
LEMMA QueueSeq ==
  ASSUME PipeInv
  PROVE  Queue \in Seq(Msgs) /\ Len(Queue) = w - front
<1>1. w - front \in Nat
  BY MboxAssumption DEF PipeInv, TypeOK, Ordered, Slots
<1>2. \A i \in 1 .. w - front : slot[front + i - 1] \in Msgs
  BY MboxAssumption DEF PipeInv, TypeOK, Ordered, Written, Slots
<1> QED BY <1>1, <1>2 DEF Queue

(* A flush appends the one message written under the lock.                 *)
LEMMA FlushPuts ==
  ASSUME PipeInv, NEW s \in Senders, FlushAwake(s) \/ FlushSet(s)
  PROVE  \E m \in Msgs : Mail!Put(m)
<1>1. w' = w + 1 /\ front' = front /\ slot' = slot /\ ret' = ret
  BY MboxAssumption DEF PipeInv, TypeOK, Locked, FlushAwake, FlushSet, Goto, readerOnly,
     Slots
<1>2. slot[w] \in Msgs /\ w - front \in Nat
  BY MboxAssumption DEF PipeInv, TypeOK, Ordered, Written, Locked, FlushAwake, FlushSet, Goto, Slots
<1>3. Queue' = Append(Queue, slot[w])
  <2>1. Queue' = [i \in 1 .. (w - front) + 1 |-> slot[front + i - 1]]
    BY <1>1, <1>2 DEF Queue, PipeInv, TypeOK, Slots
  <2>2. Queue \in Seq(Msgs) /\ Len(Queue) = w - front
    BY QueueSeq
  <2>3. Append(Queue, slot[w]) \in Seq(Msgs) /\ Len(Append(Queue, slot[w])) = (w - front) + 1
    BY <1>2, <2>2, AppendProperties
  <2>4. \A i \in 1 .. (w - front) + 1 : Append(Queue, slot[w])[i] = slot[front + i - 1]
    BY <1>2, <2>2, AppendProperties DEF Queue, PipeInv, TypeOK, Slots
  <2> QED BY <2>1, <2>3, <2>4
<1> QED BY <1>1, <1>2, <1>3 DEF Mail!Put, Queue

(* Taking the front slot removes the oldest message.                       *)
LEMMA TakeTakes ==
  ASSUME PipeInv, TakeFront, front < w, UNCHANGED <<w, slot>>
  PROVE  Mail!Take
<1>1. Queue \in Seq(Msgs) /\ Len(Queue) = w - front /\ Queue # << >>
  BY QueueSeq DEF PipeInv, TypeOK, Slots
<1>2. Head(Queue) = slot[front]
  BY <1>1 DEF Queue, PipeInv, TypeOK, Slots
<1>3. Queue' = Tail(Queue)
  <2>1. Queue' = [i \in 1 .. (w - front) - 1 |-> slot[front + i]]
    BY DEF Queue, TakeFront, PipeInv, TypeOK, Slots
  <2>2. Tail(Queue) \in Seq(Msgs) /\ Len(Tail(Queue)) = (w - front) - 1
    BY <1>1, HeadTailProperties
  <2>3. \A i \in 1 .. (w - front) - 1 : Tail(Queue)[i] = slot[front + i]
    BY <1>1, HeadTailProperties DEF Queue, PipeInv, TypeOK, Slots
  <2>4. (w - front) - 1 \in Nat
    BY DEF PipeInv, TypeOK, Slots
  <2>5. \A i \in 1 .. (w - front) - 1 : slot[front + i] \in Msgs
    BY MboxAssumption DEF PipeInv, TypeOK, Ordered, Written, Slots
  <2>6. Queue' \in Seq(Msgs) /\ Len(Queue') = (w - front) - 1
    BY <2>1, <2>4, <2>5
  <2>7. \A i \in 1 .. Len(Queue') : Queue'[i] = Tail(Queue)[i]
    BY <2>1, <2>3, <2>6
  <2> QED BY <2>2, <2>6, <2>7, SeqEqual
<1> QED BY <1>1, <1>2, <1>3 DEF Mail!Take, Queue, TakeFront

(* The pipe, the lock and the wake-up byte together implement the queue.   *)
THEOREM MboxImplementsMailbox == Spec => ImplementsMailbox
<1>1. Init => Mail!Init
  BY DEF Init, Mail!Init
<1>2. ASSUME MInv, [Next]_mboxVars PROVE [Mail!Next]_(Mail!mailVars)
  <2> USE <1>2, MboxAssumption DEF MInv
  <2>1. ASSUME NEW s \in Senders, acl_mbox_send(s) PROVE [Mail!Next]_(Mail!mailVars)
    <3>1. CASE FlushAwake(s) \/ FlushSet(s)
      BY <3>1, FlushPuts DEF Mail!Next
    <3>2. ASSUME NEW m \in Msgs, SendWrite(s, m) PROVE UNCHANGED Mail!mailVars
      <4>1. w = back /\ w' = w /\ front' = front /\ ret' = ret
        BY <3>2 DEF SendWrite, PipeInv, Locked, readerOnly
      <4>2. \A i \in 1 .. w - front : slot'[front + i - 1] = slot[front + i - 1]
        BY <3>2, <4>1 DEF SendWrite, PipeInv, TypeOK, Slots
      <4> QED BY <4>1, <4>2 DEF Mail!mailVars
    <3>3. CASE FlushAsleep(s) \/ CountLoad(s) \/ CountStore(s) \/ SendSignal(s)
      BY <3>3 DEF FlushAsleep, CountLoad, CountStore, SendSignal, readerOnly, Mail!mailVars
    <3> QED BY <2>1, <3>1, <3>2, <3>3 DEF acl_mbox_send
  <2>2. ASSUME acl_mbox_read(BOOLEAN) PROVE [Mail!Next]_(Mail!mailVars)
    <3>1. w' = w /\ slot' = slot
      BY <2>2 DEF acl_mbox_read, ReadRest, ReadBegin, ReadCas, ReadByte, ReadTimeout,
         ReadAgain, ReadRecas, senderOnly
    <3>2. CASE TakeFront /\ (Prefetched \/ ~Empty)
      BY <3>1, <3>2, TakeTakes, PrefetchedFlushed, NonEmptyFlushed DEF Mail!Next
    <3>3. CASE front' = front /\ (ret' = ret \/ ret' = Nil)
      BY <3>1, <3>3 DEF Mail!Next, Mail!GiveUp, Mail!mailVars
    <3> QED BY <2>2, <3>2, <3>3 DEF acl_mbox_read, ReadRest, ReadBegin, ReadCas,
            ReadByte, ReadTimeout, ReadAgain, ReadRecas
  <2>3. CASE UNCHANGED mboxVars
    BY <2>3 DEF mboxVars, pipeVars, Mail!mailVars
  <2> QED BY <1>2, <2>1, <2>2, <2>3 DEF Next, NextT
<1> QED BY <1>1, <1>2, SpecMInv, PTL DEF Spec, Mail!Spec, ImplementsMailbox
=============================================================================
