--------------------------- MODULE FiberSync_proofs ----------------------------
(***************************************************************************)
(* Proofs about the primitives on top of the scheduler: the semaphore, for *)
(* any fibers, initial number and callers, the channel, for any fibers,    *)
(* sizes and number of messages, the read/write lock, for any fibers, and  *)
(* fiber IO, for any fibers and descriptors.  Those about the channel hold *)
(* as long as no fiber is signalled: a fiber that is killed in channel_alt *)
(* leaves its alt in the channel.  That about the read/write lock is for   *)
(* clients that only try.  WatchedSafe is for programs that are careful:   *)
(* they neither wake, close nor reset under a fiber that waits.            *)
(***************************************************************************)
EXTENDS FiberSem, FiberChannel, FiberRwlock, FiberIO, FiberSched_proofs

-----------------------------------------------------------------------------
(* The semaphore.                                                          *)

(* The assumptions in the form in which they are used.                     *)
LEMMA SemFacts == Sem \in WaitRings /\ InitNum \in Nat /\ MaxFresh \in Nat
BY SemAssumption

-----------------------------------------------------------------------------
(* The semaphore uses the scheduler as FiberSched says it may be used.     *)

(* Every step of the semaphore is a step of the scheduler, or none at all. *)
LEMMA SemStepIsSchedStep == IInv /\ [SemNext]_semVars => [Next]_schedVars
<1> SUFFICES ASSUME IInv, [SemNext]_semVars PROVE [Next]_schedVars
  OBVIOUS
<1>1. CASE UNCHANGED semVars
  BY <1>1 DEF semVars
<1>2. CASE OtherStep
  BY <1>2 DEF OtherStep, Next
<1>3. ASSUME NEW f \in Fibers, acl_fiber_sem_wait(f) PROVE [Next]_schedVars
  BY <1>3, SemFacts DEF acl_fiber_sem_wait, acl_fiber_sem_trywait, SemBlock, Next
<1>4. ASSUME NEW f \in Fibers, WaitReturn(f) PROVE UNCHANGED schedVars
  <2>1. ring' = ring
    BY <1>4, RunningFiber DEF WaitReturn, acl_ring_detach
  <2> QED BY <1>4, <2>1 DEF WaitReturn, schedVars
<1>5. CASE acl_fiber_sem_post
  BY <1>5, SemFacts DEF acl_fiber_sem_post, Posted, Next
<1>6. ASSUME NEW self \in BOOLEAN, acl_fiber_sem_set_tid(self) PROVE UNCHANGED schedVars
  BY <1>6 DEF acl_fiber_sem_set_tid
<1> QED BY <1>1, <1>2, <1>3, <1>4, <1>5, <1>6 DEF SemNext

(* The invariant of the scheduler holds under the semaphore.               *)
LEMMA SemIInv == SemSpec => []IInv
<1>1. SemInit => IInv
  BY InitIInv DEF SemInit
<1>2. IInv /\ [SemNext]_semVars => IInv'
  BY SemStepIsSchedStep, NextIInv
<1> QED BY <1>1, <1>2, PTL DEF SemSpec

(* The specification of the semaphore implies that of the scheduler, so    *)
(* what is proved of the scheduler holds with semaphores in use.           *)
THEOREM SemImplementsSched == SemSpec => Spec
<1>1. SemInit => Init
  BY DEF SemInit
<1> QED BY <1>1, SemIInv, SemStepIsSchedStep, PTL DEF SemSpec, Spec

-----------------------------------------------------------------------------
(* The types of the semaphore are inductive.                               *)
LEMMA SemTypeInductive == SemTypeOK /\ [SemNext]_semVars => SemTypeOK'
<1> SUFFICES ASSUME SemTypeOK, [SemNext]_semVars PROVE SemTypeOK'
  OBVIOUS
<1>1. CASE UNCHANGED countVars
  BY <1>1 DEF countVars, SemTypeOK
<1>2. ASSUME NEW f \in Fibers, acl_fiber_sem_wait(f) PROVE SemTypeOK'
  BY <1>2 DEF SemTypeOK, acl_fiber_sem_wait, acl_fiber_sem_trywait, SemBlock
<1>3. ASSUME NEW f \in Fibers, WaitReturn(f) PROVE SemTypeOK'
  BY <1>3 DEF SemTypeOK, WaitReturn
<1>4. CASE acl_fiber_sem_post
  <2>1. units' \in [Fibers -> Nat] /\ fresh' \in Nat
    BY <1>4 DEF SemTypeOK, acl_fiber_sem_post, Posted
  <2>2. num' \in Nat /\ UNCHANGED <<mine, waiting>>
    BY <1>4 DEF SemTypeOK, acl_fiber_sem_post, Posted
  <2> QED BY <2>1, <2>2 DEF SemTypeOK
<1>5. ASSUME NEW self \in BOOLEAN, acl_fiber_sem_set_tid(self) PROVE SemTypeOK'
  BY <1>5 DEF SemTypeOK, acl_fiber_sem_set_tid
<1>6. CASE UNCHANGED semVars
  BY <1>1, <1>6 DEF semVars
<1> QED BY <1>1, <1>2, <1>3, <1>4, <1>5, <1>6 DEF SemNext

(* The semaphore never counts below zero, however waits, posts and kills   *)
(* interleave, and its other fields keep their types.                      *)
THEOREM SemTypeCorrect == SemSpec => []SemTypeOK
<1>1. SemInit => SemTypeOK
  BY SemFacts DEF SemInit, SemTypeOK
<1> QED BY <1>1, SemTypeInductive, PTL DEF SemSpec

-----------------------------------------------------------------------------
(* No step leaves a waiter at a positive num.                              *)
LEMMA NextNoIdleUnit ==
  IInv /\ SemTypeOK /\ NoIdleUnit /\ [SemNext]_semVars => NoIdleUnit'
<1> SUFFICES ASSUME IInv, SemTypeOK, NoIdleUnit, [SemNext]_semVars, num' > 0
             PROVE  NoEntry(ring', Sem)
  BY DEF NoIdleUnit, NoEntry
<1>1. CASE OtherStep /\ UNCHANGED countVars
  <2>1. NoEntry(ring, Sem) /\ NextBut(Sem)
    BY <1>1 DEF NoIdleUnit, countVars, OtherStep, NextBut
  <2> QED BY <2>1, EmptyStays, SemFacts
<1>2. ASSUME NEW f \in Fibers, acl_fiber_sem_wait(f) PROVE NoEntry(ring', Sem)
  <2>1. CASE acl_fiber_sem_trywait(f)
    BY <2>1 DEF acl_fiber_sem_trywait, NoIdleUnit, schedVars
  <2>2. CASE SemBlock(f)
    BY <2>2 DEF SemBlock, SemTypeOK
  <2> QED BY <1>2, <2>1, <2>2 DEF acl_fiber_sem_wait
<1>3. ASSUME NEW f \in Fibers, WaitReturn(f) PROVE NoEntry(ring', Sem)
  <2>1. ring' = ring /\ num' = num
    BY <1>3, RunningFiber DEF WaitReturn, acl_ring_detach
  <2> QED BY <2>1 DEF NoIdleUnit
<1>4. CASE acl_fiber_sem_post
  <2>1. CASE NoEntry(ring, Sem) /\ UNCHANGED schedVars
    BY <2>1 DEF schedVars
  <2>2. CASE WakeFirst(Sem) /\ UNCHANGED num
    BY <2>2, EmptyStays, SemFacts DEF NoIdleUnit, NextBut
  <2> QED BY <1>4, <2>1, <2>2 DEF acl_fiber_sem_post, Posted
<1>5. ASSUME NEW self \in BOOLEAN, acl_fiber_sem_set_tid(self) PROVE NoEntry(ring', Sem)
  BY <1>5 DEF acl_fiber_sem_set_tid, NoIdleUnit, schedVars
<1>6. CASE UNCHANGED semVars
  BY <1>6 DEF semVars, schedVars, countVars, NoIdleUnit
<1> QED BY <1>1, <1>2, <1>3, <1>4, <1>5, <1>6 DEF SemNext

(* No fiber waits while a unit is free, whoever is killed or signalled.    *)
THEOREM NoIdleUnitSafe == SemSpec => []NoIdleUnit
<1>1. SemInit => NoIdleUnit
  BY SemFacts, HeadsFacts DEF SemInit, Init, NoIdleUnit, NoEntry, acl_ring_init, Nodes
<1> QED BY <1>1, NextNoIdleUnit, SemIInv, SemTypeCorrect, PTL DEF SemSpec
-----------------------------------------------------------------------------
(* acl_fiber_sem_set_tid tests the length of the ring, post and the waiters *)
(* go by its links: that the two agree is what RingsComplete says of it.   *)

(* The waiting rings are queues under the semaphore too.                   *)
LEMMA SemQInv == SemSpec => []QInv
<1>1. SemInit => QInv
  BY InitQInv DEF SemInit
<1>2. IInv /\ QInv /\ [SemNext]_semVars => QInv'
  BY SemStepIsSchedStep, NextQInv
<1> QED BY <1>1, <1>2, SemIInv, PTL DEF SemSpec

(* A semaphore of another thread has an empty ring.                        *)
LeftEmpty == ~mine => NoEntry(ring, Sem)

(* No step lets a waiter into it, nor lets it go while somebody waits.     *)
LEMMA NextLeftEmpty == IInv /\ QInv /\ LeftEmpty /\ [SemNext]_semVars => LeftEmpty'
<1> SUFFICES ASSUME IInv, QInv, LeftEmpty, [SemNext]_semVars, ~mine'
             PROVE  NoEntry(ring', Sem)
  BY DEF LeftEmpty, NoEntry
<1>1. CASE OtherStep /\ UNCHANGED countVars
  <2>1. NoEntry(ring, Sem) /\ NextBut(Sem)
    BY <1>1 DEF LeftEmpty, countVars, OtherStep, NextBut
  <2> QED BY <2>1, EmptyStays, SemFacts
<1>2. ASSUME NEW f \in Fibers PROVE ~acl_fiber_sem_wait(f)
  BY DEF acl_fiber_sem_wait, acl_fiber_sem_trywait, SemBlock
<1>3. ASSUME NEW f \in Fibers, WaitReturn(f) PROVE NoEntry(ring', Sem)
  <2>1. ring' = ring /\ mine' = mine
    BY <1>3, RunningFiber DEF WaitReturn, acl_ring_detach
  <2> QED BY <2>1 DEF LeftEmpty
<1>4. ~acl_fiber_sem_post
  BY DEF acl_fiber_sem_post, Posted
<1>5. ASSUME NEW self \in BOOLEAN, acl_fiber_sem_set_tid(self) PROVE NoEntry(ring', Sem)
  <2>1. ring' = ring /\ mine' = self /\ (self # mine => ~(ring.len[Sem] > 0))
    BY <1>5 DEF acl_fiber_sem_set_tid, schedVars, acl_ring_size
  <2>2. CASE mine
    <3>1. /\ ring.len[Sem] = Len(Walk(ring, Sem)) /\ Len(Walk(ring, Sem)) \in Nat
          /\ Walk(ring, Sem) \in Seq(Fibers) /\ NoEntry(ring, Sem) <=> Walk(ring, Sem) = << >>
      BY QueueFacts, SemFacts, HeadsFacts DEF QInv
    <3>2. self # mine
      BY <2>1, <2>2, Zenon
    <3>3. ~(ring.len[Sem] > 0)
      BY <2>1, <3>2
    <3>4. Len(Walk(ring, Sem)) = 0
      BY <3>1, <3>3
    <3> QED BY <2>1, <3>1, <3>4
  <2>3. CASE ~mine
    BY <2>1, <2>3 DEF LeftEmpty
  <2> QED BY <2>2, <2>3
<1>6. CASE UNCHANGED semVars
  BY <1>6 DEF semVars, schedVars, countVars, LeftEmpty
<1> QED BY <1>1, <1>2, <1>3, <1>4, <1>5, <1>6 DEF SemNext

(* A semaphore that is given to another thread leaves nobody behind whom   *)
(* no post could reach (fiber_sem.c:28, 93-94).                            *)
THEOREM NobodyStrandedSafe == SemSpec => []NobodyStranded
<1>1. SemInit => LeftEmpty
  BY DEF SemInit, LeftEmpty
<1>2. SemSpec => []LeftEmpty
  BY <1>1, NextLeftEmpty, SemIInv, SemQInv, PTL DEF SemSpec
<1>3. QInv /\ SemTypeOK /\ LeftEmpty => NobodyStranded
  <2> SUFFICES ASSUME QInv, SemTypeOK, LeftEmpty, ~mine, NEW f \in waiting
               PROVE  ring.parent[f] # Sem
    BY DEF NobodyStranded
  <2>1. Walk(ring, Sem) = << >> /\ f \in Fibers
    BY QueueFacts, SemFacts, HeadsFacts DEF QInv, LeftEmpty, SemTypeOK
  <2>2. \A g \in Fibers : ring.parent[g] = Sem <=> \E i \in 1 .. Len(Walk(ring, Sem)) : Walk(ring, Sem)[i] = g
    BY QueueFacts, SemFacts, HeadsFacts DEF QInv
  <2> QED BY <2>1, <2>2
<1> QED BY <1>2, <1>3, SemQInv, SemTypeCorrect, PTL

-----------------------------------------------------------------------------
(* The channel.                                                            *)

(* The assumption in the form in which it is used.                         *)
LEMMA ChanFacts == Sizes \subseteq Nat /\ MaxMsgs \in Nat
BY ChannelAssumption

-----------------------------------------------------------------------------
(* The ring buffer: what alt_copy does to the queue that it stands for.    *)

(* A buffer of b messages, and its content.                                *)
Values == Msgs \cup {NoMsg}

Ring(b, c) ==
  /\ c \in [buf : [0 .. b - 1 -> Values], nbuf : 0 .. b, off : 0 .. b]
  /\ c.off = 0 \/ c.off < b

Content(b, c) == [i \in 1 .. c.nbuf |-> c.buf[(c.off + i - 1) % b]]

(* The remainders the code computes, without division.                     *)
LEMMA Wrapped ==
  ASSUME NEW b \in Nat, NEW a \in Nat, a < b + b
  PROVE  a % b = IF a < b THEN a ELSE a - b
OBVIOUS

(* A message is copied to a place no other one has.                        *)
LEMMA PlacesDiffer ==
  ASSUME NEW b \in Nat, NEW off \in Nat, NEW n \in Nat, NEW i \in 1 .. n, off < b, n < b
  PROVE  (off + i - 1) % b # (off + n) % b
<1>1. PICK x \in Nat : x = off + i - 1
  OBVIOUS
<1>2. PICK y \in Nat : y = off + n
  OBVIOUS
<1>3. x < b + b /\ y < b + b /\ x < y /\ y < x + b
  BY <1>1, <1>2
<1>4. x % b = IF x < b THEN x ELSE x - b
  BY <1>3, Wrapped
<1>5. y % b = IF y < b THEN y ELSE y - b
  BY <1>3, Wrapped
<1>6. x % b # y % b
  BY <1>3, <1>4, <1>5
<1> QED BY <1>1, <1>2, <1>6

(* The next place is the one after the oldest, around the end.             *)
LEMMA PlaceMoves ==
  ASSUME NEW b \in Nat, NEW off \in Nat, NEW i \in Nat, 1 <= i, i < b, off < b
  PROVE  ((IF off + 1 = b THEN 0 ELSE off + 1) + i - 1) % b = (off + i) % b
<1>1. PICK x \in Nat : x = (IF off + 1 = b THEN 0 ELSE off + 1) + i - 1
  OBVIOUS
<1>2. PICK y \in Nat : y = off + i
  OBVIOUS
<1>3. x < b + b /\ y < b + b /\ (x = y \/ (x < b /\ y = x + b))
  BY <1>1, <1>2
<1>4. x % b = IF x < b THEN x ELSE x - b
  BY <1>3, Wrapped
<1>5. y % b = IF y < b THEN y ELSE y - b
  BY <1>3, Wrapped
<1>6. x % b = y % b
  BY <1>3, <1>4, <1>5
<1> QED BY <1>1, <1>2, <1>6

(* The content is a sequence of as many messages as the channel counts.    *)
LEMMA ContentFacts ==
  ASSUME NEW c, Ring(bufsize, c), bufsize \in Nat
  PROVE  /\ Content(bufsize, c) \in Seq(Values) /\ Len(Content(bufsize, c)) = c.nbuf
         /\ c.nbuf \in Nat
<1> DEFINE q == Content(bufsize, c)
<1>1. /\ c.buf \in [0 .. bufsize - 1 -> Values] /\ c.nbuf \in Nat /\ c.off \in Nat
      /\ c.nbuf <= bufsize
  BY DEF Ring
<1>2. q = [i \in 1 .. c.nbuf |-> c.buf[(c.off + i - 1) % bufsize]]
  BY DEF Content
<1>3. \A i \in 1 .. c.nbuf : c.buf[(c.off + i - 1) % bufsize] \in Values
  <2> TAKE i \in 1 .. c.nbuf
  <2>1. c.off + i - 1 \in Nat /\ bufsize \in Nat \ {0}
    BY <1>1
  <2>2. (c.off + i - 1) % bufsize \in 0 .. bufsize - 1
    BY <2>1
  <2> QED BY <1>1, <2>2
<1> HIDE DEF q
<1>4. q \in [1 .. c.nbuf -> Values]
  BY <1>2, <1>3
<1> QED BY <1>1, <1>4 DEF q

(* Copying a message in puts it behind the others.                         *)
LEMMA CopyInContent ==
  ASSUME NEW c, Ring(bufsize, c), bufsize \in Nat, c.nbuf < bufsize, NEW x \in Values
  PROVE  /\ Ring(bufsize, CopyIn(c, x))
         /\ Content(bufsize, CopyIn(c, x)) = Append(Content(bufsize, c), x)
         /\ CopyIn(c, x).nbuf = c.nbuf + 1
<1> DEFINE d == CopyIn(c, x)
           q == Content(bufsize, c)
           at == (c.off + c.nbuf) % bufsize
<1>1. /\ c.buf \in [0 .. bufsize - 1 -> Values] /\ c.nbuf \in Nat /\ c.off \in Nat
      /\ c.off < bufsize
  BY DEF Ring
<1>2. at \in 0 .. bufsize - 1
  BY <1>1
<1>3. /\ d.buf = [c.buf EXCEPT ![at] = x] /\ d.nbuf = c.nbuf + 1 /\ d.off = c.off
      /\ d = [buf |-> [c.buf EXCEPT ![at] = x], nbuf |-> c.nbuf + 1, off |-> c.off]
  <2>1. c = [buf |-> c.buf, nbuf |-> c.nbuf, off |-> c.off]
    BY DEF Ring
  <2> HIDE DEF at
  <2>2. d = [c EXCEPT !.buf[at] = x, !.nbuf = @ + 1]
    BY DEF CopyIn, at
  <2> HIDE DEF d
  <2> QED BY <2>1, <2>2
<1>4. Ring(bufsize, d)
  BY <1>1, <1>2, <1>3 DEF Ring
<1>5. ASSUME NEW i \in 1 .. c.nbuf
      PROVE  /\ (c.off + i - 1) % bufsize # at
             /\ (c.off + i - 1) % bufsize \in 0 .. bufsize - 1
  <2>1. (c.off + i - 1) % bufsize # at
    BY <1>1, PlacesDiffer
  <2>2. c.off + i - 1 \in Int /\ bufsize \in Nat \ {0}
    BY <1>1
  <2>3. (c.off + i - 1) % bufsize \in 0 .. bufsize - 1
    BY <2>2
  <2> QED BY <2>1, <2>3
<1>6. Content(bufsize, d) = Append(q, x)
  <2> HIDE DEF d, at
  <2>1. Content(bufsize, d) = [i \in 1 .. c.nbuf + 1 |-> d.buf[(c.off + i - 1) % bufsize]]
    BY <1>3 DEF Content
  <2>2. Append(q, x) = [i \in 1 .. c.nbuf + 1 |-> IF i = c.nbuf + 1 THEN x ELSE q[i]]
    BY <1>1 DEF Content
  <2>3. ASSUME NEW i \in 1 .. c.nbuf + 1
        PROVE  d.buf[(c.off + i - 1) % bufsize] = IF i = c.nbuf + 1 THEN x ELSE q[i]
    <3>1. CASE i = c.nbuf + 1
      <4>1. c.off + i - 1 = c.off + c.nbuf
        BY <1>1, <3>1
      <4>2. (c.off + i - 1) % bufsize = at
        BY <4>1 DEF at
      <4> QED BY <1>1, <1>2, <1>3, <3>1, <4>2
    <3>2. CASE i # c.nbuf + 1
      <4>1. i \in 1 .. c.nbuf
        BY <1>1, <3>2
      <4>2. q[i] = c.buf[(c.off + i - 1) % bufsize]
        BY <4>1 DEF Content
      <4> QED BY <1>1, <1>3, <1>5, <3>2, <4>1, <4>2
    <3> QED BY <3>1, <3>2
  <2> QED BY <2>1, <2>2, <2>3
<1> QED BY <1>3, <1>4, <1>6

(* Copying one out takes the oldest.                                       *)
LEMMA CopyOutContent ==
  ASSUME Ring(bufsize, chan), bufsize \in Nat, chan.nbuf > 0
  PROVE  /\ Ring(bufsize, CopyOut(chan))
         /\ Content(bufsize, chan) # << >> /\ Head(Content(bufsize, chan)) = Oldest
         /\ Content(bufsize, CopyOut(chan)) = Tail(Content(bufsize, chan))
         /\ CopyOut(chan).nbuf = chan.nbuf - 1 /\ Oldest \in Values
<1> DEFINE c == CopyOut(chan)
           q == Content(bufsize, chan)
           off == IF chan.off + 1 = bufsize THEN 0 ELSE chan.off + 1
<1>1. /\ chan.buf \in [0 .. bufsize - 1 -> Values] /\ chan.nbuf \in Nat /\ chan.off \in Nat
      /\ chan.off < bufsize /\ chan.nbuf <= bufsize
  BY DEF Ring
<1>2. /\ c.buf = chan.buf /\ c.nbuf = chan.nbuf - 1 /\ c.off = off
      /\ c = [buf |-> chan.buf, nbuf |-> chan.nbuf - 1, off |-> off]
  <2>1. chan = [buf |-> chan.buf, nbuf |-> chan.nbuf, off |-> chan.off]
    BY DEF Ring
  <2>2. c = [chan EXCEPT !.nbuf = @ - 1, !.off = IF @ + 1 = bufsize THEN 0 ELSE @ + 1]
    BY DEF CopyOut
  <2> HIDE DEF c
  <2> QED BY <2>1, <2>2
<1>3. Ring(bufsize, c)
  BY <1>1, <1>2 DEF Ring
<1>4. q = [i \in 1 .. chan.nbuf |-> chan.buf[(chan.off + i - 1) % bufsize]]
  BY DEF Content
<1>5. chan.off % bufsize = chan.off
  <2>1. PICK x \in Nat : x = chan.off
    BY <1>1
  <2>2. x < bufsize /\ x < bufsize + bufsize
    BY <1>1, <2>1
  <2>3. x % bufsize = x
    BY <2>2, Wrapped
  <2> QED BY <2>1, <2>3
<1>6. q # << >> /\ Head(q) = Oldest /\ Oldest \in Values /\ q \in Seq(Values) /\ Len(q) = chan.nbuf
  <2>1. q \in Seq(Values) /\ Len(q) = chan.nbuf
    BY ContentFacts
  <2>2. q[1] = chan.buf[chan.off]
    <3>1. chan.off + 1 - 1 = chan.off /\ 1 \in 1 .. chan.nbuf
      BY <1>1
    <3> QED BY <1>4, <1>5, <3>1
  <2> HIDE DEF q
  <2> QED BY <1>1, <2>1, <2>2 DEF Oldest
<1>7. Content(bufsize, c) = Tail(q)
  <2> HIDE DEF c, off
  <2>1. Content(bufsize, c) = [i \in 1 .. chan.nbuf - 1 |-> chan.buf[(off + i - 1) % bufsize]]
    BY <1>2 DEF Content
  <2>2. Tail(q) = [i \in 1 .. chan.nbuf - 1 |-> q[i + 1]]
    <3>1. q \in Seq(Values) /\ Len(q) = chan.nbuf /\ q # << >>
      BY <1>6
    <3> HIDE DEF q
    <3> DEFINE r == Tail(q)
    <3>2. r \in Seq(Values) /\ Len(r) = chan.nbuf - 1 /\ \A i \in 1 .. chan.nbuf - 1 : r[i] = q[i + 1]
      BY <3>1
    <3> HIDE DEF r
    <3>3. r = [i \in 1 .. Len(r) |-> r[i]]
      BY <3>2
    <3>4. r = [i \in 1 .. chan.nbuf - 1 |-> q[i + 1]]
      BY <3>2, <3>3
    <3> QED BY <3>4 DEF r
  <2>3. ASSUME NEW i \in 1 .. chan.nbuf - 1
        PROVE  chan.buf[(off + i - 1) % bufsize] = q[i + 1]
    <3>1. i + 1 \in 1 .. chan.nbuf /\ chan.off + (i + 1) - 1 = chan.off + i
      BY <1>1
    <3>2. q[i + 1] = chan.buf[(chan.off + i) % bufsize]
      BY <3>1 DEF Content
    <3>3. i \in Nat /\ 1 <= i /\ i < bufsize
      BY <1>1
    <3>4. (off + i - 1) % bufsize = (chan.off + i) % bufsize
      BY <1>1, <3>3, PlaceMoves DEF off
    <3> QED BY <3>2, <3>4
  <2> QED BY <2>1, <2>2, <2>3
<1> QED BY <1>2, <1>3, <1>6, <1>7

-----------------------------------------------------------------------------
(* Which fibers are suspended, outside all rings, after a step.            *)

(* Handing the thread over leaves those alone that are in no ring.         *)
LEMMA HandOverSuspends ==
  ASSUME NEW m, Rings(m), acl_fiber_switch(m), status' = status, NEW f \in Fibers
  PROVE  Suspended(f)' <=> Alive(f) /\ m.parent[f] = f
<1>1. \/ running' = Original /\ ring' = m
      \/ /\ running' \in Fibers /\ m.parent[running'] = Ready
         /\ ring'.parent = [m.parent EXCEPT ![running'] = running']
  BY SwitchKeeps
<1>2. m.parent \in [Fibers \cup Heads -> Fibers \cup Heads]
  BY DEF Rings, RingType
<1>3. CASE running' = Original /\ ring' = m
  BY <1>3, HeadsFacts DEF Suspended, Alive, Linked
<1>4. CASE /\ running' \in Fibers /\ m.parent[running'] = Ready
           /\ ring'.parent = [m.parent EXCEPT ![running'] = running']
  <2> PICK h \in Fibers : h = running'
    BY <1>4
  <2> QED BY <1>2, <1>4, HeadsFacts DEF Suspended, Alive, Linked
<1> QED BY <1>1, <1>3, <1>4

(* A fiber that suspends itself is the only one that becomes suspended.    *)
LEMMA SuspendSuspends ==
  ASSUME IInv, NEW g \in Fibers, Suspend(g), NEW f \in Fibers
  PROVE  Suspended(f)' <=> Suspended(f) \/ f = g
<1>1. /\ Rings(ring) /\ acl_fiber_switch(ring) /\ status' = status /\ running = g
      /\ Alive(g) /\ ring.parent[g] = g
  BY RunningFiber DEF Suspend, Alive
<1>2. Suspended(f)' <=> Alive(f) /\ ring.parent[f] = f
  BY <1>1, HandOverSuspends
<1> QED BY <1>1, <1>2 DEF Suspended, Linked

(* One that is readied is the only one that ceases to be.                  *)
LEMMA WakeSuspends ==
  ASSUME IInv, NEW g \in Fibers, Suspended(g), Release(g), NEW f \in Fibers
  PROVE  Suspended(f)' <=> Suspended(f) /\ f # g
<1>1. Rings(ring) /\ status[g] = "ready" /\ ring.parent[g] = g
  BY DEF Suspended, Alive, Linked, IInv, TypeOK, RingsWellFormed, Rings
<1>2. ring'.parent = [ring.parent EXCEPT ![g] = Ready]
  BY <1>1, ReadyKeeps DEF Release
<1>3. running' = running /\ status' = status
  BY DEF Release
<1> QED BY <1>1, <1>2, <1>3, HeadsFacts DEF Suspended, Alive, Linked, Rings, RingType

(* The loop of acl_fiber_schedule changes nothing in that.                 *)
LEMMA ScheduleSuspends ==
  ASSUME IInv, acl_fiber_schedule, NEW f \in Fibers
  PROVE  (Suspended(f)' <=> Suspended(f)) /\ (Alive(f) => Alive(f)')
<1>0. Rings(ring) /\ ring.parent \in [Fibers \cup Heads -> Fibers \cup Heads]
  BY PhaseStart DEF IInv, TypeOK, RingsWellFormed, Rings
<1>1. CASE ScheduleEnter \/ ScheduleReturn
  BY <1>1 DEF ScheduleEnter, ScheduleReturn, Suspended, Alive, Linked
<1>2. CASE ScheduleRun
  <2>1. acl_fiber_switch(ring) /\ status' = status /\ running = Original
    BY <1>2 DEF ScheduleRun
  <2>2. Suspended(f)' <=> Alive(f) /\ ring.parent[f] = f
    BY <1>0, <2>1, HandOverSuspends
  <2> QED BY <2>1, <2>2, HeadsFacts DEF Suspended, Linked, Alive
<1>3. CASE ScheduleFree
  <2> DEFINE d == First(ring, Dead)
  <2>1. /\ d \in Fibers /\ ring.parent[d] = Dead /\ running' = running
        /\ ring'.parent = [ring.parent EXCEPT ![d] = d]
        /\ status' = [status EXCEPT ![d] = "free"]
    BY <1>0, <1>3, PopKeeps, HeadsFacts DEF ScheduleFree
  <2> HIDE DEF d
  <2>2. status[d] = "exiting"
    BY <2>1 DEF IInv, RingsMatchStatus
  <2> QED BY <1>0, <2>1, <2>2 DEF Suspended, Alive, Linked, IInv, TypeOK
<1> QED BY <1>1, <1>2, <1>3 DEF acl_fiber_schedule

(* Nor does the creation of a fiber.                                       *)
LEMMA CreateSuspends ==
  ASSUME IInv, NEW g \in Fibers, Create(g), NEW f \in Fibers
  PROVE  (Suspended(f)' <=> Suspended(f)) /\ (Alive(f) => Alive(f)') /\ ~Alive(g)
<1> DEFINE m == acl_ring_pop_head(ring, Dead)
<1>0. Rings(ring) /\ ring.parent \in [Fibers \cup Heads -> Fibers \cup Heads]
  BY PhaseStart DEF IInv, TypeOK, RingsWellFormed, Rings
<1>1. Rings(m) /\ ~Alive(g) /\ m.parent[g] = g /\ (f # g => m.parent[f] = ring.parent[f])
  <2>1. CASE NoEntry(ring, Dead)
    <3>1. m = ring /\ status[g] = "free"
      BY <1>0, <2>1, PopKeeps, HeadsFacts DEF Create
    <3>2. ring.parent[g] = g
      BY <3>1 DEF IInv, RingsMatchStatus, Linked
    <3> QED BY <1>0, <3>1, <3>2 DEF Alive
  <2>2. CASE ~NoEntry(ring, Dead)
    <3>1. /\ g = First(ring, Dead) /\ Rings(m)
          /\ ring.parent[g] = Dead /\ m.parent = [ring.parent EXCEPT ![g] = g]
      BY <1>0, <2>2, PopKeeps, HeadsFacts DEF Create
    <3> HIDE DEF m
    <3> QED BY <1>0, <3>1, HeadsFacts DEF IInv, RingsMatchStatus, Alive
  <2> QED BY <2>1, <2>2
<1>2. ring' = acl_ring_prepend(m, Ready, g)
  BY DEF Create
<1> HIDE DEF m
<1>3. ring'.parent = [m.parent EXCEPT ![g] = Ready]
  <2>1. RingType(m, Fibers, Heads) /\ WellLinked(m, Fibers, Heads)
    BY <1>1 DEF Rings
  <2> QED BY <1>1, <1>2, <2>1, PrependKeeps, HeadsFacts
<1>4. running' = running /\ status' = [status EXCEPT ![g] = "ready"]
  BY DEF Create
<1>5. m.parent \in [Fibers \cup Heads -> Fibers \cup Heads]
  BY <1>1 DEF Rings, RingType
<1>6. Alive(f)' <=> Alive(f) \/ f = g
  BY <1>4 DEF Alive, IInv, TypeOK
<1>7. CASE f = g
  BY <1>1, <1>3, <1>5, <1>6, <1>7, HeadsFacts DEF Suspended, Linked
<1>8. CASE f # g
  BY <1>1, <1>3, <1>4, <1>5, <1>6, <1>8 DEF Suspended, Linked
<1> QED BY <1>1, <1>6, <1>7, <1>8

(* Nor does yielding.                                                      *)
LEMMA YieldSuspends ==
  ASSUME IInv, NEW g \in Fibers, acl_fiber_yield(g), NEW f \in Fibers
  PROVE  (Suspended(f)' <=> Suspended(f)) /\ status' = status
<1> DEFINE m == acl_fiber_ready(ring, g)
<1>1. /\ Rings(ring) /\ Rings(m) /\ m.parent = [ring.parent EXCEPT ![g] = Ready]
      /\ status' = status /\ running = g
  BY RunningFiber, ReadyKeeps DEF acl_fiber_yield
<1>2. acl_fiber_switch(m)
  BY DEF acl_fiber_yield
<1> HIDE DEF m
<1>3. Suspended(f)' <=> Alive(f) /\ m.parent[f] = f
  BY <1>1, <1>2, HandOverSuspends
<1>4. m.parent[f] = f <=> f # g /\ ring.parent[f] = f
  BY <1>1, HeadsFacts DEF Rings, RingType
<1> QED BY <1>1, <1>3, <1>4 DEF Suspended, Linked

(* Nor does the end of a fiber, for the others.                            *)
LEMMA ExitSuspends ==
  ASSUME IInv, NEW g \in Fibers, fiber_exit(g), NEW f \in Fibers
  PROVE  (Suspended(f)' <=> Suspended(f)) /\ (Alive(f) /\ f # g => Alive(f)')
<1> DEFINE m == acl_ring_pop_head(ring, Ready)
           k == fiber_kick(m)
           d == First(m, Dead)
           r == First(ring, Ready)
<1>1. Rings(ring) /\ ring.parent[g] = g /\ Alive(g) /\ running = g
  BY RunningFiber DEF fiber_exit, Alive
<1>2. /\ Rings(m)
      /\ \/ m = ring /\ running' = Original
         \/ /\ r \in Fibers /\ ring.parent[r] = Ready /\ running' = r
            /\ m.parent = [ring.parent EXCEPT ![r] = r]
  BY <1>1, PopKeeps, HeadsFacts DEF fiber_exit
<1>3. Rings(k) /\ \/ k = m /\ Kicked(m) = {}
                  \/ /\ Kicked(m) = {d} /\ d \in Fibers /\ m.parent[d] = Dead
                     /\ k.parent = [m.parent EXCEPT ![d] = d]
  <2> HIDE DEF m
  <2> QED BY <1>2, PopKeeps, HeadsFacts DEF fiber_kick, Kicked
<1>4. /\ ring' = acl_ring_prepend(k, Dead, g)
      /\ status' = [h \in Fibers |-> IF h = g THEN "exiting"
                                     ELSE IF h \in Kicked(m) THEN "free" ELSE status[h]]
  BY DEF fiber_exit
<1> HIDE DEF m, k, d, r
<1>5. ASSUME NEW h \in Fibers
      PROVE  /\ m.parent[h] = Dead <=> ring.parent[h] = Dead
             /\ running' # h => m.parent[h] = ring.parent[h]
             /\ running' = h => ring.parent[h] = Ready /\ m.parent[h] = h
  BY <1>1, <1>2, HeadsFacts DEF Rings, RingType
<1>6. m.parent[g] = g /\ g # running'
  BY <1>1, <1>5, HeadsFacts
<1>7. k.parent[g] = g /\ (Alive(f) => k.parent[f] = m.parent[f])
  <2>1. Alive(f) => ring.parent[f] # Dead
    BY DEF Alive, IInv, RingsMatchStatus
  <2>2. Alive(f) => m.parent[f] # Dead
    BY <2>1, <1>5
  <2> QED BY <1>2, <1>3, <1>6, <2>2, HeadsFacts DEF Rings, RingType
<1>8. ring'.parent = [k.parent EXCEPT ![g] = Dead]
  <2>1. RingType(k, Fibers, Heads) /\ WellLinked(k, Fibers, Heads)
    BY <1>3 DEF Rings
  <2>2. LET p == acl_ring_prepend(k, Dead, g)
        IN  /\ RingType(p, Fibers, Heads) /\ WellLinked(p, Fibers, Heads)
            /\ p.parent = [k.parent EXCEPT ![g] = Dead]
    BY <1>7, <2>1, PrependKeeps, HeadsFacts
  <2> QED BY <1>4, <2>2
<1>9. Alive(f)' <=> Alive(f) /\ f # g
  <2>1. f \in Kicked(m) => ring.parent[f] = Dead
    BY <1>3, <1>5
  <2>2. f \in Kicked(m) => status[f] = "exiting"
    BY <2>1 DEF IInv, RingsMatchStatus
  <2> QED BY <1>4, <2>2 DEF Alive
<1>10. CASE ~Alive(f) \/ f = g
  BY <1>1, <1>9, <1>10 DEF Suspended
<1>11. CASE Alive(f) /\ f # g
  <2>1. ring'.parent[f] = m.parent[f]
    BY <1>3, <1>7, <1>8, <1>11 DEF Rings, RingType
  <2>2. Suspended(f)' <=> running' # f /\ m.parent[f] = f
    BY <1>9, <1>11, <2>1 DEF Suspended, Linked
  <2>3. Suspended(f) <=> ring.parent[f] = f
    BY <1>1, <1>11 DEF Suspended, Linked
  <2> QED BY <1>5, <1>9, <1>11, <2>2, <2>3, HeadsFacts
<1> QED BY <1>9, <1>10, <1>11

-----------------------------------------------------------------------------
(* The invariant.  What FifoDelivery and the others say is not inductive:  *)
(* that no message is sent twice needs the messages of blocked senders to  *)
(* be none of those sent, and that a call resumes only when it was carried *)
(* out needs the arrays to be exactly those of suspended fibers.           *)

ChanTyped ==
  /\ bufsize \in Sizes /\ Ring(bufsize, chan)
  /\ asend \subseteq Fibers /\ arecv \subseteq Fibers
  /\ op \in [Fibers -> {"CHANSND", "CHANRCV", "CHANNOP"}]
  /\ v \in [Fibers -> Values]
  /\ next \in 1 .. MaxMsgs + 1
  /\ sent \in Seq(Values) /\ taken \in Seq(Values) /\ result \in Seq(Values)

(* A living fiber that was never signalled is not killed.                  *)
KilledIsSignalled == \A f \in Fibers : killed[f] => signum[f] # NoSignal

CallsAreAlive == \A f \in Fibers : op[f] # "CHANNOP" => Alive(f)

Arrays == CallsAreAlive /\ QueuedAreSuspended

(* Every message that is numbered was sent, or is that of a blocked sender. *)
Numbered ==
  /\ \A i \in 1 .. Len(sent) : sent[i] < next
  /\ \A i, j \in 1 .. Len(sent) : sent[i] = sent[j] => i = j
  /\ \A f \in asend : v[f] < next /\ \A i \in 1 .. Len(sent) : sent[i] # v[f]
  /\ \A f, g \in asend : v[f] = v[g] => f = g

InOrder == sent = taken \o Content(bufsize, chan)

ChanInv ==
  /\ ChanTyped /\ KilledIsSignalled
  /\ Arrays /\ NobodyBlockedNeedlessly
  /\ Numbered /\ InOrder
  /\ IsFiniteSet(InHand) /\ DeliveredOnce

(* An alt that is in an array belongs to a suspended fiber, so to take it   *)
(* from there and to ready its fiber is what Wake allows.                  *)
LEMMA QueuedFacts ==
  ASSUME ChanTyped, QueuedAreSuspended
  PROVE  /\ \A g \in asend : g \in Fibers /\ g \notin arecv /\ Suspended(g) /\ op[g] = "CHANSND"
         /\ \A g \in arecv : g \in Fibers /\ g \notin asend /\ Suspended(g) /\ op[g] = "CHANRCV"
BY DEF ChanTyped, QueuedAreSuspended

(* The three kinds of switches the channel makes.                          *)
LEMMA SendCases ==
  ASSUME ChanInv, NEW f \in Fibers, acl_channel_send(f)
  PROVE  /\ running = f /\ op[f] = "CHANNOP" /\ next \in Msgs /\ next' = next + 1
         /\ result' = result
         /\ (\E g \in arecv : SendToReceiver(g)) \/ SendToBuffer \/ SendBlock(f)
BY DEF acl_channel_send, ChanAtTop, SendToReceiver

(* Receiving is the same the other way round.                              *)
LEMMA RecvCases ==
  ASSUME ChanInv, NEW f \in Fibers, acl_channel_recv(f)
  PROVE  /\ running = f /\ op[f] = "CHANNOP" /\ next' = next
         /\ (\E g \in asend : RecvFromSender(g)) \/ RecvFromBuffer \/ RecvBlock(f)
BY DEF acl_channel_recv, ChanAtTop, RecvFromSender

(* Every step of the channel is a step of the scheduler, or none at all.   *)
LEMMA ChanStepIsSchedStep == ChanInv /\ [ChanNext]_chanVars => [Next]_schedVars
<1> SUFFICES ASSUME ChanInv, [ChanNext]_chanVars PROVE [Next]_schedVars
  OBVIOUS
<1>1. CASE UNCHANGED chanVars
  BY <1>1 DEF chanVars
<1>2. CASE ChanOtherStep
  BY <1>2 DEF ChanOtherStep, Next
<1>3. ASSUME NEW g \in asend \cup arecv, Release(g), NEW f \in Fibers, running = f
      PROVE  Next
  <2>1. g \in Fibers /\ Wake(g)
    BY <1>3, QueuedFacts DEF ChanInv, Arrays, Wake, CanCall, Release
  <2> QED BY <2>1 DEF Next
<1>4. ASSUME NEW f \in Fibers, acl_channel_send(f) PROVE [Next]_schedVars
  <2>1. ASSUME NEW g \in arecv, SendToReceiver(g) PROVE Next
    BY <1>3, <1>4, <2>1, SendCases DEF SendToReceiver
  <2> QED BY <1>4, <2>1, SendCases DEF SendToBuffer, SendBlock, Next
<1>5. ASSUME NEW f \in Fibers, acl_channel_recv(f) PROVE [Next]_schedVars
  <2>1. ASSUME NEW g \in asend, RecvFromSender(g) PROVE Next
    BY <1>3, <1>5, <2>1, RecvCases DEF RecvFromSender
  <2> QED BY <1>5, <2>1, RecvCases DEF RecvFromBuffer, RecvBlock, Next
<1>6. ASSUME NEW f \in Fibers, ChanReturn(f) PROVE UNCHANGED schedVars
  BY <1>6 DEF ChanReturn
<1> QED BY <1>1, <1>2, <1>4, <1>5, <1>6 DEF ChanNext

(* Only a signal kills, and a new fiber has none.                          *)
LEMMA KilledStep ==
  ASSUME IInv, KilledIsSignalled, [Next]_schedVars
  PROVE  KilledIsSignalled'
<1>0. /\ killed \in [Fibers -> BOOLEAN] /\ signum \in [Fibers -> Signals \cup {NoSignal}]
      /\ NoSignal \notin Signals
  BY ConstantsAssumption DEF IInv, TypeOK
<1>1. CASE UNCHANGED <<killed, signum>>
  BY <1>1 DEF KilledIsSignalled
<1>2. ASSUME NEW f \in Fibers, Create(f) PROVE KilledIsSignalled'
  <2> SUFFICES ASSUME NEW g \in Fibers, killed'[g] PROVE signum'[g] # NoSignal
    BY DEF KilledIsSignalled
  <2>1. killed' = [killed EXCEPT ![f] = FALSE] /\ signum' = [signum EXCEPT ![f] = NoSignal]
    BY <1>2 DEF Create
  <2>2. g # f
    BY <1>0, <2>1, Zenon
  <2> QED BY <1>0, <2>1, <2>2 DEF KilledIsSignalled
<1>3. ASSUME NEW f \in Fibers, NEW g \in Fibers, NEW sig \in Signals, acl_fiber_signal(f, g, sig)
      PROVE  KilledIsSignalled'
  <2> SUFFICES ASSUME NEW h \in Fibers, killed'[h] PROVE signum'[h] # NoSignal
    BY DEF KilledIsSignalled
  <2>1. /\ killed' = [killed EXCEPT ![g] = @ \/ sig \in Fatal]
        /\ signum' = [signum EXCEPT ![g] = sig]
    BY <1>3 DEF acl_fiber_signal
  <2>2. CASE h = g
    BY <1>0, <2>1, <2>2
  <2>3. CASE h # g
    <3>1. killed[h]
      BY <1>0, <2>1, <2>3, Zenon
    <3> QED BY <1>0, <2>1, <2>3, <3>1 DEF KilledIsSignalled
  <2> QED BY <2>2, <2>3
<1>4. CASE UNCHANGED schedVars
  BY <1>1, <1>4 DEF schedVars
<1>5. CASE acl_fiber_schedule
  BY <1>1, <1>5
     DEF acl_fiber_schedule, ScheduleEnter, ScheduleRun, ScheduleFree, ScheduleReturn
<1>6. ASSUME NEW f \in Fibers, acl_fiber_yield(f) \/ Suspend(f) \/ fiber_exit(f) \/ Wake(f)
      PROVE  KilledIsSignalled'
  BY <1>1, <1>6 DEF acl_fiber_yield, Suspend, fiber_exit, Wake
<1>7. ASSUME NEW f \in Fibers, NEW w \in WaitRings, WaitIn(f, w)
      PROVE  KilledIsSignalled'
  BY <1>1, <1>7 DEF WaitIn
<1>8. ASSUME NEW w \in WaitRings, WakeFirst(w) PROVE KilledIsSignalled'
  BY <1>1, <1>8 DEF WakeFirst
<1> QED BY <1>2, <1>3, <1>4, <1>5, <1>6, <1>7, <1>8 DEF Next

-----------------------------------------------------------------------------
(* The calls and the arrays.                                               *)

(* A step that is not one of the channel leaves them alone.                *)
LEMMA OtherArrays ==
  ASSUME IInv, QInv, ChanTyped, Arrays, ChanOtherStep, UNCHANGED chanOnly, Unsignalled'
  PROVE  Arrays'
<1>0. UNCHANGED <<asend, arecv, op>>
  BY DEF chanOnly
<1>1. ASSUME \A f \in Fibers : /\ Suspended(f)' <=> Suspended(f)
                               /\ Alive(f) /\ op[f] # "CHANNOP" => Alive(f)'
      PROVE  Arrays'
  BY <1>0, <1>1 DEF Arrays, CallsAreAlive, QueuedAreSuspended
<1>2. CASE acl_fiber_schedule
  BY <1>1, <1>2, ScheduleSuspends
<1>3. ASSUME NEW g \in Fibers, Create(g) PROVE Arrays'
  BY <1>1, <1>3, CreateSuspends
<1>4. ASSUME NEW g \in Fibers, acl_fiber_yield(g) PROVE Arrays'
  BY <1>1, <1>4, YieldSuspends DEF Alive
<1>5. ASSUME NEW g \in Fibers, fiber_exit(g), ChanAtTop PROVE Arrays'
  <2>1. op[g] = "CHANNOP"
    BY <1>5 DEF fiber_exit, ChanAtTop
  <2> QED BY <1>1, <1>5, <2>1, ExitSuspends
<1>6. ASSUME NEW f \in Fibers, NEW g \in Fibers, NEW sig \in Signals PROVE ~acl_fiber_signal(f, g, sig)
  <2> SUFFICES ASSUME acl_fiber_signal(f, g, sig) PROVE FALSE
    OBVIOUS
  <2>1. signum'[g] = sig
    BY DEF acl_fiber_signal, IInv, TypeOK
  <2> QED BY <2>1, ConstantsAssumption DEF Unsignalled
<1> QED BY <1>2, <1>3, <1>4, <1>5, <1>6 DEF ChanOtherStep

(* Nor does a step that changes none of what they speak of.                *)
LEMMA SameArrays ==
  ASSUME Arrays, UNCHANGED <<ring, running, status, asend, arecv, op>>
  PROVE  Arrays'
BY DEF Arrays, CallsAreAlive, QueuedAreSuspended, Suspended, Alive, Linked

(* A peer leaves its array when it is readied.                             *)
LEMMA WakeArrays ==
  ASSUME IInv, ChanTyped, Arrays, NEW g \in asend \cup arecv, Release(g), op' = op,
         asend' = asend \ {g}, arecv' = arecv \ {g}
  PROVE  Arrays'
<1>1. g \in Fibers /\ Suspended(g)
  BY QueuedFacts DEF Arrays
<1>2. \A f \in Fibers : Suspended(f)' <=> Suspended(f) /\ f # g
  BY <1>1, WakeSuspends
<1>3. \A f \in Fibers : Alive(f)' <=> Alive(f)
  BY DEF Release, Alive
<1> QED BY <1>2, <1>3 DEF Arrays, CallsAreAlive, QueuedAreSuspended

(* A fiber enters one when it is suspended.                                *)
LEMMA BlockArrays ==
  ASSUME IInv, QInv, ChanTyped, Arrays, NEW f \in Fibers, Suspend(f), op[f] = "CHANNOP",
         NEW call \in {"CHANSND", "CHANRCV"}, op' = [op EXCEPT ![f] = call],
         asend' = IF call = "CHANSND" THEN asend \cup {f} ELSE asend,
         arecv' = IF call = "CHANRCV" THEN arecv \cup {f} ELSE arecv
  PROVE  Arrays'
<1>1. \A g \in Fibers : Suspended(g)' <=> Suspended(g) \/ g = f
  BY SuspendSuspends
<1>2. \A g \in Fibers : Alive(g)' <=> Alive(g)
  BY DEF Suspend, Alive
<1>3. Alive(f) /\ f \notin asend /\ f \notin arecv /\ op \in [Fibers -> {"CHANSND", "CHANRCV", "CHANNOP"}]
  BY RunningFiber, QueuedFacts DEF Suspend, Alive, Arrays, ChanTyped
<1>4. CallsAreAlive'
  BY <1>2, <1>3 DEF Arrays, CallsAreAlive
<1>5. ASSUME NEW g \in Fibers
      PROVE  /\ g \in asend' <=> op'[g] = "CHANSND" /\ Suspended(g)'
             /\ g \in arecv' <=> op'[g] = "CHANRCV" /\ Suspended(g)'
  <2>1. CASE g = f
    BY <1>1, <1>3, <2>1
  <2>2. CASE g # f
    BY <1>1, <1>3, <2>2 DEF Arrays, QueuedAreSuspended
  <2> QED BY <2>1, <2>2
<1> QED BY <1>4, <1>5 DEF Arrays, QueuedAreSuspended

(* A fiber that returns is in none.                                        *)
LEMMA ReturnArrays ==
  ASSUME IInv, ChanTyped, Arrays, NEW f \in Fibers, ChanReturn(f)
  PROVE  Arrays' /\ f \notin asend /\ f \notin arecv
<1>1. running = f /\ op' = [op EXCEPT ![f] = "CHANNOP"] /\ UNCHANGED <<schedVars, asend, arecv>>
  BY DEF ChanReturn
<1>2. ~Suspended(f)
  BY <1>1 DEF Suspended
<1>3. \A g \in Fibers : (Suspended(g)' <=> Suspended(g)) /\ (Alive(g)' <=> Alive(g))
  BY <1>1 DEF schedVars, Suspended, Alive, Linked
<1> QED BY <1>1, <1>2, <1>3 DEF ChanTyped, Arrays, CallsAreAlive, QueuedAreSuspended

-----------------------------------------------------------------------------
(* The messages.                                                           *)

(* What Append does to a sequence, by index and as a set.                  *)
LEMMA SequenceFacts ==
  ASSUME NEW S, NEW s \in Seq(S), NEW x \in S
  PROVE  /\ Append(s, x) \in Seq(S) /\ Len(Append(s, x)) = Len(s) + 1
         /\ \A i \in 1 .. Len(s) : Append(s, x)[i] = s[i]
         /\ Append(s, x)[Len(s) + 1] = x
         /\ Range(Append(s, x)) = Range(s) \cup {x}
<1>1. /\ Append(s, x) \in Seq(S) /\ Len(Append(s, x)) = Len(s) + 1
      /\ \A i \in 1 .. Len(s) : Append(s, x)[i] = s[i]
      /\ Append(s, x)[Len(s) + 1] = x /\ DOMAIN s = 1 .. Len(s) /\ Len(s) \in Nat
      /\ DOMAIN Append(s, x) = 1 .. Len(s) + 1
  OBVIOUS
<1> DEFINE t == Append(s, x)
<1> HIDE DEF t
<1>2. Range(t) = Range(s) \cup {x}
  BY <1>1 DEF Range, t
<1> QED BY <1>1, <1>2 DEF t

(* Of a queue s the part t was taken and q is left.                        *)
Split(s, t, q) == s = t \o q

(* What is appended to the whole is appended to the rest.                  *)
LEMMA SplitGrows ==
  ASSUME NEW s, NEW t \in Seq(Values), NEW q \in Seq(Values), NEW x \in Values, Split(s, t, q)
  PROVE  Split(Append(s, x), t, Append(q, x))
<1>1. Append(t \o q, x) = t \o Append(q, x)
  OBVIOUS
<1>2. s = t \o q
  BY DEF Split
<1> QED BY <1>1, <1>2, Zenon DEF Split

(* What is taken goes over from one part to the other.                     *)
LEMMA HeadMoves ==
  ASSUME NEW S, NEW s \in Seq(S), NEW q \in Seq(S), q # << >>
  PROVE  Append(s, Head(q)) \o Tail(q) = s \o q
OBVIOUS

(* The head of the rest goes over to the part that was taken.              *)
LEMMA SplitMoves ==
  ASSUME NEW s, NEW t \in Seq(Values), NEW q \in Seq(Values), q # << >>, Split(s, t, q)
  PROVE  Split(s, Append(t, Head(q)), Tail(q))
<1>1. Append(t, Head(q)) \o Tail(q) = t \o q
  BY HeadMoves
<1> QED BY <1>1, Zenon DEF Split

(* An empty rest changes nothing.                                          *)
LEMMA NothingBehind ==
  ASSUME NEW S, NEW s \in Seq(S)
  PROVE  s \o << >> = s
OBVIOUS

(* A number that is not among those sent can be sent.                      *)
LEMMA NumbersDiffer ==
  ASSUME NEW s \in Seq(Values), NEW x \in Values, NEW n \in Int, x < n,
         \A i \in 1 .. Len(s) : s[i] < n /\ s[i] # x,
         \A i, j \in 1 .. Len(s) : s[i] = s[j] => i = j
  PROVE  /\ \A i \in 1 .. Len(Append(s, x)) : Append(s, x)[i] < n
         /\ \A i, j \in 1 .. Len(Append(s, x)) : Append(s, x)[i] = Append(s, x)[j] => i = j
         /\ \A y : (y # x /\ \A i \in 1 .. Len(s) : s[i] # y)
                 => \A i \in 1 .. Len(Append(s, x)) : Append(s, x)[i] # y
<1> DEFINE t == Append(s, x)
<1>1. /\ Len(t) = Len(s) + 1 /\ Len(s) \in Nat /\ t[Len(s) + 1] = x
      /\ \A i \in 1 .. Len(s) : t[i] = s[i]
  BY SequenceFacts
<1> HIDE DEF t
<1>2. \A i \in 1 .. Len(t) : i \in 1 .. Len(s) \/ i = Len(s) + 1
  BY <1>1
<1> QED BY <1>1, <1>2 DEF t

Delivered == IsFiniteSet(InHand) /\ DeliveredOnce

(* The senders whose message was sent, and the receivers who have theirs.  *)
Resumed(f) == op[f] = "CHANSND" /\ f \notin asend

(* A message is copied to a receiver g that waits.                         *)
LEMMA ReceiverGets ==
  ASSUME ChanTyped, Delivered, NEW g \in Fibers, g \notin InHand, op[g] = "CHANRCV", NEW x \in Values,
         InHand' = InHand \cup {g}, v' = [v EXCEPT ![g] = x],
         taken' = Append(taken, x), result' = result, op' = op, asend' = asend,
         Range(sent) \subseteq Range(sent')
  PROVE  Delivered'
<1>1. IsFiniteSet(InHand') /\ Cardinality(InHand') = Cardinality(InHand) + 1
  BY FS_AddElement DEF Delivered
<1>2. Range(taken') = Range(taken) \cup {x} /\ Len(taken') = Len(taken) + 1
  BY SequenceFacts DEF ChanTyped
<1>3. {v'[f] : f \in InHand'} = {v[f] : f \in InHand} \cup {x}
  BY DEF ChanTyped, InHand
<1>4. \A f \in Fibers : op'[f] = "CHANSND" /\ f \notin asend' => v'[f] \in Range(sent')
  BY DEF ChanTyped, Delivered, DeliveredOnce
<1>5. Cardinality(InHand) \in Nat /\ Len(result) \in Nat /\ Len(taken) = Len(result) + Cardinality(InHand)
      /\ Range(taken) = Range(result) \cup {v[f] : f \in InHand}
  BY FS_CardinalityType DEF ChanTyped, Delivered, DeliveredOnce
<1>6. Range(taken') = Range(result') \cup {v'[f] : f \in InHand'}
  BY <1>2, <1>3, <1>5
<1>7. Len(taken') = Len(result') + Cardinality(InHand')
  BY <1>1, <1>2, <1>5
<1> QED BY <1>1, <1>4, <1>6, <1>7 DEF Delivered, DeliveredOnce

(* A receiver that finds a message returns with it.                        *)
LEMMA ReceiverReturns ==
  ASSUME ChanTyped, Delivered, NEW x \in Values,
         UNCHANGED <<op, arecv, v>>,
         taken' = Append(taken, x), result' = Append(result, x),
         \A f \in Fibers : op[f] = "CHANSND" /\ f \notin asend' =>
            f \notin asend \/ v[f] \in Range(sent'),
         Range(sent) \subseteq Range(sent')
  PROVE  Delivered'
<1>1. InHand' = InHand
  BY DEF InHand
<1>2. /\ Range(taken') = Range(taken) \cup {x} /\ Len(taken') = Len(taken) + 1
      /\ Range(result') = Range(result) \cup {x} /\ Len(result') = Len(result) + 1
  BY SequenceFacts DEF ChanTyped
<1>4. \A f \in Fibers : op'[f] = "CHANSND" /\ f \notin asend' => v'[f] \in Range(sent')
  BY DEF Delivered, DeliveredOnce
<1>5. Cardinality(InHand) \in Nat /\ Len(result) \in Nat /\ Len(taken) = Len(result) + Cardinality(InHand)
      /\ Range(taken) = Range(result) \cup {v[f] : f \in InHand}
  BY FS_CardinalityType DEF ChanTyped, Delivered, DeliveredOnce
<1>6. Range(taken') = Range(result') \cup {v'[f] : f \in InHand'}
  BY <1>1, <1>2, <1>5
<1>7. Len(taken') = Len(result') + Cardinality(InHand')
  BY <1>1, <1>2, <1>5
<1> QED BY <1>1, <1>4, <1>6, <1>7 DEF Delivered, DeliveredOnce

(* Nothing is taken: more is sent, or a fiber f enters or leaves an array. *)
LEMMA NothingTaken ==
  ASSUME ChanTyped, Delivered, InHand' = InHand, UNCHANGED <<taken, result>>,
         \A f \in InHand : v'[f] = v[f],
         \A f \in Fibers : Resumed(f)' => Resumed(f) /\ v'[f] = v[f],
         Range(sent) \subseteq Range(sent')
  PROVE  Delivered'
<1>1. \A f \in Fibers : Resumed(f)' => v'[f] \in Range(sent')
  BY DEF Delivered, DeliveredOnce, Resumed
<1>2. {v'[f] : f \in InHand'} = {v[f] : f \in InHand}
  OBVIOUS
<1> QED BY <1>1, <1>2 DEF Delivered, DeliveredOnce, Resumed

(* A receiver that was given a message returns with it.                    *)
LEMMA ReceiverResumes ==
  ASSUME ChanTyped, KilledIsSignalled, Arrays, Delivered, Unsignalled,
         NEW f \in Fibers, ChanReturn(f), f \notin asend, f \notin arecv
  PROVE  Delivered' /\ result' \in Seq(Values)
<1>1. /\ op' = [op EXCEPT ![f] = "CHANNOP"] /\ v' = [v EXCEPT ![f] = NoMsg]
      /\ UNCHANGED <<asend, arecv, sent, taken>> /\ ~killed[f]
      /\ result' = IF op[f] = "CHANRCV" /\ ~killed[f] THEN Append(result, v[f]) ELSE result
  BY DEF ChanReturn, KilledIsSignalled, Unsignalled
<1>2. /\ op \in [Fibers -> {"CHANSND", "CHANRCV", "CHANNOP"}] /\ v \in [Fibers -> Values]
      /\ result \in Seq(Values) /\ taken \in Seq(Values) /\ Len(result) \in Nat
  BY DEF ChanTyped
<1>3. \A g \in Fibers : Resumed(g)' => Resumed(g) /\ v'[g] = v[g]
  BY <1>1, <1>2 DEF Resumed
<1>4. InHand' = InHand \ {f}
  BY <1>1, <1>2 DEF InHand
<1>5. CASE op[f] # "CHANRCV"
  <2>1. InHand' = InHand /\ f \notin InHand /\ result' = result
    BY <1>1, <1>4, <1>5 DEF InHand
  <2>2. \A g \in InHand : v'[g] = v[g]
    BY <1>1, <1>2, <2>1 DEF InHand
  <2> QED BY <1>1, <1>2, <1>3, <2>1, <2>2, NothingTaken
<1>6. CASE op[f] = "CHANRCV"
  <2>1. f \in InHand /\ result' = Append(result, v[f]) /\ v[f] \in Values
    BY <1>1, <1>2, <1>6 DEF InHand
  <2>2. IsFiniteSet(InHand') /\ Cardinality(InHand') = Cardinality(InHand) - 1
    BY <1>4, <2>1, FS_RemoveElement DEF Delivered
  <2>3. result' \in Seq(Values) /\ Range(result') = Range(result) \cup {v[f]} /\ Len(result') = Len(result) + 1
    BY <1>2, <2>1, SequenceFacts
  <2>4. {v'[g] : g \in InHand'} \cup {v[f]} = {v[g] : g \in InHand}
    BY <1>1, <1>2, <1>4, <2>1 DEF InHand
  <2>5. Cardinality(InHand) \in Nat /\ Len(taken) = Len(result) + Cardinality(InHand)
        /\ Range(taken) = Range(result) \cup {v[g] : g \in InHand}
    BY FS_CardinalityType DEF Delivered, DeliveredOnce
  <2>6. Range(taken') = Range(result') \cup {v'[g] : g \in InHand'}
    BY <1>1, <2>3, <2>4, <2>5
  <2>7. Len(taken') = Len(result') + Cardinality(InHand')
    BY <1>1, <1>2, <2>2, <2>3, <2>5
  <2>8. \A g \in Fibers : op'[g] = "CHANSND" /\ g \notin asend' => v'[g] \in Range(sent')
    BY <1>1, <1>3 DEF Resumed, Delivered, DeliveredOnce
  <2> QED BY <2>2, <2>3, <2>6, <2>7, <2>8 DEF Delivered, DeliveredOnce
<1> QED BY <1>5, <1>6

-----------------------------------------------------------------------------
(* The operations keep the invariant.                                      *)

(* The types of the fields, spelt out.                                     *)
LEMMA TypedFacts ==
  ASSUME ChanTyped
  PROVE  /\ bufsize \in Nat /\ Ring(bufsize, chan) /\ chan.nbuf \in 0 .. bufsize
         /\ asend \subseteq Fibers /\ arecv \subseteq Fibers
         /\ v \in [Fibers -> Values] /\ next \in Int
         /\ sent \in Seq(Values) /\ taken \in Seq(Values) /\ result \in Seq(Values)
         /\ Msgs \subseteq Values /\ Values \subseteq Int
         /\ chan.nbuf = 0 => Content(bufsize, chan) = << >>
<1>1. Msgs \subseteq Values /\ Values \subseteq Int
  BY ChanFacts DEF Msgs, Values, NoMsg
<1>2. chan.nbuf = 0 => Content(bufsize, chan) = << >>
  BY DEF Content
<1> QED BY <1>1, <1>2, ChanFacts DEF ChanTyped, Ring

(* A message is handed to a receiver that waits.                           *)
LEMMA SendToReceiverKeeps ==
  ASSUME IInv, QInv, ChanInv, KilledIsSignalled', NEW f \in Fibers, running = f, bufsize' = bufsize,
         next \in Msgs, next' = next + 1, result' = result, NEW g \in arecv, SendToReceiver(g)
  PROVE  ChanInv'
<1>1. /\ ChanTyped /\ Arrays /\ Numbered /\ InOrder /\ Delivered /\ KilledIsSignalled'
      /\ arecv # {} => chan.nbuf = 0
      /\ asend # {} => arecv = {}
  BY DEF ChanInv, Delivered, NobodyBlockedNeedlessly
<1>2. chan.nbuf = 0 /\ asend = {}
  BY <1>1
<1>3. /\ sent' = Append(sent, next) /\ v' = [v EXCEPT ![g] = next]
      /\ taken' = Append(taken, next) /\ UNCHANGED <<chan, asend, op>>
      /\ arecv' = arecv \ {g} /\ Release(g)
  BY <1>2 DEF SendToReceiver
<1>4. /\ g \in Fibers /\ g \notin asend /\ op[g] = "CHANRCV"
      /\ next \in Values /\ sent \in Seq(Values) /\ taken \in Seq(Values) /\ v \in [Fibers -> Values]
      /\ Content(bufsize, chan) = << >> /\ MaxMsgs \in Nat
  BY <1>1, <1>2, QueuedFacts, TypedFacts, ChanFacts DEF Arrays
<1>5. /\ sent' \in Seq(Values) /\ Len(sent') = Len(sent) + 1 /\ sent'[Len(sent) + 1] = next
      /\ \A i \in 1 .. Len(sent) : sent'[i] = sent[i]
      /\ Range(sent') = Range(sent) \cup {next} /\ taken' \in Seq(Values)
  BY <1>3, <1>4, SequenceFacts
<1>6. ChanTyped'
  BY <1>1, <1>3, <1>4, <1>5 DEF ChanTyped, Msgs
<1>7. Arrays'
  BY <1>1, <1>3, <1>4, WakeArrays
<1>8. NobodyBlockedNeedlessly'
  BY <1>2, <1>3 DEF NobodyBlockedNeedlessly
<1>9. Numbered'
  <2>1. \A i \in 1 .. Len(sent) : sent[i] < next /\ sent[i] \in Int
    BY <1>1, <1>4, TypedFacts DEF Numbered
  <2>2. next \in Int /\ next < next' /\ next' \in Int /\ Values \subseteq Int
        /\ \A i \in 1 .. Len(sent) : sent[i] < next' /\ sent[i] # next
    BY <1>1, <2>1, TypedFacts
  <2>3. /\ \A i \in 1 .. Len(sent') : sent'[i] < next'
        /\ \A i, j \in 1 .. Len(sent') : sent'[i] = sent'[j] => i = j
    <3>1. \A i, j \in 1 .. Len(sent) : sent[i] = sent[j] => i = j
      BY <1>1 DEF Numbered
    <3> QED BY <1>3, <1>4, <2>2, <3>1, NumbersDiffer
  <2> QED BY <1>2, <1>3, <2>3 DEF Numbered
<1>10. InOrder'
  <2>1. sent = taken /\ sent' = taken'
    BY <1>1, <1>3, <1>4, NothingBehind DEF InOrder
  <2>2. taken' \o << >> = taken'
    BY <1>5, NothingBehind
  <2> QED BY <1>3, <1>4, <2>1, <2>2 DEF InOrder
<1>11. Delivered'
  <2>1. g \notin InHand /\ InHand' = InHand \cup {g}
    BY <1>1, <1>3, <1>4 DEF InHand, ChanTyped
  <2> QED BY <1>1, <1>3, <1>4, <1>5, <2>1, ReceiverGets
<1> QED BY <1>1, <1>6, <1>7, <1>8, <1>9, <1>10, <1>11 DEF ChanInv, Delivered

(* A message goes behind the others in the buffer.                         *)
LEMMA SendToBufferKeeps ==
  ASSUME IInv, QInv, ChanInv, KilledIsSignalled', bufsize' = bufsize,
         next \in Msgs, next' = next + 1, result' = result, SendToBuffer
  PROVE  ChanInv'
<1>1. /\ ChanTyped /\ Arrays /\ Numbered /\ InOrder /\ Delivered /\ KilledIsSignalled'
      /\ asend # {} => chan.nbuf = bufsize
  BY DEF ChanInv, Delivered, NobodyBlockedNeedlessly
<1>2. /\ arecv = {} /\ sent' = Append(sent, next) /\ chan' = CopyIn(chan, next)
      /\ UNCHANGED <<schedVars, asend, arecv, op, v, taken>>
      /\ CanSend
  BY DEF SendToBuffer
<1>3. /\ next \in Values /\ sent \in Seq(Values) /\ taken \in Seq(Values) /\ MaxMsgs \in Nat
      /\ bufsize \in Nat /\ Ring(bufsize, chan)
  BY <1>1, TypedFacts, ChanFacts
<1>4. chan.nbuf < bufsize
  BY <1>2 DEF CanSend
<1>5. /\ sent' \in Seq(Values) /\ Len(sent') = Len(sent) + 1 /\ sent'[Len(sent) + 1] = next
      /\ \A i \in 1 .. Len(sent) : sent'[i] = sent[i]
      /\ Range(sent') = Range(sent) \cup {next}
  BY <1>2, <1>3, SequenceFacts
<1>6. /\ Ring(bufsize, chan')
      /\ Content(bufsize, chan') = Append(Content(bufsize, chan), next)
      /\ chan'.nbuf = chan.nbuf + 1 /\ chan.nbuf \in Nat /\ Content(bufsize, chan) \in Seq(Values)
  BY <1>2, <1>3, <1>4, CopyInContent, ContentFacts
<1>7. ChanTyped'
  BY <1>1, <1>2, <1>3, <1>5, <1>6 DEF ChanTyped, Msgs
<1>8. Arrays'
  BY <1>1, <1>2, SameArrays DEF schedVars
<1>9. asend = {} /\ NobodyBlockedNeedlessly'
  BY <1>1, <1>2, <1>3, <1>4, TypedFacts DEF NobodyBlockedNeedlessly
<1>10. Numbered'
  <2>1. \A i \in 1 .. Len(sent) : sent[i] < next /\ sent[i] \in Int
    BY <1>1, <1>3, TypedFacts DEF Numbered
  <2>2. next \in Int /\ next < next' /\ next' \in Int /\ Values \subseteq Int
        /\ \A i \in 1 .. Len(sent) : sent[i] < next' /\ sent[i] # next
    BY <1>1, <2>1, TypedFacts
  <2>3. /\ \A i \in 1 .. Len(sent') : sent'[i] < next'
        /\ \A i, j \in 1 .. Len(sent') : sent'[i] = sent'[j] => i = j
    <3>1. \A i, j \in 1 .. Len(sent) : sent[i] = sent[j] => i = j
      BY <1>1 DEF Numbered
    <3> QED BY <1>2, <1>3, <2>2, <3>1, NumbersDiffer
  <2> QED BY <1>2, <1>9, <2>3 DEF Numbered
<1>11. InOrder'
  <2>0. PICK q \in Seq(Values) : q = Content(bufsize, chan)
    BY <1>6
  <2>1. Split(sent, taken, q)
    BY <1>1, <2>0 DEF InOrder, Split
  <2>2. Split(Append(sent, next), taken, Append(q, next))
    BY <1>3, <2>1, SplitGrows
  <2> QED BY <1>2, <1>6, <2>0, <2>2 DEF InOrder, Split
<1>12. Delivered'
  <2>1. InHand' = InHand
    BY <1>2 DEF InHand
  <2> QED BY <1>1, <1>2, <1>5, <2>1, NothingTaken DEF Resumed
<1> QED BY <1>1, <1>7, <1>8, <1>9, <1>10, <1>11, <1>12 DEF ChanInv, Delivered

(* A sender finds no room and waits with its message.                      *)
LEMMA SendBlockKeeps ==
  ASSUME IInv, QInv, ChanInv, KilledIsSignalled', NEW f \in Fibers, bufsize' = bufsize,
         next \in Msgs, next' = next + 1, result' = result, op[f] = "CHANNOP", SendBlock(f)
  PROVE  ChanInv'
<1>1. /\ ChanTyped /\ Arrays /\ Numbered /\ InOrder /\ Delivered /\ KilledIsSignalled'
      /\ NobodyBlockedNeedlessly
  BY DEF ChanInv, Delivered
<1>2. /\ ~CanSend /\ asend' = asend \cup {f} /\ op' = [op EXCEPT ![f] = "CHANSND"]
      /\ v' = [v EXCEPT ![f] = next] /\ Suspend(f)
      /\ UNCHANGED <<chan, arecv, sent, taken>>
  BY DEF SendBlock
<1>3. /\ next \in Values /\ sent \in Seq(Values) /\ MaxMsgs \in Nat /\ bufsize \in Nat
      /\ v \in [Fibers -> Values] /\ chan.nbuf \in 0 .. bufsize
      /\ f \notin asend /\ f \notin arecv /\ asend \subseteq Fibers
  BY <1>1, TypedFacts, ChanFacts, QueuedFacts DEF Arrays
<1>4. ChanTyped'
  BY <1>1, <1>2, <1>3 DEF ChanTyped, Msgs
<1>5. Arrays'
  BY <1>1, <1>2, BlockArrays
<1>6. NobodyBlockedNeedlessly'
  BY <1>1, <1>2, <1>3 DEF NobodyBlockedNeedlessly, CanSend
<1>7. Numbered'
  <2>1. \A i \in 1 .. Len(sent) : sent[i] < next /\ sent[i] \in Int
    BY <1>1, <1>3, TypedFacts DEF Numbered
  <2>2. \A g \in asend : v[g] < next /\ v[g] \in Int /\ v'[g] = v[g] /\ g # f
    BY <1>1, <1>2, <1>3, TypedFacts DEF Numbered
  <2>3. v'[f] = next /\ next \in Int
    BY <1>1, <1>2, <1>3, TypedFacts
  <2>4. \A g \in asend' : v'[g] < next' /\ \A i \in 1 .. Len(sent') : sent'[i] # v'[g]
    BY <1>1, <1>2, <2>1, <2>2, <2>3 DEF Numbered
  <2>5. \A g, h \in asend' : v'[g] = v'[h] => g = h
    BY <1>1, <1>2, <2>2, <2>3 DEF Numbered
  <2>6. \A i \in 1 .. Len(sent') : sent'[i] < next'
    BY <1>2, <2>1, <2>3
  <2> QED BY <1>1, <1>2, <2>4, <2>5, <2>6 DEF Numbered
<1>8. InOrder'
  BY <1>1, <1>2 DEF InOrder
<1>9. Delivered'
  <2>1. InHand' = InHand /\ \A g \in InHand : v'[g] = v[g]
    BY <1>2, <1>3 DEF InHand, ChanTyped
  <2>2. \A g \in Fibers : Resumed(g)' => Resumed(g) /\ v'[g] = v[g]
    BY <1>1, <1>2, <1>3 DEF Resumed, ChanTyped
  <2> QED BY <1>1, <1>2, <2>1, <2>2, NothingTaken
<1> QED BY <1>1, <1>4, <1>5, <1>6, <1>7, <1>8, <1>9 DEF ChanInv, Delivered

(* A receiver takes the oldest message, a waiting sender's goes behind.    *)
LEMMA RecvFromSenderKeeps ==
  ASSUME IInv, QInv, ChanInv, KilledIsSignalled', NEW f \in Fibers, running = f, bufsize' = bufsize,
         next' = next, NEW g \in asend, RecvFromSender(g)
  PROVE  ChanInv'
<1> DEFINE x == IF chan.nbuf = 0 THEN v[g] ELSE Oldest
<1>1. /\ ChanTyped /\ Arrays /\ Numbered /\ InOrder /\ Delivered /\ KilledIsSignalled'
      /\ chan.nbuf = bufsize /\ arecv = {}
  BY DEF ChanInv, Delivered, NobodyBlockedNeedlessly
<1>2. /\ asend' = asend \ {g} /\ sent' = Append(sent, v[g])
      /\ taken' = Append(taken, x) /\ result' = Append(result, x)
      /\ chan' = IF chan.nbuf = 0 THEN chan ELSE CopyIn(CopyOut(chan), v[g])
      /\ Release(g) /\ UNCHANGED <<arecv, op, v>>
  BY DEF RecvFromSender
<1>3. /\ g \in Fibers /\ g \notin arecv /\ v[g] \in Values /\ v \in [Fibers -> Values]
      /\ sent \in Seq(Values) /\ taken \in Seq(Values) /\ result \in Seq(Values)
      /\ bufsize \in Nat /\ Ring(bufsize, chan) /\ chan.nbuf \in 0 .. bufsize
      /\ asend \subseteq Fibers /\ next \in Int /\ Values \subseteq Int
      /\ chan.nbuf = 0 => Content(bufsize, chan) = << >>
  BY <1>1, TypedFacts, QueuedFacts DEF Arrays
  (* the message that is taken, and what is in the buffer then *)
<1>4. /\ x \in Values /\ Ring(bufsize, chan') /\ chan'.nbuf = chan.nbuf
      /\ Append(sent, v[g]) = Append(taken, x) \o Content(bufsize, chan')
  <2>1. PICK q \in Seq(Values) : q = Content(bufsize, chan)
    BY <1>3, ContentFacts
  <2>3. CASE chan.nbuf = 0
    <3>1. q = << >> /\ chan' = chan /\ x = v[g]
      BY <1>2, <1>3, <2>1, <2>3
    <3>2. sent = taken
      BY <1>1, <1>3, <2>1, <3>1, NothingBehind DEF InOrder
    <3>3. Append(taken, v[g]) \in Seq(Values)
      BY <1>3, SequenceFacts
    <3>4. Append(taken, v[g]) \o << >> = Append(taken, v[g])
      BY <3>3, NothingBehind
    <3> QED BY <1>3, <2>1, <3>1, <3>2, <3>4
  <2>4. CASE chan.nbuf # 0
    <3>1. PICK c : c = CopyOut(chan)
      OBVIOUS
    <3>2. /\ Ring(bufsize, c) /\ Content(bufsize, c) = Tail(q) /\ c.nbuf = chan.nbuf - 1
          /\ q # << >> /\ Head(q) = Oldest /\ Oldest \in Values
      BY <1>3, <2>1, <2>4, <3>1, CopyOutContent
    <3>3. c.nbuf < bufsize
      BY <1>1, <1>3, <3>2
    <3>4. /\ Ring(bufsize, CopyIn(c, v[g])) /\ CopyIn(c, v[g]).nbuf = c.nbuf + 1
          /\ Content(bufsize, CopyIn(c, v[g])) = Append(Tail(q), v[g])
      BY <1>3, <3>2, <3>3, CopyInContent
    <3>5. chan' = CopyIn(c, v[g]) /\ x = Head(q)
      BY <1>2, <2>4, <3>1, <3>2
    <3>6. PICK t \in Seq(Values) : t = Append(taken, Head(q))
      BY <1>3, <3>2, SequenceFacts
    <3>7. PICK r \in Seq(Values) : r = Tail(q)
      BY <3>2
    <3>8. Split(sent, t, r)
      <4>1. Split(sent, taken, q)
        BY <1>1, <2>1 DEF InOrder, Split
      <4>2. Split(sent, Append(taken, Head(q)), Tail(q))
        BY <1>3, <3>2, <4>1, SplitMoves
      <4> QED BY <3>6, <3>7, <4>2
    <3>9. Split(Append(sent, v[g]), t, Append(r, v[g]))
      BY <1>3, <3>8, SplitGrows
    <3>10. Append(taken, x) \o Content(bufsize, chan') = t \o Append(r, v[g])
      BY <3>4, <3>5, <3>6, <3>7
    <3>11. chan'.nbuf = chan.nbuf /\ x \in Values /\ Ring(bufsize, chan')
      BY <1>3, <3>2, <3>4, <3>5
    <3> QED BY <3>9, <3>10, <3>11 DEF Split
  <2> QED BY <2>3, <2>4
<1> HIDE DEF x
<1>5. /\ sent' \in Seq(Values) /\ taken' \in Seq(Values) /\ result' \in Seq(Values)
      /\ Range(sent') = Range(sent) \cup {v[g]}
  <2>1. PICK y \in Values : y = x
    BY <1>4
  <2>2. PICK z \in Values : z = v[g]
    BY <1>3
  <2>3. Append(sent, z) \in Seq(Values) /\ Range(Append(sent, z)) = Range(sent) \cup {z}
    BY <1>3, SequenceFacts
  <2>4. Append(taken, y) \in Seq(Values) /\ Append(result, y) \in Seq(Values)
    BY <1>3, SequenceFacts
  <2> QED BY <1>2, <2>1, <2>2, <2>3, <2>4
<1>6. ChanTyped'
  BY <1>1, <1>2, <1>3, <1>4, <1>5 DEF ChanTyped
<1>7. Arrays'
  BY <1>1, <1>2, <1>3, WakeArrays
<1>8. NobodyBlockedNeedlessly'
  BY <1>1, <1>2, <1>4 DEF NobodyBlockedNeedlessly
<1>9. Numbered'
  <2>1. v[g] < next /\ \A i \in 1 .. Len(sent) : sent[i] < next /\ sent[i] # v[g]
    BY <1>1 DEF Numbered
  <2>2. /\ \A i \in 1 .. Len(sent') : sent'[i] < next
        /\ \A i, j \in 1 .. Len(sent') : sent'[i] = sent'[j] => i = j
        /\ \A y : (y # v[g] /\ \A i \in 1 .. Len(sent) : sent[i] # y)
                  => \A i \in 1 .. Len(sent') : sent'[i] # y
    <3>1. \A i, j \in 1 .. Len(sent) : sent[i] = sent[j] => i = j
      BY <1>1 DEF Numbered
    <3>2. PICK z \in Values : z = v[g]
      BY <1>3
    <3> QED BY <1>2, <1>3, <2>1, <3>1, <3>2, NumbersDiffer
  <2>3. \A h \in asend' : v[h] # v[g] /\ v[h] < next /\ \A i \in 1 .. Len(sent) : sent[i] # v[h]
    BY <1>1, <1>2 DEF Numbered
  <2>4. \A h \in asend' : \A i \in 1 .. Len(sent') : sent'[i] # v[h]
    BY <2>2, <2>3
  <2>5. \A h, k \in asend' : v[h] = v[k] => h = k
    BY <1>1, <1>2 DEF Numbered
  <2> QED BY <1>2, <2>2, <2>3, <2>4, <2>5 DEF Numbered
<1>10. InOrder'
  BY <1>2, <1>4 DEF InOrder
<1>11. Delivered'
  <2>1. \A h \in Fibers : op[h] = "CHANSND" /\ h \notin asend' => h \notin asend \/ v[h] \in Range(sent')
    BY <1>2, <1>5
  <2> QED BY <1>1, <1>2, <1>4, <1>5, <2>1, ReceiverReturns
<1> QED BY <1>1, <1>6, <1>7, <1>8, <1>9, <1>10, <1>11 DEF ChanInv, Delivered

(* A receiver takes the oldest one and nobody waits to send.               *)
LEMMA RecvFromBufferKeeps ==
  ASSUME IInv, QInv, ChanInv, KilledIsSignalled', bufsize' = bufsize, next' = next, RecvFromBuffer
  PROVE  ChanInv'
<1>1. /\ ChanTyped /\ Arrays /\ Numbered /\ InOrder /\ Delivered /\ KilledIsSignalled'
      /\ arecv # {} => chan.nbuf = 0
  BY DEF ChanInv, Delivered, NobodyBlockedNeedlessly
<1>2. /\ asend = {} /\ CanRecv /\ chan' = CopyOut(chan)
      /\ taken' = Append(taken, Oldest) /\ result' = Append(result, Oldest)
      /\ UNCHANGED <<schedVars, asend, arecv, op, v, sent>>
  BY DEF RecvFromBuffer
<1>3. /\ sent \in Seq(Values) /\ taken \in Seq(Values) /\ result \in Seq(Values)
      /\ bufsize \in Nat /\ Ring(bufsize, chan) /\ chan.nbuf > 0
  BY <1>1, <1>2, TypedFacts DEF CanRecv
<1>4. PICK q \in Seq(Values) : q = Content(bufsize, chan)
  BY <1>3, ContentFacts
<1>5. /\ Ring(bufsize, chan') /\ Content(bufsize, chan') = Tail(q) /\ chan'.nbuf = chan.nbuf - 1
      /\ q # << >> /\ Head(q) = Oldest /\ Oldest \in Values
  BY <1>2, <1>3, <1>4, CopyOutContent
<1>6. taken' \in Seq(Values) /\ result' \in Seq(Values)
  BY <1>2, <1>3, <1>5, SequenceFacts
<1>7. ChanTyped'
  BY <1>1, <1>2, <1>5, <1>6 DEF ChanTyped
<1>8. Arrays'
  BY <1>1, <1>2, SameArrays DEF schedVars
<1>9. NobodyBlockedNeedlessly'
  BY <1>1, <1>2, <1>3 DEF NobodyBlockedNeedlessly
<1>10. Numbered'
  BY <1>1, <1>2 DEF Numbered
<1>11. InOrder'
  <2>1. Split(sent, taken, q)
    BY <1>1, <1>4 DEF InOrder, Split
  <2>2. Split(sent, Append(taken, Head(q)), Tail(q))
    BY <1>3, <1>5, <2>1, SplitMoves
  <2> QED BY <1>2, <1>5, <2>2 DEF InOrder, Split
<1>12. Delivered'
  BY <1>1, <1>2, <1>5, ReceiverReturns
<1> QED BY <1>1, <1>7, <1>8, <1>9, <1>10, <1>11, <1>12 DEF ChanInv, Delivered

(* A receiver finds nothing and waits.                                     *)
LEMMA RecvBlockKeeps ==
  ASSUME IInv, QInv, ChanInv, KilledIsSignalled', NEW f \in Fibers, bufsize' = bufsize,
         next' = next, op[f] = "CHANNOP", RecvBlock(f)
  PROVE  ChanInv'
<1>1. /\ ChanTyped /\ Arrays /\ Numbered /\ InOrder /\ Delivered /\ KilledIsSignalled'
      /\ NobodyBlockedNeedlessly
  BY DEF ChanInv, Delivered
<1>2. /\ ~CanRecv /\ arecv' = arecv \cup {f} /\ op' = [op EXCEPT ![f] = "CHANRCV"]
      /\ Suspend(f)
      /\ UNCHANGED <<chan, asend, v, sent, taken, result>>
  BY DEF RecvBlock
<1>3. bufsize \in Nat /\ chan.nbuf \in 0 .. bufsize /\ f \notin asend /\ f \notin arecv
  BY <1>1, TypedFacts, QueuedFacts DEF Arrays
<1>4. ChanTyped'
  BY <1>1, <1>2 DEF ChanTyped
<1>5. Arrays'
  BY <1>1, <1>2, BlockArrays
<1>6. NobodyBlockedNeedlessly'
  BY <1>1, <1>2, <1>3 DEF NobodyBlockedNeedlessly, CanRecv
<1>7. Numbered'
  BY <1>1, <1>2 DEF Numbered
<1>8. InOrder'
  BY <1>1, <1>2 DEF InOrder
<1>9. Delivered'
  <2>1. InHand' = InHand
    BY <1>1, <1>2, <1>3 DEF InHand, ChanTyped
  <2>2. \A g \in Fibers : Resumed(g)' => Resumed(g) /\ v'[g] = v[g]
    BY <1>1, <1>2 DEF Resumed, ChanTyped
  <2> QED BY <1>1, <1>2, <2>1, <2>2, NothingTaken
<1> QED BY <1>1, <1>4, <1>5, <1>6, <1>7, <1>8, <1>9 DEF ChanInv, Delivered

(* A call that was suspended ends.                                         *)
LEMMA ChanReturnKeeps ==
  ASSUME IInv, QInv, ChanInv, KilledIsSignalled', Unsignalled, NEW f \in Fibers,
         bufsize' = bufsize, ChanReturn(f)
  PROVE  ChanInv'
<1>1. /\ ChanTyped /\ Arrays /\ Numbered /\ InOrder /\ Delivered /\ KilledIsSignalled
      /\ NobodyBlockedNeedlessly
  BY DEF ChanInv, Delivered
<1>2. /\ op' = [op EXCEPT ![f] = "CHANNOP"] /\ v' = [v EXCEPT ![f] = NoMsg]
      /\ UNCHANGED <<schedVars, chan, asend, arecv, next, sent, taken>>
  BY DEF ChanReturn
<1>3. Arrays' /\ f \notin asend /\ f \notin arecv
  BY <1>1, ReturnArrays
<1>4. Delivered' /\ result' \in Seq(Values)
  BY <1>1, <1>3, ReceiverResumes
<1>5. ChanTyped'
  BY <1>1, <1>2, <1>4 DEF ChanTyped, Values
<1>6. Numbered'
  <2>1. \A g \in asend : v'[g] = v[g]
    BY <1>1, <1>2, <1>3 DEF ChanTyped
  <2> QED BY <1>1, <1>2, <2>1 DEF Numbered
<1>7. InOrder' /\ NobodyBlockedNeedlessly'
  BY <1>1, <1>2 DEF InOrder, NobodyBlockedNeedlessly
<1> QED BY <1>3, <1>4, <1>5, <1>6, <1>7 DEF ChanInv, Delivered

(* What does not concern the channel leaves the rest of the invariant.     *)
LEMMA RestKeeps ==
  ASSUME ChanTyped, Numbered, InOrder, NobodyBlockedNeedlessly, Delivered, UNCHANGED chanOnly
  PROVE  ChanTyped' /\ Numbered' /\ InOrder' /\ NobodyBlockedNeedlessly' /\ Delivered'
<1>0. UNCHANGED <<bufsize, chan, asend, arecv, op, v, next, sent, taken, result>>
  BY DEF chanOnly
<1>1. ChanTyped'
  BY <1>0 DEF ChanTyped
<1>2. Numbered'
  BY <1>0 DEF Numbered
<1>3. InOrder'
  BY <1>0 DEF InOrder
<1>4. NobodyBlockedNeedlessly'
  BY <1>0 DEF NobodyBlockedNeedlessly
<1>5. InHand' = InHand
  BY <1>0 DEF InHand
<1>6. Delivered'
  BY <1>0, <1>5 DEF Delivered, DeliveredOnce
<1> QED BY <1>1, <1>2, <1>3, <1>4, <1>6

(* A step that is not one of the channel.                                  *)
LEMMA OtherStepKeeps ==
  ASSUME IInv, QInv, ChanInv, KilledIsSignalled', Unsignalled', ChanOtherStep, UNCHANGED chanOnly
  PROVE  ChanInv'
<1>1. /\ ChanTyped /\ Arrays /\ Numbered /\ InOrder /\ Delivered /\ NobodyBlockedNeedlessly
  BY DEF ChanInv, Delivered
<1>2. Arrays'
  BY <1>1, OtherArrays
<1> QED BY <1>1, <1>2, RestKeeps DEF ChanInv, Delivered

(* So does every step that signals nobody.                                 *)
LEMMA NextChanInv ==
  IInv /\ QInv /\ ChanInv /\ Unsignalled /\ Unsignalled' /\ [ChanNext]_chanVars => ChanInv'
<1> SUFFICES ASSUME IInv, QInv, ChanInv, Unsignalled, Unsignalled', [ChanNext]_chanVars
             PROVE  ChanInv'
  OBVIOUS
<1>0. KilledIsSignalled'
  BY ChanStepIsSchedStep, KilledStep DEF ChanInv
<1>1. CASE ChanOtherStep /\ UNCHANGED chanOnly
  BY <1>0, <1>1, OtherStepKeeps
<1>2. ASSUME NEW f \in Fibers, acl_channel_send(f), bufsize' = bufsize PROVE ChanInv'
  <2>1. ASSUME NEW g \in arecv, SendToReceiver(g) PROVE ChanInv'
    BY <1>0, <1>2, <2>1, SendCases, SendToReceiverKeeps
  <2>2. CASE SendToBuffer
    BY <1>0, <1>2, <2>2, SendCases, SendToBufferKeeps
  <2>3. CASE SendBlock(f)
    BY <1>0, <1>2, <2>3, SendCases, SendBlockKeeps
  <2> QED BY <1>2, <2>1, <2>2, <2>3, SendCases
<1>3. ASSUME NEW f \in Fibers, acl_channel_recv(f), bufsize' = bufsize PROVE ChanInv'
  <2>1. ASSUME NEW g \in asend, RecvFromSender(g) PROVE ChanInv'
    BY <1>0, <1>3, <2>1, RecvCases, RecvFromSenderKeeps
  <2>2. CASE RecvFromBuffer
    BY <1>0, <1>3, <2>2, RecvCases, RecvFromBufferKeeps
  <2>3. CASE RecvBlock(f)
    BY <1>0, <1>3, <2>3, RecvCases, RecvBlockKeeps
  <2> QED BY <1>3, <2>1, <2>2, <2>3, RecvCases
<1>4. ASSUME NEW f \in Fibers, ChanReturn(f), bufsize' = bufsize PROVE ChanInv'
  BY <1>0, <1>4, ChanReturnKeeps
<1>5. CASE UNCHANGED chanVars
  <2>1. UNCHANGED <<ring, running, status, asend, arecv, op>> /\ UNCHANGED chanOnly
    BY <1>5 DEF chanVars, schedVars, chanOnly
  <2>2. Arrays'
    BY <2>1, SameArrays DEF ChanInv
  <2> QED BY <1>0, <2>1, <2>2, RestKeeps DEF ChanInv, Delivered
<1> QED BY <1>1, <1>2, <1>3, <1>4, <1>5 DEF ChanNext

(* At the start nobody waits and nothing was sent.                         *)
LEMMA InitChanInv == ChanInit => ChanInv
<1> SUFFICES ASSUME ChanInit PROVE ChanInv
  OBVIOUS
<1>1. /\ bufsize \in Sizes /\ chan.nbuf = 0 /\ chan.off = 0
      /\ chan = [buf |-> [i \in 0 .. bufsize - 1 |-> NoMsg], nbuf |-> 0, off |-> 0]
      /\ asend = {} /\ arecv = {} /\ op = [f \in Fibers |-> "CHANNOP"]
      /\ v = [f \in Fibers |-> NoMsg] /\ next = 1
      /\ sent = << >> /\ taken = << >> /\ result = << >>
  BY DEF ChanInit
<1>2. bufsize \in Nat /\ MaxMsgs \in Nat /\ NoMsg \in Values /\ InHand = {}
  BY <1>1, ChanFacts DEF Values, InHand
<1>3. ChanTyped
  <2>1. Ring(bufsize, chan)
    BY <1>1, <1>2 DEF Ring
  <2> QED BY <1>1, <1>2, <2>1 DEF ChanTyped
<1>4. KilledIsSignalled
  BY DEF ChanInit, Init, KilledIsSignalled
<1>5. Arrays
  BY <1>1 DEF Arrays, CallsAreAlive, QueuedAreSuspended
<1>6. NobodyBlockedNeedlessly /\ Numbered
  BY <1>1 DEF NobodyBlockedNeedlessly, Numbered
<1>7. InOrder
  BY <1>1 DEF InOrder, Content
<1>8. IsFiniteSet(InHand) /\ DeliveredOnce
  <2>1. /\ IsFiniteSet({}) /\ Cardinality({}) = 0 /\ Range(taken) = {} /\ Range(result) = {}
        /\ Len(taken) = 0 /\ Len(result) = 0
    BY <1>1, FS_EmptySet DEF Range
  <2> QED BY <1>1, <1>2, <2>1 DEF DeliveredOnce
<1> QED BY <1>3, <1>4, <1>5, <1>6, <1>7, <1>8 DEF ChanInv

(* The invariant holds in every run in which nobody is signalled.          *)
THEOREM ChannelSafe == ChanSpec /\ []Unsignalled => [](IInv /\ QInv /\ ChanInv)
<1>1. ChanInit => IInv /\ QInv /\ ChanInv
  BY InitIInv, InitQInv, InitChanInv DEF ChanInit
<1>2. IInv /\ QInv /\ ChanInv /\ Unsignalled /\ Unsignalled' /\ [ChanNext]_chanVars
        => IInv' /\ QInv' /\ ChanInv'
  BY NextIInv, NextQInv, NextChanInv, ChanStepIsSchedStep
<1> QED BY <1>1, <1>2, PTL DEF ChanSpec

(* The channel state keeps the type of its C fields.                       *)
THEOREM ChanTypeCorrect == ChanSpec /\ []Unsignalled => []ChanTypeOK
<1>1. ChanInv => ChanTypeOK
  BY DEF ChanInv, ChanTyped, Ring, ChanTypeOK, Values
<1> QED BY <1>1, ChannelSafe, PTL

(* What was sent is what was taken followed by what is in the ring buffer, *)
(* and no message occurs twice (channel.c:182-194).                        *)
THEOREM FifoDeliverySafe == ChanSpec /\ []Unsignalled => []FifoDelivery
<1>1. ChanInv => FifoDelivery
  <2> SUFFICES ASSUME ChanInv PROVE FifoDelivery
    OBVIOUS
  <2>1. sent = taken \o Buffered
    BY Zenon DEF ChanInv, InOrder, Content, Buffered
  <2>2. DOMAIN sent = 1 .. Len(sent)
    BY DEF ChanInv, ChanTyped
  <2>3. IsInjective(sent)
    BY <2>2, Zenon DEF ChanInv, Numbered, IsInjective
  <2> QED BY <2>1, <2>3, Zenon DEF FifoDelivery
<1> QED BY <1>1, ChannelSafe, PTL

(* Senders wait only at a full channel and receivers only at an empty one, *)
(* never both at once (channel.c:66-88).                                   *)
THEOREM NobodyBlockedSafe == ChanSpec /\ []Unsignalled => []NobodyBlockedNeedlessly
<1>1. ChanInv => NobodyBlockedNeedlessly
  BY DEF ChanInv
<1> QED BY <1>1, ChannelSafe, PTL

(* The alts in the arrays are exactly those of the fibers that are         *)
(* suspended in channel_alt (channel.c:303-306).                           *)
THEOREM QueuedSuspendedSafe == ChanSpec /\ []Unsignalled => []QueuedAreSuspended
<1>1. ChanInv => QueuedAreSuspended
  BY DEF ChanInv, Arrays
<1> QED BY <1>1, ChannelSafe, PTL

(* A blocked operation resumes only once it was carried out, and no        *)
(* message is given twice or lost between the copy and the return.         *)
THEOREM DeliveredOnceSafe == ChanSpec /\ []Unsignalled => []DeliveredOnce
<1>1. ChanInv => DeliveredOnce
  BY DEF ChanInv
<1> QED BY <1>1, ChannelSafe, PTL

-----------------------------------------------------------------------------
(* The read/write lock of clients that only try: nobody ever waits, so the *)
(* unlocks that let a waiter go find none.                                 *)

(* The heads of the two waiting rings are two of the scheduler's.          *)
LEMMA RwFacts == RWaiting \in WaitRings /\ WWaiting \in WaitRings /\ None \notin Fibers
BY RwlockAssumption, HeadsFacts DEF None

(* No fiber is in the ring of the writers, and the fields say who holds    *)
(* the lock: writer is the only one that writes, readers counts the rest.  *)
RwInv ==
  /\ NoEntry(ring, WWaiting)
  /\ has \in [Fibers -> {"none", "read", "write"}]
  /\ writer \in Fibers \cup {None}
  /\ \A f \in Fibers : has[f] = "write" <=> writer = f
  /\ IsFiniteSet(Holders("read")) /\ readers = Cardinality(Holders("read"))
  /\ writer # None => readers = 0

(* What an unlock does when nobody waits.                                  *)
LEMMA NobodyGranted ==
  ASSUME NoEntry(ring, WWaiting), NEW r, GrantWriter(r)
  PROVE  UNCHANGED <<schedVars, writer>>
BY DEF GrantWriter

(* Every step of such a client is a step of the scheduler, or none at all, *)
(* and puts nobody into the ring of the writers.                           *)
LEMMA RwTryStep ==
  ASSUME NoEntry(ring, WWaiting), [RwTryNext]_rwlockVars
  PROVE  UNCHANGED schedVars \/ (NextBut(WWaiting) /\ UNCHANGED rwVars /\ RwOtherStep)
<1>1. CASE RwOtherStep /\ UNCHANGED rwVars
  BY <1>1 DEF RwOtherStep, NextBut
<1>2. ASSUME NEW f \in Fibers, acl_fiber_rwlock_tryrlock(f) \/ acl_fiber_rwlock_trywlock(f)
      PROVE  UNCHANGED schedVars
  BY <1>2 DEF acl_fiber_rwlock_tryrlock, acl_fiber_rwlock_trywlock
<1>3. ASSUME NEW f \in Fibers, acl_fiber_rwlock_runlock(f) \/ acl_fiber_rwlock_wunlock(f)
      PROVE  UNCHANGED schedVars
  BY <1>3, NobodyGranted DEF acl_fiber_rwlock_runlock, acl_fiber_rwlock_wunlock
<1>4. CASE WunlockReturn
  BY <1>4, NobodyGranted DEF WunlockReturn
<1> QED BY <1>1, <1>2, <1>3, <1>4 DEF RwTryNext, rwlockVars

(* The ring of the writers stays empty.                                    *)
LEMMA NobodyWaits ==
  ASSUME IInv, NoEntry(ring, WWaiting), [RwTryNext]_rwlockVars
  PROVE  NoEntry(ring', WWaiting)
<1>1. CASE UNCHANGED schedVars
  BY <1>1 DEF schedVars
<1>2. CASE NextBut(WWaiting)
  BY <1>2, EmptyStays, RwFacts
<1> QED BY <1>1, <1>2, RwTryStep

(* A fiber that holds nothing starts to read, or one that reads stops.     *)
LEMMA ReadersCounted ==
  ASSUME RwInv, NEW f \in Fibers
  PROVE  /\ has[f] = "none" => LET R == Holders("read") \cup {f}
                               IN  IsFiniteSet(R) /\ Cardinality(R) = readers + 1
         /\ has[f] = "read" => LET R == Holders("read") \ {f}
                               IN  IsFiniteSet(R) /\ Cardinality(R) = readers - 1
<1>1. has[f] = "none" => f \notin Holders("read")
  BY DEF Holders
<1>2. has[f] = "read" => f \in Holders("read")
  BY DEF Holders
<1> QED BY <1>1, <1>2, FS_AddElement, FS_RemoveElement DEF RwInv

(* No step breaks that.                                                    *)
LEMMA NextRwInv == IInv /\ RwInv /\ [RwTryNext]_rwlockVars => RwInv'
<1> SUFFICES ASSUME IInv, RwInv, [RwTryNext]_rwlockVars PROVE RwInv'
  OBVIOUS
<1>0. NoEntry(ring, WWaiting)' /\ Cardinality(Holders("read")) \in Nat
  BY NobodyWaits, FS_CardinalityType DEF RwInv, NoEntry
<1>1. CASE UNCHANGED <<has, writer, readers>>
  <2>1. Holders("read")' = Holders("read")
    BY <1>1 DEF Holders
  <2> QED BY <1>0, <1>1, <2>1 DEF RwInv
<1>2. ASSUME NEW f \in Fibers, acl_fiber_rwlock_tryrlock(f) PROVE RwInv'
  <2>1. /\ has[f] = "none" /\ writer = None /\ readers' = readers + 1 /\ writer' = writer
        /\ has' = [has EXCEPT ![f] = "read"]
    BY <1>2 DEF acl_fiber_rwlock_tryrlock, ReadFree
  <2>2. Holders("read")' = Holders("read") \cup {f}
    BY <2>1 DEF Holders, RwInv
  <2>3. IsFiniteSet(Holders("read")') /\ Cardinality(Holders("read")') = readers + 1
    BY <2>1, <2>2, ReadersCounted
  <2> QED BY <1>0, <2>1, <2>3, RwFacts DEF RwInv
<1>3. ASSUME NEW f \in Fibers, acl_fiber_rwlock_trywlock(f) PROVE RwInv'
  <2>1. /\ has[f] = "none" /\ writer = None /\ readers = 0 /\ readers' = readers /\ writer' = f
        /\ has' = [has EXCEPT ![f] = "write"]
    BY <1>3 DEF acl_fiber_rwlock_trywlock, WriteFree
  <2>2. Holders("read")' = Holders("read")
    BY <2>1 DEF Holders, RwInv
  <2> QED BY <1>0, <2>1, <2>2, RwFacts DEF RwInv
<1>4. ASSUME NEW f \in Fibers, acl_fiber_rwlock_runlock(f) PROVE RwInv'
  <2>1. /\ has[f] = "read" /\ readers' = readers - 1 /\ writer' = writer
        /\ has' = [has EXCEPT ![f] = "none"]
    BY <1>4, NobodyGranted DEF acl_fiber_rwlock_runlock, RwInv
  <2>2. Holders("read")' = Holders("read") \ {f}
    BY <2>1 DEF Holders, RwInv
  <2>3. IsFiniteSet(Holders("read")') /\ Cardinality(Holders("read")') = readers - 1
    BY <2>1, <2>2, ReadersCounted
  <2>4. readers # 0
    BY <1>0, <2>3, FS_CardinalityType DEF RwInv
  <2> QED BY <1>0, <2>1, <2>3, <2>4, RwFacts DEF RwInv
<1>5. ASSUME NEW f \in Fibers, acl_fiber_rwlock_wunlock(f) PROVE RwInv'
  <2>1. /\ has[f] = "write" /\ readers' = readers /\ writer' = None
        /\ has' = [has EXCEPT ![f] = "none"]
    BY <1>5 DEF acl_fiber_rwlock_wunlock
  <2>2. Holders("read")' = Holders("read") /\ writer = f
    BY <2>1 DEF Holders, RwInv
  <2> QED BY <1>0, <2>1, <2>2, RwFacts DEF RwInv
<1>6. CASE WunlockReturn
  BY <1>1, <1>6, NobodyGranted DEF WunlockReturn, RwInv
<1> QED BY <1>1, <1>2, <1>3, <1>4, <1>5, <1>6 DEF RwTryNext, rwlockVars, rwVars

(* The invariant of the scheduler holds under such clients too.            *)
LEMMA RwIInv == IInv /\ NoEntry(ring, WWaiting) /\ [RwTryNext]_rwlockVars => IInv'
<1> SUFFICES ASSUME IInv, NoEntry(ring, WWaiting), [RwTryNext]_rwlockVars PROVE IInv'
  OBVIOUS
<1>1. [Next]_schedVars
  BY RwTryStep DEF RwOtherStep, Next
<1> QED BY <1>1, NextIInv

(* A fiber that gets the lock to write with acl_fiber_rwlock_trywlock is   *)
(* the only one that has it (lib_fiber.h:274-279), as long as no client    *)
(* blocks.                                                                 *)
THEOREM RwExclusionSafe == RwTrySpec => []RwExclusion
<1>1. RwInit => IInv /\ RwInv
  <2> SUFFICES ASSUME RwInit PROVE IInv /\ RwInv
    OBVIOUS
  <2>1. IInv /\ NoEntry(ring, WWaiting)
    BY InitIInv, RwFacts, HeadsFacts DEF RwInit, Init, NoEntry, acl_ring_init, Nodes
  <2>2. Holders("read") = {}
    BY DEF RwInit, Holders
  <2> QED BY <2>1, <2>2, RwFacts, FS_EmptySet DEF RwInit, RwInv
<1>2. IInv /\ RwInv /\ [RwTryNext]_rwlockVars => IInv' /\ RwInv'
  BY RwIInv, NextRwInv DEF RwInv
<1>3. RwInv => RwExclusion
  <2> SUFFICES ASSUME RwInv, Holders("write") # {}
               PROVE  Cardinality(Holders("write") \cup Holders("read")) = 1
    BY DEF RwExclusion
  <2>1. writer # None /\ Holders("write") = {writer}
    BY RwFacts DEF RwInv, Holders
  <2>2. Holders("read") = {}
    BY <2>1, FS_EmptySet DEF RwInv
  <2> QED BY <2>1, <2>2, FS_Singleton
<1> QED BY <1>1, <1>2, <1>3, PTL DEF RwTrySpec

-----------------------------------------------------------------------------
(* Fiber IO: the event table.                                              *)

Events ==
  [mask : [Fds -> SUBSET Dirs], kernel : [Fds -> SUBSET Dirs],
   ctx : [Fds -> [Dirs -> Fibers \cup {NoFiber}]],
   defers : [Dirs -> Seq(Fds)], place : [Dirs -> [Fds -> Nat]]]

(* An array of deferred deletions and the pointers into it agree.          *)
Paired(q, at) ==
  \A fd \in Fds :
    /\ at[fd] \in 0 .. Len(q)
    /\ \A i \in 1 .. Len(q) : q[i] = fd <=> at[fd] = i

Exact(e) ==
  \A d \in Dirs :
    /\ Paired(e.defers[d], e.place[d])
    /\ \A fd \in Fds : e.place[d][fd] # 0 => d \in e.mask[fd]

EvInv == ev \in Events /\ Exact(ev) /\ ev.kernel = ev.mask

(* The array without its entry k, and the pointers after that.             *)
Closed(q, k)       == [i \in 1 .. Len(q) - 1 |-> IF i = k THEN q[Len(q)] ELSE q[i]]
Pointed(q, at, fd) == [at EXCEPT ![q[Len(q)]] = at[fd], ![fd] = 0]

(* The array and the pointers after fd was put behind the others.          *)
Behind(q, fd)          == Append(q, fd)
PointedLast(q, at, fd) == [at EXCEPT ![fd] = Len(q) + 1]

(* The move of the last entry keeps the array and the pointers together.   *)
LEMMA Moved ==
  ASSUME NEW q \in Seq(Fds), NEW at \in [Fds -> Nat], Paired(q, at),
         NEW fd \in Fds, at[fd] # 0,
         NEW r, r = Closed(q, at[fd]),
         NEW to, to = Pointed(q, at, fd)
  PROVE  /\ r \in Seq(Fds) /\ to \in [Fds -> Nat] /\ Paired(r, to)
         /\ \A g \in Fds : to[g] = 0 <=> at[g] = 0 \/ g = fd
<1> PICK n \in Nat, k \in Nat : n = Len(q) /\ k = at[fd]
  OBVIOUS
<1>1. k \in 1 .. n /\ q[k] = fd /\ \A i \in 1 .. n : q[i] \in Fds
  BY DEF Paired
<1>2. PICK z \in Fds : z = q[n]
  BY <1>1
<1>3. at[z] = n /\ (z = fd <=> k = n)
  BY <1>1, <1>2 DEF Paired
<1>4. r = [i \in 1 .. n - 1 |-> IF i = k THEN z ELSE q[i]] /\ n - 1 \in Nat
  BY <1>1, <1>2 DEF Closed
<1>5. r \in Seq(Fds) /\ Len(r) = n - 1
  BY <1>1, <1>4
<1>6. to \in [Fds -> Nat] /\ \A g \in Fds : to[g] = IF g = fd THEN 0 ELSE IF g = z THEN k ELSE at[g]
  BY <1>2 DEF Pointed
<1>7. \A g \in Fds : to[g] = 0 <=> at[g] = 0 \/ g = fd
  BY <1>1, <1>3, <1>6
<1>8. Paired(r, to)
  <2> SUFFICES ASSUME NEW g \in Fds
               PROVE  /\ to[g] \in 0 .. n - 1
                      /\ \A i \in 1 .. n - 1 : r[i] = g <=> to[g] = i
    BY <1>5 DEF Paired
  <2>1. at[g] \in 0 .. n /\ \A i \in 1 .. n : q[i] = g <=> at[g] = i
    BY DEF Paired
  <2>2. \A i \in 1 .. n - 1 : r[i] = IF i = k THEN z ELSE q[i]
    BY <1>4
  <2>3. CASE g = fd
    <3>1. to[g] = 0
      BY <1>6, <2>3
    <3> QED BY <1>1, <1>3, <2>1, <2>2, <2>3, <3>1
  <2>4. CASE g # fd /\ g = z
    <3>1. to[g] = k /\ k # n
      BY <1>3, <1>6, <2>4
    <3> QED BY <1>1, <1>3, <2>1, <2>2, <2>4, <3>1
  <2>5. CASE g # fd /\ g # z
    <3>1. to[g] = at[g] /\ at[g] # n /\ at[g] # k
      BY <1>1, <1>2, <1>6, <2>1, <2>5
    <3> QED BY <1>1, <2>1, <2>2, <2>5, <3>1
  <2> QED BY <2>3, <2>4, <2>5
<1> QED BY <1>5, <1>6, <1>7, <1>8

(* So does a deletion that is put behind the others.                       *)
LEMMA Pushed ==
  ASSUME NEW q \in Seq(Fds), NEW at \in [Fds -> Nat], Paired(q, at),
         NEW fd \in Fds, at[fd] = 0,
         NEW r, r = Behind(q, fd), NEW to, to = PointedLast(q, at, fd)
  PROVE  /\ r \in Seq(Fds) /\ to \in [Fds -> Nat] /\ Paired(r, to)
         /\ \A g \in Fds : to[g] = 0 <=> at[g] = 0 /\ g # fd
<1> PICK n \in Nat : n = Len(q)
  OBVIOUS
<1>1. r \in Seq(Fds)
  BY DEF Behind
<1>2. Len(r) = n + 1 /\ r[n + 1] = fd /\ \A i \in 1 .. n : r[i] = q[i]
  BY <1>1 DEF Behind
<1>3. to \in [Fds -> Nat] /\ \A g \in Fds : to[g] = IF g = fd THEN n + 1 ELSE at[g]
  BY DEF PointedLast
<1>4. Paired(r, to)
  <2> SUFFICES ASSUME NEW g \in Fds
               PROVE  /\ to[g] \in 0 .. n + 1
                      /\ \A i \in 1 .. n + 1 : r[i] = g <=> to[g] = i
    BY <1>2 DEF Paired
  <2>1. at[g] \in 0 .. n /\ \A i \in 1 .. n : q[i] = g <=> at[g] = i
    BY DEF Paired
  <2>2. CASE g = fd
    <3>1. \A i \in 1 .. n : r[i] # g
      BY <1>2, <2>1, <2>2
    <3> QED BY <1>2, <1>3, <2>2, <3>1
  <2>3. CASE g # fd
    <3>1. to[g] = at[g] /\ r[n + 1] # g
      BY <1>2, <1>3, <2>3
    <3> QED BY <1>2, <2>1, <3>1
  <2> QED BY <2>2, <2>3
<1> QED BY <1>1, <1>3, <1>4

(* Calling off a deletion concerns that descriptor and direction only.     *)
LEMMA UndeferKeeps ==
  ASSUME NEW e \in Events, Exact(e), NEW d \in Dirs, NEW fd \in Fds, e.place[d][fd] # 0,
         NEW m, m = Undefer(e, d, fd)
  PROVE  /\ m \in Events /\ Exact(m)
         /\ m.mask = e.mask /\ m.kernel = e.kernel /\ m.ctx = e.ctx
         /\ \A c \in Dirs, g \in Fds :
              m.place[c][g] = 0 <=> e.place[c][g] = 0 \/ (c = d /\ g = fd)
<1>1. PICK q : q = e.defers[d]
  OBVIOUS
<1>2. PICK at : at = e.place[d]
  OBVIOUS
<1>3. q \in Seq(Fds) /\ at \in [Fds -> Nat] /\ Paired(q, at) /\ at[fd] # 0
  BY <1>1, <1>2 DEF Events, Exact
<1>4. PICK r : r = Closed(q, at[fd])
  OBVIOUS
<1>5. PICK to : to = Pointed(q, at, fd)
  OBVIOUS
<1>6. /\ r \in Seq(Fds) /\ to \in [Fds -> Nat] /\ Paired(r, to)
      /\ \A g \in Fds : to[g] = 0 <=> at[g] = 0 \/ g = fd
  BY <1>3, <1>4, <1>5, Moved
<1>7. m = [e EXCEPT !.defers[d] = r, !.place[d] = to]
  BY <1>1, <1>2, <1>4, <1>5 DEF Undefer, Closed, Pointed
<1>8. /\ m.mask = e.mask /\ m.kernel = e.kernel /\ m.ctx = e.ctx
      /\ m.defers = [e.defers EXCEPT ![d] = r] /\ m.place = [e.place EXCEPT ![d] = to]
  BY <1>7 DEF Events
<1>9. m \in Events
  <2>1. /\ m.mask \in [Fds -> SUBSET Dirs] /\ m.kernel \in [Fds -> SUBSET Dirs]
        /\ m.ctx \in [Fds -> [Dirs -> Fibers \cup {NoFiber}]]
        /\ m.defers \in [Dirs -> Seq(Fds)] /\ m.place \in [Dirs -> [Fds -> Nat]]
    BY <1>6, <1>8 DEF Events
  <2>2. m = [mask |-> m.mask, kernel |-> m.kernel, ctx |-> m.ctx,
             defers |-> m.defers, place |-> m.place]
    BY <1>7 DEF Events
  <2> QED BY <2>1, <2>2 DEF Events
<1>10. \A c \in Dirs : IF c = d THEN m.defers[c] = r /\ m.place[c] = to
                       ELSE m.defers[c] = e.defers[c] /\ m.place[c] = e.place[c]
  BY <1>8 DEF Events
<1>11. \A c \in Dirs, g \in Fds :
         m.place[c][g] = 0 <=> e.place[c][g] = 0 \/ (c = d /\ g = fd)
  BY <1>2, <1>6, <1>10
<1>12. Exact(m)
  <2> SUFFICES ASSUME NEW c \in Dirs
               PROVE  /\ Paired(m.defers[c], m.place[c])
                      /\ \A g \in Fds : m.place[c][g] # 0 => c \in m.mask[g]
    BY DEF Exact
  <2>1. Paired(m.defers[c], m.place[c])
    BY <1>6, <1>10 DEF Exact
  <2>2. \A g \in Fds : m.place[c][g] # 0 => c \in m.mask[g]
    BY <1>8, <1>11 DEF Exact
  <2> QED BY <2>1, <2>2
<1> QED BY <1>8, <1>9, <1>11, <1>12

(* Every event of the table is kept as it was but for those of one         *)
(* descriptor and direction.                                               *)
Registered(e, fd, d) == d \in e.mask[fd] /\ e.place[d][fd] = 0

(* event_add registers one event, and leaves the others as they are.       *)
LEMMA AddKeeps ==
  ASSUME NEW e \in Events, Exact(e), e.kernel = e.mask,
         NEW d \in Dirs, NEW fd \in Fds, NEW f \in Fibers,
         NEW m, m = event_add(e, fd, d, f)
  PROVE  /\ m \in Events /\ Exact(m) /\ m.kernel = m.mask
         /\ Registered(m, fd, d) /\ m.ctx[fd][d] = f
         /\ \A g \in Fds, c \in Dirs : g # fd \/ c # d =>
              /\ Registered(m, g, c) <=> Registered(e, g, c)
              /\ m.ctx[g][c] = e.ctx[g][c]
<1>1. PICK u : u = IF e.place[d][fd] # 0 THEN Undefer(e, d, fd) ELSE e
  OBVIOUS
<1>2. /\ u \in Events /\ Exact(u)
      /\ u.mask = e.mask /\ u.kernel = e.kernel /\ u.ctx = e.ctx
      /\ \A c \in Dirs, g \in Fds :
           u.place[c][g] = 0 <=> e.place[c][g] = 0 \/ (c = d /\ g = fd)
  <2>1. CASE e.place[d][fd] # 0
    <3>1. u = Undefer(e, d, fd)
      BY <1>1, <2>1
    <3> QED BY <2>1, <3>1, UndeferKeeps
  <2>2. CASE e.place[d][fd] = 0
    BY <1>1, <2>2
  <2> QED BY <2>1, <2>2
<1>3. PICK k : k = IF e.place[d][fd] # 0 \/ d \in e.mask[fd] THEN u.kernel[fd]
                   ELSE e.mask[fd] \cup {d}
  OBVIOUS
<1>4. m = [u EXCEPT !.mask[fd] = u.mask[fd] \cup {d}, !.kernel[fd] = k, !.ctx[fd][d] = f]
  BY <1>1, <1>3 DEF event_add
<1>5. k = u.mask[fd] \cup {d} /\ k \in SUBSET Dirs
  <2>1. e.place[d][fd] # 0 => d \in e.mask[fd]
    BY DEF Exact
  <2>2. u.kernel[fd] = e.mask[fd] /\ e.mask[fd] \in SUBSET Dirs
    BY <1>2 DEF Events
  <2> QED BY <1>2, <1>3, <2>1, <2>2
<1>6. /\ m.mask = [u.mask EXCEPT ![fd] = k] /\ m.kernel = [u.kernel EXCEPT ![fd] = k]
      /\ m.ctx = [u.ctx EXCEPT ![fd][d] = f]
      /\ m.defers = u.defers /\ m.place = u.place
  BY <1>2, <1>4, <1>5 DEF Events
<1>7. m \in Events
  <2>1. /\ m.mask \in [Fds -> SUBSET Dirs] /\ m.kernel \in [Fds -> SUBSET Dirs]
        /\ m.ctx \in [Fds -> [Dirs -> Fibers \cup {NoFiber}]]
        /\ m.defers \in [Dirs -> Seq(Fds)] /\ m.place \in [Dirs -> [Fds -> Nat]]
    BY <1>2, <1>5, <1>6 DEF Events
  <2>2. m = [mask |-> m.mask, kernel |-> m.kernel, ctx |-> m.ctx,
             defers |-> m.defers, place |-> m.place]
    BY <1>2, <1>4 DEF Events
  <2> QED BY <2>1, <2>2 DEF Events
<1>8. Exact(m)
  <2> SUFFICES ASSUME NEW c \in Dirs
               PROVE  /\ Paired(m.defers[c], m.place[c])
                      /\ \A g \in Fds : m.place[c][g] # 0 => c \in m.mask[g]
    BY DEF Exact
  <2>1. Paired(m.defers[c], m.place[c])
    BY <1>2, <1>6 DEF Exact
  <2>2. \A g \in Fds : m.place[c][g] # 0 => c \in m.mask[g]
    BY <1>2, <1>5, <1>6 DEF Exact, Events
  <2> QED BY <2>1, <2>2
<1>9. m.kernel = m.mask
  BY <1>2, <1>6
<1>10. Registered(m, fd, d) /\ m.ctx[fd][d] = f
  BY <1>2, <1>5, <1>6 DEF Registered, Events
<1>11. ASSUME NEW g \in Fds, NEW c \in Dirs, g # fd \/ c # d
       PROVE  /\ Registered(m, g, c) <=> Registered(e, g, c)
              /\ m.ctx[g][c] = e.ctx[g][c]
  <2>1. c \in m.mask[g] <=> c \in e.mask[g]
    BY <1>2, <1>5, <1>6, <1>11 DEF Events
  <2>2. m.place[c][g] = 0 <=> e.place[c][g] = 0
    BY <1>2, <1>6, <1>11
  <2>3. m.ctx[g][c] = e.ctx[g][c]
    BY <1>2, <1>6, <1>11 DEF Events
  <2> QED BY <2>1, <2>2, <2>3 DEF Registered
<1> QED BY <1>7, <1>8, <1>9, <1>10, <1>11

(* event_del of a descriptor that is closed takes all its events out of    *)
(* the table, and nothing else.                                            *)
LEMMA CloseKeeps ==
  ASSUME NEW e \in Events, Exact(e), e.kernel = e.mask, NEW fd \in Fds,
         NEW m, m = event_error_del(e, fd)
  PROVE  /\ m \in Events /\ Exact(m) /\ m.kernel = m.mask
         /\ \A d \in Dirs : ~Registered(m, fd, d)
         /\ \A g \in Fds, c \in Dirs : g # fd =>
              /\ Registered(m, g, c) <=> Registered(e, g, c)
              /\ m.ctx[g][c] = e.ctx[g][c]
<1>0. "r" \in Dirs /\ "w" \in Dirs
  BY DEF Dirs
<1>1. PICK r : r = IF e.place["r"][fd] # 0 THEN Undefer(e, "r", fd) ELSE e
  OBVIOUS
<1>2. /\ r \in Events /\ Exact(r)
      /\ r.mask = e.mask /\ r.kernel = e.kernel /\ r.ctx = e.ctx
      /\ \A c \in Dirs, g \in Fds :
           r.place[c][g] = 0 <=> e.place[c][g] = 0 \/ (c = "r" /\ g = fd)
  <2>1. CASE e.place["r"][fd] # 0
    <3>1. r = Undefer(e, "r", fd)
      BY <1>1, <2>1
    <3> QED BY <1>0, <2>1, <3>1, UndeferKeeps
  <2>2. CASE e.place["r"][fd] = 0
    BY <1>1, <2>2
  <2> QED BY <2>1, <2>2
<1>3. PICK w : w = IF r.place["w"][fd] # 0 THEN Undefer(r, "w", fd) ELSE r
  OBVIOUS
<1>4. /\ w \in Events /\ Exact(w)
      /\ w.mask = r.mask /\ w.kernel = r.kernel /\ w.ctx = r.ctx
      /\ \A c \in Dirs, g \in Fds :
           w.place[c][g] = 0 <=> r.place[c][g] = 0 \/ (c = "w" /\ g = fd)
  <2>1. CASE r.place["w"][fd] # 0
    <3>1. w = Undefer(r, "w", fd)
      BY <1>3, <2>1
    <3> QED BY <1>0, <1>2, <2>1, <3>1, UndeferKeeps
  <2>2. CASE r.place["w"][fd] = 0
    BY <1>2, <1>3, <2>2
  <2> QED BY <2>1, <2>2
<1>5. \A c \in Dirs, g \in Fds : w.place[c][g] = 0 <=> e.place[c][g] = 0 \/ g = fd
  BY <1>2, <1>4 DEF Dirs
<1>6. m = [w EXCEPT !.mask[fd] = {}, !.kernel[fd] = {}, !.ctx[fd] = [d \in Dirs |-> NoFiber]]
  BY <1>1, <1>3 DEF event_error_del
<1>7. /\ m.mask = [w.mask EXCEPT ![fd] = {}] /\ m.kernel = [w.kernel EXCEPT ![fd] = {}]
      /\ m.ctx = [w.ctx EXCEPT ![fd] = [d \in Dirs |-> NoFiber]]
      /\ m.defers = w.defers /\ m.place = w.place
  BY <1>4, <1>6 DEF Events
<1>8. m \in Events
  <2>1. /\ m.mask \in [Fds -> SUBSET Dirs] /\ m.kernel \in [Fds -> SUBSET Dirs]
        /\ m.ctx \in [Fds -> [Dirs -> Fibers \cup {NoFiber}]]
        /\ m.defers \in [Dirs -> Seq(Fds)] /\ m.place \in [Dirs -> [Fds -> Nat]]
    BY <1>4, <1>7 DEF Events
  <2>2. m = [mask |-> m.mask, kernel |-> m.kernel, ctx |-> m.ctx,
             defers |-> m.defers, place |-> m.place]
    BY <1>4, <1>6 DEF Events
  <2> QED BY <2>1, <2>2 DEF Events
<1>9. Exact(m)
  <2> SUFFICES ASSUME NEW c \in Dirs
               PROVE  /\ Paired(m.defers[c], m.place[c])
                      /\ \A g \in Fds : m.place[c][g] # 0 => c \in m.mask[g]
    BY DEF Exact
  <2>1. Paired(m.defers[c], m.place[c])
    BY <1>4, <1>7 DEF Exact
  <2>2. \A g \in Fds : m.place[c][g] # 0 => c \in m.mask[g]
    BY <1>4, <1>5, <1>7 DEF Exact, Events
  <2> QED BY <2>1, <2>2
<1>10. m.kernel = m.mask
  BY <1>2, <1>4, <1>7
<1>11. \A d \in Dirs : ~Registered(m, fd, d)
  BY <1>4, <1>7 DEF Registered, Events
<1>12. ASSUME NEW g \in Fds, NEW c \in Dirs, g # fd
       PROVE  /\ Registered(m, g, c) <=> Registered(e, g, c)
              /\ m.ctx[g][c] = e.ctx[g][c]
  <2>1. c \in m.mask[g] <=> c \in e.mask[g]
    BY <1>2, <1>4, <1>7, <1>12 DEF Events
  <2>2. m.place[c][g] = 0 <=> e.place[c][g] = 0
    BY <1>5, <1>7, <1>12
  <2>3. m.ctx[g][c] = e.ctx[g][c]
    BY <1>2, <1>4, <1>7, <1>12 DEF Events
  <2> QED BY <2>1, <2>2, <2>3 DEF Registered
<1> QED BY <1>8, <1>9, <1>10, <1>11, <1>12

(* event_process carries out the deferred deletions: what is registered    *)
(* stays, and no deletion is left.                                         *)
LEMMA RemoveKeeps ==
  ASSUME NEW e \in Events, NEW m, m = RemoveDeferred(e)
  PROVE  /\ m \in Events /\ Exact(m) /\ m.kernel = m.mask
         /\ \A g \in Fds, c \in Dirs :
              /\ Registered(m, g, c) <=> Registered(e, g, c)
              /\ Registered(e, g, c) => m.ctx[g][c] = e.ctx[g][c]
<1>1. PICK kept : kept = [fd \in Fds |-> {d \in e.mask[fd] : e.place[d][fd] = 0}]
  OBVIOUS
<1>2. kept \in [Fds -> SUBSET Dirs]
        /\ \A g \in Fds, c \in Dirs : c \in kept[g] <=> Registered(e, g, c)
  BY <1>1 DEF Events, Registered
<1>3. PICK x : x = [fd \in Fds |-> [d \in Dirs |-> IF d \in kept[fd] THEN e.ctx[fd][d]
                                                  ELSE NoFiber]]
  OBVIOUS
<1>4. /\ x \in [Fds -> [Dirs -> Fibers \cup {NoFiber}]]
      /\ \A g \in Fds, c \in Dirs : c \in kept[g] => x[g][c] = e.ctx[g][c]
  BY <1>3 DEF Events
<1>5. m = [mask |-> kept, kernel |-> kept, ctx |-> x, defers |-> [d \in Dirs |-> << >>],
           place |-> [d \in Dirs |-> [fd \in Fds |-> 0]]]
  BY <1>1, <1>3 DEF RemoveDeferred, Shrink, NoEvents
<1>6. << >> \in Seq(Fds) /\ Len(<< >>) = 0
  OBVIOUS
<1>7. m \in Events
  BY <1>2, <1>4, <1>5, <1>6 DEF Events
<1>8. Exact(m)
  BY <1>5, <1>6 DEF Exact, Paired
<1>9. \A g \in Fds, c \in Dirs : Registered(m, g, c) <=> c \in kept[g]
  BY <1>5 DEF Registered
<1> QED BY <1>2, <1>4, <1>5, <1>7, <1>8, <1>9

(* A callback does not touch the masks and contexts.                       *)
OnlyDefers(e, fd, d, m) ==
  /\ m.mask = e.mask /\ m.kernel = e.kernel /\ m.ctx = e.ctx
  /\ m.defers = [e.defers EXCEPT ![d] = Behind(e.defers[d], fd)]
  /\ m.place = [e.place EXCEPT ![d] = PointedLast(e.defers[d], e.place[d], fd)]

LEMMA DeferTyped ==
  ASSUME NEW e \in Events, NEW d \in Dirs, NEW fd \in Fds, NEW m, m = Defer(e, fd, d)
  PROVE  m \in Events /\ OnlyDefers(e, fd, d, m)
<1>1. PICK q, at : q = Behind(e.defers[d], fd) /\ at = PointedLast(e.defers[d], e.place[d], fd)
  OBVIOUS
<1>0. q \in Seq(Fds) /\ at \in [Fds -> Nat]
  BY <1>1 DEF Events, Behind, PointedLast
<1>2. m = [e EXCEPT !.defers[d] = q, !.place[d] = at]
  BY <1>1 DEF Defer, Behind, PointedLast, Events
<1>3. /\ m.mask = e.mask /\ m.kernel = e.kernel /\ m.ctx = e.ctx
      /\ m.defers = [e.defers EXCEPT ![d] = q] /\ m.place = [e.place EXCEPT ![d] = at]
  BY <1>2 DEF Events
<1>4. m \in Events
  <2>1. /\ m.mask \in [Fds -> SUBSET Dirs] /\ m.kernel \in [Fds -> SUBSET Dirs]
        /\ m.ctx \in [Fds -> [Dirs -> Fibers \cup {NoFiber}]]
        /\ m.defers \in [Dirs -> Seq(Fds)] /\ m.place \in [Dirs -> [Fds -> Nat]]
    BY <1>0, <1>3 DEF Events
  <2>2. m = [mask |-> m.mask, kernel |-> m.kernel, ctx |-> m.ctx,
             defers |-> m.defers, place |-> m.place]
    BY <1>2 DEF Events
  <2> QED BY <2>1, <2>2 DEF Events
<1> QED BY <1>1, <1>3, <1>4 DEF OnlyDefers

(* A callback takes its event out of those that are registered.            *)
LEMMA DeferKeeps ==
  ASSUME NEW e \in Events, Exact(e), NEW d \in Dirs, NEW fd \in Fds, Registered(e, fd, d),
         NEW m, m = Defer(e, fd, d)
  PROVE  /\ m \in Events /\ Exact(m)
         /\ \A g \in Fds, c \in Dirs :
              Registered(m, g, c) <=> Registered(e, g, c) /\ (g # fd \/ c # d)
<1>1. PICK q, at : q = e.defers[d] /\ at = e.place[d]
  OBVIOUS
<1>2. q \in Seq(Fds) /\ at \in [Fds -> Nat] /\ Paired(q, at) /\ at[fd] = 0
  BY <1>1 DEF Events, Exact, Registered
<1>3. PICK r, to : r = Behind(q, fd) /\ to = PointedLast(q, at, fd)
  OBVIOUS
<1>4. /\ r \in Seq(Fds) /\ to \in [Fds -> Nat] /\ Paired(r, to)
      /\ \A g \in Fds : to[g] = 0 <=> at[g] = 0 /\ g # fd
  BY <1>2, <1>3, Pushed
<1>5. /\ m \in Events /\ m.mask = e.mask
      /\ m.defers = [e.defers EXCEPT ![d] = r] /\ m.place = [e.place EXCEPT ![d] = to]
  BY <1>1, <1>3, DeferTyped DEF OnlyDefers
<1>6. \A c \in Dirs : IF c = d THEN m.defers[c] = r /\ m.place[c] = to
                      ELSE m.defers[c] = e.defers[c] /\ m.place[c] = e.place[c]
  BY <1>5 DEF Events
<1>7. \A g \in Fds, c \in Dirs :
        m.place[c][g] = 0 <=> e.place[c][g] = 0 /\ (g # fd \/ c # d)
  BY <1>1, <1>4, <1>6
<1>8. Exact(m)
  <2> SUFFICES ASSUME NEW c \in Dirs
               PROVE  /\ Paired(m.defers[c], m.place[c])
                      /\ \A g \in Fds : m.place[c][g] # 0 => c \in m.mask[g]
    BY DEF Exact
  <2>1. Paired(m.defers[c], m.place[c])
    BY <1>4, <1>6 DEF Exact
  <2>2. \A g \in Fds : m.place[c][g] # 0 => c \in m.mask[g]
    BY <1>5, <1>7 DEF Exact, Registered
  <2> QED BY <2>1, <2>2
<1> QED BY <1>5, <1>7, <1>8 DEF Registered

(* What is left of the table e when the first i of s have been deferred.   *)
Deferred(e, s, i, m) ==
  /\ m \in Events /\ Exact(m)
  /\ m.mask = e.mask /\ m.kernel = e.kernel /\ m.ctx = e.ctx
  /\ \A g \in Fds, c \in Dirs :
       Registered(m, g, c) <=> Registered(e, g, c) /\ \A j \in 1 .. i : s[j] # <<g, c>>

(* A sequence of different events, all of them registered.                 *)
Firing(e, s) ==
  /\ s \in Seq(Fds \X Dirs)
  /\ \A i, j \in 1 .. Len(s) : s[i] = s[j] => i = j
  /\ \A i \in 1 .. Len(s) : Registered(e, s[i][1], s[i][2])

LEMMA DeferNext ==
  ASSUME NEW e \in Events, NEW s, Firing(e, s), NEW i \in 1 .. Len(s),
         NEW x, Deferred(e, s, i - 1, x), NEW m, m = Defer(x, s[i][1], s[i][2])
  PROVE  Deferred(e, s, i, m)
<1>1. PICK n \in Nat : n = Len(s)
  BY DEF Firing
<1>2. PICK fd \in Fds, d \in Dirs : s[i] = <<fd, d>>
  BY DEF Firing
<1>3. s[i][1] = fd /\ s[i][2] = d /\ m = Defer(x, fd, d)
  BY <1>2
<1>4. ASSUME NEW j \in 1 .. i - 1 PROVE s[j] # <<fd, d>>
  <2>1. j \in 1 .. n /\ i \in 1 .. n /\ j # i
    BY <1>1
  <2>2. s[j] # s[i]
    BY <1>1, <2>1 DEF Firing
  <2> QED BY <1>2, <2>2
<1>5. Registered(x, fd, d)
  BY <1>3, <1>4 DEF Firing, Deferred
<1>6. /\ m \in Events /\ Exact(m)
      /\ \A g \in Fds, c \in Dirs :
           Registered(m, g, c) <=> Registered(x, g, c) /\ (g # fd \/ c # d)
  BY <1>3, <1>5, DeferKeeps DEF Deferred
<1>7. m.mask = e.mask /\ m.kernel = e.kernel /\ m.ctx = e.ctx
  <2>1. x \in Events /\ x.mask = e.mask /\ x.kernel = e.kernel /\ x.ctx = e.ctx
    BY DEF Deferred
  <2>2. OnlyDefers(x, fd, d, m)
    BY <1>3, <2>1, DeferTyped
  <2> QED BY <2>1, <2>2 DEF OnlyDefers
<1>8. ASSUME NEW g \in Fds, NEW c \in Dirs
      PROVE  Registered(m, g, c) <=> Registered(e, g, c) /\ \A j \in 1 .. i : s[j] # <<g, c>>
  <2>1. Registered(x, g, c) <=> Registered(e, g, c) /\ \A j \in 1 .. i - 1 : s[j] # <<g, c>>
    BY DEF Deferred
  <2>2. (\A j \in 1 .. i : s[j] # <<g, c>>)
          <=> (\A j \in 1 .. i - 1 : s[j] # <<g, c>>) /\ s[i] # <<g, c>>
    BY <1>1
  <2>3. s[i] # <<g, c>> <=> g # fd \/ c # d
    BY <1>2
  <2> QED BY <1>6, <2>1, <2>2, <2>3
<1> QED BY <1>6, <1>7, <1>8 DEF Deferred

(* The loop over the callbacks is a function with all its steps.           *)
LEMMA DeferLoop ==
  ASSUME NEW e \in Events, NEW s, Firing(e, s), NEW n \in Nat, n = Len(s)
  PROVE  \E f : /\ f = [i \in 0 .. n |-> IF i = 0 THEN e ELSE Defer(f[i - 1], s[i][1], s[i][2])]
                /\ DeferAll(e, s) = f[n]
<1> DEFINE Loop(f) == f = [i \in 0 .. n |-> IF i = 0 THEN e
                                           ELSE Defer(f[i - 1], s[i][1], s[i][2])]
           step == [i \in 1 .. n |-> [x \in Events |-> Defer(x, s[i][1], s[i][2])]]
<1>1. \A i \in 1 .. n : s[i][1] \in Fds /\ s[i][2] \in Dirs
  BY DEF Firing
<1>2. step \in [1 .. n -> [Events -> Events]]
  BY <1>1, DeferTyped
<1>3. PICK f \in [0 .. n -> Events] : f[0] = e /\ \A i \in 1 .. n : f[i] = step[i][f[i - 1]]
  <2>1. PICK T, g : T = Events /\ g = step
    OBVIOUS
  <2>2. n \in Nat /\ e \in T /\ g \in [1 .. n -> [T -> T]]
    BY <1>2, <2>1
  <2>3. \E f \in [0 .. n -> T] : f[0] = e /\ \A i \in 1 .. n : f[i] = g[i][f[i - 1]]
    BY ONLY <2>2, Repeats
  <2> HIDE DEF step
  <2> QED BY <2>1, <2>3
<1>4. ASSUME NEW i \in 1 .. n PROVE f[i] = Defer(f[i - 1], s[i][1], s[i][2])
  <2>1. f[i - 1] \in Events
    BY <1>3
  <2> QED BY <2>1, <1>3
<1>5. Loop(f)
  BY <1>3, <1>4
<1>6. Loop(CHOOSE g : Loop(g))
  BY <1>5
<1>7. DeferAll(e, s) = (CHOOSE g : Loop(g))[n]
  BY DEF DeferAll
<1> QED BY <1>6, <1>7

(* The callbacks of s take the events of s out of those registered.        *)
LEMMA DeferAllKeeps ==
  ASSUME NEW e \in Events, Exact(e), NEW s, Firing(e, s)
  PROVE  Deferred(e, s, Len(s), DeferAll(e, s))
<1>1. PICK n \in Nat : n = Len(s)
  BY DEF Firing
<1>2. PICK f : /\ f = [i \in 0 .. n |-> IF i = 0 THEN e ELSE Defer(f[i - 1], s[i][1], s[i][2])]
               /\ DeferAll(e, s) = f[n]
  BY <1>1, DeferLoop
<1>3. PICK S : S = {x \in (0 .. n) \X Events : Deferred(e, s, x[1], x[2])}
  OBVIOUS
<1>4. PICK g : g = [i \in 0 .. n |-> <<i, f[i]>>]
  OBVIOUS
<1>5. g[0] \in S
  <2>1. f[0] = e
    BY <1>2
  <2>2. Deferred(e, s, 0, e)
    BY DEF Deferred
  <2> QED BY <1>3, <1>4, <2>1, <2>2
<1>6. ASSUME NEW i \in 1 .. n, g[i - 1] \in S PROVE g[i] \in S
  <2>1. i - 1 \in 0 .. n /\ i \in 0 .. n /\ i # 0
    OBVIOUS
  <2>2. PICK x : x = f[i - 1]
    OBVIOUS
  <2>3. g[i - 1] = <<i - 1, x>> /\ f[i] = Defer(x, s[i][1], s[i][2])
    BY <1>2, <1>4, <2>1, <2>2
  <2>4. Deferred(e, s, i - 1, x)
    BY <1>3, <1>6, <2>3
  <2>5. Deferred(e, s, i, f[i])
    BY <1>1, <2>3, <2>4, DeferNext
  <2>6. f[i] \in Events
    BY <2>5 DEF Deferred
  <2> QED BY <1>3, <1>4, <2>1, <2>5, <2>6
<1>7. \A i \in 0 .. n : g[i] \in S
  BY <1>5, <1>6, HoldsThroughout
<1>8. n \in 0 .. n
  OBVIOUS
<1> QED BY <1>1, <1>2, <1>3, <1>4, <1>7, <1>8

-----------------------------------------------------------------------------
(* Making many fibers ready, one after the other.                          *)

Mems == [succ   : [Fibers \cup Heads -> Fibers \cup Heads],
         pred   : [Fibers \cup Heads -> Fibers \cup Heads],
         parent : [Fibers \cup Heads -> Fibers \cup Heads],
         len    : [Fibers \cup Heads -> Int]]

LEMMA ReadyTyped ==
  ASSUME NEW m \in Mems, NEW f \in Fibers
  PROVE  acl_fiber_ready(m, f) \in Mems
<1>1. Ready \in Fibers \cup Heads
  BY HeadsFacts
<1>2. acl_ring_prepend(m, Ready, f) \in Mems
  BY <1>1 DEF acl_ring_prepend, Mems
<1> QED BY <1>2 DEF acl_fiber_ready

(* The rings r when the first i of who have been made ready.               *)
Readied(m, who, i, r) ==
  /\ Rings(r)
  /\ \A w \in WaitRings : NoEntry(r, w) <=> NoEntry(m, w)
  /\ \A n \in Fibers \cup Heads :
       r.parent[n] = IF \E j \in 1 .. i : who[j] = n THEN Ready ELSE m.parent[n]

(* Different fibers, alive and in no ring.                                 *)
Loose(m, who) ==
  /\ who \in Seq(Fibers)
  /\ \A i, j \in 1 .. Len(who) : who[i] = who[j] => i = j
  /\ \A i \in 1 .. Len(who) : status[who[i]] = "ready" /\ m.parent[who[i]] = who[i]

(* Queueing an entry at one head neither fills nor empties another ring.   *)
LEMMA PrependLeaves ==
  ASSUME NEW m, Rings(m), NEW h \in Heads, NEW e \in Fibers, m.parent[e] = e,
         NEW w \in Heads, w # h
  PROVE  NoEntry(acl_ring_prepend(m, h, e), w) <=> NoEntry(m, w)
<1>1. m.pred[h] # w /\ w # e
  BY HeadsFacts DEF Rings, RingType, WellLinked
<1> QED BY <1>1, HeadsFacts DEF Rings, RingType, NoEntry, acl_ring_prepend

LEMMA ReadyNext ==
  ASSUME NEW m, Rings(m), NEW who, Loose(m, who), NEW i \in 1 .. Len(who),
         NEW x, Readied(m, who, i - 1, x)
  PROVE  Readied(m, who, i, acl_fiber_ready(x, who[i]))
<1>1. PICK k \in Nat : k = Len(who)
  BY DEF Loose
<1>2. PICK f \in Fibers : f = who[i]
  BY DEF Loose
<1>3. status[f] = "ready" /\ m.parent[f] = f
  BY <1>2 DEF Loose
<1>4. ~\E j \in 1 .. i - 1 : who[j] = f
  <2> SUFFICES ASSUME NEW j \in 1 .. i - 1, who[j] = f PROVE FALSE
    OBVIOUS
  <2>1. j \in 1 .. k /\ i \in 1 .. k /\ j # i
    BY <1>1
  <2> QED BY <1>1, <1>2, <2>1 DEF Loose
<1>5. x.parent[f] = f /\ Rings(x)
  BY <1>3, <1>4 DEF Readied
<1>6. PICK r : r = acl_fiber_ready(x, f)
  OBVIOUS
<1>9. \A w \in WaitRings : NoEntry(r, w) <=> NoEntry(m, w)
  <2>1. r = acl_ring_prepend(x, Ready, f)
    BY <1>3, <1>6 DEF acl_fiber_ready
  <2>2. \A w \in WaitRings : NoEntry(r, w) <=> NoEntry(x, w)
    BY <1>5, <2>1, PrependLeaves, HeadsFacts
  <2> QED BY <2>2 DEF Readied
<1>7. Rings(r) /\ r.parent = [x.parent EXCEPT ![f] = Ready]
  BY <1>3, <1>5, <1>6, ReadyKeeps
<1>8. ASSUME NEW n \in Fibers \cup Heads
      PROVE  r.parent[n] = IF \E j \in 1 .. i : who[j] = n THEN Ready ELSE m.parent[n]
  <2>1. x.parent[n] = IF \E j \in 1 .. i - 1 : who[j] = n THEN Ready ELSE m.parent[n]
    BY DEF Readied
  <2>2. (\E j \in 1 .. i : who[j] = n) <=> (\E j \in 1 .. i - 1 : who[j] = n) \/ n = f
    BY <1>1, <1>2
  <2>3. r.parent[n] = IF n = f THEN Ready ELSE x.parent[n]
    BY <1>5, <1>7 DEF Rings, RingType
  <2> QED BY <2>1, <2>2, <2>3
<1> QED BY <1>2, <1>6, <1>7, <1>8, <1>9 DEF Readied

(* Whom the callbacks of s make ready.                                     *)
Woken(e, s) == [i \in 1 .. Len(s) |-> e.ctx[s[i][1]][s[i][2]]]

(* Fibers can be made ready one after the other.                           *)
LEMMA ReadySteps ==
  \A m \in Mems, n \in Nat : \A who \in [1 .. n -> Fibers] :
    \E f \in [0 .. n -> Mems] :
      f[0] = m /\ \A i \in 1 .. n : f[i] = acl_fiber_ready(f[i - 1], who[i])
<1> SUFFICES ASSUME NEW m \in Mems, NEW n \in Nat, NEW who, who \in [1 .. n -> Fibers]
             PROVE  \E f \in [0 .. n -> Mems] :
                      f[0] = m /\ \A i \in 1 .. n : f[i] = acl_fiber_ready(f[i - 1], who[i])
  OBVIOUS
<1>1. PICK T, first, g : /\ T = Mems /\ first = m
                         /\ g = [i \in 1 .. n |-> [x \in T |-> acl_fiber_ready(x, who[i])]]
  OBVIOUS
<1>2. n \in Nat /\ first \in T /\ g \in [1 .. n -> [T -> T]]
  BY <1>1, ReadyTyped
<1>3. PICK f \in [0 .. n -> T] : f[0] = first /\ \A i \in 1 .. n : f[i] = g[i][f[i - 1]]
  BY ONLY <1>2, Repeats
<1>4. ASSUME NEW i \in 1 .. n PROVE f[i] = acl_fiber_ready(f[i - 1], who[i])
  <2>1. f[i - 1] \in T
    BY <1>3
  <2> QED BY <1>1, <1>3, <2>1
<1>5. f \in [0 .. n -> Mems] /\ f[0] = m
  BY <1>1, <1>3
<1> QED BY <1>4, <1>5

(* The memory f[i] after i of who have been made ready, from m to r.       *)
Turns(m, who, n, r, f) ==
  /\ f[0] = m /\ f[n] = r
  /\ \A i \in 1 .. n : f[i] = acl_fiber_ready(f[i - 1], who[i])

(* The loop over the fibers is a function with all its steps.              *)
LEMMA ReadyLoop ==
  ASSUME NEW m \in Mems, NEW e, NEW s, NEW n \in Nat, n = Len(s),
         NEW who \in Seq(Fibers), who = Woken(e, s), Len(who) = n
  PROVE  \E f : Turns(m, who, n, ReadyAll(m, e, s), f)
<1> DEFINE Loop(f) == f = [i \in 0 .. n |-> IF i = 0 THEN m
                              ELSE acl_fiber_ready(f[i - 1], e.ctx[s[i][1]][s[i][2]])]
<1>1. \A i \in 1 .. n : who[i] \in Fibers /\ who[i] = e.ctx[s[i][1]][s[i][2]]
  BY DEF Woken
<1>2. PICK f \in [0 .. n -> Mems] :
        f[0] = m /\ \A i \in 1 .. n : f[i] = acl_fiber_ready(f[i - 1], who[i])
  <2>1. m \in Mems /\ n \in Nat /\ who \in [1 .. n -> Fibers]
    BY <1>1
  <2>2. \E f \in [0 .. n -> Mems] :
          f[0] = m /\ \A i \in 1 .. n : f[i] = acl_fiber_ready(f[i - 1], who[i])
    BY ONLY <2>1, ReadySteps
  <2> QED BY <2>2
<1>5. Loop(f)
  BY <1>1, <1>2
<1>6. PICK h : h = CHOOSE g : Loop(g)
  OBVIOUS
<1>7. Loop(h)
  BY <1>5, <1>6
<1>8. ReadyAll(m, e, s) = h[n]
  BY <1>6 DEF ReadyAll
<1>9. h[0] = m
  BY <1>7
<1>10. ASSUME NEW i \in 1 .. n PROVE h[i] = acl_fiber_ready(h[i - 1], who[i])
  <2>1. i \in 0 .. n /\ i # 0
    OBVIOUS
  <2> QED BY <1>1, <1>7, <2>1
<1> QED BY <1>8, <1>9, <1>10 DEF Turns

(* After the callbacks exactly the fibers of who have left no ring for the *)
(* ready ring.                                                             *)
LEMMA ReadyAllKeeps ==
  ASSUME NEW m, Rings(m), NEW e, NEW s, Len(s) \in Nat,
         NEW who, who = Woken(e, s), Loose(m, who)
  PROVE  Readied(m, who, Len(s), ReadyAll(m, e, s))
<1>1. PICK n \in Nat : n = Len(s)
  OBVIOUS
<1>2. Len(who) = n /\ who \in Seq(Fibers)
  BY <1>1 DEF Woken, Loose
<1>3. m \in Mems
  BY DEF Rings, RingType, Mems
<1>4. PICK f : Turns(m, who, n, ReadyAll(m, e, s), f)
  BY <1>1, <1>2, <1>3, ReadyLoop
<1>5. PICK S : S = {x \in (0 .. n) \X Mems : Readied(m, who, x[1], x[2])}
  OBVIOUS
<1>6. PICK g : g = [i \in 0 .. n |-> <<i, f[i]>>]
  OBVIOUS
<1>7. g[0] \in S
  <2>1. Readied(m, who, 0, m)
    BY DEF Readied
  <2>2. f[0] = m
    BY <1>4 DEF Turns
  <2> QED BY <1>3, <1>5, <1>6, <2>1, <2>2
<1>8. ASSUME NEW i \in 1 .. n, g[i - 1] \in S PROVE g[i] \in S
  <2>1. i - 1 \in 0 .. n /\ i \in 0 .. n
    OBVIOUS
  <2>2. PICK x : x = f[i - 1]
    OBVIOUS
  <2>3. g[i - 1] = <<i - 1, x>> /\ f[i] = acl_fiber_ready(x, who[i])
    BY <1>4, <1>6, <2>1, <2>2 DEF Turns
  <2>4. Readied(m, who, i - 1, x)
    BY <1>5, <1>8, <2>3
  <2>5. Readied(m, who, i, f[i])
    BY <1>2, <2>3, <2>4, ReadyNext
  <2>6. f[i] \in Mems
    BY <2>5 DEF Readied, Rings, RingType, Mems
  <2> QED BY <1>5, <1>6, <2>1, <2>5, <2>6
<1>9. \A i \in 0 .. n : g[i] \in S
  BY <1>7, <1>8, HoldsThroughout
<1>10. n \in 0 .. n
  OBVIOUS
<1>11. f[n] = ReadyAll(m, e, s)
  BY <1>4 DEF Turns
<1> QED BY <1>1, <1>5, <1>6, <1>9, <1>10, <1>11

-----------------------------------------------------------------------------
(* The events that fire are met once each, and are registered.             *)
LEMMA OrderFires ==
  ASSUME EvInv, NEW fired, fired \subseteq Watched, NEW s \in Orders(fired)
  PROVE  Firing(ev, s)
<1>1. IsFiniteSet(fired)
  <2>1. IsFiniteSet({"r", "w"})
    <3>1. IsFiniteSet({"r"})
      BY FS_Singleton
    <3>2. {"r", "w"} = {"r"} \cup {"w"}
      OBVIOUS
    <3> QED BY <3>1, <3>2, FS_AddElement
  <2>2. IsFiniteSet(Fds \X Dirs)
    BY <2>1, IoAssumption, FS_Product DEF Dirs
  <2>3. fired \subseteq Fds \X Dirs
    BY DEF Watched
  <2> QED BY <2>2, <2>3, FS_Subset
<1>2. PICK n \in Nat : n = Cardinality(fired)
  BY <1>1, FS_CardinalityType
<1>3. s \in [1 .. n -> fired] /\ IsInjective(s)
  BY <1>2 DEF Orders
<1>4. s \in [1 .. n -> Fds \X Dirs]
  BY <1>3 DEF Watched
<1>5. s \in Seq(Fds \X Dirs) /\ Len(s) = n
  BY <1>4
<1>6. ASSUME NEW i \in 1 .. n PROVE Registered(ev, s[i][1], s[i][2])
  BY <1>3 DEF Watched, Registered, EvInv
<1>7. \A i, j \in 1 .. n : s[i] = s[j] => i = j
  BY <1>3 DEF IsInjective
<1> QED BY <1>5, <1>6, <1>7 DEF Firing

(* What one pass of the polling fiber makes of the table.                  *)
Passed(s, m) ==
  /\ m \in Events /\ Exact(m) /\ m.kernel = m.mask
  /\ \A g \in Fds, c \in Dirs :
       /\ Registered(m, g, c)
            <=> Registered(ev, g, c) /\ \A j \in 1 .. Len(s) : s[j] # <<g, c>>
       /\ Registered(ev, g, c) => m.ctx[g][c] = ev.ctx[g][c]

LEMMA PassEvents ==
  ASSUME EvInv, NEW fired, fired \subseteq Watched, NEW s \in Orders(fired),
         NEW m, m = DeferAll(RemoveDeferred(ev), s)
  PROVE  Passed(s, m)
<1>1. PICK e : e = RemoveDeferred(ev)
  OBVIOUS
<1>2. /\ e \in Events /\ Exact(e) /\ e.kernel = e.mask
      /\ \A g \in Fds, c \in Dirs :
           /\ Registered(e, g, c) <=> Registered(ev, g, c)
           /\ Registered(ev, g, c) => e.ctx[g][c] = ev.ctx[g][c]
  BY <1>1, RemoveKeeps DEF EvInv
<1>3. Firing(ev, s)
  BY OrderFires
<1>4. Firing(e, s)
  <2>1. \A i \in 1 .. Len(s) : s[i][1] \in Fds /\ s[i][2] \in Dirs
    BY <1>3 DEF Firing
  <2> QED BY <1>2, <1>3, <2>1 DEF Firing
<1>5. Deferred(e, s, Len(s), m)
  BY <1>1, <1>2, <1>4, DeferAllKeeps
<1> QED BY <1>2, <1>5 DEF Deferred, Passed

(* The table of events is in order, whatever the programs do.              *)
LEMMA InitEvInv == IoInit => EvInv
<1> SUFFICES ASSUME IoInit PROVE EvInv
  OBVIOUS
<1>1. ev = [mask |-> [fd \in Fds |-> {}], kernel |-> [fd \in Fds |-> {}],
            ctx |-> [fd \in Fds |-> [d \in Dirs |-> NoFiber]],
            defers |-> [d \in Dirs |-> << >>],
            place |-> [d \in Dirs |-> [fd \in Fds |-> 0]]]
  BY DEF IoInit, NoEvents
<1>2. << >> \in Seq(Fds) /\ Len(<< >>) = 0
  OBVIOUS
<1>3. ev \in Events
  BY <1>1, <1>2 DEF Events
<1>4. Exact(ev)
  BY <1>1, <1>2 DEF Exact, Paired
<1> QED BY <1>1, <1>3, <1>4 DEF EvInv

LEMMA NextEvInv == EvInv /\ [IoNext]_allVars => EvInv'
<1> SUFFICES ASSUME EvInv, [IoNext]_allVars PROVE EvInv'
  OBVIOUS
<1>0. ev' = ev => EvInv'
  BY DEF EvInv
<1>1. CASE UNCHANGED allVars \/ IoOtherStep \/ Tick \/ acl_fiber_schedule_stop
  <2>1. ev' = ev
    BY <1>1 DEF allVars, ioVars, IoOtherStep, Tick, acl_fiber_schedule_stop
  <2> QED BY <1>0, <2>1
<1>2. CASE IoLoop
  <2>1. CASE IoYield \/ IoEnd
    <3>1. ev' = ev
      BY <2>1 DEF IoYield, IoEnd, ioVars
    <3> QED BY <1>0, <3>1
  <2>2. CASE \E fired \in SUBSET Watched, elapsed \in 0 .. MaxDelay : IoPass(fired, elapsed)
    <3>1. PICK fired, s : /\ fired \subseteq Watched /\ s \in Orders(fired)
                          /\ ev' = DeferAll(RemoveDeferred(ev), s)
      BY <2>2 DEF IoPass
    <3> QED BY <3>1, PassEvents DEF EvInv, Passed
  <2> QED BY <1>2, <2>1, <2>2 DEF IoLoop
<1>3. ASSUME NEW f \in Fibers, IoWaitReturn(f) PROVE EvInv'
  <2>1. ev' = ev
    BY <1>3 DEF IoWaitReturn
  <2> QED BY <1>0, <2>1
<1>4. ASSUME NEW f \in Fibers, fiber_timer_callback(f) PROVE EvInv'
  <2>1. ev' = ev
    BY <1>4 DEF fiber_timer_callback, acl_fiber_delay
  <2> QED BY <1>0, <2>1
<1>5. ASSUME NEW f \in Fibers, NEW fd \in Fds, fiber_io_close(f, fd) PROVE EvInv'
  <2>1. ev' = event_error_del(ev, fd)
    BY <1>5 DEF fiber_io_close
  <2> QED BY <2>1, CloseKeeps DEF EvInv
<1>6. ASSUME NEW f \in Fibers, NEW fd \in Fds, NEW d \in Dirs, fiber_wait(f, fd, d)
      PROVE  EvInv'
  <2>1. ev' = event_add(ev, fd, d, f)
    BY <1>6 DEF fiber_wait
  <2> QED BY <2>1, AddKeeps DEF EvInv
<1>7. ASSUME NEW f \in Fibers, NEW n \in 1 .. MaxDelay,
             \/ acl_fiber_delay(f, n) \/ acl_fiber_create_timer(f, n)
             \/ acl_fiber_reset_timer(f, n)
      PROVE  EvInv'
  <2>1. ev' = ev
    BY <1>7 DEF acl_fiber_delay, acl_fiber_create_timer, acl_fiber_reset_timer
  <2> QED BY <1>0, <2>1
<1>8. ASSUME NEW f \in Fibers, NEW g \in Fibers, NEW sig \in Signals, Signal(f, g, sig)
      PROVE  EvInv'
  <2>1. ev' = ev
    BY <1>8 DEF Signal, ioVars
  <2> QED BY <1>0, <2>1
<1> QED BY <1>1, <1>2, <1>3, <1>4, <1>5, <1>6, <1>7, <1>8 DEF IoNext

(* The deferred deletions and the pointers into them always agree, also    *)
(* when programs wake, close or reset under a fiber that waits.            *)
THEOREM DefersSafe == IoSpec => []DefersExact
<1>1. EvInv => DefersExact
  BY DEF EvInv, Exact, Paired, DefersExact
<1> QED BY <1>1, InitEvInv, NextEvInv, PTL DEF IoSpec

-----------------------------------------------------------------------------
(* Sleeping: a fiber is linked behind any entry of the ring of sleepers.   *)

(* Inserting a detached entry behind a head or an entry of its ring keeps  *)
(* the rings in order.                                                     *)
LEMMA InsertKeeps ==
  ASSUME NEW m, Rings(m), NEW h \in Heads, NEW a \in Fibers \cup Heads, m.parent[a] = h,
         NEW e \in Fibers, m.parent[e] = e,
         NEW p, p = acl_ring_append(m, a, e)
  PROVE  Rings(p) /\ p.parent = [m.parent EXCEPT ![e] = h]
<1> DEFINE N == Fibers \cup Heads
<1>0. /\ m.succ \in [N -> N] /\ m.pred \in [N -> N] /\ m.parent \in [N -> N]
      /\ m.len \in [N -> Int]
      /\ \A n \in N : m.succ[m.pred[n]] = n /\ m.pred[m.succ[n]] = n
      /\ \A n \in N : m.parent[m.succ[n]] = m.parent[n]
      /\ \A g \in Heads : m.parent[g] = g
      /\ \A d \in Fibers : m.parent[d] \in Heads \/ (m.parent[d] = d /\ m.succ[d] = d)
  BY DEF Rings, RingType, WellLinked
<1>1. /\ e # h /\ e # a /\ e \in N /\ h \in N /\ a \in N /\ m.succ[e] = e /\ m.pred[e] = e
      /\ m.succ[a] \in N /\ m.succ[a] # e /\ m.parent[m.succ[a]] = h
  BY <1>0, HeadsFacts
<1>2. /\ p.succ = [m.succ EXCEPT ![e] = m.succ[a], ![a] = e]
      /\ p.pred = [m.pred EXCEPT ![e] = a, ![m.succ[a]] = e]
      /\ p.parent = [m.parent EXCEPT ![e] = h]
      /\ p.len = [m.len EXCEPT ![h] = m.len[h] + 1]
  BY <1>0, <1>1 DEF acl_ring_append
<1>3. RingType(p, Fibers, Heads)
  <2> HIDE DEF N
  <2>0. /\ e \in N /\ a \in N /\ h \in N /\ m.succ[a] \in N
        /\ m.succ \in [N -> N] /\ m.pred \in [N -> N] /\ m.parent \in [N -> N]
        /\ m.len \in [N -> Int]
    BY <1>0, <1>1
  <2>a. p.succ \in [N -> N] /\ p.pred \in [N -> N]
    BY <1>2, <2>0
  <2>b. p.parent \in [N -> N] /\ p.len \in [N -> Int]
    BY <1>2, <2>0
  <2>1. /\ p.succ \in [N -> N] /\ p.pred \in [N -> N] /\ p.parent \in [N -> N]
        /\ p.len \in [N -> Int]
    BY <2>a, <2>b
  <2> USE DEF N
  <2>2. p = [succ |-> p.succ, pred |-> p.pred, parent |-> p.parent, len |-> p.len]
    BY DEF acl_ring_append
  <2> QED BY <2>1, <2>2 DEF RingType
<1> HIDE DEF N
<1>4. ASSUME NEW n \in N PROVE p.succ[p.pred[n]] = n /\ p.pred[p.succ[n]] = n
  <2>1. /\ m.succ[m.pred[n]] = n /\ m.pred[m.succ[n]] = n
        /\ m.succ[n] \in N /\ m.pred[n] \in N
    BY <1>0
  <2>2. p.succ[p.pred[n]] = n
    BY <1>0, <1>1, <1>2, <2>1
  <2>3. p.pred[p.succ[n]] = n
    BY <1>0, <1>1, <1>2, <2>1
  <2> QED BY <2>2, <2>3
<1>5. ASSUME NEW n \in N PROVE p.parent[p.succ[n]] = p.parent[n]
  <2>1. m.parent[m.succ[n]] = m.parent[n] /\ m.pred[m.succ[n]] = n /\ m.succ[n] \in N
    BY <1>0
  <2> QED BY <1>0, <1>1, <1>2, <2>1
<1>6. \A g \in Heads : p.parent[g] = g
  BY <1>0, <1>2, HeadsFacts DEF N
<1>7. ASSUME NEW d \in Fibers
      PROVE  p.parent[d] \in Heads \/ (p.parent[d] = d /\ p.succ[d] = d)
  BY <1>0, <1>1, <1>2, HeadsFacts DEF N
<1> QED BY <1>2, <1>3, <1>4, <1>5, <1>6, <1>7 DEF Rings, WellLinked, N

(* Every entry one meets on a walk is linked in that ring.                 *)
LEMMA WalkParent ==
  ASSUME NEW m, Rings(m), NEW h \in Heads, NEW k \in 1 .. m.len[h]
  PROVE  Walk(m, h)[k] \in Fibers \cup Heads /\ m.parent[Walk(m, h)[k]] = h
<1> DEFINE N == Fibers \cup Heads
<1>0. /\ m.succ \in [N -> N] /\ m.len \in [N -> Int] /\ h \in N
      /\ \A n \in N : m.parent[m.succ[n]] = m.parent[n]
      /\ m.parent[h] = h
  BY DEF Rings, RingType, WellLinked
<1>1. PICK n \in Nat : n = m.len[h]
  BY <1>0
<1> DEFINE IsNode(f) == f = [i \in 0 .. n |-> IF i = 0 THEN h ELSE m.succ[f[i - 1]]]
           step == [i \in 1 .. n |-> [x \in N |-> m.succ[x]]]
<1>2. step \in [1 .. n -> [N -> N]]
  BY <1>0
<1>3. PICK f \in [0 .. n -> N] : f[0] = h /\ \A i \in 1 .. n : f[i] = step[i][f[i - 1]]
  <2>1. PICK T, g, first : T = N /\ g = step /\ first = h
    OBVIOUS
  <2>2. n \in Nat /\ first \in T /\ g \in [1 .. n -> [T -> T]]
    BY <1>0, <1>2, <2>1
  <2>3. \E f \in [0 .. n -> T] : f[0] = first /\ \A i \in 1 .. n : f[i] = g[i][f[i - 1]]
    BY ONLY <2>2, Repeats
  <2> HIDE DEF step, N
  <2> QED BY <2>1, <2>3
<1>4. ASSUME NEW i \in 1 .. n PROVE f[i] = m.succ[f[i - 1]]
  <2>1. f[i - 1] \in N
    BY <1>3
  <2> QED BY <2>1, <1>3
<1>5. IsNode(f)
  BY <1>3, <1>4
<1>6. PICK node : node = (CHOOSE g : IsNode(g))
  OBVIOUS
<1>7. IsNode(node)
  BY <1>5, <1>6
<1>8. Walk(m, h) = [i \in 1 .. n |-> node[i]]
  BY <1>1, <1>6 DEF Walk
<1>9. node[0] = h /\ \A i \in 1 .. n : node[i] = m.succ[node[i - 1]]
  <2>1. 0 \in 0 .. n /\ \A i \in 1 .. n : i \in 0 .. n /\ i # 0
    OBVIOUS
  <2> QED BY <1>7, <2>1
<1>10. PICK S : S = {x \in N : m.parent[x] = h}
  OBVIOUS
<1>11. node[0] \in S /\ \A i \in 1 .. n : node[i - 1] \in S => node[i] \in S
  BY <1>0, <1>9, <1>10
<1>12. \A i \in 0 .. n : node[i] \in S
  <2> HIDE DEF IsNode, N
  <2> QED BY <1>11, HoldsThroughout
<1>13. k \in 0 .. n /\ k \in 1 .. n
  BY <1>1
<1> QED BY <1>8, <1>10, <1>12, <1>13

(* acl_fiber_delay finds a place in the ring of sleepers.                  *)
LEMMA SleepPlace ==
  ASSUME Rings(ring), NEW n,
         NEW a, a = SleepAfter(n)
  PROVE  a \in Fibers \cup Heads /\ ring.parent[a] = Timer
<1>0. Timer \in Heads /\ ring.parent[Timer] = Timer /\ ring.len[Timer] \in Int
  BY IoAssumption, HeadsFacts DEF Rings, RingType, WellLinked
<1>1. PICK q : q = Walk(ring, Timer)
  OBVIOUS
<1>2. PICK k : k = ring.len[Timer]
  OBVIOUS
<1>3. DOMAIN q = 1 .. k /\ k \in Int
  BY <1>0, <1>1, <1>2 DEF Walk
<1>4. PICK earlier : earlier = {i \in 1 .. k : left[q[i]] <= n}
  OBVIOUS
<1>5. a = IF earlier = {} THEN Timer ELSE q[CHOOSE i \in earlier : \A j \in earlier : j <= i]
  BY <1>1, <1>3, <1>4 DEF SleepAfter
<1>6. CASE earlier = {}
  BY <1>0, <1>5, <1>6
<1>7. CASE earlier # {}
  <2>1. PICK T : T = {k - i : i \in earlier}
    OBVIOUS
  <2>2. T \in SUBSET Nat /\ T # {}
    BY <1>3, <1>4, <1>7, <2>1
  <2>3. PICK x \in T : \A y \in T : ~(y < x)
    BY <2>2, LeastElement
  <2>4. PICK z \in earlier : x = k - z
    BY <2>1, <2>3
  <2>5. \A j \in earlier : j <= z
    BY <1>3, <1>4, <2>1, <2>3, <2>4
  <2>6. PICK l : l = (CHOOSE i \in earlier : \A j \in earlier : j <= i)
    OBVIOUS
  <2>7. l \in earlier
    BY <2>4, <2>5, <2>6
  <2>8. l \in 1 .. ring.len[Timer]
    BY <1>2, <1>4, <2>7
  <2>9. a = Walk(ring, Timer)[l]
    BY <1>1, <1>5, <1>7, <2>6
  <2> QED BY <1>0, <2>8, <2>9, WalkParent
<1> QED BY <1>6, <1>7

(* The first sleeper leaves for the ready ring.                            *)
LEMMA WakeSleeper ==
  ASSUME NEW m, Rings(m), NEW w \in WaitRings, ~NoEntry(m, w),
         NEW g, g = First(m, w), status[g] = "ready",
         NEW r, r = ReadyFirst(m, w)
  PROVE  g \in Fibers /\ m.parent[g] = w /\ Rings(r)
         /\ r.parent = [m.parent EXCEPT ![g] = Ready]
<1>1. w \in Heads /\ g \in Fibers /\ m.parent[g] = w
  BY FirstIsEntry, HeadsFacts DEF Rings
<1>2. PICK d : d = acl_ring_detach(m, g)
  OBVIOUS
<1>3. Rings(d) /\ d.parent = [m.parent EXCEPT ![g] = g]
  BY <1>1, <1>2, DetachKeeps, HeadsFacts DEF Rings
<1>4. d.parent[g] = g
  BY <1>1, <1>3 DEF Rings, RingType
<1>5. r = acl_fiber_ready(d, g)
  BY <1>2 DEF ReadyFirst
<1>6. Rings(r) /\ r.parent = [d.parent EXCEPT ![g] = Ready]
  <2>1. /\ Rings(acl_fiber_ready(d, g))
        /\ acl_fiber_ready(d, g).parent = [d.parent EXCEPT ![g] = Ready]
    BY <1>1, <1>3, <1>4, ReadyKeeps
  <2> QED BY <1>5, <2>1
<1>7. [d.parent EXCEPT ![g] = Ready] = [m.parent EXCEPT ![g] = Ready]
  BY <1>1, <1>3 DEF Rings, RingType
<1> QED BY <1>1, <1>6, <1>7

-----------------------------------------------------------------------------
(* What the table of events says of the fibers, while programs are         *)
(* careful: each registered event belongs to the fiber that is suspended   *)
(* in a wait for it.                                                       *)

Waits == {NoWait, Sleep} \cup (Fds \X Dirs)

Matched ==
  \A fd \in Fds, d \in Dirs, f \in Fibers :
    (Registered(ev, fd, d) /\ ev.ctx[fd][d] = f) <=> (inside[f] = <<fd, d>> /\ Suspended(f))

Owned == \A fd \in Fds, d \in Dirs : Registered(ev, fd, d) => ev.ctx[fd][d] \in Fibers

IoInv ==
  /\ IInv /\ EvInv
  /\ inside \in [Fibers -> Waits]
  /\ Matched /\ Owned

LEMMA WaitsDiffer ==
  \A fd \in Fds, d \in Dirs : <<fd, d>> # NoWait /\ <<fd, d>> # Sleep
BY DEF NoWait, Sleep

(* What no step but those that register or close, or the callbacks, does:  *)
(* end or begin a wait for a descriptor.                                   *)
Undisturbed(f) ==
  \/ inside'[f] = inside[f] /\ (Suspended(f)' <=> Suspended(f))
  \/ ~(Watching(f) /\ Suspended(f)) /\ ~(Watching(f)' /\ Suspended(f)')

LEMMA UndisturbedKeeps ==
  ASSUME Matched, Owned, ev' = ev, \A f \in Fibers : Undisturbed(f)
  PROVE  Matched' /\ Owned'
<1>1. ASSUME NEW fd \in Fds, NEW d \in Dirs, NEW f \in Fibers
      PROVE  (inside[f] = <<fd, d>> /\ Suspended(f))
               <=> (inside'[f] = <<fd, d>> /\ Suspended(f)')
  <2>1. (inside[f] = <<fd, d>> => Watching(f)) /\ (inside'[f] = <<fd, d>> => Watching(f)')
    BY DEF Watching
  <2> HIDE DEF Suspended, Watching
  <2> QED BY <2>1 DEF Undisturbed
<1>2. Matched'
  BY <1>1 DEF Matched, Registered
<1>3. Owned'
  BY DEF Owned, Registered
<1> QED BY <1>2, <1>3

(* A signal ends no wait but that of the fiber it is sent to.              *)
LEMMA SignalSuspends ==
  ASSUME IInv, NEW g \in Fibers, NEW h \in Fibers, NEW sig \in Signals,
         acl_fiber_signal(g, h, sig), NEW f \in Fibers, f # h
  PROVE  Suspended(f)' <=> Suspended(f)
<1> DEFINE m0 == acl_ring_detach(ring, g)
           m1 == acl_ring_detach(m0, h)
           m2 == acl_ring_append(m1, Ready, g)
           m3 == acl_ring_append(m2, Ready, h)
<1>1. Rings(ring) /\ ring.parent[g] = g /\ running = g /\ status' = status
  BY RunningFiber DEF acl_fiber_signal
<1>2. CASE g = h
  BY <1>2 DEF acl_fiber_signal, Suspended, Alive, Linked
<1>3. CASE g # h
  <2>0. m0 = ring
    BY <1>1 DEF acl_ring_detach
  <2>1. acl_fiber_switch(m3) /\ m1 = acl_ring_detach(ring, h)
    BY <1>3, <2>0 DEF acl_fiber_signal
  <2> HIDE DEF m0, m1
  <2>2. Rings(m1) /\ m1.parent = [ring.parent EXCEPT ![h] = h]
    BY <1>1, <2>1, DetachKeeps, HeadsFacts DEF Rings
  <2>3. RingType(m1, Fibers, Heads) /\ WellLinked(m1, Fibers, Heads) /\ m1.parent[g] = g
    BY <1>1, <2>2 DEF Rings, RingType
  <2>4. Rings(m2) /\ m2.parent = [m1.parent EXCEPT ![g] = Ready]
    <3>1. LET p == acl_ring_append(m1, Ready, g)
          IN  /\ RingType(p, Fibers, Heads) /\ WellLinked(p, Fibers, Heads)
              /\ p.parent = [m1.parent EXCEPT ![g] = Ready]
      BY <2>3, AppendKeeps, HeadsFacts
    <3> QED BY <3>1 DEF Rings
  <2> HIDE DEF m2
  <2>5. RingType(m2, Fibers, Heads) /\ WellLinked(m2, Fibers, Heads) /\ m2.parent[h] = h
    BY <1>1, <1>3, <2>2, <2>4 DEF Rings, RingType
  <2>6. Rings(m3) /\ m3.parent = [m2.parent EXCEPT ![h] = Ready]
    <3>1. LET p == acl_ring_append(m2, Ready, h)
          IN  /\ RingType(p, Fibers, Heads) /\ WellLinked(p, Fibers, Heads)
              /\ p.parent = [m2.parent EXCEPT ![h] = Ready]
      BY <2>5, AppendKeeps, HeadsFacts
    <3> QED BY <3>1 DEF Rings
  <2> HIDE DEF m3
  <2>7. m3.parent[f] = IF f = g THEN Ready ELSE ring.parent[f]
    BY <1>1, <2>2, <2>4, <2>6 DEF Rings, RingType
  <2>8. Suspended(f)' <=> Alive(f) /\ m3.parent[f] = f
    BY <1>1, <2>1, <2>6, HandOverSuspends
  <2> QED BY <1>1, <2>7, <2>8, HeadsFacts DEF Suspended, Linked
<1> QED BY <1>2, <1>3

(* Falling asleep: the fiber is in the ring of sleepers, not suspended.    *)
LEMMA DelayKeeps ==
  ASSUME IoInv, NEW f \in Fibers, NEW n, acl_fiber_delay(f, n)
  PROVE  IoInv'
<1>1. PICK a : a = SleepAfter(n)
  OBVIOUS
<1>2. PICK m : m = acl_ring_append(ring, a, f)
  OBVIOUS
<1>3. /\ running = f /\ acl_fiber_switch(m)
      /\ inside' = [inside EXCEPT ![f] = Sleep] /\ inside[f] = NoWait
      /\ ev' = ev /\ UNCHANGED <<status, killed, signum, fibers, slot, scheduled>>
  BY <1>1, <1>2 DEF acl_fiber_delay, Runs
<1>4. IInv /\ Rings(ring) /\ status[f] = "ready" /\ ring.parent[f] = f
  BY <1>3, RunningFiber DEF IoInv
<1>5. a \in Fibers \cup Heads /\ ring.parent[a] = Timer /\ Timer \in Heads
      /\ Timer # Dead /\ Timer # f
  BY <1>1, <1>4, SleepPlace, IoAssumption, HeadsFacts
<1>6. Rings(m) /\ m.parent = [ring.parent EXCEPT ![f] = Timer]
  BY <1>2, <1>4, <1>5, InsertKeeps
<1>7. ring.parent \in [Fibers \cup Heads -> Fibers \cup Heads]
  BY <1>4 DEF Rings, RingType
<1>8. IInv'
  <2>1. \A h \in Fibers : \/ m.parent[h] = ring.parent[h]
                          \/ status[h] = "ready" /\ m.parent[h] # Dead
    BY <1>4, <1>5, <1>6, <1>7
  <2>2. killed' \in [Fibers -> BOOLEAN] /\ signum' \in [Fibers -> Signals \cup {NoSignal}]
    BY <1>3, <1>4 DEF IInv, TypeOK
  <2> QED BY <1>3, <1>4, <1>6, <2>1, <2>2, SwitchStep
<1>9. ASSUME NEW h \in Fibers PROVE Undisturbed(h)
  <2>1. Suspended(h)' <=> Alive(h) /\ m.parent[h] = h
    BY <1>3, <1>6, HandOverSuspends
  <2>2. CASE h = f
    <3>1. ~Suspended(h) /\ ~Suspended(h)'
      BY <1>3, <1>5, <1>6, <1>7, <2>1, <2>2 DEF Suspended
    <3> QED BY <3>1 DEF Undisturbed
  <2>3. CASE h # f
    <3>1. Suspended(h)' <=> Suspended(h)
      BY <1>3, <1>6, <1>7, <2>1, <2>3 DEF Suspended, Linked
    <3>2. inside'[h] = inside[h]
      BY <1>3, <2>3 DEF IoInv
    <3> QED BY <3>1, <3>2 DEF Undisturbed
  <2> QED BY <2>2, <2>3
<1>10. Matched' /\ Owned'
  BY <1>3, <1>9, UndisturbedKeeps DEF IoInv
<1>11. inside' \in [Fibers -> Waits] /\ EvInv'
  BY <1>3 DEF IoInv, Waits, EvInv
<1> QED BY <1>8, <1>10, <1>11 DEF IoInv

(* A step of the scheduler alone that disturbs no suspended fiber.         *)
LEMMA QuietStep ==
  ASSUME IoInv, IInv', ev' = ev, inside' = inside,
         \A f \in Fibers : Suspended(f)' <=> Suspended(f)
  PROVE  IoInv'
<1>1. \A f \in Fibers : Undisturbed(f)
  BY DEF Undisturbed
<1>2. Matched' /\ Owned'
  BY <1>1, UndisturbedKeeps DEF IoInv
<1> QED BY <1>2 DEF IoInv, EvInv

(* The thread starts with the polling fiber ready.                         *)
LEMMA InitIoInv == IoInit => IoInv
<1> SUFFICES ASSUME IoInit PROVE IoInv
  OBVIOUS
<1>0. /\ Fibers \cap Heads = {} /\ Ready \in Heads /\ Dead \in Heads /\ Ready # Dead
      /\ Original \notin Fibers /\ Io \in Fibers /\ NoFiber \notin Fibers
      /\ NoSignal \notin Signals
  BY HeadsFacts, IoAssumption, ConstantsAssumption
<1>1. PICK m : m = acl_ring_init(Nodes)
  OBVIOUS
<1>2. Rings(m) /\ m.parent = [n \in Fibers \cup Heads |-> n]
  BY <1>1 DEF Rings, RingType, WellLinked, acl_ring_init, Nodes
<1>3. ring = acl_ring_prepend(m, Ready, Io)
  BY <1>1 DEF IoInit
<1>4. Rings(ring) /\ ring.parent = [m.parent EXCEPT ![Io] = Ready]
  <2>1. RingType(m, Fibers, Heads) /\ WellLinked(m, Fibers, Heads) /\ m.parent[Io] = Io
    BY <1>0, <1>2 DEF Rings
  <2>2. LET p == acl_ring_prepend(m, Ready, Io)
        IN  /\ RingType(p, Fibers, Heads) /\ WellLinked(p, Fibers, Heads)
            /\ p.parent = [m.parent EXCEPT ![Io] = Ready]
    BY <1>0, <2>1, PrependKeeps
  <2> QED BY <1>3, <2>2 DEF Rings
<1>5. /\ running = Original /\ scheduled = FALSE
      /\ status = [f \in Fibers |-> IF f = Io THEN "ready" ELSE "free"]
      /\ killed = [f \in Fibers |-> FALSE] /\ signum = [f \in Fibers |-> NoSignal]
      /\ fibers = <<Io>> /\ slot = [f \in Fibers |-> IF f = Io THEN 1 ELSE 0]
      /\ inside = [f \in Fibers |-> NoWait]
  BY DEF IoInit
<1>6. fibers \in Seq(Fibers) /\ Len(fibers) = 1 /\ fibers[1] = Io
  BY <1>0, <1>5
<1>7. TypeOK
  BY <1>4, <1>5, <1>6 DEF TypeOK, Rings
<1>8. RingsWellFormed
  BY <1>4 DEF RingsWellFormed, Rings
<1>9. RingsMatchStatus
  BY <1>0, <1>2, <1>4, <1>5 DEF RingsMatchStatus, Alive, Linked
<1>10. TableExact
  BY <1>0, <1>5, <1>6 DEF TableExact, Alive
<1>11. inside \in [Fibers -> Waits] /\ \A f \in Fibers : inside[f] = NoWait
  BY <1>5 DEF Waits
<1>12. EvInv
  BY InitEvInv
<1>13. \A fd \in Fds, d \in Dirs : ~Registered(ev, fd, d)
  BY DEF IoInit, NoEvents, Registered
<1>14. Matched /\ Owned
  BY <1>11, <1>13, WaitsDiffer DEF Matched, Owned
<1> QED BY <1>7, <1>8, <1>9, <1>10, <1>11, <1>12, <1>14 DEF IoInv, IInv

(* A wait for a descriptor: the event that is registered is its own.       *)
LEMMA WaitKeeps ==
  ASSUME IoInv, Careful, NEW f \in Fibers, NEW fd \in Fds, NEW d \in Dirs,
         fiber_wait(f, fd, d)
  PROVE  IoInv'
<1>1. /\ running = f /\ inside[f] = NoWait /\ \A g \in Fibers : inside[g] # <<fd, d>>
      /\ ev' = event_add(ev, fd, d, f) /\ inside' = [inside EXCEPT ![f] = <<fd, d>>]
      /\ Suspend(f)
  BY DEF fiber_wait, Runs, Suspend
<1>2. IInv /\ IInv'
  BY <1>1, SuspendKeeps DEF IoInv
<1>3. \A g \in Fibers : Suspended(g)' <=> Suspended(g) \/ g = f
  BY <1>1, <1>2, SuspendSuspends
<1>4. PICK e : e = ev'
  OBVIOUS
<1>5. /\ e \in Events /\ Exact(e) /\ e.kernel = e.mask
      /\ Registered(e, fd, d) /\ e.ctx[fd][d] = f
      /\ \A g \in Fds, c \in Dirs : g # fd \/ c # d =>
           /\ Registered(e, g, c) <=> Registered(ev, g, c)
           /\ e.ctx[g][c] = ev.ctx[g][c]
  BY <1>1, <1>4, AddKeeps DEF IoInv, EvInv
<1>6. \A g \in Fibers : inside'[g] = IF g = f THEN <<fd, d>> ELSE inside[g]
  BY <1>1 DEF IoInv
<1>7. ASSUME NEW g \in Fds, NEW c \in Dirs, NEW h \in Fibers
      PROVE  (Registered(e, g, c) /\ e.ctx[g][c] = h)
               <=> (inside'[h] = <<g, c>> /\ Suspended(h)')
  <2>0. (Registered(ev, g, c) /\ ev.ctx[g][c] = h) <=> (inside[h] = <<g, c>> /\ Suspended(h))
    BY DEF IoInv, Matched
  <2>1. ~Suspended(f) /\ inside[f] # <<g, c>>
    BY <1>1, WaitsDiffer DEF Suspended
  <2>2. CASE g = fd /\ c = d
    BY <1>1, <1>3, <1>5, <1>6, <2>2
  <2>3. CASE g # fd \/ c # d
    BY <1>3, <1>5, <1>6, <2>0, <2>1, <2>3
  <2> QED BY <2>2, <2>3
<1>8. Matched'
  BY <1>4, <1>7 DEF Matched, Registered
<1>9. Owned'
  <2>1. ASSUME NEW g \in Fds, NEW c \in Dirs, Registered(e, g, c) PROVE e.ctx[g][c] \in Fibers
    BY <1>5, <2>1 DEF IoInv, Owned
  <2> QED BY <1>4, <2>1 DEF Owned, Registered
<1>10. inside' \in [Fibers -> Waits]
  BY <1>1 DEF IoInv, Waits
<1> QED BY <1>2, <1>4, <1>5, <1>8, <1>9, <1>10 DEF IoInv, EvInv

(* A descriptor that is closed, with nobody waiting for it.                *)
LEMMA CloseStep ==
  ASSUME IoInv, Careful, NEW f \in Fibers, NEW fd \in Fds, fiber_io_close(f, fd)
  PROVE  IoInv'
<1>1. /\ \A g \in Fibers, d \in Dirs : inside[g] # <<fd, d>>
      /\ ev' = event_error_del(ev, fd) /\ inside' = inside /\ UNCHANGED schedVars
  BY DEF fiber_io_close
<1>2. IInv'
  BY <1>1, NextIInv DEF IoInv
<1>3. \A g \in Fibers : Suspended(g)' <=> Suspended(g)
  BY <1>1 DEF schedVars, Suspended, Alive, Linked
<1>4. PICK e : e = ev'
  OBVIOUS
<1>5. /\ e \in Events /\ Exact(e) /\ e.kernel = e.mask
      /\ \A d \in Dirs : ~Registered(e, fd, d)
      /\ \A g \in Fds, c \in Dirs : g # fd =>
           /\ Registered(e, g, c) <=> Registered(ev, g, c)
           /\ e.ctx[g][c] = ev.ctx[g][c]
  BY <1>1, <1>4, CloseKeeps DEF IoInv, EvInv
<1>6. ASSUME NEW g \in Fds, NEW c \in Dirs, NEW h \in Fibers
      PROVE  (Registered(e, g, c) /\ e.ctx[g][c] = h)
               <=> (inside'[h] = <<g, c>> /\ Suspended(h)')
  <2>0. (Registered(ev, g, c) /\ ev.ctx[g][c] = h) <=> (inside[h] = <<g, c>> /\ Suspended(h))
    BY DEF IoInv, Matched
  <2> QED BY <1>1, <1>3, <1>5, <2>0
<1>7. Matched'
  BY <1>4, <1>6 DEF Matched, Registered
<1>8. Owned'
  <2>1. ASSUME NEW g \in Fds, NEW c \in Dirs, Registered(e, g, c) PROVE e.ctx[g][c] \in Fibers
    BY <1>5, <2>1 DEF IoInv, Owned
  <2> QED BY <1>4, <2>1 DEF Owned, Registered
<1> QED BY <1>1, <1>2, <1>4, <1>5, <1>7, <1>8 DEF IoInv, EvInv

(* A pass of the polling fiber: the events that fire lose their fibers to  *)
(* the ready ring, and the others keep theirs.                             *)
LEMMA PassKeeps ==
  ASSUME IoInv, NEW fired, fired \subseteq Watched, NEW elapsed, IoPass(fired, elapsed)
  PROVE  IoInv'
<1>0. /\ Timer \in WaitRings /\ Timer # Ready /\ Timer # Dead /\ Ready # Dead
      /\ Timer \notin Fibers /\ Ready \notin Fibers /\ Dead \notin Fibers
  BY IoAssumption, HeadsFacts
<1>1. PICK s, m : /\ s \in Orders(fired)
                  /\ ev' = DeferAll(RemoveDeferred(ev), s)
                  /\ m = ReadyAll(ring, ev, s)
                  /\ ring' = IF ~io_stop /\ Due(elapsed) THEN ReadyFirst(m, Timer) ELSE m
  BY DEF IoPass
<1>2. /\ UNCHANGED <<running, status, killed, signum, fibers, slot, scheduled>>
      /\ inside' = inside
  BY DEF IoPass
<1>3. /\ IInv /\ Rings(ring) /\ ring.parent \in [Fibers \cup Heads -> Fibers \cup Heads]
      /\ \A f \in Fibers : status[f] = "exiting" <=> ring.parent[f] = Dead
      /\ \A f \in Fibers : status[f] = "free" => ring.parent[f] = f
      /\ \A f \in Fibers : status[f] \in {"free", "ready", "exiting"}
  BY DEF IoInv, IInv, TypeOK, RingsWellFormed, RingsMatchStatus, Rings, RingType, Linked
<1>4. Firing(ev, s)
  BY <1>1, OrderFires DEF IoInv
<1>5. PICK n \in Nat : n = Len(s)
  BY <1>4 DEF Firing
<1>6. PICK who : who = Woken(ev, s)
  OBVIOUS
<1>7. ASSUME NEW i \in 1 .. n
      PROVE  /\ s[i][1] \in Fds /\ s[i][2] \in Dirs /\ s[i] = <<s[i][1], s[i][2]>>
             /\ Registered(ev, s[i][1], s[i][2])
             /\ who[i] = ev.ctx[s[i][1]][s[i][2]] /\ who[i] \in Fibers
             /\ inside[who[i]] = s[i] /\ Suspended(who[i])
  <2>1. /\ s[i][1] \in Fds /\ s[i][2] \in Dirs /\ s[i] = <<s[i][1], s[i][2]>>
        /\ Registered(ev, s[i][1], s[i][2])
    BY <1>4, <1>5 DEF Firing
  <2>2. who[i] = ev.ctx[s[i][1]][s[i][2]]
    BY <1>5, <1>6 DEF Woken
  <2>3. who[i] \in Fibers
    BY <2>1, <2>2 DEF IoInv, Owned
  <2> QED BY <2>1, <2>2, <2>3 DEF IoInv, Matched
<1>8. who \in Seq(Fibers) /\ Len(who) = n
  <2>1. who = [i \in 1 .. n |-> who[i]]
    BY <1>5, <1>6 DEF Woken
  <2> QED BY <1>7, <2>1
<1>9. Loose(ring, who)
  <2>1. ASSUME NEW i \in 1 .. n, NEW j \in 1 .. n, who[i] = who[j] PROVE i = j
    <3>1. s[i] = s[j]
      BY <1>7, <2>1
    <3> QED BY <1>4, <1>5, <3>1 DEF Firing
  <2>2. ASSUME NEW i \in 1 .. n PROVE status[who[i]] = "ready" /\ ring.parent[who[i]] = who[i]
    BY <1>7 DEF Suspended, Alive, Linked
  <2> QED BY <1>8, <2>1, <2>2 DEF Loose
<1>10. Readied(ring, who, n, m)
  BY <1>1, <1>3, <1>5, <1>6, <1>9, ReadyAllKeeps
<1> DEFINE Named(f) == \E j \in 1 .. n : who[j] = f
<1>11. /\ Rings(m)
       /\ NoEntry(m, Timer) <=> NoEntry(ring, Timer)
       /\ \A f \in Fibers : m.parent[f] = IF Named(f) THEN Ready ELSE ring.parent[f]
  BY <1>0, <1>10 DEF Readied
<1>12. \A f \in Fibers : Named(f) => Suspended(f)
  BY <1>7
<1> HIDE DEF Named
<1>13. PICK Woke \in SUBSET Fibers :
         /\ \A f \in Woke : ring.parent[f] = Timer
         /\ Rings(ring')
         /\ \A f \in Fibers : ring'.parent[f] = IF Named(f) \/ f \in Woke THEN Ready
                                               ELSE ring.parent[f]
  <2>1. CASE ~io_stop /\ Due(elapsed)
    <3>1. PICK g : g = First(m, Timer)
      OBVIOUS
    <3>2. ~NoEntry(m, Timer) /\ ring' = ReadyFirst(m, Timer)
      BY <1>1, <1>11, <2>1 DEF Due
    <3>3. g \in Fibers /\ m.parent[g] = Timer
      BY <1>0, <1>11, <3>1, <3>2, FirstIsEntry, HeadsFacts DEF Rings
    <3>4. ring.parent[g] = Timer /\ status[g] = "ready"
      BY <1>0, <1>3, <1>11, <3>3
    <3>5. Rings(ring') /\ ring'.parent = [m.parent EXCEPT ![g] = Ready]
      BY <1>0, <1>11, <3>1, <3>2, <3>4, WakeSleeper
    <3>6. m.parent \in [Fibers \cup Heads -> Fibers \cup Heads]
      BY <1>11 DEF Rings, RingType
    <3>7. \A f \in Fibers : ring'.parent[f] = IF Named(f) \/ f \in {g} THEN Ready
                                              ELSE ring.parent[f]
      BY <1>11, <3>5, <3>6
    <3>8. {g} \in SUBSET Fibers
      BY <3>3
    <3> USE <3>8
    <3> WITNESS {g} \in SUBSET Fibers
    <3> QED BY <3>3, <3>4, <3>5, <3>7
  <2>2. CASE ~(~io_stop /\ Due(elapsed))
    <3> WITNESS {} \in SUBSET Fibers
    <3> QED BY <1>1, <1>11, <2>2
  <2> QED BY <2>1, <2>2
<1>14. IInv'
  <2>1. ASSUME NEW f \in Fibers
        PROVE  /\ ring'.parent[f] = Dead <=> ring.parent[f] = Dead
               /\ status[f] = "free" => ring'.parent[f] = f
    <3>1. Named(f) => Alive(f) /\ ring.parent[f] = f
      BY <1>12 DEF Suspended, Linked
    <3>2. f \in Woke => ring.parent[f] = Timer
      BY <1>13
    <3> QED BY <1>0, <1>3, <1>13, <3>1, <3>2 DEF Alive
  <2>2. running' \in Fibers => status[running'] = "ready" /\ ring'.parent[running'] = running'
    <3> SUFFICES ASSUME running \in Fibers
                 PROVE  status[running] = "ready" /\ ring'.parent[running] = running
      BY <1>2
    <3>1. Alive(running) /\ ring.parent[running] = running
      BY <1>3 DEF IInv, RingsMatchStatus, Linked
    <3>2. ~Named(running)
      BY <1>12 DEF Suspended
    <3>3. running \notin Woke
      BY <1>0, <1>13, <3>1
    <3> QED BY <1>13, <3>1, <3>2, <3>3 DEF Alive
  <2>3. /\ running' \in Fibers \cup {Original} /\ scheduled' \in BOOLEAN
        /\ killed' \in [Fibers -> BOOLEAN] /\ signum' \in [Fibers -> Signals \cup {NoSignal}]
    BY <1>2, <1>3 DEF IInv, TypeOK
  <2> QED BY <1>2, <1>3, <1>13, <2>1, <2>2, <2>3, RingStep
<1>15. ASSUME NEW f \in Fibers PROVE Suspended(f)' <=> Suspended(f) /\ ~Named(f)
  <2>1. Suspended(f)' <=> Alive(f) /\ running # f /\ ring'.parent[f] = f
    BY <1>2 DEF Suspended, Alive, Linked
  <2>2. f \in Woke => ring.parent[f] = Timer
    BY <1>13
  <2>3. ring'.parent[f] = f <=> ring.parent[f] = f /\ ~Named(f)
    BY <1>0, <1>13, <2>2
  <2> QED BY <2>1, <2>3 DEF Suspended, Linked
<1>16. PICK e : e = ev'
  OBVIOUS
<1>17. /\ e \in Events /\ Exact(e) /\ e.kernel = e.mask
       /\ \A g \in Fds, c \in Dirs :
            /\ Registered(e, g, c)
                 <=> Registered(ev, g, c) /\ \A j \in 1 .. n : s[j] # <<g, c>>
            /\ Registered(ev, g, c) => e.ctx[g][c] = ev.ctx[g][c]
  <2>1. EvInv /\ s \in Orders(fired) /\ e = DeferAll(RemoveDeferred(ev), s)
    BY <1>1, <1>16 DEF IoInv
  <2>2. Passed(s, e)
    BY <2>1, PassEvents
  <2> QED BY <1>5, <2>2 DEF Passed
<1>18. ASSUME NEW g \in Fds, NEW c \in Dirs, NEW h \in Fibers
       PROVE  (Registered(e, g, c) /\ e.ctx[g][c] = h)
                <=> (inside'[h] = <<g, c>> /\ Suspended(h)')
  <2>0. (Registered(ev, g, c) /\ ev.ctx[g][c] = h) <=> (inside[h] = <<g, c>> /\ Suspended(h))
    BY DEF IoInv, Matched
  <2>1. inside[h] = <<g, c>> => (Named(h) => \E j \in 1 .. n : s[j] = <<g, c>>)
    BY <1>7 DEF Named
  <2>2. Registered(ev, g, c) /\ ev.ctx[g][c] = h =>
          ((\E j \in 1 .. n : s[j] = <<g, c>>) => Named(h))
    <3> SUFFICES ASSUME ev.ctx[g][c] = h, NEW j \in 1 .. n, s[j] = <<g, c>> PROVE Named(h)
      OBVIOUS
    <3>1. who[j] = h
      BY <1>7
    <3> QED BY <3>1 DEF Named
  <2>3. CASE \E j \in 1 .. n : s[j] = <<g, c>>
    <3>1. ~Registered(e, g, c)
      BY <1>17, <2>3
    <3> QED BY <1>2, <1>15, <2>0, <2>2, <2>3, <3>1
  <2>4. CASE ~\E j \in 1 .. n : s[j] = <<g, c>>
    <3>1. /\ Registered(e, g, c) <=> Registered(ev, g, c)
          /\ Registered(ev, g, c) => e.ctx[g][c] = ev.ctx[g][c]
      BY <1>17, <2>4
    <3>2. inside[h] = <<g, c>> => ~Named(h)
      BY <2>1, <2>4
    <3> QED BY <1>2, <1>15, <2>0, <3>1, <3>2
  <2> QED BY <2>3, <2>4
<1>19. Matched'
  BY <1>16, <1>18 DEF Matched, Registered
<1>20. Owned'
  <2>1. ASSUME NEW g \in Fds, NEW c \in Dirs, Registered(e, g, c) PROVE e.ctx[g][c] \in Fibers
    BY <1>17, <2>1 DEF IoInv, Owned
  <2> QED BY <1>16, <2>1 DEF Owned, Registered
<1> QED BY <1>2, <1>14, <1>16, <1>17, <1>19, <1>20 DEF IoInv, EvInv

(* The invariant is inductive for careful programs.                        *)
LEMMA NextIoInv == Careful /\ IoInv /\ [IoNext]_allVars => IoInv'
<1> SUFFICES ASSUME Careful, IoInv, [IoNext]_allVars PROVE IoInv'
  OBVIOUS
<1>0. IInv
  BY DEF IoInv
<1>a. ASSUME UNCHANGED <<schedVars, ev, inside>> PROVE IoInv'
  <2>1. IInv'
    BY <1>0, <1>a, NextIInv
  <2>2. \A f \in Fibers : Suspended(f)' <=> Suspended(f)
    BY <1>a DEF schedVars, Suspended, Alive, Linked
  <2> QED BY <1>a, <2>1, <2>2, QuietStep
<1>b. ASSUME NEW f \in Fibers, Create(f) \/ acl_fiber_yield(f) \/ fiber_exit(f),
             UNCHANGED <<ev, inside>>
      PROVE  IoInv'
  <2>1. IInv'
    BY <1>0, <1>b, CreateKeeps, YieldKeeps, ExitKeeps
  <2>2. \A g \in Fibers : Suspended(g)' <=> Suspended(g)
    BY <1>0, <1>b, CreateSuspends, YieldSuspends, ExitSuspends
  <2> QED BY <1>b, <2>1, <2>2, QuietStep
<1>1. CASE UNCHANGED allVars \/ Tick \/ acl_fiber_schedule_stop
  BY <1>a, <1>1 DEF allVars, ioVars, Tick, acl_fiber_schedule_stop
<1>2. CASE IoOtherStep
  <2>1. UNCHANGED <<ev, inside>>
    BY <1>2 DEF IoOtherStep, ioVars
  <2>2. CASE acl_fiber_schedule
    <3>1. IInv'
      BY <1>0, <2>2, ScheduleKeeps
    <3>2. \A g \in Fibers : Suspended(g)' <=> Suspended(g)
      BY <1>0, <2>2, ScheduleSuspends
    <3> QED BY <2>1, <3>1, <3>2, QuietStep
  <2>3. CASE \E f \in Fibers : Create(f) \/ acl_fiber_yield(f) \/ fiber_exit(f)
    BY <1>b, <2>1, <2>3
  <2> QED BY <1>2, <2>2, <2>3 DEF IoOtherStep
<1>3. CASE IoLoop
  <2>1. CASE IoYield \/ IoEnd
    BY <1>b, <2>1, IoAssumption DEF IoYield, IoEnd, ioVars
  <2>2. CASE \E fired \in SUBSET Watched, elapsed \in 0 .. MaxDelay : IoPass(fired, elapsed)
    BY <2>2, PassKeeps
  <2> QED BY <1>3, <2>1, <2>2 DEF IoLoop
<1>4. ASSUME NEW f \in Fibers, IoWaitReturn(f) PROVE IoInv'
  <2>1. /\ running = f /\ UNCHANGED <<schedVars, ev>>
        /\ inside' = [inside EXCEPT ![f] = NoWait]
    BY <1>4 DEF IoWaitReturn
  <2>2. IInv' /\ EvInv'
    BY <1>0, <2>1, NextIInv DEF IoInv, EvInv
  <2>3. ASSUME NEW g \in Fibers PROVE Undisturbed(g)
    <3>1. Suspended(g)' <=> Suspended(g)
      BY <2>1 DEF schedVars, Suspended, Alive, Linked
    <3>2. CASE g = f
      <4>1. ~Suspended(g)
        BY <2>1, <3>2 DEF Suspended
      <4> QED BY <3>1, <4>1 DEF Undisturbed
    <3>3. CASE g # f
      <4>1. inside'[g] = inside[g]
        BY <2>1, <3>3 DEF IoInv
      <4> QED BY <3>1, <4>1 DEF Undisturbed
    <3> QED BY <3>2, <3>3
  <2>4. Matched' /\ Owned'
    BY <2>1, <2>3, UndisturbedKeeps DEF IoInv
  <2>5. inside' \in [Fibers -> Waits]
    BY <2>1 DEF IoInv, Waits
  <2> QED BY <2>2, <2>4, <2>5 DEF IoInv
<1>5. ASSUME NEW f \in Fibers, fiber_timer_callback(f) PROVE IoInv'
  <2>1. CASE acl_fiber_delay(f, left[f])
    BY <2>1, DelayKeeps
  <2>2. CASE fiber_exit(f) /\ UNCHANGED <<ev, inside>>
    BY <1>b, <2>2
  <2> QED BY <1>5, <2>1, <2>2 DEF fiber_timer_callback
<1>6. ASSUME NEW f \in Fibers, NEW fd \in Fds, fiber_io_close(f, fd) PROVE IoInv'
  BY <1>6, CloseStep
<1>7. ASSUME NEW f \in Fibers, NEW fd \in Fds, NEW d \in Dirs, fiber_wait(f, fd, d)
      PROVE  IoInv'
  BY <1>7, WaitKeeps
<1>8. ASSUME NEW f \in Fibers, NEW n \in 1 .. MaxDelay,
             \/ acl_fiber_delay(f, n) \/ acl_fiber_create_timer(f, n)
             \/ acl_fiber_reset_timer(f, n)
      PROVE  IoInv'
  <2>1. CASE acl_fiber_delay(f, n)
    BY <2>1, DelayKeeps
  <2>2. CASE acl_fiber_create_timer(f, n)
    BY <1>b, <2>2 DEF acl_fiber_create_timer
  <2>3. CASE acl_fiber_reset_timer(f, n)
    BY <1>a, <2>3 DEF acl_fiber_reset_timer
  <2> QED BY <1>8, <2>1, <2>2, <2>3
<1>9. ASSUME NEW f \in Fibers, NEW g \in Fibers, NEW sig \in Signals, Signal(f, g, sig)
      PROVE  IoInv'
  <2>1. acl_fiber_signal(f, g, sig) /\ ~Watching(g) /\ ev' = ev /\ inside' = inside
    BY <1>9 DEF Signal, ioVars
  <2>2. IInv'
    BY <1>0, <2>1, SignalKeeps
  <2>3. ASSUME NEW h \in Fibers PROVE Undisturbed(h)
    <3>1. CASE h = g
      <4>1. ~Watching(h) /\ ~Watching(h)'
        BY <2>1, <3>1 DEF Watching
      <4> QED BY <4>1 DEF Undisturbed
    <3>2. CASE h # g
      <4>1. Suspended(h)' <=> Suspended(h)
        BY <1>0, <2>1, <3>2, SignalSuspends
      <4> QED BY <2>1, <4>1 DEF Undisturbed
    <3> QED BY <3>1, <3>2
  <2>4. Matched' /\ Owned'
    BY <2>1, <2>3, UndisturbedKeeps DEF IoInv
  <2> QED BY <2>1, <2>2, <2>4 DEF IoInv, EvInv
<1> QED BY <1>1, <1>2, <1>3, <1>4, <1>5, <1>6, <1>7, <1>8, <1>9 DEF IoNext

(* While programs neither wake, close nor reset under a fiber that waits,  *)
(* the rings are well formed and every event that is registered is that of *)
(* the fiber that is suspended in a wait for it.                           *)
THEOREM IoSafe == IoSpec => [](Careful => IoInv)
<1> DEFINE Inv == Careful => IoInv
<1>1. IoInit => Inv
  BY InitIoInv
<1>2. Inv /\ [IoNext]_allVars => Inv'
  BY NextIoInv
<1> QED BY <1>1, <1>2, PTL DEF IoSpec

(* Then epoll is told to watch what the masks say, and every event that is *)
(* registered has its fiber in no ring, for the callback to link.          *)
THEOREM WatchedSafe == IoSpec => [](Careful => WatchedExactly)
<1>1. (Careful => IoInv) => (Careful => WatchedExactly)
  BY DEF IoInv, EvInv, Matched, Registered, WatchedExactly
<1> QED BY <1>1, IoSafe, PTL

=============================================================================
