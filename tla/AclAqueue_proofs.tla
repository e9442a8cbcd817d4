--------------------------- MODULE AclAqueue_proofs ---------------------------
(***************************************************************************)
(* Proofs about AclAqueue: the shape of the list, no lost wake-up, and the *)
(* refinement of Mailbox.                                                  *)
(***************************************************************************)
EXTENDS AclAqueue, FiniteSetTheorems, SequenceTheorems, Iteration

-----------------------------------------------------------------------------
(* ch is the list: linked from first to last, each item once, and the      *)
(* blocks in use are its items.                                            *)
Linked(ch) ==
  /\ \A i, j \in 1 .. qlen : ch[i] = ch[j] => i = j
  /\ qlen = 0 => first = NULL /\ last = NULL
  /\ qlen > 0 => first = ch[1] /\ last = ch[qlen] /\ next[ch[qlen]] = NULL
  /\ \A i \in 1 .. qlen - 1 : next[ch[i]] = ch[i + 1]
  /\ \A x \in Items : data[x] # Nil <=> \E i \in 1 .. qlen : ch[i] = x

ListInv == \E ch \in [1 .. qlen -> Items] : Linked(ch)

AInv == TypeOK /\ ListInv

(* A push links a free block behind the last.                              *)
LEMMA LinkLinks ==
  ASSUME TypeOK, NEW ch \in [1 .. qlen -> Items], Linked(ch),
         NEW i \in Items, data[i] = Nil, NEW m \in Msgs, Link(i, m)
  PROVE  \E longer \in [1 .. qlen' -> Items] :
           /\ longer[qlen + 1] = i /\ \A n \in 1 .. qlen : longer[n] = ch[n]
           /\ Linked(longer)'
<1>1. qlen \in Nat /\ qlen' = qlen + 1 /\ last' = i
  BY DEF TypeOK, Link
<1>2. \A n \in 1 .. qlen : ch[n] \in Items /\ ch[n] # i
  BY DEF Linked
<1>3. PICK longer \in [1 .. qlen' -> Items] :
        longer = [n \in 1 .. qlen' |-> IF n = qlen' THEN i ELSE ch[n]]
  <2>1. \A n \in 1 .. qlen' : n = qlen' \/ n \in 1 .. qlen
    BY <1>1
  <2>2. [n \in 1 .. qlen' |-> IF n = qlen' THEN i ELSE ch[n]] \in [1 .. qlen' -> Items]
    BY <2>1
  <2> QED BY <2>2
<1>4. longer[qlen + 1] = i /\ \A n \in 1 .. qlen : longer[n] = ch[n]
  BY <1>1, <1>3
<1>5. \A j, k \in 1 .. qlen' : longer[j] = longer[k] => j = k
  BY <1>1, <1>2, <1>4 DEF Linked
<1>6. first' = longer[1] /\ last' = longer[qlen'] /\ next'[longer[qlen']] = NULL
  <2>1. CASE qlen = 0
    BY <2>1, <1>1, <1>4 DEF Linked, Link, TypeOK
  <2>2. CASE qlen > 0
    <3>1. first = ch[1] /\ first # NULL /\ last = ch[qlen] /\ last # i
      BY <2>2, <1>1, <1>2, AqueueAssumption DEF Linked
    <3> QED BY <2>2, <3>1, <1>1, <1>4 DEF Link, TypeOK
  <2> QED BY <1>1, <2>1, <2>2
<1>7. ASSUME NEW n \in 1 .. qlen' - 1 PROVE next'[longer[n]] = longer[n + 1]
  <2>1. qlen > 0 /\ n \in 1 .. qlen /\ longer[n] = ch[n] /\ ch[n] # i
    BY <1>1, <1>2, <1>4
  <2>2. first # NULL /\ last = ch[qlen] /\ next' = [next EXCEPT ![i] = NULL, ![last] = i]
    BY <2>1, <1>1, <1>2, AqueueAssumption DEF Linked, Link
  <2>3. CASE n = qlen
    BY <2>1, <2>2, <2>3, <1>4 DEF TypeOK
  <2>4. CASE n # qlen
    <3>1. n \in 1 .. qlen - 1 /\ n + 1 \in 1 .. qlen /\ ch[n] # ch[qlen]
      BY <2>1, <2>4, <1>1 DEF Linked
    <3> QED BY <2>1, <2>2, <3>1, <1>4 DEF TypeOK, Linked
  <2> QED BY <2>3, <2>4
<1>8. ASSUME NEW x \in Items
      PROVE  data'[x] # Nil <=> \E n \in 1 .. qlen' : longer[n] = x
  <2>1. data' = [data EXCEPT ![i] = m] /\ m # Nil
    BY AqueueAssumption DEF Link
  <2>2. CASE x = i
    BY <2>1, <2>2, <1>1, <1>4 DEF TypeOK
  <2>3. CASE x # i
    BY <2>1, <2>3, <1>1, <1>4 DEF TypeOK, Linked
  <2> QED BY <2>2, <2>3
<1>9. Linked(longer)'
  BY <1>1, <1>5, <1>6, <1>7, <1>8 DEF Linked
<1> QED BY <1>4, <1>9

(* A pop unlinks the first.                                                *)
LEMMA TakeLinks ==
  ASSUME TypeOK, NEW ch \in [1 .. qlen -> Items], Linked(ch),
         NEW p \in Poppers, Take(p)
  PROVE  /\ qlen > 0 /\ first = ch[1]
         /\ \E rest \in [1 .. qlen' -> Items] :
              (\A n \in 1 .. qlen' : rest[n] = ch[n + 1]) /\ Linked(rest)'
<1>1. qlen \in Nat /\ qlen > 0 /\ qlen' = qlen - 1
  BY DEF TypeOK, Take, Linked
<1>2. first = ch[1] /\ first \in Items /\ last = ch[qlen]
  BY <1>1 DEF Linked
<1>3. PICK rest \in [1 .. qlen' -> Items] : rest = [n \in 1 .. qlen' |-> ch[n + 1]]
  <2>1. \A n \in 1 .. qlen' : n + 1 \in 1 .. qlen
    BY <1>1
  <2>2. [n \in 1 .. qlen' |-> ch[n + 1]] \in [1 .. qlen' -> Items]
    BY <2>1
  <2> QED BY <2>2
<1>4. \A n \in 1 .. qlen' : rest[n] = ch[n + 1] /\ rest[n] # first
  BY <1>1, <1>2, <1>3 DEF Linked
<1>5. \A j, k \in 1 .. qlen' : rest[j] = rest[k] => j = k
  BY <1>1, <1>4 DEF Linked
<1>6. next' = [next EXCEPT ![first] = NULL] /\ data' = [data EXCEPT ![first] = Nil]
  BY DEF Take
<1>7. ASSUME qlen = 1 PROVE Linked(rest)'
  BY <1>1, <1>2, <1>3, <1>6, <1>7 DEF Linked, Take, TypeOK
<1>8. ASSUME qlen > 1 PROVE Linked(rest)'
  <2>1. qlen' > 0 /\ last # first /\ last' = last /\ first' = rest[1] /\ rest[qlen'] = last
    BY <1>1, <1>2, <1>4, <1>8 DEF Linked, Take
  <2>2. next'[rest[qlen']] = NULL
    BY <1>1, <1>2, <1>6, <2>1 DEF Linked, TypeOK
  <2>3. ASSUME NEW n \in 1 .. qlen' - 1 PROVE next'[rest[n]] = rest[n + 1]
    BY <1>1, <1>2, <1>4, <1>6 DEF Linked, TypeOK
  <2>4. ASSUME NEW x \in Items
        PROVE  data'[x] # Nil <=> \E n \in 1 .. qlen' : rest[n] = x
    <3>1. CASE x = first
      BY <3>1, <1>4, <1>6 DEF TypeOK
    <3>2. CASE x # first
      <4>1. data'[x] = data[x]
        BY <3>2, <1>6 DEF TypeOK
      <4>2. ASSUME NEW k \in 1 .. qlen, ch[k] = x PROVE \E n \in 1 .. qlen' : rest[n] = x
        <5>1. k # 1 /\ k - 1 \in 1 .. qlen'
          BY <4>2, <3>2, <1>1, <1>2
        <5> QED BY <5>1, <4>2, <1>1, <1>4
      <4>3. ASSUME NEW n \in 1 .. qlen', rest[n] = x PROVE \E k \in 1 .. qlen : ch[k] = x
        BY <4>3, <1>1, <1>4
      <4> QED BY <4>1, <4>2, <4>3 DEF Linked
    <3> QED BY <3>1, <3>2
  <2>5. qlen' # 0 /\ last' = rest[qlen']
    BY <1>1, <1>8, <2>1
  <2> QED BY <1>5, <2>1, <2>2, <2>3, <2>4, <2>5 DEF Linked
<1> QED BY <1>1, <1>2, <1>4, <1>7, <1>8

-----------------------------------------------------------------------------
(* Every step but a push and a take leaves the list alone.                 *)
LEMMA SameList == ASSUME ListInv, UNCHANGED listVars PROVE ListInv'
<1>1. PICK ch \in [1 .. qlen -> Items] : Linked(ch)
  BY DEF ListInv
<1>2. ch \in [1 .. qlen' -> Items] /\ Linked(ch)'
  BY <1>1 DEF listVars, Linked
<1> QED BY <1>2 DEF ListInv

LEMMA NextAInv == AInv /\ [Next]_aqueueVars => AInv'
<1> SUFFICES ASSUME AInv, [Next]_aqueueVars PROVE AInv'
  OBVIOUS
<1> USE DEF AInv
<1>1. ASSUME NEW s \in Pushers, NEW m \in Msgs, acl_aqueue_push(s, m) PROVE AInv'
  <2>1. PICK i \in Items : data[i] = Nil /\ Link(i, m)
    BY <1>1 DEF acl_aqueue_push
  <2>2. PICK ch \in [1 .. qlen -> Items] : Linked(ch)
    BY DEF ListInv
  <2>3. ListInv'
    BY <2>1, <2>2, LinkLinks DEF ListInv
  <2>4. TypeOK'
    BY <1>1, <2>1, AqueueAssumption DEF acl_aqueue_push, Link, TypeOK, Goto
  <2> QED BY <2>3, <2>4
<1>2. ASSUME NEW p \in Poppers, Take(p) PROVE AInv'
  <2>1. PICK ch \in [1 .. qlen -> Items] : Linked(ch)
    BY DEF ListInv
  <2>2. qlen > 0 /\ ListInv'
    BY <1>2, <2>1, TakeLinks DEF ListInv
  <2>3. first \in Items
    BY <1>2 DEF Take, TypeOK
  <2>4. TypeOK'
    BY <1>2, <2>2, <2>3, AqueueAssumption DEF Take, TypeOK, Goto
  <2> QED BY <2>2, <2>4
<1>3. ASSUME NEW p \in Poppers,
             PopEnter(p) \/ PopQuits(p) \/ Block(p) \/ Spurious(p) \/ Expire(p) \/ GiveUp(p)
      PROVE  AInv'
  <2>1. UNCHANGED listVars
    BY <1>3 DEF PopEnter, PopQuits, Block, Spurious, Expire, GiveUp
  <2>2. \A q \in Pushers : q # p
    BY AqueueAssumption
  <2>3. TypeOK'
    BY <1>3, <2>1, <2>2 DEF PopEnter, PopQuits, Block, Spurious, Expire, GiveUp, TypeOK,
       Goto, listVars
  <2> QED BY <2>1, <2>3, SameList
<1>4. ASSUME NEW s \in Pushers, Signal(s) PROVE AInv'
  <2>1. UNCHANGED listVars
    BY <1>4 DEF Signal
  <2>2. TypeOK'
    BY <1>4, <2>1, AqueueAssumption DEF Signal, Waiting, Goto, TypeOK, listVars
  <2> QED BY <2>1, <2>2, SameList
<1>5. ASSUME acl_aqueue_set_quit \/ acl_aqueue_free \/ UNCHANGED aqueueVars PROVE AInv'
  <2>1. UNCHANGED listVars
    BY <1>5 DEF acl_aqueue_set_quit, acl_aqueue_free, aqueueVars
  <2>2. TypeOK'
    BY <1>5, <2>1 DEF acl_aqueue_set_quit, acl_aqueue_free, aqueueVars, TypeOK, listVars
  <2> QED BY <2>1, <2>2, SameList
<1> QED BY <1>1, <1>2, <1>3, <1>4, <1>5 DEF Next, Section

(* A new queue (acl_aqueue_new) is empty.                                  *)
LEMMA InitAInv == Init => AInv
<1> SUFFICES ASSUME Init PROVE AInv
  OBVIOUS
<1>1. TypeOK
  BY AqueueAssumption DEF Init, TypeOK
<1>2. PICK ch \in [1 .. qlen -> Items] : TRUE
  <2>1. 1 .. qlen = {}
    BY DEF Init
  <2>2. [n \in 1 .. qlen |-> NULL] \in [1 .. qlen -> Items]
    BY <2>1
  <2> QED BY <2>2
<1>3. Linked(ch)
  BY DEF Init, Linked
<1> QED BY <1>1, <1>2, <1>3 DEF AInv, ListInv

(* The links of the list are sound in every reachable state.               *)
THEOREM ListSafe == Spec => []AInv
<1> QED BY InitAInv, NextAInv, PTL DEF Spec

(* Every variable of the queue keeps its type.                             *)
THEOREM TypeCorrect == Spec => []TypeOK
<1>1. AInv => TypeOK
  BY DEF AInv
<1> QED BY <1>1, ListSafe, PTL

-----------------------------------------------------------------------------
(* The threads that will come for an item are finitely many.               *)
LEMMA ComingFinite ==
  /\ IsFiniteSet(Coming) /\ Cardinality(Coming) \in Nat
  /\ IsFiniteSet(Coming') /\ Cardinality(Coming') \in Nat
<1>1. IsFiniteSet(Poppers \cup Pushers)
  BY AqueueAssumption, FS_Union
<1>2. Coming \subseteq Poppers \cup Pushers /\ Coming' \subseteq Poppers \cup Pushers
  BY DEF Coming
<1> QED BY <1>1, <1>2, FS_Subset, FS_CardinalityType

(* A step that adds nobody takes one at most out of Coming.                *)
LEMMA OneLess ==
  ASSUME NEW t \in Coming, Coming \ {t} \subseteq Coming'
  PROVE  Cardinality(Coming) - 1 <= Cardinality(Coming')
<1>1. IsFiniteSet(Coming \ {t}) /\ Cardinality(Coming \ {t}) = Cardinality(Coming) - 1
  BY ComingFinite, FS_RemoveElement
<1>2. Cardinality(Coming \ {t}) <= Cardinality(Coming')
  BY ComingFinite, FS_Subset
<1> QED BY <1>1, <1>2

LEMMA OneMore ==
  ASSUME NEW t, t \notin Coming, Coming \cup {t} \subseteq Coming'
  PROVE  Cardinality(Coming) + 1 <= Cardinality(Coming')
<1>1. IsFiniteSet(Coming \cup {t}) /\ Cardinality(Coming \cup {t}) = Cardinality(Coming) + 1
  BY ComingFinite, FS_AddElement
<1>2. Cardinality(Coming \cup {t}) <= Cardinality(Coming')
  BY ComingFinite, FS_Subset
<1> QED BY <1>1, <1>2

LEMMA NoneLess ==
  ASSUME Coming \subseteq Coming'
  PROVE  Cardinality(Coming) <= Cardinality(Coming')
BY ComingFinite, FS_Subset

(* The queue counts its items: an empty list has qlen 0.                   *)
LEMMA EmptyCounted == ASSUME AInv, first = NULL PROVE qlen = 0
<1>1. PICK ch \in [1 .. qlen -> Items] : Linked(ch)
  BY DEF AInv, ListInv
<1> QED BY <1>1, AqueueAssumption DEF AInv, TypeOK, Linked

(* Each kind of step keeps the promise that nobody sleeps over an item     *)
(* that no thread will come for.                                           *)
LEMMA NextWakes == AInv /\ NoLostWakeup /\ [Next]_aqueueVars => NoLostWakeup'
<1> SUFFICES ASSUME AInv, NoLostWakeup, [Next]_aqueueVars, Waiting' # {}
             PROVE  qlen' <= Cardinality(Coming')
  BY DEF NoLostWakeup
<1> USE DEF AInv
<1>0. qlen \in Nat /\ Cardinality(Coming) \in Nat /\ Cardinality(Coming') \in Nat
  BY ComingFinite DEF TypeOK
<1>1. ASSUME NEW s \in Pushers, NEW m \in Msgs, acl_aqueue_push(s, m)
      PROVE  qlen' <= Cardinality(Coming')
  <2>1. Waiting # {} /\ qlen' = qlen + 1
    BY <1>1, AqueueAssumption DEF acl_aqueue_push, Link, Goto, Waiting, TypeOK
  <2>2. s \notin Coming /\ Coming \cup {s} \subseteq Coming'
    BY <1>1, AqueueAssumption DEF acl_aqueue_push, Goto, Coming, Locked, TypeOK
  <2>3. Cardinality(Coming) + 1 <= Cardinality(Coming')
    BY <2>2, OneMore
  <2> QED BY <1>0, <2>1, <2>3 DEF NoLostWakeup
<1>2. ASSUME NEW p \in Poppers, Take(p) PROVE qlen' <= Cardinality(Coming')
  <2>1. Waiting # {} /\ qlen' = qlen - 1
    BY <1>2 DEF Take, Goto, Waiting, TypeOK
  <2>2. p \in Coming /\ Coming \ {p} \subseteq Coming'
    BY <1>2 DEF Take, Goto, Coming, Locked, TypeOK
  <2>3. Cardinality(Coming) - 1 <= Cardinality(Coming')
    BY <2>2, OneLess
  <2> QED BY <1>0, <2>1, <2>3 DEF NoLostWakeup
<1>3. ASSUME NEW p \in Poppers, PopQuits(p) \/ Block(p) PROVE qlen' <= Cardinality(Coming')
  <2>1. qlen' = 0
    BY <1>3, EmptyCounted DEF PopQuits, Block, listVars
  <2> QED BY <1>0, <2>1
<1>4. ASSUME NEW p \in Poppers, PopEnter(p) \/ Spurious(p) \/ Expire(p) \/ GiveUp(p)
      PROVE  qlen' <= Cardinality(Coming')
  <2>1. Waiting # {} /\ qlen' = qlen
    BY <1>4 DEF PopEnter, Spurious, Expire, GiveUp, Goto, Waiting, TypeOK, listVars
  <2>2. Coming \subseteq Coming'
    BY <1>4 DEF PopEnter, Spurious, Expire, GiveUp, Goto, Coming, Locked, TypeOK
  <2> QED BY <1>0, <2>1, <2>2, NoneLess DEF NoLostWakeup
<1>5. ASSUME NEW s \in Pushers, Signal(s) PROVE qlen' <= Cardinality(Coming')
  <2>1. PICK p \in Poppers : pc[p] = "wait" /\ pc' = [pc EXCEPT ![s] = "idle", ![p] = "woken"]
    BY <1>5 DEF Signal, Goto, Waiting, TypeOK
  <2>2. qlen' = qlen /\ Waiting # {} /\ s # p /\ s \in Coming /\ p \notin Coming
    BY <1>5, <2>1, AqueueAssumption DEF Signal, Waiting, Coming, Locked, listVars
  <2>3. (Coming \ {s}) \cup {p} \subseteq Coming'
    BY <2>1, <2>2, AqueueAssumption DEF Coming, Locked, TypeOK
  <2>4. Cardinality((Coming \ {s}) \cup {p}) = Cardinality(Coming)
    <3>1. IsFiniteSet(Coming \ {s}) /\ Cardinality(Coming \ {s}) = Cardinality(Coming) - 1
      BY <2>2, ComingFinite, FS_RemoveElement
    <3>2. Cardinality((Coming \ {s}) \cup {p}) = Cardinality(Coming \ {s}) + 1
      BY <2>2, <3>1, FS_AddElement
    <3> QED BY <3>1, <3>2, <1>0
  <2>5. Cardinality((Coming \ {s}) \cup {p}) <= Cardinality(Coming')
    BY <2>3, ComingFinite, FS_Subset
  <2> QED BY <1>0, <2>2, <2>4, <2>5 DEF NoLostWakeup
<1>6. ASSUME acl_aqueue_set_quit \/ acl_aqueue_free \/ UNCHANGED aqueueVars
      PROVE  qlen' <= Cardinality(Coming')
  <2>1. pc' = pc /\ qlen' = qlen
    BY <1>6 DEF acl_aqueue_set_quit, acl_aqueue_free, aqueueVars, listVars
  <2> QED BY <2>1 DEF NoLostWakeup, Waiting, Coming, Locked
<1> QED BY <1>1, <1>2, <1>3, <1>4, <1>5, <1>6 DEF Next, Section

(* Whatever times out, whoever barges in and wherever a signal goes, no    *)
(* thread sleeps over an item that nobody will come for, for any number of *)
(* threads and items.                                                      *)
THEOREM WakeupSafe == Spec => []NoLostWakeup
<1>1. Init => NoLostWakeup
  BY DEF Init, NoLostWakeup, Waiting
<1> QED BY <1>1, ListSafe, NextWakes, PTL DEF Spec

-----------------------------------------------------------------------------
(* Following links from a first item gives one sequence of a given length. *)
Follows(f, n, start, link) ==
  f = [k \in 1 .. n |-> IF k = 1 THEN start ELSE link[f[k - 1]]]

LEMMA FollowsUnique ==
  ASSUME NEW n \in Nat, NEW start, NEW link, NEW f, NEW g,
         Follows(f, n, start, link), Follows(g, n, start, link)
  PROVE  f = g
<1> DEFINE Wrong == {k \in 1 .. n : f[k] # g[k]}
<1>1. SUFFICES ASSUME Wrong # {} PROVE FALSE
  <2>1. f = [k \in 1 .. n |-> f[k]] /\ g = [k \in 1 .. n |-> g[k]]
    BY DEF Follows
  <2> QED BY <2>1
<1>2. PICK x \in Wrong : \A y \in Wrong : ~(y < x)
  <2>1. Wrong \in SUBSET Nat
    OBVIOUS
  <2> QED BY <1>1, <2>1, LeastElement
<1>3. x # 1
  BY <1>2 DEF Follows
<1>4. x - 1 \in 1 .. n /\ x - 1 < x
  BY <1>2, <1>3
<1>5. f[x - 1] = g[x - 1]
  BY <1>2, <1>4
<1>6. f[x] = link[f[x - 1]] /\ g[x] = link[g[x - 1]]
  BY <1>2, <1>3 DEF Follows
<1> QED BY <1>2, <1>5, <1>6

(* Items each of which is linked to the next follow one another.            *)
LEMMA LinksFollow ==
  ASSUME NEW n \in Nat, NEW start, NEW link, NEW ch \in [1 .. n -> Items],
         n > 0 => start = ch[1],
         \A k \in 1 .. n - 1 : link[ch[k]] = ch[k + 1]
  PROVE  Follows(ch, n, start, link)
<1>1. ASSUME NEW k \in 1 .. n
      PROVE  ch[k] = IF k = 1 THEN start ELSE link[ch[k - 1]]
  <2>1. CASE k = 1
    BY <2>1
  <2>2. CASE k # 1
    <3>1. k - 1 \in 1 .. n - 1 /\ (k - 1) + 1 = k
      BY <2>2
    <3> QED BY <2>2, <3>1
  <2> QED BY <2>1, <2>2
<1> QED BY <1>1 DEF Follows

(* Reading the list from first on gives the linked items in their order,   *)
(* and their messages are a queue.                                         *)
Queue == [n \in 1 .. qlen |-> data[Chain[n]]]

LEMMA QueueReads ==
  ASSUME TypeOK, NEW ch \in [1 .. qlen -> Items], Linked(ch)
  PROVE  /\ Queue = [n \in 1 .. qlen |-> data[ch[n]]]
         /\ Queue \in Seq(Msgs) /\ Len(Queue) = qlen
<1>1. Follows(ch, qlen, first, next)
  BY LinksFollow DEF Linked, TypeOK
<1>2. Follows(Chain, qlen, first, next)
  BY <1>1 DEF Chain, Follows
<1>3. Chain = ch
  BY <1>1, <1>2, FollowsUnique DEF TypeOK
<1>4. \A n \in 1 .. qlen : data[ch[n]] \in Msgs
  BY DEF Linked, TypeOK
<1> QED BY <1>3, <1>4 DEF Queue, TypeOK

(* The same of the list a step leaves.                                     *)
LEMMA QueueReadsNext ==
  ASSUME TypeOK', NEW ch \in [1 .. qlen' -> Items], Linked(ch)'
  PROVE  /\ Queue' = [n \in 1 .. qlen' |-> data'[ch[n]]]
         /\ Queue' \in Seq(Msgs) /\ Len(Queue') = qlen'
<1>0. qlen' \in Nat
  BY DEF TypeOK
<1>1. Follows(ch, qlen', first', next')
  BY <1>0, LinksFollow DEF Linked
<1>2. Follows(Chain', qlen', first', next')
  BY <1>1 DEF Chain, Follows
<1>3. Chain' = ch
  BY <1>1, <1>2, FollowsUnique DEF TypeOK
<1>4. \A n \in 1 .. qlen' : data'[ch[n]] \in Msgs
  BY DEF Linked, TypeOK
<1> QED BY <1>3, <1>4 DEF Queue, TypeOK

(* A push puts its message at the end.                                     *)
LEMMA PushPuts ==
  ASSUME AInv, AInv', NEW s \in Pushers, NEW m \in Msgs, acl_aqueue_push(s, m)
  PROVE  Box!Put(m)
<1>1. PICK i \in Items : data[i] = Nil /\ Link(i, m)
  BY DEF acl_aqueue_push
<1>2. PICK ch \in [1 .. qlen -> Items] : Linked(ch)
  BY DEF AInv, ListInv
<1>3. PICK longer \in [1 .. qlen' -> Items] :
        /\ longer[qlen + 1] = i /\ \A n \in 1 .. qlen : longer[n] = ch[n]
        /\ Linked(longer)'
  BY <1>1, <1>2, LinkLinks DEF AInv
<1>4. /\ qlen \in Nat /\ qlen' = qlen + 1 /\ ret' = ret
      /\ data \in [Items -> Msgs \cup {Nil}] /\ data' = [data EXCEPT ![i] = m]
  BY <1>1 DEF acl_aqueue_push, Link, AInv, TypeOK
<1>5. /\ Queue = [n \in 1 .. qlen |-> data[ch[n]]]
      /\ Queue \in Seq(Msgs) /\ Len(Queue) = qlen
  BY <1>2, QueueReads DEF AInv
<1>6. /\ Queue' = [n \in 1 .. qlen + 1 |-> data'[longer[n]]]
      /\ Queue' \in Seq(Msgs) /\ Len(Queue') = qlen + 1
  BY <1>3, <1>4, QueueReadsNext DEF AInv
<1>7. \A n \in 1 .. qlen : ch[n] \in Items /\ ch[n] # i
  BY <1>1, <1>2, <1>4 DEF Linked
<1>8. /\ Append(Queue, m) \in Seq(Msgs) /\ Len(Append(Queue, m)) = qlen + 1
      /\ Append(Queue, m)[qlen + 1] = m
      /\ \A n \in 1 .. qlen : Append(Queue, m)[n] = Queue[n]
  BY <1>4, <1>5, AppendProperties
<1>9. \A n \in 1 .. qlen + 1 : Queue'[n] = Append(Queue, m)[n]
  <2>1. Queue'[qlen + 1] = m
    BY <1>3, <1>4, <1>6
  <2>2. ASSUME NEW n \in 1 .. qlen PROVE Queue'[n] = Queue[n]
    BY <1>3, <1>4, <1>5, <1>6, <1>7
  <2> QED BY <1>4, <1>8, <2>1, <2>2
<1>10. Queue' = Append(Queue, m)
  BY <1>6, <1>8, <1>9, SeqEqual
<1> QED BY <1>4, <1>10 DEF Box!Put, Queue

(* A pop that finds an item takes the oldest.                              *)
LEMMA TakeTakes ==
  ASSUME AInv, AInv', NEW p \in Poppers, Take(p)
  PROVE  Box!Take
<1>1. PICK ch \in [1 .. qlen -> Items] : Linked(ch)
  BY DEF AInv, ListInv
<1>2. qlen > 0 /\ first = ch[1]
  BY <1>1, TakeLinks DEF AInv
<1>3. PICK rest \in [1 .. qlen' -> Items] :
        (\A n \in 1 .. qlen' : rest[n] = ch[n + 1]) /\ Linked(rest)'
  BY <1>1, TakeLinks DEF AInv
<1>4. /\ qlen \in Nat /\ qlen' = qlen - 1 /\ ret' = data[first]
      /\ data \in [Items -> Msgs \cup {Nil}] /\ data' = [data EXCEPT ![first] = Nil]
  BY DEF Take, AInv, TypeOK
<1>5. /\ Queue = [n \in 1 .. qlen |-> data[ch[n]]]
      /\ Queue \in Seq(Msgs) /\ Len(Queue) = qlen
  BY <1>1, QueueReads DEF AInv
<1>6. /\ Queue' = [n \in 1 .. qlen - 1 |-> data'[rest[n]]]
      /\ Queue' \in Seq(Msgs) /\ Len(Queue') = qlen - 1
  BY <1>3, <1>4, QueueReadsNext DEF AInv
<1>7. Queue # << >>
  <2>1. Len(Queue) # 0
    BY <1>2, <1>4, <1>5
  <2>2. Len(<< >>) = 0
    OBVIOUS
  <2> QED BY <2>1, <2>2
<1>8. /\ Tail(Queue) \in Seq(Msgs) /\ Len(Tail(Queue)) = qlen - 1
      /\ \A n \in 1 .. qlen - 1 : Tail(Queue)[n] = Queue[n + 1]
  BY <1>4, <1>5, <1>7, HeadTailProperties
<1>9. ASSUME NEW n \in 1 .. qlen - 1 PROVE Queue'[n] = Tail(Queue)[n]
  <2>1. n + 1 \in 1 .. qlen /\ 1 \in 1 .. qlen /\ n + 1 # 1
    BY <1>2, <1>4
  <2>2. ch[n + 1] \in Items /\ ch[n + 1] # first
    BY <1>1, <1>2, <2>1 DEF Linked
  <2> QED BY <1>3, <1>4, <1>5, <1>6, <1>8, <2>1, <2>2
<1>10. Queue' = Tail(Queue)
  BY <1>6, <1>8, <1>9, SeqEqual
<1>11. ret' = Head(Queue)
  BY <1>2, <1>4, <1>5, <1>7
<1> QED BY <1>7, <1>10, <1>11 DEF Box!Take, Queue

(* However threads push, wait and give up, the linked list is one queue of *)
(* messages: a pop takes the oldest or returns nothing.                    *)
THEOREM AqueueImplementsMailbox == Spec => ImplementsMailbox
<1>1. Init => Box!Init
  <2> SUFFICES ASSUME Init PROVE Queue = << >> /\ ret = Nil
    BY DEF Box!Init, Queue
  <2> QED BY DEF Init, Queue
<1>2. ASSUME AInv, [Next]_aqueueVars PROVE [Box!Next]_(Box!mailVars)
  <2>1. AInv'
    BY <1>2, NextAInv
  <2>2. CASE \E s \in Pushers, m \in Msgs : acl_aqueue_push(s, m)
    BY <1>2, <2>1, <2>2, PushPuts DEF Box!Next
  <2>3. CASE \E p \in Poppers : Take(p)
    BY <1>2, <2>1, <2>3, TakeTakes DEF Box!Next
  <2>4. ASSUME UNCHANGED listVars, ret' = ret \/ ret' = Nil
        PROVE  [Box!Next]_(Box!mailVars)
    <3>1. Queue' = Queue
      BY <2>4 DEF listVars, Queue, Chain
    <3> QED BY <2>4, <3>1 DEF Box!Next, Box!GiveUp, Box!mailVars, Queue
  <2>5. ASSUME NEW p \in Poppers,
               PopEnter(p) \/ PopQuits(p) \/ Block(p) \/ Spurious(p) \/ Expire(p) \/ GiveUp(p)
        PROVE  UNCHANGED listVars /\ (ret' = ret \/ ret' = Nil)
    BY <2>5 DEF PopEnter, PopQuits, Block, Spurious, Expire, GiveUp
  <2>6. ASSUME \/ \E s \in Pushers : Signal(s)
               \/ acl_aqueue_set_quit \/ acl_aqueue_free \/ UNCHANGED aqueueVars
        PROVE  UNCHANGED listVars /\ ret' = ret
    BY <2>6 DEF Signal, acl_aqueue_set_quit, acl_aqueue_free, aqueueVars
  <2> QED BY <1>2, <2>2, <2>3, <2>4, <2>5, <2>6 DEF Next, Section
<1> QED BY <1>1, <1>2, ListSafe, PTL DEF Spec, Box!Spec, ImplementsMailbox
=============================================================================
