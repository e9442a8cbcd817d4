------------------------- MODULE MasterServ_proofs -------------------------
(***************************************************************************)
(* Proofs about the process manager, for any number of process ids,        *)
(* configurations, connections, deaths, forks that fail and reloads: what  *)
(* the master counts is what there is, it listens exactly when no child    *)
(* does, and what it has heard of a child, or will have, is true.          *)
(***************************************************************************)
EXTENDS MasterServ, Iteration, FiniteSetTheorems

(* The master's side of the service, in its type.                          *)
MStates ==
  [started : BOOLEAN, throttled : BOOLEAN, reloading : BOOLEAN, listening : BOOLEAN,
   avail : Int, total : Int, table : [Pids -> {None} \cup Entries], gen : Nat,
   panicked : BOOLEAN, luck : Int, failed : Nat]

Idle(n) == {p \in Children(n) : n.table[p].avail = AVAIL}

(* The counters are right, but that the children in gone, which are being  *)
(* deleted, are not counted any more.                                      *)
Counts(n, gone) ==
  /\ n.total = Cardinality(Children(n) \ gone)
  /\ n.avail = Cardinality(Idle(n))

Sane(n, gone) == n \in MStates /\ conf \in Services /\ gone \subseteq Children(n) /\ Counts(n, gone)

(* What a handler does to the table: entries are left alone, deleted, or   *)
(* new, of a pid that no process has, with a generation of their own.      *)
Grown(n, r, gone) ==
  /\ n.gen <= r.gen
  /\ \A q \in Pids :
       \/ r.table[q] = n.table[q]
       \/ q \in gone /\ r.table[q] = None
       \/ /\ os[q] = None /\ (n.table[q] = None \/ q \in gone)
          /\ r.table[q] \in Entries /\ r.table[q].avail = AVAIL
          /\ n.gen < r.table[q].gen /\ r.table[q].gen <= r.gen

(* As long as nothing was reloaded: a listening master takes no child for  *)
(* idle, and there are no more children than max_proc.                     *)
Fresh(n) ==
  /\ ~n.reloading
  /\ n.listening => n.avail = 0 /\ LIMIT_OK(n.total)
  /\ conf.max > 0 => n.total <= conf.max

(* The master listens when it has to.                                      *)
LOK(n) == ~n.throttled /\ ~n.panicked /\ n.avail = 0 /\ LIMIT_OK(n.total) => n.listening

-----------------------------------------------------------------------------
(* Setting fields of the master's side.                                    *)

LEMMA SetThrottled == \A n \in MStates, b \in BOOLEAN : [n EXCEPT !.throttled = b] \in MStates
BY DEF MStates

LEMMA SetReloading == \A n \in MStates, b \in BOOLEAN : [n EXCEPT !.reloading = b] \in MStates
BY DEF MStates

LEMMA SetListening == \A n \in MStates, b \in BOOLEAN : [n EXCEPT !.listening = b] \in MStates
BY DEF MStates

LEMMA SetPanicked == \A n \in MStates, b \in BOOLEAN : [n EXCEPT !.panicked = b] \in MStates
BY DEF MStates

LEMMA SetStarted == \A n \in MStates, b \in BOOLEAN : [n EXCEPT !.started = b] \in MStates
BY DEF MStates

LEMMA SetTotal == \A n \in MStates, k \in Int : [n EXCEPT !.total = k] \in MStates
BY DEF MStates

LEMMA SetGen == \A n \in MStates, g \in Nat : [n EXCEPT !.gen = g] \in MStates
BY DEF MStates

LEMMA SetLuck == \A n \in MStates, k \in Int : [n EXCEPT !.luck = k] \in MStates
BY DEF MStates

LEMMA SetFailed == \A n \in MStates, k \in Nat : [n EXCEPT !.failed = k] \in MStates
BY DEF MStates

LEMMA NewEntry ==
  ASSUME NEW g \in Nat, NEW a \in {AVAIL, TAKEN}
  PROVE  LET e == [gen |-> g, avail |-> a, used |-> FALSE]
         IN  e \in Entries /\ e # None /\ e.gen = g /\ e.avail = a
<1>1. [gen |-> g, avail |-> a, used |-> FALSE] \in Entries
  BY DEF Entries
<1> QED BY <1>1, MasterAssumption

LEMMA SetEntry ==
  ASSUME NEW n \in MStates, NEW p \in Pids, NEW e \in {None} \cup Entries
  PROVE  [n EXCEPT !.table[p] = e] \in MStates
BY DEF MStates

-----------------------------------------------------------------------------
(* Counting.                                                               *)

LEMMA ConfFacts ==
  ASSUME conf \in Services
  PROVE  conf.max \in Nat /\ conf.prefork \in Nat /\ (conf.max > 0 => conf.prefork <= conf.max)
BY MasterAssumption

LEMMA CountsNat ==
  ASSUME NEW n, NEW gone, Sane(n, gone)
  PROVE  /\ n.total \in Nat /\ n.avail \in Nat
         /\ IsFiniteSet(Children(n) \ gone) /\ IsFiniteSet(Idle(n))
<1>1. Children(n) \ gone \subseteq Pids /\ Idle(n) \subseteq Pids
  BY DEF Children, Idle
<1>2. IsFiniteSet(Pids)
  BY MasterAssumption
<1> QED BY <1>1, <1>2, FS_Subset, FS_CardinalityType DEF Sane, Counts

(* Grown composes.                                                         *)
LEMMA GrownTwice ==
  ASSUME NEW n \in MStates, NEW r \in MStates, NEW s \in MStates, NEW gone,
         Grown(n, r, gone), Grown(r, s, gone)
  PROVE  Grown(n, s, gone)
<1>1. n.gen \in Nat /\ r.gen \in Nat /\ s.gen \in Nat
  BY DEF MStates
<1>2. n.gen <= s.gen
  BY <1>1 DEF Grown
<1>3. None \notin Entries
  BY MasterAssumption
<1>4. ASSUME NEW q \in Pids, s.table[q] # n.table[q], ~(q \in gone /\ s.table[q] = None)
      PROVE  /\ os[q] = None /\ (n.table[q] = None \/ q \in gone)
             /\ s.table[q] \in Entries /\ s.table[q].avail = AVAIL
             /\ n.gen < s.table[q].gen /\ s.table[q].gen <= s.gen
  <2> DEFINE F(a, b) == /\ os[q] = None /\ (a.table[q] = None \/ q \in gone)
                        /\ b.table[q] \in Entries /\ b.table[q].avail = AVAIL
                        /\ a.gen < b.table[q].gen /\ b.table[q].gen <= b.gen
  <2>1. \/ r.table[q] = n.table[q] \/ (q \in gone /\ r.table[q] = None) \/ F(n, r)
    BY DEF Grown
  <2>2. \/ s.table[q] = r.table[q] \/ (q \in gone /\ s.table[q] = None) \/ F(r, s)
    BY DEF Grown
  <2>3. \A e \in Entries : e.gen \in Nat
    BY DEF Entries
  <2>4. CASE F(r, s)
    BY <2>4, <2>1, <2>3, <1>1, <1>3 DEF Grown
  <2>5. CASE s.table[q] = r.table[q]
    BY <2>5, <2>1, <2>3, <1>1, <1>3, <1>4 DEF Grown
  <2> QED BY <2>2, <2>4, <2>5, <1>4
<1> QED BY <1>2, <1>4 DEF Grown

LEMMA GrownNot == ASSUME NEW n \in MStates, NEW gone PROVE Grown(n, n, gone)
BY DEF Grown, MStates

LEMMA GrownMore ==
  ASSUME NEW n, NEW r, NEW gone, Grown(n, r, {})
  PROVE  Grown(n, r, gone)
BY DEF Grown

-----------------------------------------------------------------------------
(* Forking.                                                                *)

(* What up to i forks lead to.                                             *)
Upto(n, i, r, gone) ==
  /\ Sane(r, gone) /\ Grown(n, r, {})
  /\ r.listening => n.listening /\ r.avail = n.avail /\ r.total = n.total
  /\ r.reloading => n.reloading
  /\ r.total <= n.total + i
  /\ i > 0 => r.avail > 0 \/ r.throttled \/ r.panicked

LEMMA FreePidFree ==
  ASSUME NEW n, FreePids(n) # {}
  PROVE  FreePid(n) \in Pids /\ os[FreePid(n)] = None /\ n.table[FreePid(n)] = None
BY DEF FreePid, FreePids

(* acl_master_avail_more, field by field.                                  *)
LEMMA MoreIs ==
  ASSUME NEW n \in MStates, NEW p \in Pids, n.table[p] # None
  PROVE  LET r == acl_master_avail_more(n, p)
         IN  /\ r \in MStates
             /\ r.avail = n.avail + 1 /\ r.table[p] = [n.table[p] EXCEPT !.avail = AVAIL]
             /\ \A q \in Pids \ {p} : r.table[q] = n.table[q]
             /\ r.listening = FALSE /\ r.total = n.total /\ r.gen = n.gen
             /\ r.reloading = n.reloading /\ r.throttled = n.throttled
             /\ r.panicked = n.panicked
<1> DEFINE r == acl_master_avail_more(n, p)
           e == [n.table[p] EXCEPT !.avail = AVAIL]
           a == [n EXCEPT !.avail = @ + 1]
           b == [a EXCEPT !.table[p] = e]
           c == [b EXCEPT !.listening = FALSE]
<1>1. n.table[p] \in Entries
  BY DEF MStates
<1>2. e \in Entries
  BY <1>1 DEF Entries
<1>3. a \in MStates /\ a.table = n.table /\ a.avail = n.avail + 1 /\ a.total = n.total
      /\ a.gen = n.gen /\ a.reloading = n.reloading /\ a.throttled = n.throttled
      /\ a.panicked = n.panicked
  BY DEF MStates
<1>4. r = c
  BY <1>3 DEF acl_master_avail_more, MStates
<1> HIDE DEF a, e
<1>5. b \in MStates
  BY <1>2, <1>3, SetEntry
<1>6. b.table = [a.table EXCEPT ![p] = e] /\ b.avail = a.avail /\ b.total = a.total
      /\ b.gen = a.gen /\ b.reloading = a.reloading /\ b.throttled = a.throttled
      /\ b.panicked = a.panicked
  BY <1>3 DEF MStates
<1> HIDE DEF b
<1>7. c \in MStates
  BY <1>5, SetListening
<1>8. c.table = b.table /\ c.avail = b.avail /\ c.total = b.total /\ c.gen = b.gen
      /\ c.reloading = b.reloading /\ c.throttled = b.throttled /\ c.panicked = b.panicked
      /\ c.listening = FALSE
  BY <1>5 DEF MStates
<1> HIDE DEF c, r
<1>9. c.table = [n.table EXCEPT ![p] = e] /\ DOMAIN n.table = Pids
  BY <1>3, <1>6, <1>8 DEF MStates
<1>10. c.table[p] = e /\ \A q \in Pids \ {p} : c.table[q] = n.table[q]
  BY <1>9
<1> QED BY <1>3, <1>4, <1>6, <1>7, <1>8, <1>10 DEF r, e

(* A fork that succeeds.                                                   *)
LEMMA ForkedIs ==
  ASSUME NEW n \in MStates, FreePids(n) # {}
  PROVE  \E q \in Pids :
           LET r == Forked(n)
           IN  /\ os[q] = None /\ n.table[q] = None
               /\ r \in MStates /\ r.total = n.total + 1 /\ r.avail = n.avail + 1
               /\ r.table[q] \in Entries /\ r.table[q].avail = AVAIL /\ r.table[q].gen = n.gen
               /\ \A p \in Pids \ {q} : r.table[p] = n.table[p]
               /\ r.listening = FALSE /\ r.gen = n.gen /\ r.reloading = n.reloading
<1>1. PICK q : q = FreePid(n)
  OBVIOUS
<1>2. q \in Pids /\ os[q] = None /\ n.table[q] = None
  BY <1>1, FreePidFree
<1> DEFINE e == [gen |-> n.gen, avail |-> TAKEN, used |-> FALSE]
           a == [n EXCEPT !.total = @ + 1]
           b == [a EXCEPT !.table[q] = e]
           r == acl_master_avail_more(b, q)
<1>3. Forked(n) = r
  BY <1>1 DEF Forked
<1>4. e \in Entries /\ e # None /\ e.gen = n.gen
  <2>1. n.gen \in Nat
    BY DEF MStates
  <2> QED BY <2>1, NewEntry
<1>5. a \in MStates /\ a.table = n.table /\ a.avail = n.avail /\ a.total = n.total + 1
      /\ a.gen = n.gen /\ a.reloading = n.reloading
  BY DEF MStates
<1> HIDE DEF e, a
<1>6. b \in MStates
  BY <1>2, <1>4, <1>5, SetEntry
<1>7. b.table = [n.table EXCEPT ![q] = e] /\ DOMAIN n.table = Pids /\ b.avail = a.avail
      /\ b.total = a.total /\ b.gen = a.gen /\ b.reloading = a.reloading
  BY <1>5 DEF MStates
<1> HIDE DEF b
<1>8. b.table[q] = e /\ \A p \in Pids \ {q} : b.table[p] = n.table[p]
  BY <1>2, <1>7
<1>9. /\ r \in MStates
      /\ r.avail = b.avail + 1 /\ r.table[q] = [b.table[q] EXCEPT !.avail = AVAIL]
      /\ \A p \in Pids \ {q} : r.table[p] = b.table[p]
      /\ r.listening = FALSE /\ r.total = b.total /\ r.gen = b.gen
      /\ r.reloading = b.reloading
  BY <1>2, <1>4, <1>6, <1>8, MoreIs
<1> HIDE DEF r
<1>10. r.table[q] = [e EXCEPT !.avail = AVAIL]
  BY <1>8, <1>9
<1>11. r.table[q] \in Entries /\ r.table[q].avail = AVAIL /\ r.table[q].gen = n.gen
  BY <1>4, <1>10 DEF Entries
<1>12. r.total = n.total + 1 /\ r.avail = n.avail + 1 /\ r.gen = n.gen
       /\ r.reloading = n.reloading
  BY <1>5, <1>7, <1>9
<1>13. \A p \in Pids \ {q} : r.table[p] = n.table[p]
  BY <1>8, <1>9
<1>14. r \in MStates /\ r.listening = FALSE
  BY <1>9
<1> QED BY <1>2, <1>3, <1>11, <1>12, <1>13, <1>14

LEMMA SpawnUpto ==
  ASSUME NEW n, NEW gone, Sane(n, gone)
  PROVE  Upto(n, 1, acl_master_spawn(n), gone)
<1> DEFINE r == acl_master_spawn(n)
           tried == [n EXCEPT !.reloading = FALSE, !.gen = @ + 1, !.luck = @ - 1]
           low == [n EXCEPT !.reloading = FALSE]
<1>0. n \in MStates /\ n.total \in Nat /\ n.avail \in Nat /\ n.gen \in Nat /\ n.luck \in Int
      /\ n.failed \in Nat
  BY CountsNat DEF Sane, MStates
<1>1. low \in MStates
  BY <1>0, SetReloading
<1>2. tried \in MStates /\ tried.table = n.table /\ tried.total = n.total
      /\ tried.avail = n.avail /\ tried.gen = n.gen + 1 /\ tried.reloading = FALSE
      /\ tried.listening = n.listening
  <2> DEFINE next == [low EXCEPT !.gen = n.gen + 1]
  <2>1. tried = [next EXCEPT !.luck = n.luck - 1]
    BY <1>0 DEF MStates
  <2>2. next \in MStates
    <3> HIDE DEF low
    <3> QED BY <1>0, <1>1, SetGen
  <2>3. tried \in MStates
    <3> HIDE DEF next, tried
    <3> QED BY <1>0, <2>1, <2>2, SetLuck
  <2> QED BY <1>0, <2>3 DEF MStates
<1>3. CASE n.throttled
  <2>1. r = [low EXCEPT !.panicked = TRUE]
    BY <1>3 DEF acl_master_spawn
  <2>2. r \in MStates
    <3> HIDE DEF low, r
    <3> QED BY <2>1, <1>1, SetPanicked
  <2>3. r.table = n.table /\ r.gen = n.gen /\ r.total = n.total
        /\ r.avail = n.avail /\ r.listening = n.listening /\ r.panicked = TRUE /\ r.reloading = FALSE
    BY <2>1, <1>0 DEF MStates
  <2> HIDE DEF r, low, tried
  <2>4. Sane(r, gone)
    BY <2>2, <2>3 DEF Sane, Counts, Children, Idle
  <2>5. Grown(n, r, {})
    BY <2>3, <1>0 DEF Grown
  <2> QED BY <2>3, <2>4, <2>5, <1>0 DEF Upto, r
<1>4. CASE ~n.throttled /\ n.luck > 0 /\ FreePids(n) # {}
  <2>1. r = Forked(tried)
    BY <1>4 DEF acl_master_spawn
  <2> HIDE DEF r, low, tried
  <2>2. FreePids(tried) # {}
    BY <1>2, <1>4 DEF FreePids
  <2>3. PICK q \in Pids :
          /\ os[q] = None /\ tried.table[q] = None
          /\ r \in MStates /\ r.total = tried.total + 1 /\ r.avail = tried.avail + 1
          /\ r.table[q] \in Entries /\ r.table[q].avail = AVAIL /\ r.table[q].gen = tried.gen
          /\ \A p \in Pids \ {q} : r.table[p] = tried.table[p]
          /\ r.listening = FALSE /\ r.gen = tried.gen /\ r.reloading = tried.reloading
    BY <1>2, <2>1, <2>2, ForkedIs
  <2>4. r.table[q] \in Entries /\ r.table[q].avail = AVAIL /\ r.table[q].gen = n.gen + 1
        /\ r.table[q] # None
    BY <1>2, <2>3, MasterAssumption
  <2>5. \A p \in Pids \ {q} : r.table[p] = n.table[p]
    BY <1>2, <2>3
  <2>6. Children(r) = Children(n) \cup {q} /\ q \notin Children(n)
    BY <1>2, <2>3, <2>4, <2>5 DEF Children
  <2>7. Idle(r) = Idle(n) \cup {q} /\ q \notin Idle(n)
    BY <2>4, <2>5, <2>6 DEF Idle, Children
  <2>8. gone \subseteq Children(n) /\ conf \in Services
    BY DEF Sane
  <2>9. Children(r) \ gone = (Children(n) \ gone) \cup {q} /\ q \notin Children(n) \ gone
    BY <2>6, <2>8
  <2>10. Cardinality(Children(r) \ gone) = Cardinality(Children(n) \ gone) + 1
    BY <2>9, CountsNat, FS_AddElement
  <2>11. Cardinality(Idle(r)) = Cardinality(Idle(n)) + 1
    BY <2>7, CountsNat, FS_AddElement
  <2>12. r.total = n.total + 1 /\ r.avail = n.avail + 1 /\ r.gen = n.gen + 1
         /\ r.listening = FALSE /\ r.reloading = FALSE
    BY <1>2, <2>3
  <2>13. Counts(r, gone)
    BY <2>10, <2>11, <2>12 DEF Counts, Sane
  <2>14. Sane(r, gone)
    BY <2>3, <2>6, <2>8, <2>13 DEF Sane
  <2>15. Grown(n, r, {})
    BY <1>0, <1>2, <2>3, <2>4, <2>5, <2>12 DEF Grown
  <2> QED BY <2>12, <2>14, <2>15, <1>0 DEF Upto, r
<1>5. CASE ~n.throttled /\ ~(n.luck > 0 /\ FreePids(n) # {})
  <2> DEFINE tired == [tried EXCEPT !.luck = 0, !.failed = @ + 1]
  <2>1. r = [tired EXCEPT !.throttled = TRUE]
    BY <1>5 DEF acl_master_spawn, master_throttle
  <2> HIDE DEF r, low, tried
  <2> DEFINE spent == [tried EXCEPT !.luck = 0]
  <2>2. tired = [spent EXCEPT !.failed = tried.failed + 1] /\ tried.failed + 1 \in Nat
    BY <1>2 DEF MStates
  <2>3. spent \in MStates
    BY <1>2, SetLuck
  <2>4. tired \in MStates
    <3> HIDE DEF tired, spent
    <3> QED BY <2>2, <2>3, SetFailed
  <2>5. r.table = n.table /\ r.gen = n.gen + 1 /\ r.total = n.total /\ r.avail = n.avail
        /\ r.listening = n.listening /\ r.throttled = TRUE /\ r.reloading = FALSE
    BY <1>2, <2>1 DEF MStates
  <2> HIDE DEF tired
  <2>6. r \in MStates
    BY <2>1, <2>4, SetThrottled
  <2>7. Sane(r, gone)
    BY <2>5, <2>6 DEF Sane, Counts, Children, Idle
  <2>8. Grown(n, r, {})
    BY <2>5, <1>0 DEF Grown
  <2> QED BY <2>5, <2>7, <2>8, <1>0 DEF Upto, r
<1> QED BY <1>3, <1>4, <1>5

LEMMA UptoMore ==
  ASSUME NEW n \in MStates, NEW i \in Nat, NEW s, NEW r, NEW gone, n.total \in Nat,
         Upto(n, i, s, gone), Upto(s, 1, r, gone)
  PROVE  Upto(n, i + 1, r, gone)
<1>1. s \in MStates /\ r \in MStates /\ s.total \in Nat /\ r.total \in Nat
  BY CountsNat DEF Upto, Sane
<1>2. Grown(n, r, {})
  BY <1>1, GrownTwice DEF Upto
<1> QED BY <1>1, <1>2 DEF Upto

LEMMA UptoNone ==
  ASSUME NEW n, NEW gone, Sane(n, gone)
  PROVE  Upto(n, 0, n, gone)
<1>1. n \in MStates /\ n.total \in Nat
  BY CountsNat DEF Sane
<1> QED BY <1>1, GrownNot DEF Upto

LEMMA PreforkNat ==
  ASSUME NEW n, NEW gone, Sane(n, gone)
  PROVE  PreforkCount(n) \in Nat
<1>1. n.total \in Nat /\ conf \in Services /\ n.reloading \in BOOLEAN
  BY CountsNat DEF Sane, MStates
<1> QED BY <1>1, ConfFacts DEF PreforkCount, Least

(* What a turn of the loop of master_prefork leads to.                     *)
PreforkTurn(s) == IF s.panicked THEN s ELSE acl_master_spawn(s)

(* The loop runs as many times as it says.                                 *)
LEMMA PreforkRuns ==
  ASSUME NEW n, NEW gone, Sane(n, gone), NEW k \in Nat, k = PreforkCount(n)
  PROVE  \E f : /\ f = [i \in 0 .. k |-> IF i = 0 THEN n ELSE PreforkTurn(f[i - 1])]
                /\ master_prefork(n) = f[k]
<1> DEFINE S == {s \in MStates : Sane(s, gone)}
           Runs(f) == f = [i \in 0 .. k |-> IF i = 0 THEN n ELSE PreforkTurn(f[i - 1])]
           step == [i \in 1 .. k |-> [s \in S |-> PreforkTurn(s)]]
<1>1. n \in S
  BY DEF Sane
<1>2. ASSUME NEW s \in S PROVE PreforkTurn(s) \in S
  <2>1. Upto(s, 1, acl_master_spawn(s), gone)
    BY SpawnUpto
  <2>2. acl_master_spawn(s) \in S
    BY <2>1 DEF Upto, Sane
  <2> QED BY <2>2 DEF PreforkTurn
<1>3. step \in [1 .. k -> [S -> S]]
  BY <1>2
<1>4. PICK f \in [0 .. k -> S] : f[0] = n /\ \A i \in 1 .. k : f[i] = step[i][f[i - 1]]
  <2>1. PICK T, g : T = S /\ g = step
    OBVIOUS
  <2>2. k \in Nat /\ n \in T /\ g \in [1 .. k -> [T -> T]]
    BY <1>1, <1>3, <2>1
  <2>3. \E f \in [0 .. k -> T] : f[0] = n /\ \A i \in 1 .. k : f[i] = g[i][f[i - 1]]
    BY ONLY <2>2, Repeats
  <2> HIDE DEF S, step
  <2> QED BY <2>1, <2>3
<1>5. ASSUME NEW i \in 1 .. k PROVE f[i] = PreforkTurn(f[i - 1])
  <2>1. f[i - 1] \in S
    BY <1>4
  <2> HIDE DEF S
  <2> QED BY <2>1, <1>4
<1>6. Runs(f)
  BY <1>4, <1>5
<1>7. Runs(CHOOSE g : Runs(g))
  BY <1>6
<1>8. master_prefork(n) = (CHOOSE g : Runs(g))[k]
  BY DEF master_prefork, PreforkTurn
<1> QED BY <1>7, <1>8

LEMMA PreforkUpto ==
  ASSUME NEW n, NEW gone, Sane(n, gone)
  PROVE  Upto(n, PreforkCount(n), master_prefork(n), gone)
<1>1. n \in MStates /\ n.total \in Nat
  BY CountsNat DEF Sane
<1>2. PICK k \in Nat : k = PreforkCount(n)
  BY PreforkNat
<1>3. PICK f : /\ f = [i \in 0 .. k |-> IF i = 0 THEN n ELSE PreforkTurn(f[i - 1])]
               /\ master_prefork(n) = f[k]
  BY <1>2, PreforkRuns
<1>4. PICK S : S = {x \in (0 .. k) \X MStates : Upto(n, x[1], x[2], gone)}
  OBVIOUS
<1>5. PICK g : g = [i \in 0 .. k |-> <<i, f[i]>>]
  OBVIOUS
<1>6. g[0] \in S
  <2>1. f[0] = n
    BY <1>3
  <2> QED BY <1>1, <1>4, <1>5, <2>1, UptoNone
<1>7. ASSUME NEW i \in 1 .. k, g[i - 1] \in S PROVE g[i] \in S
  <2>1. i - 1 \in 0 .. k /\ i - 1 \in Nat /\ i \in 0 .. k /\ i # 0 /\ (i - 1) + 1 = i
    OBVIOUS
  <2>2. PICK s : s = f[i - 1]
    OBVIOUS
  <2>3. s \in MStates /\ Upto(n, i - 1, s, gone)
    BY <1>4, <1>5, <1>7, <2>1, <2>2
  <2>4. f[i] = PreforkTurn(s)
    BY <1>3, <2>1, <2>2
  <2>5. Sane(s, gone) /\ s.total \in Nat
    BY <2>3, CountsNat DEF Upto
  <2>6. CASE s.panicked
    <3>1. f[i] = s
      BY <2>4, <2>6 DEF PreforkTurn
    <3>2. Upto(n, i, s, gone)
      BY <2>1, <2>3, <2>5, <2>6, <1>1 DEF Upto
    <3> QED BY <1>4, <1>5, <2>1, <2>3, <3>1, <3>2
  <2>7. CASE ~s.panicked
    <3>1. PICK r : r = acl_master_spawn(s)
      OBVIOUS
    <3>2. f[i] = r
      BY <2>4, <2>7, <3>1 DEF PreforkTurn
    <3>3. Upto(s, 1, r, gone)
      BY <2>5, <3>1, SpawnUpto
    <3>4. PICK j \in Nat : j = i - 1
      BY <2>1
    <3>5. Upto(n, j + 1, r, gone)
      BY <1>1, <2>3, <3>3, <3>4, UptoMore
    <3>6. Upto(n, i, r, gone) /\ r \in MStates
      BY <2>1, <3>4, <3>5 DEF Upto, Sane
    <3> QED BY <1>4, <1>5, <2>1, <3>2, <3>6
  <2> QED BY <2>6, <2>7
<1>8. \A i \in 0 .. k : g[i] \in S
  BY <1>6, <1>7, HoldsThroughout
<1>9. g[k] \in S /\ g[k] = <<k, f[k]>>
  BY <1>5, <1>8
<1>10. Upto(n, k, f[k], gone)
  BY <1>4, <1>9
<1> QED BY <1>2, <1>3, <1>10

-----------------------------------------------------------------------------
(* Listening.                                                              *)

(* What a handler, or a part of one, leads to.                             *)
Leads(n, r, gone, lost) ==
  Sane(r, gone) /\ Grown(n, r, lost) /\ (Fresh(n) => Fresh(r))

(* Forking as long as there is room for it keeps the service fresh.        *)
LEMMA UptoLeads ==
  ASSUME NEW n, NEW i \in Nat, NEW r, NEW gone, Sane(n, gone), Upto(n, i, r, gone), i > 0,
         Fresh(n) /\ conf.max > 0 => n.total + i <= conf.max
  PROVE  Leads(n, r, gone, {}) /\ LOK(r)
<1>1. Sane(r, gone) /\ r.total \in Nat /\ n.total \in Nat /\ r.avail \in Nat /\ conf.max \in Nat
  BY CountsNat, ConfFacts DEF Upto, Sane
<1>2. LOK(r)
  BY <1>1 DEF Upto, LOK
<1>3. ASSUME Fresh(n) PROVE Fresh(r)
  BY <1>1, <1>3 DEF Upto, Fresh, LIMIT_OK
<1> QED BY <1>1, <1>2, <1>3 DEF Leads, Upto

LEMMA ListenLeads ==
  ASSUME NEW n, NEW gone, Sane(n, gone)
  PROVE  LET r == acl_master_avail_listen(n)
         IN  Leads(n, r, gone, {}) /\ LOK(r)
<1> DEFINE r == acl_master_avail_listen(n)
<1>1. n \in MStates /\ n.total \in Nat /\ n.avail \in Nat /\ conf.max \in Nat /\ conf.prefork \in Nat
      /\ (conf.max > 0 => conf.prefork <= conf.max) /\ n.reloading \in BOOLEAN
  BY CountsNat, ConfFacts DEF Sane, MStates
<1>2. Leads(n, n, gone, {})
  BY <1>1, GrownNot DEF Leads
<1>3. PreforkCount(n) \in Nat
  BY PreforkNat
<1>4. CASE n.throttled
  <2>1. r = n
    BY <1>4 DEF acl_master_avail_listen
  <2>2. LOK(n)
    BY <1>4 DEF LOK
  <2> QED BY <1>2, <2>1, <2>2
<1>5. CASE ~n.throttled /\ PreforkCount(n) > 0
  <2>1. r = master_prefork(n)
    BY <1>5 DEF acl_master_avail_listen
  <2>2. PICK k \in Nat : k = PreforkCount(n)
    BY <1>3
  <2>3. Upto(n, k, r, gone)
    BY <2>1, <2>2, PreforkUpto
  <2>4. ASSUME Fresh(n), conf.max > 0 PROVE n.total + k <= conf.max
    BY <1>1, <1>5, <2>2, <2>4 DEF PreforkCount, Least, Fresh
  <2> HIDE DEF r
  <2>5. Leads(n, r, gone, {}) /\ LOK(r)
    BY <1>5, <2>2, <2>3, <2>4, UptoLeads
  <2> QED BY <2>5 DEF r
<1>6. CASE ~n.throttled /\ ~(PreforkCount(n) > 0) /\ ~n.reloading /\ (n.avail > 0 \/ ~LIMIT_OK(n.total))
  <2>1. r = n
    BY <1>3, <1>6 DEF acl_master_avail_listen
  <2>2. LOK(n)
    BY <1>6, <1>1 DEF LOK
  <2> QED BY <1>2, <2>1, <2>2
<1>7. CASE ~n.throttled /\ ~(PreforkCount(n) > 0)
           /\ ~(~n.reloading /\ (n.avail > 0 \/ ~LIMIT_OK(n.total)))
  <2>1. r = [n EXCEPT !.listening = TRUE]
    BY <1>7 DEF acl_master_avail_listen
  <2>2. r \in MStates
    BY <1>1, <2>1, SetListening
  <2>3. r.table = n.table /\ r.gen = n.gen /\ r.total = n.total /\ r.avail = n.avail
        /\ r.listening = TRUE /\ r.reloading = n.reloading /\ r.throttled = n.throttled
    BY <1>1, <2>1 DEF MStates
  <2> HIDE DEF r
  <2>4. Sane(r, gone)
    BY <2>2, <2>3 DEF Sane, Counts, Children, Idle
  <2>5. Grown(n, r, {})
    BY <2>3, <1>1 DEF Grown, MStates
  <2>6. Fresh(n) => Fresh(r)
    BY <1>1, <1>7, <2>3 DEF Fresh
  <2>7. LOK(r)
    BY <2>3 DEF LOK
  <2> QED BY <2>4, <2>5, <2>6, <2>7 DEF Leads, r
<1> QED BY <1>4, <1>5, <1>6, <1>7

-----------------------------------------------------------------------------
(* A child that is idle, or not, any more.                                 *)

(* The entry of p is marked: its status is a, and nothing else changed.    *)
Marked(n, d, p, a) ==
  /\ d.gen = n.gen
  /\ d.table[p] \in Entries /\ d.table[p].gen = n.table[p].gen /\ d.table[p].avail = a
  /\ \A q \in Pids \ {p} : d.table[q] = n.table[q]

LEMMA StatusTwo == AVAIL # TAKEN
BY DEF AVAIL, TAKEN

(* acl_master_avail_less, before it listens.                               *)
Lessened(n, p) == [n EXCEPT !.avail = @ - 1, !.table[p].avail = TAKEN]

LEMMA LessenedIs ==
  ASSUME NEW n, NEW gone, Sane(n, gone), NEW p \in Idle(n)
  PROVE  LET d == Lessened(n, p)
         IN  Sane(d, gone) /\ Marked(n, d, p, TAKEN) /\ (Fresh(n) => Fresh(d))
<1> DEFINE e == [n.table[p] EXCEPT !.avail = TAKEN]
           a == [n EXCEPT !.avail = @ - 1]
           d == [a EXCEPT !.table[p] = e]
<1>1. n \in MStates /\ n.avail \in Nat /\ n.total \in Nat
  BY CountsNat DEF Sane
<1>2. p \in Pids /\ n.table[p] \in Entries /\ n.table[p].avail = AVAIL
  BY <1>1 DEF Idle, Children, MStates
<1>3. e \in Entries /\ e.avail = TAKEN /\ e.gen = n.table[p].gen /\ e # None
  <2>1. e \in Entries /\ e.avail = TAKEN /\ e.gen = n.table[p].gen
    BY <1>2 DEF Entries
  <2> QED BY <2>1, MasterAssumption
<1>4. a \in MStates /\ a.table = n.table /\ a.avail = n.avail - 1 /\ a.total = n.total
      /\ a.gen = n.gen /\ a.reloading = n.reloading /\ a.listening = n.listening
  BY <1>1 DEF MStates
<1>5. Lessened(n, p) = d
  BY <1>1, <1>4 DEF Lessened, MStates
<1> HIDE DEF a, e
<1>6. d \in MStates
  BY <1>2, <1>3, <1>4, SetEntry
<1>7. d.table = [n.table EXCEPT ![p] = e] /\ DOMAIN n.table = Pids /\ d.avail = a.avail
      /\ d.total = a.total /\ d.gen = a.gen /\ d.reloading = a.reloading
      /\ d.listening = a.listening
  BY <1>4 DEF MStates
<1> HIDE DEF d
<1>8. d.table[p] = e /\ \A q \in Pids \ {p} : d.table[q] = n.table[q]
  BY <1>2, <1>7
<1>9. Children(d) = Children(n)
  BY <1>2, <1>3, <1>8 DEF Children, Idle
<1>10. Idle(d) = Idle(n) \ {p}
  BY <1>3, <1>8, <1>9, StatusTwo DEF Idle, Children
<1>11. Cardinality(Idle(d)) = Cardinality(Idle(n)) - 1
  BY <1>10, CountsNat, FS_RemoveElement
<1>12. Sane(d, gone)
  BY <1>4, <1>6, <1>7, <1>9, <1>11 DEF Sane, Counts
<1>13. n.avail # 0
  BY <1>1, <1>11, <1>12, CountsNat DEF Sane, Counts
<1>14. Fresh(n) => Fresh(d)
  BY <1>4, <1>7, <1>13 DEF Fresh
<1>15. Marked(n, d, p, TAKEN)
  BY <1>3, <1>4, <1>7, <1>8 DEF Marked
<1> QED BY <1>5, <1>12, <1>14, <1>15

LEMMA LessIs ==
  ASSUME NEW n, NEW gone, Sane(n, gone), NEW p \in Idle(n)
  PROVE  LET r == acl_master_avail_less(n, p)
         IN  /\ Sane(r, gone) /\ LOK(r) /\ (Fresh(n) => Fresh(r))
             /\ \E d : Sane(d, gone) /\ Marked(n, d, p, TAKEN) /\ Grown(d, r, {})
<1>1. PICK d : d = Lessened(n, p)
  OBVIOUS
<1>2. Sane(d, gone) /\ Marked(n, d, p, TAKEN) /\ (Fresh(n) => Fresh(d))
  BY <1>1, LessenedIs
<1>3. PICK r : r = acl_master_avail_less(n, p)
  OBVIOUS
<1>4. r = acl_master_avail_listen(d)
  BY <1>1, <1>3 DEF acl_master_avail_less, Lessened
<1>5. Leads(d, r, gone, {}) /\ LOK(r)
  BY <1>2, <1>4, ListenLeads
<1> QED BY <1>2, <1>3, <1>5 DEF Leads

LEMMA MoreLeads ==
  ASSUME NEW n, NEW gone, Sane(n, gone), NEW p \in Children(n) \ Idle(n)
  PROVE  LET r == acl_master_avail_more(n, p)
         IN  Sane(r, gone) /\ LOK(r) /\ (Fresh(n) => Fresh(r)) /\ Marked(n, r, p, AVAIL)
<1> DEFINE e == [n.table[p] EXCEPT !.avail = AVAIL]
<1>1. n \in MStates /\ n.avail \in Nat /\ n.total \in Nat
  BY CountsNat DEF Sane
<1>2. p \in Pids /\ n.table[p] \in Entries /\ n.table[p] # None
  BY <1>1 DEF Children, MStates
<1>3. e \in Entries /\ e.avail = AVAIL /\ e.gen = n.table[p].gen /\ e # None
  <2>1. e \in Entries /\ e.avail = AVAIL /\ e.gen = n.table[p].gen
    BY <1>2 DEF Entries
  <2> QED BY <2>1, MasterAssumption
<1>4. PICK r : r = acl_master_avail_more(n, p)
  OBVIOUS
<1>5. /\ r \in MStates
      /\ r.avail = n.avail + 1 /\ r.table[p] = e
      /\ \A q \in Pids \ {p} : r.table[q] = n.table[q]
      /\ r.listening = FALSE /\ r.total = n.total /\ r.gen = n.gen
      /\ r.reloading = n.reloading
  BY <1>1, <1>2, <1>4, MoreIs
<1> HIDE DEF e
<1>6. Children(r) = Children(n)
  BY <1>2, <1>3, <1>5 DEF Children
<1>7. Idle(r) = Idle(n) \cup {p} /\ p \notin Idle(n)
  BY <1>2, <1>3, <1>5, <1>6 DEF Idle, Children
<1>8. Cardinality(Idle(r)) = Cardinality(Idle(n)) + 1
  BY <1>7, CountsNat, FS_AddElement
<1>9. Sane(r, gone)
  BY <1>5, <1>6, <1>8 DEF Sane, Counts
<1>10. LOK(r)
  BY <1>1, <1>5 DEF LOK
<1>11. Fresh(n) => Fresh(r)
  BY <1>5 DEF Fresh
<1>12. Marked(n, r, p, AVAIL)
  BY <1>3, <1>5 DEF Marked
<1> QED BY <1>4, <1>9, <1>10, <1>11, <1>12

-----------------------------------------------------------------------------
(* Deaths.                                                                 *)

(* The entry of a child that is not counted any more goes.                 *)
LEMMA DropLeads ==
  ASSUME NEW n \in MStates, NEW p \in Pids, NEW d, NEW told,
         Sane(d, {p}), Leads(d, told, {p}, {}),
         d.gen = n.gen, d.table[p].avail # AVAIL, \A q \in Pids \ {p} : d.table[q] = n.table[q]
  PROVE  LET r == [told EXCEPT !.table[p] = None]
         IN  /\ Sane(r, {}) /\ Grown(n, r, {p})
             /\ (Fresh(d) => Fresh(r)) /\ (LOK(told) => LOK(r))
<1>1. PICK r : r = [told EXCEPT !.table[p] = None]
  OBVIOUS
<1>2. told \in MStates /\ Sane(told, {p}) /\ Grown(d, told, {}) /\ (Fresh(d) => Fresh(told))
  BY DEF Leads, Sane
<1>3. r \in MStates
  BY <1>1, <1>2, SetEntry
<1>4. r.table = [told.table EXCEPT ![p] = None] /\ DOMAIN told.table = Pids
      /\ r.total = told.total /\ r.avail = told.avail /\ r.gen = told.gen
      /\ r.listening = told.listening /\ r.reloading = told.reloading
      /\ r.throttled = told.throttled /\ r.panicked = told.panicked
  BY <1>1, <1>2 DEF MStates
<1>5. r.table[p] = None /\ \A q \in Pids \ {p} : r.table[q] = told.table[q]
  BY <1>4
<1>6. d.table[p] # None
  BY DEF Sane, Children
<1>7. told.table[p] = d.table[p]
  BY <1>2, <1>6 DEF Grown
<1>8. Children(r) \ {} = Children(told) \ {p}
  BY <1>5 DEF Children
<1>9. Idle(r) = Idle(told)
  BY <1>5, <1>7 DEF Idle, Children
<1>10. Sane(r, {})
  BY <1>2, <1>3, <1>4, <1>8, <1>9 DEF Sane, Counts
<1>11. Grown(n, r, {p})
  BY <1>2, <1>4, <1>5 DEF Grown
<1>12. (Fresh(d) => Fresh(r)) /\ (LOK(told) => LOK(r))
  BY <1>2, <1>4 DEF Fresh, LOK
<1> QED BY <1>1, <1>10, <1>11, <1>12

(* The child is not counted any more.                                      *)
LEMMA FewerSane ==
  ASSUME NEW n, Sane(n, {}), NEW p \in Children(n), NEW d, d = [n EXCEPT !.total = @ - 1]
  PROVE  /\ Sane(d, {p}) /\ (Fresh(n) => Fresh(d))
         /\ d.gen = n.gen /\ d.table = n.table /\ d.avail = n.avail /\ d.total = n.total - 1
<1>1. n \in MStates /\ n.avail \in Nat /\ n.total \in Nat /\ conf.max \in Nat
  BY CountsNat, ConfFacts DEF Sane
<1>3. d \in MStates
  BY <1>1, SetTotal
<1>4. d.gen = n.gen /\ d.table = n.table /\ d.avail = n.avail /\ d.total = n.total - 1
      /\ d.listening = n.listening /\ d.reloading = n.reloading
  BY <1>1 DEF MStates
<1>5. Children(d) = Children(n) /\ Idle(d) = Idle(n) /\ Children(n) \ {} = Children(n)
  BY <1>4 DEF Children, Idle
<1>6. Cardinality(Children(n) \ {p}) = Cardinality(Children(n)) - 1
  BY <1>5, CountsNat, FS_RemoveElement
<1>7. Sane(d, {p})
  BY <1>3, <1>4, <1>5, <1>6 DEF Sane, Counts
<1>8. Fresh(n) => Fresh(d)
  BY <1>1, <1>4 DEF Fresh, LIMIT_OK
<1> QED BY <1>4, <1>7, <1>8

LEMMA DeleteLeads ==
  ASSUME NEW n, Sane(n, {}), NEW p \in Children(n)
  PROVE  LET r == master_delete_child(n, p)
         IN  Leads(n, r, {}, {p}) /\ LOK(r)
<1>0. n \in MStates /\ p \in Pids /\ n.table[p] \in Entries /\ n.avail \in Nat
  BY CountsNat DEF Sane, Children, MStates
<1>1. PICK f : f = [n EXCEPT !.total = @ - 1]
  OBVIOUS
<1>2. /\ Sane(f, {p}) /\ (Fresh(n) => Fresh(f))
      /\ f.gen = n.gen /\ f.table = n.table /\ f.avail = n.avail
  BY <1>1, FewerSane
<1>3. PICK r : r = master_delete_child(n, p)
  OBVIOUS
<1>4. CASE n.table[p].avail = AVAIL
  <2>1. PICK told : told = acl_master_avail_less(f, p)
    OBVIOUS
  <2>2. r = [told EXCEPT !.table[p] = None]
    BY <1>1, <1>3, <1>4, <2>1 DEF master_delete_child
  <2>3. p \in Idle(f)
    BY <1>2, <1>4 DEF Idle, Children
  <2>4. PICK d : d = Lessened(f, p)
    OBVIOUS
  <2>5. Sane(d, {p}) /\ Marked(f, d, p, TAKEN) /\ (Fresh(f) => Fresh(d))
    BY <1>2, <2>3, <2>4, LessenedIs
  <2>6. told = acl_master_avail_listen(d)
    BY <2>1, <2>4 DEF acl_master_avail_less, Lessened
  <2>7. Leads(d, told, {p}, {}) /\ LOK(told)
    BY <2>5, <2>6, ListenLeads
  <2>8. d.gen = n.gen /\ d.table[p].avail # AVAIL /\ \A q \in Pids \ {p} : d.table[q] = n.table[q]
    BY <1>2, <2>5, StatusTwo DEF Marked
  <2>9. Sane(r, {}) /\ Grown(n, r, {p}) /\ (Fresh(d) => Fresh(r)) /\ LOK(r)
    BY <1>0, <2>2, <2>5, <2>7, <2>8, DropLeads
  <2> QED BY <1>2, <1>3, <2>5, <2>9 DEF Leads
<1>5. CASE n.table[p].avail # AVAIL
  <2>1. PICK told : told = IF LIMIT_OK(f.total) /\ n.avail < 1 THEN acl_master_avail_listen(f) ELSE f
    OBVIOUS
  <2>2. r = [told EXCEPT !.table[p] = None]
    BY <1>1, <1>3, <1>5, <2>1 DEF master_delete_child
  <2>3. Leads(f, told, {p}, {}) /\ LOK(told)
    <3>1. CASE LIMIT_OK(f.total) /\ n.avail < 1
      BY <1>2, <2>1, <3>1, ListenLeads
    <3>2. CASE ~(LIMIT_OK(f.total) /\ n.avail < 1)
      <4>1. told = f /\ f \in MStates
        BY <1>2, <2>1, <3>2 DEF Sane
      <4>2. LOK(f)
        BY <1>0, <1>2, <3>2 DEF LOK
      <4> QED BY <1>2, <4>1, <4>2, GrownNot DEF Leads
    <3> QED BY <3>1, <3>2
  <2>4. Sane(r, {}) /\ Grown(n, r, {p}) /\ (Fresh(f) => Fresh(r)) /\ LOK(r)
    BY <1>0, <1>2, <1>5, <2>2, <2>3, DropLeads
  <2> QED BY <1>2, <1>3, <2>4 DEF Leads
<1> QED BY <1>4, <1>5

LEMMA LeadsNot ==
  ASSUME NEW n, NEW lost, Sane(n, {})
  PROVE  Leads(n, n, {}, lost)
<1>1. n \in MStates
  BY DEF Sane
<1> QED BY <1>1, GrownNot DEF Leads

LEMMA LeadsTwice ==
  ASSUME NEW n \in MStates, NEW s, NEW r, NEW lost, Leads(n, s, {}, lost), Leads(s, r, {}, lost)
  PROVE  Leads(n, r, {}, lost)
<1>1. s \in MStates /\ r \in MStates
  BY DEF Leads, Sane
<1> QED BY <1>1, GrownTwice DEF Leads

(* Only the flags change.                                                  *)
LEMMA FlagLeads ==
  ASSUME NEW n, Sane(n, {}), NEW r \in MStates, NEW lost,
         r.table = n.table /\ r.gen = n.gen /\ r.total = n.total /\ r.avail = n.avail,
         r.listening => n.listening, r.reloading => n.reloading
  PROVE  Leads(n, r, {}, lost)
<1>1. n \in MStates /\ n.gen \in Nat
  BY DEF Sane, MStates
<1>2. Sane(r, {})
  BY DEF Sane, Counts, Children, Idle
<1>3. Grown(n, r, lost)
  BY <1>1 DEF Grown
<1>4. Fresh(n) => Fresh(r)
  BY DEF Fresh
<1> QED BY <1>2, <1>3, <1>4 DEF Leads

LEMMA ThrottleLeads ==
  ASSUME NEW n, Sane(n, {}), NEW lost
  PROVE  Leads(n, master_throttle(n), {}, lost) /\ LOK(master_throttle(n))
<1>1. n \in MStates
  BY DEF Sane
<1>2. PICK r : r = [n EXCEPT !.throttled = TRUE]
  OBVIOUS
<1>3. r \in MStates
  BY <1>1, <1>2, SetThrottled
<1>4. r.table = n.table /\ r.gen = n.gen /\ r.total = n.total /\ r.avail = n.avail
      /\ r.listening = n.listening /\ r.reloading = n.reloading /\ r.throttled = TRUE
  BY <1>1, <1>2 DEF MStates
<1>5. Leads(n, r, {}, lost) /\ LOK(r)
  BY <1>3, <1>4, FlagLeads DEF LOK
<1> QED BY <1>2, <1>5 DEF master_throttle

LEMMA UnthrottleLeads ==
  ASSUME NEW n, Sane(n, {})
  PROVE  LET r == master_unthrottle(n)
         IN  Leads(n, r, {}, {}) /\ (LOK(n) => LOK(r))
<1>1. n \in MStates
  BY DEF Sane
<1>2. PICK r : r = master_unthrottle(n)
  OBVIOUS
<1>3. CASE n.throttled
  <2>1. PICK d : d = [n EXCEPT !.throttled = FALSE]
    OBVIOUS
  <2>2. d \in MStates
    BY <1>1, <2>1, SetThrottled
  <2>3. d.table = n.table /\ d.gen = n.gen /\ d.total = n.total /\ d.avail = n.avail
        /\ d.listening = n.listening /\ d.reloading = n.reloading
    BY <1>1, <2>1 DEF MStates
  <2>4. Leads(n, d, {}, {}) /\ Sane(d, {})
    BY <2>2, <2>3, FlagLeads DEF Leads
  <2>5. r = acl_master_avail_listen(d)
    BY <1>2, <1>3, <2>1 DEF master_unthrottle
  <2>6. Leads(d, r, {}, {}) /\ LOK(r)
    BY <2>4, <2>5, ListenLeads
  <2> QED BY <1>1, <1>2, <2>4, <2>6, LeadsTwice
<1>4. CASE ~n.throttled
  <2>1. r = n
    BY <1>2, <1>4 DEF master_unthrottle
  <2> QED BY <1>2, <2>1, LeadsNot
<1> QED BY <1>3, <1>4

LEMMA DeleteMany ==
  ASSUME NEW n, Sane(n, {}), NEW p \in Children(n), NEW lost, p \in lost
  PROVE  LET r == master_delete_child(n, p)
         IN  Leads(n, r, {}, lost) /\ LOK(r)
<1>1. PICK r : r = master_delete_child(n, p)
  OBVIOUS
<1>2. Leads(n, r, {}, {p}) /\ LOK(r)
  BY <1>1, DeleteLeads
<1>3. Grown(n, r, lost)
  BY <1>2 DEF Leads, Grown
<1> QED BY <1>1, <1>2, <1>3 DEF Leads

LEMMA ReapedLeads ==
  ASSUME NEW n, Sane(n, {}), NEW lost, NEW p \in lost, p \in Pids
  PROVE  LET r == Reaped(n, p)
         IN  Leads(n, r, {}, lost) /\ (LOK(n) => LOK(r))
<1>0. n \in MStates
  BY DEF Sane
<1>1. PICK r : r = Reaped(n, p)
  OBVIOUS
<1>2. CASE n.table[p] = None \/ n.panicked
  <2>1. r = n
    BY <1>1, <1>2 DEF Reaped
  <2> QED BY <1>1, <2>1, LeadsNot
<1>3. CASE ~(n.table[p] = None \/ n.panicked)
  <2>0. p \in Children(n)
    BY <1>3 DEF Children
  <2>1. CASE os[p].doing = "crashed" /\ ~n.table[p].used
    <3>1. PICK d : d = master_throttle(n)
      OBVIOUS
    <3>2. Leads(n, d, {}, lost)
      BY <3>1, ThrottleLeads
    <3>3. d.table = n.table
      BY <1>0, <3>1 DEF master_throttle, MStates
    <3>4. p \in Children(d) /\ Sane(d, {})
      BY <2>0, <3>2, <3>3 DEF Children, Leads
    <3>5. r = master_delete_child(d, p)
      BY <1>1, <1>3, <2>1, <3>1 DEF Reaped
    <3>6. Leads(d, r, {}, lost) /\ LOK(r)
      BY <3>4, <3>5, DeleteMany
    <3> QED BY <1>0, <1>1, <3>2, <3>6, LeadsTwice
  <2>2. CASE ~(os[p].doing = "crashed" /\ ~n.table[p].used)
    <3>1. r = master_delete_child(n, p)
      BY <1>1, <1>3, <2>2 DEF Reaped
    <3> QED BY <1>1, <2>0, <3>1, DeleteMany
  <2> QED BY <2>1, <2>2
<1> QED BY <1>2, <1>3

(* The loop over the deaths.                                               *)
LEMMA ReapedRuns ==
  ASSUME NEW n, Sane(n, {}), NEW lost \in SUBSET Pids, NEW k \in Nat, NEW order \in [1 .. k -> lost]
  PROVE  \E f : /\ f = [i \in 0 .. k |-> IF i = 0 THEN n ELSE Reaped(f[i - 1], order[i])]
                /\ ReapedAll(n, order) = f[k]
<1> DEFINE S == {s \in MStates : Sane(s, {})}
           Runs(f) == f = [i \in 0 .. k |-> IF i = 0 THEN n ELSE Reaped(f[i - 1], order[i])]
           step == [i \in 1 .. k |-> [s \in S |-> Reaped(s, order[i])]]
<1>1. n \in S
  BY DEF Sane
<1>2. ASSUME NEW s \in S, NEW i \in 1 .. k PROVE Reaped(s, order[i]) \in S
  <2>1. PICK p : p = order[i]
    OBVIOUS
  <2>2. p \in lost /\ p \in Pids
    BY <2>1
  <2>3. Leads(s, Reaped(s, p), {}, lost)
    BY <2>2, ReapedLeads
  <2> QED BY <2>1, <2>3 DEF Leads, Sane
<1>3. step \in [1 .. k -> [S -> S]]
  BY <1>2
<1>4. PICK f \in [0 .. k -> S] : f[0] = n /\ \A i \in 1 .. k : f[i] = step[i][f[i - 1]]
  <2>1. PICK T, g : T = S /\ g = step
    OBVIOUS
  <2>2. k \in Nat /\ n \in T /\ g \in [1 .. k -> [T -> T]]
    BY <1>1, <1>3, <2>1
  <2>3. \E f \in [0 .. k -> T] : f[0] = n /\ \A i \in 1 .. k : f[i] = g[i][f[i - 1]]
    BY ONLY <2>2, Repeats, SMTT(60)
  <2> HIDE DEF S, step
  <2> QED BY <2>1, <2>3
<1>5. ASSUME NEW i \in 1 .. k PROVE f[i] = Reaped(f[i - 1], order[i])
  <2>1. f[i - 1] \in S
    BY <1>4
  <2> HIDE DEF S
  <2> QED BY <2>1, <1>4
<1>6. Runs(f)
  BY <1>4, <1>5
<1>7. Runs(CHOOSE g : Runs(g))
  BY <1>6
<1>8. Len(order) = k
  OBVIOUS
<1>9. ReapedAll(n, order) = (CHOOSE g : Runs(g))[k]
  BY <1>8 DEF ReapedAll
<1> QED BY <1>7, <1>9

LEMMA ReapedAllLeads ==
  ASSUME NEW n, Sane(n, {}), NEW lost \in SUBSET Pids, NEW order \in Orders(lost)
  PROVE  LET r == ReapedAll(n, order)
         IN  Leads(n, r, {}, lost) /\ (LOK(n) => LOK(r))
<1>0. n \in MStates
  BY DEF Sane
<1>1. Cardinality(lost) \in Nat
  BY MasterAssumption, FS_Subset, FS_CardinalityType
<1>2. PICK k \in Nat : k = Cardinality(lost)
  BY <1>1
<1>3. order \in [1 .. k -> lost]
  BY <1>2 DEF Orders
<1>4. PICK f : /\ f = [i \in 0 .. k |-> IF i = 0 THEN n ELSE Reaped(f[i - 1], order[i])]
               /\ ReapedAll(n, order) = f[k]
  BY <1>3, ReapedRuns
<1>5. PICK S : S = {s \in MStates : Leads(n, s, {}, lost) /\ (LOK(n) => LOK(s))}
  OBVIOUS
<1>6. f[0] \in S
  BY <1>0, <1>4, <1>5, LeadsNot
<1>7. ASSUME NEW i \in 1 .. k, f[i - 1] \in S PROVE f[i] \in S
  <2>1. PICK s, r, p : s = f[i - 1] /\ r = Reaped(s, p) /\ p = order[i]
    OBVIOUS
  <2>2. i \in 0 .. k /\ i # 0
    OBVIOUS
  <2>3. f[i] = r
    BY <1>4, <2>1, <2>2
  <2>4. p \in lost /\ p \in Pids
    BY <1>3, <2>1
  <2>5. Leads(n, s, {}, lost) /\ (LOK(n) => LOK(s)) /\ Sane(s, {})
    BY <1>5, <1>7, <2>1 DEF Leads
  <2>6. Leads(s, r, {}, lost) /\ (LOK(s) => LOK(r))
    BY <2>1, <2>4, <2>5, ReapedLeads
  <2>7. Leads(n, r, {}, lost)
    BY <1>0, <2>5, <2>6, LeadsTwice
  <2> QED BY <1>5, <2>3, <2>5, <2>6, <2>7 DEF Leads, Sane
<1>8. \A i \in 0 .. k : f[i] \in S
  BY <1>6, <1>7, HoldsThroughout
<1>9. f[k] \in S
  BY <1>8
<1> QED BY <1>4, <1>5, <1>9

-----------------------------------------------------------------------------
(* The other handlers.                                                     *)

Msgs == [pid : Pids, gen : Nat, avail : {AVAIL, TAKEN}]

(* What a message does: the entry it is of is marked, and then children    *)
(* may be forked.                                                          *)
Noted(n, r, msg) ==
  \E d \in MStates :
    /\ Grown(d, r, {})
    /\ IF n.table[msg.pid] # None /\ n.table[msg.pid].gen = msg.gen
       THEN Marked(n, d, msg.pid, msg.avail)
       ELSE d.gen = n.gen /\ d.table = n.table

LEMMA StatusLeads ==
  ASSUME NEW n, Sane(n, {}), NEW msg \in Msgs
  PROVE  LET r == StatusEvent(n, msg)
         IN  /\ Sane(r, {}) /\ (Fresh(n) => Fresh(r)) /\ (LOK(n) => LOK(r))
             /\ Noted(n, r, msg)
<1>0. n \in MStates
  BY DEF Sane
<1>1. PICK p, g, a : p = msg.pid /\ g = msg.gen /\ a = msg.avail
  OBVIOUS
<1>2. p \in Pids /\ g \in Nat /\ a \in {AVAIL, TAKEN}
  BY <1>1 DEF Msgs
<1>3. n.table[p] # None => n.table[p] \in Entries /\ n.table[p].avail \in {AVAIL, TAKEN}
  BY <1>0, <1>2 DEF MStates, Entries
<1>4. PICK r : r = StatusEvent(n, msg)
  OBVIOUS
<1>5. Grown(n, n, {})
  BY <1>0, GrownNot
<1>6. CASE n.table[p] = None \/ n.table[p].gen # g
  <2>1. r = n
    BY <1>1, <1>4, <1>6 DEF StatusEvent
  <2>2. Noted(n, n, msg)
    BY <1>0, <1>1, <1>5, <1>6 DEF Noted
  <2> QED BY <1>4, <2>1, <2>2
<1>7. CASE n.table[p] # None /\ n.table[p].gen = g /\ n.table[p].avail = a
  <2>1. r = n
    BY <1>1, <1>4, <1>7 DEF StatusEvent
  <2>2. Marked(n, n, p, a)
    BY <1>3, <1>7 DEF Marked
  <2>3. Noted(n, n, msg)
    BY <1>0, <1>1, <1>5, <1>7, <2>2 DEF Noted
  <2> QED BY <1>4, <2>1, <2>3
<1>8. CASE n.table[p] # None /\ n.table[p].gen = g /\ n.table[p].avail # a /\ a = AVAIL
  <2> DEFINE e == [n.table[p] EXCEPT !.used = TRUE]
  <2>1. PICK u : u = [n EXCEPT !.table[p].used = TRUE]
    OBVIOUS
  <2>2. r = acl_master_avail_more(u, p)
    BY <1>1, <1>4, <1>8, <2>1 DEF StatusEvent
  <2>3. e \in Entries /\ e.avail = n.table[p].avail /\ e.gen = n.table[p].gen /\ e # None
    <3>1. e \in Entries
      BY <1>3, <1>8 DEF Entries
    <3>2. e.avail = n.table[p].avail /\ e.gen = n.table[p].gen
      BY <1>3, <1>8 DEF Entries
    <3> QED BY <3>1, <3>2, MasterAssumption
  <2>4. u = [n EXCEPT !.table[p] = e]
    BY <2>1
  <2> HIDE DEF e
  <2>5. u \in MStates
    BY <1>0, <1>2, <2>3, <2>4, SetEntry
  <2>6. u.table = [n.table EXCEPT ![p] = e] /\ DOMAIN n.table = Pids
        /\ u.gen = n.gen /\ u.total = n.total /\ u.avail = n.avail
        /\ u.listening = n.listening /\ u.reloading = n.reloading
    BY <1>0, <2>4 DEF MStates
  <2>7. u.table[p] = e /\ \A q \in Pids \ {p} : u.table[q] = n.table[q]
    BY <1>2, <2>6
  <2>8. Children(u) = Children(n)
    BY <1>8, <2>3, <2>7 DEF Children
  <2>9. Idle(u) = Idle(n)
    BY <2>3, <2>7, <2>8 DEF Idle, Children
  <2>10. Sane(u, {})
    BY <2>5, <2>6, <2>8, <2>9 DEF Sane, Counts
  <2>11. Fresh(n) => Fresh(u)
    BY <2>6 DEF Fresh
  <2>12. p \in Children(u) \ Idle(u)
    BY <1>2, <1>8, <2>3, <2>7 DEF Children, Idle
  <2>13. Sane(r, {}) /\ LOK(r) /\ (Fresh(u) => Fresh(r)) /\ Marked(u, r, p, AVAIL)
    BY <2>2, <2>10, <2>12, MoreLeads
  <2>14. Marked(n, r, p, a)
    BY <1>8, <2>3, <2>6, <2>7, <2>13 DEF Marked
  <2>15. r \in MStates
    BY <2>13 DEF Sane
  <2>16. Noted(n, r, msg)
    BY <1>1, <1>8, <2>14, <2>15, GrownNot DEF Noted
  <2> QED BY <1>4, <2>11, <2>13, <2>16
<1>9. CASE n.table[p] # None /\ n.table[p].gen = g /\ n.table[p].avail # a /\ a # AVAIL
  <2>1. r = acl_master_avail_less(n, p)
    BY <1>1, <1>4, <1>9 DEF StatusEvent
  <2>2. p \in Idle(n) /\ a = TAKEN
    BY <1>2, <1>3, <1>9 DEF Idle, Children
  <2>3. Sane(r, {}) /\ LOK(r) /\ (Fresh(n) => Fresh(r))
    BY <2>1, <2>2, LessIs
  <2>4. PICK d : Sane(d, {}) /\ Marked(n, d, p, TAKEN) /\ Grown(d, r, {})
    BY <2>1, <2>2, LessIs
  <2>5. Noted(n, r, msg)
    BY <1>1, <1>9, <2>2, <2>4 DEF Noted, Sane
  <2> QED BY <1>4, <2>3, <2>5
<1> QED BY <1>6, <1>7, <1>8, <1>9

LEMMA AvailLeads ==
  ASSUME NEW n, Sane(n, {}), n.listening
  PROVE  LET r == AvailEvent(n)
         IN  Leads(n, r, {}, {}) /\ (LOK(n) => LOK(r))
<1>1. n \in MStates /\ n.total \in Nat /\ conf.max \in Nat /\ conf.prefork \in Nat
      /\ (conf.max > 0 => conf.prefork <= conf.max) /\ n.reloading \in BOOLEAN
  BY CountsNat, ConfFacts DEF Sane, MStates
<1>2. PICK r : r = AvailEvent(n)
  OBVIOUS
<1>3. ASSUME Fresh(n) /\ conf.max > 0 => n.total + 1 <= conf.max, r = acl_master_spawn(n)
      PROVE  Leads(n, r, {}, {}) /\ LOK(r)
  <2>1. PICK one \in Nat : one = 1
    OBVIOUS
  <2>2. Upto(n, one, r, {})
    BY <1>3, <2>1, SpawnUpto
  <2>3. one > 0 /\ (Fresh(n) /\ conf.max > 0 => n.total + one <= conf.max)
    BY <1>3, <2>1
  <2> QED BY <2>2, <2>3, UptoLeads
<1>4. CASE n.throttled
  <2>1. r = [n EXCEPT !.listening = FALSE]
    BY <1>2, <1>4 DEF AvailEvent
  <2>2. r \in MStates
    BY <1>1, <2>1, SetListening
  <2>3. r.table = n.table /\ r.gen = n.gen /\ r.total = n.total /\ r.avail = n.avail
        /\ r.listening = FALSE /\ r.reloading = n.reloading /\ r.throttled = n.throttled
    BY <1>1, <2>1 DEF MStates
  <2>4. Leads(n, r, {}, {}) /\ LOK(r)
    BY <1>4, <2>2, <2>3, FlagLeads DEF LOK
  <2> QED BY <1>2, <2>4
<1>5. CASE ~n.throttled /\ (conf.prefork = 0 \/ conf.max = 0)
  <2>1. r = acl_master_spawn(n)
    BY <1>2, <1>5 DEF AvailEvent
  <2>2. Fresh(n) /\ conf.max > 0 => n.total + 1 <= conf.max
    BY <1>1 DEF Fresh, LIMIT_OK
  <2> QED BY <1>2, <1>3, <2>1, <2>2
<1>6. CASE ~n.throttled /\ ~(conf.prefork = 0 \/ conf.max = 0) /\ PreforkCount(n) > 0
  <2>0. conf.prefork > 0 /\ conf.max > 0
    BY <1>1, <1>6
  <2>1. r = master_prefork(n)
    BY <1>2, <1>6, <2>0 DEF AvailEvent
  <2>2. PICK k \in Nat : k = PreforkCount(n)
    BY PreforkNat
  <2>3. Upto(n, k, r, {})
    BY <2>1, <2>2, PreforkUpto
  <2>4. ASSUME Fresh(n), conf.max > 0 PROVE n.total + k <= conf.max
    BY <1>1, <1>6, <2>2, <2>4 DEF PreforkCount, Least, Fresh
  <2>5. Leads(n, r, {}, {}) /\ LOK(r)
    BY <1>6, <2>2, <2>3, <2>4, UptoLeads
  <2> QED BY <1>2, <2>5
<1>7. CASE ~n.throttled /\ ~(conf.prefork = 0 \/ conf.max = 0) /\ ~(PreforkCount(n) > 0)
  <2>0. conf.prefork > 0 /\ conf.max > 0
    BY <1>1, <1>7
  <2>1. r = IF n.total < conf.max THEN acl_master_spawn(n) ELSE n
    BY <1>2, <1>7, <2>0 DEF AvailEvent
  <2>2. CASE n.total < conf.max
    BY <1>1, <1>2, <1>3, <2>1, <2>2
  <2>3. CASE ~(n.total < conf.max)
    BY <1>2, <2>1, <2>3, LeadsNot
  <2> QED BY <2>2, <2>3
<1> QED BY <1>4, <1>5, <1>6, <1>7

LEMMA DeleteChildrenLeads ==
  ASSUME NEW n, Sane(n, {}), NEW lost \in SUBSET Pids, NEW order \in Orders(lost)
  PROVE  Leads(n, DeleteChildren(n, order), {}, lost)
<1>0. n \in MStates
  BY DEF Sane
<1>1. PICK a, b, c, r : /\ a = master_throttle(n) /\ b = ReapedAll(a, order)
                        /\ c = master_unthrottle(b) /\ r = [c EXCEPT !.listening = FALSE]
  OBVIOUS
<1>2. r = DeleteChildren(n, order)
  BY <1>1 DEF DeleteChildren
<1>3. Leads(n, a, {}, lost) /\ Sane(a, {})
  BY <1>1, ThrottleLeads DEF Leads
<1>4. Leads(a, b, {}, lost) /\ Sane(b, {})
  BY <1>1, <1>3, ReapedAllLeads DEF Leads
<1>5. Leads(b, c, {}, {}) /\ Sane(c, {})
  BY <1>1, <1>4, UnthrottleLeads DEF Leads
<1>6. Leads(b, c, {}, lost)
  BY <1>5, GrownMore DEF Leads
<1>7. Leads(c, r, {}, lost)
  <2>1. c \in MStates
    BY <1>5 DEF Sane
  <2>2. r \in MStates
    BY <1>1, <2>1, SetListening
  <2>3. r.table = c.table /\ r.gen = c.gen /\ r.total = c.total /\ r.avail = c.avail
        /\ r.listening = FALSE /\ r.reloading = c.reloading
    BY <1>1, <2>1 DEF MStates
  <2> QED BY <1>5, <2>2, <2>3, FlagLeads
<1>8. Leads(n, b, {}, lost)
  BY <1>0, <1>3, <1>4, LeadsTwice
<1>9. Leads(n, c, {}, lost)
  BY <1>0, <1>6, <1>8, LeadsTwice
<1>10. Leads(n, r, {}, lost)
  BY <1>0, <1>7, <1>9, LeadsTwice
<1> QED BY <1>2, <1>10

-----------------------------------------------------------------------------
(* The invariant.                                                          *)

(* The last message of process p in its generation says a; if there is     *)
(* none, the entry, which says now, does.                                  *)
Of(msgs, p, g) == {i \in 1 .. Len(msgs) : msgs[i].pid = p /\ msgs[i].gen = g}

Hears(msgs, p, g, now, a) ==
  \/ Of(msgs, p, g) = {} /\ now = a
  \/ \E i \in Of(msgs, p, g) : msgs[i].avail = a /\ \A j \in Of(msgs, p, g) : j <= i

Status(proc) == IF proc.doing = "serving" THEN TAKEN ELSE AVAIL

(* A child whose messages the master still gets.                           *)
Heard(proc) == proc # None /\ proc.doing \notin {"exited", "crashed"} /\ ~proc.old

MType ==
  /\ Sane(m, {})
  /\ os \in [Pids -> {None} \cup Procs]
  /\ pipe \in Seq(Msgs)
  /\ restarts \in Nat

(* Every generation is one the master has given out.                       *)
Stamped ==
  /\ \A p \in Pids : m.table[p] # None => m.table[p].gen <= m.gen
  /\ \A p \in Pids : os[p] # None => os[p].gen <= m.gen
  /\ \A i \in 1 .. Len(pipe) : pipe[i].gen <= m.gen

Gossip ==
  ~stopped =>
    \A p \in Pids : Heard(os[p]) =>
      /\ m.table[p] # None /\ m.table[p].gen = os[p].gen
      /\ Hears(pipe, p, os[p].gen, m.table[p].avail, Status(os[p]))

MInv ==
  /\ MType /\ Stamped /\ Gossip
  /\ restarts = 0 => Fresh(m)
  /\ MasterUp => LOK(m)

LEMMA InitMInv == Init => MInv
<1> SUFFICES ASSUME Init PROVE MInv
  OBVIOUS
<1>1. m = MasterInit /\ conf \in Services /\ os = [p \in Pids |-> None] /\ pipe = <<>>
      /\ restarts = 0 /\ stopped = FALSE
  BY DEF Init
<1>2. m.table = [p \in Pids |-> None] /\ m.total = 0 /\ m.avail = 0 /\ m.gen = 0
      /\ m.started = FALSE /\ m.reloading = FALSE /\ m.listening = FALSE
  BY <1>1 DEF MasterInit
<1>3. m \in MStates
  BY <1>1 DEF MasterInit, MStates
<1>4. Children(m) \ {} = {} /\ Idle(m) = {} /\ {} \subseteq Children(m)
  BY <1>2 DEF Children, Idle
<1>5. Counts(m, {})
  BY <1>2, <1>4, FS_EmptySet DEF Counts
<1>6. Sane(m, {})
  BY <1>1, <1>3, <1>5 DEF Sane
<1>7. \A p \in Pids : os[p] = None /\ m.table[p] = None
  BY <1>1, <1>2
<1>8. MType
  BY <1>1, <1>6 DEF MType
<1>9. Stamped
  BY <1>1, <1>7 DEF Stamped
<1>10. Gossip
  BY <1>7 DEF Gossip, Heard
<1>11. Fresh(m)
  BY <1>1, <1>2, ConfFacts DEF Fresh
<1>12. ~MasterUp
  BY <1>2 DEF MasterUp
<1> QED BY <1>8, <1>9, <1>10, <1>11, <1>12 DEF MInv

-----------------------------------------------------------------------------
(* What a handler leads to.                                                *)

(* What becomes of the entries: they stay, as to whose they are, they go,  *)
(* or they are those of processes that are born.                           *)
Newborn(z, q) ==
  /\ os[q] = None
  /\ z.table[q] \in Entries /\ z.table[q].avail = AVAIL
  /\ m.gen < z.table[q].gen /\ z.table[q].gen <= z.gen

TableStep(z) ==
  /\ m.gen <= z.gen
  /\ \A q \in Pids :
       \/ Newborn(z, q)
       \/ z.table[q] = None
       \/ m.table[q] # None /\ z.table[q] \in Entries /\ z.table[q].gen = m.table[q].gen

LEMMA GrownTable ==
  ASSUME MInv, NEW z \in MStates, NEW lost, Grown(m, z, lost)
  PROVE  TableStep(z)
<1>1. m \in MStates
  BY DEF MInv, MType, Sane
<1>2. ASSUME NEW q \in Pids, z.table[q] = m.table[q], z.table[q] # None
      PROVE  z.table[q] \in Entries
  BY <1>2 DEF MStates
<1> QED BY <1>1, <1>2 DEF Grown, TableStep, Newborn

LEMMA NotedTable ==
  ASSUME MInv, NEW z \in MStates, NEW msg \in Msgs, Noted(m, z, msg)
  PROVE  TableStep(z)
<1>1. m \in MStates /\ m.gen \in Nat
  BY DEF MInv, MType, Sane, MStates
<1>2. PICK d \in MStates :
        /\ Grown(d, z, {})
        /\ IF m.table[msg.pid] # None /\ m.table[msg.pid].gen = msg.gen
           THEN Marked(m, d, msg.pid, msg.avail)
           ELSE d.gen = m.gen /\ d.table = m.table
  BY DEF Noted
<1>3. d.gen = m.gen /\ m.gen <= z.gen
  BY <1>2 DEF Marked, Grown
<1>4. \A q \in Pids : d.table[q] = m.table[q]
                      \/ (m.table[q] # None /\ d.table[q] \in Entries /\ d.table[q].gen = m.table[q].gen)
  BY <1>2 DEF Marked
<1>5. \A q \in Pids : m.table[q] # None => m.table[q] \in Entries
  BY <1>1 DEF MStates
<1>6. None \notin Entries
  BY MasterAssumption
<1>7. ASSUME NEW q \in Pids
      PROVE  \/ Newborn(z, q)
             \/ z.table[q] = None
             \/ m.table[q] # None /\ z.table[q] \in Entries /\ z.table[q].gen = m.table[q].gen
  <2>1. CASE z.table[q] = d.table[q]
    BY <1>4, <1>5, <2>1
  <2>2. CASE z.table[q] # d.table[q]
    <3>1. Newborn(z, q)
      BY <1>2, <1>3, <2>2 DEF Grown, Newborn
    <3> QED BY <3>1
  <2> QED BY <2>1, <2>2
<1> QED BY <1>3, <1>7 DEF TableStep

(* The processes after a handler; rest is what becomes of the others.      *)
LEMMA AfterHandler ==
  ASSUME MInv, TableStep(m'), m' \in MStates, NEW rest,
         \A q \in Pids : rest[q] \in {None} \cup Procs /\ (rest[q] # None => rest[q].gen <= m.gen),
         os' = [q \in Pids |-> IF Born(q)
                               THEN [gen |-> m'.table[q].gen, doing |-> "idle", old |-> FALSE]
                               ELSE rest[q]]
  PROVE  /\ os' \in [Pids -> {None} \cup Procs]
         /\ \A q \in Pids : os'[q] # None => os'[q].gen <= m'.gen
         /\ \A q \in Pids : m'.table[q] # None => m'.table[q].gen <= m'.gen
         /\ \A q \in Pids :
              \/ /\ Newborn(m', q)
                 /\ os'[q].gen = m'.table[q].gen /\ os'[q].doing = "idle"
              \/ os'[q] = rest[q]
<1>1. PICK z : z = m'
  OBVIOUS
<1>2. m \in MStates /\ m.gen \in Nat /\ z \in MStates /\ z.gen \in Nat /\ m.gen <= z.gen
  BY <1>1 DEF MInv, MType, Sane, MStates, TableStep
<1>3. None \notin Entries /\ \A e \in Entries : e.gen \in Nat
  BY MasterAssumption DEF Entries
<1>4. \A q \in Pids : (m.table[q] # None => m.table[q].gen <= m.gen /\ m.table[q].gen \in Nat)
                      /\ (z.table[q] # None => z.table[q] \in Entries)
  BY <1>2, <1>3 DEF MInv, Stamped, MStates
<1>5. \A q \in Pids : z.table[q] # None /\ z.table[q].gen > m.gen => Newborn(z, q)
  BY <1>1, <1>2, <1>3, <1>4 DEF TableStep
<1>6. \A q \in Pids : z.table[q] # None => z.table[q].gen <= z.gen
  <2> SUFFICES ASSUME NEW q \in Pids, z.table[q] # None PROVE z.table[q].gen <= z.gen
    OBVIOUS
  <2>1. CASE Newborn(z, q)
    BY <2>1 DEF Newborn
  <2>2. CASE ~Newborn(z, q)
    BY <1>1, <1>2, <1>3, <1>4, <2>2 DEF TableStep
  <2> QED BY <2>1, <2>2
<1>7. ASSUME NEW q \in Pids
      PROVE  /\ os'[q] \in {None} \cup Procs
             /\ os'[q] # None => os'[q].gen <= z.gen
             /\ \/ /\ Newborn(z, q)
                   /\ os'[q].gen = z.table[q].gen /\ os'[q].doing = "idle"
                \/ os'[q] = rest[q]
  <2>0. PICK x : x = os'[q]
    OBVIOUS
  <2>1. CASE z.table[q] # None /\ z.table[q].gen > m.gen
    <3>1. x = [gen |-> z.table[q].gen, doing |-> "idle", old |-> FALSE]
      BY <1>1, <2>0, <2>1 DEF Born
    <3>2. z.table[q].gen \in Nat
      BY <1>3, <1>4, <2>1
    <3>3. x \in Procs
      BY <3>1, <3>2 DEF Procs
    <3>4. x.gen = z.table[q].gen /\ x.doing = "idle"
      BY <3>1
    <3> QED BY <1>5, <1>6, <2>0, <2>1, <3>3, <3>4
  <2>2. CASE ~(z.table[q] # None /\ z.table[q].gen > m.gen)
    <3>1. x = rest[q]
      BY <1>1, <2>0, <2>2 DEF Born
    <3>2. x # None => x.gen \in Nat
      BY <3>1, MasterAssumption DEF Procs
    <3>3. x \in {None} \cup Procs /\ (x # None => x.gen <= m.gen)
      BY <3>1
    <3>4. x # None => x.gen <= z.gen
      BY <1>2, <3>2, <3>3
    <3> QED BY <2>0, <3>1, <3>3, <3>4
  <2> QED BY <2>1, <2>2
<1>8. DOMAIN os' = Pids /\ os' = [q \in Pids |-> os'[q]]
  OBVIOUS
<1>9. os' \in [Pids -> {None} \cup Procs]
  BY <1>7, <1>8
<1> QED BY <1>1, <1>6, <1>7, <1>9

(* What has to be seen to of each handler: that the children it knew of    *)
(* are heard right.                                                        *)
LEMMA HandlerGossip ==
  ASSUME MInv, TableStep(m'), Sane(m', {}), conf' = conf, NEW rest,
         \A q \in Pids : rest[q] \in {None} \cup Procs /\ (rest[q] # None => rest[q].gen <= m.gen),
         os' = [q \in Pids |-> IF Born(q)
                               THEN [gen |-> m'.table[q].gen, doing |-> "idle", old |-> FALSE]
                               ELSE rest[q]],
         pipe' \in Seq(Msgs), \A i \in 1 .. Len(pipe') : pipe'[i].gen <= m.gen,
         restarts' \in Nat,
         ASSUME ~stopped', NEW q \in Pids, Heard(rest[q])
         PROVE  /\ m'.table[q] # None /\ m'.table[q].gen = rest[q].gen
                /\ Hears(pipe', q, rest[q].gen, m'.table[q].avail, Status(rest[q]))
  PROVE  (MType /\ Stamped /\ Gossip)'
<1>0. m' \in MStates /\ m'.gen \in Nat /\ m.gen \in Nat /\ m.gen <= m'.gen
  BY DEF Sane, MStates, MInv, MType, TableStep
<1>1. /\ os' \in [Pids -> {None} \cup Procs]
      /\ \A q \in Pids : os'[q] # None => os'[q].gen <= m'.gen
      /\ \A q \in Pids : m'.table[q] # None => m'.table[q].gen <= m'.gen
      /\ \A q \in Pids :
           \/ /\ Newborn(m', q)
              /\ os'[q].gen = m'.table[q].gen /\ os'[q].doing = "idle"
           \/ os'[q] = rest[q]
  BY <1>0, AfterHandler
<1>2. \A i \in 1 .. Len(pipe') : pipe'[i] \in Msgs /\ pipe'[i].gen \in Nat
  <2>1. \A i \in 1 .. Len(pipe') : pipe'[i] \in Msgs
    OBVIOUS
  <2>2. \A x \in Msgs : x.gen \in Nat
    BY DEF Msgs
  <2> QED BY <2>1, <2>2
<1>3. MType'
  <2>1. Sane(m, {})'
    BY DEF Sane, Counts, Children, Idle
  <2> QED BY <1>1, <2>1 DEF MType
<1>4. Stamped'
  <2>1. \A i \in 1 .. Len(pipe') : pipe'[i].gen <= m'.gen
    BY <1>0, <1>2
  <2> QED BY <1>1, <2>1 DEF Stamped
<1>5. ASSUME ~stopped', NEW q \in Pids, Heard(os'[q])
      PROVE  /\ m'.table[q] # None /\ m'.table[q].gen = os'[q].gen
             /\ Hears(pipe', q, os'[q].gen, m'.table[q].avail, Status(os'[q]))
  <2>1. CASE os'[q] = rest[q]
    BY <1>5, <2>1
  <2>2. CASE Newborn(m', q) /\ os'[q].gen = m'.table[q].gen /\ os'[q].doing = "idle"
    <3>1. m'.table[q] # None /\ m'.table[q].avail = AVAIL /\ m.gen < m'.table[q].gen
          /\ m'.table[q].gen \in Nat
      BY <2>2, MasterAssumption DEF Newborn, Entries
    <3>2. Of(pipe', q, os'[q].gen) = {}
      BY <1>0, <1>2, <2>2, <3>1 DEF Of
    <3>3. Status(os'[q]) = AVAIL
      BY <2>2 DEF Status
    <3> QED BY <2>2, <3>1, <3>2, <3>3 DEF Hears
  <2> QED BY <1>1, <2>1, <2>2
<1>6. Gossip'
  BY <1>5 DEF Gossip
<1> QED BY <1>3, <1>4, <1>6

(* Only the luck of forks changes.                                         *)
LEMMA LuckIs ==
  ASSUME NEW n, Sane(n, {}), NEW k \in Int, NEW r, r = [n EXCEPT !.luck = k]
  PROVE  /\ Sane(r, {}) /\ r.table = n.table /\ r.gen = n.gen /\ r.listening = n.listening
         /\ r.started = n.started /\ r.panicked = n.panicked /\ r.throttled = n.throttled
         /\ (Fresh(n) <=> Fresh(r)) /\ (LOK(n) <=> LOK(r))
<1>1. n \in MStates
  BY DEF Sane
<1>2. r \in MStates
  BY <1>1, SetLuck
<1>3. r.table = n.table /\ r.gen = n.gen /\ r.total = n.total /\ r.avail = n.avail
      /\ r.listening = n.listening /\ r.reloading = n.reloading /\ r.throttled = n.throttled
      /\ r.started = n.started /\ r.panicked = n.panicked
  BY <1>1 DEF MStates
<1>4. Sane(r, {})
  BY <1>2, <1>3 DEF Sane, Counts, Children, Idle
<1>5. (Fresh(n) <=> Fresh(r)) /\ (LOK(n) <=> LOK(r))
  BY <1>3 DEF Fresh, LOK
<1> QED BY <1>3, <1>4, <1>5

LEMMA LucksInt == ASSUME NEW k \in Lucks PROVE k \in Int
BY MasterAssumption, FS_CardinalityType DEF Lucks

(* A handler that leads from m to m'.                                      *)
LEMMA HandledLeads ==
  ASSUME MInv, NEW k \in Lucks, NEW n, n = [m EXCEPT !.luck = k],
         NEW r, NEW lost, Leads(n, r, {}, lost), m' = [r EXCEPT !.luck = 0]
  PROVE  /\ Sane(m', {}) /\ Grown(m, m', lost) /\ TableStep(m')
         /\ (Fresh(m) => Fresh(m')) /\ (LOK(r) => LOK(m'))
<1>1. Sane(m, {}) /\ k \in Int /\ Sane(r, {})
  BY LucksInt DEF MInv, MType, Leads
<1>2. n.table = m.table /\ n.gen = m.gen /\ (Fresh(m) <=> Fresh(n))
  BY <1>1, LuckIs
<1>3. PICK zero \in Int : zero = 0
  OBVIOUS
<1>7. PICK z : z = m'
  OBVIOUS
<1>4. /\ Sane(z, {}) /\ z.table = r.table /\ z.gen = r.gen
      /\ (Fresh(r) <=> Fresh(z)) /\ (LOK(r) <=> LOK(z))
  BY <1>1, <1>3, <1>7, LuckIs
<1>5. Grown(m, z, lost)
  BY <1>2, <1>4 DEF Leads, Grown
<1>6. TableStep(z)
  BY <1>4, <1>5, GrownTable DEF Sane
<1> QED BY <1>2, <1>7, <1>4, <1>5, <1>6 DEF Leads

(* A handler that deletes nobody but the dead.                             *)
LEMMA ProcessesGossip ==
  ASSUME MInv, NEW lost \in SUBSET Pids, \A q \in lost : ~Heard(os[q]),
         Sane(m', {}), Grown(m, m', lost), TableStep(m'), Processes(lost),
         UNCHANGED <<conf, pipe, restarts, stopped>>
  PROVE  (MType /\ Stamped /\ Gossip)'
<1>1. PICK rest : rest = [q \in Pids |-> IF q \in lost THEN None ELSE os[q]]
  OBVIOUS
<1>2. \A q \in Pids : rest[q] \in {None} \cup Procs /\ (rest[q] # None => rest[q].gen <= m.gen)
  BY <1>1 DEF MInv, MType, Stamped
<1>3. os' = [q \in Pids |-> IF Born(q)
                            THEN [gen |-> m'.table[q].gen, doing |-> "idle", old |-> FALSE]
                            ELSE rest[q]]
  <2>1. \A q \in Pids : rest[q] = IF q \in lost THEN None ELSE os[q]
    BY <1>1
  <2> QED BY <2>1 DEF Processes
<1>4. pipe' \in Seq(Msgs) /\ (\A i \in 1 .. Len(pipe') : pipe'[i].gen <= m.gen) /\ restarts' \in Nat
      /\ conf' = conf
  BY DEF MInv, MType, Stamped
<1>5. ASSUME ~stopped', NEW q \in Pids, Heard(rest[q])
      PROVE  /\ m'.table[q] # None /\ m'.table[q].gen = rest[q].gen
             /\ Hears(pipe', q, rest[q].gen, m'.table[q].avail, Status(rest[q]))
  <2>1. rest[q] = os[q] /\ os[q] # None /\ q \notin lost /\ Heard(os[q])
    BY <1>1, <1>5 DEF Heard
  <2>2. m'.table[q] = m.table[q]
    BY <2>1 DEF Grown
  <2>3. m.table[q] # None /\ m.table[q].gen = os[q].gen
        /\ Hears(pipe, q, os[q].gen, m.table[q].avail, Status(os[q]))
    BY <1>5, <2>1 DEF MInv, Gossip
  <2> QED BY <2>1, <2>2, <2>3
<1> QED BY <1>2, <1>3, <1>4, <1>5, HandlerGossip

LEMMA Concludes ==
  ASSUME (MType /\ Stamped /\ Gossip)', conf' = conf,
         restarts' = 0 => Fresh(m'), ~stopped' => LOK(m')
  PROVE  MInv'
BY DEF MInv, Fresh, LOK, LIMIT_OK, MasterUp

(* A handler that reads no message and deletes nobody but the dead.        *)
LEMMA HandlerKeeps ==
  ASSUME MInv, NEW k \in Lucks, NEW n, n = [m EXCEPT !.luck = k],
         NEW r, NEW lost \in SUBSET Pids, \A q \in lost : ~Heard(os[q]),
         Leads(n, r, {}, lost), m' = [r EXCEPT !.luck = 0],
         LOK(r) \/ (MasterUp /\ (LOK(n) => LOK(r))),
         Processes(lost), UNCHANGED <<conf, pipe, restarts, stopped>>
  PROVE  MInv'
<1>1. /\ Sane(m', {}) /\ Grown(m, m', lost) /\ TableStep(m')
      /\ (Fresh(m) => Fresh(m')) /\ (LOK(r) => LOK(m'))
  BY HandledLeads
<1>2. (MType /\ Stamped /\ Gossip)'
  BY <1>1, ProcessesGossip
<1>3. LOK(n) <=> LOK(m)
  BY LucksInt, LuckIs DEF MInv, MType
<1>4. LOK(m') /\ (restarts = 0 => Fresh(m'))
  BY <1>1, <1>3 DEF MInv
<1> QED BY <1>2, <1>4, Concludes

LEMMA StartKeeps == MInv /\ acl_master_start_service => MInv'
<1> SUFFICES ASSUME MInv, acl_master_start_service PROVE MInv'
  OBVIOUS
<1>1. PICK k \in Lucks :
        m' = [acl_master_avail_listen([[m EXCEPT !.luck = k] EXCEPT !.started = TRUE]) EXCEPT !.luck = 0]
  BY DEF acl_master_start_service, Handles
<1>2. PICK n : n = [m EXCEPT !.luck = k]
  OBVIOUS
<1>3. PICK u : u = [n EXCEPT !.started = TRUE]
  OBVIOUS
<1>4. PICK r : r = acl_master_avail_listen(u)
  OBVIOUS
<1>5. Sane(n, {}) /\ n \in MStates
  BY <1>2, LucksInt, LuckIs DEF MInv, MType, Sane
<1>6. u \in MStates
  BY <1>3, <1>5, SetStarted
<1>7. u.table = n.table /\ u.gen = n.gen /\ u.total = n.total /\ u.avail = n.avail
      /\ u.listening = n.listening /\ u.reloading = n.reloading
  BY <1>3, <1>5 DEF MStates
<1>8. Leads(n, u, {}, {}) /\ Sane(u, {})
  BY <1>5, <1>6, <1>7, FlagLeads DEF Leads
<1>9. Leads(u, r, {}, {}) /\ LOK(r)
  BY <1>4, <1>8, ListenLeads
<1>10. Leads(n, r, {}, {})
  BY <1>5, <1>8, <1>9, LeadsTwice
<1>11. m' = [r EXCEPT !.luck = 0]
  BY <1>1, <1>2, <1>3, <1>4
<1>12. Processes({}) /\ UNCHANGED <<conf, pipe, restarts, stopped>>
  BY DEF acl_master_start_service
<1>13. PICK lost \in SUBSET Pids : lost = {}
  OBVIOUS
<1> QED BY <1>2, <1>9, <1>10, <1>11, <1>12, <1>13, HandlerKeeps

LEMMA AvailKeeps == MInv /\ master_avail_event => MInv'
<1> SUFFICES ASSUME MInv, master_avail_event PROVE MInv'
  OBVIOUS
<1>1. PICK k \in Lucks : m' = [AvailEvent([m EXCEPT !.luck = k]) EXCEPT !.luck = 0]
  BY DEF master_avail_event, Handles
<1>2. PICK n : n = [m EXCEPT !.luck = k]
  OBVIOUS
<1>3. PICK r : r = AvailEvent(n)
  OBVIOUS
<1>4. MasterUp /\ m.listening
  BY DEF master_avail_event
<1>5. Sane(n, {}) /\ n.listening
  BY <1>2, <1>4, LucksInt, LuckIs DEF MInv, MType
<1>6. Leads(n, r, {}, {}) /\ (LOK(n) => LOK(r))
  BY <1>3, <1>5, AvailLeads
<1>7. m' = [r EXCEPT !.luck = 0]
  BY <1>1, <1>2, <1>3
<1>8. Processes({}) /\ UNCHANGED <<conf, pipe, restarts, stopped>>
  BY DEF master_avail_event
<1>9. PICK lost \in SUBSET Pids : lost = {}
  OBVIOUS
<1> QED BY <1>2, <1>4, <1>6, <1>7, <1>8, <1>9, HandlerKeeps

LEMMA UnthrottleKeeps == MInv /\ master_unthrottle_wrapper => MInv'
<1> SUFFICES ASSUME MInv, master_unthrottle_wrapper PROVE MInv'
  OBVIOUS
<1>1. PICK k \in Lucks : m' = [master_unthrottle([m EXCEPT !.luck = k]) EXCEPT !.luck = 0]
  BY DEF master_unthrottle_wrapper, Handles
<1>2. PICK n : n = [m EXCEPT !.luck = k]
  OBVIOUS
<1>3. PICK r : r = master_unthrottle(n)
  OBVIOUS
<1>4. MasterUp
  BY DEF master_unthrottle_wrapper
<1>5. Sane(n, {})
  BY <1>2, LucksInt, LuckIs DEF MInv, MType
<1>6. Leads(n, r, {}, {}) /\ (LOK(n) => LOK(r))
  BY <1>3, <1>5, UnthrottleLeads
<1>7. m' = [r EXCEPT !.luck = 0]
  BY <1>1, <1>2, <1>3
<1>8. Processes({}) /\ UNCHANGED <<conf, pipe, restarts, stopped>>
  BY DEF master_unthrottle_wrapper
<1>9. PICK lost \in SUBSET Pids : lost = {}
  OBVIOUS
<1> QED BY <1>2, <1>4, <1>6, <1>7, <1>8, <1>9, HandlerKeeps

LEMMA ReapKeeps == MInv /\ acl_master_reap_child => MInv'
<1> SUFFICES ASSUME MInv, acl_master_reap_child PROVE MInv'
  OBVIOUS
<1>1. PICK order \in Orders(Dead), k \in Lucks :
        m' = [ReapedAll([m EXCEPT !.luck = k], order) EXCEPT !.luck = 0]
  BY DEF acl_master_reap_child, Handles
<1>2. PICK n : n = [m EXCEPT !.luck = k]
  OBVIOUS
<1>3. PICK r : r = ReapedAll(n, order)
  OBVIOUS
<1>4. MasterUp
  BY DEF acl_master_reap_child
<1>5. Sane(n, {})
  BY <1>2, LucksInt, LuckIs DEF MInv, MType
<1>6. PICK lost \in SUBSET Pids : lost = Dead
  BY DEF Dead
<1>7. \A q \in lost : ~Heard(os[q])
  BY <1>6 DEF Dead, Alive, Heard
<1>8. Leads(n, r, {}, lost) /\ (LOK(n) => LOK(r))
  BY <1>1, <1>3, <1>5, <1>6, ReapedAllLeads
<1>9. m' = [r EXCEPT !.luck = 0]
  BY <1>1, <1>2, <1>3
<1>10. Processes(lost) /\ UNCHANGED <<conf, pipe, restarts, stopped>>
  BY <1>6 DEF acl_master_reap_child
<1> QED BY <1>2, <1>4, <1>7, <1>8, <1>9, <1>10, HandlerKeeps

LEMMA StopKeeps == MInv /\ acl_master_stop_service => MInv'
<1> SUFFICES ASSUME MInv, acl_master_stop_service PROVE MInv'
  OBVIOUS
<1>1. PICK order \in Orders(Children(m)), k \in Lucks :
        m' = [DeleteChildren([m EXCEPT !.luck = k], order) EXCEPT !.luck = 0]
  BY DEF acl_master_stop_service, Handles
<1>2. PICK n : n = [m EXCEPT !.luck = k]
  OBVIOUS
<1>3. PICK r : r = DeleteChildren(n, order)
  OBVIOUS
<1>4. Sane(n, {})
  BY <1>2, LucksInt, LuckIs DEF MInv, MType
<1>5. PICK lost \in SUBSET Pids : lost = Children(m)
  BY DEF Children
<1>6. Leads(n, r, {}, lost)
  BY <1>1, <1>3, <1>4, <1>5, DeleteChildrenLeads
<1>7. m' = [r EXCEPT !.luck = 0]
  BY <1>1, <1>2, <1>3
<1>8. Sane(m', {}) /\ TableStep(m') /\ (Fresh(m) => Fresh(m'))
  BY <1>2, <1>6, <1>7, HandledLeads
<1>9. Processes(lost) /\ pipe' = <<>> /\ stopped' = TRUE /\ UNCHANGED <<conf, restarts>>
  BY <1>5 DEF acl_master_stop_service
<1>10. PICK rest : rest = [q \in Pids |-> IF q \in lost THEN None ELSE os[q]]
  OBVIOUS
<1>11. \A q \in Pids : rest[q] \in {None} \cup Procs /\ (rest[q] # None => rest[q].gen <= m.gen)
  BY <1>10 DEF MInv, MType, Stamped
<1>12. os' = [q \in Pids |-> IF Born(q)
                             THEN [gen |-> m'.table[q].gen, doing |-> "idle", old |-> FALSE]
                             ELSE rest[q]]
  <2>1. \A q \in Pids : rest[q] = IF q \in lost THEN None ELSE os[q]
    BY <1>10
  <2> QED BY <1>9, <2>1 DEF Processes
<1>13. pipe' \in Seq(Msgs) /\ (\A i \in 1 .. Len(pipe') : pipe'[i].gen <= m.gen) /\ restarts' \in Nat
  BY <1>9 DEF MInv, MType
<1>14. (MType /\ Stamped /\ Gossip)'
  BY <1>8, <1>9, <1>11, <1>12, <1>13, HandlerGossip
<1>15. restarts' = 0 => Fresh(m')
  BY <1>8, <1>9 DEF MInv
<1> QED BY <1>9, <1>14, <1>15, Concludes

LEMMA RestartKeeps == MInv /\ acl_master_restart_service => MInv'
<1> SUFFICES ASSUME MInv, acl_master_restart_service PROVE MInv'
  OBVIOUS
<1>1. PICK k \in Lucks :
        m' = [acl_master_avail_listen([[m EXCEPT !.luck = k] EXCEPT !.reloading = TRUE]) EXCEPT !.luck = 0]
  BY DEF acl_master_restart_service, Handles
<1>2. PICK n : n = [m EXCEPT !.luck = k]
  OBVIOUS
<1>3. PICK u : u = [n EXCEPT !.reloading = TRUE]
  OBVIOUS
<1>4. PICK r : r = acl_master_avail_listen(u)
  OBVIOUS
<1>5. Sane(n, {}) /\ n \in MStates /\ n.table = m.table /\ n.gen = m.gen
  BY <1>2, LucksInt, LuckIs DEF MInv, MType, Sane
<1>6. u \in MStates
  BY <1>3, <1>5, SetReloading
<1>7. u.table = n.table /\ u.gen = n.gen /\ u.total = n.total /\ u.avail = n.avail
  BY <1>3, <1>5 DEF MStates
<1>8. Sane(u, {})
  BY <1>5, <1>6, <1>7 DEF Sane, Counts, Children, Idle
<1>9. Leads(u, r, {}, {}) /\ LOK(r) /\ Sane(r, {})
  BY <1>4, <1>8, ListenLeads DEF Leads
<1>10. Grown(m, r, {})
  BY <1>5, <1>7, <1>9 DEF Leads, Grown
<1>11. PICK zero \in Int : zero = 0
  OBVIOUS
<1>12. PICK z : z = m'
  OBVIOUS
<1>13. z = [r EXCEPT !.luck = zero]
  BY <1>1, <1>2, <1>3, <1>4, <1>11, <1>12
<1>14. Sane(z, {}) /\ z.table = r.table /\ z.gen = r.gen /\ (LOK(r) <=> LOK(z))
  BY <1>9, <1>13, LuckIs
<1>15. Grown(m, z, {})
  BY <1>10, <1>14 DEF Grown
<1>16. TableStep(z)
  BY <1>14, <1>15, GrownTable DEF Sane
<1>17. Sane(m', {}) /\ TableStep(m') /\ LOK(m')
  BY <1>9, <1>12, <1>14, <1>16
<1>18. conf' = conf /\ stopped' = stopped /\ pipe' = <<>> /\ restarts' = restarts + 1
       /\ os' = [p \in Pids |-> IF Born(p)
                                THEN [gen |-> m'.table[p].gen, doing |-> "idle", old |-> FALSE]
                                ELSE Orphaned[p]]
  BY DEF acl_master_restart_service
<1>19. PICK rest : rest = Orphaned
  OBVIOUS
<1>20. \A q \in Pids : rest[q] = IF os[q] = None THEN None ELSE [os[q] EXCEPT !.old = TRUE]
  BY <1>19 DEF Orphaned
<1>21. ASSUME NEW q \in Pids
       PROVE  /\ rest[q] \in {None} \cup Procs /\ (rest[q] # None => rest[q].gen <= m.gen)
              /\ ~Heard(rest[q])
  <2>1. CASE os[q] = None
    BY <1>20, <2>1 DEF Heard
  <2>2. CASE os[q] # None
    <3>1. os[q] \in Procs /\ os[q].gen <= m.gen
      BY <2>2 DEF MInv, MType, Stamped
    <3>2. PICK proc : proc = [os[q] EXCEPT !.old = TRUE]
      OBVIOUS
    <3>3. proc \in Procs
      BY <3>1, <3>2 DEF Procs
    <3>4. proc.gen = os[q].gen /\ proc.old = TRUE
      BY <3>1, <3>2 DEF Procs
    <3>5. rest[q] = proc
      BY <1>20, <2>2, <3>2
    <3> QED BY <3>1, <3>3, <3>4, <3>5 DEF Heard
  <2> QED BY <2>1, <2>2
<1>22. os' = [q \in Pids |-> IF Born(q)
                             THEN [gen |-> m'.table[q].gen, doing |-> "idle", old |-> FALSE]
                             ELSE rest[q]]
  BY <1>18, <1>19
<1>23. pipe' \in Seq(Msgs) /\ (\A i \in 1 .. Len(pipe') : pipe'[i].gen <= m.gen)
       /\ restarts' \in Nat /\ restarts' # 0
  BY <1>18 DEF MInv, MType
<1>24. (MType /\ Stamped /\ Gossip)'
  BY <1>17, <1>18, <1>21, <1>22, <1>23, HandlerGossip
<1> QED BY <1>17, <1>18, <1>23, <1>24, Concludes

-----------------------------------------------------------------------------
(* Messages.                                                               *)

(* A message is read: it is what the entry says now, if it is of it.       *)
LEMMA HearsTail ==
  ASSUME NEW msgs \in Seq(Msgs), msgs # <<>>, NEW p, NEW g, NEW now, NEW a,
         Hears(msgs, p, g, now, a)
  PROVE  Hears(Tail(msgs), p, g,
               IF Head(msgs).pid = p /\ Head(msgs).gen = g THEN Head(msgs).avail ELSE now, a)
<1>1. PICK t, h : t = Tail(msgs) /\ h = Head(msgs)
  OBVIOUS
<1>2. Len(msgs) \in Nat /\ Len(msgs) > 0 /\ Len(t) = Len(msgs) - 1 /\ h = msgs[1]
      /\ \A i \in 1 .. Len(t) : t[i] = msgs[i + 1]
  BY <1>1
<1>3. \A i \in Of(t, p, g) : i + 1 \in Of(msgs, p, g) /\ i \in Nat /\ t[i] = msgs[i + 1]
  BY <1>2 DEF Of
<1>4. \A j \in Of(msgs, p, g) : j \in Nat /\ (j = 1 \/ (j - 1 \in Of(t, p, g) /\ t[j - 1] = msgs[j]))
  BY <1>2 DEF Of
<1>5. 1 \in Of(msgs, p, g) <=> h.pid = p /\ h.gen = g
  BY <1>2 DEF Of
<1>6. CASE Of(msgs, p, g) = {} /\ now = a
  <2>1. Of(t, p, g) = {}
    BY <1>3, <1>6
  <2> QED BY <1>1, <1>5, <1>6, <2>1 DEF Hears
<1>7. ASSUME NEW i \in Of(msgs, p, g), msgs[i].avail = a, \A j \in Of(msgs, p, g) : j <= i
      PROVE  Hears(t, p, g, IF h.pid = p /\ h.gen = g THEN h.avail ELSE now, a)
  <2>1. CASE i = 1
    <3>1. Of(t, p, g) = {}
      <4> SUFFICES ASSUME NEW j \in Of(t, p, g) PROVE FALSE
        OBVIOUS
      <4>1. j + 1 <= 1 /\ j \in Nat /\ j \in 1 .. Len(t)
        BY <1>3, <1>7, <2>1 DEF Of
      <4> QED BY <4>1
    <3> QED BY <1>2, <1>5, <1>7, <2>1, <3>1 DEF Hears
  <2>2. CASE i # 1
    <3>1. i - 1 \in Of(t, p, g) /\ t[i - 1].avail = a /\ i \in Nat
      BY <1>4, <1>7, <2>2
    <3>2. \A j \in Of(t, p, g) : j <= i - 1
      BY <1>3, <1>7, <3>1
    <3> QED BY <3>1, <3>2 DEF Hears
  <2> QED BY <2>1, <2>2
<1> QED BY <1>1, <1>6, <1>7 DEF Hears

(* A message is written: it is the last of its process.                    *)
LEMMA HearsAppend ==
  ASSUME NEW msgs \in Seq(Msgs), NEW msg \in Msgs, NEW p, NEW g, NEW now, NEW a,
         IF msg.pid = p /\ msg.gen = g THEN a = msg.avail ELSE Hears(msgs, p, g, now, a)
  PROVE  Hears(Append(msgs, msg), p, g, now, a)
<1>1. PICK s : s = Append(msgs, msg)
  OBVIOUS
<1>2. PICK n \in Nat : n = Len(msgs)
  OBVIOUS
<1>3. Len(s) = n + 1 /\ s[n + 1] = msg /\ \A i \in 1 .. n : s[i] = msgs[i]
  BY <1>1, <1>2
<1>4. \A i \in Of(s, p, g) : i \in Nat /\ i <= n + 1 /\ (i = n + 1 \/ i \in Of(msgs, p, g))
  BY <1>2, <1>3 DEF Of
<1>5. \A i \in Of(msgs, p, g) : i \in Of(s, p, g) /\ s[i] = msgs[i]
  BY <1>2, <1>3 DEF Of
<1>6. n + 1 \in Of(s, p, g) <=> msg.pid = p /\ msg.gen = g
  BY <1>3 DEF Of
<1>7. CASE msg.pid = p /\ msg.gen = g
  <2>1. n + 1 \in Of(s, p, g) /\ s[n + 1].avail = a /\ \A j \in Of(s, p, g) : j <= n + 1
    BY <1>3, <1>4, <1>6, <1>7
  <2> QED BY <1>1, <2>1 DEF Hears
<1>8. CASE ~(msg.pid = p /\ msg.gen = g)
  <2>1. Of(s, p, g) = Of(msgs, p, g)
    BY <1>4, <1>5, <1>6, <1>8
  <2> QED BY <1>1, <1>5, <1>8, <2>1 DEF Hears
<1> QED BY <1>7, <1>8

LEMMA StatusKeeps == MInv /\ master_status_event => MInv'
<1> SUFFICES ASSUME MInv, master_status_event PROVE MInv'
  OBVIOUS
<1>1. PICK k \in Lucks : m' = [StatusEvent([m EXCEPT !.luck = k], Head(pipe)) EXCEPT !.luck = 0]
  BY DEF master_status_event, Handles
<1>2. PICK n : n = [m EXCEPT !.luck = k]
  OBVIOUS
<1>3. PICK msg : msg = Head(pipe)
  OBVIOUS
<1>4. PICK r : r = StatusEvent(n, msg)
  OBVIOUS
<1>5. MasterUp /\ pipe # <<>> /\ pipe \in Seq(Msgs) /\ Sane(m, {})
  BY DEF master_status_event, MInv, MType
<1>6. msg \in Msgs
  BY <1>3, <1>5
<1>7. Sane(n, {}) /\ n.table = m.table /\ n.gen = m.gen
      /\ (Fresh(m) <=> Fresh(n)) /\ (LOK(m) <=> LOK(n))
  BY <1>2, <1>5, LucksInt, LuckIs
<1>8. Sane(r, {}) /\ (Fresh(n) => Fresh(r)) /\ (LOK(n) => LOK(r)) /\ Noted(n, r, msg)
  BY <1>4, <1>6, <1>7, StatusLeads
<1>9. PICK zero \in Int : zero = 0
  OBVIOUS
<1>10. PICK z : z = m'
  OBVIOUS
<1>11. z = [r EXCEPT !.luck = zero]
  BY <1>1, <1>2, <1>3, <1>4, <1>9, <1>10
<1>12. /\ Sane(z, {}) /\ z.table = r.table /\ z.gen = r.gen
       /\ (Fresh(r) <=> Fresh(z)) /\ (LOK(r) <=> LOK(z))
  BY <1>8, <1>11, LuckIs
<1>13. PICK d \in MStates :
         /\ Grown(d, r, {})
         /\ IF n.table[msg.pid] # None /\ n.table[msg.pid].gen = msg.gen
            THEN Marked(n, d, msg.pid, msg.avail)
            ELSE d.gen = n.gen /\ d.table = n.table
  BY <1>8 DEF Noted
<1>14. Grown(d, z, {})
  BY <1>12, <1>13 DEF Grown
<1>15. IF m.table[msg.pid] # None /\ m.table[msg.pid].gen = msg.gen
       THEN Marked(m, d, msg.pid, msg.avail)
       ELSE d.gen = m.gen /\ d.table = m.table
  BY <1>7, <1>13 DEF Marked
<1>16. Noted(m, z, msg)
  BY <1>14, <1>15 DEF Noted
<1>17. TableStep(z)
  BY <1>6, <1>12, <1>16, NotedTable DEF Sane
<1>18. Sane(m', {}) /\ TableStep(m')
  BY <1>10, <1>12, <1>17
<1>19. LOK(m') /\ (restarts = 0 => Fresh(m'))
  BY <1>5, <1>7, <1>8, <1>10, <1>12 DEF MInv
<1>20. pipe' = Tail(pipe) /\ UNCHANGED <<conf, restarts, stopped>>
       /\ os' = [q \in Pids |-> IF Born(q)
                                THEN [gen |-> m'.table[q].gen, doing |-> "idle", old |-> FALSE]
                                ELSE os[q]]
  BY DEF master_status_event, Processes
<1>21. \A q \in Pids : os[q] \in {None} \cup Procs /\ (os[q] # None => os[q].gen <= m.gen)
  BY DEF MInv, MType, Stamped
<1>22. pipe' \in Seq(Msgs) /\ (\A i \in 1 .. Len(pipe') : pipe'[i].gen <= m.gen) /\ restarts' \in Nat
  <2>1. pipe' \in Seq(Msgs) /\ restarts' \in Nat
    BY <1>5, <1>20 DEF MInv, MType
  <2>2. \A i \in 1 .. Len(pipe') : i + 1 \in 1 .. Len(pipe) /\ pipe'[i] = pipe[i + 1]
    BY <1>5, <1>20
  <2> QED BY <2>1, <2>2 DEF MInv, Stamped
<1>23. ASSUME ~stopped', NEW q \in Pids, Heard(os[q])
       PROVE  /\ m'.table[q] # None /\ m'.table[q].gen = os[q].gen
              /\ Hears(pipe', q, os[q].gen, m'.table[q].avail, Status(os[q]))
  <2>1. m.table[q] # None /\ m.table[q].gen = os[q].gen /\ os[q] # None
        /\ Hears(pipe, q, os[q].gen, m.table[q].avail, Status(os[q]))
    BY <1>20, <1>23 DEF MInv, Gossip, Heard
  <2>2. z.table[q] = d.table[q]
    BY <1>14, <2>1 DEF Grown
  <2>3. Hears(pipe', q, os[q].gen,
              IF msg.pid = q /\ msg.gen = os[q].gen THEN msg.avail ELSE m.table[q].avail,
              Status(os[q]))
    BY <1>3, <1>5, <1>20, <2>1, HearsTail
  <2>4. CASE msg.pid = q /\ msg.gen = os[q].gen
    <3>1. Marked(m, d, q, msg.avail)
      BY <1>15, <2>1, <2>4
    <3>2. d.table[q] # None /\ d.table[q].gen = os[q].gen /\ d.table[q].avail = msg.avail
      BY <2>1, <3>1, MasterAssumption DEF Marked
    <3> QED BY <1>10, <2>2, <2>3, <2>4, <3>2
  <2>5. CASE ~(msg.pid = q /\ msg.gen = os[q].gen)
    <3>1. d.table[q] = m.table[q]
      BY <1>15, <2>1, <2>5 DEF Marked
    <3> QED BY <1>10, <2>1, <2>2, <2>3, <2>5, <3>1
  <2> QED BY <2>4, <2>5
<1>24. PICK rest : rest = os
  OBVIOUS
<1>25. (MType /\ Stamped /\ Gossip)'
  BY <1>18, <1>20, <1>21, <1>22, <1>23, <1>24, HandlerGossip
<1> QED BY <1>19, <1>20, <1>25, Concludes

-----------------------------------------------------------------------------
(* The children.                                                           *)

(* A child goes on to do what there says.                                  *)
LEMMA ChildKeeps ==
  ASSUME MInv, NEW p \in Pids, os[p] # None,
         NEW there \in {"idle", "accepted", "serving", "exited", "crashed"},
         os' = [os EXCEPT ![p].doing = there],
         UNCHANGED <<conf, m, restarts, stopped>>,
         pipe' \in Seq(Msgs), \A i \in 1 .. Len(pipe') : pipe'[i].gen <= m.gen,
         \A q \in Pids \ {p} : \A g, now, a : Hears(pipe, q, g, now, a) => Hears(pipe', q, g, now, a),
         there \notin {"exited", "crashed"} =>
           /\ os[p].doing \notin {"exited", "crashed"}
           /\ ~os[p].old /\ Hears(pipe, p, os[p].gen, m.table[p].avail, Status(os[p]))
                => Hears(pipe', p, os[p].gen, m.table[p].avail, IF there = "serving" THEN TAKEN ELSE AVAIL)
  PROVE  MInv'
<1>1. PICK proc : proc = [os[p] EXCEPT !.doing = there]
  OBVIOUS
<1>2. os[p] \in Procs /\ os \in [Pids -> {None} \cup Procs]
  BY DEF MInv, MType
<1>3. proc \in Procs
  BY <1>1, <1>2 DEF Procs
<1>4. proc.gen = os[p].gen /\ proc.doing = there /\ proc.old = os[p].old
  BY <1>1, <1>2 DEF Procs
<1>5. os' = [os EXCEPT ![p] = proc]
  BY <1>1
<1>6. os'[p] = proc /\ (\A q \in Pids \ {p} : os'[q] = os[q]) /\ os' \in [Pids -> {None} \cup Procs]
  BY <1>2, <1>3, <1>5
<1>7. MType'
  <2>1. Sane(m, {})' /\ restarts' \in Nat
    BY DEF MInv, MType, Sane, Counts, Children, Idle
  <2> QED BY <1>6, <2>1 DEF MType
<1>8. Stamped'
  BY <1>4, <1>6 DEF MInv, Stamped
<1>9. ASSUME ~stopped', NEW q \in Pids, Heard(os'[q])
      PROVE  /\ m'.table[q] # None /\ m'.table[q].gen = os'[q].gen
             /\ Hears(pipe', q, os'[q].gen, m'.table[q].avail, Status(os'[q]))
  <2>1. CASE q # p
    <3>1. os'[q] = os[q]
      BY <1>6, <2>1
    <3>2. /\ m.table[q] # None /\ m.table[q].gen = os[q].gen
          /\ Hears(pipe, q, os[q].gen, m.table[q].avail, Status(os[q]))
      BY <1>9, <3>1 DEF MInv, Gossip
    <3> QED BY <2>1, <3>1, <3>2
  <2>2. CASE q = p
    <3>1. there \notin {"exited", "crashed"} /\ ~os[p].old
      BY <1>4, <1>6, <1>9, <2>2 DEF Heard
    <3>2. Heard(os[p])
      BY <3>1 DEF Heard
    <3>3. /\ m.table[p] # None /\ m.table[p].gen = os[p].gen
          /\ Hears(pipe, p, os[p].gen, m.table[p].avail, Status(os[p]))
      BY <1>9, <3>2 DEF MInv, Gossip
    <3>4. Status(proc) = IF there = "serving" THEN TAKEN ELSE AVAIL
      BY <1>4 DEF Status
    <3>5. Hears(pipe', p, os[p].gen, m.table[p].avail, Status(proc))
      BY <3>1, <3>3, <3>4
    <3> QED BY <1>4, <1>6, <2>2, <3>3, <3>5
  <2> QED BY <2>1, <2>2
<1>10. Gossip'
  BY <1>9 DEF Gossip
<1>11. (restarts' = 0 => Fresh(m)') /\ (MasterUp' => LOK(m)')
  BY DEF MInv, Fresh, LOK, LIMIT_OK, MasterUp
<1> QED BY <1>7, <1>8, <1>10, <1>11 DEF MInv

(* A child that tells the master nothing.                                  *)
LEMMA SilentKeeps ==
  ASSUME MInv, NEW p \in Pids, NEW here, NEW there \in {"idle", "accepted", "serving", "exited", "crashed"},
         Doing(p, here, there), UNCHANGED <<conf, m, pipe, restarts, stopped>>,
         there \notin {"exited", "crashed"} => here = "idle" /\ there = "accepted"
  PROVE  MInv'
<1>1. pipe' = pipe /\ pipe \in Seq(Msgs) /\ \A i \in 1 .. Len(pipe) : pipe[i].gen <= m.gen
  BY DEF MInv, MType, Stamped
<1>2. os[p] # None /\ os[p].doing = here /\ os' = [os EXCEPT ![p].doing = there]
  BY DEF Doing
<1>3. there \notin {"exited", "crashed"} =>
        /\ os[p].doing \notin {"exited", "crashed"}
        /\ Status(os[p]) = IF there = "serving" THEN TAKEN ELSE AVAIL
  BY <1>2 DEF Status
<1> QED BY <1>1, <1>2, <1>3, ChildKeeps

LEMMA NotifyKeeps ==
  ASSUME MInv, NEW p \in Pids, NEW here \in {"accepted", "serving"}, NEW there \in {"idle", "serving"},
         NEW status, status = IF there = "serving" THEN TAKEN ELSE AVAIL,
         acl_master_notify(p, here, there, status)
  PROVE  MInv'
<1>1. UNCHANGED <<conf, m, restarts, stopped>>
  BY DEF acl_master_notify
<1>2. os[p] # None /\ os[p].doing = here
  BY DEF acl_master_notify, Doing
<1>3. CASE os[p].old
  <2>1. Doing(p, here, "exited") /\ pipe' = pipe
    BY <1>2, <1>3 DEF acl_master_notify
  <2> QED BY <1>1, <2>1, SilentKeeps
<1>4. CASE ~os[p].old
  <2>1. PICK msg : msg = [pid |-> p, gen |-> os[p].gen, avail |-> status]
    OBVIOUS
  <2>2. os' = [os EXCEPT ![p].doing = there] /\ pipe' = Append(pipe, msg)
    BY <1>2, <1>4, <2>1 DEF acl_master_notify, Doing
  <2>3. os[p] \in Procs /\ os[p].gen \in Nat /\ os[p].gen <= m.gen /\ pipe \in Seq(Msgs)
        /\ \A i \in 1 .. Len(pipe) : pipe[i].gen <= m.gen
    BY <1>2 DEF MInv, MType, Stamped, Procs
  <2>4. msg \in Msgs /\ msg.pid = p /\ msg.gen = os[p].gen /\ msg.avail = status
    BY <2>1, <2>3 DEF Msgs
  <2>5. pipe' \in Seq(Msgs) /\ \A i \in 1 .. Len(pipe') : pipe'[i].gen <= m.gen
    BY <2>2, <2>3, <2>4
  <2>6. \A q \in Pids \ {p} : \A g, now, a : Hears(pipe, q, g, now, a) => Hears(pipe', q, g, now, a)
    BY <2>2, <2>3, <2>4, HearsAppend
  <2>7. Hears(pipe', p, os[p].gen, m.table[p].avail, status)
    BY <2>2, <2>3, <2>4, HearsAppend
  <2>8. os[p].doing \notin {"exited", "crashed"}
    BY <1>2
  <2> QED BY <1>1, <1>2, <2>2, <2>5, <2>6, <2>7, <2>8, ChildKeeps
<1> QED BY <1>3, <1>4

(* Nothing the invariant speaks of changes.                                *)
LEMMA SameKeeps == MInv /\ UNCHANGED <<conf, m, os, pipe, restarts, stopped>> => MInv'
BY DEF MInv, MType, Sane, Counts, Children, Idle, Stamped, Gossip, Fresh, LOK, LIMIT_OK, MasterUp

LEMMA NextMInv == MInv /\ [Next]_masterVars => MInv'
<1> SUFFICES ASSUME MInv, [Next]_masterVars PROVE MInv'
  OBVIOUS
<1>1. CASE Master
  BY <1>1, StartKeeps, AvailKeeps, StatusKeeps, ReapKeeps, UnthrottleKeeps DEF Master
<1>2. CASE acl_master_restart_service
  BY <1>2, RestartKeeps
<1>3. CASE acl_master_stop_service
  BY <1>3, StopKeeps
<1>4. ASSUME NEW p \in Pids, Accept(p) PROVE MInv'
  BY <1>4, SilentKeeps DEF Accept
<1>5. ASSUME NEW p \in Pids, NotifyTaken(p) PROVE MInv'
  BY <1>5, NotifyKeeps DEF NotifyTaken
<1>6. ASSUME NEW p \in Pids, NotifyAvail(p) PROVE MInv'
  BY <1>6, NotifyKeeps DEF NotifyAvail
<1>7. ASSUME NEW p \in Pids, Abort(p) PROVE MInv'
  BY <1>7, SilentKeeps DEF Abort
<1>8. ASSUME NEW p \in Pids, Expire(p) PROVE MInv'
  BY <1>8, SilentKeeps DEF Expire
<1>9. ASSUME NEW p \in Pids, Crash(p) PROVE MInv'
  BY <1>9, SilentKeeps DEF Crash
<1>10. CASE Arrive
  BY <1>10, SameKeeps DEF Arrive
<1>11. CASE UNCHANGED masterVars
  BY <1>11, SameKeeps DEF masterVars
<1> QED BY <1>1, <1>2, <1>3, <1>4, <1>5, <1>6, <1>7, <1>8, <1>9, <1>10, <1>11 DEF Next, Child

-----------------------------------------------------------------------------
(* The theorems.                                                           *)

(* What the master counts and hears, when it listens, and that every       *)
(* generation it gave out is its own: master_avail.c, master_spawn.c and   *)
(* master_status.c keep all of it, whatever dies, fails or is reloaded.    *)
THEOREM MasterSafe == Spec => []MInv
<1>1. Init => MInv
  BY InitMInv
<1>2. MInv /\ [Next]_masterVars => MInv'
  BY NextMInv
<1> QED BY <1>1, <1>2, PTL DEF Spec

(* avail_proc and total_proc are the numbers of idle children and of       *)
(* children in acl_var_master_child_table, through forks, deaths, lost and *)
(* late messages; and without a reload there are never more than max_proc. *)
THEOREM CountsSafe == Spec => []CountsExact
<1>1. MInv => CountsExact
  <2>1. Children(m) \ {} = Children(m)
    OBVIOUS
  <2> QED BY <2>1 DEF MInv, MType, Sane, Counts, Idle, Fresh, CountsExact
<1> QED BY <1>1, MasterSafe, PTL

(* The master never leaves the listen socket of a service alone that has   *)
(* no idle child and may have another, and, without a reload, never        *)
(* watches it along with an idle child.                                    *)
THEOREM ListensSafe == Spec => []ListensExactly
<1>1. MInv => ListensExactly
  BY DEF MInv, Fresh, LOK, MasterUp, ListensExactly
<1> QED BY <1>1, MasterSafe, PTL

(* What a process told last is what the master will have heard of it.      *)
LEMMA ToldIs ==
  ASSUME MType, NEW p \in Pids, NEW a, Hears(pipe, p, os[p].gen, m.table[p].avail, a)
  PROVE  Told(p) = a
<1> DEFINE of == {i \in DOMAIN pipe : pipe[i].pid = p /\ pipe[i].gen = os[p].gen}
<1>1. of = Of(pipe, p, os[p].gen)
  BY DEF Of, MType
<1>2. Told(p) = IF of = {} THEN m.table[p].avail
                ELSE pipe[CHOOSE i \in of : \A j \in of : j <= i].avail
  BY DEF Told
<1> HIDE DEF of
<1>4. CASE of = {}
  BY <1>1, <1>2, <1>4 DEF Hears
<1>5. ASSUME NEW i \in of, pipe[i].avail = a, \A j \in of : j <= i
      PROVE  Told(p) = a
  <2>1. of \subseteq Nat
    BY <1>1 DEF Of
  <2>2. PICK k : k = CHOOSE l \in of : \A j \in of : j <= l
    OBVIOUS
  <2>3. k \in of /\ \A j \in of : j <= k
    BY <1>5, <2>2
  <2>4. k = i
    BY <1>5, <2>1, <2>3
  <2> QED BY <1>2, <1>5, <2>2, <2>4
<1> QED BY <1>1, <1>4, <1>5 DEF Hears

(* The gossip converges: of each child that can still be heard, the last   *)
(* status the master has, or will have when it has read the pipe, is the   *)
(* one the child is in, however messages, deaths and pids that are used    *)
(* again interleave.                                                       *)
THEOREM GossipSafe == Spec => []GossipConverges
<1>1. MInv => GossipConverges
  <2> SUFFICES ASSUME MInv, NEW p \in Pids, ~stopped, os[p] # None, Alive(p), ~os[p].old
               PROVE  /\ m.table[p] # None /\ m.table[p].gen = os[p].gen
                      /\ Told(p) = IF os[p].doing = "serving" THEN TAKEN ELSE AVAIL
    BY DEF GossipConverges
  <2>1. Heard(os[p])
    BY DEF Heard, Alive
  <2>2. m.table[p] # None /\ m.table[p].gen = os[p].gen
        /\ Hears(pipe, p, os[p].gen, m.table[p].avail, Status(os[p]))
    BY <2>1 DEF MInv, Gossip
  <2>3. Told(p) = Status(os[p])
    BY <2>2, ToldIs DEF MInv
  <2> QED BY <2>2, <2>3 DEF Status
<1> QED BY <1>1, MasterSafe, PTL
=============================================================================
