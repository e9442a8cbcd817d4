------------------------------ MODULE Iteration ------------------------------
(***************************************************************************)
(* Facts about repeating a step, for definitions of the form               *)
(*   f[i \in 0 .. n] == IF i = 0 THEN start ELSE step(f[i - 1]),           *)
(* which the models use for the loops of the code.  They rest on the       *)
(* order of the natural numbers being well-founded.                        *)
(***************************************************************************)
EXTENDS Naturals, WellFoundedInduction, TLAPS

(* A set of natural numbers has a least element.                           *)
LEMMA LeastElement ==
  ASSUME NEW T \in SUBSET Nat, T # {}
  PROVE  \E x \in T : \A y \in T : ~(y < x)
<1>1. PICK x \in T : \A y \in T : <<y, x>> \notin OpToRel(<, Nat)
  BY NatLessThanWellFounded, WFMin
<1> QED BY <1>1 DEF OpToRel

(* What holds at the start and is kept by every step holds throughout.     *)
LEMMA HoldsThroughout ==
  ASSUME NEW S, NEW n \in Nat, NEW f,
         f[0] \in S, \A i \in 1 .. n : f[i - 1] \in S => f[i] \in S
  PROVE  \A i \in 0 .. n : f[i] \in S
<1> DEFINE Wrong == {i \in 0 .. n : f[i] \notin S}
<1>1. SUFFICES ASSUME Wrong # {} PROVE FALSE
  OBVIOUS
<1>2. PICK x \in Wrong : \A y \in Wrong : ~(y < x)
  <2>1. Wrong \in SUBSET Nat
    OBVIOUS
  <2> QED BY <1>1, <2>1, LeastElement
<1>3. x # 0
  BY <1>2
<1>4. x \in 1 .. n /\ x - 1 \in 0 .. n /\ x - 1 < x
  BY <1>2, <1>3
<1>5. f[x - 1] \in S
  BY <1>2, <1>4
<1> QED BY <1>2, <1>4, <1>5

(* Two functions that agree at the start, and from each place on to the    *)
(* next, agree throughout.                                                 *)
LEMMA AgreeThroughout ==
  ASSUME NEW n \in Nat, NEW f, NEW g,
         f[0] = g[0], \A i \in 1 .. n : f[i - 1] = g[i - 1] => f[i] = g[i]
  PROVE  \A i \in 0 .. n : f[i] = g[i]
<1> DEFINE Wrong == {i \in 0 .. n : f[i] # g[i]}
<1>1. SUFFICES ASSUME Wrong # {} PROVE FALSE
  OBVIOUS
<1>2. PICK x \in Wrong : \A y \in Wrong : ~(y < x)
  <2>1. Wrong \in SUBSET Nat
    OBVIOUS
  <2> QED BY <1>1, <2>1, LeastElement
<1>3. x \in 1 .. n /\ x - 1 \in 0 .. n /\ x - 1 < x
  <2>1. x # 0
    BY <1>2
  <2> QED BY <1>2, <2>1
<1> QED BY <1>2, <1>3

(* A step that leads from S to S can be repeated any number of times.      *)
LEMMA Repeats ==
  ASSUME NEW S, NEW start \in S, NEW n \in Nat, NEW step \in [1 .. n -> [S -> S]]
  PROVE  \E f \in [0 .. n -> S] :
           f[0] = start /\ \A i \in 1 .. n : f[i] = step[i][f[i - 1]]
<1> DEFINE To(f, k) == f[0] = start /\ \A i \in 1 .. k : f[i] = step[i][f[i - 1]]
           Wrong == {k \in 0 .. n : ~\E f \in [0 .. k -> S] : To(f, k)}
<1>1. SUFFICES ASSUME Wrong # {} PROVE FALSE
  <2>1. n \in 0 .. n
    OBVIOUS
  <2> QED BY <2>1
<1>2. PICK x \in Wrong : \A y \in Wrong : ~(y < x)
  <2>1. Wrong \in SUBSET Nat
    OBVIOUS
  <2> QED BY <1>1, <2>1, LeastElement
<1>3. x # 0
  <2>1. SUFFICES ASSUME x = 0 PROVE FALSE
    OBVIOUS
  <2>2. [i \in 0 .. 0 |-> start] \in [0 .. x -> S] /\ To([i \in 0 .. 0 |-> start], x)
    BY <2>1
  <2> QED BY <1>2, <2>2
<1>4. x \in 1 .. n /\ x - 1 \in 0 .. n /\ x - 1 < x
  BY <1>2, <1>3
<1>5. PICK f \in [0 .. x - 1 -> S] : To(f, x - 1)
  BY <1>2, <1>4
<1> DEFINE g == [i \in 0 .. x |-> IF i = x THEN step[x][f[x - 1]] ELSE f[i]]
<1>6. \A i \in 0 .. x : i = x \/ i \in 0 .. x - 1
  BY <1>4
<1>7. f[x - 1] \in S /\ step[x][f[x - 1]] \in S
  BY <1>4, <1>5
<1>8. g \in [0 .. x -> S]
  BY <1>6, <1>7
<1>9. To(g, x)
  <2>1. g[0] = start
    BY <1>4, <1>5
  <2>2. ASSUME NEW i \in 1 .. x PROVE g[i] = step[i][g[i - 1]]
    <3>0. i \in 0 .. x /\ i - 1 \in 0 .. x /\ i - 1 # x
      BY <1>4
    <3>1. g[i - 1] = f[i - 1]
      BY <3>0
    <3>2. CASE i = x
      BY <3>0, <3>1, <3>2
    <3>3. CASE i # x
      <4>1. i \in 1 .. x - 1
        BY <3>3, <1>4
      <4>2. f[i] = step[i][f[i - 1]]
        BY <4>1, <1>5
      <4> QED BY <3>0, <3>1, <3>3, <4>2
    <3> QED BY <3>2, <3>3
  <2> QED BY <2>1, <2>2
<1> QED BY <1>2, <1>8, <1>9
=============================================================================
