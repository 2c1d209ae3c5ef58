--------------------------- MODULE GeneralLemmas ---------------------------
(***************************************************************************)
(* What the proofs about several components need: induction over the       *)
(* natural numbers, what it says of the loops of the code, and ordered     *)
(* sets.                                                                   *)
(*                                                                         *)
(* A loop is modelled by a recursive function of the number of turns it    *)
(* has made,                                                               *)
(*                                                                         *)
(*     after[i \in 0..n] == IF i = 0 THEN start ELSE turn(after[i - 1])    *)
(*                                                                         *)
(* which TLA+ defines by CHOOSE.  LoopExists shows that such a function    *)
(* exists and stays in the set that every turn stays in.                   *)
(***************************************************************************)
EXTENDS Integers, Collections, TLAPS, WellFoundedInduction

(* Natural numbers, if there are any in a set, have a least one.           *)
THEOREM LeastNumber ==
    ASSUME NEW T, T \subseteq Nat, T # {}
    PROVE  \E x \in T : \A y \in T : x <= y
<1>1. PICK x \in T : \A y \in T : <<y, x>> \notin OpToRel(<, Nat)
  BY NatLessThanWellFounded, WFMin
<1>2. \A y \in T : x \in Nat /\ y \in Nat /\ ~(y < x)
  BY <1>1 DEF OpToRel
<1>3. \A y \in T : x <= y
  BY <1>2
<1> QED
  BY <1>3

(* A set that holds 0 and the successor of each natural number it holds    *)
(* holds them all: otherwise one of those it lacks would be the least.     *)
THEOREM Induction ==
    ASSUME NEW S, 0 \in S, \A n \in Nat : n \in S => n + 1 \in S
    PROVE  Nat \subseteq S
<1> DEFINE T == Nat \ S
<1> SUFFICES ASSUME T # {} PROVE FALSE
  OBVIOUS
<1>1. PICK x \in T : \A y \in T : x <= y
  <2>1. T \subseteq Nat
    OBVIOUS
  <2> HIDE DEF T
  <2> QED
    BY <2>1, LeastNumber
<1>2. x - 1 \in Nat /\ x - 1 < x /\ x = (x - 1) + 1
  <2>1. x \in Nat /\ x # 0
    OBVIOUS
  <2> QED
    BY <2>1
<1> QED
  BY <1>1, <1>2

(* The values that a loop of n turns goes through exist: turn i takes the  *)
(* state s to turns[i][s].                                                 *)
THEOREM LoopExists ==
    ASSUME NEW S, NEW start \in S, NEW n \in Nat, NEW turns \in [1..n -> [S -> S]]
    PROVE  \E f \in [0..n -> S] :
              f[0] = start /\ \A i \in 1..n : f[i] = turns[i][f[i - 1]]
<1> DEFINE Reached == {m \in Nat : m <= n =>
              \E f \in [0..m -> S] :
                 f[0] = start /\ \A i \in 1..m : f[i] = turns[i][f[i - 1]]}
<1>1. 0 \in Reached
  <2> DEFINE f == [i \in 0..0 |-> start]
  <2>1. f \in [0..0 -> S] /\ f[0] = start /\ \A i \in 1..0 : f[i] = turns[i][f[i - 1]]
    OBVIOUS
  <2> HIDE DEF f
  <2> QED BY <2>1
<1>2. ASSUME NEW m \in Nat, m \in Reached PROVE m + 1 \in Reached
  <2> SUFFICES ASSUME m + 1 <= n
               PROVE  \E f \in [0..(m + 1) -> S] :
                 f[0] = start /\ \A i \in 1..(m + 1) : f[i] = turns[i][f[i - 1]]
    OBVIOUS
  <2>1. PICK f \in [0..m -> S] : f[0] = start /\ \A i \in 1..m : f[i] = turns[i][f[i - 1]]
    BY <1>2
  <2> DEFINE g == [i \in 0..(m + 1) |-> IF i = m + 1 THEN turns[m + 1][f[m]] ELSE f[i]]
  <2>2. turns[m + 1] \in [S -> S] /\ f[m] \in S
    BY <2>1
  <2>3. turns[m + 1][f[m]] \in S
    BY <2>2
  <2>4. g \in [0..(m + 1) -> S]
    BY <2>1, <2>3
  <2>5. g[0] = start
    BY <2>1
  <2>6. ASSUME NEW i \in 1..(m + 1) PROVE g[i] = turns[i][g[i - 1]]
    <3>1. g[i - 1] = f[i - 1]
      OBVIOUS
    <3>2. CASE i = m + 1
      BY <3>1, <3>2
    <3>3. CASE i # m + 1
      <4>1. i \in 1..m /\ g[i] = f[i]
        BY <3>3
      <4> QED BY <4>1, <3>1, <2>1
    <3> QED BY <3>2, <3>3
  <2> HIDE DEF g
  <2> QED BY <2>4, <2>5, <2>6
<1>3. n \in Reached
  <2> HIDE DEF Reached
  <2> QED BY <1>1, <1>2, Induction
<1> QED BY <1>3

-----------------------------------------------------------------------------
(* Ordered sets                                                            *)

(* Adding to an ordered set keeps its elements distinct.                   *)
LEMMA AddElement ==
    ASSUME NEW S, NEW s \in Seq(S), NEW e \in S, IsInjective(s)
    PROVE  /\ Add(s, e) \in Seq(S)
           /\ Range(Add(s, e)) = Range(s) \cup {e}
           /\ IsInjective(Add(s, e))
<1>1. CASE Contains(s, e)
  BY <1>1 DEF Add, Contains, Range
<1>2. CASE ~Contains(s, e)
  <2> DEFINE t == Append(s, e)
  <2>1. Add(s, e) = t
    BY <1>2 DEF Add
  <2>2. t \in Seq(S) /\ DOMAIN t = 1..(Len(s) + 1) /\ DOMAIN s = 1..Len(s) /\ Len(s) \in Nat
    OBVIOUS
  <2>3. t[Len(s) + 1] = e /\ \A i \in 1..Len(s) : t[i] = s[i]
    OBVIOUS
  <2>4. \A i \in 1..Len(s) : s[i] # e
    BY <1>2 DEF Contains
  <2> HIDE DEF t
  <2>5. IsInjective(t)
    BY <2>2, <2>3, <2>4 DEF IsInjective
  <2>6. Range(t) = Range(s) \cup {e}
    BY <2>2, <2>3 DEF Range
  <2> QED
    BY <2>1, <2>2, <2>5, <2>6
<1> QED
  BY <1>1, <1>2

(* Deleting from an ordered set removes one element and keeps the others.  *)
LEMMA DeleteElement ==
    ASSUME NEW S, NEW s \in Seq(S), NEW e, IsInjective(s)
    PROVE  /\ Delete(s, e) \in Seq(S)
           /\ Range(Delete(s, e)) = Range(s) \ {e}
           /\ IsInjective(Delete(s, e))
<1>1. CASE ~Contains(s, e)
  BY <1>1 DEF Delete, Contains, Range
<1>2. CASE Contains(s, e)
  <2> DEFINE k == CHOOSE i \in 1..Len(s) : s[i] = e
             a == SubSeq(s, 1, k - 1)
             b == SubSeq(s, k + 1, Len(s))
             t == a \o b
  <2>1. k \in 1..Len(s) /\ s[k] = e
    BY <1>2 DEF Contains
  <2>2. Delete(s, e) = t
    BY <1>2 DEF Delete, RemoveAt
  <2> HIDE DEF k
  <2>3. a \in Seq(S) /\ Len(a) = k - 1 /\ \A i \in 1..(k - 1) : a[i] = s[i]
    BY <2>1
  <2>4. b \in Seq(S) /\ Len(b) = Len(s) - k /\ \A i \in 1..(Len(s) - k) : b[i] = s[k + i]
    BY <2>1
  <2> HIDE DEF a, b
  <2>5. t \in Seq(S) /\ Len(t) = Len(s) - 1
    <3>1. a \in Seq(S) /\ b \in Seq(S)
      BY <2>3, <2>4
    <3>2. t \in Seq(S) /\ Len(t) = Len(a) + Len(b)
      BY <3>1
    <3> QED
      BY <3>2, <2>1, <2>3, <2>4
  <2>6. \A i \in 1..(k - 1) : t[i] = s[i]
    BY <2>1, <2>3, <2>4
  <2>7. \A i \in k..(Len(s) - 1) : t[i] = s[i + 1]
    <3> SUFFICES ASSUME NEW i \in k..(Len(s) - 1) PROVE t[i] = s[i + 1]
      OBVIOUS
    <3>1. i \in 1..Len(t) /\ i - (k - 1) \in 1..(Len(s) - k)
      BY <2>1, <2>5
    <3>2. t[i] = b[i - Len(a)]
      BY <3>1, <2>1, <2>3, <2>4, <2>5
    <3>3. i - Len(a) = i - (k - 1) /\ k + (i - (k - 1)) = i + 1
      BY <3>1, <2>1, <2>3
    <3> QED
      BY <3>1, <3>2, <3>3, <2>4
  <2> HIDE DEF t
  <2>8. DOMAIN t = 1..(Len(s) - 1) /\ DOMAIN s = 1..Len(s) /\ Len(s) \in Nat /\ k \in Nat
    BY <2>1, <2>5
  <2>9. \A i, j \in 1..Len(s) : s[i] = s[j] => i = j
    BY <2>8 DEF IsInjective
  <2>10. IsInjective(t)
    <3> SUFFICES ASSUME NEW i \in 1..(Len(s) - 1), NEW j \in 1..(Len(s) - 1), t[i] = t[j]
                 PROVE  i = j
      BY <2>8 DEF IsInjective
    <3> QED
      BY <2>1, <2>6, <2>7, <2>8, <2>9
  <2>11. Range(t) = Range(s) \ {e}
    <3>1. ASSUME NEW i \in 1..(Len(s) - 1) PROVE t[i] \in Range(s) \ {e}
      BY <2>1, <2>6, <2>7, <2>8, <2>9 DEF Range
    <3>2. ASSUME NEW i \in 1..Len(s), s[i] # e PROVE s[i] \in Range(t)
      <4>1. CASE i < k
        BY <4>1, <2>1, <2>6, <2>8 DEF Range
      <4>2. CASE i > k
        <5>1. i - 1 \in k..(Len(s) - 1) /\ i - 1 \in 1..(Len(s) - 1)
          BY <4>2, <2>1, <2>8
        <5>2. t[i - 1] = s[i]
          BY <5>1, <2>7, <2>8
        <5> QED
          BY <5>1, <5>2, <2>8 DEF Range
      <4> QED
        BY <4>1, <4>2, <3>2, <2>1, <2>8
    <3> QED
      BY <3>1, <3>2, <2>8 DEF Range
  <2> QED
    BY <2>2, <2>5, <2>10, <2>11
<1> QED
  BY <1>1, <1>2
=============================================================================
