--------------------------- MODULE RecursionLemmas ---------------------------
(***************************************************************************)
(* Induction over the indices of a sequence, and recursion over them, as   *)
(* the proofs about folds need it: a theorem cannot be instantiated with   *)
(* an operator, so that a claim is the set of the indices at which it      *)
(* holds, and the step of a recursion is a function.                       *)
(***************************************************************************)
EXTENDS Integers, WellFoundedInduction, TLAPS

\* Induction over an interval, with the indices that satisfy the claim as a set.
LEMMA IntervalInduction ==
  ASSUME NEW n \in Nat, NEW T, 0 \in T, \A k \in 0 .. n - 1 : k \in T => k + 1 \in T
  PROVE  0 .. n \subseteq T
<1> DEFINE Bad == {k \in 0 .. n : k \notin T}
<1>1. SUFFICES ASSUME Bad # {} PROVE FALSE
  OBVIOUS
<1>2. Bad \subseteq Nat
  OBVIOUS
<1> HIDE DEF Bad
<1>3. PICK x \in Bad : \A y \in Bad : ~ (<<y, x>> \in OpToRel(<, Nat))
  BY <1>1, <1>2, NatLessThanWellFounded, WFMin
<1>4. \A y \in Bad : ~ (y < x)
  BY <1>2, <1>3 DEF OpToRel
<1>5. x \in 0 .. n /\ x \notin T
  BY DEF Bad
<1>6. x # 0
  BY <1>5
<1>7. x - 1 \in 0 .. n - 1
  BY <1>5, <1>6
<1>8. x - 1 \in T
  BY <1>4, <1>7 DEF Bad
<1>9. QED
  BY <1>5, <1>7, <1>8

Solves(g, n, c, D) ==
  \A k \in 0 .. n : g[k] = IF k = 0 THEN c ELSE D[k][g[k - 1]]

\* A recursion over an interval that stays within a set has a solution. The step
\* is given as a function, since a theorem cannot be instantiated with an operator.
LEMMA RecursionExists ==
  ASSUME NEW n \in Nat, NEW S, NEW c \in S, NEW D \in [1 .. n -> [S -> S]]
  PROVE  \E g \in [0 .. n -> S] : Solves(g, n, c, D)
<1> DEFINE Good(g, k) == \A i \in 0 .. k : g[i] = IF i = 0 THEN c ELSE D[i][g[i - 1]]
           T == {k \in 0 .. n : \E g \in [0 .. k -> S] : Good(g, k)}
<1>1. 0 \in T
  <2> DEFINE h == [i \in 0 .. 0 |-> c]
  <2>1. h \in [0 .. 0 -> S] /\ Good(h, 0)
    <3>1. 0 .. 0 = {0}
      OBVIOUS
    <3>2. QED
      BY <3>1
  <2> HIDE DEF h, Good
  <2>2. \E g \in [0 .. 0 -> S] : Good(g, 0)
    BY <2>1
  <2>3. QED
    BY <2>2
<1>2. ASSUME NEW k \in 0 .. n - 1, k \in T PROVE k + 1 \in T
  <2>1. PICK g \in [0 .. k -> S] : Good(g, k)
    BY <1>2
  <2> DEFINE h == [i \in 0 .. k + 1 |-> IF i = k + 1 THEN D[i][g[k]] ELSE g[i]]
  <2>2. g[k] \in S /\ k + 1 \in 1 .. n
    OBVIOUS
  <2>3. h \in [0 .. k + 1 -> S]
    BY <2>2
  <2>4. ASSUME NEW i \in 0 .. k + 1
        PROVE  h[i] = IF i = 0 THEN c ELSE D[i][h[i - 1]]
    <3>1. CASE i = k + 1
      BY <3>1
    <3>2. CASE i # k + 1 /\ i # 0
      <4>1. i \in 0 .. k /\ i - 1 \in 0 .. k /\ i - 1 \in 0 .. k + 1 /\ i - 1 # k + 1
        BY <3>2
      <4>2. h[i] = g[i] /\ h[i - 1] = g[i - 1]
        BY <4>1
      <4>3. QED
        BY <2>1, <3>2, <4>1, <4>2
    <3>3. CASE i = 0
      BY <2>1, <3>3
    <3>4. QED
      BY <3>1, <3>2, <3>3
  <2> HIDE DEF h
  <2>5. \E f \in [0 .. k + 1 -> S] : Good(f, k + 1)
    BY <2>3, <2>4
  <2>6. QED
    BY <2>5
<1>3. 0 .. n \subseteq T
  <2> HIDE DEF T
  <2>1. QED
    BY <1>1, <1>2, IntervalInduction
<1>4. \E g \in [0 .. n -> S] : Good(g, n)
  BY <1>3
<1>5. QED
  BY <1>4 DEF Solves
=============================================================================
