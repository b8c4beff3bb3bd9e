-------------------------- MODULE DataChannelProofs --------------------------
(***************************************************************************)
(* Theorems about the chunks and the channels, for every set of sessions   *)
(* and messages, every size of a chunk and any number of faults.  First,   *)
(* what the client's encoder makes of a message and what the decoder keeps *)
(* of some of its chunks, whichever they are and in whatever order they    *)
(* came; then the chunks of all messages on their way; last, the answers.  *)
(***************************************************************************)
EXTENDS DataChannel, RecursionLemmas, FiniteSetTheorems, SequenceTheorems, TLAPS

-----------------------------------------------------------------------------
(***************************************************************************)
(* The order of the decoder's maps.                                        *)
(***************************************************************************)
\* How many elements of a set come before one.
Rank(S, x) == Cardinality({y \in S : y < x})

LEMMA CountedFromZero ==
  ASSUME NEW n \in Nat
  PROVE  IsFiniteSet(0 .. n - 1) /\ Cardinality(0 .. n - 1) = n
<1>1. PICK a \in Int, m \in Int : a = 0 /\ m = n - 1
  OBVIOUS
<1>2. IsFiniteSet(a .. m) /\ Cardinality(a .. m) = IF a > m THEN 0 ELSE m - a + 1
  BY FS_Interval
<1>3. QED BY <1>1, <1>2

Rising(e, n) == \A i, j \in 1 .. n : i < j => e[i] < e[j]

LEMMA Ranks ==
  ASSUME NEW S \in SUBSET Int, IsFiniteSet(S)
  PROVE  /\ \A x \in S : Rank(S, x) \in 0 .. Cardinality(S) - 1
         /\ \A x, z \in S : x < z => Rank(S, x) < Rank(S, z)
<1>1. \A x \in S : /\ IsFiniteSet({y \in S : y < x}) /\ Rank(S, x) \in Nat
  BY FS_Subset, FS_CardinalityType DEF Rank
<1>2. ASSUME NEW x \in S, NEW z \in S, x < z
      PROVE  Rank(S, x) < Rank(S, z)
  <2>1. PICK A, B : A = {y \in S : y < x} /\ B = {y \in S : y < z}
    OBVIOUS
  <2>2. IsFiniteSet(A) /\ IsFiniteSet(B) /\ x \notin A /\ A \cup {x} \subseteq B
    <3>1. IsFiniteSet(A) /\ IsFiniteSet(B)
      BY <1>1, <2>1
    <3>2. x \in Int /\ z \in Int /\ \A y \in S : y \in Int
      OBVIOUS
    <3>3. x \notin A
      BY <2>1, <3>2
    <3>4. A \cup {x} \subseteq B
      <4>1. x \in B
        BY <1>2, <2>1
      <4>2. ASSUME NEW y \in A PROVE y \in B
        <5>1. y \in S /\ y < x /\ y \in Int
          BY <2>1, <3>2
        <5>2. y < z
          BY <1>2, <3>2, <5>1
        <5>3. QED BY <2>1, <5>1, <5>2
      <4>3. QED BY <4>1, <4>2
    <3>5. QED BY <3>1, <3>3, <3>4
  <2>3. Cardinality(A \cup {x}) = Cardinality(A) + 1
    BY <2>2, FS_AddElement
  <2>4. Cardinality(A \cup {x}) <= Cardinality(B)
    BY <2>2, FS_Subset
  <2>5. Cardinality(A) \in Nat /\ Cardinality(B) \in Nat
    BY <2>2, FS_CardinalityType
  <2>6. Rank(S, x) = Cardinality(A) /\ Rank(S, z) = Cardinality(B)
    BY <2>1 DEF Rank
  <2>7. QED BY <2>3, <2>4, <2>5, <2>6
<1>3. ASSUME NEW x \in S
      PROVE  Rank(S, x) <= Cardinality(S) - 1
  <2>1. PICK A : A = {y \in S : y < x}
    OBVIOUS
  <2>2. IsFiniteSet(A) /\ x \notin A /\ A \cup {x} \subseteq S
    BY <1>1, <2>1
  <2>3. Cardinality(A \cup {x}) = Cardinality(A) + 1
    BY <2>2, FS_AddElement
  <2>4. Cardinality(A \cup {x}) <= Cardinality(S)
    BY <2>2, FS_Subset
  <2>5. Cardinality(A) \in Nat /\ Cardinality(S) \in Nat
    BY <2>2, FS_CardinalityType
  <2>6. Rank(S, x) = Cardinality(A)
    BY <2>1 DEF Rank
  <2>7. QED BY <2>3, <2>4, <2>5, <2>6
<1>4. Cardinality(S) \in Nat
  BY FS_CardinalityType
<1>5. ASSUME NEW x \in S PROVE Rank(S, x) \in 0 .. Cardinality(S) - 1
  <2>1. Rank(S, x) \in Nat
    BY <1>1
  <2>2. QED BY <1>3, <1>4, <2>1
<1>6. QED BY <1>2, <1>5

\* The elements of a finite set of numbers, from the least to the largest.
LEMMA AscendingEnumerates ==
  ASSUME NEW S \in SUBSET Int, IsFiniteSet(S)
  PROVE  /\ Cardinality(S) \in Nat
         /\ Ascending(S) \in [1 .. Cardinality(S) -> S]
         /\ Rising(Ascending(S), Cardinality(S))
         /\ \A x \in S : \E i \in 1 .. Cardinality(S) : Ascending(S)[i] = x
         /\ \A i \in 1 .. Cardinality(S) : Rank(S, Ascending(S)[i]) = i - 1
<1> DEFINE n == Cardinality(S)
           r == [x \in S |-> Rank(S, x)]
<1>1. n \in Nat
  BY FS_CardinalityType
<1>2. r \in [S -> 0 .. n - 1]
  BY Ranks
<1>3. \A x, z \in S : r[x] = r[z] => x = z
  <2>1. SUFFICES ASSUME NEW x \in S, NEW z \in S, x # z
                 PROVE  r[x] # r[z]
    OBVIOUS
  <2>2. x < z \/ z < x
    BY <2>1
  <2>3. Rank(S, x) < Rank(S, z) \/ Rank(S, z) < Rank(S, x)
    BY <2>2, Ranks
  <2>4. Rank(S, x) \in Int /\ Rank(S, z) \in Int
    BY <1>1, Ranks
  <2>5. QED BY <2>3, <2>4
<1>4. r \in Surjection(S, 0 .. n - 1)
  <2>1. PICK T : T = 0 .. n - 1
    OBVIOUS
  <2>2. IsFiniteSet(T) /\ Cardinality(T) = n
    <3> HIDE DEF n
    <3>1. QED BY <1>1, <2>1, CountedFromZero
  <2>3. r \in Injection(S, T)
    <3> HIDE DEF r, n
    <3>1. QED BY <1>2, <1>3, <2>1 DEF Injection, IsInjective
  <2> HIDE DEF r, n
  <2>4. QED BY <2>1, <2>2, <2>3, FS_Injection DEF n
<1>5. \A i \in 1 .. n : \E x \in S : Rank(S, x) = i - 1
  <2>1. \A i \in 1 .. n : i - 1 \in 0 .. n - 1
    BY <1>1
  <2>2. \A k \in 0 .. n - 1 : \E x \in S : r[x] = k
    BY <1>4 DEF Surjection
  <2>3. QED BY <2>1, <2>2
<1>6. \A i \in 1 .. n : Ascending(S)[i] \in S /\ Rank(S, Ascending(S)[i]) = i - 1
  BY <1>5 DEF Ascending, Rank
<1>7. Ascending(S) \in [1 .. n -> S]
  <2>1. Ascending(S) = [i \in 1 .. n |-> Ascending(S)[i]]
    <3> DEFINE at(i) == CHOOSE x \in S : Cardinality({y \in S : y < x}) = i - 1
    <3>1. Ascending(S) = [i \in 1 .. n |-> at(i)]
      BY DEF Ascending
    <3> HIDE DEF at, n
    <3>2. QED BY <3>1
  <2>2. QED BY <1>6, <2>1
<1>8. ASSUME NEW i \in 1 .. n, NEW j \in 1 .. n, i < j
      PROVE  Ascending(S)[i] < Ascending(S)[j]
  <2>1. PICK x \in S, z \in S : x = Ascending(S)[i] /\ z = Ascending(S)[j]
    BY <1>6
  <2>2. Rank(S, x) = i - 1 /\ Rank(S, z) = j - 1
    BY <1>6, <2>1
  <2>3. ~(z < x) /\ z # x
    <3>1. z < x => Rank(S, z) < Rank(S, x)
      BY Ranks
    <3>2. QED BY <1>8, <2>2, <3>1
  <2>4. QED BY <2>1, <2>3
<1>9. ASSUME NEW x \in S
      PROVE  \E i \in 1 .. n : Ascending(S)[i] = x
  <2>1. r[x] \in 0 .. n - 1
    BY <1>2
  <2>2. r[x] + 1 \in 1 .. n
    BY <1>1, <2>1
  <2>3. PICK i \in 1 .. n : i = r[x] + 1
    BY <2>2
  <2>4. i - 1 = r[x]
    BY <2>1, <2>3
  <2>5. r[Ascending(S)[i]] = r[x]
    BY <1>6, <2>4
  <2>6. Ascending(S)[i] = x
    BY <1>3, <1>6, <2>5
  <2>7. QED BY <2>6
<1>10. QED BY <1>1, <1>6, <1>7, <1>8, <1>9 DEF Rising

\* There is one such sequence.
LEMMA AscendingIs ==
  ASSUME NEW S \in SUBSET Int, NEW n \in Nat, NEW e \in [1 .. n -> S], Rising(e, n),
         \A x \in S : \E i \in 1 .. n : e[i] = x
  PROVE  IsFiniteSet(S) /\ Cardinality(S) = n /\ Ascending(S) = e
<1>1. IsFiniteSet(1 .. n) /\ Cardinality(1 .. n) = n
  BY FS_Interval
<1>2. \A i, j \in 1 .. n : e[i] = e[j] => i = j
  <2>1. SUFFICES ASSUME NEW i \in 1 .. n, NEW j \in 1 .. n, e[i] = e[j], i # j
                 PROVE  FALSE
    OBVIOUS
  <2>2. i < j \/ j < i
    BY <2>1
  <2>3. e[i] < e[j] \/ e[j] < e[i]
    BY <2>2 DEF Rising
  <2>4. e[i] \in Int /\ e[j] \in Int
    OBVIOUS
  <2>5. QED BY <2>1, <2>3, <2>4
<1>3. e \in Surjection(1 .. n, S) /\ e \in Injection(1 .. n, S)
  BY <1>2 DEF Surjection, Injection, IsInjective
<1>4. IsFiniteSet(S) /\ Cardinality(S) = n
  BY <1>1, <1>3, FS_Surjection
<1>5. ASSUME NEW i \in 1 .. n
      PROVE  Rank(S, e[i]) = i - 1
  <2>1. PICK B, m : B = {y \in S : y < e[i]} /\ m = i - 1
    OBVIOUS
  <2>2. m \in Nat /\ 1 .. m \subseteq 1 .. n /\ \A j \in 1 .. n : j \in 1 .. m <=> j < i
    BY <2>1
  <2>3. PICK f : f = [j \in 1 .. m |-> e[j]]
    OBVIOUS
  <2>4. \A j \in 1 .. m : e[j] \in B
    BY <2>1, <2>2 DEF Rising
  <2>5. ASSUME NEW y \in B
        PROVE  \E j \in 1 .. m : f[j] = y
    <3>1. y \in S /\ y < e[i]
      BY <2>1
    <3>2. PICK j \in 1 .. n : e[j] = y
      BY <3>1
    <3>3. ~(i < j) /\ i # j
      <4>1. e[i] \in Int /\ e[j] \in Int /\ e[j] < e[i]
        BY <3>1, <3>2
      <4>2. i < j => e[i] < e[j]
        BY DEF Rising
      <4>3. QED BY <4>1, <4>2
    <3>4. j < i
      BY <3>3
    <3>5. QED BY <2>2, <2>3, <3>2, <3>4
  <2>6. f \in [1 .. m -> B]
    BY <2>3, <2>4
  <2>7. \A j, k \in 1 .. m : f[j] = f[k] => j = k
    BY <1>2, <2>2, <2>3
  <2>8. f \in Bijection(1 .. m, B)
    BY <2>5, <2>6, <2>7 DEF Bijection, Surjection, Injection, IsInjective
  <2>9. IsFiniteSet(1 .. m) /\ Cardinality(1 .. m) = m
    BY <2>2, FS_Interval
  <2>10. Cardinality(B) = m
    BY <2>8, <2>9, FS_Bijection DEF ExistsBijection
  <2>11. QED BY <2>1, <2>10 DEF Rank
<1>6. ASSUME NEW i \in 1 .. n
      PROVE  Ascending(S)[i] = e[i]
  <2>1. Ascending(S)[i] \in S /\ Rank(S, Ascending(S)[i]) = i - 1
    BY <1>4, AscendingEnumerates
  <2>2. PICK j \in 1 .. n : e[j] = Ascending(S)[i]
    BY <2>1
  <2>3. j - 1 = i - 1
    BY <1>5, <2>1, <2>2
  <2>4. QED BY <2>2, <2>3
<1>7. Ascending(S) \in [1 .. n -> S]
  BY <1>4, AscendingEnumerates
<1>8. Ascending(S) = e
  BY <1>6, <1>7
<1>9. QED BY <1>4, <1>8
-----------------------------------------------------------------------------
(***************************************************************************)
(* How a message is split.                                                 *)
(***************************************************************************)
LEMMA Division ==
  ASSUME NEW b \in Nat, NEW P \in Nat \ {0}
  PROVE  /\ b \div P \in Nat /\ b % P \in 0 .. P - 1
         /\ b = P * (b \div P) + (b % P)
<1>1. b \div P \in Nat
  OBVIOUS
<1>2. b % P \in 0 .. P - 1
  OBVIOUS
<1>3. b = P * (b \div P) + (b % P)
  OBVIOUS
<1>4. QED BY <1>1, <1>2, <1>3

LEMMA Product ==
  ASSUME NEW P \in Nat \ {0}, NEW d \in Int
  PROVE  /\ P * d \in Int
         /\ d >= 1 => P * d >= P
         /\ d <= -1 => P * d <= -P
OBVIOUS

LEMMA Remainder ==
  ASSUME NEW P \in Nat \ {0}, NEW a \in Int, NEW s \in 0 .. P - 1, P * a + s \in Nat
  PROVE  (P * a + s) % P = s
<1>1. PICK b \in Nat : b = P * a + s
  OBVIOUS
<1>2. PICK q \in Nat, r \in 0 .. P - 1 : b = P * q + r /\ r = b % P
  BY Division
<1>3. PICK d \in Int : d = a - q
  OBVIOUS
<1>4. P * d = P * a - P * q
  BY <1>3
<1>5. P * d = r - s
  <2>1. PICK x \in Int, y \in Int : x = P * a /\ y = P * q
    OBVIOUS
  <2>2. x + s = y + r
    BY <1>1, <1>2, <2>1
  <2>3. P * d = x - y
    BY <1>4, <2>1
  <2>4. QED BY <2>2, <2>3
<1>6. ~(d >= 1) /\ ~(d <= -1)
  BY <1>5, Product
<1>7. d = 0
  BY <1>6
<1>8. P * d = 0
  BY <1>7
<1>9. r = s
  BY <1>5, <1>8
<1>10. QED BY <1>1, <1>2, <1>9

\* What is left for the last chunk.
LeftOver(b, max) == b - (ChunkCount(b, max) - 1) * max
LastFits(b, max) ==
  /\ LeftOver(b, max) \in 1 .. max
  /\ LeftOver(b, max) = 1 <=> b % max = 1

\* A message that is not empty has a chunk, and its last one is not empty.
LEMMA Counts ==
  ASSUME NEW b \in Nat, NEW max \in Nat \ {0, 1}
  PROVE  /\ ChunkCount(b, max) \in Nat
         /\ ChunkCount(b, max) = 0 <=> b = 0
         /\ b > 0 => LastFits(b, max)
<1>1. PICK P \in Nat \ {0} : P = max /\ P > 1
  OBVIOUS
<1>2. PICK t \in Nat : t = b + P - 1
  BY <1>1
<1>3. PICK q \in Nat, r \in 0 .. P - 1 : t = P * q + r /\ q = t \div P
  BY Division
<1>4. ChunkCount(b, max) = q
  BY <1>1, <1>2, <1>3 DEF ChunkCount
<1>5. PICK m \in Int : m = P * q
  OBVIOUS
<1>6. b + P - 1 = m + r
  BY <1>2, <1>3, <1>5
<1>7. q = 0 => m = 0
  BY <1>5
<1>8. q >= 1 => m >= P
  BY <1>5, Product
<1>9. q = 0 <=> b = 0
  BY <1>1, <1>6, <1>7, <1>8
<1>10. (q - 1) * P = m - P
  BY <1>5
<1>11. b - (q - 1) * P = r + 1
  BY <1>6, <1>10
<1>12. ASSUME b > 0
       PROVE  r + 1 = 1 <=> b % P = 1
  <2>1. PICK a \in Nat : a = q - 1
    BY <1>9, <1>12
  <2>2. P * a = m - P
    BY <1>5, <2>1
  <2>3. P * a \in Int /\ P * a + (r + 1) = b
    BY <1>6, <2>2
  <2>4. CASE r + 1 < P
    <3>1. PICK s \in 0 .. P - 1 : s = r + 1
      BY <2>4
    <3>2. P * a + s = b
      BY <2>3, <3>1
    <3>3. P * a + s \in Nat
      BY <3>2
    <3>4. (P * a + s) % P = s
      BY <3>1, <3>3, Remainder
    <3>5. QED BY <3>1, <3>2, <3>4
  <2>5. CASE r + 1 = P
    <3>1. P * q = b
      BY <1>6, <1>5, <2>5
    <3>2. PICK s \in 0 .. P - 1 : s = 0
      BY <1>1
    <3>3. PICK d \in Int : d = q
      OBVIOUS
    <3>4. P * d + s = b /\ P * d + s \in Nat
      BY <3>1, <3>2, <3>3
    <3>5. (P * d + s) % P = s
      BY <3>4, Remainder
    <3>6. QED BY <1>1, <2>5, <3>2, <3>4, <3>5
  <2>6. r + 1 < P \/ r + 1 = P
    OBVIOUS
  <2>7. QED BY <2>4, <2>5, <2>6
<1>13. LeftOver(b, max) = r + 1
  BY <1>1, <1>4, <1>11 DEF LeftOver
<1>14. b > 0 => LastFits(b, max)
  BY <1>1, <1>12, <1>13 DEF LastFits
<1>15. QED BY <1>4, <1>9, <1>14

LEMMA SectionCounts ==
  ASSUME NEW shape \in Seq(Nat), NEW i \in 1 .. Len(shape)
  PROVE  /\ SectionPayload(i) \in Nat \ {0, 1}
         /\ SectionCount(shape, i) \in Nat
         /\ SectionCount(shape, i) = 0 <=> shape[i] = 0
         /\ shape[i] > 0 => LastFits(shape[i], SectionPayload(i))
<1>1. PICK max \in Nat \ {0, 1} : max = SectionPayload(i)
  BY ChannelAssumption DEF SectionPayload
<1>2. PICK b \in Nat : b = shape[i]
  OBVIOUS
<1>3. ChunkCount(b, max) \in Nat
  BY Counts
<1>4. ChunkCount(b, max) = 0 <=> b = 0
  BY Counts
<1>5. b > 0 => LastFits(b, max)
  BY Counts
<1>6. QED BY <1>1, <1>2, <1>3, <1>4, <1>5 DEF SectionCount

Total(shape) == SectionStart(shape, Len(shape) + 1)

LEMMA Starts ==
  ASSUME NEW shape \in Seq(Nat)
  PROVE  /\ \A i \in 1 .. Len(shape) + 1 : SectionStart(shape, i) \in Nat
         /\ SectionStart(shape, 1) = 0
         /\ \A i \in 1 .. Len(shape) :
              SectionStart(shape, i + 1) = SectionStart(shape, i) + SectionCount(shape, i)
<1> DEFINE n == Len(shape)
           D == [k \in 1 .. n |-> [x \in Nat |-> x + SectionCount(shape, k)]]
           Sol(g) == g = [j \in 0 .. n |-> IF j = 0 THEN 0 ELSE g[j - 1] + SectionCount(shape, j)]
           before == CHOOSE g : Sol(g)
<1>1. n \in Nat /\ \A k \in 1 .. n : SectionCount(shape, k) \in Nat
  <2>1. n \in Nat /\ \A k \in 1 .. n : shape[k] \in Nat
    OBVIOUS
  <2>2. QED BY <2>1, SectionCounts
<1>2. D \in [1 .. n -> [Nat -> Nat]] /\ \A x \in Nat, k \in 1 .. n : D[k][x] = x + SectionCount(shape, k)
  <2> HIDE DEF n
  <2>1. \A x \in Nat, k \in 1 .. n : x + SectionCount(shape, k) \in Nat
    BY <1>1
  <2>2. QED BY <2>1
<1>3. PICK g \in [0 .. n -> Nat] : Solves(g, n, 0, D)
  <2>1. PICK z \in Nat : z = 0
    OBVIOUS
  <2> HIDE DEF n, D
  <2>2. \E g \in [0 .. n -> Nat] : Solves(g, n, z, D)
    BY <1>1, <1>2, RecursionExists
  <2>3. QED BY <2>1, <2>2
<1>4. Sol(g)
  <2>1. ASSUME NEW k \in 0 .. n
        PROVE  g[k] = IF k = 0 THEN 0 ELSE g[k - 1] + SectionCount(shape, k)
    <3>1. CASE k = 0
      BY <1>3, <3>1 DEF Solves
    <3>2. CASE k # 0
      <4>1. k - 1 \in 0 .. n /\ k \in 1 .. n
        BY <1>1, <3>2
      <4> HIDE DEF D, n
      <4>2. g[k - 1] \in Nat
        BY <4>1
      <4>3. g[k] = D[k][g[k - 1]]
        BY <1>3, <3>2 DEF Solves
      <4>4. QED BY <1>2, <3>2, <4>1, <4>2, <4>3
    <3>3. QED BY <3>1, <3>2
  <2> HIDE DEF D, n
  <2>2. g = [k \in 0 .. n |-> g[k]]
    OBVIOUS
  <2>3. QED BY <2>1, <2>2
<1>5. Sol(before)
  BY <1>4, Zenon
<1> HIDE DEF before, D
<1>6. \A k \in 0 .. n : before[k] = IF k = 0 THEN 0 ELSE before[k - 1] + SectionCount(shape, k)
  BY <1>5
<1>7. \A i : SectionStart(shape, i) = before[i - 1]
  BY DEF SectionStart, before
<1>8. 0 .. n \subseteq {k \in 0 .. n : before[k] \in Nat}
  <2> DEFINE T == {k \in 0 .. n : before[k] \in Nat}
  <2>1. 0 \in T
    BY <1>1, <1>6
  <2>2. ASSUME NEW k \in 0 .. n - 1, k \in T
        PROVE  k + 1 \in T
    <3>1. k + 1 \in 1 .. n /\ k + 1 \in 0 .. n /\ (k + 1) - 1 = k /\ k + 1 # 0
      BY <1>1
    <3>2. before[k] \in Nat
      BY <2>2
    <3> HIDE DEF n
    <3>3. before[k + 1] = before[k] + SectionCount(shape, k + 1)
      BY <1>6, <3>1
    <3>4. QED BY <1>1, <3>1, <3>2, <3>3
  <2> HIDE DEF T
  <2>3. QED BY <1>1, <2>1, <2>2, IntervalInduction DEF T
<1>9. \A i \in 1 .. n + 1 : SectionStart(shape, i) \in Nat
  <2>1. \A i \in 1 .. n + 1 : i - 1 \in 0 .. n
    BY <1>1
  <2> HIDE DEF n
  <2>2. QED BY <1>7, <1>8, <2>1
<1>10. SectionStart(shape, 1) = 0
  BY <1>1, <1>6, <1>7
<1>11. ASSUME NEW i \in 1 .. n
       PROVE  SectionStart(shape, i + 1) = SectionStart(shape, i) + SectionCount(shape, i)
  <2>1. i \in 0 .. n /\ i # 0 /\ (i + 1) - 1 = i
    BY <1>1
  <2> HIDE DEF n
  <2>2. before[i] = before[i - 1] + SectionCount(shape, i)
    BY <1>6, <2>1
  <2>3. SectionStart(shape, i + 1) = before[i] /\ SectionStart(shape, i) = before[i - 1]
    BY <1>7, <2>1
  <2>4. QED BY <2>2, <2>3
<1>12. QED BY <1>9, <1>10, <1>11

\* Where one section ends at the latest, the next begins.
LEMMA StartsGrow ==
  ASSUME NEW shape \in Seq(Nat), NEW i \in 1 .. Len(shape),
         NEW j \in 1 .. Len(shape) + 1, i < j
  PROVE  SectionStart(shape, i) + SectionCount(shape, i) <= SectionStart(shape, j)
<1> DEFINE n == j - i - 1
           T == {m \in 0 .. n : SectionStart(shape, i + 1) <= SectionStart(shape, i + 1 + m)}
<1>1. n \in Nat /\ Len(shape) \in Nat
  OBVIOUS
<1>2. 0 \in T
  <2>1. SectionStart(shape, i + 1) \in Nat
    BY <1>1, Starts
  <2>2. i + 1 + 0 = i + 1 /\ 0 \in 0 .. n
    BY <1>1
  <2>3. QED BY <2>1, <2>2
<1>3. ASSUME NEW m \in 0 .. n - 1, m \in T
      PROVE  m + 1 \in T
  <2>1. i + 1 + m \in 1 .. Len(shape) /\ m + 1 \in 0 .. n
    BY <1>1
  <2>2. PICK k \in 1 .. Len(shape) : k = i + 1 + m
    BY <2>1
  <2>3. SectionStart(shape, k + 1) = SectionStart(shape, k) + SectionCount(shape, k)
    BY Starts
  <2>4. SectionCount(shape, k) \in Nat /\ SectionStart(shape, k) \in Nat
    <3>1. shape[k] \in Nat /\ k \in 1 .. Len(shape) + 1
      BY <1>1
    <3>2. QED BY <3>1, SectionCounts, Starts
  <2>5. SectionStart(shape, i + 1) <= SectionStart(shape, k)
    BY <1>3, <2>2
  <2>6. SectionStart(shape, i + 1) \in Nat
    <3>1. i + 1 \in 1 .. Len(shape) + 1
      BY <1>1
    <3>2. QED BY <3>1, Starts
  <2>7. k + 1 = i + 1 + (m + 1)
    BY <1>1, <2>2
  <2>8. SectionStart(shape, i + 1) <= SectionStart(shape, k + 1)
    BY <2>3, <2>4, <2>5, <2>6
  <2>9. QED BY <2>1, <2>7, <2>8
<1>4. 0 .. n \subseteq T
  <2> HIDE DEF T, n
  <2>1. QED BY <1>1, <1>2, <1>3, IntervalInduction
<1>5. n \in T /\ i + 1 + n = j
  <2>1. n \in 0 .. n /\ i + 1 + n = j
    BY <1>1
  <2> HIDE DEF T, n
  <2>2. QED BY <1>4, <2>1
<1>6. SectionStart(shape, i + 1) = SectionStart(shape, i) + SectionCount(shape, i)
  BY Starts
<1>7. QED BY <1>5, <1>6
ChunkAt(id, shape, i, k) ==
  LET n == SectionCount(shape, i)  first == SectionStart(shape, i) IN
  Chunk(ChannelMode, id, first + k, i = Len(shape) /\ k = n - 1, first > 0, first,
        IF k = n - 1 THEN shape[i] - k * SectionPayload(i) ELSE SectionPayload(i),
        <<id, first + k>>)

\* The chunks of a message and the place of each in it.
Places(shape, i) == 0 .. SectionCount(shape, i) - 1

LEMMA ChunksAt ==
  ASSUME NEW id, NEW shape \in Seq(Nat), NEW c
  PROVE  c \in ClientChunks(id, shape) <=>
           \E i \in 1 .. Len(shape) : \E k \in Places(shape, i) : c = ChunkAt(id, shape, i, k)
<1>1. DOMAIN shape = 1 .. Len(shape)
  OBVIOUS
<1>2. \A i : SectionChunks(id, shape, i) = {ChunkAt(id, shape, i, k) : k \in Places(shape, i)}
  BY DEF SectionChunks, ChunkAt, Places
<1>3. ClientChunks(id, shape) =
        UNION {{ChunkAt(id, shape, i, k) : k \in Places(shape, i)} : i \in 1 .. Len(shape)}
  BY <1>1, <1>2 DEF ClientChunks
<1>4. QED BY <1>3

Placed(c, id, shape, i, k) ==
  /\ c = ChunkAt(id, shape, i, k)
  /\ c.mode = ChannelMode /\ c.id = id
  /\ c.serial = SectionStart(shape, i) + k
  /\ c.start = SectionStart(shape, i)
  /\ c.token = <<id, SectionStart(shape, i) + k>>
  /\ c.last = (i = Len(shape) /\ k = SectionCount(shape, i) - 1)

LEMMA ChunkFields ==
  ASSUME NEW id, NEW shape \in Seq(Nat), NEW i \in 1 .. Len(shape), NEW k \in Places(shape, i),
         NEW c, c = ChunkAt(id, shape, i, k)
  PROVE  c \in ClientChunks(id, shape) /\ Placed(c, id, shape, i, k)
<1>1. SectionStart(shape, i) \in Nat
  <2>1. i \in 1 .. Len(shape) + 1
    OBVIOUS
  <2>2. QED BY <2>1, Starts
<1>2. PICK first : first = SectionStart(shape, i)
  OBVIOUS
<1>3. ~(first > 0) => first = 0
  BY <1>1, <1>2
<1>4. PICK bytes : bytes = IF k = SectionCount(shape, i) - 1 THEN shape[i] - k * SectionPayload(i)
                           ELSE SectionPayload(i)
  OBVIOUS
<1>5. PICK last : last = (i = Len(shape) /\ k = SectionCount(shape, i) - 1)
  OBVIOUS
<1>6. PICK serial : serial = first + k
  OBVIOUS
<1>7. c = Chunk(ChannelMode, id, serial, last, first > 0, first, bytes, <<id, serial>>)
  BY <1>2, <1>4, <1>5, <1>6 DEF ChunkAt
<1>8. PICK token : token = <<id, serial>>
  OBVIOUS
<1>9. PICK multipart : multipart = (first > 0)
  OBVIOUS
<1>10. c = Chunk(ChannelMode, id, serial, last, multipart, first, bytes, token)
  BY <1>7, <1>8, <1>9
<1>11. /\ c.mode = ChannelMode /\ c.id = id /\ c.serial = serial
       /\ c.start = IF multipart THEN first ELSE 0
       /\ c.token = token /\ c.last = last
  BY <1>10 DEF Chunk, ChannelMode
<1>12. c.start = first
  BY <1>3, <1>9, <1>11
<1>13. Placed(c, id, shape, i, k)
  BY <1>2, <1>5, <1>6, <1>8, <1>11, <1>12 DEF Placed
<1>14. QED BY <1>13, ChunksAt

LEMMA ChunkPlace ==
  ASSUME NEW id, NEW shape \in Seq(Nat), NEW c \in ClientChunks(id, shape)
  PROVE  \E i \in 1 .. Len(shape) : \E k \in Places(shape, i) : Placed(c, id, shape, i, k)
<1>1. PICK i \in 1 .. Len(shape) : \E k \in Places(shape, i) : c = ChunkAt(id, shape, i, k)
  BY ChunksAt
<1>2. PICK k \in Places(shape, i) : c = ChunkAt(id, shape, i, k)
  BY <1>1
<1>3. Placed(c, id, shape, i, k)
  BY <1>2, ChunkFields
<1>4. QED BY <1>3

\* A serial tells the chunk.
LEMMA SerialsDiffer ==
  ASSUME NEW shape \in Seq(Nat),
         NEW i \in 1 .. Len(shape), NEW k \in Places(shape, i),
         NEW j \in 1 .. Len(shape), NEW m \in Places(shape, j),
         SectionStart(shape, i) + k = SectionStart(shape, j) + m
  PROVE  i = j /\ k = m
<1>1. /\ SectionStart(shape, i) \in Nat /\ SectionStart(shape, j) \in Nat
      /\ SectionCount(shape, i) \in Nat /\ SectionCount(shape, j) \in Nat
  <2>1. /\ i \in 1 .. Len(shape) + 1 /\ j \in 1 .. Len(shape) + 1
        /\ shape[i] \in Nat /\ shape[j] \in Nat
    OBVIOUS
  <2>2. QED BY <2>1, Starts, SectionCounts
<1>2. k \in Nat /\ k < SectionCount(shape, i) /\ m \in Nat /\ m < SectionCount(shape, j)
  BY <1>1 DEF Places
<1>3. i \in 1 .. Len(shape) + 1 /\ j \in 1 .. Len(shape) + 1
  OBVIOUS
<1>4. ~(i < j)
  <2>1. SUFFICES ASSUME i < j PROVE FALSE
    OBVIOUS
  <2>2. SectionStart(shape, i) + SectionCount(shape, i) <= SectionStart(shape, j)
    BY <1>3, <2>1, StartsGrow
  <2>3. QED BY <1>1, <1>2, <2>2
<1>5. ~(j < i)
  <2>1. SUFFICES ASSUME j < i PROVE FALSE
    OBVIOUS
  <2>2. SectionStart(shape, j) + SectionCount(shape, j) <= SectionStart(shape, i)
    BY <1>3, <2>1, StartsGrow
  <2>3. QED BY <1>1, <1>2, <2>2
<1>6. i = j
  BY <1>4, <1>5
<1>7. k = m
  BY <1>1, <1>2, <1>6
<1>8. QED BY <1>6, <1>7

\* Serials(C) are the serials of some chunks.
Serials(C) == {c.serial : c \in C}

LEMMA SerialTells ==
  ASSUME NEW id, NEW shape \in Seq(Nat), NEW c \in ClientChunks(id, shape),
         NEW d \in ClientChunks(id, shape), c.serial = d.serial
  PROVE  c = d
<1>1. PICK i \in 1 .. Len(shape) : \E k \in Places(shape, i) : Placed(c, id, shape, i, k)
  BY ChunkPlace
<1>2. PICK k \in Places(shape, i) : Placed(c, id, shape, i, k)
  BY <1>1
<1>3. PICK j \in 1 .. Len(shape) : \E m \in Places(shape, j) : Placed(d, id, shape, j, m)
  BY ChunkPlace
<1>4. PICK m \in Places(shape, j) : Placed(d, id, shape, j, m)
  BY <1>3
<1>5. SectionStart(shape, i) + k = SectionStart(shape, j) + m
  BY <1>2, <1>4 DEF Placed
<1>6. i = j /\ k = m
  BY <1>5, SerialsDiffer
<1>7. QED BY <1>2, <1>4, <1>6 DEF Placed

\* Every number below the total is the serial of a chunk, and no other.
LEMMA AllSerials ==
  ASSUME NEW id, NEW shape \in Seq(Nat)
  PROVE  Total(shape) \in Nat /\ Serials(ClientChunks(id, shape)) = 0 .. Total(shape) - 1
<1> DEFINE all == ClientChunks(id, shape)
           n == Len(shape)
           T == {m \in 0 .. n : \A x \in 0 .. SectionStart(shape, m + 1) - 1 :
                                  \E c \in all : c.serial = x}
<1>1. n \in Nat /\ Total(shape) \in Nat
  <2>1. n \in Nat /\ n + 1 \in 1 .. n + 1
    OBVIOUS
  <2>2. QED BY <2>1, Starts DEF Total
<1>2. 0 \in T
  <2>1. SectionStart(shape, 0 + 1) = 0
    BY Starts
  <2>2. 0 .. SectionStart(shape, 0 + 1) - 1 = {}
    BY <2>1
  <2>3. QED BY <1>1, <2>2
<1>3. ASSUME NEW m \in 0 .. n - 1, m \in T
      PROVE  m + 1 \in T
  <2>1. PICK i \in 1 .. n : i = m + 1
    BY <1>1
  <2>2. /\ SectionStart(shape, i + 1) = SectionStart(shape, i) + SectionCount(shape, i)
        /\ SectionStart(shape, i) \in Nat /\ SectionCount(shape, i) \in Nat
    <3>1. shape[i] \in Nat /\ i \in 1 .. n + 1
      BY <1>1
    <3>2. QED BY <3>1, Starts, SectionCounts
  <2>3. \A x \in 0 .. SectionStart(shape, i) - 1 : \E c \in all : c.serial = x
    BY <1>3, <2>1
  <2>4. ASSUME NEW x \in 0 .. SectionStart(shape, i + 1) - 1
        PROVE  \E c \in all : c.serial = x
    <3>1. CASE x < SectionStart(shape, i)
      <4>1. x \in 0 .. SectionStart(shape, i) - 1
        BY <2>2, <3>1
      <4> HIDE DEF all
      <4>2. QED BY <2>3, <4>1
    <3>2. CASE x >= SectionStart(shape, i)
      <4>1. PICK k \in Places(shape, i) : k = x - SectionStart(shape, i)
        BY <2>2, <3>2 DEF Places
      <4>2. PICK c : c = ChunkAt(id, shape, i, k)
        OBVIOUS
      <4>3. c \in all /\ Placed(c, id, shape, i, k)
        BY <4>2, ChunkFields
      <4>4. c.serial = SectionStart(shape, i) + k
        BY <4>3 DEF Placed
      <4>5. c.serial = x
        BY <2>2, <4>1, <4>4
      <4>6. QED BY <4>3, <4>5
    <3>3. QED BY <2>2, <3>1, <3>2
  <2>5. m + 1 \in 0 .. n /\ (m + 1) + 1 = i + 1
    BY <1>1, <2>1
  <2> HIDE DEF all
  <2>6. QED BY <2>4, <2>5
<1>4. n \in T
  <2>1. 0 .. n \subseteq T
    <3> HIDE DEF T, n
    <3>1. QED BY <1>1, <1>2, <1>3, IntervalInduction
  <2>2. n \in 0 .. n
    BY <1>1
  <2> HIDE DEF T, n
  <2>3. QED BY <2>1, <2>2
<1>5. 0 .. Total(shape) - 1 \subseteq Serials(all)
  <2>1. \A x \in 0 .. Total(shape) - 1 : \E c \in all : c.serial = x
    BY <1>4 DEF Total
  <2> HIDE DEF all
  <2>2. QED BY <2>1 DEF Serials
<1>6. ASSUME NEW c \in all
      PROVE  c.serial \in 0 .. Total(shape) - 1
  <2>1. PICK i \in 1 .. n : \E k \in Places(shape, i) : Placed(c, id, shape, i, k)
    BY ChunkPlace
  <2>2. PICK k \in Places(shape, i) : Placed(c, id, shape, i, k)
    BY <2>1
  <2>3. c.serial = SectionStart(shape, i) + k
    BY <2>2 DEF Placed
  <2>4. i < n + 1 /\ n + 1 \in 1 .. n + 1 /\ i \in 1 .. n + 1 /\ shape[i] \in Nat
    BY <1>1
  <2>5. PICK j \in 1 .. n + 1 : j = n + 1
    BY <2>4
  <2>6. SectionStart(shape, i) + SectionCount(shape, i) <= SectionStart(shape, j)
    BY <2>4, <2>5, StartsGrow
  <2>7. SectionStart(shape, i) \in Nat /\ SectionCount(shape, i) \in Nat
    BY <2>4, Starts, SectionCounts
  <2>8. SectionStart(shape, j) = Total(shape)
    BY <2>5 DEF Total
  <2>9. QED BY <1>1, <2>3, <2>6, <2>7, <2>8 DEF Places
<1>7. Serials(all) \subseteq 0 .. Total(shape) - 1
  <2> HIDE DEF all
  <2>1. QED BY <1>6 DEF Serials
<1>8. QED BY <1>1, <1>5, <1>7

\* The last chunk has the last serial, and a message has one unless its last
\* section is empty.
LEMMA LastSerial ==
  ASSUME NEW id, NEW shape \in Seq(Nat), shape # << >>
  PROVE  /\ \A c \in ClientChunks(id, shape) : c.last => c.serial = Total(shape) - 1
         /\ shape[Len(shape)] > 0 => \E c \in ClientChunks(id, shape) : c.last
<1> DEFINE n == Len(shape)
<1>1. n \in Nat \ {0} /\ n \in 1 .. n /\ n \in 1 .. n + 1 /\ shape[n] \in Nat
  OBVIOUS
<1>2. Total(shape) = SectionStart(shape, n) + SectionCount(shape, n)
  BY <1>1, Starts DEF Total
<1>3. SectionStart(shape, n) \in Nat /\ SectionCount(shape, n) \in Nat
  BY <1>1, Starts, SectionCounts
<1>4. ASSUME NEW c \in ClientChunks(id, shape), c.last
      PROVE  c.serial = Total(shape) - 1
  <2>1. PICK i \in 1 .. n : \E k \in Places(shape, i) : Placed(c, id, shape, i, k)
    BY ChunkPlace
  <2>2. PICK k \in Places(shape, i) : Placed(c, id, shape, i, k)
    BY <2>1
  <2>3. c.serial = SectionStart(shape, i) + k
    BY <2>2 DEF Placed
  <2>4. i = n /\ k = SectionCount(shape, i) - 1
    BY <1>4, <2>2 DEF Placed
  <2>5. QED BY <1>2, <1>3, <2>3, <2>4
<1>5. ASSUME shape[n] > 0
      PROVE  \E c \in ClientChunks(id, shape) : c.last
  <2>1. SectionCount(shape, n) # 0
    <3>1. PICK b \in Nat : b = shape[n] /\ b > 0
      BY <1>1, <1>5
    <3>2. QED BY <3>1, SectionCounts
  <2>2. PICK k \in Places(shape, n) : k = SectionCount(shape, n) - 1
    BY <1>3, <2>1 DEF Places
  <2>3. PICK c : c = ChunkAt(id, shape, n, k)
    OBVIOUS
  <2>4. c \in ClientChunks(id, shape) /\ Placed(c, id, shape, n, k)
    BY <1>1, <2>3, ChunkFields
  <2>5. c.last
    BY <2>2, <2>4 DEF Placed
  <2>6. QED BY <2>4, <2>5
<1>6. QED BY <1>4, <1>5
-----------------------------------------------------------------------------
(***************************************************************************)
(* How it is put together again.                                           *)
(***************************************************************************)
\* What the decoder keeps of a message of which these chunks have come.
Kept(id, C) ==
  [st \in {c.start : c \in C} |-> [k \in Serials({d \in C : d.start = st}) |-> <<id, k>>]]
Keeps(id, shape, C) ==
  [serials |-> Serials(C), sections |-> Kept(id, C),
   final |-> IF \E c \in C : c.last THEN Total(shape) - 1 ELSE NoFinal]

LEMMA KeepsNothing ==
  ASSUME NEW id, NEW shape
  PROVE  Keeps(id, shape, {}) = NewPartial
<1>1. Serials({}) = {}
  BY DEF Serials
<1>2. Kept(id, {}) = << >>
  BY DEF Kept
<1>3. QED BY <1>1, <1>2 DEF Keeps, NewPartial

LEMMA SectionAdded ==
  ASSUME NEW id, NEW C, NEW c, c.token = <<id, c.serial>>
  PROVE  AddToSection(Kept(id, C), c) = Kept(id, C \cup {c})
<1> DEFINE old == Kept(id, C)
           section == IF c.start \in DOMAIN old THEN old[c.start] ELSE << >>
           grown == [s \in DOMAIN section \cup {c.serial} |->
                       IF s = c.serial THEN c.token ELSE section[s]]
           Of(D, st) == Serials({d \in D : d.start = st})
<1>1. DOMAIN old = {d.start : d \in C}
  BY DEF Kept
<1>2. ASSUME NEW st \in DOMAIN old
      PROVE  old[st] = [k \in Of(C, st) |-> <<id, k>>]
  BY <1>2 DEF Kept
<1>3. DOMAIN section = Of(C, c.start) /\ \A k \in Of(C, c.start) : section[k] = <<id, k>>
  <2>1. CASE c.start \in DOMAIN old
    <3>1. section = [k \in Of(C, c.start) |-> <<id, k>>]
      BY <1>2, <2>1
    <3> HIDE DEF section, old, Of
    <3>2. QED BY <3>1
  <2>2. CASE c.start \notin DOMAIN old
    <3>1. {d \in C : d.start = c.start} = {}
      BY <1>1, <2>2
    <3>2. Of(C, c.start) = {}
      BY <3>1 DEF Serials
    <3>3. section = << >>
      BY <2>2
    <3>4. DOMAIN section = {}
      BY <3>3
    <3> HIDE DEF section, old, Of
    <3>5. QED BY <3>2, <3>4
  <2>3. QED BY <2>1, <2>2
<1>4. Of(C \cup {c}, c.start) = Of(C, c.start) \cup {c.serial}
  BY DEF Serials
<1>5. grown = [k \in Of(C \cup {c}, c.start) |-> <<id, k>>]
  <2> HIDE DEF section, old, Of
  <2>1. QED BY <1>3, <1>4
<1>6. \A st : st # c.start => Of(C \cup {c}, st) = Of(C, st)
  <2>1. SUFFICES ASSUME NEW st, st # c.start
                 PROVE  {d \in C \cup {c} : d.start = st} = {d \in C : d.start = st}
    OBVIOUS
  <2>2. QED BY <2>1
<1>7. {d.start : d \in C \cup {c}} = DOMAIN old \cup {c.start}
  BY <1>1
<1>8. AddToSection(old, c) = [s \in DOMAIN old \cup {c.start} |->
                                IF s = c.start THEN grown ELSE old[s]]
  BY DEF AddToSection
<1>9. ASSUME NEW s \in DOMAIN old \cup {c.start}
      PROVE  (IF s = c.start THEN grown ELSE old[s]) = [k \in Of(C \cup {c}, s) |-> <<id, k>>]
  <2>1. CASE s = c.start
    <3> HIDE DEF grown, old, Of
    <3>1. QED BY <1>5, <2>1
  <2>2. CASE s # c.start
    <3>1. s \in DOMAIN old
      BY <2>2
    <3>2. old[s] = [k \in Of(C, s) |-> <<id, k>>]
      BY <1>2, <3>1
    <3>3. Of(C \cup {c}, s) = Of(C, s)
      BY <1>6, <2>2
    <3> HIDE DEF grown, old, Of
    <3>4. QED BY <2>2, <3>2, <3>3
  <2>3. QED BY <2>1, <2>2
<1>10. Kept(id, C \cup {c}) = [s \in DOMAIN old \cup {c.start} |->
                                 [k \in Of(C \cup {c}, s) |-> <<id, k>>]]
  <2>1. Kept(id, C \cup {c}) = [s \in {d.start : d \in C \cup {c}} |->
                                  [k \in Of(C \cup {c}, s) |-> <<id, k>>]]
    BY DEF Kept
  <2> HIDE DEF old, Of
  <2>2. QED BY <1>7, <2>1
<1>11. QED
  <2> HIDE DEF grown, Of
  <2>1. [s \in DOMAIN old \cup {c.start} |-> IF s = c.start THEN grown ELSE old[s]]
          = [s \in DOMAIN old \cup {c.start} |-> [k \in Of(C \cup {c}, s) |-> <<id, k>>]]
    <3> HIDE DEF old
    <3>1. QED BY <1>9
  <2>2. QED BY <1>8, <1>10, <2>1

LEMMA KeepsOneMore ==
  ASSUME NEW id, NEW shape \in Seq(Nat), shape # << >>, NEW C \in SUBSET ClientChunks(id, shape),
         NEW c \in ClientChunks(id, shape)
  PROVE  [serials  |-> Keeps(id, shape, C).serials \cup {c.serial},
          sections |-> AddToSection(Keeps(id, shape, C).sections, c),
          final    |-> IF c.last THEN c.serial ELSE Keeps(id, shape, C).final]
           = Keeps(id, shape, C \cup {c})
<1>1. PICK i \in 1 .. Len(shape) : \E k \in Places(shape, i) : Placed(c, id, shape, i, k)
  BY ChunkPlace
<1>2. PICK k \in Places(shape, i) : Placed(c, id, shape, i, k)
  BY <1>1
<1>3. c.token = <<id, c.serial>>
  BY <1>2 DEF Placed
<1>4. AddToSection(Kept(id, C), c) = Kept(id, C \cup {c})
  BY <1>3, SectionAdded
<1>5. c.last => c.serial = Total(shape) - 1
  BY LastSerial
<1>6. Serials(C \cup {c}) = Serials(C) \cup {c.serial}
  BY DEF Serials
<1>7. (IF c.last THEN c.serial ELSE IF \E d \in C : d.last THEN Total(shape) - 1 ELSE NoFinal)
        = IF \E d \in C \cup {c} : d.last THEN Total(shape) - 1 ELSE NoFinal
  BY <1>5
<1>8. QED BY <1>4, <1>6, <1>7 DEF Keeps

\* A message is complete when all of its chunks are there, and not before.
LEMMA CompleteIsAll ==
  ASSUME NEW id, NEW shape \in Seq(Nat), shape # << >>, NEW C \in SUBSET ClientChunks(id, shape),
         NEW c, Complete(ChannelMode, c, Keeps(id, shape, C))
  PROVE  C = ClientChunks(id, shape)
<1>1. PICK all : all = ClientChunks(id, shape)
  OBVIOUS
<1>2. Total(shape) \in Nat /\ Serials(all) = 0 .. Total(shape) - 1
  BY <1>1, AllSerials
<1>3. /\ Keeps(id, shape, C).final # NoFinal
      /\ Cardinality(Serials(C)) = Keeps(id, shape, C).final + 1
  BY DEF Complete, ChannelMode, Keeps
<1>4. Cardinality(Serials(C)) = Total(shape)
  BY <1>2, <1>3 DEF Keeps, NoFinal
<1>5. Serials(C) \subseteq Serials(all)
  BY <1>1 DEF Serials
<1>6. IsFiniteSet(Serials(all)) /\ Cardinality(Serials(all)) = Total(shape)
  <2>1. PICK n \in Nat : n = Total(shape)
    BY <1>2
  <2>2. IsFiniteSet(0 .. n - 1) /\ Cardinality(0 .. n - 1) = n
    BY CountedFromZero
  <2>3. QED BY <1>2, <2>1, <2>2
<1>7. Serials(C) = Serials(all)
  <2>1. PICK A, B : A = Serials(C) /\ B = Serials(all)
    OBVIOUS
  <2>2. IsFiniteSet(B) /\ A \in SUBSET B /\ Cardinality(B) = Cardinality(A)
    BY <1>4, <1>5, <1>6, <2>1
  <2>3. A = B
    BY <2>2, FS_Subset
  <2>4. QED BY <2>1, <2>3
<1>8. ASSUME NEW d \in all
      PROVE  d \in C
  <2>1. d.serial \in Serials(all)
    BY <1>8 DEF Serials
  <2>2. d.serial \in Serials(C)
    BY <1>7, <2>1
  <2>3. PICK e \in C : e.serial = d.serial
    BY <2>2 DEF Serials
  <2>4. d = e
    BY <1>1, <1>8, <2>3, SerialTells
  <2>5. QED BY <2>4
<1>9. QED BY <1>1, <1>8

LEMMA AllIsComplete ==
  ASSUME NEW id, NEW shape \in Seq(Nat), shape # << >>, shape[Len(shape)] > 0, NEW c
  PROVE  Complete(ChannelMode, c, Keeps(id, shape, ClientChunks(id, shape)))
<1>1. PICK all : all = ClientChunks(id, shape)
  OBVIOUS
<1>2. PICK d \in all : d.last
  BY <1>1, LastSerial
<1>3. Total(shape) \in Nat /\ Serials(all) = 0 .. Total(shape) - 1
  BY <1>1, AllSerials
<1>4. Total(shape) # 0
  <2>1. d.serial \in Serials(all)
    BY <1>2 DEF Serials
  <2>2. QED BY <1>3, <2>1
<1>5. Cardinality(Serials(all)) = Total(shape)
  <2>1. PICK n \in Nat : n = Total(shape)
    BY <1>3
  <2>2. Cardinality(0 .. n - 1) = n
    BY CountedFromZero
  <2>3. QED BY <1>3, <2>1, <2>2
<1>6. Keeps(id, shape, all).final = Total(shape) - 1 /\ Keeps(id, shape, all).serials = Serials(all)
  BY <1>2 DEF Keeps
<1>7. QED BY <1>1, <1>3, <1>4, <1>5, <1>6 DEF Complete, ChannelMode, NoFinal

\* The chunks of one section, as the message has it.
Tokens(id, a, n) == [k \in 1 .. n |-> <<id, a + k - 1>>]
SectionOf(id, shape, i) == Tokens(id, SectionStart(shape, i), SectionCount(shape, i))

\* The sections of which there are chunks.
Sections(shape) == {i \in 1 .. Len(shape) : shape[i] > 0}

LEMMA SectionsAre ==
  ASSUME NEW shape \in Seq(Nat)
  PROVE  /\ \A i \in Sections(shape) : i \in 1 .. Len(shape) /\ SectionCount(shape, i) \in Nat \ {0}
         /\ \A i, j \in Sections(shape) : i < j => SectionStart(shape, i) < SectionStart(shape, j)
         /\ \A i \in Sections(shape) : SectionStart(shape, i) \in Nat
<1>1. ASSUME NEW i \in Sections(shape)
      PROVE  /\ i \in 1 .. Len(shape) /\ i \in 1 .. Len(shape) + 1
             /\ SectionCount(shape, i) \in Nat \ {0} /\ SectionStart(shape, i) \in Nat
  <2>1. i \in 1 .. Len(shape) /\ i \in 1 .. Len(shape) + 1
    BY DEF Sections
  <2>2. shape[i] # 0
    BY DEF Sections
  <2>3. SectionCount(shape, i) \in Nat \ {0}
    BY <2>1, <2>2, SectionCounts
  <2>4. QED BY <2>1, <2>2, <2>3, Starts
<1>2. ASSUME NEW i \in Sections(shape), NEW j \in Sections(shape), i < j
      PROVE  SectionStart(shape, i) < SectionStart(shape, j)
  <2>1. SectionStart(shape, i) + SectionCount(shape, i) <= SectionStart(shape, j)
    BY <1>1, <1>2, StartsGrow
  <2>2. QED BY <1>1, <2>1
<1>3. QED BY <1>1, <1>2

\* The sections that the decoder has when all chunks have come.
LEMMA SectionsKept ==
  ASSUME NEW id, NEW shape \in Seq(Nat)
  PROVE  LET all == ClientChunks(id, shape) IN
         /\ {c.start : c \in all} = {SectionStart(shape, i) : i \in Sections(shape)}
         /\ \A i \in Sections(shape) :
              Serials({c \in all : c.start = SectionStart(shape, i)})
                = SectionStart(shape, i) .. SectionStart(shape, i) + SectionCount(shape, i) - 1
<1> DEFINE all == ClientChunks(id, shape)
<1>1. ASSUME NEW c \in all
      PROVE  \E i \in Sections(shape) : \E k \in Places(shape, i) : Placed(c, id, shape, i, k)
  <2>1. PICK i \in 1 .. Len(shape) : \E k \in Places(shape, i) : Placed(c, id, shape, i, k)
    BY ChunkPlace
  <2>2. Places(shape, i) # {}
    BY <2>1
  <2>3. shape[i] \in Nat
    OBVIOUS
  <2>4. SectionCount(shape, i) # 0
    BY <2>2 DEF Places
  <2>5. shape[i] # 0
    BY <2>4, SectionCounts
  <2>6. i \in Sections(shape)
    BY <2>3, <2>5 DEF Sections
  <2>7. QED BY <2>1, <2>6
<1>2. ASSUME NEW i \in Sections(shape), NEW k \in Places(shape, i)
      PROVE  \E c \in all : Placed(c, id, shape, i, k)
  <2>1. i \in 1 .. Len(shape)
    BY SectionsAre
  <2>2. PICK c : c = ChunkAt(id, shape, i, k)
    OBVIOUS
  <2>3. QED BY <2>1, <2>2, ChunkFields
<1>3. ASSUME NEW i \in Sections(shape)
      PROVE  \E k \in Places(shape, i) : k = 0
  BY SectionsAre DEF Places
<1> HIDE DEF all
<1>4. {c.start : c \in all} = {SectionStart(shape, i) : i \in Sections(shape)}
  <2>1. ASSUME NEW c \in all
        PROVE  c.start \in {SectionStart(shape, i) : i \in Sections(shape)}
    BY <1>1 DEF Placed
  <2>2. ASSUME NEW i \in Sections(shape)
        PROVE  \E c \in all : c.start = SectionStart(shape, i)
    BY <1>2, <1>3 DEF Placed
  <2>3. QED BY <2>1, <2>2
<1>5. ASSUME NEW i \in Sections(shape)
      PROVE  Serials({c \in all : c.start = SectionStart(shape, i)})
               = SectionStart(shape, i) .. SectionStart(shape, i) + SectionCount(shape, i) - 1
  <2>1. SectionStart(shape, i) \in Nat /\ SectionCount(shape, i) \in Nat \ {0}
    BY SectionsAre
  <2>2. ASSUME NEW c \in all, c.start = SectionStart(shape, i)
        PROVE  c.serial \in SectionStart(shape, i) .. SectionStart(shape, i) + SectionCount(shape, i) - 1
    <3>1. PICK j \in Sections(shape) : \E k \in Places(shape, j) : Placed(c, id, shape, j, k)
      BY <1>1
    <3>2. PICK k \in Places(shape, j) : Placed(c, id, shape, j, k)
      BY <3>1
    <3>3. SectionStart(shape, j) = SectionStart(shape, i)
      BY <2>2, <3>2 DEF Placed
    <3>4. ~(i < j) /\ ~(j < i)
      <4>1. i < j => SectionStart(shape, i) < SectionStart(shape, j)
        BY SectionsAre
      <4>2. j < i => SectionStart(shape, j) < SectionStart(shape, i)
        BY SectionsAre
      <4>3. QED BY <2>1, <3>3, <4>1, <4>2
    <3>5. i = j
      BY <3>4, SectionsAre
    <3>6. c.serial = SectionStart(shape, i) + k /\ k \in 0 .. SectionCount(shape, i) - 1
      BY <3>2, <3>5 DEF Placed, Places
    <3>7. QED BY <2>1, <3>6
  <2>3. ASSUME NEW x \in SectionStart(shape, i) .. SectionStart(shape, i) + SectionCount(shape, i) - 1
        PROVE  \E c \in all : c.start = SectionStart(shape, i) /\ c.serial = x
    <3>1. PICK k \in Places(shape, i) : k = x - SectionStart(shape, i)
      BY <2>1 DEF Places
    <3>2. PICK c \in all : Placed(c, id, shape, i, k)
      BY <1>2
    <3>3. SectionStart(shape, i) + k = x
      BY <2>1, <3>1
    <3>4. QED BY <3>2, <3>3 DEF Placed
  <2>4. QED BY <2>2, <2>3 DEF Serials
<1>6. QED BY <1>4, <1>5 DEF all

\* A section is put together from its chunks in the order of their serials.
LEMMA ContentIs ==
  ASSUME NEW id, NEW a \in Nat, NEW n \in Nat,
         NEW section, DOMAIN section = a .. a + n - 1,
         \A k \in a .. a + n - 1 : section[k] = <<id, k>>
  PROVE  Content(section) = Tokens(id, a, n)
<1> DEFINE e == [k \in 1 .. n |-> a + k - 1]
<1>1. PICK R : R = a .. a + n - 1
  OBVIOUS
<1>2. R \in SUBSET Int /\ e \in [1 .. n -> R] /\ Rising(e, n)
  BY <1>1 DEF Rising
<1>3. ASSUME NEW x \in R PROVE \E i \in 1 .. n : e[i] = x
  <2>1. x - a + 1 \in 1 .. n /\ a + (x - a + 1) - 1 = x
    BY <1>1
  <2>2. PICK i \in 1 .. n : i = x - a + 1
    BY <2>1
  <2>3. QED BY <2>1, <2>2
<1>4. Ascending(R) = e
  <2> HIDE DEF e
  <2>1. QED BY <1>2, <1>3, AscendingIs
<1>5. DOMAIN section = R
  BY <1>1
<1>6. Content(section) = [i \in DOMAIN e |-> section[e[i]]]
  <2> HIDE DEF e
  <2>1. Ascending(DOMAIN section) = e
    BY <1>4, <1>5
  <2>2. QED BY <2>1 DEF Content
<1>7. \A i \in 1 .. n : a + i - 1 \in R
  BY <1>1
<1>8. \A i \in 1 .. n : section[e[i]] = <<id, a + i - 1>>
  BY <1>1, <1>7
<1>9. QED BY <1>6, <1>8 DEF Tokens

\* All chunks make the message.
LEMMA MessageIs ==
  ASSUME NEW id, NEW shape \in Seq(Nat), shape # << >>, Head(shape) > 0
  PROVE  CompleteMessage(Keeps(id, shape, ClientChunks(id, shape))) = MessageOf(id, shape)
<1> DEFINE all == ClientChunks(id, shape)
           sections == Kept(id, all)
           I == Sections(shape)
           m == Cardinality(I)
           order == Ascending(I)
           e == [j \in 1 .. m |-> SectionStart(shape, order[j])]
           whole == [j \in 1 .. m |-> SectionOf(id, shape, order[j])]
           later == [j \in 1 .. m - 1 |-> order[j + 1]]
<1>1. /\ I \in SUBSET Int /\ IsFiniteSet(I) /\ 1 \in I /\ \A i \in I : i >= 1
  <2>1. Len(shape) \in Nat /\ 1 \in 1 .. Len(shape) /\ shape[1] > 0
    OBVIOUS
  <2>2. IsFiniteSet(1 .. Len(shape))
    BY <2>1, FS_Interval
  <2>3. I \in SUBSET (1 .. Len(shape))
    BY DEF Sections
  <2>4. 1 \in I
    BY <2>1 DEF Sections
  <2>5. IsFiniteSet(I)
    BY <2>2, <2>3, FS_Subset
  <2>6. QED BY <2>3, <2>4, <2>5
<1> HIDE DEF I
<1>2. /\ m \in Nat /\ order \in [1 .. m -> I] /\ Rising(order, m)
      /\ \A i \in I : \E j \in 1 .. m : order[j] = i
  BY <1>1, AscendingEnumerates
<1> HIDE DEF order, m
<1>3. m >= 1 /\ order[1] = 1
  <2>1. PICK j \in 1 .. m : order[j] = 1
    BY <1>1, <1>2
  <2>2. 1 \in 1 .. m /\ m >= 1
    BY <1>2
  <2>3. order[1] \in Int /\ order[1] >= 1
    BY <1>1, <1>2, <2>2
  <2>4. j > 1 => order[1] < order[j]
    BY <1>2, <2>2 DEF Rising
  <2>5. j = 1
    BY <2>1, <2>3, <2>4
  <2>6. QED BY <2>1, <2>2, <2>5
<1>4. \A j \in 1 .. m : order[j] \in I /\ SectionStart(shape, order[j]) \in Nat
  BY <1>2, SectionsAre DEF I
<1>5. PICK B : B = {SectionStart(shape, i) : i \in I}
  OBVIOUS
<1>6. DOMAIN sections = B
  BY <1>5, SectionsKept DEF Kept, I
<1>7. Ascending(B) = e
  <2>1. B \in SUBSET Int
    BY <1>5, SectionsAre DEF I
  <2>2. e \in [1 .. m -> B]
    BY <1>4, <1>5
  <2>3. ASSUME NEW i \in 1 .. m, NEW j \in 1 .. m, i < j
        PROVE  e[i] < e[j]
    <3>1. order[i] < order[j]
      BY <1>2, <2>3 DEF Rising
    <3>2. SectionStart(shape, order[i]) < SectionStart(shape, order[j])
      BY <1>4, <3>1, SectionsAre DEF I
    <3>3. QED BY <3>2
  <2>4. ASSUME NEW x \in B
        PROVE  \E j \in 1 .. m : e[j] = x
    <3>1. PICK i \in I : x = SectionStart(shape, i)
      BY <1>5
    <3>2. PICK j \in 1 .. m : order[j] = i
      BY <1>2
    <3>3. QED BY <3>1, <3>2
  <2> HIDE DEF e
  <2>5. Rising(e, m)
    BY <2>3 DEF Rising
  <2>6. QED BY <1>2, <2>1, <2>2, <2>4, <2>5, AscendingIs
<1>8. ASSUME NEW j \in 1 .. m
      PROVE  Content(sections[e[j]]) = whole[j]
  <2>1. PICK i \in I : i = order[j]
    BY <1>2
  <2>2. PICK a \in Nat, n \in Nat : a = SectionStart(shape, i) /\ n = SectionCount(shape, i)
    BY SectionsAre DEF I
  <2>3. e[j] = a /\ a \in B
    BY <1>5, <2>1, <2>2
  <2>4. sections[a] = [k \in Serials({c \in all : c.start = a}) |-> <<id, k>>]
    BY <1>6, <2>3 DEF Kept
  <2>5. Serials({c \in all : c.start = a}) = a .. a + n - 1
    <3>1. i \in Sections(shape)
      BY DEF I
    <3>2. Serials({c \in all : c.start = SectionStart(shape, i)})
            = SectionStart(shape, i) .. SectionStart(shape, i) + SectionCount(shape, i) - 1
      BY <3>1, SectionsKept
    <3> HIDE DEF all
    <3>3. QED BY <2>2, <3>2
  <2>6. PICK section : section = sections[a]
    OBVIOUS
  <2>7. section = [k \in a .. a + n - 1 |-> <<id, k>>]
    BY <2>4, <2>5, <2>6
  <2>8. Content(section) = Tokens(id, a, n)
    <3> HIDE DEF all, sections, e, whole, later
    <3>1. DOMAIN section = a .. a + n - 1 /\ \A k \in a .. a + n - 1 : section[k] = <<id, k>>
      BY <2>7
    <3>2. QED BY <3>1, ContentIs
  <2>9. SectionOf(id, shape, i) = Tokens(id, a, n)
    BY <2>2 DEF SectionOf
  <2>10. whole[j] = SectionOf(id, shape, i)
    BY <2>1
  <2>11. QED BY <2>3, <2>6, <2>8, <2>9, <2>10
<1>9. CompleteMessage(Keeps(id, shape, all)) = [payload |-> Head(whole), files |-> Tail(whole)]
  <2>1. Keeps(id, shape, all).sections = sections
    BY DEF Keeps
  <2>2. DOMAIN e = 1 .. m
    OBVIOUS
  <2> HIDE DEF e, sections, whole
  <2>3. [i \in DOMAIN e |-> Content(sections[e[i]])] = [i \in 1 .. m |-> whole[i]]
    BY <1>8, <2>2
  <2>4. whole = [i \in 1 .. m |-> whole[i]]
    BY DEF whole
  <2>5. Ascending(DOMAIN sections) = e
    BY <1>6, <1>7
  <2>6. CompleteMessage(Keeps(id, shape, all))
          = [payload |-> Head([i \in DOMAIN e |-> Content(sections[e[i]])]),
             files |-> Tail([i \in DOMAIN e |-> Content(sections[e[i]])])]
    BY <2>1, <2>5 DEF CompleteMessage
  <2>7. QED BY <2>3, <2>4, <2>6
<1>10. Ascending(I \ {1}) = later /\ DOMAIN later = 1 .. m - 1
  <2>1. m - 1 \in Nat /\ I \ {1} \in SUBSET Int
    BY <1>1, <1>2, <1>3
  <2>2. ASSUME NEW j \in 1 .. m - 1
        PROVE  j + 1 \in 1 .. m /\ order[j + 1] \in I \ {1}
    <3>1. 1 \in 1 .. m /\ j + 1 \in 1 .. m /\ 1 < j + 1
      BY <1>2, <1>3
    <3>2. order[1] < order[j + 1]
      BY <1>2, <3>1 DEF Rising
    <3>3. order[j + 1] \in I /\ order[j + 1] # 1
      BY <1>1, <1>2, <1>3, <3>1, <3>2
    <3>4. QED BY <3>1, <3>3
  <2>3. later \in [1 .. m - 1 -> I \ {1}]
    BY <2>2
  <2>4. ASSUME NEW i \in 1 .. m - 1, NEW j \in 1 .. m - 1, i < j
        PROVE  later[i] < later[j]
    <3>1. i + 1 \in 1 .. m /\ j + 1 \in 1 .. m /\ i + 1 < j + 1
      BY <1>2, <2>4
    <3>2. order[i + 1] < order[j + 1]
      BY <1>2, <3>1 DEF Rising
    <3>3. QED BY <3>2
  <2>5. ASSUME NEW x \in I \ {1}
        PROVE  \E j \in 1 .. m - 1 : later[j] = x
    <3>1. PICK k \in 1 .. m : order[k] = x
      BY <1>2
    <3>2. k # 1
      BY <1>3, <3>1
    <3>3. PICK j \in 1 .. m - 1 : j = k - 1
      BY <1>2, <3>2
    <3>4. j + 1 = k
      BY <3>3
    <3>5. later[j] = x
      BY <3>1, <3>4
    <3>6. QED BY <3>5
  <2>6. PICK n, J : n = m - 1 /\ J = I \ {1}
    OBVIOUS
  <2> HIDE DEF later
  <2>7. Rising(later, n)
    BY <2>4, <2>6 DEF Rising
  <2>8. Ascending(J) = later
    BY <2>1, <2>3, <2>5, <2>6, <2>7, AscendingIs
  <2>9. QED BY <2>3, <2>6, <2>8
<1>11. {i \in DOMAIN shape \ {1} : shape[i] > 0} = I \ {1}
  BY DEF I, Sections
<1>12. MessageOf(id, shape) = [payload |-> SectionOf(id, shape, 1),
                               files |-> [j \in 1 .. m - 1 |-> SectionOf(id, shape, later[j])]]
  <2> HIDE DEF later
  <2>1. QED BY <1>10, <1>11 DEF MessageOf, SectionOf, Tokens
<1>13. Head(whole) = SectionOf(id, shape, 1)
  BY <1>2, <1>3
<1>14. Tail(whole) = [j \in 1 .. m - 1 |-> SectionOf(id, shape, later[j])]
  <2>1. PICK w, X : w = whole /\ X = {w[j] : j \in 1 .. m}
    OBVIOUS
  <2>2. Tail(whole) = [j \in 1 .. m - 1 |-> whole[j + 1]]
    <3>1. w \in [1 .. m -> X]
      BY <2>1
    <3>2. w \in Seq(X) /\ Len(w) = m
      BY <1>2, <3>1
    <3>3. w # << >>
      BY <1>3, <3>2
    <3>4. /\ Tail(w) \in Seq(X) /\ Len(Tail(w)) = m - 1
          /\ \A j \in 1 .. m - 1 : Tail(w)[j] = w[j + 1]
      BY <3>2, <3>3, HeadTailProperties
    <3>5. PICK t \in Seq(X) : t = Tail(w)
      BY <3>4
    <3>6. t = [j \in 1 .. Len(t) |-> t[j]]
      OBVIOUS
    <3> HIDE DEF whole
    <3>7. QED BY <2>1, <3>4, <3>5, <3>6
  <2>3. \A j \in 1 .. m - 1 : whole[j + 1] = SectionOf(id, shape, later[j])
    BY <1>2
  <2> HIDE DEF whole, later
  <2>4. QED BY <2>2, <2>3
<1>15. QED BY <1>9, <1>12, <1>13, <1>14

\* A message tells its id.
LEMMA MessageTells ==
  ASSUME NEW id, NEW shape \in Seq(Nat), shape # << >>, Head(shape) > 0
  PROVE  Head(MessageOf(id, shape).payload)[1] = id
<1>1. 1 \in 1 .. Len(shape) /\ shape[1] \in Nat /\ shape[1] # 0
  OBVIOUS
<1>2. PICK n \in Nat \ {0} : n = SectionCount(shape, 1)
  <2>1. PICK i \in 1 .. Len(shape) : i = 1
    BY <1>1
  <2>2. SectionCount(shape, i) \in Nat \ {0}
    BY <1>1, <2>1, SectionCounts
  <2>3. QED BY <2>1, <2>2
<1>3. PICK a : a = SectionStart(shape, 1)
  OBVIOUS
<1>4. MessageOf(id, shape).payload = [k \in 1 .. n |-> <<id, a + k - 1>>]
  BY <1>2, <1>3 DEF MessageOf
<1>5. Head(MessageOf(id, shape).payload) = MessageOf(id, shape).payload[1]
  OBVIOUS
<1>6. MessageOf(id, shape).payload[1] = <<id, a + 1 - 1>>
  BY <1>4
<1>7. QED BY <1>5, <1>6

\* The decoder refuses no chunk but one with a single byte.
LEMMA RefusedChunk ==
  ASSUME NEW id, NEW shape \in Seq(Nat), NEW c \in ClientChunks(id, shape),
         Refused(ChannelMode, c)
  PROVE  \E i \in DOMAIN shape : shape[i] % SectionPayload(i) = 1
<1>1. PICK i \in 1 .. Len(shape) : \E k \in Places(shape, i) : Placed(c, id, shape, i, k)
  BY ChunkPlace
<1>2. PICK k \in Places(shape, i) : Placed(c, id, shape, i, k)
  BY <1>1
<1>3. PICK b \in Nat, max \in Nat \ {0, 1} : b = shape[i] /\ max = SectionPayload(i)
  BY SectionCounts
<1>4. PICK n : n = SectionCount(shape, i)
  OBVIOUS
<1>5. n \in Nat
  BY <1>4, SectionCounts
<1>6. k \in 0 .. n - 1
  BY <1>2, <1>4 DEF Places
<1>7. b > 0
  <2>1. n # 0
    BY <1>5, <1>6
  <2>2. n = 0 <=> b = 0
    BY <1>3, <1>4, SectionCounts
  <2>3. QED BY <2>1, <2>2
<1>8. PICK bytes : bytes = IF k = n - 1 THEN b - k * max ELSE max
  OBVIOUS
<1>9. PICK first : first = SectionStart(shape, i)
  OBVIOUS
<1>10. PICK multipart : multipart = (first > 0)
  OBVIOUS
<1>11. PICK serial, last, token :
         c = Chunk(ChannelMode, id, serial, last, multipart, first, bytes, token)
  <2>1. c = ChunkAt(id, shape, i, k)
    BY <1>2 DEF Placed
  <2>2. c = Chunk(ChannelMode, id, first + k, i = Len(shape) /\ k = n - 1, multipart, first,
                  bytes, <<id, first + k>>)
    BY <1>3, <1>4, <1>8, <1>9, <1>10, <2>1 DEF ChunkAt
  <2>3. QED BY <2>2
<1>12. PICK h : h = HeaderBytes(ChannelMode, multipart)
  OBVIOUS
<1>13. c.mode = ChannelMode /\ c.len = h + bytes /\ c.multipart = multipart
  BY <1>11, <1>12 DEF Chunk
<1>14. h \in Nat
  BY <1>12 DEF HeaderBytes
<1>15. max \in Nat /\ max > 1
  OBVIOUS
<1>16. k = n - 1 => bytes = LeftOver(b, max)
  BY <1>3, <1>4, <1>8 DEF LeftOver, SectionCount
<1>17. LastFits(b, max)
  BY <1>3, <1>7, SectionCounts
<1>18. k # n - 1 => bytes = max
  BY <1>8
<1>19. LeftOver(b, max) \in 1 .. max
  BY <1>17 DEF LastFits
<1>20. bytes \in Nat /\ bytes >= 1 /\ (k # n - 1 => bytes > 1)
  BY <1>15, <1>16, <1>18, <1>19
<1>21. c.len < 1 \/ c.len - 1 < h + 1
  BY <1>12, <1>13 DEF Refused
<1>22. bytes = 1
  BY <1>13, <1>14, <1>20, <1>21
<1>23. LeftOver(b, max) = 1
  BY <1>16, <1>20, <1>22
<1>24. b % max = 1
  BY <1>17, <1>23 DEF LastFits
<1>25. QED BY <1>3, <1>24

-----------------------------------------------------------------------------
(***************************************************************************)
(* The messages on their way.                                              *)
(***************************************************************************)
\* Of one message: the chunks that the decoder has, those on the link, and the
\* times it was handed over.
Held(id, shape, partials) ==
  {c \in ClientChunks(id, shape) : c.serial \in Partial(partials, id).serials}
Rest(id, link) == {c \in link : c.id = id}
Handed(id, shape, got) == {i \in DOMAIN got : got[i] = MessageOf(id, shape)}

\* Unless one of its chunks came twice or got lost, each is with the decoder or
\* on the link until the message is handed over, which it is once.
ArrivesOnce(id, shape, ch, link, gone) ==
  /\ Held(id, shape, ch.partials) \cap Rest(id, link) = {}
  /\ Handed(id, shape, ch.got) # {} =>
       Rest(id, link) = {} /\ Held(id, shape, ch.partials) = {}
  /\ \A i, j \in Handed(id, shape, ch.got) : i = j
  /\ (Handed(id, shape, ch.got) = {} /\ id \notin gone /\ ch.open) =>
       Held(id, shape, ch.partials) \cup Rest(id, link) = ClientChunks(id, shape)

\* Over this link no chunk counts but by what is kept of it.
Finished(partial) ==
  partial.final # NoFinal /\ Cardinality(partial.serials) = partial.final + 1

LEMMA FinishedIs ==
  ASSUME NEW c, NEW partial
  PROVE  Complete(ChannelMode, c, partial) <=> Finished(partial)
BY DEF Complete, ChannelMode, Finished

MessageOK(id, shape, ch, link, again, gone) ==
  /\ Rest(id, link) \subseteq ClientChunks(id, shape)
  /\ id \in DOMAIN ch.partials =>
       /\ Held(id, shape, ch.partials) # {}
       /\ ch.partials[id] = Keeps(id, shape, Held(id, shape, ch.partials))
       /\ ~Finished(ch.partials[id])
  /\ id \notin again => ArrivesOnce(id, shape, ch, link, gone)

\* What the server has of a message, all that its part of the invariant reads.
SameMessage(id, shape, ch, new) ==
  /\ id \in DOMAIN new.partials <=> id \in DOMAIN ch.partials
  /\ id \in DOMAIN ch.partials => new.partials[id] = ch.partials[id]
  /\ Handed(id, shape, new.got) = Handed(id, shape, ch.got)

LEMMA MessageStays ==
  ASSUME NEW id, NEW shape, NEW ch, NEW link, NEW again, NEW gone,
         NEW new, NEW rest, NEW also, NEW lacks,
         MessageOK(id, shape, ch, link, again, gone), SameMessage(id, shape, ch, new),
         Rest(id, rest) \subseteq Rest(id, link), id \in again => id \in also,
         (id \notin also /\ id \notin lacks /\ new.open) =>
           (id \notin gone /\ ch.open /\ Rest(id, rest) = Rest(id, link))
  PROVE  MessageOK(id, shape, new, rest, also, lacks)
<1>1. Held(id, shape, new.partials) = Held(id, shape, ch.partials)
  BY DEF Held, Partial, SameMessage
<1>2. id \in DOMAIN new.partials =>
        /\ Held(id, shape, new.partials) # {}
        /\ new.partials[id] = Keeps(id, shape, Held(id, shape, new.partials))
        /\ ~Finished(new.partials[id])
  <2>1. SUFFICES ASSUME id \in DOMAIN new.partials
                 PROVE  /\ Held(id, shape, new.partials) # {}
                        /\ new.partials[id] = Keeps(id, shape, Held(id, shape, new.partials))
                        /\ ~Finished(new.partials[id])
    OBVIOUS
  <2>2. id \in DOMAIN ch.partials /\ new.partials[id] = ch.partials[id]
    BY <2>1 DEF SameMessage
  <2>3. QED BY <1>1, <2>2 DEF MessageOK
<1>3. ASSUME id \notin also
      PROVE  ArrivesOnce(id, shape, new, rest, lacks)
  <2>1. ArrivesOnce(id, shape, ch, link, gone)
    BY <1>3 DEF MessageOK
  <2>2. Handed(id, shape, new.got) = Handed(id, shape, ch.got)
    BY DEF SameMessage
  <2>3. QED BY <1>1, <1>3, <2>1, <2>2 DEF ArrivesOnce
<1>4. Rest(id, rest) \subseteq ClientChunks(id, shape)
  BY DEF MessageOK
<1>5. QED BY <1>2, <1>3, <1>4 DEF MessageOK

-----------------------------------------------------------------------------
(***************************************************************************)
(* What a chunk does to the message it is of.                              *)
(***************************************************************************)
LEMMA ShapeIs ==
  ASSUME NEW shape \in Shapes
  PROVE  shape \in Seq(Nat) /\ shape # << >> /\ Head(shape) > 0
BY ShapesAssumption

LEMMA IdIs ==
  ASSUME NEW id, NEW shape \in Shapes, NEW c \in ClientChunks(id, shape)
  PROVE  c.id = id
<1>1. shape \in Seq(Nat)
  BY ShapeIs
<1>2. PICK i \in 1 .. Len(shape) : \E k \in Places(shape, i) : Placed(c, id, shape, i, k)
  BY <1>1, ChunkPlace
<1>3. QED BY <1>2 DEF Placed

\* The decoder has of a message what is kept of the chunks that have come.
LEMMA PartialIs ==
  ASSUME NEW id, NEW shape, NEW ch, NEW link, NEW again, NEW gone,
         MessageOK(id, shape, ch, link, again, gone)
  PROVE  Partial(ch.partials, id) = Keeps(id, shape, Held(id, shape, ch.partials))
<1>1. CASE id \in DOMAIN ch.partials
  BY <1>1 DEF MessageOK, Partial
<1>2. CASE id \notin DOMAIN ch.partials
  <2>1. Partial(ch.partials, id) = NewPartial
    BY <1>2 DEF Partial
  <2>2. NewPartial.serials = {}
    BY DEF NewPartial
  <2>3. Held(id, shape, ch.partials) = {}
    BY <2>1, <2>2 DEF Held
  <2>4. PICK none : none = {}
    OBVIOUS
  <2>5. Keeps(id, shape, {}) = NewPartial
    BY KeepsNothing
  <2>6. QED BY <2>1, <2>3, <2>5
<1>3. QED BY <1>1, <1>2

\* What is kept of some chunks tells which they are.
LEMMA HeldIs ==
  ASSUME NEW id, NEW shape \in Shapes, NEW partials, NEW C \in SUBSET ClientChunks(id, shape),
         Partial(partials, id) = Keeps(id, shape, C)
  PROVE  Held(id, shape, partials) = C
<1>1. shape \in Seq(Nat)
  BY ShapeIs
<1>2. Keeps(id, shape, C).serials = {c.serial : c \in C}
  BY DEF Keeps, Serials
<1>3. ASSUME NEW c \in Held(id, shape, partials)
      PROVE  c \in C
  <2>1. c \in ClientChunks(id, shape) /\ c.serial \in {d.serial : d \in C}
    BY <1>2 DEF Held
  <2>2. PICK d \in C : d.serial = c.serial
    BY <2>1
  <2>3. d \in ClientChunks(id, shape)
    OBVIOUS
  <2>4. c = d
    BY <1>1, <2>1, <2>2, <2>3, SerialTells
  <2>5. QED BY <2>4
<1>4. ASSUME NEW c \in C
      PROVE  c \in Held(id, shape, partials)
  BY <1>2 DEF Held
<1>5. QED BY <1>3, <1>4

\* What the decoder makes of a chunk it does not refuse.
Repeats(d, partials) == d.ok /\ d.partials = partials /\ d.message = << >>

HandsOver(d, partials, id, shape) ==
  /\ d.ok /\ d.message = <<MessageOf(id, shape)>>
  /\ DOMAIN d.partials = DOMAIN partials \ {id}
  /\ \A j \in DOMAIN partials \ {id} : d.partials[j] = partials[j]

KeepsOn(d, partials, id, shape, C) ==
  /\ d.ok /\ d.message = << >>
  /\ DOMAIN d.partials = DOMAIN partials \cup {id}
  /\ \A j \in DOMAIN partials \ {id} : d.partials[j] = partials[j]
  /\ d.partials[id] = Keeps(id, shape, C)
  /\ ~Finished(Keeps(id, shape, C))

DecodesTo(c, C, d, partials, id, shape) ==
  \/ c \in C /\ Repeats(d, partials)
  \/ /\ c \notin C /\ C \cup {c} = ClientChunks(id, shape)
     /\ HandsOver(d, partials, id, shape)
  \/ c \notin C /\ KeepsOn(d, partials, id, shape, C \cup {c})

LEMMA DecodeIs ==
  ASSUME NEW id, NEW shape \in Shapes, NEW ch, NEW link, NEW again, NEW gone,
         MessageOK(id, shape, ch, link, again, gone),
         NEW c \in ClientChunks(id, shape), ~Refused(ChannelMode, c),
         NEW C, C = Held(id, shape, ch.partials),
         NEW d, d = Decode(ChannelMode, ch.partials, c)
  PROVE  DecodesTo(c, C, d, ch.partials, id, shape)
<1>1. shape \in Seq(Nat) /\ shape # << >> /\ Head(shape) > 0
  BY ShapeIs
<1>2. c.id = id
  BY IdIs
<1>3. C \in SUBSET ClientChunks(id, shape)
  BY DEF Held
<1>4. PICK old : old = Partial(ch.partials, id)
  OBVIOUS
<1>5. old = Keeps(id, shape, C)
  BY <1>4, PartialIs
<1>6. c \in C <=> c.serial \in old.serials
  BY <1>4 DEF Held
<1>7. PICK D : D = C \cup {c}
  OBVIOUS
<1>8. D \in SUBSET ClientChunks(id, shape)
  BY <1>3, <1>7
<1>9. PICK new : new = [serials  |-> old.serials \cup {c.serial},
                        sections |-> AddToSection(old.sections, c),
                        final    |-> IF c.last THEN c.serial ELSE old.final]
  OBVIOUS
<1>10. new = Keeps(id, shape, D)
  BY <1>1, <1>3, <1>5, <1>7, <1>9, KeepsOneMore
<1>11. Complete(ChannelMode, c, new) <=> Finished(new)
  BY FinishedIs
<1>12. ChannelMode # "ReliableOrdered"
  BY DEF ChannelMode
<1>13. CASE c \in C
  <2>1. d = [ok |-> TRUE, partials |-> ch.partials, message |-> << >>]
    BY <1>2, <1>4, <1>6, <1>12, <1>13 DEF Decode
  <2>2. QED BY <1>13, <2>1 DEF Repeats, DecodesTo
<1>14. CASE c \notin C /\ Finished(new)
  <2>1. d = [ok |-> TRUE, partials |-> Restrict(ch.partials, DOMAIN ch.partials \ {id}),
             message |-> <<CompleteMessage(new)>>]
    BY <1>2, <1>4, <1>6, <1>9, <1>11, <1>12, <1>14 DEF Decode
  <2>2. Complete(ChannelMode, c, Keeps(id, shape, D))
    BY <1>10, <1>11, <1>14
  <2>3. D = ClientChunks(id, shape)
    BY <1>1, <1>8, <2>2, CompleteIsAll
  <2>4. CompleteMessage(Keeps(id, shape, ClientChunks(id, shape))) = MessageOf(id, shape)
    BY <1>1, MessageIs
  <2>5. CompleteMessage(new) = MessageOf(id, shape)
    BY <1>10, <2>3, <2>4
  <2>6. HandsOver(d, ch.partials, id, shape)
    BY <2>1, <2>5 DEF HandsOver, Restrict
  <2>7. QED BY <1>7, <1>14, <2>3, <2>6 DEF DecodesTo
<1>15. CASE c \notin C /\ ~Finished(new)
  <2>1. d = [ok |-> TRUE, message |-> << >>,
             partials |-> [i \in DOMAIN ch.partials \cup {id} |->
                             IF i = id THEN new ELSE ch.partials[i]]]
    BY <1>2, <1>4, <1>6, <1>9, <1>11, <1>12, <1>15 DEF Decode
  <2>2. KeepsOn(d, ch.partials, id, shape, D)
    BY <1>10, <1>15, <2>1 DEF KeepsOn
  <2>3. QED BY <1>7, <1>15, <2>2 DEF DecodesTo
<1>16. QED BY <1>13, <1>14, <1>15


\* What is handed over of a message once another one, or itself, has been.
LEMMA HandedIs ==
  ASSUME NEW id, NEW shape, NEW X, NEW got \in Seq(X), NEW m, NEW new, new = got \o <<m>>
  PROVE  \A i : i \in Handed(id, shape, new) <=>
                 \/ i \in Handed(id, shape, got)
                 \/ m = MessageOf(id, shape) /\ i = Len(got) + 1
<1>1. /\ Len(got) \in Nat /\ DOMAIN got = 1 .. Len(got) /\ DOMAIN new = 1 .. Len(got) + 1
      /\ \A i \in DOMAIN got : new[i] = got[i]
      /\ new[Len(got) + 1] = m
  OBVIOUS
<1>2. DOMAIN new = DOMAIN got \cup {Len(got) + 1} /\ Len(got) + 1 \notin DOMAIN got
  BY <1>1
<1>3. QED BY <1>1, <1>2 DEF Handed

\* The channel once the decoder has taken a chunk, and the link.
Takes(ch, c, d, new) ==
  /\ d = Decode(ChannelMode, ch.partials, c)
  /\ new.partials = d.partials /\ new.got = ch.got \o d.message /\ new.open = ch.open
TwiceTold(twice, id, also) == twice => id \in also
LinkAfter(link, c, twice, rest) == rest = IF twice THEN link ELSE link \ {c}

\* A chunk that the decoder does not refuse leaves its message in order.
LEMMA MessageTaken ==
  ASSUME NEW id, NEW shape \in Shapes, NEW ch, NEW link, NEW again, NEW gone,
         MessageOK(id, shape, ch, link, again, gone),
         NEW c \in link, c.id = id, ~Refused(ChannelMode, c),
         NEW X, ch.got \in Seq(X),
         NEW d, NEW new, Takes(ch, c, d, new),
         NEW twice, NEW rest, LinkAfter(link, c, twice, rest), NEW also,
         id \in again => id \in also, TwiceTold(twice, id, also)
  PROVE  MessageOK(id, shape, new, rest, also, gone)
<1>0. /\ d = Decode(ChannelMode, ch.partials, c)
      /\ new.partials = d.partials /\ new.got = ch.got \o d.message /\ new.open = ch.open
      /\ rest = IF twice THEN link ELSE link \ {c}
  BY DEF Takes, LinkAfter
<1>1. PICK all : all = ClientChunks(id, shape)
  OBVIOUS
<1>2. Rest(id, link) \subseteq all /\ c \in Rest(id, link)
  BY <1>1 DEF MessageOK, Rest
<1>3. Rest(id, rest) \subseteq Rest(id, link) /\ (~twice => Rest(id, rest) = Rest(id, link) \ {c})
  BY <1>0 DEF Rest
<1>4. c \in ClientChunks(id, shape)
  BY <1>1, <1>2
<1>5. PICK C : C = Held(id, shape, ch.partials)
  OBVIOUS
<1>6. C \subseteq all
  BY <1>1, <1>5 DEF Held
<1>7. id \notin also => ~twice /\ ArrivesOnce(id, shape, ch, link, gone)
  BY DEF MessageOK, TwiceTold
<1>8. DecodesTo(c, C, d, ch.partials, id, shape)
  BY <1>0, <1>4, <1>5, DecodeIs
<1>9. CASE c \in C /\ Repeats(d, ch.partials)
  <2>1. new.partials = ch.partials /\ new.got = ch.got
    BY <1>0, <1>9 DEF Repeats
  <2>2. SameMessage(id, shape, ch, new)
    BY <2>1 DEF SameMessage
  <2>3. id \in also
    <3>1. SUFFICES ASSUME id \notin also PROVE FALSE
      OBVIOUS
    <3>2. Held(id, shape, ch.partials) \cap Rest(id, link) = {}
      BY <1>7, <3>1 DEF ArrivesOnce
    <3>3. QED BY <1>2, <1>5, <1>9, <3>2
  <2>4. QED BY <1>3, <2>2, <2>3, MessageStays
<1>10. CASE /\ c \notin C /\ C \cup {c} = ClientChunks(id, shape)
            /\ HandsOver(d, ch.partials, id, shape)
  <2>1. id \notin DOMAIN new.partials /\ d.message = <<MessageOf(id, shape)>>
    BY <1>0, <1>10 DEF HandsOver
  <2>2. PICK m : m = MessageOf(id, shape)
    OBVIOUS
  <2>3. Handed(id, shape, new.got) = Handed(id, shape, ch.got) \cup {Len(ch.got) + 1}
    <3>1. PICK old, got : old = ch.got /\ got = new.got
      OBVIOUS
    <3>2. got = old \o <<m>> /\ old \in Seq(X)
      BY <1>0, <2>1, <2>2, <3>1
    <3>3. \A i : i \in Handed(id, shape, got) <=>
                  \/ i \in Handed(id, shape, old)
                  \/ m = MessageOf(id, shape) /\ i = Len(old) + 1
      BY <3>2, HandedIs
    <3>4. QED BY <2>2, <3>1, <3>3
  <2>4. Held(id, shape, new.partials) = {}
    BY <2>1 DEF Held, Partial, NewPartial
  <2>5. ASSUME id \notin also
        PROVE  ArrivesOnce(id, shape, new, rest, gone)
    <3>1. /\ C \cap Rest(id, link) = {}
          /\ Handed(id, shape, ch.got) # {} => Rest(id, link) = {}
      BY <1>5, <1>7, <2>5 DEF ArrivesOnce
    <3>2. Handed(id, shape, ch.got) = {}
      BY <1>2, <3>1
    <3>3. Rest(id, rest) = {}
      BY <1>1, <1>2, <1>3, <1>7, <1>10, <2>5, <3>1
    <3>4. QED BY <2>3, <2>4, <3>2, <3>3 DEF ArrivesOnce
  <2>6. Rest(id, rest) \subseteq ClientChunks(id, shape)
    BY <1>1, <1>2, <1>3
  <2>7. QED BY <2>1, <2>5, <2>6 DEF MessageOK
<1>11. CASE c \notin C /\ KeepsOn(d, ch.partials, id, shape, C \cup {c})
  <2>1. PICK D : D = C \cup {c}
    OBVIOUS
  <2>2. /\ id \in DOMAIN new.partials /\ new.partials[id] = Keeps(id, shape, D)
        /\ ~Finished(Keeps(id, shape, D)) /\ d.message = << >>
    BY <1>0, <1>11, <2>1 DEF KeepsOn
  <2>3. new.got = ch.got
    BY <1>0, <2>2
  <2>4. Held(id, shape, new.partials) = D
    <3>1. Partial(new.partials, id) = Keeps(id, shape, D)
      BY <2>2 DEF Partial
    <3>2. D \in SUBSET ClientChunks(id, shape)
      BY <1>1, <1>4, <1>6, <2>1
    <3>3. PICK partials : partials = new.partials
      OBVIOUS
    <3>4. Held(id, shape, partials) = D
      BY <3>1, <3>2, <3>3, HeldIs
    <3>5. QED BY <3>3, <3>4
  <2>5. ASSUME id \notin also
        PROVE  ArrivesOnce(id, shape, new, rest, gone)
    <3>1. /\ C \cap Rest(id, link) = {}
          /\ Handed(id, shape, ch.got) # {} => Rest(id, link) = {}
          /\ Handed(id, shape, ch.got) = {} /\ id \notin gone /\ ch.open => C \cup Rest(id, link) = all
      BY <1>1, <1>5, <1>7, <2>5 DEF ArrivesOnce
    <3>2. Handed(id, shape, new.got) = {}
      BY <1>2, <2>3, <3>1
    <3>3. Rest(id, rest) = Rest(id, link) \ {c}
      BY <1>3, <1>7, <2>5
    <3>4. D \cap Rest(id, rest) = {} /\ D \cup Rest(id, rest) = C \cup Rest(id, link)
      BY <1>2, <2>1, <3>1, <3>3
    <3>5. Handed(id, shape, ch.got) = {}
      BY <2>3, <3>2
    <3>6. QED BY <1>0, <1>1, <2>4, <3>1, <3>2, <3>4, <3>5 DEF ArrivesOnce
  <2>6. Rest(id, rest) \subseteq ClientChunks(id, shape)
    BY <1>1, <1>2, <1>3
  <2>7. D # {}
    BY <2>1
  <2>8. QED BY <2>2, <2>4, <2>5, <2>6, <2>7 DEF MessageOK
<1>12. QED BY <1>8, <1>9, <1>10, <1>11 DEF DecodesTo

\* Another message is not touched.
LEMMA MessageLeft ==
  ASSUME NEW id, NEW shape \in Shapes, NEW ch, NEW link, NEW again, NEW gone,
         MessageOK(id, shape, ch, link, again, gone),
         NEW other, NEW its \in Shapes, other # id, NEW any, NEW partly,
         MessageOK(other, its, ch, link, any, partly),
         NEW c \in link, c.id = other, ~Refused(ChannelMode, c),
         NEW X, ch.got \in Seq(X),
         NEW d, NEW new, Takes(ch, c, d, new),
         NEW twice, NEW rest, LinkAfter(link, c, twice, rest), NEW also, id \in again => id \in also
  PROVE  MessageOK(id, shape, new, rest, also, gone)
<1>0. /\ d = Decode(ChannelMode, ch.partials, c)
      /\ new.partials = d.partials /\ new.got = ch.got \o d.message /\ new.open = ch.open
      /\ rest = IF twice THEN link ELSE link \ {c}
  BY DEF Takes, LinkAfter
<1>1. c \in ClientChunks(other, its)
  BY DEF MessageOK, Rest
<1>2. Rest(id, rest) = Rest(id, link)
  BY <1>0 DEF Rest
<1>3. PICK C : C = Held(other, its, ch.partials)
  OBVIOUS
<1>4. DecodesTo(c, C, d, ch.partials, other, its)
  BY <1>0, <1>1, <1>3, DecodeIs
<1>5. /\ id \in DOMAIN new.partials <=> id \in DOMAIN ch.partials
      /\ id \in DOMAIN ch.partials => new.partials[id] = ch.partials[id]
      /\ d.message = << >> \/ d.message = <<MessageOf(other, its)>>
  BY <1>0, <1>4 DEF DecodesTo, Repeats, HandsOver, KeepsOn
<1>6. CASE d.message = << >>
  <2>1. new.got = ch.got
    BY <1>0, <1>6
  <2>2. SameMessage(id, shape, ch, new)
    BY <1>5, <2>1 DEF SameMessage
  <2>3. QED BY <1>0, <1>2, <2>2, MessageStays
<1>7. CASE d.message = <<MessageOf(other, its)>>
  <2>1. PICK m : m = MessageOf(other, its)
    OBVIOUS
  <2>2. Head(MessageOf(id, shape).payload)[1] = id
    BY ShapeIs, MessageTells
  <2>3. Head(MessageOf(other, its).payload)[1] = other
    BY ShapeIs, MessageTells
  <2>4. m # MessageOf(id, shape)
    BY <2>1, <2>2, <2>3
  <2>5. Handed(id, shape, new.got) = Handed(id, shape, ch.got)
    <3>1. PICK old, got : old = ch.got /\ got = new.got
      OBVIOUS
    <3>2. got = old \o <<m>> /\ old \in Seq(X)
      BY <1>0, <1>7, <2>1, <3>1
    <3>3. \A i : i \in Handed(id, shape, got) <=>
                  \/ i \in Handed(id, shape, old)
                  \/ m = MessageOf(id, shape) /\ i = Len(old) + 1
      BY <3>2, HandedIs
    <3>4. QED BY <2>4, <3>1, <3>3
  <2>6. SameMessage(id, shape, ch, new)
    BY <1>5, <2>5 DEF SameMessage
  <2>7. QED BY <1>0, <1>2, <2>6, MessageStays
<1>8. QED BY <1>5, <1>6, <1>7

-----------------------------------------------------------------------------
(***************************************************************************)
(* A session's channel, link and history.                                  *)
(***************************************************************************)
Messages(sent) == {MessageOf(id, sent[id]) : id \in DOMAIN sent}

HasOneByte(sent) ==
  \E id \in DOMAIN sent : \E i \in DOMAIN sent[id] : sent[id][i] % SectionPayload(i) = 1

SessionTypes(ch, link, sent, again, gone) ==
  /\ sent \in Seq(Shapes)
  /\ DOMAIN ch = {"open", "refused", "partials", "got", "replies"}
  /\ ch.open \in BOOLEAN /\ ch.refused \in BOOLEAN
  /\ ch.got \in Seq(Messages(sent)) /\ ch.replies \in Seq(Nat \ {0})
  /\ \A c \in link : c.id \in DOMAIN sent
  /\ DOMAIN ch.partials \subseteq DOMAIN sent
  /\ again \subseteq DOMAIN sent /\ gone \subseteq DOMAIN sent

SessionOK(ch, link, sent, again, gone) ==
  /\ SessionTypes(ch, link, sent, again, gone)
  /\ \A id \in DOMAIN sent : MessageOK(id, sent[id], ch, link, again, gone)
  /\ ch.refused => ~ch.open /\ HasOneByte(sent)

\* A channel that has not got anything yet.
LEMMA FreshSession ==
  ASSUME NEW ch, DOMAIN ch = {"open", "refused", "partials", "got", "replies"},
         ch.open \in BOOLEAN, ch.refused = FALSE, ch.partials = << >>, ch.got = << >>,
         ch.replies = << >>, NEW sent \in Seq(Shapes), ch.open => sent = << >>,
         NEW again \in SUBSET DOMAIN sent, NEW gone \in SUBSET DOMAIN sent,
         NEW link, link = {}
  PROVE  SessionOK(ch, link, sent, again, gone)
<1>1. SessionTypes(ch, link, sent, again, gone)
  <2>1. ch.got \in Seq(Messages(sent)) /\ ch.replies \in Seq(Nat \ {0})
    OBVIOUS
  <2>2. DOMAIN ch.partials \subseteq DOMAIN sent
    OBVIOUS
  <2>3. QED BY <2>1, <2>2 DEF SessionTypes
<1>2. ASSUME NEW id \in DOMAIN sent
      PROVE  MessageOK(id, sent[id], ch, link, again, gone)
  <2>1. Rest(id, link) = {}
    BY DEF Rest
  <2>2. Partial(ch.partials, id) = NewPartial
    BY DEF Partial
  <2>3. Held(id, sent[id], ch.partials) = {}
    BY <2>2 DEF Held, NewPartial
  <2>4. Handed(id, sent[id], ch.got) = {}
    BY DEF Handed
  <2>5. ~ch.open
    OBVIOUS
  <2>6. ArrivesOnce(id, sent[id], ch, link, gone)
    BY <2>1, <2>3, <2>4, <2>5 DEF ArrivesOnce
  <2>7. QED BY <2>1, <2>6 DEF MessageOK
<1>3. QED BY <1>1, <1>2 DEF SessionOK

LEMMA MoreMessages ==
  ASSUME NEW sent \in Seq(Shapes), NEW shape \in Shapes, NEW more, more = Append(sent, shape)
  PROVE  /\ more \in Seq(Shapes) /\ DOMAIN more = DOMAIN sent \cup {Len(sent) + 1}
         /\ Len(sent) + 1 \notin DOMAIN sent /\ more[Len(sent) + 1] = shape
         /\ \A id \in DOMAIN sent : more[id] = sent[id]
OBVIOUS

LEMMA WiderSequence ==
  ASSUME NEW X, NEW Y, X \subseteq Y, NEW s \in Seq(X)
  PROVE  s \in Seq(Y)
OBVIOUS

\* The client sends one more message.
LEMMA SessionSends ==
  ASSUME NEW ch, NEW link, NEW sent, NEW again, NEW gone, SessionOK(ch, link, sent, again, gone),
         NEW shape \in Shapes, NEW more, more = Append(sent, shape),
         NEW rest, rest = link \cup ClientChunks(Len(sent) + 1, shape)
  PROVE  SessionOK(ch, rest, more, again, gone)
<1>1. SessionTypes(ch, link, sent, again, gone) /\ sent \in Seq(Shapes)
  BY DEF SessionOK, SessionTypes
<1>2. PICK n : n = Len(sent) + 1
  OBVIOUS
<1>3. /\ more \in Seq(Shapes) /\ DOMAIN more = DOMAIN sent \cup {n}
      /\ n \notin DOMAIN sent /\ more[n] = shape
      /\ \A id \in DOMAIN sent : more[id] = sent[id]
  BY <1>1, <1>2, MoreMessages
<1>4. \A c \in ClientChunks(n, shape) : c.id = n
  BY IdIs
<1>5. rest = link \cup ClientChunks(n, shape)
  BY <1>2
<1>6. Messages(sent) \subseteq Messages(more)
  BY <1>3 DEF Messages
<1>7. ch.got \in Seq(Messages(more))
  <2>1. PICK got, X, Y : got = ch.got /\ X = Messages(sent) /\ Y = Messages(more)
    OBVIOUS
  <2>2. got \in Seq(X) /\ X \subseteq Y
    BY <1>1, <1>6, <2>1 DEF SessionTypes
  <2>3. got \in Seq(Y)
    BY <2>2, WiderSequence
  <2>4. QED BY <2>1, <2>3
<1>8. SessionTypes(ch, rest, more, again, gone)
  BY <1>1, <1>3, <1>4, <1>5, <1>7 DEF SessionTypes
<1>9. ASSUME NEW id \in DOMAIN sent
      PROVE  MessageOK(id, more[id], ch, rest, again, gone)
  <2>1. PICK its : its = sent[id]
    OBVIOUS
  <2>2. MessageOK(id, its, ch, link, again, gone)
    BY <2>1 DEF SessionOK
  <2>3. Rest(id, rest) = Rest(id, link)
    BY <1>3, <1>4, <1>5 DEF Rest
  <2>4. SameMessage(id, its, ch, ch)
    BY DEF SameMessage
  <2>5. MessageOK(id, its, ch, rest, again, gone)
    BY <2>2, <2>3, <2>4, MessageStays
  <2>6. QED BY <1>3, <2>1, <2>5
<1>10. MessageOK(n, more[n], ch, rest, again, gone)
  <2>1. n \notin DOMAIN ch.partials /\ \A c \in link : c.id # n
    BY <1>1, <1>3 DEF SessionTypes
  <2>2. Rest(n, rest) = ClientChunks(n, shape)
    BY <1>4, <1>5, <2>1 DEF Rest
  <2>3. Held(n, shape, ch.partials) = {}
    BY <2>1 DEF Held, Partial, NewPartial
  <2>4. Handed(n, shape, ch.got) = {}
    <3>1. SUFFICES ASSUME NEW i \in DOMAIN ch.got, ch.got[i] = MessageOf(n, shape)
                   PROVE  FALSE
      BY DEF Handed
    <3>2. ch.got[i] \in Messages(sent)
      BY <1>1 DEF SessionTypes
    <3>3. PICK id \in DOMAIN sent : ch.got[i] = MessageOf(id, sent[id])
      BY <3>2 DEF Messages
    <3>4. PICK its \in Shapes : its = sent[id]
      BY <1>1
    <3>5. Head(MessageOf(id, its).payload)[1] = id
      BY ShapeIs, MessageTells
    <3>6. Head(MessageOf(n, shape).payload)[1] = n
      BY ShapeIs, MessageTells
    <3>7. QED BY <1>3, <3>1, <3>3, <3>4, <3>5, <3>6
  <2>5. ArrivesOnce(n, shape, ch, rest, gone)
    BY <2>2, <2>3, <2>4 DEF ArrivesOnce
  <2>6. QED BY <1>3, <2>1, <2>2, <2>5 DEF MessageOK
<1>11. HasOneByte(sent) => HasOneByte(more)
  BY <1>3 DEF HasOneByte
<1>12. ch.refused => ~ch.open /\ HasOneByte(more)
  BY <1>11 DEF SessionOK
<1>13. \A id \in DOMAIN more : MessageOK(id, more[id], ch, rest, again, gone)
  BY <1>3, <1>9, <1>10
<1>14. QED BY <1>8, <1>12, <1>13 DEF SessionOK

\* A chunk is lost.
LEMMA SessionLoses ==
  ASSUME NEW ch, NEW link, NEW sent, NEW again, NEW gone, SessionOK(ch, link, sent, again, gone),
         NEW c \in link, NEW rest, rest = link \ {c}, NEW lacks, lacks = gone \cup {c.id}
  PROVE  SessionOK(ch, rest, sent, again, lacks)
<1>1. SessionTypes(ch, link, sent, again, gone)
  BY DEF SessionOK
<1>2. SessionTypes(ch, rest, sent, again, lacks)
  BY <1>1 DEF SessionTypes
<1>3. ASSUME NEW id \in DOMAIN sent
      PROVE  MessageOK(id, sent[id], ch, rest, again, lacks)
  <2>1. PICK its : its = sent[id]
    OBVIOUS
  <2>2. MessageOK(id, its, ch, link, again, gone)
    BY <2>1 DEF SessionOK
  <2>3. Rest(id, rest) \subseteq Rest(id, link) /\ (id # c.id => Rest(id, rest) = Rest(id, link))
    BY DEF Rest
  <2>4. SameMessage(id, its, ch, ch)
    BY DEF SameMessage
  <2>5. MessageOK(id, its, ch, rest, again, lacks)
    BY <2>2, <2>3, <2>4, MessageStays
  <2>6. QED BY <2>1, <2>5
<1>4. QED BY <1>2, <1>3 DEF SessionOK

\* A chunk is refused, and the channel ends.
LEMMA SessionRefuses ==
  ASSUME NEW ch, NEW link, NEW sent, NEW again, NEW gone, SessionOK(ch, link, sent, again, gone),
         NEW c \in link, Refused(ChannelMode, c),
         NEW new, DOMAIN new = {"open", "refused", "partials", "got", "replies"},
         ~new.open, new.refused, new.partials = ch.partials, new.got = ch.got,
         new.open \in BOOLEAN, new.refused \in BOOLEAN, new.replies = ch.replies,
         NEW rest \in SUBSET link, NEW also, again \subseteq also, also \subseteq again \cup {c.id}
  PROVE  SessionOK(new, rest, sent, also, gone)
<1>1. SessionTypes(ch, link, sent, again, gone)
  BY DEF SessionOK
<1>3. SessionTypes(new, rest, sent, also, gone)
  BY <1>1 DEF SessionTypes
<1>4. ASSUME NEW id \in DOMAIN sent
      PROVE  MessageOK(id, sent[id], new, rest, also, gone)
  <2>1. PICK its : its = sent[id]
    OBVIOUS
  <2>2. MessageOK(id, its, ch, link, again, gone)
    BY <2>1 DEF SessionOK
  <2>3. Rest(id, rest) \subseteq Rest(id, link)
    BY DEF Rest
  <2>4. SameMessage(id, its, ch, new)
    BY DEF SameMessage
  <2>5. id \in again => id \in also
    OBVIOUS
  <2>6. MessageOK(id, its, new, rest, also, gone)
    BY <2>2, <2>3, <2>4, <2>5, MessageStays
  <2>7. QED BY <2>1, <2>6
<1>5. HasOneByte(sent)
  <2>1. PICK id \in DOMAIN sent : id = c.id
    BY <1>1 DEF SessionTypes
  <2>2. PICK its \in Shapes : its = sent[id]
    BY <1>1 DEF SessionTypes
  <2>3. c \in ClientChunks(id, its)
    BY <2>1, <2>2 DEF SessionOK, MessageOK, Rest
  <2>4. \E i \in DOMAIN its : its[i] % SectionPayload(i) = 1
    BY <2>3, ShapeIs, RefusedChunk
  <2>5. QED BY <2>2, <2>4 DEF HasOneByte
<1>6. QED BY <1>3, <1>4, <1>5 DEF SessionOK

Answers(ch, sent, d, new) ==
  new.replies = IF d.message = << >> THEN ch.replies
                ELSE Append(ch.replies, sent[Head(Head(d.message).payload)[1]][1])
RepeatedAfter(again, c, twice, also) == also = IF twice THEN again \cup {c.id} ELSE again

\* A chunk is taken.
LEMMA SessionTakes ==
  ASSUME NEW ch, NEW link, NEW sent, NEW again, NEW gone, SessionOK(ch, link, sent, again, gone),
         ch.open, NEW c \in link, ~Refused(ChannelMode, c),
         NEW d, NEW new, DOMAIN new = {"open", "refused", "partials", "got", "replies"},
         new.refused = ch.refused, Takes(ch, c, d, new), Answers(ch, sent, d, new),
         NEW twice, NEW rest, LinkAfter(link, c, twice, rest),
         NEW also, RepeatedAfter(again, c, twice, also)
  PROVE  SessionOK(new, rest, sent, also, gone)
<1>0. new.got = ch.got \o d.message /\ new.partials = d.partials /\ new.open = ch.open
      /\ d = Decode(ChannelMode, ch.partials, c)
  BY DEF Takes
<1>1. SessionTypes(ch, link, sent, again, gone)
  BY DEF SessionOK
<1>2. PICK id \in DOMAIN sent : id = c.id
  BY <1>1 DEF SessionTypes
<1>3. PICK its \in Shapes : its = sent[id]
  BY <1>1 DEF SessionTypes
<1>4. MessageOK(id, its, ch, link, again, gone)
  BY <1>3 DEF SessionOK
<1>5. c \in ClientChunks(id, its)
  BY <1>2, <1>4 DEF MessageOK, Rest
<1>6. PICK X, old : X = Messages(sent) /\ old = ch.got
  OBVIOUS
<1>7. old \in Seq(X) /\ new.got = old \o d.message /\ ch.got \in Seq(X)
  BY <1>0, <1>1, <1>6 DEF SessionTypes
<1>8. PICK C : C = Held(id, its, ch.partials)
  OBVIOUS
<1>9. DecodesTo(c, C, d, ch.partials, id, its)
  BY <1>0, <1>4, <1>5, <1>8, DecodeIs
<1>10. /\ d.message = << >> \/ d.message = <<MessageOf(id, its)>>
       /\ DOMAIN d.partials \subseteq DOMAIN ch.partials \cup {id}
  BY <1>9 DEF DecodesTo, Repeats, HandsOver, KeepsOn
<1>11. MessageOf(id, its) \in X
  BY <1>3, <1>6 DEF Messages
<1>12. new.got \in Seq(X) /\ new.replies \in Seq(Nat \ {0})
  <2>1. CASE d.message = << >>
    BY <1>1, <1>7, <2>1 DEF SessionTypes, Answers
  <2>2. CASE d.message = <<MessageOf(id, its)>>
    <3>1. PICK m \in X : m = MessageOf(id, its)
      BY <1>11
    <3>2. new.got = old \o <<m>>
      BY <1>7, <2>2, <3>1
    <3>3. new.got \in Seq(X)
      BY <1>7, <3>1, <3>2
    <3>4. Head(d.message) = MessageOf(id, its) /\ d.message # << >>
      BY <2>2
    <3>5. Head(MessageOf(id, its).payload)[1] = id
      BY ShapeIs, MessageTells
    <3>6. new.replies = Append(ch.replies, its[1])
      BY <1>3, <3>4, <3>5 DEF Answers
    <3>7. its[1] \in Nat \ {0}
      <4>1. its \in Seq(Nat) /\ its # << >> /\ Head(its) > 0
        BY ShapeIs
      <4>2. QED BY <4>1
    <3>8. ch.replies \in Seq(Nat \ {0})
      BY <1>1 DEF SessionTypes
    <3>9. new.replies \in Seq(Nat \ {0})
      BY <3>6, <3>7, <3>8
    <3>10. QED BY <3>3, <3>9
  <2>3. QED BY <1>10, <2>1, <2>2
<1>13. SessionTypes(new, rest, sent, also, gone)
  <2>1. rest \subseteq link /\ also \subseteq DOMAIN sent
    BY <1>1, <1>2 DEF SessionTypes, LinkAfter, RepeatedAfter
  <2>2. DOMAIN new.partials \subseteq DOMAIN sent
    BY <1>0, <1>1, <1>10 DEF SessionTypes
  <2>3. new.got \in Seq(Messages(sent))
    BY <1>6, <1>12
  <2>4. QED BY <1>0, <1>1, <1>12, <2>1, <2>2, <2>3 DEF SessionTypes
<1>14. MessageOK(id, sent[id], new, rest, also, gone)
  <2>1. (id \in again => id \in also) /\ TwiceTold(twice, id, also)
    BY <1>2 DEF RepeatedAfter, TwiceTold
  <2>2. MessageOK(id, its, new, rest, also, gone)
    BY <1>2, <1>4, <1>7, <2>1, MessageTaken
  <2>3. QED BY <1>3, <2>2
<1>15. ASSUME NEW j \in DOMAIN sent, j # id
       PROVE  MessageOK(j, sent[j], new, rest, also, gone)
  <2>1. PICK shape \in Shapes : shape = sent[j]
    BY <1>1 DEF SessionTypes
  <2>2. MessageOK(j, shape, ch, link, again, gone)
    BY <2>1 DEF SessionOK
  <2>3. j \in again => j \in also
    BY DEF RepeatedAfter
  <2>4. MessageOK(j, shape, new, rest, also, gone)
    BY <1>2, <1>4, <1>7, <1>15, <2>2, <2>3, MessageLeft
  <2>5. QED BY <2>1, <2>4
<1>16. ~new.refused
  BY DEF SessionOK
<1>17. \A j \in DOMAIN sent : MessageOK(j, sent[j], new, rest, also, gone)
  BY <1>14, <1>15
<1>18. QED BY <1>13, <1>16, <1>17 DEF SessionOK

-----------------------------------------------------------------------------
(***************************************************************************)
(* The steps of the channels.                                              *)
(***************************************************************************)
\* The messages of a session among those that the histories name.
Of(s, pairs) == {id \in Nat : <<s, id>> \in pairs}

SessionIs(s) ==
  SessionOK(channels[s], links[s], sentMessages[s], Of(s, repeated), Of(s, lost))

ChannelTypes ==
  /\ DOMAIN channels = Sessions /\ DOMAIN links = Sessions /\ DOMAIN sentMessages = Sessions

\* The invariant: of each message of each session, the chunks that the decoder
\* has, those on the link and those of a message handed over are what was sent.
ChannelInv == ChannelTypes /\ \A s \in Sessions : SessionIs(s)

LEMMA InitChannel == ChannelInit => ChannelInv
<1>1. SUFFICES ASSUME ChannelInit PROVE ChannelInv
  OBVIOUS
<1>2. ChannelTypes
  BY <1>1 DEF ChannelInit, ChannelTypes
<1>3. ASSUME NEW s \in Sessions
      PROVE  SessionIs(s)
  <2>1. /\ channels[s] = NoChannel /\ links[s] = {} /\ sentMessages[s] = << >>
        /\ Of(s, repeated) = {} /\ Of(s, lost) = {}
    BY <1>1 DEF ChannelInit, Of
  <2>2. PICK ch, link, sent, again, gone :
          /\ ch = channels[s] /\ link = links[s] /\ sent = sentMessages[s]
          /\ again = Of(s, repeated) /\ gone = Of(s, lost)
    OBVIOUS
  <2>3. /\ DOMAIN ch = {"open", "refused", "partials", "got", "replies"}
        /\ ch.open \in BOOLEAN /\ ch.refused = FALSE /\ ch.partials = << >> /\ ch.got = << >>
        /\ ch.replies = << >>
    BY <2>1, <2>2 DEF NoChannel
  <2>4. /\ sent \in Seq(Shapes) /\ (ch.open => sent = << >>) /\ link = {}
        /\ again \in SUBSET DOMAIN sent /\ gone \in SUBSET DOMAIN sent
    BY <2>1, <2>2
  <2>5. SessionOK(ch, link, sent, again, gone)
    BY <2>3, <2>4, FreshSession
  <2>6. QED BY <2>2, <2>5 DEF SessionIs
<1>4. QED BY <1>2, <1>3 DEF ChannelInv

\* Of a session a step leaves alone.
SessionSame(s) ==
  /\ channels'[s] = channels[s] /\ links'[s] = links[s] /\ sentMessages'[s] = sentMessages[s]
  /\ Of(s, repeated)' = Of(s, repeated) /\ Of(s, lost)' = Of(s, lost)

LEMMA SessionStays ==
  ASSUME NEW s \in Sessions, SessionIs(s), SessionSame(s)
  PROVE  SessionIs(s)'
BY DEF SessionIs, SessionSame

LEMMA StutterStep ==
  ASSUME ChannelInv, UNCHANGED <<channels, links, channelHistory>>
  PROVE  ChannelInv'
<1>1. ChannelTypes'
  BY DEF ChannelInv, ChannelTypes, channelHistory
<1>2. ASSUME NEW s \in Sessions
      PROVE  SessionIs(s)'
  <2>1. SessionSame(s)
    BY DEF SessionSame, channelHistory, Of
  <2>2. QED BY <2>1, SessionStays DEF ChannelInv
<1>3. QED BY <1>1, <1>2 DEF ChannelInv

\* A step of one session, that the others do not see.
LEMMA OneSession ==
  ASSUME ChannelInv, ChannelTypes', NEW s,
         s \in Sessions => SessionIs(s)',
         \A t \in Sessions : t # s => SessionSame(t)
  PROVE  ChannelInv'
<1>1. ASSUME NEW t \in Sessions
      PROVE  SessionIs(t)'
  <2>1. CASE t = s
    BY <2>1
  <2>2. CASE t # s
    <3>1. SessionSame(t) /\ SessionIs(t)
      BY <2>2 DEF ChannelInv
    <3>2. QED BY <3>1, SessionStays
  <2>3. QED BY <2>1, <2>2
<1>2. QED BY <1>1 DEF ChannelInv

LEMMA ConnectStep ==
  ASSUME ChannelInv, ConnectClient
  PROVE  ChannelInv'
<1>1. PICK s : s = Head(signals)
  OBVIOUS
<1>2. /\ channels' = [channels EXCEPT ![s] = [NoChannel EXCEPT !.open = TRUE]]
      /\ links' = [links EXCEPT ![s] = {}]
      /\ sentMessages' = [sentMessages EXCEPT ![s] = << >>]
      /\ repeated' = {r \in repeated : r[1] # s}
      /\ lost' = {r \in lost : r[1] # s}
  BY <1>1 DEF ConnectClient
<1>3. ChannelTypes /\ ChannelTypes'
  BY <1>2 DEF ChannelInv, ChannelTypes
<1>4. ASSUME NEW t \in Sessions, t # s
      PROVE  SessionSame(t)
  <2>1. \A id : <<t, id>>[1] # s
    BY <1>4
  <2>2. Of(t, repeated)' = Of(t, repeated) /\ Of(t, lost)' = Of(t, lost)
    BY <1>2, <2>1 DEF Of
  <2>3. QED BY <1>2, <1>3, <1>4, <2>2 DEF SessionSame, ChannelTypes
<1>5. ASSUME s \in Sessions
      PROVE  SessionIs(s)'
  <2>1. PICK ch, link, sent, again, gone :
          /\ ch = channels'[s] /\ link = links'[s] /\ sent = sentMessages'[s]
          /\ again = Of(s, repeated)' /\ gone = Of(s, lost)'
    OBVIOUS
  <2>2. ch = [NoChannel EXCEPT !.open = TRUE] /\ link = {} /\ sent = << >>
    BY <1>2, <1>3, <1>5, <2>1 DEF ChannelTypes
  <2>3. again = {} /\ gone = {}
    <3>1. \A id : <<s, id>>[1] = s
      OBVIOUS
    <3>2. QED BY <1>2, <2>1, <3>1 DEF Of
  <2>4. /\ DOMAIN ch = {"open", "refused", "partials", "got", "replies"}
        /\ ch.open \in BOOLEAN /\ ch.refused = FALSE /\ ch.partials = << >> /\ ch.got = << >>
        /\ ch.replies = << >>
    BY <2>2 DEF NoChannel
  <2>5. sent \in Seq(Shapes) /\ again \in SUBSET DOMAIN sent /\ gone \in SUBSET DOMAIN sent
    BY <2>2, <2>3
  <2>6. SessionOK(ch, link, sent, again, gone)
    BY <2>2, <2>4, <2>5, FreshSession
  <2>7. QED BY <2>1, <2>6 DEF SessionIs
<1>6. QED BY <1>3, <1>4, <1>5, OneSession

LEMMA SendStep ==
  ASSUME ChannelInv, NEW s \in Sessions, NEW shape \in Shapes, SendMessage(s, shape)
  PROVE  ChannelInv'
<1>1. /\ sentMessages' = [sentMessages EXCEPT ![s] = Append(@, shape)]
      /\ links' = [links EXCEPT ![s] = @ \cup ClientChunks(Len(sentMessages[s]) + 1, shape)]
      /\ channels' = channels /\ repeated' = repeated /\ lost' = lost
  BY DEF SendMessage
<1>2. ChannelTypes /\ ChannelTypes'
  BY <1>1 DEF ChannelInv, ChannelTypes
<1>3. \A t \in Sessions : t # s => SessionSame(t)
  BY <1>1, <1>2 DEF SessionSame, ChannelTypes, Of
<1>4. SessionIs(s)'
  <2>1. PICK ch, link, sent, again, gone :
          /\ ch = channels[s] /\ link = links[s] /\ sent = sentMessages[s]
          /\ again = Of(s, repeated) /\ gone = Of(s, lost)
    OBVIOUS
  <2>2. SessionOK(ch, link, sent, again, gone)
    BY <2>1 DEF ChannelInv, SessionIs
  <2>3. PICK more, rest : more = Append(sent, shape) /\ rest = link \cup ClientChunks(Len(sent) + 1, shape)
    OBVIOUS
  <2>4. SessionOK(ch, rest, more, again, gone)
    BY <2>2, <2>3, SessionSends
  <2>5. /\ channels'[s] = ch /\ links'[s] = rest /\ sentMessages'[s] = more
        /\ Of(s, repeated)' = again /\ Of(s, lost)' = gone
    BY <1>1, <1>2, <2>1, <2>3 DEF ChannelTypes, Of
  <2>6. QED BY <2>4, <2>5 DEF SessionIs
<1>5. QED BY <1>2, <1>3, <1>4, OneSession

LEMMA ReceiveStep ==
  ASSUME ChannelInv, NEW s \in Sessions, NEW c, NEW twice \in BOOLEAN, ReceiveChunk(s, c, twice)
  PROVE  ChannelInv'
<1> DEFINE old == channels[s]
           d == Decode(ChannelMode, old.partials, c)
           new == IF ~d.ok THEN [old EXCEPT !.open = FALSE, !.refused = TRUE]
                  ELSE [old EXCEPT !.partials = d.partials, !.got = @ \o d.message,
                                   !.replies = IF d.message = << >> THEN @
                                               ELSE Append(@, AnswerTo(s, Head(d.message)))]
<1>1. /\ old.open /\ c \in links[s]
      /\ channels' = [channels EXCEPT ![s] = new]
      /\ links' = [links EXCEPT ![s] = IF twice THEN @ ELSE @ \ {c}]
      /\ repeated' = IF twice THEN repeated \cup {<<s, c.id>>} ELSE repeated
      /\ lost' = lost /\ sentMessages' = sentMessages
  BY DEF ReceiveChunk
<1> HIDE DEF new
<1>2. ChannelTypes /\ ChannelTypes'
  BY <1>1 DEF ChannelInv, ChannelTypes
<1>3. ASSUME NEW t \in Sessions, t # s
      PROVE  SessionSame(t)
  <2>1. \A id : <<t, id>> # <<s, c.id>>
    BY <1>3
  <2>2. Of(t, repeated)' = Of(t, repeated) /\ Of(t, lost)' = Of(t, lost)
    BY <1>1, <2>1 DEF Of
  <2>3. QED BY <1>1, <1>2, <1>3, <2>2 DEF SessionSame, ChannelTypes
<1>4. PICK ch, link, sent, again, gone :
        /\ ch = channels[s] /\ link = links[s] /\ sent = sentMessages[s]
        /\ again = Of(s, repeated) /\ gone = Of(s, lost)
  OBVIOUS
<1>5. SessionOK(ch, link, sent, again, gone) /\ ch.open /\ c \in link
  BY <1>1, <1>4 DEF ChannelInv, SessionIs
<1>6. SessionTypes(ch, link, sent, again, gone)
  BY <1>5 DEF SessionOK
<1>7. c.id \in Nat
  BY <1>5, <1>6 DEF SessionTypes
<1>8. PICK e, after, rest, also :
        /\ e = d /\ after = new /\ rest = links'[s] /\ also = Of(s, repeated)'
  OBVIOUS
<1>9. LinkAfter(link, c, twice, rest)
  BY <1>1, <1>2, <1>4, <1>8 DEF LinkAfter, ChannelTypes
<1>10. RepeatedAfter(again, c, twice, also)
  <2>1. \A id : <<s, id>> = <<s, c.id>> <=> id = c.id
    OBVIOUS
  <2>2. CASE twice
    BY <1>1, <1>4, <1>7, <1>8, <2>1, <2>2 DEF Of, RepeatedAfter
  <2>3. CASE ~twice
    BY <1>1, <1>4, <1>8, <2>3 DEF Of, RepeatedAfter
  <2>4. QED BY <2>2, <2>3
<1>11. channels'[s] = after /\ sentMessages'[s] = sent /\ Of(s, lost)' = gone
  BY <1>1, <1>2, <1>4, <1>8 DEF ChannelTypes, Of
<1>12. DOMAIN ch = {"open", "refused", "partials", "got", "replies"}
  BY <1>6 DEF SessionTypes
<1>13. CASE Refused(ChannelMode, c)
  <2>1. ~d.ok
    BY <1>13 DEF Decode
  <2>2. after = [ch EXCEPT !.open = FALSE, !.refused = TRUE]
    BY <1>4, <1>8, <2>1 DEF new
  <2>3. /\ DOMAIN after = {"open", "refused", "partials", "got", "replies"}
        /\ after.open = FALSE /\ after.refused = TRUE /\ after.partials = ch.partials
        /\ after.got = ch.got /\ after.replies = ch.replies
    BY <1>12, <2>2
  <2>4. rest \in SUBSET link /\ again \subseteq also /\ also \subseteq again \cup {c.id}
    BY <1>9, <1>10 DEF LinkAfter, RepeatedAfter
  <2>5. SessionOK(after, rest, sent, also, gone)
    BY <1>5, <1>13, <2>3, <2>4, SessionRefuses
  <2>6. SessionIs(s)'
    BY <1>8, <1>11, <2>5 DEF SessionIs
  <2>7. QED BY <1>2, <1>3, <2>6, OneSession
<1>14. CASE ~Refused(ChannelMode, c)
  <2>1. d.ok
    BY <1>14 DEF Decode
  <2>2. after = [ch EXCEPT !.partials = e.partials, !.got = @ \o e.message,
                           !.replies = IF e.message = << >> THEN @
                                       ELSE Append(@, AnswerTo(s, Head(e.message)))]
    BY <1>4, <1>8, <2>1 DEF new
  <2>3. /\ DOMAIN after = {"open", "refused", "partials", "got", "replies"}
        /\ after.refused = ch.refused
    BY <1>12, <2>2
  <2>4. Takes(ch, c, e, after)
    BY <1>4, <1>8, <1>12, <2>2 DEF Takes
  <2>5. Answers(ch, sent, e, after)
    BY <1>4, <1>12, <2>2 DEF Answers, AnswerTo
  <2>6. SessionOK(after, rest, sent, also, gone)
    BY <1>5, <1>9, <1>10, <1>14, <2>3, <2>4, <2>5, SessionTakes
  <2>7. SessionIs(s)'
    BY <1>8, <1>11, <2>6 DEF SessionIs
  <2>8. QED BY <1>2, <1>3, <2>7, OneSession
<1>15. QED BY <1>13, <1>14

LEMMA LoseStep ==
  ASSUME ChannelInv, NEW s \in Sessions, NEW c, LoseChunk(s, c)
  PROVE  ChannelInv'
<1>1. /\ c \in links[s] /\ links' = [links EXCEPT ![s] = @ \ {c}]
      /\ lost' = lost \cup {<<s, c.id>>}
      /\ channels' = channels /\ sentMessages' = sentMessages /\ repeated' = repeated
  BY DEF LoseChunk
<1>2. ChannelTypes /\ ChannelTypes'
  BY <1>1 DEF ChannelInv, ChannelTypes
<1>3. ASSUME NEW t \in Sessions, t # s
      PROVE  SessionSame(t)
  <2>1. \A id : <<t, id>> # <<s, c.id>>
    BY <1>3
  <2>2. Of(t, repeated)' = Of(t, repeated) /\ Of(t, lost)' = Of(t, lost)
    BY <1>1, <2>1 DEF Of
  <2>3. QED BY <1>1, <1>2, <1>3, <2>2 DEF SessionSame, ChannelTypes
<1>4. PICK ch, link, sent, again, gone :
        /\ ch = channels[s] /\ link = links[s] /\ sent = sentMessages[s]
        /\ again = Of(s, repeated) /\ gone = Of(s, lost)
  OBVIOUS
<1>5. SessionOK(ch, link, sent, again, gone) /\ c \in link
  BY <1>1, <1>4 DEF ChannelInv, SessionIs
<1>6. c.id \in Nat
  BY <1>5 DEF SessionOK, SessionTypes
<1>7. PICK rest, lacks : rest = link \ {c} /\ lacks = gone \cup {c.id}
  OBVIOUS
<1>8. SessionOK(ch, rest, sent, again, lacks)
  BY <1>5, <1>7, SessionLoses
<1>9. Of(s, lost)' = lacks
  <2>1. \A id : <<s, id>> = <<s, c.id>> <=> id = c.id
    OBVIOUS
  <2>2. QED BY <1>1, <1>4, <1>6, <1>7, <2>1 DEF Of
<1>10. channels'[s] = ch /\ links'[s] = rest /\ sentMessages'[s] = sent /\ Of(s, repeated)' = again
  BY <1>1, <1>2, <1>4, <1>7 DEF ChannelTypes, Of
<1>11. SessionIs(s)'
  BY <1>8, <1>9, <1>10 DEF SessionIs
<1>12. QED BY <1>2, <1>3, <1>11, OneSession

LEMMA LeaveStep ==
  ASSUME ChannelInv, NEW s \in Sessions, LeaveChannel(s)
  PROVE  ChannelInv'
<1>1. /\ channels' = [channels EXCEPT ![s] = NoChannel] /\ links' = [links EXCEPT ![s] = {}]
      /\ sentMessages' = sentMessages /\ repeated' = repeated /\ lost' = lost
  BY DEF LeaveChannel, channelHistory
<1>2. ChannelTypes /\ ChannelTypes'
  BY <1>1 DEF ChannelInv, ChannelTypes
<1>3. \A t \in Sessions : t # s => SessionSame(t)
  BY <1>1, <1>2 DEF SessionSame, ChannelTypes, Of
<1>4. PICK ch, link, sent, again, gone :
        /\ ch = channels'[s] /\ link = links'[s] /\ sent = sentMessages'[s]
        /\ again = Of(s, repeated)' /\ gone = Of(s, lost)'
  OBVIOUS
<1>5. ch = NoChannel /\ link = {}
  BY <1>1, <1>2, <1>4 DEF ChannelTypes
<1>6. sent = sentMessages[s] /\ again = Of(s, repeated) /\ gone = Of(s, lost)
  BY <1>1, <1>4 DEF Of
<1>7. sent \in Seq(Shapes) /\ again \in SUBSET DOMAIN sent /\ gone \in SUBSET DOMAIN sent
  BY <1>6 DEF ChannelInv, SessionIs, SessionOK, SessionTypes
<1>8. /\ DOMAIN ch = {"open", "refused", "partials", "got", "replies"}
      /\ ch.open = FALSE /\ ch.refused = FALSE /\ ch.partials = << >> /\ ch.got = << >>
      /\ ch.replies = << >>
  BY <1>5 DEF NoChannel
<1>9. SessionOK(ch, link, sent, again, gone)
  BY <1>5, <1>7, <1>8, FreshSession
<1>10. SessionIs(s)'
  BY <1>4, <1>9 DEF SessionIs
<1>11. QED BY <1>2, <1>3, <1>10, OneSession

LEMMA ChannelStepKeeps ==
  ASSUME ChannelInv, [ChannelNext]_channelVars
  PROVE  ChannelInv'
<1>1. CASE UNCHANGED channelVars
  BY <1>1, StutterStep DEF channelVars, channelHistory
<1>2. CASE ConnectSignalling \/ AcknowledgeInit \/ LoseSignalling \/ RetrySignalling \/ BridgeFails
  BY <1>2, StutterStep DEF ConnectSignalling, AcknowledgeInit, LoseSignalling, RetrySignalling,
                           BridgeFails
<1>3. CASE ConnectClient
  BY <1>3, ConnectStep
<1>4. ASSUME NEW s \in Sessions, AskForChannel(s)
      PROVE  ChannelInv'
  BY <1>4, StutterStep DEF AskForChannel
<1>5. ASSUME NEW s \in Sessions, NEW shape \in Shapes, SendMessage(s, shape)
      PROVE  ChannelInv'
  BY <1>5, SendStep
<1>6. ASSUME NEW s \in Sessions, NEW c, NEW twice \in BOOLEAN, ReceiveChunk(s, c, twice)
      PROVE  ChannelInv'
  BY <1>6, ReceiveStep
<1>7. ASSUME NEW s \in Sessions, NEW c, LoseChunk(s, c)
      PROVE  ChannelInv'
  BY <1>7, LoseStep
<1>8. ASSUME NEW s \in Sessions, LeaveChannel(s)
      PROVE  ChannelInv'
  BY <1>8, LeaveStep
<1>9. QED BY <1>1, <1>2, <1>3, <1>4, <1>5, <1>6, <1>7, <1>8
          DEF ChannelNext, SignallingStep, ChannelStep

\* The invariant holds in every state, for any sessions, any messages and files of
\* any size and any number of faults: each chunk that a client has sent is in one
\* place, on the link, with the decoder or in a message handed over, until the
\* link repeats or loses it (decode_stream and decode_single_message).
THEOREM ChannelInvariant == ChannelSpec => []ChannelInv
<1>1. ChannelInit => ChannelInv
  BY InitChannel
<1>2. ChannelInv /\ [ChannelNext]_channelVars => ChannelInv'
  BY ChannelStepKeeps
<1>3. QED BY <1>1, <1>2, PTL DEF ChannelSpec

-----------------------------------------------------------------------------
(***************************************************************************)
(* What follows of it.                                                     *)
(***************************************************************************)
LEMMA SessionFacts ==
  ASSUME ChannelInv, NEW s \in Sessions
  PROVE  /\ SessionTypes(channels[s], links[s], sentMessages[s], Of(s, repeated), Of(s, lost))
         /\ \A id \in DOMAIN sentMessages[s] :
              /\ id \in Nat /\ sentMessages[s][id] \in Shapes
              /\ MessageOK(id, sentMessages[s][id], channels[s], links[s],
                           Of(s, repeated), Of(s, lost))
<1>1. SessionOK(channels[s], links[s], sentMessages[s], Of(s, repeated), Of(s, lost))
  BY DEF ChannelInv, SessionIs
<1>2. SessionTypes(channels[s], links[s], sentMessages[s], Of(s, repeated), Of(s, lost))
  BY <1>1 DEF SessionOK
<1>3. \A id \in DOMAIN sentMessages[s] : id \in Nat /\ sentMessages[s][id] \in Shapes
  BY <1>2 DEF SessionTypes
<1>4. QED BY <1>1, <1>2, <1>3 DEF SessionOK

LEMMA DeliveredHolds == ChannelInv => DeliveredIntact
<1>1. SUFFICES ASSUME ChannelInv, NEW s \in Sessions
               PROVE  LET got == channels[s].got IN
                      /\ \A i \in DOMAIN got : \E id \in DOMAIN sentMessages[s] :
                           got[i] = SentMessage(s, id)
                      /\ \A i, j \in DOMAIN got :
                           i # j /\ got[i] = got[j]
                             => <<s, Head(got[i].payload)[1]>> \in repeated
  BY DEF DeliveredIntact
<1> DEFINE got == channels[s].got
<1>2. ASSUME NEW i \in DOMAIN got
      PROVE  \E id \in DOMAIN sentMessages[s] : got[i] = SentMessage(s, id)
  <2>1. got[i] \in Messages(sentMessages[s])
    BY <1>1, SessionFacts DEF SessionTypes
  <2>2. QED BY <2>1 DEF Messages, SentMessage
<1>3. ASSUME NEW i \in DOMAIN got, NEW j \in DOMAIN got, i # j, got[i] = got[j]
      PROVE  <<s, Head(got[i].payload)[1]>> \in repeated
  <2>1. PICK id \in DOMAIN sentMessages[s] : got[i] = SentMessage(s, id)
    BY <1>2
  <2>2. PICK its : its = sentMessages[s][id]
    OBVIOUS
  <2>3. its \in Shapes /\ MessageOK(id, its, channels[s], links[s], Of(s, repeated), Of(s, lost))
    BY <1>1, <2>2, SessionFacts
  <2>4. got[i] = MessageOf(id, its) /\ got[j] = MessageOf(id, its)
    BY <1>3, <2>1, <2>2 DEF SentMessage
  <2>5. i \in Handed(id, its, got) /\ j \in Handed(id, its, got)
    BY <2>4 DEF Handed
  <2>6. id \in Of(s, repeated)
    BY <1>3, <2>3, <2>5 DEF MessageOK, ArrivesOnce
  <2>7. Head(MessageOf(id, its).payload)[1] = id
    BY <2>3, ShapeIs, MessageTells
  <2>8. QED BY <2>4, <2>6, <2>7 DEF Of
<1>4. QED BY <1>2, <1>3

LEMMA PartialHolds == ChannelInv => NothingStaysPartial
<1>1. SUFFICES ASSUME ChannelInv, NEW s \in Sessions, channels[s].open,
                      NEW id \in DOMAIN sentMessages[s],
                      <<s, id>> \notin repeated \cup lost, \A c \in links[s] : c.id # id,
                      Last(sentMessages[s][id]) > 0
               PROVE  /\ id \notin DOMAIN channels[s].partials
                      /\ \E i \in DOMAIN channels[s].got :
                           channels[s].got[i] = SentMessage(s, id)
  BY DEF NothingStaysPartial
<1>2. PICK its, ch, link : its = sentMessages[s][id] /\ ch = channels[s] /\ link = links[s]
  OBVIOUS
<1>3. its \in Shapes /\ MessageOK(id, its, ch, link, Of(s, repeated), Of(s, lost))
  BY <1>1, <1>2, SessionFacts
<1>4. id \notin Of(s, repeated) /\ id \notin Of(s, lost)
  BY <1>1 DEF Of
<1>5. Rest(id, link) = {}
  BY <1>1, <1>2 DEF Rest
<1>6. /\ Handed(id, its, ch.got) # {} => Held(id, its, ch.partials) = {}
      /\ Handed(id, its, ch.got) = {} => Held(id, its, ch.partials) = ClientChunks(id, its)
  BY <1>1, <1>2, <1>3, <1>4, <1>5 DEF MessageOK, ArrivesOnce
<1>7. its \in Seq(Nat) /\ its # << >> /\ Head(its) > 0 /\ its[Len(its)] > 0
  BY <1>1, <1>2, <1>3, ShapeIs DEF Last
<1>8. id \notin DOMAIN ch.partials
  <2>1. SUFFICES ASSUME id \in DOMAIN ch.partials PROVE FALSE
    OBVIOUS
  <2>2. /\ Held(id, its, ch.partials) # {}
        /\ ch.partials[id] = Keeps(id, its, Held(id, its, ch.partials))
        /\ ~Finished(ch.partials[id])
    BY <1>3, <2>1 DEF MessageOK
  <2>3. ~Finished(Keeps(id, its, ClientChunks(id, its)))
    BY <1>6, <2>2
  <2>4. Complete(ChannelMode, ch, Keeps(id, its, ClientChunks(id, its)))
    BY <1>7, AllIsComplete
  <2>5. QED BY <2>3, <2>4, FinishedIs
<1>9. Handed(id, its, ch.got) # {}
  <2>1. SUFFICES ASSUME Handed(id, its, ch.got) = {} PROVE FALSE
    OBVIOUS
  <2>2. PICK c \in ClientChunks(id, its) : c.last
    BY <1>7, LastSerial
  <2>3. Held(id, its, ch.partials) = {}
    BY <1>8 DEF Held, Partial, NewPartial
  <2>4. QED BY <1>6, <2>1, <2>2, <2>3
<1>10. \E i \in DOMAIN ch.got : ch.got[i] = MessageOf(id, its)
  BY <1>9 DEF Handed
<1>11. QED BY <1>2, <1>8, <1>10 DEF SentMessage

LEMMA RefusalHolds == ChannelInv => RefusalHasACause
BY DEF ChannelInv, SessionIs, SessionOK, HasOneByte, RefusalHasACause

\* Every message the decoder hands over is one the client sent, its payload and its
\* files whole and in order, and it is handed over once unless a chunk of it came
\* twice, in whatever order the link delivers the chunks.
THEOREM DeliveredCorrect == ChannelSpec => []DeliveredIntact
BY ChannelInvariant, DeliveredHolds, PTL

\* A message whose chunks have all arrived has been handed over and the decoder
\* keeps nothing of it, if its last section has a chunk to tell its end.
THEOREM PartialCorrect == ChannelSpec => []NothingStaysPartial
BY ChannelInvariant, PartialHolds, PTL

\* The decoder ends a channel only over a section that leaves a single byte for its
\* last chunk: no other chunk is shorter than the header its bit field announces.
THEOREM RefusalCorrect == ChannelSpec => []RefusalHasACause
BY ChannelInvariant, RefusalHolds, PTL

-----------------------------------------------------------------------------
(***************************************************************************)
(* The server's answers, put together from the last chunk to the first.    *)
(***************************************************************************)
\* What is kept of an answer of n chunks once the last k have come.
SerialsFrom(n, k) == n - k .. n - 1
PartFrom(id, n, k) ==
  [serials |-> SerialsFrom(n, k),
   sections |-> [st \in {0} |-> [x \in SerialsFrom(n, k) |-> <<id, x + 1>>]],
   final |-> n - 1]
AnswerOf(id, n) == [files |-> << >>, payload |-> [k \in 1 .. n |-> <<id, k>>]]

LEMMA SerialsGrow ==
  ASSUME NEW n \in Nat, NEW k \in 1 .. n
  PROVE  /\ k = 1 => SerialsFrom(n, k) = {n - k}
         /\ k > 1 => SerialsFrom(n, k) = SerialsFrom(n, k - 1) \cup {n - k}
         /\ n - k \notin SerialsFrom(n, k - 1)
         /\ SerialsFrom(n, n) = 0 .. n - 1
BY DEF SerialsFrom

LEMMA SerialsCounted ==
  ASSUME NEW n \in Nat, NEW k \in 1 .. n
  PROVE  Cardinality(SerialsFrom(n, k)) = k
<1>1. PICK a \in Int, m \in Int : a = n - k /\ m = n - 1
  OBVIOUS
<1>2. Cardinality(a .. m) = IF a > m THEN 0 ELSE m - a + 1
  BY FS_Interval
<1>3. QED BY <1>1, <1>2 DEF SerialsFrom

LEMMA PartFinished ==
  ASSUME NEW id, NEW n \in Nat, NEW k \in 1 .. n
  PROVE  Finished(PartFrom(id, n, k)) <=> k = n
<1>1. Cardinality(SerialsFrom(n, k)) = k
  BY SerialsCounted
<1>2. n - 1 # NoFinal /\ (k = (n - 1) + 1 <=> k = n)
  BY DEF NoFinal
<1>3. PartFrom(id, n, k).final = n - 1 /\ PartFrom(id, n, k).serials = SerialsFrom(n, k)
  BY DEF PartFrom
<1>4. QED BY <1>1, <1>2, <1>3 DEF Finished

\* One chunk more.
LEMMA PartGrows ==
  ASSUME NEW id, NEW n \in Nat, NEW k \in 1 .. n,
         NEW c, c.serial = n - k, c.start = 0, c.token = <<id, n - k + 1>>, c.last = (k = 1),
         NEW old, old = IF k = 1 THEN NewPartial ELSE PartFrom(id, n, k - 1)
  PROVE  /\ [serials  |-> old.serials \cup {c.serial},
             sections |-> AddToSection(old.sections, c),
             final    |-> IF c.last THEN c.serial ELSE old.final] = PartFrom(id, n, k)
         /\ c.serial \notin old.serials
<1> DEFINE section == IF c.start \in DOMAIN old.sections THEN old.sections[c.start] ELSE << >>
           grown == [s \in DOMAIN section \cup {c.serial} |->
                       IF s = c.serial THEN c.token ELSE section[s]]
<1>1. PICK A, B : A = SerialsFrom(n, k) /\ B = SerialsFrom(n, k - 1)
  OBVIOUS
<1>2. (k = 1 => A = {n - k}) /\ (k > 1 => A = B \cup {n - k}) /\ n - k \notin B
  BY <1>1, SerialsGrow
<1>3. CASE k = 1
  <2>1. old.serials = {} /\ old.sections = << >> /\ c.last
    BY <1>3 DEF NewPartial
  <2>2. old.serials \cup {c.serial} = A
    BY <1>2, <1>3, <2>1
  <2>3. section = << >> /\ DOMAIN section = {}
    BY <2>1
  <2>4. grown = [x \in A |-> <<id, x + 1>>]
    BY <1>2, <1>3, <2>3
  <2>5. DOMAIN old.sections = {}
    BY <2>1
  <2> HIDE DEF grown
  <2>6. AddToSection(old.sections, c) = [st \in {0} |-> grown]
    BY <2>5 DEF AddToSection, grown
  <2>7. c.serial = n - 1
    BY <1>3
  <2>8. QED BY <1>1, <2>1, <2>2, <2>4, <2>6, <2>7 DEF PartFrom
<1>4. CASE k # 1
  <2>1. old = PartFrom(id, n, k - 1) /\ ~c.last /\ k > 1
    <3>1. old = PartFrom(id, n, k - 1) /\ k > 1
      BY <1>4
    <3>2. ~c.last
      BY <1>4, Zenon
    <3>3. QED BY <3>1, <3>2
  <2>2. /\ old.serials = B /\ old.final = n - 1
        /\ old.sections = [st \in {0} |-> [x \in B |-> <<id, x + 1>>]]
    BY <1>1, <2>1 DEF PartFrom
  <2>3. old.serials \cup {c.serial} = A
    BY <1>2, <2>1, <2>2
  <2>4. DOMAIN old.sections = {0} /\ section = [x \in B |-> <<id, x + 1>>]
    BY <2>2
  <2>5. DOMAIN section = B
    BY <2>4
  <2>6. grown = [x \in A |-> <<id, x + 1>>]
    <3>1. \A x \in B : section[x] = <<id, x + 1>>
      BY <2>4
    <3> HIDE DEF section
    <3>2. QED BY <1>2, <2>1, <2>5, <3>1
  <2> HIDE DEF grown
  <2>7. AddToSection(old.sections, c) = [st \in {0} |-> grown]
    BY <2>4 DEF AddToSection, grown
  <2>8. QED BY <1>1, <1>2, <2>1, <2>2, <2>3, <2>6, <2>7 DEF PartFrom
<1>5. QED BY <1>3, <1>4

LEMMA AnswerIs ==
  ASSUME NEW id, NEW n \in Nat \ {0}
  PROVE  CompleteMessage(PartFrom(id, n, n)) = AnswerOf(id, n)
<1> DEFINE section == [x \in 0 .. n - 1 |-> <<id, x + 1>>]
           sections == [st \in {0} |-> section]
           e == [i \in 1 .. n |-> i - 1]
           one == [i \in 1 .. 1 |-> 0]
           payload == [k \in 1 .. n |-> <<id, k>>]
<1>1. SerialsFrom(n, n) = 0 .. n - 1
  BY SerialsGrow
<1>2. PartFrom(id, n, n).sections = sections
  BY <1>1 DEF PartFrom
<1>3. Ascending(0 .. n - 1) = e
  <2>1. PICK R : R = 0 .. n - 1
    OBVIOUS
  <2>2. R \in SUBSET Int /\ e \in [1 .. n -> R] /\ Rising(e, n)
    BY <2>1 DEF Rising
  <2>3. ASSUME NEW x \in R PROVE \E i \in 1 .. n : e[i] = x
    <3>1. x + 1 \in 1 .. n /\ (x + 1) - 1 = x
      BY <2>1
    <3>2. QED BY <3>1
  <2> HIDE DEF e
  <2>4. Ascending(R) = e
    BY <2>2, <2>3, AscendingIs
  <2>5. QED BY <2>1, <2>4
<1>4. Content(section) = payload
  <2>1. DOMAIN section = 0 .. n - 1 /\ DOMAIN e = 1 .. n
    OBVIOUS
  <2>2. \A i \in 1 .. n : section[e[i]] = <<id, i>>
    OBVIOUS
  <2> HIDE DEF section, e
  <2>3. Content(section) = [i \in DOMAIN e |-> section[e[i]]]
    BY <1>3, <2>1 DEF Content
  <2>4. QED BY <2>1, <2>2, <2>3
<1>5. Ascending({0}) = one
  <2>1. PICK R, m : R = {0} /\ m = 1
    OBVIOUS
  <2>2. R \in SUBSET Int /\ m \in Nat /\ one \in [1 .. m -> R] /\ Rising(one, m)
    BY <2>1 DEF Rising
  <2>3. \A x \in R : \E i \in 1 .. m : one[i] = x
    BY <2>1
  <2> HIDE DEF one
  <2>4. Ascending(R) = one
    BY <2>2, <2>3, AscendingIs
  <2>5. QED BY <2>1, <2>4
<1>6. CompleteMessage(PartFrom(id, n, n))
        = [payload |-> Head([i \in 1 .. 1 |-> payload]), files |-> Tail([i \in 1 .. 1 |-> payload])]
  <2>1. DOMAIN sections = {0} /\ DOMAIN one = 1 .. 1 /\ \A i \in 1 .. 1 : sections[one[i]] = section
    OBVIOUS
  <2> HIDE DEF section, sections, one, payload
  <2>2. [i \in DOMAIN one |-> Content(sections[one[i]])] = [i \in 1 .. 1 |-> payload]
    BY <1>4, <2>1
  <2>3. CompleteMessage(PartFrom(id, n, n))
          = [payload |-> Head([i \in DOMAIN one |-> Content(sections[one[i]])]),
             files |-> Tail([i \in DOMAIN one |-> Content(sections[one[i]])])]
    BY <1>2, <1>5, <2>1 DEF CompleteMessage
  <2>4. QED BY <2>2, <2>3
<1> HIDE DEF payload
<1>7. Head([i \in 1 .. 1 |-> payload]) = payload
  OBVIOUS
<1>8. Tail([i \in 1 .. 1 |-> payload]) = << >>
  <2>1. PICK w, X : w = [i \in 1 .. 1 |-> payload] /\ X = {payload}
    OBVIOUS
  <2>2. w \in Seq(X) /\ Len(w) = 1 /\ w # << >>
    BY <2>1
  <2>3. Tail(w) \in Seq(X) /\ Len(Tail(w)) = Len(w) - 1
    BY <2>2, HeadTailProperties
  <2>4. PICK t \in Seq(X) : t = Tail(w)
    BY <2>3
  <2>5. Len(t) = 0
    BY <2>2, <2>3, <2>4
  <2>6. t = << >>
    BY <2>5
  <2>7. QED BY <2>1, <2>4, <2>6
<1>9. QED BY <1>6, <1>7, <1>8 DEF AnswerOf, payload

\* The decoder's state once the last k chunks of an answer have come.
Fresh == [ok |-> TRUE, partials |-> << >>, message |-> << >>]
Halfway(id, n, k) ==
  [ok |-> TRUE, partials |-> [j \in {id} |-> PartFrom(id, n, k)], message |-> << >>]
Answered(id, n) == [ok |-> TRUE, partials |-> << >>, message |-> <<AnswerOf(id, n)>>]
Stopped == [ok |-> FALSE, partials |-> << >>, message |-> << >>]

After(id, b, n, k) ==
  IF k = 0 THEN Fresh
  ELSE IF LeftOver(b, ChunkPayload) = 1 THEN Stopped
  ELSE IF k = n THEN Answered(id, n) ELSE Halfway(id, n, k)

AnswerChunk(c, id, b, n, k) ==
  /\ c.mode = ChannelMode /\ c.id = id /\ c.serial = n - k /\ c.start = 0
  /\ c.token = <<id, n - k + 1>> /\ c.last = (k = 1)
  /\ Refused(ChannelMode, c) <=> k = 1 /\ LeftOver(b, ChunkPayload) = 1

LEMMA AnswerChunks ==
  ASSUME NEW id, NEW b \in Nat \ {0}, NEW n, n = ChunkCount(b, ChunkPayload), NEW chunks,
         chunks = EncodeMessage(ChannelMode, id, b)
  PROVE  /\ n \in Nat \ {0} /\ DOMAIN chunks = 1 .. n /\ Len(chunks) = n
         /\ \A k \in 1 .. n : chunks[k].token = <<id, k>>
         /\ \A k \in 1 .. n : AnswerChunk(chunks[n + 1 - k], id, b, n, k)
<1>1. n \in Nat \ {0}
  <2>1. ChunkCount(b, ChunkPayload) \in Nat
    BY ChunkAssumption, Counts
  <2>2. ChunkCount(b, ChunkPayload) = 0 <=> b = 0
    BY ChunkAssumption, Counts
  <2>3. QED BY <2>1, <2>2
<1>2. LastFits(b, ChunkPayload)
  BY ChunkAssumption, Counts
<1>3. LeftOver(b, ChunkPayload) \in 1 .. ChunkPayload
  BY <1>2 DEF LastFits
<1>4. PICK l \in 1 .. ChunkPayload : l = LeftOver(b, ChunkPayload) /\ l = b - (n - 1) * ChunkPayload
  BY <1>3 DEF LeftOver
<1>5. chunks = [i \in 1 .. n |-> Chunk(ChannelMode, id, i - 1, i = n, FALSE, 0,
                                       IF i = n THEN l ELSE ChunkPayload, <<id, i>>)]
  BY <1>4 DEF EncodeMessage
<1>6. DOMAIN chunks = 1 .. n /\ Len(chunks) = n
  BY <1>1, <1>5
<1>7. ChunkPayload \in Nat /\ ChunkPayload > 1
  BY ChunkAssumption
<1>8. ASSUME NEW i \in 1 .. n
      PROVE  /\ chunks[i].mode = ChannelMode /\ chunks[i].id = id /\ chunks[i].serial = i - 1
             /\ chunks[i].start = 0 /\ chunks[i].token = <<id, i>> /\ chunks[i].last = (i = n)
             /\ Refused(ChannelMode, chunks[i]) <=> i = n /\ l = 1
  <2>1. PICK c : c = chunks[i]
    OBVIOUS
  <2>2. PICK bytes \in Nat : bytes = IF i = n THEN l ELSE ChunkPayload
    BY <1>7
  <2>3. c = Chunk(ChannelMode, id, i - 1, i = n, FALSE, 0, bytes, <<id, i>>)
    BY <1>5, <2>1, <2>2
  <2>4. /\ c.mode = ChannelMode /\ c.id = id /\ c.serial = i - 1
        /\ c.start = 0 /\ c.token = <<id, i>>
        /\ c.multipart = FALSE /\ c.len = HeaderBytes(ChannelMode, FALSE) + bytes
    BY <2>3 DEF Chunk, ChannelMode
  <2>5. c.last = (i = n)
    BY <2>3 DEF Chunk
  <2>6. HeaderBytes(ChannelMode, FALSE) = 9
    BY DEF HeaderBytes, ChannelMode
  <2>7. c.len = 9 + bytes /\ HeaderBytes(ChannelMode, c.multipart) = 9
    BY <2>4, <2>6
  <2>8. bytes >= 1
    BY <1>7, <2>2
  <2>9. Refused(ChannelMode, c) <=> bytes = 1
    <3>1. PICK len, h : len = c.len /\ h = HeaderBytes(ChannelMode, c.multipart)
      OBVIOUS
    <3>2. Refused(ChannelMode, c) <=> len < 1 \/ len - 1 < h + 1
      BY <2>4, <3>1 DEF Refused
    <3>3. len = 9 + bytes /\ h = 9
      BY <2>7, <3>1
    <3>4. QED BY <2>8, <3>2, <3>3
  <2>10. bytes = 1 <=> i = n /\ l = 1
    BY <1>7, <2>2
  <2>11. QED BY <2>1, <2>4, <2>5, <2>9, <2>10
<1>9. ASSUME NEW k \in 1 .. n
      PROVE  AnswerChunk(chunks[n + 1 - k], id, b, n, k)
  <2>1. PICK i \in 1 .. n : i = n + 1 - k
    BY <1>1
  <2>2. i - 1 = n - k /\ i = n - k + 1 /\ (i = n <=> k = 1)
    BY <1>1, <2>1
  <2>3. (i = n) = (k = 1)
    BY <2>2
  <2>4. QED BY <1>4, <1>8, <2>1, <2>2, <2>3 DEF AnswerChunk
<1>10. QED BY <1>1, <1>6, <1>8, <1>9

\* What one chunk of an answer does.
DecodeNext(r, c) == IF r.ok THEN Decode(ChannelMode, r.partials, c) ELSE r

LEMMA AfterIs ==
  ASSUME NEW id, NEW b \in Nat \ {0}, NEW n \in Nat \ {0}, NEW k \in 1 .. n,
         NEW c, AnswerChunk(c, id, b, n, k)
  PROVE  After(id, b, n, k) = DecodeNext(After(id, b, n, k - 1), c)
<1>1. PICK r : r = After(id, b, n, k - 1)
  OBVIOUS
<1>2. k - 1 # n /\ (k - 1 = 0 <=> k = 1) /\ k # 0
  OBVIOUS
<1>3. CASE LeftOver(b, ChunkPayload) = 1
  <2>1. After(id, b, n, k) = Stopped
    BY <1>2, <1>3 DEF After
  <2>2. CASE k = 1
    <3>1. r = Fresh
      BY <1>1, <2>2 DEF After
    <3>2. Refused(ChannelMode, c)
      BY <1>3, <2>2 DEF AnswerChunk
    <3>3. DecodeNext(r, c) = Stopped
      BY <3>1, <3>2 DEF DecodeNext, Fresh, Stopped, Decode
    <3>4. QED BY <1>1, <2>1, <3>3
  <2>3. CASE k # 1
    <3>1. r = Stopped
      BY <1>1, <1>2, <1>3, <2>3 DEF After
    <3>2. DecodeNext(r, c) = Stopped
      BY <3>1 DEF DecodeNext, Stopped
    <3>3. QED BY <1>1, <2>1, <3>2
  <2>4. QED BY <2>2, <2>3
<1>4. CASE LeftOver(b, ChunkPayload) # 1
  <2>1. r = IF k = 1 THEN Fresh ELSE Halfway(id, n, k - 1)
    BY <1>1, <1>2, <1>4 DEF After
  <2>2. PICK old : old = Partial(r.partials, id)
    OBVIOUS
  <2>3. old = IF k = 1 THEN NewPartial ELSE PartFrom(id, n, k - 1)
    <3>1. CASE k = 1
      BY <2>1, <2>2, <3>1 DEF Partial, Fresh
    <3>2. CASE k # 1
      BY <2>1, <2>2, <3>2 DEF Partial, Halfway
    <3>3. QED BY <3>1, <3>2
  <2>4. r.ok
    BY <2>1 DEF Fresh, Halfway
  <2>5. /\ c.serial = n - k /\ c.start = 0 /\ c.token = <<id, n - k + 1>>
        /\ c.id = id /\ ~Refused(ChannelMode, c)
    BY <1>4 DEF AnswerChunk
  <2>6. c.last = (k = 1)
    BY DEF AnswerChunk
  <2>7. PICK new : new = [serials  |-> old.serials \cup {c.serial},
                          sections |-> AddToSection(old.sections, c),
                          final    |-> IF c.last THEN c.serial ELSE old.final]
    OBVIOUS
  <2>8. new = PartFrom(id, n, k) /\ c.serial \notin old.serials
    BY <2>3, <2>5, <2>6, <2>7, PartGrows
  <2>9. Complete(ChannelMode, c, new) <=> k = n
    BY <2>8, FinishedIs, PartFinished
  <2>10. ChannelMode # "ReliableOrdered"
    BY DEF ChannelMode
  <2>11. DOMAIN r.partials \subseteq {id}
    BY <2>1 DEF Fresh, Halfway
  <2>12. CASE k = n
    <3>1. Decode(ChannelMode, r.partials, c)
            = [ok |-> TRUE, partials |-> Restrict(r.partials, DOMAIN r.partials \ {id}),
               message |-> <<CompleteMessage(new)>>]
      BY <2>2, <2>5, <2>7, <2>8, <2>9, <2>10, <2>12 DEF Decode
    <3>2. Restrict(r.partials, DOMAIN r.partials \ {id}) = << >>
      BY <2>11 DEF Restrict
    <3>3. CompleteMessage(new) = AnswerOf(id, n)
      BY <2>8, <2>12, AnswerIs
    <3>4. DecodeNext(r, c) = Answered(id, n)
      BY <2>4, <3>1, <3>2, <3>3 DEF DecodeNext, Answered
    <3>5. After(id, b, n, k) = Answered(id, n)
      BY <1>2, <1>4, <2>12 DEF After
    <3>6. QED BY <1>1, <3>4, <3>5
  <2>13. CASE k # n
    <3>1. Decode(ChannelMode, r.partials, c)
            = [ok |-> TRUE, message |-> << >>,
               partials |-> [i \in DOMAIN r.partials \cup {id} |->
                               IF i = id THEN new ELSE r.partials[i]]]
      BY <2>2, <2>5, <2>7, <2>8, <2>9, <2>10, <2>13 DEF Decode
    <3>2. [i \in DOMAIN r.partials \cup {id} |-> IF i = id THEN new ELSE r.partials[i]]
            = [j \in {id} |-> PartFrom(id, n, k)]
      BY <2>8, <2>11
    <3>3. DecodeNext(r, c) = Halfway(id, n, k)
      BY <2>4, <3>1, <3>2 DEF DecodeNext, Halfway
    <3>4. After(id, b, n, k) = Halfway(id, n, k)
      BY <1>2, <1>4, <2>13 DEF After
    <3>5. QED BY <1>1, <3>3, <3>4
  <2>14. QED BY <2>12, <2>13
<1>5. QED BY <1>3, <1>4

\* The decoder's recursion has the states above as its values.
LEMMA DecodedIs ==
  ASSUME NEW id, NEW b \in Nat \ {0}, NEW n, n = ChunkCount(b, ChunkPayload), NEW chunks,
         chunks = EncodeMessage(ChannelMode, id, b)
  PROVE  DecodedFromTheLast(chunks) = After(id, b, n, n)
<1> DEFINE Sol(g) == g = [k \in 0 .. n |->
                           IF k = 0 THEN [ok |-> TRUE, partials |-> << >>, message |-> << >>]
                           ELSE IF g[k - 1].ok
                           THEN Decode(ChannelMode, g[k - 1].partials, chunks[n + 1 - k])
                           ELSE g[k - 1]]
           upto == CHOOSE g : Sol(g)
           f == [k \in 0 .. n |-> After(id, b, n, k)]
           T == {k \in 0 .. n : upto[k] = After(id, b, n, k)}
<1>1. /\ n \in Nat \ {0} /\ Len(chunks) = n
      /\ \A k \in 1 .. n : AnswerChunk(chunks[n + 1 - k], id, b, n, k)
  BY AnswerChunks
<1>2. Sol(f)
  <2>1. ASSUME NEW k \in 0 .. n
        PROVE  After(id, b, n, k)
                 = IF k = 0 THEN [ok |-> TRUE, partials |-> << >>, message |-> << >>]
                   ELSE IF f[k - 1].ok
                   THEN Decode(ChannelMode, f[k - 1].partials, chunks[n + 1 - k])
                   ELSE f[k - 1]
    <3>1. CASE k = 0
      BY <3>1 DEF After, Fresh
    <3>2. CASE k # 0
      <4>1. k \in 1 .. n /\ k - 1 \in 0 .. n
        BY <1>1, <3>2
      <4>2. f[k - 1] = After(id, b, n, k - 1)
        BY <4>1
      <4> HIDE DEF f
      <4>3. PICK c : c = chunks[n + 1 - k]
        OBVIOUS
      <4>4. After(id, b, n, k) = DecodeNext(After(id, b, n, k - 1), c)
        BY <1>1, <4>1, <4>3, AfterIs
      <4>5. QED BY <3>2, <4>2, <4>3, <4>4 DEF DecodeNext
    <3>3. QED BY <3>1, <3>2
  <2>2. QED BY <2>1
<1>3. Sol(upto)
  <2> HIDE DEF f, Sol
  <2>1. \E g : Sol(g)
    BY <1>2
  <2>2. QED BY <2>1
<1>4. DecodedFromTheLast(chunks) = upto[n]
  BY <1>1 DEF DecodedFromTheLast
<1>5. ASSUME NEW k \in 0 .. n
      PROVE  upto[k] = IF k = 0 THEN Fresh ELSE DecodeNext(upto[k - 1], chunks[n + 1 - k])
  <2> HIDE DEF upto
  <2>1. QED BY <1>3, <1>5 DEF Fresh, DecodeNext
<1> HIDE DEF upto, f, Sol
<1>6. 0 \in T
  BY <1>1, <1>5 DEF After
<1>7. ASSUME NEW k \in 0 .. n - 1, k \in T
      PROVE  k + 1 \in T
  <2>1. PICK j \in 1 .. n : j = k + 1
    BY <1>1
  <2>2. j \in 0 .. n /\ j # 0 /\ j - 1 = k
    BY <1>1, <2>1
  <2>3. PICK c : c = chunks[n + 1 - j]
    OBVIOUS
  <2>4. upto[j] = DecodeNext(upto[k], c)
    BY <1>5, <2>2, <2>3
  <2>5. After(id, b, n, j) = DecodeNext(After(id, b, n, j - 1), c)
    BY <1>1, <2>3, AfterIs
  <2>6. upto[k] = After(id, b, n, k)
    BY <1>7
  <2>7. QED BY <2>1, <2>2, <2>4, <2>5, <2>6
<1> HIDE DEF T
<1>8. n \in T
  <2>1. 0 .. n \subseteq T
    BY <1>1, <1>6, <1>7, IntervalInduction
  <2>2. QED BY <1>1, <2>1
<1>9. QED BY <1>4, <1>8 DEF T

LEMMA AnswersHold == ChannelInv => AnswersDecode
<1>1. SUFFICES ASSUME ChannelInv, NEW s \in Sessions, NEW i \in DOMAIN channels[s].replies
               PROVE  LET bytes  == channels[s].replies[i]
                          chunks == EncodeMessage(ChannelMode, i - 1, bytes)
                          end    == DecodedFromTheLast(chunks)
                      IN  /\ end.ok <=> bytes % ChunkPayload # 1
                          /\ end.ok => /\ end.partials = << >>
                                       /\ end.message = <<[files |-> << >>,
                                            payload |-> [k \in DOMAIN chunks |-> chunks[k].token]]>>
  BY DEF AnswersDecode
<1>2. PICK b \in Nat \ {0} : b = channels[s].replies[i]
  <2>1. channels[s].replies \in Seq(Nat \ {0})
    BY <1>1, SessionFacts DEF SessionTypes
  <2>2. QED BY <2>1
<1>3. PICK id, n, chunks :
        id = i - 1 /\ n = ChunkCount(b, ChunkPayload) /\ chunks = EncodeMessage(ChannelMode, id, b)
  OBVIOUS
<1>4. PICK end : end = DecodedFromTheLast(chunks)
  OBVIOUS
<1>5. end = After(id, b, n, n)
  BY <1>3, <1>4, DecodedIs
<1>6. /\ n \in Nat \ {0} /\ DOMAIN chunks = 1 .. n
      /\ \A k \in 1 .. n : chunks[k].token = <<id, k>>
  BY <1>3, AnswerChunks
<1>7. end = IF LeftOver(b, ChunkPayload) = 1 THEN Stopped ELSE Answered(id, n)
  BY <1>5, <1>6 DEF After
<1>8. end.ok <=> LeftOver(b, ChunkPayload) # 1
  BY <1>7 DEF Stopped, Answered
<1>9. LeftOver(b, ChunkPayload) = 1 <=> b % ChunkPayload = 1
  BY ChunkAssumption, Counts DEF LastFits
<1>10. [k \in DOMAIN chunks |-> chunks[k].token] = [k \in 1 .. n |-> <<id, k>>]
  BY <1>6
<1>11. ASSUME end.ok
       PROVE  /\ end.partials = << >>
              /\ end.message = <<[files |-> << >>,
                                  payload |-> [k \in DOMAIN chunks |-> chunks[k].token]]>>
  <2>1. end = Answered(id, n)
    BY <1>7, <1>8, <1>11
  <2>2. QED BY <1>10, <2>1 DEF Answered, AnswerOf
<1>12. QED BY <1>2, <1>3, <1>4, <1>8, <1>9, <1>11

\* The server's answers, cut up by its encoder, are put together again by its own
\* decoder from the last chunk to the first, and refused only if a byte is left over.
THEOREM AnswersCorrect == ChannelSpec => []AnswersDecode
BY ChannelInvariant, AnswersHold, PTL
=============================================================================
