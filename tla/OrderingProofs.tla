--------------------------- MODULE OrderingProofs ---------------------------
(***************************************************************************)
(* Lemmas about data that the proofs about the functions share: induction, *)
(* least and greatest members, sets put in order, and sequences joined.    *)
(***************************************************************************)
EXTENDS Ordering, SequencesExt, FiniteSetTheorems, SequenceTheorems,
        WellFoundedInduction, TLAPS

-----------------------------------------------------------------------------
(* Induction.                                                              *)

\* Induction over the natural numbers, on a set of them: the library states it
\* with an operator parameter, here it follows from the well-founded order.
LEMMA SetInduction ==
    ASSUME NEW S, 0 \in S, \A n \in Nat : n \in S => n + 1 \in S
    PROVE  Nat \subseteq S
<1> DEFINE beyond == Nat \ S
           less == OpToRel(<, Nat)
<1> SUFFICES ASSUME beyond # {} PROVE FALSE
  OBVIOUS
<1>1. IsWellFoundedOn(less, Nat)
  BY NatLessThanWellFounded
<1> HIDE DEF less
<1>2. PICK n \in beyond : \A m \in beyond : <<m, n>> \notin less
  BY <1>1, WFMin
<1>3. n \in Nat \ {0}
  BY <1>2
<1>4. n - 1 \in Nat /\ n - 1 \in beyond /\ n - 1 < n
  <2>1. n - 1 \in Nat /\ (n - 1) + 1 = n /\ n - 1 < n
    BY <1>3
  <2> QED BY <1>2, <2>1
<1>5. <<n - 1, n>> \in less
  BY <1>3, <1>4 DEF less, OpToRel
<1> QED BY <1>2, <1>4, <1>5

\* Every set of natural numbers that is not empty has a least member.
LEMMA LeastNat ==
    ASSUME NEW S, S \subseteq Nat, S # {}
    PROVE  \E n \in S : \A m \in S : n <= m
<1> DEFINE less == OpToRel(<, Nat)
<1>1. IsWellFoundedOn(less, Nat)
  BY NatLessThanWellFounded
<1> HIDE DEF less
<1>2. PICK n \in S : \A m \in S : <<m, n>> \notin less
  BY <1>1, WFMin
<1>3. ASSUME NEW m \in S PROVE n <= m
  <2>1. n \in Nat /\ m \in Nat
    OBVIOUS
  <2>2. m < n => <<m, n>> \in less
    BY <2>1 DEF less, OpToRel
  <2> QED BY <1>2, <2>1, <2>2
<1> QED BY <1>2, <1>3

-----------------------------------------------------------------------------
(* Least and greatest members.                                             *)

\* Min is the least member of a set of natural numbers.
LEMMA MinIsLeast ==
    ASSUME NEW S, S \subseteq Nat, S # {}
    PROVE  Min(S) \in S /\ \A x \in S : Min(S) <= x
<1>1. PICK n \in S : \A m \in S : n <= m
  BY LeastNat
<1> QED BY <1>1 DEF Min

\* Max is the greatest member of a set of integers that is bounded from above.
LEMMA MaxIsGreatest ==
    ASSUME NEW S, S \subseteq Int, S # {}, NEW high \in Int, \A x \in S : x <= high
    PROVE  Max(S) \in S /\ \A x \in S : x <= Max(S)
<1> DEFINE T == {n \in Nat : high - n \in S}
<1>1. PICK x \in S : TRUE
  OBVIOUS
<1>2. high - x \in T
  <2>1. high - x \in Nat /\ high - (high - x) = x
    OBVIOUS
  <2> QED BY <2>1
<1>3. PICK n \in T : \A m \in T : n <= m
  <2>1. T \subseteq Nat /\ T # {}
    BY <1>2
  <2> QED BY <2>1, LeastNat
<1>4. high - n \in S /\ \A y \in S : high - n >= y
  <2> SUFFICES ASSUME NEW y \in S PROVE high - n >= y
    BY <1>3
  <2>1. high - y \in Nat /\ high - (high - y) = y /\ y \in Int
    OBVIOUS
  <2>2. high - y \in T
    BY <2>1
  <2>3. n <= high - y /\ n \in Nat
    BY <1>3, <2>2
  <2> QED BY <2>1, <2>3
<1> QED BY <1>4 DEF Max

\* The lesser and the greater of two integers.
LEMMA MinOfTwo ==
    ASSUME NEW a \in Int, NEW b \in Int
    PROVE  Min({a, b}) = IF a <= b THEN a ELSE b
<1> DEFINE m == IF a <= b THEN a ELSE b
<1>1. m \in {a, b} /\ m \in Int /\ m <= a /\ m <= b
  OBVIOUS
<1> QED BY <1>1 DEF Min

-----------------------------------------------------------------------------
(* Multiples.                                                              *)

\* A multiple grows with its factor, and by the other one with each step.
LEMMA Multiples ==
    ASSUME NEW a \in Nat, NEW b \in Nat, NEW size \in Nat
    PROVE  /\ a * size \in Nat
           /\ (a + 1) * size = a * size + size
           /\ a <= b => a * size <= b * size
           /\ 1 <= size => a <= a * size
<1>1. a * size \in Nat /\ (a + 1) * size = a * size + size
  OBVIOUS
<1>2. ASSUME a <= b PROVE a * size <= b * size
  <2> DEFINE d == b - a
  <2>1. d \in Nat /\ b = a + d
    BY <1>2
  <2>2. b * size = a * size + d * size /\ d * size \in Nat
    BY <2>1
  <2> QED BY <1>1, <2>2
<1>3. ASSUME 1 <= size PROVE a <= a * size
  <2> DEFINE e == size - 1
  <2>1. e \in Nat /\ size = e + 1
    BY <1>3
  <2>2. a * size = a * e + a /\ a * e \in Nat
    BY <2>1
  <2> QED BY <2>2
<1> QED BY <1>1, <1>2, <1>3

-----------------------------------------------------------------------------
(* Sets in order.                                                          *)

\* An order in which no member precedes itself, whatever precedes a member
\* that precedes another precedes that one too, and of two members one
\* precedes the other.
TotalOrder(S, before) ==
    /\ before \in [S -> SUBSET S]
    /\ \A c \in S : c \notin before[c]
    /\ \A c, d \in S : d \in before[c] => before[d] \subseteq before[c]
    /\ \A c, d \in S : c # d => c \in before[d] \/ d \in before[c]

\* InOrder lists a finite set without repetition, each member after those that
\* precede it.
LEMMA InOrderLists ==
    ASSUME NEW S, IsFiniteSet(S), NEW before, TotalOrder(S, before)
    PROVE  /\ InOrder(S, before) \in Seq(S) /\ Len(InOrder(S, before)) = Cardinality(S)
           /\ \A c \in S : \E i \in 1..Cardinality(S) : InOrder(S, before)[i] = c
           /\ \A i, j \in 1..Cardinality(S) :
                  i < j => InOrder(S, before)[i] \in before[InOrder(S, before)[j]]
<1> DEFINE n == Cardinality(S)
           rank == [c \in S |-> Cardinality(before[c])]
           T == 0..(n - 1)
<1>1. n \in Nat
  BY FS_CardinalityType
<1>2. \A c \in S : before[c] \subseteq S /\ IsFiniteSet(before[c]) /\ before[c] # S
  <2> SUFFICES ASSUME NEW c \in S
               PROVE  before[c] \subseteq S /\ IsFiniteSet(before[c]) /\ before[c] # S
    OBVIOUS
  <2>1. before[c] \in SUBSET S
    BY DEF TotalOrder
  <2>2. IsFiniteSet(before[c])
    BY <2>1, FS_Subset
  <2> QED BY <2>1, <2>2 DEF TotalOrder
<1>3. \A c \in S : rank[c] \in T
  <2> SUFFICES ASSUME NEW c \in S PROVE rank[c] \in T
    OBVIOUS
  <2>1. Cardinality(before[c]) \in Nat
    BY <1>2, FS_CardinalityType
  <2>2. Cardinality(before[c]) <= n /\ Cardinality(before[c]) # n
    BY <1>2, FS_Subset
  <2> QED BY <1>1, <2>1, <2>2
<1>4. ASSUME NEW c \in S, NEW d \in S, d \in before[c]
      PROVE  rank[d] < rank[c]
  <2>1. before[d] \in SUBSET before[c] /\ before[d] # before[c]
    BY <1>4 DEF TotalOrder
  <2>2. Cardinality(before[d]) <= Cardinality(before[c])
        /\ Cardinality(before[d]) # Cardinality(before[c])
    BY <1>2, <2>1, FS_Subset
  <2>3. Cardinality(before[d]) \in Nat /\ Cardinality(before[c]) \in Nat
    BY <1>2, FS_CardinalityType
  <2> QED BY <2>2, <2>3
<1>5. \A c, d \in S : rank[c] = rank[d] => c = d
  <2> SUFFICES ASSUME NEW c \in S, NEW d \in S, rank[c] = rank[d], c # d PROVE FALSE
    OBVIOUS
  <2>1. c \in before[d] \/ d \in before[c]
    BY DEF TotalOrder
  <2>2. rank[c] \in Int /\ rank[d] \in Int
    BY <1>3
  <2> QED BY <1>4, <2>1, <2>2
<1>6. \A r \in T : \E c \in S : rank[c] = r
  <2>1. rank \in Injection(S, T)
    BY <1>3, <1>5 DEF Injection, IsInjective
  <2>2. IsFiniteSet(T) /\ Cardinality(T) = n
    BY <1>1, FS_Interval
  <2>3. rank \in Surjection(S, T)
    BY <2>1, <2>2, FS_Injection
  <2> QED BY <2>3 DEF Surjection
<1> DEFINE f == InOrder(S, before)
<1>7. \A i \in 1..n : f[i] \in S /\ rank[f[i]] = i - 1
  <2> SUFFICES ASSUME NEW i \in 1..n PROVE f[i] \in S /\ rank[f[i]] = i - 1
    OBVIOUS
  <2>1. f[i] = CHOOSE c \in S : Cardinality(before[c]) = i - 1
    BY DEF InOrder
  <2>2. i - 1 \in T
    BY <1>1
  <2>3. \E c \in S : Cardinality(before[c]) = i - 1
    BY <1>6, <2>2
  <2> QED BY <2>1, <2>3
<1>8. f \in [1..n -> S]
  BY <1>7 DEF InOrder
<1>9. \A c \in S : \E i \in 1..n : f[i] = c
  <2> SUFFICES ASSUME NEW c \in S PROVE \E i \in 1..n : f[i] = c
    OBVIOUS
  <2>1. rank[c] + 1 \in 1..n /\ (rank[c] + 1) - 1 = rank[c]
    BY <1>1, <1>3
  <2> QED BY <1>5, <1>7, <2>1
<1>10. \A i, j \in 1..n : i < j => f[i] \in before[f[j]]
  <2> SUFFICES ASSUME NEW i \in 1..n, NEW j \in 1..n, i < j PROVE f[i] \in before[f[j]]
    OBVIOUS
  <2>1. f[i] \in S /\ f[j] \in S /\ rank[f[i]] = i - 1 /\ rank[f[j]] = j - 1
    BY <1>7
  <2>2. f[i] # f[j] /\ ~(rank[f[j]] < rank[f[i]])
    BY <2>1
  <2>3. f[j] \notin before[f[i]]
    BY <1>4, <2>1, <2>2
  <2> QED BY <2>1, <2>2, <2>3 DEF TotalOrder
<1>11. f \in Seq(S) /\ Len(f) = n
  BY <1>1, <1>8, SeqDef
<1> QED BY <1>9, <1>10, <1>11

\* What Ascending makes of a finite set of integers.
LEMMA AscendingLists ==
    ASSUME NEW S, S \subseteq Int, IsFiniteSet(S)
    PROVE  /\ Ascending(S) \in Seq(S) /\ Len(Ascending(S)) = Cardinality(S)
           /\ \A c \in S : \E i \in 1..Cardinality(S) : Ascending(S)[i] = c
           /\ \A i, j \in 1..Cardinality(S) : i < j => Ascending(S)[i] < Ascending(S)[j]
<1> DEFINE before == [c \in S |-> {d \in S : d < c}]
<1>1. TotalOrder(S, before)
  <2>1. before \in [S -> SUBSET S] /\ \A c \in S : c \notin before[c]
    OBVIOUS
  <2>2. \A c, d \in S : d \in before[c] => before[d] \subseteq before[c]
    <3> SUFFICES ASSUME NEW c \in S, NEW d \in S, d \in before[c], NEW e \in before[d]
                 PROVE  e \in before[c]
      OBVIOUS
    <3>1. e \in S /\ e < d /\ d < c
      OBVIOUS
    <3>2. e < c
      BY <3>1
    <3> QED BY <3>1, <3>2
  <2>3. \A c, d \in S : c # d => c \in before[d] \/ d \in before[c]
    OBVIOUS
  <2> QED BY <2>1, <2>2, <2>3 DEF TotalOrder
<1>2. /\ InOrder(S, before) \in Seq(S) /\ Len(InOrder(S, before)) = Cardinality(S)
      /\ \A c \in S : \E i \in 1..Cardinality(S) : InOrder(S, before)[i] = c
      /\ \A i, j \in 1..Cardinality(S) :
             i < j => InOrder(S, before)[i] \in before[InOrder(S, before)[j]]
  BY <1>1, InOrderLists
<1>3. Ascending(S) = InOrder(S, before)
  BY DEF Ascending
<1>4. ASSUME NEW i \in 1..Cardinality(S), NEW j \in 1..Cardinality(S), i < j
      PROVE  Ascending(S)[i] < Ascending(S)[j]
  <2>1. Ascending(S)[j] \in S /\ Ascending(S)[i] \in before[Ascending(S)[j]]
    <3>1. j \in 1..Len(Ascending(S))
      BY <1>2, <1>3
    <3>2. Ascending(S)[j] \in S
      BY <1>2, <1>3, <3>1, ElementOfSeq
    <3>3. InOrder(S, before)[i] \in before[InOrder(S, before)[j]]
      BY <1>2, <1>4
    <3> HIDE DEF before
    <3> QED BY <1>3, <3>2, <3>3
  <2> QED BY <2>1
<1> HIDE DEF before
<1> QED BY <1>2, <1>3, <1>4

\* As many things are shown as a sequence without repetition is long.
LEMMA ListedOnce ==
    ASSUME NEW n \in Nat, NEW f, DOMAIN f = 1..n,
           \A i, j \in 1..n : i < j => f[i] # f[j]
    PROVE  Cardinality({f[i] : i \in 1..n}) = n
<1> DEFINE T == {f[i] : i \in 1..n}
           g == [i \in 1..n |-> f[i]]
<1>1. g \in [1..n -> T]
  OBVIOUS
<1>2. \A i, j \in 1..n : g[i] = g[j] => i = j
  <2> SUFFICES ASSUME NEW i \in 1..n, NEW j \in 1..n, g[i] = g[j] PROVE i = j
    OBVIOUS
  <2>1. i < j \/ j < i \/ i = j
    OBVIOUS
  <2> QED BY <2>1
<1>3. \A t \in T : \E i \in 1..n : g[i] = t
  OBVIOUS
<1>4. g \in Bijection(1..n, T)
  BY <1>1, <1>2, <1>3 DEF Bijection, Injection, Surjection, IsInjective
<1>5. ExistsBijection(1..n, T)
  BY <1>4 DEF ExistsBijection
<1> QED BY <1>5, FS_CountingElements

-----------------------------------------------------------------------------
(* Sequences joined.                                                       *)

\* What is joined of the first i sequences.
Joins(seqs, k, f) ==
    f = [i \in 1..k |-> IF i = 1 THEN seqs[i] ELSE f[i - 1] \o seqs[i]]

\* The function that FlattenSeq is defined with exists.
LEMMA JoinExists ==
    ASSUME NEW seqs, NEW k \in Nat
    PROVE  \E f : Joins(seqs, k, f)
<1> DEFINE S == {j \in Nat : \E f : Joins(seqs, j, f)}
<1>1. 0 \in S
  <2>1. Joins(seqs, 0, [i \in 1..0 |-> <<>>])
    <3>1. \A i : i \notin 1..0
      OBVIOUS
    <3> QED BY <3>1 DEF Joins
  <2> QED BY <2>1
<1>2. ASSUME NEW j \in Nat, j \in S PROVE j + 1 \in S
  <2> PICK f : Joins(seqs, j, f)
    BY <1>2
  <2> DEFINE e(i, h) == IF i = 1 THEN seqs[i] ELSE h[i - 1] \o seqs[i]
             g == [i \in 1..(j + 1) |-> IF i = j + 1 THEN e(i, f) ELSE f[i]]
  <2>0. /\ \A i \in 1..(j + 1) : i = j + 1 \/ i \in 1..j
        /\ \A i \in 1..(j + 1) : i # 1 => i - 1 \in 1..j /\ i - 1 \in 1..(j + 1) /\ i - 1 # j + 1
    BY <1>2
  <2>1. \A i \in 1..(j + 1) : g[i] = e(i, g)
    <3> SUFFICES ASSUME NEW i \in 1..(j + 1) PROVE g[i] = e(i, g)
      OBVIOUS
    <3>1. i # 1 => g[i - 1] = f[i - 1]
      BY <2>0
    <3>2. e(i, g) = e(i, f)
      BY <3>1
    <3>3. CASE i = j + 1
      BY <3>2, <3>3
    <3>4. CASE i \in 1..j /\ i # j + 1
      <4>1. f[i] = e(i, f)
        BY <3>4 DEF Joins
      <4> QED BY <3>2, <3>4, <4>1
    <3> QED BY <2>0, <3>3, <3>4
  <2>2. g = [i \in 1..(j + 1) |-> e(i, g)]
    BY <2>1
  <2>3. Joins(seqs, j + 1, g)
    BY <2>2 DEF Joins
  <2> QED BY <2>3
<1>3. Nat \subseteq S
  BY <1>1, <1>2, SetInduction
<1> QED BY <1>3

\* FlattenSeq as its equation: what is joined of the first sequence is that
\* sequence, and each further one is appended to what was joined before.
LEMMA FlattenDef ==
    ASSUME NEW seqs, NEW k \in Nat \ {0}, Len(seqs) = k
    PROVE  \E f : /\ f[1] = seqs[1]
                  /\ \A i \in 2..k : f[i] = f[i - 1] \o seqs[i]
                  /\ FlattenSeq(seqs) = f[k]
<1> DEFINE f == CHOOSE g : Joins(seqs, k, g)
<1>1. Joins(seqs, k, f)
  BY JoinExists
<1>2. FlattenSeq(seqs) = f[k]
  BY DEF FlattenSeq, Joins
<1> HIDE DEF f
<1>3. f[1] = seqs[1] /\ \A i \in 2..k : f[i] = f[i - 1] \o seqs[i]
  <2>1. \A i \in 1..k : f[i] = IF i = 1 THEN seqs[i] ELSE f[i - 1] \o seqs[i]
    BY <1>1 DEF Joins
  <2>2. 1 \in 1..k /\ \A i \in 2..k : i \in 1..k /\ i # 1
    OBVIOUS
  <2> QED BY <2>1, <2>2
<1> QED BY <1>2, <1>3

=============================================================================
