----------------------------- MODULE DataFacts ------------------------------
(***************************************************************************)
(* Facts about data that the proofs of several components use: the least    *)
(* number of a set, induction over numbers and over the subsets of a finite *)
(* set, a sequence without one of its elements, the list of the members of  *)
(* a set, and what FoldLeft of SequencesExt and FoldSet of FiniteSetsExt    *)
(* compute at each turn.                                                   *)
(***************************************************************************)
EXTENDS Naturals, Sequences, SequencesExt, SequenceTheorems, FiniteSetTheorems, WellFoundedInduction, TLAPS

\* A set of natural numbers that is not empty has a least one.
LEMMA Least ==
    ASSUME NEW S \in SUBSET Nat, S # {}
    PROVE  (CHOOSE i \in S : \A j \in S : i <= j) \in S /\ \A j \in S : (CHOOSE i \in S : \A k \in S : i <= k) <= j
  <1>0. S \subseteq Nat
    OBVIOUS
  <1>1. PICK f \in S : \A g \in S : ~(<<g, f>> \in OpToRel(<, Nat))
    BY <1>0, NatLessThanWellFounded, WFMin
  <1>2. \A g \in S : ~(g < f)
    BY <1>0, <1>1 DEF OpToRel
  <1>3. \A g \in S : f <= g
    BY <1>2
  <1> QED BY <1>3

\* Induction, over the members of a set.
LEMMA Induct ==
    ASSUME NEW S, 0 \in S, \A k \in Nat : k \in S => k + 1 \in S
    PROVE  \A n \in Nat : n \in S
  <1> SUFFICES ASSUME NEW n \in Nat, n \notin S
               PROVE  FALSE
    OBVIOUS
  <1> DEFINE bad == Nat \ S
  <1>1. PICK f \in bad : \A g \in bad : f <= g
    <2>1. bad \in SUBSET Nat /\ bad # {}
      OBVIOUS
    <2> HIDE DEF bad
    <2> QED BY <2>1, Least
  <1>2. f # 0 /\ f \in Nat /\ f - 1 \in Nat /\ f - 1 < f
    OBVIOUS
  <1>3. f - 1 \notin bad
    BY <1>1, <1>2
  <1>4. (f - 1) + 1 \in S
    BY <1>2, <1>3
  <1> QED BY <1>2, <1>4

\* Every set of the first k positions has a greatest one ...
Bounded(k) == \A u \in SUBSET (1 .. k) : u # {} => \E x \in u : \A y \in u : x >= y

\* ... which is what Max of FiniteSetsExt chooses.
LEMMA MaxIs ==
    ASSUME NEW n \in Nat, NEW t \in SUBSET (1 .. n), t # {}
    PROVE  Max(t) \in t /\ \A y \in t : Max(t) >= y
  <1> DEFINE S == {k \in Nat : Bounded(k)}
  <1>1. 0 \in S
    <2>1. 1 .. 0 = {}
      OBVIOUS
    <2> QED BY <2>1 DEF Bounded
  <1>2. ASSUME NEW k \in Nat, k \in S
        PROVE  k + 1 \in S
    <2> SUFFICES ASSUME NEW u \in SUBSET (1 .. k + 1), u # {}
                 PROVE  \E x \in u : \A y \in u : x >= y
      BY DEF Bounded
    <2>1. CASE k + 1 \in u
      BY <2>1
    <2>2. CASE k + 1 \notin u
      <3>1. u \in SUBSET (1 .. k)
        BY <2>2
      <3> QED BY <3>1, <1>2 DEF Bounded
    <2> QED BY <2>1, <2>2
  <1>3. n \in S
    <2> HIDE DEF S
    <2> QED BY <1>1, <1>2, Induct
  <1>4. \E x \in t : \A y \in t : x >= y
    BY <1>3 DEF Bounded
  <1> QED BY <1>4 DEF Max

\* A sequence with one of its elements taken out.
LEMMA RemoveAtIs ==
    ASSUME NEW S, NEW s \in Seq(S), NEW k \in 1 .. Len(s)
    PROVE  /\ RemoveAt(s, k) \in Seq(S) /\ Len(RemoveAt(s, k)) = Len(s) - 1
           /\ DOMAIN RemoveAt(s, k) = 1 .. Len(s) - 1
           /\ \A i \in 1 .. Len(s) - 1 : RemoveAt(s, k)[i] = IF i < k THEN s[i] ELSE s[i + 1]
  <1> DEFINE n == Len(s)
             t == RemoveAt(s, k)
             a == SubSeq(s, 1, k - 1)
             b == SubSeq(s, k + 1, n)
  <1>1. n \in Nat /\ k \in 1 .. n
    OBVIOUS
  <1>2. a \in Seq(S) /\ Len(a) = k - 1 /\ \A i \in 1 .. k - 1 : a[i] = s[i]
    BY <1>1
  <1>3. b \in Seq(S) /\ Len(b) = n - k /\ \A i \in 1 .. n - k : b[i] = s[k + i]
    BY <1>1
  <1>4. t = a \o b
    BY DEF RemoveAt
  <1> HIDE DEF a, b, t, n
  <1>7. t \in Seq(S) /\ Len(t) = Len(a) + Len(b)
        /\ \A i \in 1 .. Len(a) + Len(b) : t[i] = IF i <= Len(a) THEN a[i] ELSE b[i - Len(a)]
    BY <1>2, <1>3, <1>4, ConcatProperties
  <1>8. Len(a) + Len(b) = n - 1
    BY <1>1, <1>2, <1>3
  <1>9. DOMAIN t = 1 .. n - 1
    BY <1>7, <1>8
  <1>5. t \in Seq(S) /\ Len(t) = n - 1 /\ DOMAIN t = 1 .. n - 1
        /\ \A i \in 1 .. n - 1 : t[i] = IF i <= k - 1 THEN a[i] ELSE b[i - (k - 1)]
    BY <1>2, <1>7, <1>8, <1>9
  <1>6. ASSUME NEW i \in 1 .. n - 1
        PROVE  t[i] = IF i < k THEN s[i] ELSE s[i + 1]
    <2>1. CASE i < k
      <3>1. i \in 1 .. k - 1 /\ i <= k - 1
        BY <1>1, <2>1
      <3> QED BY <1>2, <1>5, <2>1, <3>1
    <2>2. CASE ~(i < k)
      <3>1. i - (k - 1) \in 1 .. n - k /\ k + (i - (k - 1)) = i + 1 /\ ~(i <= k - 1)
        BY <1>1, <2>2
      <3>2. t[i] = b[i - (k - 1)]
        BY <1>5, <3>1
      <3>3. b[i - (k - 1)] = s[k + (i - (k - 1))]
        BY <1>3, <3>1
      <3> QED BY <2>2, <3>1, <3>2, <3>3
    <2> QED BY <2>1, <2>2
  <1> QED BY <1>5, <1>6 DEF t, n

-----------------------------------------------------------------------------
(* What MapThenFoldSet computes along the way: one value for each set of positions *)

FoldOf(g, n, b, F) ==
    \A t \in SUBSET (1 .. n) : g[t] = IF t = {} THEN b ELSE F[Max(t), g[t \ {Max(t)}]]

\* Such values exist, if the turns F stay in V.
FoldFor(n, V, b, F) == \E g \in [SUBSET (1 .. n) -> V] : FoldOf(g, n, b, F)

LEMMA FoldExists ==
    ASSUME NEW n \in Nat, NEW V, NEW b \in V, NEW F \in [(1 .. n) \X V -> V]
    PROVE  FoldFor(n, V, b, F)
  <1> DEFINE S == {k \in Nat : k <= n => FoldFor(k, V, b, F)}
  <1>1. 0 \in S
    <2>1. [t \in SUBSET (1 .. 0) |-> b] \in [SUBSET (1 .. 0) -> V]
      OBVIOUS
    <2>2. \A t \in SUBSET (1 .. 0) : t = {}
      OBVIOUS
    <2>3. FoldOf([t \in SUBSET (1 .. 0) |-> b], 0, b, F)
      BY <2>2 DEF FoldOf
    <2> QED BY <2>1, <2>3 DEF FoldFor
  <1>2. ASSUME NEW k \in Nat, k \in S
        PROVE  k + 1 \in S
    <2> SUFFICES ASSUME k + 1 <= n
                 PROVE  FoldFor(k + 1, V, b, F)
      OBVIOUS
    <2>0. FoldFor(k, V, b, F)
      BY <1>2
    <2> HIDE DEF S
    <2>1. PICK g \in [SUBSET (1 .. k) -> V] : FoldOf(g, k, b, F)
      BY <2>0 DEF FoldFor
    <2> DEFINE h == [t \in SUBSET (1 .. k + 1) |->
                       IF k + 1 \in t THEN F[k + 1, g[t \ {k + 1}]] ELSE g[t]]
    <2>2. \A t \in SUBSET (1 .. k + 1) : t \ {k + 1} \in SUBSET (1 .. k) /\ (k + 1 \notin t => t \in SUBSET (1 .. k))
      OBVIOUS
    <2>3. \A t \in SUBSET (1 .. k) : g[t] \in V
      BY <2>1
    <2>4. k + 1 \in 1 .. n
      OBVIOUS
    <2>5. \A v \in V : F[k + 1, v] \in V
      BY <2>4
    <2>6. h \in [SUBSET (1 .. k + 1) -> V]
      BY <2>2, <2>3, <2>5
    <2>7. ASSUME NEW t \in SUBSET (1 .. k + 1)
          PROVE  h[t] = IF t = {} THEN b ELSE F[Max(t), h[t \ {Max(t)}]]
      <3>1. CASE k + 1 \in t
        <4>1. Max(t) = k + 1
          <5>1. Max(t) \in t /\ \A y \in t : Max(t) >= y
            <6>1. k + 1 \in Nat /\ t # {}
              BY <3>1
            <6> QED BY <6>1, MaxIs
          <5>2. Max(t) \in 1 .. k + 1 /\ Max(t) >= k + 1
            BY <5>1, <3>1
          <5> QED BY <5>2
        <4>2. h[t \ {k + 1}] = g[t \ {k + 1}] /\ h[t] = F[k + 1, g[t \ {k + 1}]]
          BY <3>1, <2>2
        <4>3. h[t] = F[k + 1, h[t \ {k + 1}]]
          BY <4>2
        <4> QED BY <4>1, <4>3, <3>1
      <3>2. CASE k + 1 \notin t
        <4>1. t \in SUBSET (1 .. k)
          BY <3>2, <2>2
        <4>2. g[t] = IF t = {} THEN b ELSE F[Max(t), g[t \ {Max(t)}]]
          BY <4>1, <2>1 DEF FoldOf
        <4>3. h[t] = g[t] /\ h[t \ {Max(t)}] = g[t \ {Max(t)}]
          BY <3>2, <4>1
        <4> QED BY <4>2, <4>3
      <3> QED BY <3>1, <3>2
    <2>8. FoldOf(h, k + 1, b, F)
      BY <2>7 DEF FoldOf
    <2> QED BY <2>6, <2>8 DEF FoldFor
  <1>3. n \in S
    <2> HIDE DEF S
    <2> QED BY <1>1, <1>2, Induct
  <1> QED BY <1>3

\* A value that starts in V and that no turn takes out of V ends in V.
LEMMA FoldStays ==
    ASSUME NEW n \in Nat, NEW V, NEW g,
           g[{}] \in V,
           \A k \in 1 .. n : g[1 .. k - 1] \in V => g[1 .. k] \in V
    PROVE  g[1 .. n] \in V
  <1> DEFINE S == {k \in Nat : k <= n => g[1 .. k] \in V}
  <1>1. 0 \in S
    <2>1. 1 .. 0 = {}
      OBVIOUS
    <2> QED BY <2>1
  <1>2. ASSUME NEW k \in Nat, k \in S
        PROVE  k + 1 \in S
    <2>1. (k + 1) - 1 = k
      OBVIOUS
    <2>2. k + 1 <= n => k + 1 \in 1 .. n
      OBVIOUS
    <2> QED BY <1>2, <2>1, <2>2
  <1>3. n \in S
    <2> HIDE DEF S
    <2> QED BY <1>1, <1>2, Induct
  <1> QED BY <1>3

\* The last of the first k positions.
LEMMA MaxOfRange ==
    ASSUME NEW n \in Nat, NEW k \in 1 .. n
    PROVE  /\ 1 .. k \in SUBSET (1 .. n) /\ 1 .. k # {} /\ Max(1 .. k) = k /\ (1 .. k) \ {Max(1 .. k)} = 1 .. k - 1
  <1>1. 1 .. k \in SUBSET (1 .. n) /\ 1 .. k # {}
    OBVIOUS
  <1>2. Max(1 .. k) \in 1 .. k /\ \A y \in 1 .. k : Max(1 .. k) >= y
    BY <1>1, MaxIs
  <1>3. Max(1 .. k) = k
    BY <1>2
  <1> QED BY <1>1, <1>3

\* Induction over the subsets of a finite set, one element at a time.
LEMMA SetInduct ==
    ASSUME NEW S, IsFiniteSet(S), NEW K, {} \in K,
           \A u \in SUBSET S : u # {} => \E x \in u : u \ {x} \in K => u \in K
    PROVE  S \in K
  <1> DEFINE N == {n \in Nat : \A u \in SUBSET S : Cardinality(u) = n => u \in K}
  <1>1. \A u \in SUBSET S : IsFiniteSet(u) /\ Cardinality(u) \in Nat
    BY FS_Subset, FS_CardinalityType
  <1>2. 0 \in N
    BY <1>1, FS_EmptySet
  <1>3. ASSUME NEW n \in Nat, n \in N
        PROVE  n + 1 \in N
    <2> SUFFICES ASSUME NEW u \in SUBSET S, Cardinality(u) = n + 1
                 PROVE  u \in K
      OBVIOUS
    <2>0. IsFiniteSet(u)
      BY <1>1
    <2>1. u # {}
      <3>1. n + 1 # 0
        OBVIOUS
      <3>2. Cardinality({}) = 0
        BY FS_EmptySet
      <3> QED BY <3>1, <3>2
    <2>2. PICK x \in u : u \ {x} \in K => u \in K
      BY <2>1
    <2>3. Cardinality(u \ {x}) = n
      <3>1. Cardinality(u \ {x}) = Cardinality(u) - 1
        BY <2>0, <2>2, FS_RemoveElement
      <3> QED BY <3>1
    <2> QED BY <1>3, <2>2, <2>3
  <1>4. Cardinality(S) \in N
    <2> HIDE DEF N
    <2> QED BY <1>1, <1>2, <1>3, Induct
  <1> QED BY <1>4

\* FoldSet takes one element after the other: a value for each set of elements.
WalkOf(g, S, b, F) ==
    \A t \in SUBSET S : g[t] = IF t = {} THEN b ELSE F[CHOOSE x \in t : TRUE, g[t \ {CHOOSE x \in t : TRUE}]]

LEMMA WalkExists ==
    ASSUME NEW S, IsFiniteSet(S), NEW V, NEW b \in V, NEW F \in [S \X V -> V]
    PROVE  \E g \in [SUBSET S -> V] : WalkOf(g, S, b, F)
  <1> DEFINE Next(g) == [t \in SUBSET S |->
                 IF t = {} THEN b ELSE F[CHOOSE x \in t : TRUE, g[t \ {CHOOSE x \in t : TRUE}]]]
             Upto(g, n) == \A t \in SUBSET S : Cardinality(t) <= n => g[t] = Next(g)[t]
             N == {n \in Nat : \E g \in [SUBSET S -> V] : Upto(g, n)}
  <1>1. \A u \in SUBSET S : IsFiniteSet(u) /\ Cardinality(u) \in Nat
    BY FS_Subset, FS_CardinalityType
  <1>2. \A t \in SUBSET S : t # {} => (CHOOSE x \in t : TRUE) \in t
    OBVIOUS
  <1>3. ASSUME NEW g \in [SUBSET S -> V] PROVE Next(g) \in [SUBSET S -> V]
    <2> SUFFICES ASSUME NEW t \in SUBSET S, t # {}
                 PROVE  F[CHOOSE x \in t : TRUE, g[t \ {CHOOSE x \in t : TRUE}]] \in V
      OBVIOUS
    <2> DEFINE x == CHOOSE y \in t : TRUE
    <2>1. x \in S
      BY <1>2
    <2>2. g[t \ {x}] \in V
      OBVIOUS
    <2> HIDE DEF x
    <2>3. F[x, g[t \ {x}]] \in V
      BY <2>1, <2>2
    <2> QED BY <2>3 DEF x
  <1>4. 0 \in N
    <2> DEFINE g == [t \in SUBSET S |-> b]
    <2>1. g \in [SUBSET S -> V]
      OBVIOUS
    <2>2. \A t \in SUBSET S : Cardinality(t) <= 0 => t = {}
      BY <1>1, FS_EmptySet
    <2>3. Upto(g, 0)
      BY <2>2
    <2> HIDE DEF g, Upto
    <2> QED BY <2>1, <2>3
  <1>5. ASSUME NEW n \in Nat, n \in N
        PROVE  n + 1 \in N
    <2>1. PICK g \in [SUBSET S -> V] : Upto(g, n)
      BY <1>5
    <2> DEFINE h == Next(g)
    <2>2. h \in [SUBSET S -> V]
      BY <1>3
    <2>3. ASSUME NEW t \in SUBSET S, Cardinality(t) <= n + 1
          PROVE  h[t] = Next(h)[t]
      <3>1. CASE t = {}
        BY <3>1
      <3>2. CASE t # {}
        <4> DEFINE x == CHOOSE y \in t : TRUE
        <4>1. x \in t
          BY <3>2
        <4>2. t \ {x} \in SUBSET S /\ Cardinality(t \ {x}) = Cardinality(t) - 1
          BY <1>1, <4>1, FS_RemoveElement
        <4>3. Cardinality(t \ {x}) <= n
          BY <1>1, <2>3, <4>2
        <4>4. g[t \ {x}] = h[t \ {x}]
          BY <2>1, <4>2, <4>3
        <4>5. h[t] = F[x, g[t \ {x}]] /\ Next(h)[t] = F[x, h[t \ {x}]]
          <5> HIDE DEF h
          <5>1. \A k : Next(k)[t] = F[x, k[t \ {x}]]
            BY <3>2
          <5> QED BY <5>1 DEF h
        <4> QED BY <4>4, <4>5
      <3> QED BY <3>1, <3>2
    <2>4. Upto(h, n + 1)
      <3> HIDE DEF h, Next
      <3> QED BY <2>3
    <2> HIDE DEF h, Upto
    <2> QED BY <2>2, <2>4
  <1>6. Cardinality(S) \in N
    <2>1. Cardinality(S) \in Nat
      BY <1>1
    <2> HIDE DEF N
    <2> QED BY <2>1, <1>4, <1>5, Induct
  <1>7. PICK g \in [SUBSET S -> V] : Upto(g, Cardinality(S))
    BY <1>6
  <1>8. \A t \in SUBSET S : Cardinality(t) <= Cardinality(S)
    BY FS_Subset
  <1>9. WalkOf(g, S, b, F)
    BY <1>7, <1>8 DEF WalkOf
  <1> QED BY <1>9

\* The values of the turns, one after the other.
LEMMA FoldTurns ==
    ASSUME NEW n \in Nat, NEW V, NEW g,
           g[{}] \in V,
           \A k \in 1 .. n : g[1 .. k - 1] \in V => g[1 .. k] \in V
    PROVE  [k \in 0 .. n |-> g[1 .. k]] \in [0 .. n -> V]
  <1> DEFINE S == {k \in Nat : k <= n => g[1 .. k] \in V}
  <1>1. 0 \in S
    <2>1. 1 .. 0 = {}
      OBVIOUS
    <2> QED BY <2>1
  <1>2. ASSUME NEW k \in Nat, k \in S
        PROVE  k + 1 \in S
    <2>1. (k + 1) - 1 = k
      OBVIOUS
    <2>2. k + 1 <= n => k + 1 \in 1 .. n
      OBVIOUS
    <2> QED BY <1>2, <2>1, <2>2
  <1>3. \A k \in Nat : k \in S
    <2> HIDE DEF S
    <2> QED BY <1>1, <1>2, Induct
  <1>4. \A k \in 0 .. n : g[1 .. k] \in V
    BY <1>3
  <1> QED BY <1>4

\* What holds at first and is kept by every turn holds at last.
LEMMA TurnsKeep ==
    ASSUME NEW n \in Nat, NEW S, 0 \in S, \A k \in 1 .. n : k - 1 \in S => k \in S
    PROVE  \A k \in 0 .. n : k \in S
  <1> DEFINE T == {k \in Nat : k <= n => k \in S}
  <1>1. 0 \in T
    OBVIOUS
  <1>2. ASSUME NEW k \in Nat, k \in T
        PROVE  k + 1 \in T
    <2>1. (k + 1) - 1 = k
      OBVIOUS
    <2>2. k + 1 <= n => k + 1 \in 1 .. n
      OBVIOUS
    <2> QED BY <1>2, <2>1, <2>2
  <1>3. \A k \in Nat : k \in T
    <2> HIDE DEF T
    <2> QED BY <1>1, <1>2, Induct
  <1> QED BY <1>3

\* SetToSeq lists the members of a finite set, each once.
LEMMA SetListed ==
    ASSUME NEW S, IsFiniteSet(S)
    PROVE  /\ SetToSeq(S) \in Seq(S)
           /\ \A x \in S : \E i \in 1 .. Len(SetToSeq(S)) : SetToSeq(S)[i] = x
           /\ \A i, j \in 1 .. Len(SetToSeq(S)) : SetToSeq(S)[i] = SetToSeq(S)[j] => i = j
  <1>1. PICK f : f \in Bijection(1 .. Cardinality(S), S)
    BY FS_CardinalityType DEF ExistsBijection
  <1>2. Cardinality(S) \in Nat
    BY FS_CardinalityType
  <1>3. f \in [1 .. Cardinality(S) -> S] /\ IsInjective(f)
    BY <1>1 DEF Bijection, Injection, IsInjective
  <1>4. SetToSeq(S) \in [1 .. Cardinality(S) -> S] /\ IsInjective(SetToSeq(S))
    BY <1>3 DEF SetToSeq
  <1>5. SetToSeq(S) \in Injection(1 .. Cardinality(S), S)
    BY <1>4 DEF Injection, IsInjective
  <1>6. Cardinality(1 .. Cardinality(S)) = Cardinality(S)
    BY <1>2, FS_Interval
  <1>7. SetToSeq(S) \in Surjection(1 .. Cardinality(S), S)
    BY <1>5, <1>6, FS_Injection
  <1>8. SetToSeq(S) \in Seq(S) /\ Len(SetToSeq(S)) = Cardinality(S)
    BY <1>2, <1>4
  <1> QED BY <1>4, <1>7, <1>8 DEF Surjection, IsInjective
=============================================================================
