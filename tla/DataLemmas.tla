----------------------------- MODULE DataLemmas ------------------------------
(***************************************************************************)
(* What the proofs need of numbers, finite sets and sequences: the least   *)
(* number of a set and induction as a fact about sets of numbers (both     *)
(* from the well-foundedness of < on Nat), and how often something occurs  *)
(* in a queue.                                                             *)
(***************************************************************************)
EXTENDS Integers, Sequences, FiniteSetTheorems, FiniteSetsExt, TLAPS

\* A set of natural numbers has a least element.
LEMMA LeastOf ==
    ASSUME NEW S \in SUBSET Nat, S # {}
    PROVE  \E m \in S : \A n \in S : m <= n
  <1> DEFINE R == {p \in Nat \X Nat : p[1] < p[2]}
  <1>1. IsWellFoundedOn(R, Nat)
    BY NatLessThanWellFounded DEF OpToRel
  <1>2. PICK m \in S : \A n \in S : <<n, m>> \notin R
    BY <1>1, WFMin
  <1>3. \A n \in S : ~(n < m)
    BY <1>2
  <1> QED
    BY <1>3

\* Min, of FiniteSetsExt, is that element.
LEMMA MinOf ==
    ASSUME NEW S \in SUBSET Nat, S # {}
    PROVE  Min(S) \in S /\ \A n \in S : Min(S) <= n
  BY LeastOf DEF Min

\* Induction: a set that has 0, and n + 1 with every n, has every number.
LEMMA InductiveSet ==
    ASSUME NEW S, 0 \in S, \A n \in Nat : n \in S => n + 1 \in S
    PROVE  Nat \subseteq S
  <1> SUFFICES ASSUME Nat \ S # {} PROVE FALSE
    OBVIOUS
  <1>1. PICK m \in Nat \ S : \A n \in Nat \ S : m <= n
    BY LeastOf
  <1>2. m # 0 /\ m - 1 \in Nat /\ m - 1 \notin Nat \ S
    BY <1>1
  <1> QED
    BY <1>1, <1>2

\* A bounded set has a greatest number, Max of FiniteSetsExt.
LEMMA MaxOf ==
    ASSUME NEW S \in SUBSET Nat, S # {}, NEW bound \in Nat, \A n \in S : n <= bound
    PROVE  Max(S) \in S /\ \A n \in S : n <= Max(S)
  <1> DEFINE below == {bound - n : n \in S}
  <1>1. below \in SUBSET Nat /\ below # {}
    <2>1. \A n \in S : n \in Nat /\ n <= bound
      OBVIOUS
    <2>2. \A n \in S : bound - n \in Nat
      BY <2>1
    <2> QED
      BY <2>2
  <1>2. PICK m \in below : \A n \in below : m <= n
    BY <1>1, LeastOf
  <1>3. PICK g \in S : m = bound - g
    BY <1>2
  <1>4. \A n \in S : n <= g
    <2> SUFFICES ASSUME NEW n \in S PROVE n <= g
      OBVIOUS
    <2>1. bound - n \in below
      OBVIOUS
    <2>2. m <= bound - n /\ m \in Int /\ n \in Nat /\ g \in Nat
      BY <1>1, <1>2, <2>1
    <2> QED
      BY <1>3, <2>2
  <1> QED
    BY <1>3, <1>4 DEF Max

\* The larger of two.
LEMMA MaxPair ==
    ASSUME NEW m \in Int, NEW n \in Int
    PROVE  Max({m, n}) = IF m <= n THEN n ELSE m
  <1>1. \E x \in {m, n} : \A y \in {m, n} : x >= y
    OBVIOUS
  <1>2. Max({m, n}) \in {m, n} /\ \A y \in {m, n} : Max({m, n}) >= y
    BY <1>1 DEF Max
  <1> QED
    BY <1>2

\* Finitely many numbers have a bound.
LEMMA Bounded ==
    ASSUME NEW n \in Nat, NEW f \in [1..n -> Nat]
    PROVE  \E b \in Nat : \A i \in 1..n : f[i] <= b
  <1> DEFINE S == {m \in Nat : \A g \in [1..m -> Nat] : \E b \in Nat : \A i \in 1..m : g[i] <= b}
  <1>1. 0 \in S
    OBVIOUS
  <1>2. ASSUME NEW m \in Nat, m \in S PROVE m + 1 \in S
    <2> SUFFICES ASSUME NEW g \in [1..(m + 1) -> Nat]
                 PROVE  \E b \in Nat : \A i \in 1..(m + 1) : g[i] <= b
      <3>1. m + 1 \in Nat
        OBVIOUS
      <3> QED
        BY <3>1, Zenon
    <2>1. [i \in 1..m |-> g[i]] \in [1..m -> Nat]
      OBVIOUS
    <2>2. PICK b \in Nat : \A i \in 1..m : [j \in 1..m |-> g[j]][i] <= b
      BY <1>2, <2>1
    <2>3. g[m + 1] \in Nat
      OBVIOUS
    <2>4. PICK c \in Nat : b <= c /\ g[m + 1] <= c
      BY <2>3
    <2>5. ASSUME NEW i \in 1..(m + 1) PROVE g[i] <= c
      <3>1. i \in 1..m \/ i = m + 1
        OBVIOUS
      <3> QED
        BY <2>2, <2>4, <3>1
    <2> QED
      BY <2>5
  <1> HIDE DEF S
  <1>3. Nat \subseteq S
    BY <1>1, <1>2, InductiveSet
  <1>4. n \in S
    BY <1>3
  <1> QED
    BY <1>4 DEF S

\* Two sets that differ in one member at most.
LEMMA OneMember ==
    ASSUME NEW S, NEW T, IsFiniteSet(S), NEW x, S \ {x} = T \ {x}
    PROVE  /\ IsFiniteSet(T) /\ Cardinality(S) \in Nat /\ Cardinality(T) \in Nat
           /\ Cardinality(T) = Cardinality(S) + (IF x \in T THEN 1 ELSE 0)
                                              - (IF x \in S THEN 1 ELSE 0)
  <1>1. /\ IsFiniteSet(S \ {x}) /\ Cardinality(S \ {x}) \in Nat
        /\ Cardinality(S) \in Nat
        /\ Cardinality(S \ {x}) = IF x \in S THEN Cardinality(S) - 1 ELSE Cardinality(S)
    BY FS_RemoveElement, FS_CardinalityType
  <1>2. /\ IsFiniteSet((S \ {x}) \union {x})
        /\ Cardinality((S \ {x}) \union {x}) = Cardinality(S \ {x}) + 1
    BY <1>1, FS_AddElement
  <1>3. T = IF x \in T THEN (S \ {x}) \union {x} ELSE S \ {x}
    OBVIOUS
  <1> QED
    <2>1. CASE x \in T
      <3>1. T = (S \ {x}) \union {x}
        BY <1>3, <2>1
      <3>2. IsFiniteSet(T) /\ Cardinality(T) = Cardinality(S \ {x}) + 1
        BY <1>2, <3>1
      <3> QED
        BY <1>1, <2>1, <3>2
    <2>2. CASE x \notin T
      <3>1. T = S \ {x}
        BY <1>3, <2>2
      <3>2. IsFiniteSet(T) /\ Cardinality(T) = Cardinality(S \ {x})
        BY <1>1, <3>1
      <3> QED
        BY <1>1, <2>2, <3>2
    <2> QED
      BY <2>1, <2>2

-----------------------------------------------------------------------------
Occurrences(q, k) == {i \in DOMAIN q : q[i] = k}

\* A sequence has an element finitely often.
LEMMA OccurrencesFinite ==
    ASSUME NEW S, NEW q \in Seq(S), NEW k
    PROVE  IsFiniteSet(Occurrences(q, k)) /\ Cardinality(Occurrences(q, k)) \in Nat
  <1>1. DOMAIN q = 1..Len(q) /\ Len(q) \in Nat
    OBVIOUS
  <1>2. IsFiniteSet(DOMAIN q)
    BY <1>1, FS_Interval
  <1>3. Occurrences(q, k) \subseteq DOMAIN q
    BY DEF Occurrences
  <1>4. IsFiniteSet(Occurrences(q, k))
    BY <1>2, <1>3, FS_Subset
  <1> QED
    BY <1>4, FS_CardinalityType

\* Appending adds one occurrence of what is appended.
LEMMA OccurrencesAppend ==
    ASSUME NEW S, NEW q \in Seq(S), NEW e \in S, NEW k
    PROVE  Cardinality(Occurrences(Append(q, e), k))
             = Cardinality(Occurrences(q, k)) + (IF e = k THEN 1 ELSE 0)
  <1> DEFINE n == Len(q) + 1
  <1>1. Occurrences(Append(q, e), k)
          = IF e = k THEN Occurrences(q, k) \union {n} ELSE Occurrences(q, k)
    BY DEF Occurrences
  <1>2. n \notin Occurrences(q, k)
    BY DEF Occurrences
  <1>3. IsFiniteSet(Occurrences(q, k)) /\ Cardinality(Occurrences(q, k)) \in Nat
    BY OccurrencesFinite
  <1> HIDE DEF n
  <1>4. CASE e = k
    BY <1>1, <1>2, <1>3, <1>4, FS_AddElement
  <1>5. CASE e # k
    BY <1>1, <1>3, <1>5
  <1> QED
    BY <1>4, <1>5

\* Taking the head off removes one occurrence of it.
LEMMA OccurrencesTail ==
    ASSUME NEW S, NEW q \in Seq(S), q # <<>>, NEW k
    PROVE  Cardinality(Occurrences(q, k))
             = Cardinality(Occurrences(Tail(q), k)) + (IF Head(q) = k THEN 1 ELSE 0)
  <1> DEFINE Old == Occurrences(q, k)
             New == Occurrences(Tail(q), k)
             shift == [i \in New |-> i + 1]
  <1>1. Tail(q) \in Seq(S) /\ Len(q) \in Nat /\ Len(q) > 0
    OBVIOUS
  <1>2. IsFiniteSet(New) /\ Cardinality(New) \in Nat /\ IsFiniteSet(Old)
    BY <1>1, OccurrencesFinite
  <1>3. \A i \in New : i \in Nat /\ i >= 1
    BY DEF Occurrences
  <1>4. \A i \in New : i + 1 \in Old \ {1}
    BY <1>1 DEF Occurrences
  <1>5. \A j \in Old \ {1} : j - 1 \in New /\ j = (j - 1) + 1
    BY <1>1 DEF Occurrences
  <1>6. Head(q) = k <=> 1 \in Old
    BY <1>1 DEF Occurrences
  <1> HIDE DEF Old, New
  <1>7. shift \in Bijection(New, Old \ {1})
    <2>1. shift \in [New -> Old \ {1}]
      BY <1>4
    <2>2. \A i, j \in New : shift[i] = shift[j] => i = j
      BY <1>3
    <2>3. \A j \in Old \ {1} : shift[j - 1] = j /\ j - 1 \in New
      BY <1>5
    <2> QED
      BY <2>1, <2>2, <2>3 DEF Bijection, Injection, Surjection, IsInjective
  <1>8. Cardinality(Old \ {1}) = Cardinality(New)
    BY <1>2, <1>7, FS_Bijection DEF ExistsBijection
  <1> QED
    BY <1>2, <1>6, <1>8, FS_RemoveElement, FS_CardinalityType DEF Old, New
=============================================================================
