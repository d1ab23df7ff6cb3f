------------------------- MODULE UstringTableProofs -------------------------
(***************************************************************************)
(* Proofs about UstringTable, for any strings, hashes, threads and bins.   *)
(*                                                                         *)
(* First that quadratic probing visits every position of a bin whose       *)
(* capacity is a power of 2, and so finds an empty one, then that a bin    *)
(* finds what it holds, whatever is inserted and however often it grows,   *)
(* then the protocol of the table and the reverse map.                     *)
(***************************************************************************)
EXTENDS UstringTable, DataLemmas, FiniteSetTheorems, TLAPS

-----------------------------------------------------------------------------
(* Division.                                                                *)

\* Quotient and remainder.
LEMMA DivMod ==
    ASSUME NEW c \in Nat \ {0}, NEW x \in Nat
    PROVE  x % c \in 0..c - 1 /\ x \div c \in Nat /\ x = c * (x \div c) + (x % c)
  OBVIOUS

\* A factor is at most a positive product.
LEMMA ProductGrows ==
    ASSUME NEW c \in Nat, NEW d \in Nat \ {0}
    PROVE  c <= c * d /\ c * d \in Nat
  OBVIOUS

\* They are the only ones.
LEMMA Quotient ==
    ASSUME NEW c \in Nat \ {0}, NEW q \in Nat, NEW r \in 0..c - 1, NEW x \in Nat, x = c * q + r
    PROVE  x \div c = q /\ x % c = r
  <1> DEFINE p == x \div c
             s == x % c
  <1>1. p \in Nat /\ s \in 0..c - 1 /\ c * q + r = c * p + s
    BY DivMod
  <1> HIDE DEF p, s
  <1>2. ~(p < q)
    <2> SUFFICES ASSUME p < q PROVE FALSE
      OBVIOUS
    <2>1. q - p \in Nat \ {0} /\ c * (q - p) = c * q - c * p
      BY <1>1
    <2>2. c <= c * q - c * p
      BY ONLY <2>1, ProductGrows, c \in Nat \ {0}
    <2> QED
      BY <1>1, <2>2
  <1>3. ~(q < p)
    <2> SUFFICES ASSUME q < p PROVE FALSE
      OBVIOUS
    <2>1. p - q \in Nat \ {0} /\ c * (p - q) = c * p - c * q
      BY <1>1
    <2>2. c <= c * p - c * q
      BY ONLY <2>1, ProductGrows, c \in Nat \ {0}
    <2> QED
      BY <1>1, <2>2
  <1>4. p = q
    BY <1>1, <1>2, <1>3
  <1> QED
    BY <1>1, <1>4 DEF p, s

\* What a number divides, it divides with a quotient.
LEMMA Divides ==
    ASSUME NEW c \in Nat \ {0}, NEW x \in Nat
    PROVE  x % c = 0 <=> \E q \in Nat : x = c * q
  <1>1. ASSUME x % c = 0 PROVE \E q \in Nat : x = c * q
    <2>1. x \div c \in Nat /\ x = c * (x \div c)
      BY <1>1, DivMod
    <2> QED
      BY <2>1
  <1>2. ASSUME NEW q \in Nat, x = c * q PROVE x % c = 0
    <2>1. 0 \in 0..c - 1 /\ x = c * q + 0
      BY <1>2
    <2> QED
      BY <2>1, Quotient
  <1> QED
    BY <1>1, <1>2

\* A number is even or odd.
LEMMA Parity ==
    ASSUME NEW x \in Nat
    PROVE  \E m \in Nat : \/ x = 2 * m /\ x % 2 = 0
                          \/ x = 2 * m + 1 /\ x % 2 = 1
  <1>1. x \div 2 \in Nat /\ x % 2 \in 0..1 /\ x = 2 * (x \div 2) + (x % 2)
    BY DivMod
  <1>2. x % 2 = 0 \/ x % 2 = 1
    BY <1>1
  <1> QED
    BY <1>1, <1>2
-----------------------------------------------------------------------------
(* Powers of 2.                                                             *)

\* Twice a power of 2 is one.
LEMMA PowerDoubles ==
    ASSUME NEW c \in Nat \ {0}, PowerOfTwo(c)
    PROVE  PowerOfTwo(2 * c) /\ 2 * c \in Nat \ {0}
  <1> SUFFICES ASSUME NEW d \in 1..2 * c, (2 * c) % d = 0, d % 2 # 0
               PROVE  d = 1
    BY DEF PowerOfTwo
  <1>1. PICK m \in Nat : d = 2 * m + 1
    BY Parity
  <1>2. PICK q \in Nat : 2 * c = d * q
    <2>1. 2 * c \in Nat /\ d \in Nat \ {0} /\ (2 * c) % d = 0
      OBVIOUS
    <2> QED
      BY ONLY <2>1, Divides
  <1>3. PICK k \in Nat : q = 2 * k \/ q = 2 * k + 1
    BY Parity
  <1>4. CASE q = 2 * k
    <2>1. c = d * k /\ d \in Nat \ {0}
      BY <1>2, <1>4
    <2>2. c % d = 0
      BY <2>1, Divides
    <2>3. d <= c
      <3>1. k # 0
        BY <2>1
      <3> QED
        BY <2>1, <3>1, ProductGrows
    <2> QED
      BY <2>1, <2>2, <2>3 DEF PowerOfTwo
  <1>5. CASE q = 2 * k + 1
    <2>1. d * q = 2 * (m * q + k) + 1 /\ m * q + k \in Nat
      BY <1>1, <1>5
    <2> QED
      BY <1>2, <2>1
  <1> QED
    BY <1>3, <1>4, <1>5

\* A power of 2 that is more than 1 is twice one.
LEMMA PowerHalves ==
    ASSUME NEW c \in Nat \ {0, 1}, PowerOfTwo(c)
    PROVE  \E h \in Nat \ {0} : c = 2 * h /\ PowerOfTwo(h) /\ h < c
  <1>1. c % c = 0
    <2>1. c = c * 1
      OBVIOUS
    <2> QED
      BY <2>1, Divides
  <1>2. c % 2 = 0
    BY <1>1 DEF PowerOfTwo
  <1>3. PICK h \in Nat : c = 2 * h
    BY <1>2, Divides
  <1>4. ASSUME NEW d \in 1..h, h % d = 0 PROVE d = 1 \/ d % 2 = 0
    <2>1. PICK k \in Nat : h = d * k
      BY <1>4, Divides
    <2>2. c = d * (2 * k) /\ 2 * k \in Nat /\ d \in Nat \ {0} /\ d \in 1..c
      BY <1>3, <2>1
    <2> QED
      BY <2>2, Divides DEF PowerOfTwo
  <1>5. PowerOfTwo(h)
    BY <1>4 DEF PowerOfTwo
  <1> QED
    BY <1>3, <1>5

\* An odd factor may be left out of what a power of 2 divides.
LEMMA OddFactor ==
    ASSUME NEW x \in Nat, x % 2 = 1
    PROVE  \A c \in Nat \ {0} : \A y, q \in Nat :
               PowerOfTwo(c) /\ x * y = c * q => \E p \in Nat : y = c * p
  <1> DEFINE Bad == {c \in Nat \ {0} : \E y, q \in Nat :
                        PowerOfTwo(c) /\ x * y = c * q /\ ~\E p \in Nat : y = c * p}
  <1> SUFFICES ASSUME Bad # {} PROVE FALSE
    OBVIOUS
  <1>1. PICK c \in Bad : \A d \in Bad : c <= d
    BY LeastOf
  <1>2. PICK y \in Nat, q \in Nat : PowerOfTwo(c) /\ x * y = c * q /\ ~\E p \in Nat : y = c * p
    OBVIOUS
  <1>3. c \in Nat \ {0, 1}
    <2>1. y = 1 * y
      OBVIOUS
    <2> QED
      BY <1>2, <2>1
  <1>4. PICK h \in Nat \ {0} : c = 2 * h /\ PowerOfTwo(h) /\ h < c
    BY <1>2, <1>3, PowerHalves
  <1>5. PICK m \in Nat : x = 2 * m + 1
    BY Parity
  <1>6. PICK z \in Nat : y = 2 * z \/ y = 2 * z + 1
    BY Parity
  <1>7. y = 2 * z
    <2> SUFFICES ASSUME y = 2 * z + 1 PROVE FALSE
      BY <1>6
    <2>1. x * y = 2 * (m * y + z) + 1 /\ m * y + z \in Nat
      BY <1>5
    <2>2. c * q = 2 * (h * q) /\ h * q \in Nat
      BY <1>4
    <2>3. ASSUME NEW u \in Nat, NEW v \in Nat, 2 * u + 1 = 2 * v PROVE FALSE
      BY <2>3
    <2>4. 2 * (m * y + z) + 1 = 2 * (h * q)
      BY ONLY <1>2, <2>1, <2>2
    <2> QED
      BY ONLY <2>1, <2>2, <2>3, <2>4
  <1>8. x * z = h * q
    <2>1. x * y = 2 * (x * z) /\ x * z \in Nat /\ c * q = 2 * (h * q) /\ h * q \in Nat
      BY <1>4, <1>7
    <2> QED
      BY <1>2, <2>1
  <1>9. PICK p \in Nat : z = h * p
    <2>1. h \notin Bad
      <3>1. c \in Nat /\ h \in Nat /\ ~(c <= h)
        BY <1>4
      <3> HIDE DEF Bad
      <3> QED
        BY ONLY <1>1, <3>1
    <2> QED
      BY <1>4, <1>8, <2>1
  <1>10. y = c * p
    BY <1>4, <1>7, <1>9
  <1> QED
    BY <1>2, <1>10
-----------------------------------------------------------------------------
(* Quadratic probing.                                                       *)

\* The k-th triangular number, which Probed adds after k collisions.
Triangle(k) == (k * (k + 1)) \div 2

\* It is half of the product.
LEMMA TriangleHalf ==
    ASSUME NEW k \in Nat
    PROVE  Triangle(k) \in Nat /\ 2 * Triangle(k) = k * (k + 1)
  <1>1. PICK m \in Nat : k = 2 * m \/ k = 2 * m + 1
    BY Parity
  <1>2. \E q \in Nat : k * (k + 1) = 2 * q
    <2>1. CASE k = 2 * m
      <3>1. m * (k + 1) \in Nat /\ k * (k + 1) = 2 * (m * (k + 1))
        BY <2>1
      <3> QED
        BY <3>1
    <2>2. CASE k = 2 * m + 1
      <3>1. k * (m + 1) \in Nat /\ k * (k + 1) = 2 * (k * (m + 1))
        BY <2>2
      <3> QED
        BY <3>1
    <2> QED
      BY <1>1, <2>1, <2>2
  <1>3. PICK q \in Nat : k * (k + 1) = 2 * q
    BY <1>2
  <1>4. k * (k + 1) \in Nat /\ 0 \in 0..2 - 1 /\ 2 \in Nat \ {0} /\ k * (k + 1) = 2 * q + 0
    BY <1>3
  <1>5. Triangle(k) = q
    BY ONLY <1>4, Quotient, q \in Nat DEF Triangle
  <1> QED
    BY <1>3, <1>5

\* A position is not probed twice in as many probes as there are positions.
LEMMA ProbesDiffer ==
    ASSUME NEW c \in Nat \ {0}, PowerOfTwo(c), NEW h \in Nat,
           NEW j \in 0..c - 1, NEW k \in 0..c - 1, j < k
    PROVE  (h + Triangle(j)) % c # (h + Triangle(k)) % c
  <1> SUFFICES ASSUME (h + Triangle(j)) % c = (h + Triangle(k)) % c
               PROVE  FALSE
    OBVIOUS
  <1> DEFINE Tj == Triangle(j)
             Tk == Triangle(k)
             a == (h + Tj) \div c
             b == (h + Tk) \div c
             r == (h + Tk) % c
             u == k - j
             v == k + j + 1
  <1>1. Tj \in Nat /\ Tk \in Nat /\ 2 * Tj = j * (j + 1) /\ 2 * Tk = k * (k + 1)
    BY TriangleHalf
  <1>2. /\ a \in Nat /\ b \in Nat /\ r \in 0..c - 1
        /\ h + Tj = c * a + r /\ h + Tk = c * b + r
    <2> HIDE DEF Tj, Tk
    <2>1. h + Tj \in Nat /\ h + Tk \in Nat
      BY <1>1
    <2> QED
      BY <2>1, DivMod DEF Tj, Tk
  <1>3. u \in 1..c - 1 /\ v \in 1..2 * c - 1 /\ u * v = k * (k + 1) - j * (j + 1)
    OBVIOUS
  <1> HIDE DEF Tj, Tk, a, b, r
  <1>4. u * v = (2 * c) * (b - a)
    <2>1. c * b - c * a = Tk - Tj
      BY <1>1, <1>2
    <2>2. c * b - c * a = c * (b - a) /\ (2 * c) * (b - a) = 2 * (c * (b - a))
      BY <1>2
    <2> QED
      BY <1>1, <1>3, <2>1, <2>2
  <1> HIDE DEF u, v
  <1>5. b - a \in Nat
    <2> SUFFICES ASSUME b - a < 0 PROVE FALSE
      BY <1>2
    <2>1. a - b \in Nat \ {0} /\ (2 * c) * (a - b) = -((2 * c) * (b - a))
      BY <1>2
    <2>2. u * v \in Nat
      BY <1>3
    <2>3. 2 * c <= (2 * c) * (a - b)
      BY ONLY <2>1, ProductGrows, c \in Nat \ {0}, 2 * c \in Nat
    <2> QED
      BY <1>4, <2>1, <2>2, <2>3
  <1>6. PowerOfTwo(2 * c) /\ 2 * c \in Nat \ {0}
    BY PowerDoubles
  <1>7. ASSUME NEW x \in 1..2 * c - 1, NEW p \in Nat, x = (2 * c) * p PROVE FALSE
    <2>1. p # 0
      BY <1>7
    <2> QED
      BY <1>6, <1>7, <2>1, ProductGrows
  <1>8. u % 2 = 1 \/ v % 2 = 1
    <2>1. u \in Nat /\ v \in Nat
      BY <1>3
    <2>2. PICK m \in Nat : u = 2 * m \/ u % 2 = 1
      BY <2>1, Parity
    <2>3. PICK n \in Nat : v = 2 * n \/ v % 2 = 1
      BY <2>1, Parity
    <2>4. ~(u = 2 * m /\ v = 2 * n)
      BY DEF u, v
    <2> QED
      BY <2>2, <2>3, <2>4
  <1>9. u \in Nat /\ v \in Nat /\ u \in 1..2 * c - 1 /\ v * u = (2 * c) * (b - a)
    <2>1. u \in Nat /\ v \in Nat /\ u \in 1..2 * c - 1 /\ v * u = u * v
      BY <1>3
    <2> QED
      BY <1>4, <2>1
  <1>10. ASSUME NEW x \in Nat, NEW y \in Nat, x % 2 = 1, x * y = (2 * c) * (b - a)
         PROVE  \E p \in Nat : y = (2 * c) * p
    <2> DEFINE d == 2 * c
               q == b - a
    <2>1. d \in Nat \ {0} /\ PowerOfTwo(d) /\ q \in Nat /\ x * y = d * q
      BY <1>5, <1>6, <1>10
    <2> HIDE DEF d, q
    <2>2. \E p \in Nat : y = d * p
      <3>1. \A n \in Nat \ {0} : \A z, m \in Nat :
               PowerOfTwo(n) /\ x * z = n * m => \E p \in Nat : z = n * p
        BY ONLY x \in Nat, x % 2 = 1, OddFactor
      <3> QED
        BY ONLY <2>1, <3>1, y \in Nat
    <2> QED
      BY <2>2 DEF d
  <1>11. CASE u % 2 = 1
    <2>1. PICK p \in Nat : v = (2 * c) * p
      BY <1>9, <1>11, <1>10, <1>4
    <2> QED
      BY <1>3, <1>7, <2>1
  <1>12. CASE v % 2 = 1
    <2>1. PICK p \in Nat : u = (2 * c) * p
      BY <1>9, <1>12, <1>10
    <2> QED
      BY <1>7, <1>9, <2>1
  <1> QED
    BY <1>8, <1>11, <1>12

\* Every position is probed.
LEMMA AllProbed ==
    ASSUME NEW c \in Nat \ {0}, PowerOfTwo(c), NEW h \in Nat, NEW i \in 0..c - 1
    PROVE  \E k \in 0..c - 1 : (h + Triangle(k)) % c = i
  <1> DEFINE S == 0..c - 1
             f == [k \in S |-> (h + Triangle(k)) % c]
  <1>1. f \in [S -> S]
    <2> SUFFICES ASSUME NEW k \in S PROVE (h + Triangle(k)) % c \in S
      BY Zenon
    <2>1. k \in Nat /\ Triangle(k) \in Nat
      BY TriangleHalf
    <2>2. h + Triangle(k) \in Nat
      BY <2>1
    <2> QED
      BY <2>2, DivMod
  <1>2. ASSUME NEW j \in S, NEW k \in S, j # k PROVE f[j] # f[k]
    <2>1. CASE j < k
      BY <2>1, ProbesDiffer
    <2>2. CASE k < j
      BY <2>2, ProbesDiffer
    <2> QED
      BY <1>2, <2>1, <2>2
  <1>3. IsFiniteSet(S)
    BY FS_Interval
  <1>4. f \in Surjection(S, S)
    <2> HIDE DEF S, f
    <2>1. f \in Injection(S, S)
      BY <1>1, <1>2 DEF Injection, IsInjective
    <2> QED
      BY <1>3, <2>1, FS_Injection
  <1>5. \E k \in S : f[k] = i
    BY <1>4, Zenon DEF Surjection
  <1> QED
    BY <1>5
-----------------------------------------------------------------------------
(* One bin.                                                                 *)

\* A bin of c positions.
Sized(e, c) == c \in Nat \ {0} /\ PowerOfTwo(c) /\ e \in [0..c - 1 -> Reps \union {None}]

\* The number of collisions until one of R, or an empty position, is found.
StopAt(e, h, R) == Min({k \in 0..Capacity(e) - 1 : e[Probed(e, h, k)] \in R \union {None}})

\* Whoever looks for an entry meets no empty position before it.
Findable(e) ==
    \A i \in Used(e) : \E k \in 0..Capacity(e) - 1 :
        /\ Probed(e, e[i].hashed, k) = i
        /\ \A j \in 0..k - 1 : e[Probed(e, e[i].hashed, j)] # None
\* No two entries have one hash.
Unmixed(e) == \A i, j \in Used(e) : e[i].hashed = e[j].hashed => i = j

\* The capacity is what it says.
LEMMA Size ==
    ASSUME NEW e, NEW c, Sized(e, c)
    PROVE  /\ Capacity(e) = c /\ DOMAIN e = 0..c - 1 /\ IsFiniteSet(0..c - 1)
           /\ Used(e) \subseteq 0..c - 1 /\ \A i \in Used(e) : e[i] \in Reps
           /\ IsFiniteSet(Used(e)) /\ Cardinality(Used(e)) \in Nat /\ Cardinality(Used(e)) <= c
           /\ Cardinality(Used(e)) = c => Used(e) = 0..c - 1
  <1>1. c \in Nat \ {0} /\ e \in [0..c - 1 -> Reps \union {None}] /\ DOMAIN e = 0..c - 1
    BY DEF Sized
  <1>2. IsFiniteSet(0..c - 1) /\ Cardinality(0..c - 1) = c
    BY <1>1, FS_Interval
  <1>3. Used(e) \in SUBSET (0..c - 1) /\ \A i \in Used(e) : e[i] \in Reps
    BY <1>1 DEF Used
  <1>4. IsFiniteSet(Used(e)) /\ Cardinality(Used(e)) \in Nat /\ Cardinality(Used(e)) <= c
    BY <1>2, <1>3, FS_Subset, FS_CardinalityType
  <1>5. Cardinality(Used(e)) = c => Used(e) = 0..c - 1
    BY <1>2, <1>3, FS_Subset
  <1> QED
    BY <1>1, <1>2, <1>3, <1>4, <1>5 DEF Capacity

\* What is probed is a position of the bin.
LEMMA ProbedIn ==
    ASSUME NEW e, NEW c, Sized(e, c), NEW h \in Nat, NEW k \in Nat
    PROVE  /\ Probed(e, h, k) = (h + Triangle(k)) % c
           /\ Probed(e, h, k) \in 0..c - 1 /\ e[Probed(e, h, k)] \in Reps \union {None}
  <1>1. Capacity(e) = c /\ c \in Nat \ {0} /\ e \in [0..c - 1 -> Reps \union {None}]
    BY Size DEF Sized
  <1>2. Probed(e, h, k) = (h + Triangle(k)) % c
    BY <1>1 DEF Probed, Triangle
  <1>3. h + Triangle(k) \in Nat
    BY TriangleHalf
  <1>4. Probed(e, h, k) \in 0..c - 1
    BY <1>1, <1>2, <1>3, DivMod
  <1> QED
    BY <1>1, <1>2, <1>4

\* A bin that is not full has an empty position, so that every search ends.
LEMMA Stopped ==
    ASSUME NEW e, NEW c, Sized(e, c), Cardinality(Used(e)) < c, NEW h \in Nat, NEW R
    PROVE  /\ StopAt(e, h, R) \in 0..c - 1
           /\ e[Probed(e, h, StopAt(e, h, R))] \in R \union {None}
           /\ \A j \in 0..StopAt(e, h, R) - 1 : e[Probed(e, h, j)] \notin R \union {None}
  <1> DEFINE S == {k \in 0..c - 1 : e[Probed(e, h, k)] \in R \union {None}}
  <1>1. /\ Capacity(e) = c /\ c \in Nat \ {0} /\ PowerOfTwo(c) /\ DOMAIN e = 0..c - 1
        /\ Used(e) # 0..c - 1 /\ Used(e) \subseteq 0..c - 1
    <2>1. Cardinality(Used(e)) # c /\ c \in Nat \ {0} /\ PowerOfTwo(c)
      BY Size DEF Sized
    <2>2. IsFiniteSet(0..c - 1) /\ Cardinality(0..c - 1) = c
      BY <2>1, FS_Interval
    <2> QED
      BY <2>1, <2>2, Size
  <1>2. PICK i \in 0..c - 1 : e[i] = None
    BY <1>1 DEF Used
  <1>3. PICK k \in 0..c - 1 : (h + Triangle(k)) % c = i
    BY <1>1, AllProbed
  <1>4. k \in S
    <2>1. k \in Nat
      OBVIOUS
    <2>2. Probed(e, h, k) = i
      BY <1>3, <2>1, ProbedIn
    <2> QED
      BY <1>2, <2>2
  <1>5. StopAt(e, h, R) = Min(S)
    BY <1>1 DEF StopAt
  <1>6. S \in SUBSET Nat
    OBVIOUS
  <1> HIDE DEF S
  <1>7. Min(S) \in S /\ \A n \in S : Min(S) <= n
    BY <1>4, <1>6, MinOf
  <1>8. ASSUME NEW j \in 0..Min(S) - 1 PROVE e[Probed(e, h, j)] \notin R \union {None}
    <2>1. Min(S) \in 0..c - 1
      BY <1>7 DEF S
    <2>2. j \in 0..c - 1 /\ ~(Min(S) <= j)
      BY <2>1, <1>1
    <2>3. j \notin S
      BY <1>7, <2>2
    <2> QED
      BY <2>2, <2>3 DEF S
  <1> QED
    BY <1>5, <1>7, <1>8 DEF S

\* An entry is found by whatever tells it from entries with other hashes.
LEMMA Found ==
    ASSUME NEW e, NEW c, Sized(e, c), Cardinality(Used(e)) < c, Findable(e), Unmixed(e),
           NEW i \in Used(e), NEW R, e[i] \in R,
           \A j \in Used(e) : e[j] \in R => e[j].hashed = e[i].hashed
    PROVE  e[Probed(e, e[i].hashed, StopAt(e, e[i].hashed, R))] = e[i]
  <1> DEFINE h == e[i].hashed
             s == StopAt(e, h, R)
  <1>1. /\ Capacity(e) = c /\ DOMAIN e = 0..c - 1 /\ e[i] \in Reps /\ h \in Nat /\ c \in Nat
        /\ i \in 0..c - 1
    <2>1. Capacity(e) = c /\ DOMAIN e = 0..c - 1 /\ e[i] \in Reps /\ i \in 0..c - 1
      BY Size
    <2>2. h \in Hashes
      BY <2>1 DEF Reps
    <2> QED
      BY <2>1, <2>2, UstringAssumption DEF Hashes, Sized
  <1>2. PICK k \in 0..c - 1 : Probed(e, h, k) = i /\ \A j \in 0..k - 1 : e[Probed(e, h, j)] # None
    BY <1>1 DEF Findable
  <1>3. /\ s \in 0..c - 1 /\ e[Probed(e, h, s)] \in R \union {None}
        /\ \A j \in 0..s - 1 : e[Probed(e, h, j)] \notin R \union {None}
    BY <1>1, Stopped
  <1> HIDE DEF s, h
  <1>4. s <= k
    <2>1. k \notin 0..s - 1
      BY <1>2, <1>3
    <2> QED
      BY <1>2, <1>3, <2>1
  <1>5. e[Probed(e, h, s)] # None
    <2>1. CASE s = k
      BY <2>1, <1>2 DEF Used
    <2>2. CASE s # k
      <3>1. s \in 0..k - 1
        BY <1>2, <1>3, <1>4, <2>2
      <3> QED
        BY <1>2, <3>1
    <2> QED
      BY <2>1, <2>2
  <1>6. Probed(e, h, s) \in DOMAIN e
    <2>1. s \in Nat
      BY <1>3
    <2> QED
      BY <1>1, <2>1, ProbedIn
  <1>7. Probed(e, h, s) \in Used(e) /\ e[Probed(e, h, s)] \in R
    BY <1>3, <1>5, <1>6 DEF Used
  <1>8. Probed(e, h, s) = i
    BY <1>7 DEF Unmixed
  <1> QED
    BY <1>8 DEF s, h
-----------------------------------------------------------------------------
(* Insertion and growth of a bin.                                           *)

Held(e) == {e[i] : i \in Used(e)}

\* A bin of c positions that finds its entries.
Sound(e, c) == Sized(e, c) /\ Findable(e) /\ Unmixed(e)

\* It has r besides, and no other.
Added(e, c, r, new) ==
    /\ Sound(new, c) /\ Held(new) = Held(e) \union {r} /\ new # e
    /\ Cardinality(Used(new)) = Cardinality(Used(e)) + 1

\* A representation with a hash of its own, put into the first empty position
\* that is probed.
LEMMA Inserted ==
    ASSUME NEW e, NEW c, Sound(e, c), Cardinality(Used(e)) < c, NEW r \in Reps,
           \A i \in Used(e) : e[i].hashed # r.hashed, NEW R, \A i \in Used(e) : e[i] \notin R
    PROVE  Added(e, c, r, Set(e, Probed(e, r.hashed, StopAt(e, r.hashed, R)), r))
  <1> DEFINE new == Set(e, Probed(e, r.hashed, StopAt(e, r.hashed, R)), r)
             h == r.hashed
             s == StopAt(e, h, R)
             p == Probed(e, h, s)
  <1>1. /\ c \in Nat \ {0} /\ PowerOfTwo(c) /\ e \in [0..c - 1 -> Reps \union {None}]
        /\ DOMAIN e = 0..c - 1 /\ Capacity(e) = c /\ IsFiniteSet(Used(e))
        /\ Cardinality(Used(e)) \in Nat
    BY Size DEF Sound, Sized
  <1>2. h \in Nat
    <2>1. h \in Hashes
      BY DEF Reps
    <2> QED
      BY <2>1, UstringAssumption DEF Hashes
  <1>3. /\ s \in 0..c - 1 /\ e[p] \in R \union {None}
        /\ \A j \in 0..s - 1 : e[Probed(e, h, j)] \notin R \union {None}
    BY <1>2, Stopped DEF Sound
  <1> HIDE DEF h, s
  <1>4. \A k \in Nat : Probed(e, h, k) \in 0..c - 1
    BY <1>2, ProbedIn DEF Sound
  <1>5. p \in 0..c - 1
    <2>1. s \in Nat
      BY <1>3
    <2> QED
      BY <1>4, <2>1
  <1>6. new = Set(e, p, r)
    BY DEF h, s
  <1> HIDE DEF p, new
  <1>7. e[p] = None /\ p \notin Used(e)
    <2>1. p \in Used(e) => e[p] \in R
      BY <1>3 DEF Used
    <2>2. p \notin Used(e)
      BY <2>1
    <2> QED
      BY <1>1, <1>5, <2>2 DEF Used
  <1>8. r # None
    BY UstringAssumption DEF Reps
  <1>9. /\ new \in [0..c - 1 -> Reps \union {None}] /\ DOMAIN new = 0..c - 1
        /\ \A q \in 0..c - 1 : new[q] = IF q = p THEN r ELSE e[q]
    BY <1>1, <1>5, <1>6 DEF Set
  <1>10. Sized(new, c) /\ Capacity(new) = c
    BY <1>1, <1>9 DEF Sized, Capacity
  <1>11. Used(new) = Used(e) \union {p}
    BY <1>1, <1>5, <1>8, <1>9 DEF Used
  <1>12. Cardinality(Used(new)) = Cardinality(Used(e)) + 1
    BY <1>1, <1>7, <1>11, FS_AddElement
  <1>13. \A i \in Used(e) : i \in 0..c - 1 /\ i # p /\ new[i] = e[i]
    BY <1>1, <1>7, <1>9 DEF Used
  <1>14. new[p] = r
    BY <1>5, <1>9
  <1>15. Held(new) = Held(e) \union {r}
    BY <1>11, <1>13, <1>14 DEF Held
  <1>16. new # e
    BY <1>7, <1>8, <1>14
  <1>17. Unmixed(new)
    <2> SUFFICES ASSUME NEW i \in Used(new), NEW j \in Used(new), new[i].hashed = new[j].hashed
                 PROVE  i = j
      BY DEF Unmixed
    <2>1. CASE i \in Used(e) /\ j \in Used(e)
      BY <1>13, <2>1 DEF Sound, Unmixed
    <2>2. CASE i = p /\ j \in Used(e)
      BY <1>13, <1>14, <2>2
    <2>3. CASE i \in Used(e) /\ j = p
      BY <1>13, <1>14, <2>3
    <2> QED
      BY <1>11, <2>1, <2>2, <2>3
  <1>18. \A g \in Nat, k \in Nat : /\ Probed(new, g, k) = Probed(e, g, k)
                                  /\ Probed(e, g, k) \in 0..c - 1
    <2> SUFFICES ASSUME NEW g \in Nat, NEW k \in Nat
                 PROVE  Probed(new, g, k) = Probed(e, g, k) /\ Probed(e, g, k) \in 0..c - 1
      OBVIOUS
    <2>1. Probed(new, g, k) = (g + Triangle(k)) % c
      BY <1>10, ProbedIn
    <2>2. Probed(e, g, k) = (g + Triangle(k)) % c /\ Probed(e, g, k) \in 0..c - 1
      BY ProbedIn DEF Sound
    <2> QED
      BY <2>1, <2>2
  <1>19. \A g \in Nat, k \in Nat : e[Probed(e, g, k)] # None => new[Probed(new, g, k)] # None
    BY <1>8, <1>9, <1>18
  <1>20. Findable(new)
    <2> SUFFICES ASSUME NEW i \in Used(new)
                 PROVE  \E k \in 0..Capacity(new) - 1 :
                            /\ Probed(new, new[i].hashed, k) = i
                            /\ \A j \in 0..k - 1 : new[Probed(new, new[i].hashed, j)] # None
      BY DEF Findable
    <2>1. CASE i = p
      <3>1. new[i].hashed = h
        BY <1>14, <2>1 DEF h
      <3>2. s \in Nat /\ s \in 0..Capacity(new) - 1
        BY <1>3, <1>10
      <3>3. Probed(new, h, s) = i
        BY <1>2, <1>18, <2>1, <3>2 DEF p
      <3>4. ASSUME NEW j \in 0..s - 1 PROVE new[Probed(new, h, j)] # None
        <4>1. j \in Nat /\ e[Probed(e, h, j)] # None
          BY <1>3
        <4> QED
          BY <1>2, <1>19, <4>1
      <3> QED
        BY <3>1, <3>2, <3>3, <3>4
    <2>2. CASE i \in Used(e)
      <3> DEFINE g == e[i].hashed
      <3>1. new[i].hashed = g
        BY <1>13, <2>2
      <3>2. g \in Nat
        <4>1. e[i] \in Reps
          BY <2>2, Size DEF Sound
        <4>2. g \in Hashes
          BY <4>1 DEF Reps
        <4> QED
          BY <4>2, UstringAssumption DEF Hashes
      <3>3. PICK k \in 0..c - 1 : Probed(e, g, k) = i /\ \A j \in 0..k - 1 : e[Probed(e, g, j)] # None
        BY <1>1, <2>2 DEF Sound, Findable
      <3> HIDE DEF g
      <3>4. Probed(new, g, k) = i
        <4>1. k \in Nat
          OBVIOUS
        <4> QED
          BY <1>18, <3>2, <3>3, <4>1
      <3>5. ASSUME NEW j \in 0..k - 1 PROVE new[Probed(new, g, j)] # None
        <4>1. j \in Nat /\ e[Probed(e, g, j)] # None
          BY <3>3
        <4> QED
          BY <1>19, <3>2, <4>1
      <3> QED
        BY <1>10, <3>1, <3>4, <3>5
    <2> QED
      BY <1>11, <2>1, <2>2
  <1> QED
    BY <1>10, <1>12, <1>15, <1>16, <1>17, <1>20 DEF Sound, Added, new
-----------------------------------------------------------------------------
\* One step of grow(): the entry at position n - 1 moves.
Placed(new, r) == Set(new, Probed(new, r.hashed, StopAt(new, r.hashed, {})), r)
Move(e, n, old) ==
    IF n = 0 THEN [i \in 0..2 * Capacity(e) - 1 |-> None]
    ELSE IF e[n - 1] = None THEN old
    ELSE CHOOSE new \in {Placed(o, e[n - 1]) : o \in {old}} : TRUE
Moves(f, e, m) == f = [n \in 0..m |-> Move(e, n, f[n - 1])]

\* grow() is what is left after all moves.
LEMMA GrowMoves ==
    ASSUME NEW e, Capacity(e) \in Nat
    PROVE  \E f : Moves(f, e, Capacity(e)) /\ Grow(e) = f[Capacity(e)]
  <1> DEFINE M == {m \in Nat : \E f : Moves(f, e, m)}
  <1>1. 0 \in M
    <2>1. Moves([n \in 0..0 |-> Move(e, 0, None)], e, 0)
      BY DEF Moves, Move
    <2> QED
      BY <2>1
  <1>2. ASSUME NEW m \in Nat, m \in M PROVE m + 1 \in M
    <2>1. PICK f : Moves(f, e, m)
      BY <1>2
    <2> DEFINE g == [n \in 0..m + 1 |-> IF n = m + 1 THEN Move(e, n, f[m]) ELSE f[n]]
               G == [n \in 0..m + 1 |-> Move(e, n, g[n - 1])]
    <2>2. ASSUME NEW n \in 0..m + 1 PROVE g[n] = Move(e, n, g[n - 1])
      <3>1. CASE n = m + 1
        <4>1. n - 1 = m /\ m \in 0..m + 1 /\ m # m + 1
          BY <3>1
        <4>2. g[n - 1] = f[m] /\ g[n] = Move(e, n, f[m])
          BY <3>1, <4>1, Zenon
        <4> QED
          BY <4>2
      <3>2. CASE n = 0
        <4>1. n \in 0..m /\ n # m + 1
          BY <3>2
        <4>2. f[n] = Move(e, n, f[n - 1])
          BY <2>1, <4>1, Zenon DEF Moves
        <4>3. g[n] = f[n]
          BY <4>1
        <4> QED
          BY <3>2, <4>2, <4>3, Zenon DEF Move
      <3>3. CASE n # 0 /\ n # m + 1
        <4>1. n \in 0..m /\ n - 1 \in 0..m + 1 /\ n - 1 # m + 1
          BY <3>3
        <4>2. f[n] = Move(e, n, f[n - 1])
          BY <2>1, <4>1, Zenon DEF Moves
        <4>3. g[n] = f[n] /\ g[n - 1] = f[n - 1]
          BY <3>3, <4>1, Zenon
        <4> QED
          BY <4>2, <4>3
      <3> QED
        BY <3>1, <3>2, <3>3
    <2>3. g = G
      <3>1. \A n \in 0..m + 1 : g[n] = G[n]
        BY <2>2, Zenon
      <3> QED
        BY <3>1, Zenon
    <2>4. Moves(g, e, m + 1)
      BY <2>3, Zenon DEF Moves
    <2> QED
      BY <2>4
  <1>3. \E f : Moves(f, e, Capacity(e))
    <2>1. Nat \subseteq M
      <3> HIDE DEF M
      <3> QED
        BY <1>1, <1>2, InductiveSet
    <2> QED
      BY <2>1
  <1> DEFINE F == CHOOSE f : Moves(f, e, Capacity(e))
  <1>4. Moves(F, e, Capacity(e))
    BY <1>3, Zenon
  <1>5. Grow(e) = F[Capacity(e)]
    BY DEF Grow, Moves, Move, Placed, FirstStop, StopAt
  <1> QED
    BY <1>4, <1>5
\* What a move does.
LEMMA MoveIs ==
    ASSUME NEW e, NEW n \in Nat \ {0}, NEW old
    PROVE  Move(e, n, old) = IF e[n - 1] = None THEN old ELSE Placed(old, e[n - 1])
  <1> DEFINE p == Placed(old, e[n - 1])
             S == {Placed(o, e[n - 1]) : o \in {old}}
  <1>1. S = {p}
    OBVIOUS
  <1>2. (CHOOSE new \in S : TRUE) = p
    <2> HIDE DEF p, S
    <2> QED
      BY <1>1
  <1> QED
    BY <1>2 DEF Move

\* Twice the capacity has room for all entries, and all are found in it.
LEMMA GrowSound ==
    ASSUME NEW e, NEW c, Sound(e, c)
    PROVE  /\ Sound(Grow(e), 2 * c) /\ Held(Grow(e)) = Held(e)
           /\ Cardinality(Used(Grow(e))) = Cardinality(Used(e))
  <1> DEFINE Before(n) == Used(e) \cap (0..n - 1)
             Part(n, new) ==
                /\ Sound(new, 2 * c) /\ Held(new) = {e[i] : i \in Before(n)}
                /\ Cardinality(Used(new)) = Cardinality(Before(n))
  <1>1. /\ c \in Nat \ {0} /\ PowerOfTwo(c) /\ e \in [0..c - 1 -> Reps \union {None}]
        /\ DOMAIN e = 0..c - 1 /\ Capacity(e) = c /\ IsFiniteSet(Used(e))
        /\ Used(e) \subseteq 0..c - 1 /\ \A i \in Used(e) : e[i] \in Reps
        /\ Cardinality(Used(e)) <= c
    BY Size DEF Sound, Sized
  <1>2. PICK f : Moves(f, e, c) /\ Grow(e) = f[c]
    <2>1. Capacity(e) \in Nat
      BY <1>1
    <2> QED
      BY <1>1, <2>1, GrowMoves
  <1>3. f[0] = [i \in 0..2 * c - 1 |-> None]
    <2>1. 0 \in 0..c
      BY <1>1
    <2>2. f[0] = Move(e, 0, f[0 - 1])
      BY <1>2, <2>1, Zenon DEF Moves
    <2> QED
      BY <1>1, <2>2 DEF Move
  <1>4. \A n \in 1..c : f[n] = IF e[n - 1] = None THEN f[n - 1] ELSE Placed(f[n - 1], e[n - 1])
    <2> SUFFICES ASSUME NEW n \in 1..c
                 PROVE  f[n] = IF e[n - 1] = None THEN f[n - 1] ELSE Placed(f[n - 1], e[n - 1])
      OBVIOUS
    <2>1. n \in 0..c /\ n \in Nat \ {0}
      OBVIOUS
    <2>2. f[n] = Move(e, n, f[n - 1])
      BY <1>2, <2>1, Zenon DEF Moves
    <2> QED
      BY <2>1, <2>2, MoveIs
  <1>5. PowerOfTwo(2 * c) /\ 2 * c \in Nat \ {0}
    BY <1>1, PowerDoubles
  <1>6. Part(0, f[0])
    <2>1. Sized(f[0], 2 * c)
      BY <1>3, <1>5 DEF Sized
    <2>2. Used(f[0]) = {} /\ Before(0) = {}
      BY <1>3 DEF Used
    <2>3. Held(f[0]) = {} /\ {e[i] : i \in Before(0)} = {}
      BY <2>2 DEF Held
    <2>4. Findable(f[0]) /\ Unmixed(f[0])
      BY <2>2 DEF Findable, Unmixed
    <2> QED
      BY <2>1, <2>2, <2>3, <2>4 DEF Sound
  <1>7. ASSUME NEW n \in Nat, n < c, Part(n, f[n]) PROVE Part(n + 1, f[n + 1])
    <2>1. n + 1 \in 1..c /\ (n + 1) - 1 = n /\ n \in 0..c - 1
      BY <1>1, <1>7
    <2>2. f[n + 1] = IF e[n] = None THEN f[n] ELSE Placed(f[n], e[n])
      BY <1>4, <2>1
    <2>3. Before(n + 1) = IF e[n] = None THEN Before(n) ELSE Before(n) \union {n}
      <3>1. 0..(n + 1) - 1 = (0..n - 1) \union {n}
        BY <2>1
      <3> QED
        BY <1>1, <2>1, <3>1 DEF Used
    <2>4. CASE e[n] = None
      BY <1>7, <2>2, <2>3, <2>4
    <2>5. CASE e[n] # None
      <3>1. n \in Used(e) /\ e[n] \in Reps /\ n \notin Before(n) /\ IsFiniteSet(Before(n))
        <4>1. n \in Used(e) /\ n \notin Before(n)
          BY <1>1, <2>1, <2>5 DEF Used
        <4> QED
          BY <1>1, <4>1, FS_Subset
      <3>2. Cardinality(Before(n + 1)) = Cardinality(Before(n)) + 1
        BY <2>3, <2>5, <3>1, FS_AddElement
      <3>3. /\ Cardinality(Before(n)) \in Nat /\ Cardinality(Before(n)) < 2 * c
        <4>1. Before(n) \in SUBSET Used(e)
          OBVIOUS
        <4>2. Cardinality(Before(n)) <= Cardinality(Used(e)) /\ Cardinality(Before(n)) \in Nat
              /\ Cardinality(Used(e)) \in Nat
          BY <1>1, <4>1, FS_Subset, FS_CardinalityType
        <4> QED
          BY <1>1, <4>2
      <3> DEFINE new == f[n]
                 next == f[n + 1]
      <3>4. next = Set(new, Probed(new, e[n].hashed, StopAt(new, e[n].hashed, {})), e[n])
        BY <2>2, <2>5 DEF Placed
      <3>5. \A i \in Used(new) : new[i].hashed # e[n].hashed
        <4> SUFFICES ASSUME NEW i \in Used(new), new[i].hashed = e[n].hashed
                     PROVE  FALSE
          OBVIOUS
        <4>1. new[i] \in Held(new)
          BY DEF Held
        <4>2. PICK j \in Before(n) : new[i] = e[j]
          BY <1>7, <4>1
        <4>3. j \in Used(e) /\ e[j].hashed = e[n].hashed
          BY <4>2
        <4>4. j = n
          BY <3>1, <4>3 DEF Sound, Unmixed
        <4> QED
          BY <3>1, <4>2, <4>4
      <3>6. /\ Sound(next, 2 * c) /\ Held(next) = Held(new) \union {e[n]}
            /\ Cardinality(Used(next)) = Cardinality(Used(new)) + 1
        <4>1. Sound(new, 2 * c) /\ Cardinality(Used(new)) < 2 * c
          BY <1>7, <3>3
        <4>2. \A i \in Used(new) : new[i] \notin {}
          OBVIOUS
        <4> HIDE DEF new, next
        <4>3. Added(new, 2 * c, e[n], next)
          BY <3>1, <3>4, <3>5, <4>1, <4>2, Inserted
        <4> QED
          BY <4>3 DEF Added
      <3>7. {e[i] : i \in Before(n + 1)} = {e[i] : i \in Before(n)} \union {e[n]}
        BY <2>3, <2>5
      <3> QED
        BY <1>7, <3>2, <3>6, <3>7
    <2> QED
      BY <2>4, <2>5
  <1>8. Part(c, f[c])
    <2> DEFINE S == {n \in Nat : n <= c => Part(n, f[n])}
    <2> HIDE DEF Part
    <2>1. 0 \in S
      BY <1>6
    <2>2. ASSUME NEW n \in Nat, n \in S PROVE n + 1 \in S
      <3>1. n + 1 <= c => n < c /\ n <= c
        BY <1>1
      <3> QED
        BY <1>7, <2>2, <3>1
    <2>3. Nat \subseteq S
      <3> HIDE DEF S
      <3> QED
        BY <2>1, <2>2, InductiveSet
    <2>4. c \in S /\ c <= c
      BY <1>1, <2>3
    <2> QED
      BY ONLY <2>4
  <1>9. Before(c) = Used(e)
    BY <1>1
  <1> QED
    BY <1>2, <1>8, <1>9 DEF Held

\* A bin as it is between two calls of insert().
Bin(e) == \E c \in BaseCapacity..BaseCapacity + 4 * Cardinality(Used(e)) :
              Sound(e, c) /\ Cardinality(Used(e)) < c

\* insert() with a new hash: the bin has one entry more, and finds all.
LEMMA InsertedInBin ==
    ASSUME NEW e, Bin(e), NEW r \in Reps, \A i \in Used(e) : e[i].hashed # r.hashed
    PROVE  LET new == WithRep(e, r)
           IN  new # e /\ Bin(Maintained(new)) /\ Held(Maintained(new)) = Held(e) \union {r}
  <1> DEFINE new == WithRep(e, r)
             n == Cardinality(Used(e))
  <1>1. n \in Nat
    BY Size DEF Bin, Sound
  <1>2. PICK c \in BaseCapacity..BaseCapacity + 4 * n : Sound(e, c) /\ n < c
    BY DEF Bin
  <1>3. BaseCapacity \in Nat \ {0} /\ c \in Nat \ {0} /\ c >= BaseCapacity /\ c <= BaseCapacity + 4 * n
    BY <1>1, <1>2, UstringAssumption
  <1>4. new = Set(e, Probed(e, r.hashed, StopAt(e, r.hashed, {r})), r)
    BY DEF WithRep, FirstStop, StopAt
  <1>5. \A i \in Used(e) : e[i] \notin {r}
    OBVIOUS
  <1>6. /\ Sound(new, c) /\ Held(new) = Held(e) \union {r} /\ new # e
        /\ Cardinality(Used(new)) = n + 1
    <2> HIDE DEF new
    <2>1. Added(e, c, r, new)
      BY <1>2, <1>4, <1>5, Inserted
    <2> QED
      BY <2>1 DEF Added
  <1> HIDE DEF new, n
  <1>7. Capacity(new) = c
    BY <1>6, Size DEF Sound
  <1>8. CASE 2 * (n + 1) > c - 1
    <2>1. Maintained(new) = Grow(new)
      BY <1>6, <1>7, <1>8 DEF Maintained
    <2>2. /\ Sound(Grow(new), 2 * c) /\ Held(Grow(new)) = Held(new)
          /\ Cardinality(Used(Grow(new))) = n + 1
      BY <1>6, GrowSound
    <2>3. /\ 2 * c \in BaseCapacity..BaseCapacity + 4 * (n + 1)
          /\ n + 1 < 2 * c
      BY <1>1, <1>2, <1>3, <1>8
    <2>4. Bin(Grow(new))
      BY <2>2, <2>3 DEF Bin
    <2> QED
      BY <1>6, <2>1, <2>2, <2>4 DEF new
  <1>9. CASE ~(2 * (n + 1) > c - 1)
    <2>1. Maintained(new) = new
      BY <1>6, <1>7, <1>9 DEF Maintained
    <2>2. c \in BaseCapacity..BaseCapacity + 4 * (n + 1) /\ n + 1 < c
      BY <1>1, <1>2, <1>3, <1>9
    <2>3. Bin(new)
      BY <1>6, <2>2 DEF Bin
    <2> QED
      BY <1>6, <2>1, <2>3 DEF new
  <1> QED
    BY <1>8, <1>9
-----------------------------------------------------------------------------
(* The hashes a string may be kept under.                                   *)

\* What the assumption says of the numbers.
LEMMA Sizes ==
    /\ NHashes \in Nat \ {0} /\ NTableBins \in Nat \ {0} /\ NMapBins \in Nat \ {0}
    /\ NoBin \in Nat \ {0} /\ NHashes = NMapBins * NoBin
    /\ NHashes \div NTableBins \in Nat \ {0}
    /\ NHashes = NTableBins * (NHashes \div NTableBins)
  <1>1. /\ NHashes \in Nat \ {0} /\ NTableBins \in Nat \ {0} /\ NMapBins \in Nat \ {0}
        /\ NHashes % NTableBins = 0 /\ NTableBins % NMapBins = 0
    BY UstringAssumption
  <1>2. PICK p \in Nat : NHashes = NTableBins * p
    BY <1>1, Divides
  <1>3. PICK q \in Nat : NTableBins = NMapBins * q
    BY <1>1, Divides
  <1>4. NHashes = NMapBins * (q * p) /\ q * p \in Nat
    BY <1>1, <1>2, <1>3
  <1>5. p # 0 /\ q * p # 0
    BY <1>1, <1>2, <1>4
  <1>6. NHashes \div NTableBins = p
    <2>1. 0 \in 0..NTableBins - 1 /\ NHashes = NTableBins * p + 0
      BY <1>1, <1>2
    <2> QED
      BY <1>1, <2>1, Quotient
  <1>7. NoBin = q * p
    <2>1. 0 \in 0..NMapBins - 1 /\ NHashes = NMapBins * (q * p) + 0
      BY <1>1, <1>4
    <2>2. NHashes \div NMapBins = q * p
      BY ONLY <1>1, <1>4, <2>1, Quotient
    <2> QED
      BY <2>2 DEF NoBin
  <1> QED
    BY <1>1, <1>2, <1>4, <1>5, <1>6, <1>7

\* A number below a product has its quotient below the other factor.
LEMMA QuotientBelow ==
    ASSUME NEW n \in Nat \ {0}, NEW c \in Nat \ {0}, NEW h \in 0..n * c - 1
    PROVE  h \div c \in 0..n - 1
  <1> DEFINE q == h \div c
  <1>1. q \in Nat /\ h % c \in 0..c - 1 /\ h = c * q + (h % c)
    BY DivMod
  <1> HIDE DEF q
  <1>2. ~(n <= q)
    <2> SUFFICES ASSUME n <= q PROVE FALSE
      OBVIOUS
    <2>1. q - n \in Nat /\ c * (q - n) \in Nat /\ c * q = n * c + c * (q - n)
      BY <1>1
    <2> QED
      BY <1>1, <2>1
  <1>3. q \in 0..n - 1
    BY <1>1, <1>2
  <1> QED
    BY <1>3 DEF q

\* Every hash has its bins, and the next hash is one of the same bin of the map.
LEMMA HashBins ==
    ASSUME NEW h \in Hashes
    PROVE  /\ h \in Nat /\ TableBin(h) \in TableBins /\ MapBin(h) \in MapBins
           /\ NextHash(h) \in Hashes /\ MapBin(NextHash(h)) = MapBin(h)
  <1>1. h \in Nat /\ h \in 0..NHashes - 1
    BY UstringAssumption DEF Hashes
  <1>2. TableBin(h) \in TableBins
    <2> DEFINE w == NHashes \div NTableBins
    <2>1. w \in Nat \ {0} /\ NTableBins \in Nat \ {0} /\ NHashes = NTableBins * w
      BY Sizes
    <2> HIDE DEF w
    <2>2. h \div w \in 0..NTableBins - 1
      BY <1>1, <2>1, QuotientBelow
    <2> QED
      BY <2>2 DEF TableBin, TableBins, w
  <1>3. MapBin(h) \in MapBins
    <2>1. h \div NoBin \in 0..NMapBins - 1
      BY <1>1, Sizes, QuotientBelow
    <2> QED
      BY <2>1 DEF MapBin, MapBins
  <1> DEFINE low == h % NoBin
             q == h \div NoBin
             new == IF Fingerprint[h] = low THEN (Fingerprint[h] + 7) % NoBin ELSE Fingerprint[h]
  <1>4. q \in Nat /\ low \in 0..NoBin - 1 /\ h = NoBin * q + low /\ NoBin \in Nat \ {0}
    BY <1>1, Sizes, DivMod
  <1>5. new \in 0..NoBin - 1
    <2>1. Fingerprint[h] \in 0..NoBin - 1 /\ Fingerprint[h] + 7 \in Nat
      BY UstringAssumption
    <2>2. (Fingerprint[h] + 7) % NoBin \in 0..NoBin - 1
      BY <1>4, <2>1, DivMod
    <2> QED
      BY <2>1, <2>2
  <1>6. NextHash(h) = (h - low) + new
    BY DEF NextHash
  <1> HIDE DEF low, new, q
  <1>7. NextHash(h) = NoBin * q + new /\ NextHash(h) \in Nat
    BY <1>1, <1>4, <1>5, <1>6
  <1>8. NextHash(h) \div NoBin = q
    BY <1>4, <1>5, <1>7, Quotient
  <1>9. NextHash(h) \in Hashes
    <2>1. q \in 0..NMapBins - 1
      BY <1>3 DEF MapBin, MapBins, q
    <2>2. NMapBins - 1 - q \in Nat /\ NHashes = NMapBins * NoBin /\ NHashes \in Nat /\ NMapBins \in Nat
      BY <2>1, Sizes
    <2>3. NoBin * (NMapBins - 1 - q) \in Nat
          /\ NMapBins * NoBin = NoBin * q + NoBin + NoBin * (NMapBins - 1 - q)
      BY <1>4, <2>1, <2>2
    <2>4. NextHash(h) < NHashes
      BY <1>4, <1>5, <1>7, <2>2, <2>3
    <2> QED
      BY <1>7, <2>2, <2>4 DEF Hashes
  <1> QED
    BY <1>1, <1>2, <1>3, <1>8, <1>9 DEF MapBin, q

\* The hashes that are tried from a on when those of B are other strings'.
Closed(S, a, B) == S \in SUBSET Hashes /\ a \in S /\ \A g \in S : g \in B => NextHash(g) \in S
Reach(a, B) == {h \in Hashes : \A S \in SUBSET Hashes : Closed(S, a, B) => h \in S}

\* They begin with a, go on after one of B, and are more when B is more.
LEMMA Reached ==
    ASSUME NEW a \in Hashes, NEW B
    PROVE  /\ a \in Reach(a, B)
           /\ \A h \in Reach(a, B) : h \in Hashes /\ (h \in B => NextHash(h) \in Reach(a, B))
           /\ Closed(Reach(a, B), a, B)
           /\ \A S : Closed(S, a, B) => Reach(a, B) \subseteq S
           /\ \A C : B \subseteq C => Reach(a, B) \subseteq Reach(a, C)
  <1>1. a \in Reach(a, B)
    BY DEF Reach, Closed
  <1>2. ASSUME NEW h \in Reach(a, B) PROVE h \in Hashes /\ (h \in B => NextHash(h) \in Reach(a, B))
    <2>1. h \in Hashes /\ NextHash(h) \in Hashes
      BY <1>2, HashBins DEF Reach
    <2>2. ASSUME h \in B, NEW S \in SUBSET Hashes, Closed(S, a, B) PROVE NextHash(h) \in S
      <3>1. h \in S
        BY <1>2, <2>2 DEF Reach
      <3> QED
        BY <2>2, <3>1 DEF Closed
    <2> QED
      BY <2>1, <2>2 DEF Reach
  <1>3. Closed(Reach(a, B), a, B)
    <2>1. Reach(a, B) \in SUBSET Hashes
      BY DEF Reach
    <2> QED
      BY <1>1, <1>2, <2>1 DEF Closed
  <1>4. \A S : Closed(S, a, B) => Reach(a, B) \subseteq S
    BY DEF Reach, Closed
  <1>5. \A C : B \subseteq C => Reach(a, B) \subseteq Reach(a, C)
    <2> SUFFICES ASSUME NEW C, B \subseteq C, NEW h \in Reach(a, B),
                        NEW S \in SUBSET Hashes, Closed(S, a, C)
                 PROVE  h \in S
      BY DEF Reach
    <2>1. Closed(S, a, B)
      BY DEF Closed
    <2> QED
      BY <1>4, <2>1
  <1> QED
    BY <1>1, <1>2, <1>3, <1>4, <1>5

\* They end with one that is not of B, if at all.
LEMMA OneEnd ==
    ASSUME NEW a \in Hashes, NEW B, NEW g \in Reach(a, B), NEW h \in Reach(a, B), g \notin B, h \notin B
    PROVE  g = h
  <1> DEFINE S == {x \in Hashes : g \in Reach(x, B)}
  <1>1. g \in Hashes /\ h \in Hashes
    BY DEF Reach
  <1>2. ASSUME NEW x \in S, x \in B PROVE NextHash(x) \in S
    <2>1. x \in Hashes /\ NextHash(x) \in Hashes /\ g \in Reach(x, B) /\ g # x
      BY <1>2, HashBins
    <2> DEFINE n == NextHash(x)
               T == {x} \union Reach(n, B)
    <2>2. n \in Reach(n, B) /\ \A y \in Reach(n, B) : y \in Hashes /\ (y \in B => NextHash(y) \in Reach(n, B))
      BY <2>1, Reached
    <2>3. Closed(T, x, B)
      BY <2>1, <2>2 DEF Closed
    <2>4. g \in T
      BY <2>1, <2>3, Reached
    <2>5. g \in Reach(n, B)
      BY <2>1, <2>4
    <2> QED
      BY <2>1, <2>5
  <1>3. Closed(S, a, B)
    BY <1>2 DEF Closed
  <1>4. h \in S
    <2> HIDE DEF S
    <2> QED
      BY <1>3, Reached
  <1>5. Closed({h}, h, B)
    BY <1>1 DEF Closed
  <1>6. g \in {h}
    BY <1>1, <1>4, <1>5, Reached
  <1> QED
    BY <1>6
-----------------------------------------------------------------------------
(* The invariant.                                                           *)

\* The types, but for the number of positions of a bin.
MaybeRep == Reps \union {None}
Typed ==
    /\ DOMAIN entries = TableBins /\ reverse_map \in [Hashes -> MaybeRep]
    /\ binLock \in [MapBins -> Threads \union {None}]
    /\ collisions \subseteq Strings \X Hashes /\ calls \in 0..MaxCalls
    /\ pc \in [Threads -> {"idle", "lookup", "lock", "find", "insert", "insert in map", "unlock",
                           "report", "answered"}]
    /\ asked \in [Threads -> MaybeString \union Hashes] /\ strref \in [Threads -> MaybeString]
    /\ hash \in [Threads -> Hashes] /\ result \in [Threads -> MaybeRep]

\* Every bin finds what it holds, and holds what belongs there.
BinsSound == \A b \in TableBins :
    Bin(entries[b]) /\ \A i \in Used(entries[b]) : TableBin(entries[b][i].hashed) = b

\* The hashes a string has been looked for under, and the next one.
Blocked(s) == {g \in Hashes : reverse_map[g] # None /\ ~SameString(reverse_map[g], s)}
Walked(s, h) == h \in Reach(HashOf[s], Blocked(s))

\* A thread with a string; one that has locked the string's bin of the map;
\* one that makes the representation.
Named  == {"lookup", "lock", "find", "insert", "insert in map", "unlock", "report"}
Locked == {"find", "insert", "insert in map", "unlock"}
Making == {"insert", "insert in map"}
FitsAt(t) ==
    /\ pc[t] \in Named => strref[t] \in Strings
    /\ pc[t] \in {"lookup", "lock"} => hash[t] = HashOf[strref[t]]
    /\ pc[t] \in Locked => /\ binLock[MapBin(hash[t])] = t
                           /\ MapBin(hash[t]) = MapBin(HashOf[strref[t]])
                           /\ Walked(strref[t], hash[t])
    /\ pc[t] \in Making => reverse_map[hash[t]] = None
    /\ pc[t] = "insert in map" =>
           result[t] = TableRep(strref[t], hash[t]) /\ result[t] \in AllReps
    /\ pc[t] \in {"unlock", "report"} => result[t] \in Reps
Fits == \A t \in Threads : FitsAt(t)

\* The reverse map has what is in the table, and the table what is in the map,
\* unless a thread is between the two.
MapHeld == \A h \in Hashes :
    reverse_map[h] # None => reverse_map[h] \in AllReps /\ reverse_map[h].hashed = h
HeldMapped == \A r \in AllReps :
    \/ reverse_map[r.hashed] = r
    \/ \E t \in Threads : pc[t] = "insert in map" /\ result[t] = r

\* A representation is where a search for its string comes by, and the only one.
HeldWalked == \A r \in AllReps : Walked(r.str, r.hashed)
OneEach == \A q, r \in AllReps : q.str = r.str => q = r

\* Whoever moved a string reports it.
Reporting == {"insert in map", "unlock", "report"}
Reports(t, r) == pc[t] \in Reporting /\ result[t] = r /\ strref[t] = r.str /\ hash[t] = r.hashed
Reported == \A r \in AllReps : r.hashed # HashOf[r.str] =>
    <<r.str, HashOf[r.str]>> \in collisions \/ \E t \in Threads : Reports(t, r)

Inv == /\ Typed /\ BinsSound /\ Fits /\ MapHeld /\ HeldMapped /\ HeldWalked /\ OneEach /\ Reported
-----------------------------------------------------------------------------
(* What follows from it.                                                    *)

\* What is in the table.
LEMMA HeldIs ==
    ASSUME Typed, BinsSound
    PROVE  /\ AllReps \subseteq Reps
           /\ \A r : r \in AllReps <=> \E b \in TableBins : r \in Held(entries[b])
           /\ \A r \in AllReps : r.str \in Strings /\ r.hashed \in Hashes /\ r # None
           /\ \A r \in AllReps : r \in Held(entries[TableBin(r.hashed)])
  <1>1. \A r : r \in AllReps <=> \E b \in TableBins : r \in Held(entries[b])
    BY DEF AllReps, Held
  <1>2. ASSUME NEW r \in AllReps PROVE r \in Reps /\ r \in Held(entries[TableBin(r.hashed)])
    <2>1. PICK b \in TableBins : r \in Held(entries[b])
      BY <1>1
    <2>2. PICK i \in Used(entries[b]) : r = entries[b][i]
      BY <2>1 DEF Held
    <2>3. PICK c : Sized(entries[b], c)
      BY DEF BinsSound, Bin, Sound
    <2>4. r \in Reps
      BY <2>2, <2>3, Size
    <2>5. TableBin(r.hashed) = b
      BY <2>2 DEF BinsSound
    <2> QED
      BY <2>1, <2>4, <2>5
  <1>3. \A r \in Reps : r.str \in Strings /\ r.hashed \in Hashes /\ r # None
    BY UstringAssumption DEF Reps
  <1> QED
    BY <1>1, <1>2, <1>3

\* Two representations have two hashes.
LEMMA HashesDiffer ==
    ASSUME Typed, BinsSound, NEW q \in AllReps, NEW r \in AllReps, q.hashed = r.hashed
    PROVE  q = r
  <1> DEFINE e == entries[TableBin(r.hashed)]
  <1>1. q \in Held(e) /\ r \in Held(e) /\ TableBin(r.hashed) \in TableBins
    BY HeldIs, HashBins
  <1>2. PICK i \in Used(e), j \in Used(e) : q = e[i] /\ r = e[j]
    BY <1>1 DEF Held
  <1>3. Unmixed(e)
    BY <1>1 DEF BinsSound, Bin, Sound
  <1> QED
    BY <1>2, <1>3 DEF Unmixed

\* Two threads do not have one bin of the map.
LEMMA OneInBin ==
    ASSUME Fits, NEW t \in Threads, NEW u \in Threads, pc[t] \in Locked, pc[u] \in Locked,
           MapBin(hash[t]) = MapBin(hash[u])
    PROVE  t = u
  BY DEF Fits, FitsAt

\* What is found in a bin is a representation, and what is asked for, if it is
\* there at all.
LEMMA Finds ==
    ASSUME Typed, BinsSound, NEW h \in Hashes, NEW s
    PROVE  /\ FindString(s, h) \in MaybeRep /\ FindHash(h) \in MaybeRep
           /\ FindString(s, h) # None => FindString(s, h) = TableRep(s, h) /\ TableRep(s, h) \in AllReps
           /\ FindHash(h) # None => FindHash(h) \in AllReps /\ FindHash(h).hashed = h
           /\ \A r \in AllReps : r.hashed = h => FindHash(h) = r
           /\ \A r \in AllReps : r.hashed = h /\ r.str = s => FindString(s, h) = r
  <1> DEFINE e == entries[TableBin(h)]
             Rs == {TableRep(s, h)}
             Rh == {r \in Reps : r.hashed = h}
             Ps == Probed(e, h, StopAt(e, h, Rs))
             Ph == Probed(e, h, StopAt(e, h, Rh))
  <1>1. h \in Nat /\ TableBin(h) \in TableBins
    BY HashBins
  <1>2. PICK c \in Nat \ {0} : Sound(e, c) /\ Cardinality(Used(e)) < c
    BY <1>1 DEF BinsSound, Bin, Sound, Sized
  <1>3. FindString(s, h) = e[Ps]
    BY DEF FindString, FirstStop, StopAt
  <1>4. FindHash(h) = e[Ph]
    <2>1. \A k \in Nat : e[Probed(e, h, k)] \in MaybeRep
      BY <1>1, <1>2, ProbedIn DEF Sound, MaybeRep
    <2>2. Capacity(e) = c
      BY <1>2, Size DEF Sound
    <2>3. {k \in 0..Capacity(e) - 1 :
              e[Probed(e, h, k)] = None \/ e[Probed(e, h, k)].hashed = h}
            = {k \in 0..Capacity(e) - 1 : e[Probed(e, h, k)] \in Rh \union {None}}
      BY <2>1, <2>2 DEF MaybeRep
    <2> QED
      BY <2>3 DEF FindHash, FirstStop, StopAt
  <1>5. e[Ps] \in Rs \union {None} /\ e[Ph] \in Rh \union {None}
    BY <1>1, <1>2, Stopped DEF Sound
  <1>6. Ps \in DOMAIN e /\ Ph \in DOMAIN e /\ e[Ps] \in MaybeRep /\ e[Ph] \in MaybeRep
    <2>1. StopAt(e, h, Rs) \in Nat /\ StopAt(e, h, Rh) \in Nat
      <3>1. StopAt(e, h, Rs) \in 0..c - 1 /\ StopAt(e, h, Rh) \in 0..c - 1
        BY <1>1, <1>2, Stopped DEF Sound
      <3> QED
        BY <3>1
    <2>2. \A k \in Nat : Probed(e, h, k) \in DOMAIN e /\ e[Probed(e, h, k)] \in MaybeRep
      <3>1. Sized(e, c)
        BY <1>2 DEF Sound
      <3> HIDE DEF e
      <3>2. DOMAIN e = 0..c - 1
        BY <3>1, Size
      <3>3. \A k \in Nat : Probed(e, h, k) \in 0..c - 1 /\ e[Probed(e, h, k)] \in MaybeRep
        BY <1>1, <3>1, ProbedIn DEF MaybeRep
      <3> QED
        BY <3>2, <3>3
    <2> QED
      BY <2>1, <2>2
  <1>7. (e[Ps] # None => e[Ps] \in AllReps) /\ (e[Ph] # None => e[Ph] \in AllReps)
    <2>1. \A p \in DOMAIN e : e[p] # None => e[p] \in Held(e)
      BY DEF Held, Used
    <2>2. Held(e) \subseteq AllReps
      BY <1>1, HeldIs
    <2> QED
      BY ONLY <1>6, <2>1, <2>2
  <1>8. ASSUME NEW r \in AllReps, r.hashed = h PROVE e[Ph] = r /\ (r.str = s => e[Ps] = r)
    <2>1. r \in Held(e) /\ r \in Reps
      BY <1>8, HeldIs
    <2>2. PICK i \in Used(e) : r = e[i]
      BY <2>1 DEF Held
    <2>3. \A j \in Used(e) : e[j] \in Rh => e[j].hashed = e[i].hashed
      BY <1>8, <2>2
    <2>4. e[i] \in Rh /\ e[i].hashed = h
      BY <1>8, <2>1, <2>2
    <2>5. e[Ph] = r
      BY <1>2, <2>2, <2>3, <2>4, Found DEF Sound
    <2>6. ASSUME r.str = s PROVE e[Ps] = r
      <3>1. r = TableRep(s, h)
        BY <1>8, <2>1, <2>6 DEF Reps, TableRep
      <3>2. e[i] \in Rs /\ \A j \in Used(e) : e[j] \in Rs => e[j].hashed = e[i].hashed
        BY <2>2, <3>1
      <3> QED
        BY <1>2, <2>2, <2>4, <3>2, Found DEF Sound
    <2> QED
      BY <2>5, <2>6
  <1> QED
    BY <1>3, <1>4, <1>5, <1>6, <1>7, <1>8
-----------------------------------------------------------------------------
(* What a step of one thread leaves to the others.                          *)

\* A thread that takes no step.
Rests(u) == pc'[u] = pc[u] /\ strref'[u] = strref[u] /\ hash'[u] = hash[u] /\ result'[u] = result[u]

\* A walk is not undone: what is in the reverse map stays.
LEMMA WalkedGrows ==
    ASSUME \A h \in Hashes : reverse_map[h] # None => reverse_map'[h] = reverse_map[h],
           NEW s \in Strings, NEW h, Walked(s, h)
    PROVE  Walked(s, h)'
  <1>1. Blocked(s) \subseteq Blocked(s)'
    BY DEF Blocked
  <1>2. HashOf[s] \in Hashes
    BY UstringAssumption
  <1>3. Reach(HashOf[s], Blocked(s)) \subseteq Reach(HashOf[s], Blocked(s)')
    BY <1>1, <1>2, Reached
  <1> QED
    BY <1>3 DEF Walked

\* A resting thread keeps what it has while another locks a free bin, unlocks
\* its own, or writes in it.
LEMMA OthersFit ==
    ASSUME Typed, Fits, NEW t \in Threads, NEW u \in Threads, u # t, Rests(u),
           AllReps \subseteq AllReps', \A b \in MapBins : binLock[b] = u => binLock'[b] = u,
           \A h \in Hashes : \/ reverse_map'[h] = reverse_map[h]
                             \/ reverse_map[h] = None /\ binLock[MapBin(h)] = t
    PROVE  FitsAt(u)'
  <1>1. FitsAt(u) /\ hash[u] \in Hashes /\ MapBin(hash[u]) \in MapBins
    BY HashBins DEF Fits, Typed
  <1>2. /\ pc'[u] = pc[u] /\ strref'[u] = strref[u] /\ hash'[u] = hash[u] /\ result'[u] = result[u]
    BY DEF Rests
  <1>3. pc[u] \in Locked => Walked(strref[u], hash[u])'
    <2> SUFFICES ASSUME pc[u] \in Locked PROVE Walked(strref[u], hash[u])'
      OBVIOUS
    <2>1. PICK s \in Strings, h \in Hashes : s = strref[u] /\ h = hash[u] /\ Walked(s, h)
      BY <1>1 DEF FitsAt, Locked, Named
    <2>2. \A g \in Hashes : reverse_map[g] # None => reverse_map'[g] = reverse_map[g]
      OBVIOUS
    <2>3. Walked(s, h)'
      BY <2>1, <2>2, WalkedGrows
    <2> QED
      BY <1>2, <2>1, <2>3 DEF Walked, Blocked
  <1>4. pc[u] \in Locked => binLock'[MapBin(hash[u])] = u
    BY <1>1 DEF FitsAt
  <1>5. pc[u] \in Making => reverse_map'[hash[u]] = None
    <2> SUFFICES ASSUME pc[u] \in Making PROVE reverse_map'[hash[u]] = None
      OBVIOUS
    <2>1. binLock[MapBin(hash[u])] = u /\ reverse_map[hash[u]] = None
      BY <1>1 DEF FitsAt, Making, Locked
    <2> QED
      BY <1>1, <2>1
  <1>6. /\ pc[u] \in Named => strref[u] \in Strings
        /\ pc[u] \in {"lookup", "lock"} => hash[u] = HashOf[strref[u]]
        /\ pc[u] \in Locked => MapBin(hash[u]) = MapBin(HashOf[strref[u]])
        /\ pc[u] = "insert in map" =>
               result[u] = TableRep(strref[u], hash[u]) /\ result[u] \in AllReps'
        /\ pc[u] \in {"unlock", "report"} => result[u] \in Reps
    BY <1>1 DEF FitsAt
  <1> QED
    BY <1>2, <1>3, <1>4, <1>5, <1>6 DEF FitsAt

\* Steps that write neither the table nor the reverse map.
LEMMA QuietKeeps ==
    ASSUME Inv, NEW t \in Threads, UNCHANGED <<entries, reverse_map>>,
           \A u \in Threads \ {t} : Rests(u), pc[t] # "insert in map"
    PROVE  BinsSound' /\ MapHeld' /\ HeldMapped' /\ HeldWalked' /\ OneEach' /\ AllReps' = AllReps
  <1>1. AllReps' = AllReps
    <2>1. entries' = entries
      OBVIOUS
    <2> QED
      BY ONLY <2>1 DEF AllReps
  <1>2. BinsSound'
    BY DEF Inv, BinsSound, Used
  <1>3. MapHeld' /\ OneEach'
    BY <1>1 DEF Inv, MapHeld, OneEach
  <1>4. HeldWalked'
    BY <1>1 DEF Inv, HeldWalked, Walked, Blocked
  <1>5. HeldMapped'
    <2> SUFFICES ASSUME NEW r \in AllReps
                 PROVE  \/ reverse_map'[r.hashed] = r
                        \/ \E u \in Threads : pc'[u] = "insert in map" /\ result'[u] = r
      BY <1>1 DEF HeldMapped
    <2>1. \/ reverse_map[r.hashed] = r
          \/ \E u \in Threads : pc[u] = "insert in map" /\ result[u] = r
      BY DEF Inv, HeldMapped
    <2> QED
      BY <2>1 DEF Rests
  <1> QED
    BY <1>1, <1>2, <1>3, <1>4, <1>5

\* What was reported, or will be, stays so.
LEMMA ReportedKeeps ==
    ASSUME Inv, NEW t \in Threads, AllReps' = AllReps, collisions \subseteq collisions',
           \A u \in Threads \ {t} : Rests(u), pc[t] \in Reporting => pc'[t] \in Reporting /\ Rests(t)
    PROVE  Reported'
  <1> USE DEF Reporting
  <1> SUFFICES ASSUME NEW r \in AllReps, r.hashed # HashOf[r.str]
               PROVE  \/ <<r.str, HashOf[r.str]>> \in collisions'
                      \/ \E u \in Threads : Reports(u, r)'
    BY DEF Reported
  <1>1. CASE <<r.str, HashOf[r.str]>> \in collisions
    BY <1>1
  <1>2. CASE \E u \in Threads : Reports(u, r)
    <2>1. PICK u \in Threads : Reports(u, r)
      BY <1>2
    <2>2. Reports(u, r)'
      BY <2>1 DEF Reports, Rests
    <2> QED
      BY <2>2
  <1> QED
    BY <1>1, <1>2 DEF Inv, Reported

\* Steps that write neither, and change nothing that is still to be reported.
LEMMA QuietStep ==
    ASSUME Inv, NEW t \in Threads, UNCHANGED <<entries, reverse_map>>,
           \A u \in Threads \ {t} : Rests(u), pc[t] \notin Reporting \/ (pc'[t] = "report" /\ Rests(t)),
           pc[t] # "insert in map", collisions \subseteq collisions', Typed', FitsAt(t)',
           \A u \in Threads \ {t} : \A b \in MapBins : binLock[b] = u => binLock'[b] = u
    PROVE  Inv'
  <1>1. BinsSound' /\ MapHeld' /\ HeldMapped' /\ HeldWalked' /\ OneEach' /\ AllReps' = AllReps
    BY QuietKeeps
  <1>2. Reported'
    BY <1>1, ReportedKeeps DEF Reporting
  <1>3. Fits'
    <2> SUFFICES ASSUME NEW u \in Threads PROVE FitsAt(u)'
      BY DEF Fits
    <2>1. CASE u # t
      BY <1>1, <2>1, OthersFit DEF Inv
    <2> QED
      BY <2>1
  <1> QED
    BY <1>1, <1>2, <1>3 DEF Inv
-----------------------------------------------------------------------------
(* Every step.                                                              *)

\* What EXCEPT does.
LEMMA SetAt ==
    ASSUME NEW S, NEW T, NEW f \in [S -> T], NEW x \in S, NEW v \in T
    PROVE  /\ Set(f, x, v) \in [S -> T] /\ Set(f, x, v)[x] = v
           /\ \A y \in S \ {x} : Set(f, x, v)[y] = f[y]
  BY DEF Set

\* The values of the variables of a thread.
Pcs == {"idle", "lookup", "lock", "find", "insert", "insert in map", "unlock", "report", "answered"}

\* A thread takes a step from and to where, and changes its own variables only.
LEMMA Moves1 ==
    ASSUME Typed, NEW t \in Threads, NEW p \in Pcs, NEW s \in MaybeString, NEW h \in Hashes,
           NEW r \in MaybeRep, pc' = Set(pc, t, p), strref' = Set(strref, t, s),
           hash' = Set(hash, t, h), result' = Set(result, t, r)
    PROVE  /\ \A u \in Threads \ {t} : Rests(u)
           /\ pc'[t] = p /\ strref'[t] = s /\ hash'[t] = h /\ result'[t] = r
           /\ pc' \in [Threads -> Pcs] /\ strref' \in [Threads -> MaybeString]
           /\ hash' \in [Threads -> Hashes] /\ result' \in [Threads -> MaybeRep]
  <1>1. /\ pc \in [Threads -> Pcs] /\ strref \in [Threads -> MaybeString]
        /\ hash \in [Threads -> Hashes] /\ result \in [Threads -> MaybeRep]
    BY DEF Typed, Pcs
  <1>2. /\ pc' \in [Threads -> Pcs] /\ pc'[t] = p
        /\ \A u \in Threads \ {t} : pc'[u] = pc[u]
    BY <1>1 DEF Set
  <1>3. /\ strref' \in [Threads -> MaybeString] /\ strref'[t] = s
        /\ \A u \in Threads \ {t} : strref'[u] = strref[u]
    BY <1>1 DEF Set
  <1>4. /\ hash' \in [Threads -> Hashes] /\ hash'[t] = h
        /\ \A u \in Threads \ {t} : hash'[u] = hash[u]
    BY <1>1 DEF Set
  <1>5. /\ result' \in [Threads -> MaybeRep] /\ result'[t] = r
        /\ \A u \in Threads \ {t} : result'[u] = result[u]
    BY <1>1 DEF Set
  <1> QED
    BY <1>2, <1>3, <1>4, <1>5 DEF Rests

\* A variable that is not changed is set to what it is.
LEMMA SetSame ==
    ASSUME NEW S, NEW T, NEW f \in [S -> T], NEW x \in S
    PROVE  f = Set(f, x, f[x])
  BY DEF Set

\* What a thread has.
LEMMA Own ==
    ASSUME Inv, NEW t \in Threads
    PROVE  /\ pc[t] \in Pcs /\ strref[t] \in MaybeString /\ hash[t] \in Hashes /\ result[t] \in MaybeRep
           /\ strref = Set(strref, t, strref[t]) /\ hash = Set(hash, t, hash[t])
           /\ result = Set(result, t, result[t]) /\ pc = Set(pc, t, pc[t])
           /\ FitsAt(t)
  <1>1. /\ pc \in [Threads -> Pcs] /\ strref \in [Threads -> MaybeString]
        /\ hash \in [Threads -> Hashes] /\ result \in [Threads -> MaybeRep]
    BY DEF Inv, Typed, Pcs
  <1> QED
    BY <1>1, SetSame DEF Inv, Fits

\* The types of what few steps change.
LEMMA TypedStep ==
    ASSUME Typed, DOMAIN entries' = TableBins, reverse_map' \in [Hashes -> MaybeRep],
           binLock' \in [MapBins -> Threads \union {None}],
           collisions' \subseteq Strings \X Hashes, calls' \in 0..MaxCalls,
           asked' \in [Threads -> MaybeString \union Hashes],
           pc' \in [Threads -> Pcs], strref' \in [Threads -> MaybeString],
           hash' \in [Threads -> Hashes], result' \in [Threads -> MaybeRep]
    PROVE  Typed'
  BY DEF Typed, Pcs, MaybeRep, MaybeString

\* make_unique begins with the hash of the string.
LEMMA MakeUniqueKeeps ==
    ASSUME Inv, NEW t \in Threads, NEW s \in Strings, MakeUnique(t, s)
    PROVE  Inv'
  <1>1. /\ pc[t] = "idle" /\ pc' = Set(pc, t, "lookup") /\ strref' = Set(strref, t, s)
        /\ hash' = Set(hash, t, HashOf[s]) /\ result' = Set(result, t, result[t])
        /\ calls < MaxCalls /\ calls' = calls + 1 /\ asked' = Set(asked, t, s)
        /\ UNCHANGED <<entries, reverse_map, collisions, binLock>>
    BY Own DEF MakeUnique, Goto, table
  <1>2. HashOf[s] \in Hashes /\ s \in MaybeString /\ "lookup" \in Pcs
    BY UstringAssumption DEF MaybeString, Pcs
  <1>3. /\ \A u \in Threads \ {t} : Rests(u)
        /\ pc'[t] = "lookup" /\ strref'[t] = s /\ hash'[t] = HashOf[s]
        /\ pc' \in [Threads -> Pcs] /\ strref' \in [Threads -> MaybeString]
        /\ hash' \in [Threads -> Hashes] /\ result' \in [Threads -> MaybeRep]
    BY <1>1, <1>2, Own, Moves1 DEF Inv
  <1>4. Typed'
    <2>1. asked' \in [Threads -> MaybeString \union Hashes]
      BY <1>1, <1>2, SetAt DEF Inv, Typed
    <2>2. calls' \in 0..MaxCalls
      <3>1. calls \in 0..MaxCalls /\ MaxCalls \in Nat
        BY UstringAssumption DEF Inv, Typed
      <3> QED
        BY ONLY <1>1, <3>1
    <2> QED
      BY <1>1, <1>3, <2>1, <2>2, TypedStep DEF Inv, Typed
  <1>5. FitsAt(t)'
    BY <1>3 DEF FitsAt, Named, Locked, Making
  <1> QED
    BY <1>1, <1>3, <1>4, <1>5, QuietStep DEF Reporting

\* A string that is not in the table is cut, or its bin of the map is locked.
LEMMA LookupKeeps ==
    ASSUME Inv, NEW t \in Threads, Lookup(t)
    PROVE  Inv'
  <1> DEFINE r == FindString(strref[t], hash[t])
             s == IF r = None THEN Trim[strref[t]] ELSE strref[t]
             h == IF r = None THEN HashOf[s] ELSE hash[t]
             p == IF r # None THEN "answered" ELSE IF s # strref[t] THEN "lookup" ELSE "lock"
  <1>1. pc[t] = "lookup" /\ strref[t] \in Strings /\ hash[t] \in Hashes
    BY Own DEF Lookup, FitsAt, Named
  <1>2. s \in Strings /\ h \in Hashes /\ p \in Pcs /\ r \in MaybeRep /\ s \in MaybeString
    BY <1>1, Finds, UstringAssumption DEF Inv, Pcs, MaybeString
  <1>3. /\ pc' = Set(pc, t, p) /\ strref' = Set(strref, t, s)
        /\ hash' = Set(hash, t, h) /\ result' = Set(result, t, r)
        /\ UNCHANGED <<entries, reverse_map, collisions, binLock, calls, asked>>
    BY Own DEF Lookup, table
  <1>4. p = "answered" \/ (p \in {"lookup", "lock"} /\ h = HashOf[s])
    OBVIOUS
  <1> HIDE DEF r, s, h, p
  <1>5. /\ \A u \in Threads \ {t} : Rests(u)
        /\ pc'[t] = p /\ strref'[t] = s /\ hash'[t] = h
        /\ pc' \in [Threads -> Pcs] /\ strref' \in [Threads -> MaybeString]
        /\ hash' \in [Threads -> Hashes] /\ result' \in [Threads -> MaybeRep]
    BY <1>2, <1>3, Moves1 DEF Inv
  <1>6. Typed'
    BY <1>3, <1>5, TypedStep DEF Inv, Typed
  <1>7. FitsAt(t)'
    BY <1>2, <1>4, <1>5 DEF FitsAt, Named, Locked, Making
  <1> QED
    BY <1>1, <1>3, <1>5, <1>6, <1>7, QuietStep DEF Reporting

\* The search under the lock begins with the string's own hash.
LEMMA LockBinKeeps ==
    ASSUME Inv, NEW t \in Threads, LockBin(t)
    PROVE  Inv'
  <1> DEFINE b == MapBin(hash[t])
  <1>1. pc[t] = "lock" /\ strref[t] \in Strings /\ hash[t] = HashOf[strref[t]] /\ b \in MapBins
    BY Own, HashBins DEF LockBin, Goto, FitsAt, Named
  <1>2. /\ pc' = Set(pc, t, "find") /\ strref' = Set(strref, t, strref[t])
        /\ hash' = Set(hash, t, hash[t]) /\ result' = Set(result, t, result[t])
        /\ binLock[b] = None /\ binLock' = Set(binLock, b, t)
        /\ UNCHANGED <<entries, reverse_map, collisions, calls, asked>>
    BY Own DEF LockBin, Goto, table
  <1>3. "find" \in Pcs
    BY DEF Pcs
  <1>4. /\ \A u \in Threads \ {t} : Rests(u)
        /\ pc'[t] = "find" /\ strref'[t] = strref[t] /\ hash'[t] = hash[t]
        /\ pc' \in [Threads -> Pcs] /\ strref' \in [Threads -> MaybeString]
        /\ hash' \in [Threads -> Hashes] /\ result' \in [Threads -> MaybeRep]
    BY <1>2, <1>3, Own, Moves1 DEF Inv
  <1>5. binLock' \in [MapBins -> Threads \union {None}] /\ binLock'[b] = t
        /\ \A c \in MapBins \ {b} : binLock'[c] = binLock[c]
    <2>1. binLock \in [MapBins -> Threads \union {None}] /\ t \in Threads \union {None}
      BY DEF Inv, Typed
    <2> HIDE DEF b
    <2> QED
      BY <1>1, <1>2, <2>1 DEF Set
  <1>6. Typed'
    BY <1>2, <1>4, <1>5, TypedStep DEF Inv, Typed
  <1>7. FitsAt(t)'
    <2>1. hash[t] \in Reach(HashOf[strref[t]], Blocked(strref[t])')
      BY <1>1, UstringAssumption, Reached
    <2>2. Walked(strref[t], hash[t])'
      BY <1>4, <2>1 DEF Walked, Blocked
    <2> QED
      BY <1>1, <1>4, <1>5, <2>2 DEF FitsAt, Named, Locked, Making
  <1>8. \A u \in Threads \ {t} : \A c \in MapBins : binLock[c] = u => binLock'[c] = u
    BY <1>2, <1>5, UstringAssumption
  <1> QED
    BY <1>1, <1>2, <1>4, <1>6, <1>7, <1>8, QuietStep DEF Reporting
\* The hash is free, or the map has the string.
LEMMA SearchKeeps ==
    ASSUME Inv, NEW t \in Threads, Search(t)
    PROVE  Inv'
  <1> DEFINE r == reverse_map[hash[t]]
             p == IF r = None THEN "insert" ELSE "unlock"
             q == IF r = None THEN result[t] ELSE r
  <1>1. pc[t] = "find" /\ FitsAt(t) /\ hash[t] \in Hashes /\ strref[t] \in Strings
    BY Own DEF Search, FitsAt, Named
  <1>2. r \in MaybeRep /\ p \in Pcs /\ q \in MaybeRep
    BY <1>1, Own DEF Inv, Typed, Pcs
  <1>3. /\ pc' = Set(pc, t, p) /\ strref' = Set(strref, t, strref[t])
        /\ hash' = Set(hash, t, hash[t]) /\ result' = Set(result, t, q)
        /\ UNCHANGED <<entries, reverse_map, collisions, calls, asked, binLock>>
    <2>1. /\ UNCHANGED <<entries, reverse_map, collisions, calls, asked, binLock>>
          /\ strref' = strref /\ hash' = hash
      BY DEF Search, table
    <2>2. CASE r = None
      BY <2>1, <2>2, Own DEF Search
    <2>3. CASE r # None
      BY <2>1, <2>3, Own DEF Search
    <2> QED
      BY <2>2, <2>3
  <1>4. /\ \A u \in Threads \ {t} : Rests(u)
        /\ pc'[t] = p /\ strref'[t] = strref[t] /\ hash'[t] = hash[t] /\ result'[t] = q
        /\ pc' \in [Threads -> Pcs] /\ strref' \in [Threads -> MaybeString]
        /\ hash' \in [Threads -> Hashes] /\ result' \in [Threads -> MaybeRep]
    BY <1>2, <1>3, Own, Moves1 DEF Inv
  <1>5. Typed'
    BY <1>3, <1>4, TypedStep DEF Inv, Typed
  <1>6. FitsAt(t)'
    <2>1. /\ binLock[MapBin(hash[t])] = t /\ MapBin(hash[t]) = MapBin(HashOf[strref[t]])
          /\ Walked(strref[t], hash[t])
      BY <1>1 DEF FitsAt, Locked
    <2>2. Walked(strref[t], hash[t])'
      BY <1>3, <1>4, <2>1 DEF Walked, Blocked
    <2>3. (p = "insert" /\ r = None) \/ (p = "unlock" /\ q \in Reps)
      BY <1>2 DEF MaybeRep
    <2> HIDE DEF p, q
    <2> QED
      BY <1>1, <1>3, <1>4, <2>1, <2>2, <2>3 DEF FitsAt, Named, Locked, Making
  <1> QED
    BY <1>1, <1>3, <1>4, <1>5, <1>6, QuietStep DEF Reporting

\* The hash is another string's: the search goes on in the same bin.
LEMMA RehashKeeps ==
    ASSUME Inv, NEW t \in Threads, Rehash(t)
    PROVE  Inv'
  <1> DEFINE r == reverse_map[hash[t]]
             h == NextHash(hash[t])
  <1>1. pc[t] = "find" /\ FitsAt(t) /\ hash[t] \in Hashes /\ strref[t] \in Strings /\ h \in Hashes
        /\ MapBin(h) = MapBin(hash[t])
    BY Own, HashBins DEF Rehash, FitsAt, Named
  <1>2. r # None /\ ~SameString(r, strref[t]) /\ r \in Reps
    BY <1>1 DEF Rehash, Inv, Typed, MaybeRep
  <1>3. /\ pc' = Set(pc, t, "find") /\ strref' = Set(strref, t, strref[t])
        /\ hash' = Set(hash, t, h) /\ result' = Set(result, t, result[t])
        /\ collisions' = collisions \union {<<r.str, hash[t]>>}
        /\ UNCHANGED <<entries, reverse_map, calls, asked, binLock>>
    BY <1>1, Own DEF Rehash
  <1>4. "find" \in Pcs
    BY DEF Pcs
  <1> HIDE DEF h
  <1>5. /\ \A u \in Threads \ {t} : Rests(u)
        /\ pc'[t] = "find" /\ strref'[t] = strref[t] /\ hash'[t] = h
        /\ pc' \in [Threads -> Pcs] /\ strref' \in [Threads -> MaybeString]
        /\ hash' \in [Threads -> Hashes] /\ result' \in [Threads -> MaybeRep]
    BY <1>1, <1>3, <1>4, Own, Moves1 DEF Inv
  <1>6. Typed'
    <2>1. <<r.str, hash[t]>> \in Strings \X Hashes
      BY <1>1, <1>2 DEF Reps
    <2>2. collisions' \subseteq Strings \X Hashes
      BY <1>3, <2>1 DEF Inv, Typed
    <2> QED
      BY <1>3, <1>5, <2>2, TypedStep DEF Inv, Typed
  <1>7. FitsAt(t)'
    <2>1. /\ binLock[MapBin(hash[t])] = t /\ MapBin(hash[t]) = MapBin(HashOf[strref[t]])
          /\ Walked(strref[t], hash[t])
      BY <1>1 DEF FitsAt, Locked
    <2>2. hash[t] \in Blocked(strref[t]) /\ HashOf[strref[t]] \in Hashes
      BY <1>1, <1>2, UstringAssumption DEF Blocked
    <2>3. Walked(strref[t], h)
      BY <2>1, <2>2, Reached DEF Walked, h
    <2>4. h \in Reach(HashOf[strref'[t]], Blocked(strref[t])')
      BY <1>3, <1>5, <2>3 DEF Walked, Blocked
    <2>5. binLock'[MapBin(h)] = t /\ MapBin(h) = MapBin(HashOf[strref[t]])
      BY <1>1, <1>3, <2>1
    <2> QED
      BY <1>1, <1>5, <2>4, <2>5 DEF FitsAt, Named, Locked, Making, Walked, Blocked
  <1> QED
    BY <1>1, <1>3, <1>5, <1>6, <1>7, QuietStep DEF Reporting

\* The bin that is unlocked is the one that was locked.
LEMMA UnlockBinKeeps ==
    ASSUME Inv, NEW t \in Threads, UnlockBin(t)
    PROVE  Inv'
  <1> DEFINE b == MapBin(HashOf[strref[t]])
  <1>1. /\ pc[t] = "unlock" /\ FitsAt(t) /\ strref[t] \in Strings /\ HashOf[strref[t]] \in Hashes
        /\ b \in MapBins /\ binLock[b] = t /\ result[t] \in Reps
    <2>1. pc[t] = "unlock" /\ FitsAt(t)
      BY Own DEF UnlockBin, Goto
    <2>2. strref[t] \in Strings /\ HashOf[strref[t]] \in Hashes
      BY <2>1, UstringAssumption DEF FitsAt, Named
    <2> QED
      BY <2>1, <2>2, HashBins DEF FitsAt, Locked
  <1>2. /\ pc' = Set(pc, t, "report") /\ strref' = Set(strref, t, strref[t])
        /\ hash' = Set(hash, t, hash[t]) /\ result' = Set(result, t, result[t])
        /\ strref' = strref /\ hash' = hash /\ result' = result
        /\ binLock' = Set(binLock, b, None)
        /\ UNCHANGED <<entries, reverse_map, collisions, calls, asked>>
    BY Own DEF UnlockBin, Goto, table
  <1>3. "report" \in Pcs
    BY DEF Pcs
  <1>4. /\ \A u \in Threads \ {t} : Rests(u)
        /\ pc'[t] = "report" /\ strref'[t] = strref[t] /\ hash'[t] = hash[t]
        /\ pc' \in [Threads -> Pcs] /\ strref' \in [Threads -> MaybeString]
        /\ hash' \in [Threads -> Hashes] /\ result' \in [Threads -> MaybeRep]
    BY <1>2, <1>3, Own, Moves1 DEF Inv
  <1>5. binLock' \in [MapBins -> Threads \union {None}]
        /\ \A c \in MapBins \ {b} : binLock'[c] = binLock[c]
    <2>1. binLock \in [MapBins -> Threads \union {None}] /\ None \in Threads \union {None}
      BY DEF Inv, Typed
    <2> HIDE DEF b
    <2> QED
      BY <1>1, <1>2, <2>1 DEF Set
  <1>6. Typed'
    BY <1>2, <1>4, <1>5, TypedStep DEF Inv, Typed
  <1>7. FitsAt(t)'
    BY <1>1, <1>2, <1>4 DEF FitsAt, Named, Locked, Making
  <1>8. \A u \in Threads \ {t} : \A c \in MapBins : binLock[c] = u => binLock'[c] = u
    BY <1>1, <1>5
  <1>9. BinsSound' /\ MapHeld' /\ HeldMapped' /\ HeldWalked' /\ OneEach' /\ AllReps' = AllReps
    BY <1>1, <1>2, <1>4, QuietKeeps
  <1>10. Reported'
    <2> SUFFICES ASSUME NEW r \in AllReps, r.hashed # HashOf[r.str]
                 PROVE  \/ <<r.str, HashOf[r.str]>> \in collisions
                        \/ \E u \in Threads : Reports(u, r)'
      BY <1>2, <1>9 DEF Reported
    <2>1. ASSUME NEW u \in Threads, Reports(u, r) PROVE Reports(u, r)'
      BY <1>2, <1>4, <2>1 DEF Reports, Rests, Reporting
    <2> QED
      BY <2>1 DEF Inv, Reported
  <1>11. Fits'
    <2> SUFFICES ASSUME NEW u \in Threads PROVE FitsAt(u)'
      BY DEF Fits
    <2>1. CASE u # t
      BY <1>2, <1>4, <1>8, <1>9, <2>1, OthersFit DEF Inv
    <2> QED
      BY <1>7, <2>1
  <1> QED
    BY <1>6, <1>9, <1>10, <1>11 DEF Inv
\* A string that was moved is in the list from here on.
LEMMA ReportKeeps ==
    ASSUME Inv, NEW t \in Threads, Report(t)
    PROVE  Inv'
  <1>1. /\ pc[t] = "report" /\ strref[t] \in Strings /\ HashOf[strref[t]] \in Hashes
        /\ result[t] \in Reps /\ result[t].str \in Strings
    <2>1. pc[t] = "report" /\ strref[t] \in Strings /\ result[t] \in Reps
      BY Own DEF Report, Goto, FitsAt, Named
    <2> QED
      BY <2>1, UstringAssumption DEF Reps
  <1>2. /\ pc' = Set(pc, t, "answered") /\ strref' = Set(strref, t, strref[t])
        /\ hash' = Set(hash, t, hash[t]) /\ result' = Set(result, t, result[t])
        /\ collisions' = IF hash[t] # HashOf[strref[t]]
                         THEN collisions \union {<<result[t].str, HashOf[strref[t]]>>}
                         ELSE collisions
        /\ UNCHANGED <<entries, reverse_map, binLock, calls, asked>>
    BY Own DEF Report, Goto
  <1>3. "answered" \in Pcs
    BY DEF Pcs
  <1>4. /\ \A u \in Threads \ {t} : Rests(u)
        /\ pc'[t] = "answered"
        /\ pc' \in [Threads -> Pcs] /\ strref' \in [Threads -> MaybeString]
        /\ hash' \in [Threads -> Hashes] /\ result' \in [Threads -> MaybeRep]
    BY <1>2, <1>3, Own, Moves1 DEF Inv
  <1>5. Typed'
    <2>1. collisions' \subseteq Strings \X Hashes
      <3>1. <<result[t].str, HashOf[strref[t]]>> \in Strings \X Hashes
        BY <1>1
      <3>2. collisions \subseteq Strings \X Hashes
        BY DEF Inv, Typed
      <3> QED
        BY ONLY <1>2, <3>1, <3>2
    <2> QED
      BY <1>2, <1>4, <2>1, TypedStep DEF Inv, Typed
  <1>6. FitsAt(t)'
    BY <1>4 DEF FitsAt, Named, Locked, Making
  <1>7. BinsSound' /\ MapHeld' /\ HeldMapped' /\ HeldWalked' /\ OneEach' /\ AllReps' = AllReps
    BY <1>1, <1>2, <1>4, QuietKeeps
  <1>8. Reported'
    <2> SUFFICES ASSUME NEW r \in AllReps, r.hashed # HashOf[r.str]
                 PROVE  \/ <<r.str, HashOf[r.str]>> \in collisions'
                        \/ \E u \in Threads : Reports(u, r)'
      BY <1>7 DEF Reported
    <2>1. ASSUME NEW u \in Threads \ {t}, Reports(u, r) PROVE Reports(u, r)'
      BY <1>4, <2>1 DEF Reports, Rests
    <2>2. ASSUME Reports(t, r) PROVE <<r.str, HashOf[r.str]>> \in collisions'
      BY <1>2, <2>2 DEF Reports
    <2>3. collisions \subseteq collisions'
      BY <1>2
    <2> QED
      BY <2>1, <2>2, <2>3 DEF Inv, Reported
  <1>9. Fits'
    <2> SUFFICES ASSUME NEW u \in Threads PROVE FitsAt(u)'
      BY DEF Fits
    <2>1. CASE u # t
      BY <1>2, <1>4, <1>7, <2>1, OthersFit DEF Inv
    <2> QED
      BY <1>6, <2>1
  <1> QED
    BY <1>5, <1>7, <1>8, <1>9 DEF Inv

\* from_hash looks a hash up.
LEMMA FromHashKeeps ==
    ASSUME Inv, NEW t \in Threads,
           NEW h \in {r.hashed : r \in AllReps} \union {HashOf[s] : s \in Strings}, FromHash(t, h)
    PROVE  Inv'
  <1>1. h \in Hashes
    BY HeldIs, UstringAssumption DEF Inv
  <1>2. /\ pc[t] = "idle" /\ pc' = Set(pc, t, "answered") /\ strref' = Set(strref, t, strref[t])
        /\ hash' = Set(hash, t, hash[t]) /\ result' = Set(result, t, FindHash(h))
        /\ calls < MaxCalls /\ calls' = calls + 1 /\ asked' = Set(asked, t, h)
        /\ UNCHANGED <<entries, reverse_map, collisions, binLock>>
    BY Own DEF FromHash, Goto, table
  <1>3. "answered" \in Pcs /\ FindHash(h) \in MaybeRep
    BY <1>1, Finds DEF Pcs, Inv
  <1>4. /\ \A u \in Threads \ {t} : Rests(u)
        /\ pc'[t] = "answered"
        /\ pc' \in [Threads -> Pcs] /\ strref' \in [Threads -> MaybeString]
        /\ hash' \in [Threads -> Hashes] /\ result' \in [Threads -> MaybeRep]
    BY <1>2, <1>3, Own, Moves1 DEF Inv
  <1>5. Typed'
    <2>1. asked' \in [Threads -> MaybeString \union Hashes]
      BY <1>1, <1>2 DEF Inv, Typed, Set
    <2>2. calls' \in 0..MaxCalls
      <3>1. calls \in 0..MaxCalls /\ MaxCalls \in Nat
        BY UstringAssumption DEF Inv, Typed
      <3> QED
        BY ONLY <1>2, <3>1
    <2> QED
      BY <1>2, <1>4, <2>1, <2>2, TypedStep DEF Inv, Typed
  <1>6. FitsAt(t)'
    BY <1>4 DEF FitsAt, Named, Locked, Making
  <1> QED
    BY <1>2, <1>4, <1>5, <1>6, QuietStep DEF Reporting

\* A call is over.
LEMMA ReturnKeeps ==
    ASSUME Inv, NEW t \in Threads, Return(t)
    PROVE  Inv'
  <1>1. /\ pc[t] = "answered" /\ pc' = Set(pc, t, "idle") /\ strref' = Set(strref, t, None)
        /\ hash' = Set(hash, t, 0) /\ result' = Set(result, t, None) /\ asked' = Set(asked, t, None)
        /\ UNCHANGED <<entries, reverse_map, collisions, binLock, calls>>
    BY DEF Return, Goto, table
  <1>2. "idle" \in Pcs /\ None \in MaybeString /\ None \in MaybeRep /\ 0 \in Hashes
    BY UstringAssumption DEF Pcs, MaybeString, MaybeRep, Hashes
  <1>3. /\ \A u \in Threads \ {t} : Rests(u)
        /\ pc'[t] = "idle"
        /\ pc' \in [Threads -> Pcs] /\ strref' \in [Threads -> MaybeString]
        /\ hash' \in [Threads -> Hashes] /\ result' \in [Threads -> MaybeRep]
    BY <1>1, <1>2, Moves1 DEF Inv
  <1>4. Typed'
    <2>1. asked' \in [Threads -> MaybeString \union Hashes]
      BY <1>1, <1>2 DEF Inv, Typed, Set
    <2> QED
      BY <1>1, <1>3, <2>1, TypedStep DEF Inv, Typed
  <1>5. FitsAt(t)'
    BY <1>3 DEF FitsAt, Named, Locked, Making
  <1> QED
    BY <1>1, <1>3, <1>4, <1>5, QuietStep DEF Reporting

\* A thread that makes a representation is the only one that makes it: no
\* other has the hash, or the string.
LEMMA NewRep ==
    ASSUME Inv, NEW t \in Threads, pc[t] = "insert", NEW q \in AllReps
    PROVE  q.hashed # hash[t] /\ q.str # strref[t]
  <1>1. /\ FitsAt(t) /\ hash[t] \in Hashes /\ strref[t] \in Strings /\ reverse_map[hash[t]] = None
        /\ MapBin(hash[t]) = MapBin(HashOf[strref[t]]) /\ binLock[MapBin(hash[t])] = t
        /\ Walked(strref[t], hash[t]) /\ HashOf[strref[t]] \in Hashes
    <2>1. FitsAt(t) /\ hash[t] \in Hashes /\ strref[t] \in Strings
      BY Own DEF FitsAt, Named
    <2> QED
      BY <2>1, UstringAssumption DEF FitsAt, Locked, Making
  <1>2. q \in Reps /\ q.str \in Strings /\ q.hashed \in Hashes /\ q # None
    BY HeldIs DEF Inv
  <1>3. CASE reverse_map[q.hashed] = q
    <2>1. q.hashed # hash[t]
      BY <1>1, <1>2, <1>3
    <2>2. ASSUME q.str = strref[t] PROVE FALSE
      <3> DEFINE B == Blocked(strref[t])
      <3>1. q.hashed \notin B
        BY <1>3, <2>2 DEF Blocked, SameString
      <3>2. hash[t] \notin B
        BY <1>1 DEF Blocked
      <3>3. q.hashed \in Reach(HashOf[strref[t]], B)
        BY <2>2 DEF Inv, HeldWalked, Walked
      <3>4. hash[t] \in Reach(HashOf[strref[t]], B)
        BY <1>1 DEF Walked
      <3> HIDE DEF B
      <3> QED
        BY <1>1, <2>1, <3>1, <3>2, <3>3, <3>4, OneEnd
    <2> QED
      BY <2>1, <2>2
  <1>4. CASE \E u \in Threads : pc[u] = "insert in map" /\ result[u] = q
    <2>1. PICK u \in Threads : pc[u] = "insert in map" /\ result[u] = q
      BY <1>4
    <2>2. FitsAt(u) /\ u # t
      BY <2>1, Own
    <2>3. /\ binLock[MapBin(hash[u])] = u /\ MapBin(hash[u]) = MapBin(HashOf[strref[u]])
          /\ result[u] = TableRep(strref[u], hash[u])
      BY <2>1, <2>2 DEF FitsAt, Locked
    <2>4. q.hashed = hash[u] /\ q.str = strref[u]
      <3>1. q = TableRep(strref[u], hash[u])
        BY ONLY <2>1, <2>3
      <3> QED
        BY ONLY <3>1 DEF TableRep
    <2> QED
      BY <1>1, <2>2, <2>3, <2>4
  <1> QED
    BY <1>3, <1>4 DEF Inv, HeldMapped

\* The representation is new, and there is no other one after the step than
\* those of before.
LEMMA TableInsertAdds ==
    ASSUME Inv, NEW t \in Threads, TableInsert(t)
    PROVE  LET h == hash[t]
               r == TableRep(strref[t], h)
               b == TableBin(h)
               e == Maintained(WithRep(entries[b], r))
           IN  /\ Bin(e) /\ Held(e) = Held(entries[b]) \union {r} /\ WithRep(entries[b], r) # entries[b]
               /\ AllReps' = AllReps \union {r}
  <1> DEFINE s == strref[t]
             h == hash[t]
             b == TableBin(h)
             r == TableRep(s, h)
             e == Maintained(WithRep(entries[b], r))
  <1>1. /\ pc[t] = "insert" /\ FitsAt(t) /\ h \in Hashes /\ s \in Strings /\ b \in TableBins
        /\ r \in Reps /\ r.hashed = h /\ r.str = s
    <2>1. pc[t] = "insert" /\ FitsAt(t) /\ h \in Hashes /\ s \in Strings
      BY Own DEF TableInsert, Goto, FitsAt, Named
    <2>2. b \in TableBins
      BY <2>1, HashBins
    <2>3. r \in Reps /\ r.hashed = h /\ r.str = s
      BY <2>1 DEF TableRep, Reps
    <2> QED
      BY <2>1, <2>2, <2>3
  <1>2. Bin(e) /\ Held(e) = Held(entries[b]) \union {r} /\ WithRep(entries[b], r) # entries[b]
    <2>1. Bin(entries[b])
      BY <1>1 DEF Inv, BinsSound
    <2>2. \A i \in Used(entries[b]) : entries[b][i].hashed # r.hashed
      <3> SUFFICES ASSUME NEW i \in Used(entries[b]) PROVE entries[b][i].hashed # r.hashed
        OBVIOUS
      <3>1. entries[b][i] \in Held(entries[b])
        BY DEF Held
      <3>2. entries[b][i] \in AllReps
        BY <1>1, <3>1, HeldIs DEF Inv
      <3> QED
        BY <1>1, <3>2, NewRep
    <2> QED
      BY <1>1, <2>1, <2>2, InsertedInBin
  <1>3. entries' = Set(entries, b, e)
    BY <1>2 DEF TableInsert
  <1> HIDE DEF s, h, b, r, e
  <1>6. entries'[b] = e /\ \A c \in TableBins \ {b} : entries'[c] = entries[c]
    BY <1>1, <1>3 DEF Inv, Typed, Set
  <1>9. AllReps' = AllReps \union {r}
    <2>1. \A x : x \in AllReps' <=> \E c \in TableBins : x \in Held(entries'[c])
      BY DEF AllReps, Held
    <2>2. \A x : x \in AllReps <=> \E c \in TableBins : x \in Held(entries[c])
      BY HeldIs DEF Inv
    <2>3. \A c \in TableBins : Held(entries'[c]) = IF c = b THEN Held(entries[b]) \union {r} ELSE Held(entries[c])
      BY <1>2, <1>6
    <2> QED
      BY <1>1, <2>1, <2>2, <2>3
  <1> QED
    BY <1>2, <1>9 DEF s, h, b, r, e

\* Its bin finds it, and all the others.
LEMMA TableInsertKeeps ==
    ASSUME Inv, NEW t \in Threads, TableInsert(t)
    PROVE  Inv'
  <1> DEFINE s == strref[t]
             h == hash[t]
             b == TableBin(h)
             r == TableRep(s, h)
             e == Maintained(WithRep(entries[b], r))
  <1>1. /\ pc[t] = "insert" /\ FitsAt(t) /\ h \in Hashes /\ s \in Strings /\ b \in TableBins
        /\ r \in Reps /\ r.hashed = h /\ r.str = s
    <2>1. pc[t] = "insert" /\ FitsAt(t) /\ h \in Hashes /\ s \in Strings
      BY Own DEF TableInsert, Goto, FitsAt, Named
    <2>2. b \in TableBins
      BY <2>1, HashBins
    <2>3. r \in Reps /\ r.hashed = h /\ r.str = s
      BY <2>1 DEF TableRep, Reps
    <2> QED
      BY <2>1, <2>2, <2>3
  <1>2. Bin(e) /\ Held(e) = Held(entries[b]) \union {r} /\ WithRep(entries[b], r) # entries[b]
    BY TableInsertAdds
  <1>3. /\ pc' = Set(pc, t, "insert in map") /\ strref' = Set(strref, t, s)
        /\ hash' = Set(hash, t, h) /\ result' = Set(result, t, r)
        /\ entries' = Set(entries, b, e)
        /\ UNCHANGED <<reverse_map, collisions, binLock, calls, asked>>
    BY <1>2, Own DEF TableInsert, Goto
  <1>4. "insert in map" \in Pcs /\ r \in MaybeRep
    BY <1>1 DEF Pcs, MaybeRep
  <1> HIDE DEF s, h, b, r, e
  <1>5. /\ \A u \in Threads \ {t} : Rests(u)
        /\ pc'[t] = "insert in map" /\ strref'[t] = s /\ hash'[t] = h /\ result'[t] = r
        /\ pc' \in [Threads -> Pcs] /\ strref' \in [Threads -> MaybeString]
        /\ hash' \in [Threads -> Hashes] /\ result' \in [Threads -> MaybeRep]
    <2>1. s \in MaybeString
      BY <1>1 DEF MaybeString
    <2> QED
      BY <1>1, <1>3, <1>4, <2>1, Moves1 DEF Inv
  <1>6. /\ DOMAIN entries' = TableBins /\ entries'[b] = e
        /\ \A c \in TableBins \ {b} : entries'[c] = entries[c]
    BY <1>1, <1>3 DEF Inv, Typed, Set
  <1>7. Typed'
    BY <1>3, <1>5, <1>6, TypedStep DEF Inv, Typed
  <1>8. BinsSound'
    <2> SUFFICES ASSUME NEW c \in TableBins
                 PROVE  Bin(entries'[c]) /\ \A i \in Used(entries'[c]) : TableBin(entries'[c][i].hashed) = c
      BY DEF BinsSound
    <2>1. CASE c # b
      BY <1>6, <2>1 DEF Inv, BinsSound
    <2>2. CASE c = b
      <3> SUFFICES ASSUME NEW i \in Used(e) PROVE TableBin(e[i].hashed) = b
        BY <1>2, <1>6, <2>2
      <3>1. e[i] \in Held(entries[b]) \union {r}
        BY <1>2 DEF Held
      <3>2. TableBin(r.hashed) = b
        BY <1>1 DEF b
      <3>3. ASSUME e[i] \in Held(entries[b]) PROVE TableBin(e[i].hashed) = b
        BY <1>1, <3>3 DEF Held, Inv, BinsSound
      <3> QED
        BY <3>1, <3>2, <3>3
    <2> QED
      BY <2>1, <2>2
  <1>9. AllReps' = AllReps \union {r}
    BY TableInsertAdds DEF s, h, r
  <1>10. MapHeld'
    BY <1>3, <1>9 DEF Inv, MapHeld
  <1>11. HeldMapped'
    <2> SUFFICES ASSUME NEW x \in AllReps'
                 PROVE  \/ reverse_map'[x.hashed] = x
                        \/ \E u \in Threads : pc'[u] = "insert in map" /\ result'[u] = x
      BY DEF HeldMapped
    <2>1. CASE x = r
      BY <1>5, <2>1
    <2>2. CASE x \in AllReps
      <3>1. \/ reverse_map[x.hashed] = x
            \/ \E u \in Threads : pc[u] = "insert in map" /\ result[u] = x
        BY <2>2 DEF Inv, HeldMapped
      <3> QED
        BY <1>1, <1>3, <1>5, <3>1 DEF Rests
    <2> QED
      BY <1>9, <2>1, <2>2
  <1>12. \A x, y : Walked(x, y) => y \in Reach(HashOf[x], Blocked(x)')
    BY <1>3 DEF Walked, Blocked
  <1>13. Walked(s, h)
    BY <1>1 DEF FitsAt, Locked, s, h
  <1>14. HeldWalked'
    <2> SUFFICES ASSUME NEW x \in AllReps' PROVE Walked(x.str, x.hashed)'
      BY DEF HeldWalked
    <2>1. Walked(x.str, x.hashed)
      BY <1>1, <1>9, <1>13 DEF Inv, HeldWalked
    <2> QED
      BY <1>12, <2>1 DEF Walked
  <1>15. OneEach'
    <2>1. \A q \in AllReps : q.str # r.str
      BY <1>1, NewRep DEF s
    <2> QED
      BY <1>9, <2>1 DEF Inv, OneEach
  <1>16. Reported'
    <2> SUFFICES ASSUME NEW x \in AllReps', x.hashed # HashOf[x.str]
                 PROVE  \/ <<x.str, HashOf[x.str]>> \in collisions'
                        \/ \E u \in Threads : Reports(u, x)'
      BY DEF Reported
    <2>1. CASE x = r
      <3>1. Reports(t, x)'
        BY <1>1, <1>5, <2>1 DEF Reports, Reporting
      <3> QED
        BY <3>1
    <2>2. CASE x \in AllReps
      <3>1. ASSUME NEW u \in Threads, Reports(u, x) PROVE Reports(u, x)'
        BY <1>1, <1>5, <3>1 DEF Reports, Rests, Reporting
      <3> QED
        BY <1>3, <2>2, <3>1 DEF Inv, Reported
    <2> QED
      BY <1>9, <2>1, <2>2
  <1>17. FitsAt(t)'
    <2>1. /\ binLock[MapBin(h)] = t /\ MapBin(h) = MapBin(HashOf[s]) /\ reverse_map[h] = None
      BY <1>1 DEF FitsAt, Locked, Making, s, h
    <2>2. PICK x \in Strings, y \in Hashes : x = s /\ y = h
      BY <1>1
    <2>3. Walked(strref[t], hash[t])'
      <3>1. Walked(x, y)'
        BY <1>12, <1>13, <2>2 DEF Walked
      <3> QED
        BY <1>5, <2>2, <3>1 DEF Walked, Blocked
    <2>4. r = TableRep(s, h)
      BY DEF r
    <2> QED
      BY <1>1, <1>3, <1>5, <1>9, <2>1, <2>3, <2>4 DEF FitsAt, Named, Locked, Making
  <1>18. Fits'
    <2> SUFFICES ASSUME NEW u \in Threads PROVE FitsAt(u)'
      BY DEF Fits
    <2>1. CASE u # t
      BY <1>3, <1>5, <1>9, <2>1, OthersFit DEF Inv
    <2> QED
      BY <1>17, <2>1
  <1> QED
    BY <1>7, <1>8, <1>10, <1>11, <1>14, <1>15, <1>16, <1>18 DEF Inv

\* The reverse map has it, too.
LEMMA MapInsertKeeps ==
    ASSUME Inv, NEW t \in Threads, MapInsert(t)
    PROVE  Inv'
  <1> DEFINE s == strref[t]
             h == hash[t]
             r == result[t]
  <1>1. /\ pc[t] = "insert in map" /\ FitsAt(t) /\ h \in Hashes /\ s \in Strings
        /\ r = TableRep(s, h) /\ r \in AllReps /\ r \in Reps /\ r # None /\ r.hashed = h
        /\ reverse_map[h] = None /\ binLock[MapBin(h)] = t
    <2>1. pc[t] = "insert in map" /\ FitsAt(t) /\ h \in Hashes
      BY Own DEF MapInsert, Goto
    <2>2. /\ s \in Strings /\ r = TableRep(s, h) /\ r \in AllReps
          /\ reverse_map[h] = None /\ binLock[MapBin(h)] = t
      BY <2>1 DEF FitsAt, Named, Locked, Making
    <2>3. r \in Reps /\ r # None
      BY <2>2, HeldIs DEF Inv
    <2>4. r.hashed = h
      BY <2>2 DEF TableRep
    <2> QED
      BY <2>1, <2>2, <2>3, <2>4
  <1>2. /\ pc' = Set(pc, t, "unlock") /\ strref' = Set(strref, t, s)
        /\ hash' = Set(hash, t, h) /\ result' = Set(result, t, r)
        /\ strref' = strref /\ hash' = hash /\ result' = result
        /\ reverse_map' = Set(reverse_map, h, r)
        /\ UNCHANGED <<entries, collisions, binLock, calls, asked>>
    BY Own DEF MapInsert, Goto
  <1> HIDE DEF s, h, r
  <1>3. "unlock" \in Pcs /\ s \in MaybeString /\ r \in MaybeRep
    BY <1>1 DEF Pcs, MaybeString, MaybeRep
  <1>4. /\ \A u \in Threads \ {t} : Rests(u)
        /\ pc'[t] = "unlock" /\ strref'[t] = s /\ hash'[t] = h /\ result'[t] = r
        /\ pc' \in [Threads -> Pcs] /\ strref' \in [Threads -> MaybeString]
        /\ hash' \in [Threads -> Hashes] /\ result' \in [Threads -> MaybeRep]
    <2>1. Typed /\ h \in Hashes
      BY <1>1 DEF Inv
    <2> QED
      BY <1>2, <1>3, <2>1, Moves1
  <1>5. /\ reverse_map' \in [Hashes -> MaybeRep] /\ reverse_map'[h] = r
        /\ \A g \in Hashes \ {h} : reverse_map'[g] = reverse_map[g]
    BY <1>1, <1>2, <1>3 DEF Inv, Typed, Set
  <1>6. Typed'
    BY <1>2, <1>4, <1>5, TypedStep DEF Inv, Typed
  <1>7. AllReps' = AllReps
    <2>1. entries' = entries
      BY <1>2
    <2> QED
      BY ONLY <2>1 DEF AllReps
  <1>8. BinsSound'
    BY <1>2 DEF Inv, BinsSound
  <1>9. MapHeld'
    BY <1>1, <1>5, <1>7 DEF Inv, MapHeld
  <1>10. HeldMapped'
    <2> SUFFICES ASSUME NEW x \in AllReps
                 PROVE  \/ reverse_map'[x.hashed] = x
                        \/ \E u \in Threads : pc'[u] = "insert in map" /\ result'[u] = x
      BY <1>7 DEF HeldMapped
    <2>1. x # None /\ x.hashed \in Hashes
      BY HeldIs DEF Inv
    <2>2. CASE reverse_map[x.hashed] = x
      BY <1>1, <1>5, <2>1, <2>2
    <2>3. CASE \E u \in Threads : pc[u] = "insert in map" /\ result[u] = x
      <3>1. PICK u \in Threads : pc[u] = "insert in map" /\ result[u] = x
        BY <2>3
      <3>2. CASE u = t
        BY <1>1, <1>5, <3>1, <3>2 DEF r
      <3>3. CASE u # t
        BY <1>4, <3>1, <3>3 DEF Rests
      <3> QED
        BY <3>2, <3>3
    <2> QED
      BY <2>2, <2>3 DEF Inv, HeldMapped
  <1>11. \A g \in Hashes : reverse_map[g] # None => reverse_map'[g] = reverse_map[g]
    BY <1>1, <1>5
  <1>12. HeldWalked'
    <2> SUFFICES ASSUME NEW x \in AllReps PROVE Walked(x.str, x.hashed)'
      BY <1>7 DEF HeldWalked
    <2>1. x.str \in Strings /\ Walked(x.str, x.hashed)
      BY HeldIs DEF Inv, HeldWalked
    <2> QED
      BY <1>11, <2>1, WalkedGrows
  <1>13. OneEach'
    BY <1>7 DEF Inv, OneEach
  <1>14. Reported'
    <2> SUFFICES ASSUME NEW x \in AllReps, x.hashed # HashOf[x.str]
                 PROVE  \/ <<x.str, HashOf[x.str]>> \in collisions
                        \/ \E u \in Threads : Reports(u, x)'
      BY <1>2, <1>7 DEF Reported
    <2>1. ASSUME NEW u \in Threads, Reports(u, x) PROVE Reports(u, x)'
      BY <1>2, <1>4, <2>1 DEF Reports, Rests, Reporting
    <2> QED
      BY <2>1 DEF Inv, Reported
  <1>15. FitsAt(t)'
    <2>1. Walked(s, h) /\ MapBin(h) = MapBin(HashOf[s])
      BY <1>1 DEF FitsAt, Locked, s, h
    <2>2. PICK x \in Strings, y \in Hashes : x = s /\ y = h
      BY <1>1
    <2>3. Walked(strref[t], hash[t])'
      <3>1. Walked(x, y)'
        BY <1>11, <2>1, <2>2, WalkedGrows
      <3> QED
        BY <1>4, <2>2, <3>1 DEF Walked, Blocked
    <2> QED
      BY <1>1, <1>2, <1>4, <2>1, <2>3 DEF FitsAt, Named, Locked, Making
  <1>16. Fits'
    <2> SUFFICES ASSUME NEW u \in Threads PROVE FitsAt(u)'
      BY DEF Fits
    <2>1. \A g \in Hashes : \/ reverse_map'[g] = reverse_map[g]
                            \/ reverse_map[g] = None /\ binLock[MapBin(g)] = t
      BY <1>1, <1>5
    <2>2. CASE u # t
      BY <1>2, <1>4, <1>7, <2>1, <2>2, OthersFit DEF Inv
    <2> QED
      BY <1>15, <2>2
  <1> QED
    BY <1>6, <1>8, <1>9, <1>10, <1>12, <1>13, <1>14, <1>16 DEF Inv

\* It holds at first.
LEMMA InitInv ==
    ASSUME Init
    PROVE  Inv
  <1> DEFINE e == [i \in 0..BaseCapacity - 1 |-> None]
  <1>1. \A b \in TableBins : entries[b] = e
    BY DEF Init
  <1>2. Used(e) = {} /\ DOMAIN e = 0..BaseCapacity - 1
    BY DEF Used
  <1>3. Bin(e)
    <2>1. BaseCapacity \in Nat \ {0} /\ PowerOfTwo(BaseCapacity)
      BY UstringAssumption
    <2>2. Sized(e, BaseCapacity)
      BY <2>1 DEF Sized
    <2>3. Findable(e) /\ Unmixed(e)
      BY <1>2 DEF Findable, Unmixed
    <2>4. Cardinality(Used(e)) = 0
      BY <1>2, FS_EmptySet
    <2>5. BaseCapacity \in BaseCapacity..BaseCapacity + 4 * Cardinality(Used(e))
      BY <2>1, <2>4
    <2> HIDE DEF e
    <2> QED
      BY <2>1, <2>2, <2>3, <2>4, <2>5 DEF Bin, Sound
  <1> HIDE DEF e
  <1>4. AllReps = {}
    BY <1>1, <1>2 DEF AllReps
  <1>5. BinsSound
    BY <1>1, <1>2, <1>3 DEF BinsSound
  <1>6. MapHeld /\ HeldMapped /\ HeldWalked /\ OneEach /\ Reported
    BY <1>4 DEF Init, MapHeld, HeldMapped, HeldWalked, OneEach, Reported
  <1>7. Fits
    BY DEF Init, Fits, FitsAt, Named, Locked, Making
  <1>8. Typed
    <2>1. 0 \in Hashes /\ 0 \in 0..MaxCalls
      BY UstringAssumption DEF Hashes
    <2> QED
      BY <2>1 DEF Init, Typed, MaybeRep, MaybeString
  <1> QED
    BY <1>5, <1>6, <1>7, <1>8 DEF Inv

\* Every step keeps it.
LEMMA NextInv ==
    ASSUME Inv, [Next]_vars
    PROVE  Inv'
  <1>1. ASSUME NEW t \in Threads, Step(t) PROVE Inv'
    BY <1>1, LookupKeeps, LockBinKeeps, SearchKeeps, RehashKeeps, TableInsertKeeps, MapInsertKeeps,
       UnlockBinKeeps, ReportKeeps, ReturnKeeps DEF Step
  <1>2. ASSUME UNCHANGED vars PROVE Inv'
    <2>1. /\ UNCHANGED <<entries, reverse_map>>
          /\ UNCHANGED <<collisions, binLock, calls, pc, asked, strref, hash, result>>
      BY <1>2 DEF vars, table
    <2>2. AllReps' = AllReps
      <3>1. entries' = entries
        BY <2>1
      <3> QED
        BY ONLY <3>1 DEF AllReps
    <2>3. Typed' /\ BinsSound'
      BY <2>1 DEF Inv, Typed, BinsSound
    <2>4. Fits'
      BY <2>1, <2>2 DEF Inv, Fits, FitsAt, Walked, Blocked
    <2>5. MapHeld' /\ HeldMapped' /\ OneEach'
      BY <2>1, <2>2 DEF Inv, MapHeld, HeldMapped, OneEach
    <2>6. HeldWalked' /\ Reported'
      BY <2>1, <2>2 DEF Inv, HeldWalked, Reported, Reports, Walked, Blocked
    <2> QED
      BY <2>3, <2>4, <2>5, <2>6 DEF Inv
  <1> QED
    BY <1>1, <1>2, MakeUniqueKeeps, FromHashKeeps DEF Next

LEMMA Invariant == Spec => []Inv
  <1>1. Init => Inv
    BY InitInv
  <1>2. Inv /\ [Next]_vars => Inv'
    BY NextInv
  <1> QED
    BY <1>1, <1>2, PTL DEF Spec
-----------------------------------------------------------------------------
\* The types, for any strings, hashes, threads and bins; no bin has more
\* positions than four times as many as there are strings, and those it began
\* with.
THEOREM TypeCorrect == Spec => []TypeOK
  <1>1. ASSUME Inv PROVE TypeOK
    <2>1. ASSUME NEW b \in TableBins
          PROVE  \E c \in BaseCapacity..BaseCapacity + 4 * Cardinality(Strings) :
                     PowerOfTwo(c) /\ entries[b] \in [0..c - 1 -> Reps \union {None}]
      <3> DEFINE e == entries[b]
                 f == [i \in Used(e) |-> e[i].str]
      <3>1. PICK c \in BaseCapacity..BaseCapacity + 4 * Cardinality(Used(e)) : Sound(e, c)
        BY <1>1 DEF Inv, BinsSound, Bin
      <3>2. \A i \in Used(e) : e[i] \in Held(e) /\ e[i] \in AllReps /\ e[i].str \in Strings
        <4>1. \A i \in Used(e) : e[i] \in Held(e) /\ e[i] \in AllReps
          BY <1>1, HeldIs DEF Inv, Held
        <4> QED
          BY <1>1, <4>1, HeldIs DEF Inv
      <3>3. \A i, j \in Used(e) : e[i].str = e[j].str => i = j
        <4>1. \A i, j \in Used(e) : e[i].str = e[j].str => e[i] = e[j]
          BY <1>1, <3>2 DEF Inv, OneEach
        <4> QED
          BY <3>1, <4>1 DEF Sound, Unmixed
      <3>4. f \in Injection(Used(e), Strings)
        BY <3>2, <3>3 DEF Injection, IsInjective
      <3>5. Cardinality(Used(e)) <= Cardinality(Strings) /\ Cardinality(Strings) \in Nat
        <4> HIDE DEF f, e
        <4> QED
          BY <3>4, FS_Injection, FS_CardinalityType, UstringAssumption
      <3>6. Cardinality(Used(e)) \in Nat /\ BaseCapacity \in Nat
        BY <3>1, Size, UstringAssumption DEF Sound
      <3>7. c \in BaseCapacity..BaseCapacity + 4 * Cardinality(Strings)
        BY <3>1, <3>5, <3>6
      <3>8. PowerOfTwo(c) /\ e \in [0..c - 1 -> Reps \union {None}]
        BY <3>1 DEF Sound, Sized
      <3> QED
        BY <3>7, <3>8
    <2> QED
      BY <1>1, <2>1 DEF Inv, Typed, TypeOK, MaybeRep
  <1> QED
    BY <1>1, Invariant, PTL

\* Whatever was inserted and however often a bin grew, every representation is
\* found by its string and by its hash.
THEOREM RepsFound == Spec => []EveryRepIsFound
  <1>1. ASSUME Inv PROVE EveryRepIsFound
    <2> SUFFICES ASSUME NEW r \in AllReps
                 PROVE  FindString(r.str, r.hashed) = r /\ FindHash(r.hashed) = r
      BY DEF EveryRepIsFound
    <2>1. r.hashed \in Hashes
      BY <1>1, HeldIs DEF Inv
    <2> QED
      BY <1>1, <2>1, Finds DEF Inv
  <1> QED
    BY <1>1, Invariant, PTL

\* No two threads make two representations of one string, whatever its hash
\* collides with, and no hash is given twice.
THEOREM OneRep == Spec => []OneRepEach
  <1>1. ASSUME Inv PROVE OneRepEach
    <2> SUFFICES ASSUME NEW a \in TableBins, NEW b \in TableBins,
                        NEW i \in Used(entries[a]), NEW j \in Used(entries[b]), ~(a = b /\ i = j)
                 PROVE  /\ entries[a][i].str # entries[b][j].str
                        /\ entries[a][i].hashed # entries[b][j].hashed
      BY DEF OneRepEach
    <2> DEFINE q == entries[a][i]
               r == entries[b][j]
    <2>1. q \in Held(entries[a]) /\ r \in Held(entries[b])
      BY DEF Held
    <2>2. q \in AllReps /\ r \in AllReps
      BY <1>1, <2>1, HeldIs DEF Inv
    <2>3. TableBin(q.hashed) = a /\ TableBin(r.hashed) = b
      BY <1>1 DEF Inv, BinsSound
    <2>4. q # r
      <3> SUFFICES ASSUME q = r PROVE FALSE
        OBVIOUS
      <3>1. a = b
        BY <2>3
      <3>2. Unmixed(entries[a])
        BY <1>1 DEF Inv, BinsSound, Bin, Sound
      <3> QED
        BY <3>1, <3>2 DEF Unmixed
    <2> HIDE DEF q, r
    <2>5. q.str # r.str
      BY <1>1, <2>2, <2>4 DEF Inv, OneEach
    <2>6. q.hashed # r.hashed
      BY <1>1, <2>2, <2>4, HashesDiffer DEF Inv
    <2> QED
      BY <2>5, <2>6 DEF q, r
  <1> QED
    BY <1>1, Invariant, PTL

\* Whoever has the bin of the reverse map finds it in agreement with the table.
THEOREM MapsInStep == Spec => []MapsAgree
  <1>1. ASSUME Inv PROVE MapsAgree
    <2> SUFFICES ASSUME NEW h \in Hashes, reverse_map[h] = None,
                        NEW q \in AllReps, q.hashed = h
                 PROVE  \E t \in Threads :
                            binLock[MapBin(h)] = t /\ pc[t] = "insert in map" /\ hash[t] = h
      BY <1>1 DEF MapsAgree, Inv, MapHeld
    <2>1. q # None
      BY <1>1, HeldIs DEF Inv
    <2>2. PICK t \in Threads : pc[t] = "insert in map" /\ result[t] = q
      BY <1>1, <2>1 DEF Inv, HeldMapped
    <2>3. FitsAt(t)
      BY <1>1 DEF Inv, Fits
    <2>4. result[t] = TableRep(strref[t], hash[t]) /\ binLock[MapBin(hash[t])] = t
      BY <2>2, <2>3 DEF FitsAt, Locked
    <2>5. hash[t] = h
      <3>1. q = TableRep(strref[t], hash[t])
        BY ONLY <2>2, <2>4
      <3>2. q.hashed = hash[t]
        BY ONLY <3>1 DEF TableRep
      <3> QED
        BY <3>2
    <2> QED
      BY <2>2, <2>4, <2>5
  <1> QED
    BY <1>1, Invariant, PTL

\* A string that is kept under another hash than its own is known to
\* hash_collisions(), or the thread that moved it has still to report it.
THEOREM CollisionsKnown == Spec => []MovedAreReported
  <1>1. ASSUME Inv PROVE MovedAreReported
    BY <1>1 DEF Inv, Reported, Reports, Reporting, MovedAreReported
  <1> QED
    BY <1>1, Invariant, PTL
-----------------------------------------------------------------------------
(* UstringTable keeps the promise of Interning, as long as no search meets,  *)
(* under its hash, a longer string that begins with its own: the comparison  *)
(* in the reverse map would take it for its own.                             *)

NoPrefixMet == \A t \in Threads :
    LET r == reverse_map[hash[t]]
    IN  pc[t] = "find" /\ r # None /\ SameString(r, strref[t]) => r.str = strref[t]

\* What a call asked for and what it has of it.
Looked == {"lock", "find", "insert", "insert in map", "unlock", "report"}
TalksAt(t) ==
    /\ pc[t] = "idle" => asked[t] = None
    /\ pc[t] \in Named => asked[t] \in Strings /\ Trim[strref[t]] = Trim[asked[t]]
    /\ pc[t] \in Looked => Trim[strref[t]] = strref[t]
    /\ pc[t] \in Reporting => result[t] \in AllReps /\ result[t].str = strref[t]
    /\ pc[t] = "answered" =>
           \/ asked[t] \in Strings /\ result[t] \in AllReps /\ result[t].str = Trim[asked[t]]
           \/ asked[t] \in Hashes
HeldTrimmed == \A r \in AllReps : Trim[r.str] = r.str
Talks == HeldTrimmed /\ \A t \in Threads : TalksAt(t)

\* The table, the questions and the answers of Interning.
TableOf(R) == [s \in {r.str : r \in R} |-> (CHOOSE r \in R : r.str = s).hashed]
AskedOf(a) == IF a \in Strings THEN Trim[a] ELSE a
AnswerOf(p, r) == IF p = "answered" /\ r # None THEN r.str ELSE None
AbsTable == TableOf(AllReps)
AbsAsked == [t \in Threads |-> AskedOf(asked[t])]
AbsAnswer == [t \in Threads |-> AnswerOf(pc[t], result[t])]

\* The table has the hash of every string.
LEMMA TableHas ==
    ASSUME NEW R, \A q, r \in R : q.str = r.str => q = r
    PROVE  /\ DOMAIN TableOf(R) = {r.str : r \in R}
           /\ \A r \in R : r.str \in DOMAIN TableOf(R) /\ TableOf(R)[r.str] = r.hashed
  <1> SUFFICES ASSUME NEW r \in R PROVE TableOf(R)[r.str] = r.hashed
    BY DEF TableOf
  <1> DEFINE q == CHOOSE q \in R : q.str = r.str
  <1>1. q \in R /\ q.str = r.str
    OBVIOUS
  <1>2. q = r
    BY <1>1
  <1>3. TableOf(R)[r.str] = q.hashed
    BY DEF TableOf
  <1> QED
    BY <1>2, <1>3

\* A step of t that adds at most representations of trimmed strings.
LEMMA TalksStep ==
    ASSUME Talks, NEW t \in Threads, \A u \in Threads \ {t} : Rests(u) /\ asked'[u] = asked[u],
           AllReps \subseteq AllReps', \A r \in AllReps' \ AllReps : Trim[r.str] = r.str, TalksAt(t)'
    PROVE  Talks'
  <1>1. HeldTrimmed'
    BY DEF Talks, HeldTrimmed
  <1>2. ASSUME NEW u \in Threads PROVE TalksAt(u)'
    <2>1. CASE u # t
      <3>1. TalksAt(u) /\ asked'[u] = asked[u] /\ Rests(u)
        BY <2>1 DEF Talks
      <3> QED
        BY <3>1 DEF TalksAt, Rests
    <2> QED
      BY <2>1
  <1> QED
    BY <1>1, <1>2 DEF Talks

\* A step of t sets, in the questions and answers, what t asked and was told.
LEMMA AbsStep ==
    ASSUME NEW t \in Threads, \A u \in Threads \ {t} : Rests(u) /\ asked'[u] = asked[u]
    PROVE  /\ AbsAsked' = Ustrings!Set(AbsAsked, t, AskedOf(asked'[t]))
           /\ AbsAnswer' = Ustrings!Set(AbsAnswer, t, AnswerOf(pc'[t], result'[t]))
           /\ AskedOf(asked'[t]) = AskedOf(asked[t]) => AbsAsked' = AbsAsked
           /\ AnswerOf(pc'[t], result'[t]) = AnswerOf(pc[t], result[t]) => AbsAnswer' = AbsAnswer
  <1>1. \A u \in Threads : /\ AbsAsked'[u] = IF u = t THEN AskedOf(asked'[t]) ELSE AbsAsked[u]
                           /\ AbsAnswer'[u] = IF u = t THEN AnswerOf(pc'[t], result'[t]) ELSE AbsAnswer[u]
    BY DEF AbsAsked, AbsAnswer, Rests
  <1>2. /\ AbsAsked = [u \in Threads |-> AskedOf(asked[u])]
        /\ AbsAnswer = [u \in Threads |-> AnswerOf(pc[u], result[u])]
        /\ AbsAsked' = [u \in Threads |-> AskedOf(asked'[u])]
        /\ AbsAnswer' = [u \in Threads |-> AnswerOf(pc'[u], result'[u])]
    BY DEF AbsAsked, AbsAnswer
  <1> QED
    BY <1>1, <1>2 DEF Ustrings!Set

\* What a call does is its own.
LEMMA Others ==
    ASSUME Inv, NEW t \in Threads,
           Step(t) \/ (\E s \in Strings : MakeUnique(t, s)) \/ (\E h \in Hashes : FromHash(t, h))
    PROVE  \A u \in Threads \ {t} : Rests(u) /\ asked'[u] = asked[u]
  <1> SUFFICES ASSUME NEW u \in Threads \ {t} PROVE Rests(u) /\ asked'[u] = asked[u]
    OBVIOUS
  <1>1. /\ pc \in [Threads -> Pcs] /\ asked \in [Threads -> MaybeString \union Hashes]
        /\ strref \in [Threads -> MaybeString] /\ hash \in [Threads -> Hashes]
        /\ result \in [Threads -> MaybeRep]
    BY DEF Inv, Typed, Pcs, MaybeRep, MaybeString
  <1>2. CASE Lookup(t) \/ LockBin(t) \/ Search(t)
    BY <1>1, <1>2 DEF Lookup, LockBin, Search, Goto, Set, Rests
  <1>3. CASE Rehash(t) \/ TableInsert(t) \/ MapInsert(t)
    BY <1>1, <1>3 DEF Rehash, TableInsert, MapInsert, Goto, Set, Rests
  <1>4. CASE UnlockBin(t) \/ Report(t) \/ Return(t)
    BY <1>1, <1>4 DEF UnlockBin, Report, Return, Goto, Set, Rests
  <1>5. CASE \E s \in Strings : MakeUnique(t, s)
    BY <1>1, <1>5 DEF MakeUnique, Goto, Set, Rests
  <1>6. CASE \E h \in Hashes : FromHash(t, h)
    BY <1>1, <1>6 DEF FromHash, Goto, Set, Rests
  <1> QED
    BY <1>2, <1>3, <1>4, <1>5, <1>6 DEF Step

\* The actions of Interning, on what it sees of the table.
LEMMA Seen ==
    /\ UNCHANGED <<AbsTable, AbsAsked, AbsAnswer>> => UNCHANGED Ustrings!vars
    /\ \A t, s : Ustrings!Ask(t, s) <=>
          /\ AbsAsked[t] = None /\ AbsAnswer[t] = None
          /\ AbsAsked' = Ustrings!Set(AbsAsked, t, s) /\ UNCHANGED <<AbsTable, AbsAnswer>>
    /\ \A t : Ustrings!Answer(t) <=>
          /\ AbsAsked[t] \in DOMAIN AbsTable /\ AbsAnswer[t] = None
          /\ AbsAnswer' = Ustrings!Set(AbsAnswer, t, AbsAsked[t]) /\ UNCHANGED <<AbsTable, AbsAsked>>
    /\ \A t : Ustrings!Intern(t) <=>
          /\ AbsAsked[t] \in {Trim[s] : s \in Strings} \ DOMAIN AbsTable
          /\ DOMAIN AbsTable' = DOMAIN AbsTable \union {AbsAsked[t]}
          /\ AbsTable'[AbsAsked[t]] \in Hashes \ {AbsTable[s] : s \in DOMAIN AbsTable}
          /\ \A r \in DOMAIN AbsTable : AbsTable'[r] = AbsTable[r]
          /\ UNCHANGED <<AbsAsked, AbsAnswer>>
    /\ \A t, h : Ustrings!FromHash(t, h) <=>
          /\ AbsAsked[t] = None /\ AbsAnswer[t] = None /\ AbsAsked' = Ustrings!Set(AbsAsked, t, h)
          /\ \/ \E s \in DOMAIN AbsTable :
                   AbsTable[s] = h /\ AbsAnswer' = Ustrings!Set(AbsAnswer, t, s)
             \/ h \notin {AbsTable[s] : s \in DOMAIN AbsTable} /\ UNCHANGED AbsAnswer
          /\ UNCHANGED AbsTable
    /\ \A t : Ustrings!Forget(t) <=>
          /\ AbsAnswer[t] # None \/ AbsAsked[t] \in Hashes
          /\ AbsAsked' = Ustrings!Set(AbsAsked, t, None)
          /\ AbsAnswer' = Ustrings!Set(AbsAnswer, t, None) /\ UNCHANGED AbsTable
  <1> USE DEF AbsTable, AbsAsked, AbsAnswer, TableOf, AskedOf, AnswerOf, RepOf
  <1>1. UNCHANGED <<AbsTable, AbsAsked, AbsAnswer>> => UNCHANGED Ustrings!vars
    BY DEF Ustrings!vars
  <1>2. \A t, s : Ustrings!Ask(t, s) <=>
          /\ AbsAsked[t] = None /\ AbsAnswer[t] = None
          /\ AbsAsked' = Ustrings!Set(AbsAsked, t, s) /\ UNCHANGED <<AbsTable, AbsAnswer>>
    BY DEF Ustrings!Ask, Ustrings!Idle
  <1>3. \A t : Ustrings!Answer(t) <=>
          /\ AbsAsked[t] \in DOMAIN AbsTable /\ AbsAnswer[t] = None
          /\ AbsAnswer' = Ustrings!Set(AbsAnswer, t, AbsAsked[t]) /\ UNCHANGED <<AbsTable, AbsAsked>>
    BY DEF Ustrings!Answer
  <1>4. \A t : Ustrings!Intern(t) <=>
          /\ AbsAsked[t] \in {Trim[s] : s \in Strings} \ DOMAIN AbsTable
          /\ DOMAIN AbsTable' = DOMAIN AbsTable \union {AbsAsked[t]}
          /\ AbsTable'[AbsAsked[t]] \in Hashes \ {AbsTable[s] : s \in DOMAIN AbsTable}
          /\ \A r \in DOMAIN AbsTable : AbsTable'[r] = AbsTable[r]
          /\ UNCHANGED <<AbsAsked, AbsAnswer>>
    BY DEF Ustrings!Intern, Ustrings!Taken
  <1>5. \A t, h : Ustrings!FromHash(t, h) <=>
          /\ AbsAsked[t] = None /\ AbsAnswer[t] = None /\ AbsAsked' = Ustrings!Set(AbsAsked, t, h)
          /\ \/ \E s \in DOMAIN AbsTable :
                   AbsTable[s] = h /\ AbsAnswer' = Ustrings!Set(AbsAnswer, t, s)
             \/ h \notin {AbsTable[s] : s \in DOMAIN AbsTable} /\ UNCHANGED AbsAnswer
          /\ UNCHANGED AbsTable
    BY DEF Ustrings!FromHash, Ustrings!Idle, Ustrings!Taken
  <1>6. \A t : Ustrings!Forget(t) <=>
          /\ AbsAnswer[t] # None \/ AbsAsked[t] \in Hashes
          /\ AbsAsked' = Ustrings!Set(AbsAsked, t, None)
          /\ AbsAnswer' = Ustrings!Set(AbsAnswer, t, None) /\ UNCHANGED AbsTable
    BY DEF Ustrings!Forget
  <1> QED
    BY <1>1, <1>2, <1>3, <1>4, <1>5, <1>6

\* The values of a thread in a call, before and after a step.
LEMMA Before ==
    ASSUME Inv, Talks, NEW t \in Threads
    PROVE  /\ TalksAt(t) /\ FitsAt(t) /\ hash[t] \in Hashes
           /\ None \notin Strings /\ None \notin Hashes /\ Strings \intersect Hashes = {}
           /\ \A s \in Strings : Trim[s] \in Strings /\ Trim[Trim[s]] = Trim[s]
           /\ \A r \in AllReps : r # None /\ r.str \in Strings /\ r.hashed \in Hashes /\ Trim[r.str] = r.str
           /\ AbsAsked[t] = AskedOf(asked[t]) /\ AbsAnswer[t] = AnswerOf(pc[t], result[t])
  <1>1. FitsAt(t) /\ TalksAt(t)
    BY DEF Inv, Fits, Talks
  <1>2. hash[t] \in Hashes
    BY DEF Inv, Typed
  <1>3. /\ None \notin Strings /\ None \notin Hashes /\ Strings \intersect Hashes = {}
        /\ \A s \in Strings : Trim[s] \in Strings /\ Trim[Trim[s]] = Trim[s]
    BY UstringAssumption DEF Hashes
  <1>4. \A r \in AllReps : r # None /\ r.str \in Strings /\ r.hashed \in Hashes /\ Trim[r.str] = r.str
    BY HeldIs DEF Inv, Talks, HeldTrimmed
  <1> QED
    BY <1>1, <1>2, <1>3, <1>4 DEF AbsAsked, AbsAnswer

\* While the bins stay, the table of Interning does.
LEMMA SameTable ==
    ASSUME entries' = entries
    PROVE  AllReps' = AllReps /\ AbsTable' = AbsTable
  <1>1. AllReps' = AllReps
    BY ONLY entries' = entries DEF AllReps
  <1> QED
    BY <1>1 DEF AbsTable

\* A step inside a call that the caller does not see.
LEMMA Unseen ==
    ASSUME Inv, Talks, NEW t \in Threads, entries' = entries,
           \A u \in Threads \ {t} : Rests(u) /\ asked'[u] = asked[u],
           asked'[t] = asked[t], pc[t] # "answered", pc'[t] # "answered", TalksAt(t)'
    PROVE  Talks' /\ UNCHANGED Ustrings!vars
  <1>1. AllReps' = AllReps /\ AbsTable' = AbsTable
    BY SameTable
  <1>2. Talks'
    BY <1>1, TalksStep
  <1>3. AbsAsked' = AbsAsked /\ AbsAnswer' = AbsAnswer
    BY AbsStep DEF AnswerOf
  <1> QED
    BY <1>1, <1>2, <1>3, Seen

\* make_unique asks for what is before the first NUL.
LEMMA MakeUniqueAsks ==
    ASSUME Inv, Talks, NEW t \in Threads, NEW s \in Strings, MakeUnique(t, s)
    PROVE  Talks' /\ Ustrings!Ask(t, Trim[s])
  <1>1. \A u \in Threads \ {t} : Rests(u) /\ asked'[u] = asked[u]
    BY Others
  <1>2. entries' = entries /\ pc[t] = "idle"
    BY DEF MakeUnique, Goto, table
  <1>3. AllReps' = AllReps /\ AbsTable' = AbsTable
    BY <1>2, SameTable
  <1>4. pc'[t] = "lookup" /\ asked'[t] = s /\ strref'[t] = s
    BY DEF MakeUnique, Goto, Set, Inv, Typed
  <1>5. TalksAt(t)'
    BY <1>4 DEF TalksAt, Named, Looked, Reporting
  <1>6. Talks'
    BY <1>1, <1>3, <1>5, TalksStep
  <1>7. AbsAsked[t] = None /\ AbsAnswer[t] = None
    BY <1>2, Before DEF TalksAt, AskedOf, AnswerOf
  <1>8. AskedOf(asked'[t]) = Trim[s] /\ AnswerOf(pc'[t], result'[t]) = AnswerOf(pc[t], result[t])
    BY <1>2, <1>4 DEF AskedOf, AnswerOf
  <1>9. AbsAsked' = Ustrings!Set(AbsAsked, t, Trim[s]) /\ AbsAnswer' = AbsAnswer
    BY <1>1, <1>8, AbsStep
  <1> QED
    BY <1>3, <1>6, <1>7, <1>9, Seen

\* The last step of a call: the answer is the string that was asked for.
LEMMA Answers ==
    ASSUME Inv, Talks, NEW t \in Threads, entries' = entries,
           \A u \in Threads \ {t} : Rests(u) /\ asked'[u] = asked[u],
           asked'[t] = asked[t], asked[t] \in Strings, pc[t] # "answered", pc'[t] = "answered",
           result'[t] \in AllReps, result'[t].str = Trim[asked[t]]
    PROVE  Talks' /\ Ustrings!Answer(t)
  <1>1. AllReps' = AllReps /\ AbsTable' = AbsTable
    BY SameTable
  <1>2. TalksAt(t)'
    BY <1>1 DEF TalksAt, Named, Looked, Reporting
  <1>3. Talks'
    BY <1>1, <1>2, TalksStep
  <1>4. /\ AbsAsked[t] = Trim[asked[t]] /\ AbsAnswer[t] = None
        /\ AskedOf(asked'[t]) = AskedOf(asked[t]) /\ result'[t] # None
    BY Before DEF AskedOf, AnswerOf
  <1>5. AnswerOf(pc'[t], result'[t]) = AbsAsked[t]
    BY <1>4 DEF AnswerOf
  <1>6. AbsAsked' = AbsAsked /\ AbsAnswer' = Ustrings!Set(AbsAnswer, t, AbsAsked[t])
    BY <1>4, <1>5, AbsStep
  <1>7. \A q, r \in AllReps : q.str = r.str => q = r
    BY DEF Inv, OneEach
  <1>8. AbsAsked[t] \in DOMAIN AbsTable
    BY <1>4, <1>7, TableHas DEF AbsTable
  <1> QED
    BY <1>1, <1>3, <1>4, <1>6, <1>8, Seen

LEMMA LookupAnswers ==
    ASSUME Inv, Talks, NEW t \in Threads, Lookup(t)
    PROVE  Talks' /\ (UNCHANGED Ustrings!vars \/ Ustrings!Answer(t))
  <1> DEFINE s == strref[t]
             r == FindString(s, hash[t])
  <1>1. \A u \in Threads \ {t} : Rests(u) /\ asked'[u] = asked[u]
    BY Others DEF Step
  <1>2. entries' = entries /\ pc[t] = "lookup" /\ asked' = asked
    BY DEF Lookup, table
  <1>3. /\ asked[t] \in Strings /\ s \in Strings /\ Trim[s] = Trim[asked[t]] /\ hash[t] \in Hashes
    BY <1>2, Before DEF TalksAt, FitsAt, Named
  <1>4. /\ pc' = Set(pc, t, IF r # None THEN "answered" ELSE IF Trim[s] # s THEN "lookup" ELSE "lock")
        /\ result' = Set(result, t, r)
        /\ IF r = None THEN strref' = Set(strref, t, Trim[s]) ELSE UNCHANGED strref
    BY DEF Lookup
  <1>5. r # None => r = TableRep(s, hash[t]) /\ r \in AllReps
    BY <1>3, Finds DEF Inv
  <1> HIDE DEF r
  <1>6. CASE r # None
    <2>1. pc'[t] = "answered" /\ result'[t] = r
      BY <1>4, <1>6 DEF Set, Inv, Typed
    <2>2. r.str = s
      BY <1>5, <1>6 DEF TableRep
    <2>3. r.str = Trim[asked[t]]
      BY <1>3, <1>5, <1>6, <2>2, Before
    <2> QED
      BY <1>1, <1>2, <1>3, <1>5, <1>6, <2>1, <2>3, Answers
  <1>7. CASE r = None
    <2>1. pc'[t] = (IF Trim[s] # s THEN "lookup" ELSE "lock") /\ strref'[t] = Trim[s]
      BY <1>4, <1>7 DEF Set, Inv, Typed
    <2>2. Trim[Trim[s]] = Trim[s]
      BY <1>3, Before
    <2>3. TalksAt(t)'
      BY <1>2, <1>3, <2>1, <2>2 DEF TalksAt, Named, Looked, Reporting
    <2> QED
      BY <1>1, <1>2, <2>1, <2>3, Unseen
  <1> QED
    BY <1>6, <1>7

\* The caller does not see how its string gets a hash and its place in the
\* reverse map.
LEMMA SettlingIsUnseen ==
    ASSUME Inv, Talks, NEW t \in Threads, NoPrefixMet,
           LockBin(t) \/ Search(t) \/ Rehash(t) \/ MapInsert(t) \/ UnlockBin(t)
    PROVE  Talks' /\ UNCHANGED Ustrings!vars
  <1>1. \A u \in Threads \ {t} : Rests(u) /\ asked'[u] = asked[u]
    BY Others DEF Step
  <1>2. entries' = entries /\ asked' = asked /\ strref' = strref
    BY DEF LockBin, Search, Rehash, MapInsert, UnlockBin, table
  <1>3. AllReps' = AllReps
    BY <1>2, SameTable
  <1>4. CASE LockBin(t) \/ Rehash(t)
    <2>1. pc[t] \in {"lock", "find"} /\ pc'[t] = "find"
      BY <1>4 DEF LockBin, Rehash, Goto, Set, Inv, Typed
    <2>2. TalksAt(t)'
      BY <1>2, <2>1, Before DEF TalksAt, Named, Looked, Reporting
    <2> QED
      BY <1>1, <1>2, <2>1, <2>2, Unseen
  <1>5. CASE Search(t)
    <2> DEFINE r == reverse_map[hash[t]]
    <2>1. /\ pc[t] = "find"
          /\ \/ r = None /\ pc'[t] = "insert"
             \/ r # None /\ SameString(r, strref[t]) /\ pc'[t] = "unlock" /\ result'[t] = r
      BY <1>5 DEF Search, Set, Inv, Typed
    <2>2. r # None => r \in AllReps
      BY Before DEF Inv, MapHeld
    <2>3. r # None /\ SameString(r, strref[t]) => r.str = strref[t]
      BY <2>1 DEF NoPrefixMet
    <2> HIDE DEF r
    <2>4. TalksAt(t)'
      BY <1>2, <1>3, <2>1, <2>2, <2>3, Before DEF TalksAt, Named, Looked, Reporting
    <2> QED
      BY <1>1, <1>2, <2>1, <2>4, Unseen
  <1>6. CASE MapInsert(t) \/ UnlockBin(t)
    <2>1. /\ pc[t] \in {"insert in map", "unlock"} /\ pc'[t] \in {"unlock", "report"}
          /\ result' = result
      BY <1>6 DEF MapInsert, UnlockBin, Goto, Set, Inv, Typed
    <2>2. TalksAt(t)'
      BY <1>2, <1>3, <2>1, Before DEF TalksAt, Named, Looked, Reporting
    <2> QED
      BY <1>1, <1>2, <2>1, <2>2, Unseen
  <1> QED
    BY <1>4, <1>5, <1>6

LEMMA ReportAnswers ==
    ASSUME Inv, Talks, NEW t \in Threads, Report(t)
    PROVE  Talks' /\ Ustrings!Answer(t)
  <1>1. \A u \in Threads \ {t} : Rests(u) /\ asked'[u] = asked[u]
    BY Others DEF Step
  <1>2. pc[t] = "report" /\ pc'[t] = "answered" /\ UNCHANGED <<entries, asked, strref, result>>
    BY DEF Report, Goto, Set, Inv, Typed
  <1>3. /\ asked[t] \in Strings /\ result[t] \in AllReps /\ result[t].str = strref[t]
        /\ Trim[strref[t]] = Trim[asked[t]] /\ Trim[strref[t]] = strref[t]
    BY <1>2, Before DEF TalksAt, Named, Looked, Reporting
  <1> QED
    BY <1>1, <1>2, <1>3, Answers

\* The string is new, and so is its hash.
LEMMA TableInsertInterns ==
    ASSUME Inv, Talks, NEW t \in Threads, TableInsert(t)
    PROVE  Talks' /\ Ustrings!Intern(t)
  <1> DEFINE s == strref[t]
             h == hash[t]
             r == TableRep(s, h)
  <1>1. \A u \in Threads \ {t} : Rests(u) /\ asked'[u] = asked[u]
    BY Others DEF Step
  <1>2. AllReps' = AllReps \union {r}
    BY TableInsertAdds
  <1>3. /\ pc[t] = "insert" /\ pc'[t] = "insert in map" /\ result'[t] = r
        /\ strref' = strref /\ asked' = asked
    BY DEF TableInsert, Goto, Set, Inv, Typed
  <1>4. /\ s \in Strings /\ asked[t] \in Strings /\ Trim[s] = s /\ Trim[asked[t]] = s /\ h \in Hashes
        /\ r.str = s /\ r.hashed = h
    <2>1. TalksAt(t) /\ FitsAt(t) /\ h \in Hashes
      BY Before
    <2>2. s \in Strings /\ asked[t] \in Strings /\ Trim[s] = s /\ Trim[asked[t]] = s
      BY <1>3, <2>1 DEF TalksAt, FitsAt, Named, Looked
    <2> QED
      BY <2>1, <2>2 DEF TableRep
  <1>5. \A q \in AllReps : q.hashed # h /\ q.str # s
    BY <1>3, NewRep
  <1> HIDE DEF r, s, h
  <1>6. TalksAt(t)'
    BY <1>2, <1>3, <1>4 DEF TalksAt, Named, Looked, Reporting, s
  <1>7. Talks'
    BY <1>1, <1>2, <1>4, <1>6, TalksStep
  <1>8. AbsAsked' = AbsAsked /\ AbsAnswer' = AbsAnswer
    BY <1>1, <1>3, AbsStep DEF AnswerOf
  <1>9. AbsAsked[t] = s
    BY <1>4, Before DEF AskedOf
  <1>10. /\ DOMAIN AbsTable = {q.str : q \in AllReps}
         /\ \A q \in AllReps : q.str \in DOMAIN AbsTable /\ AbsTable[q.str] = q.hashed
    BY TableHas DEF AbsTable, Inv, OneEach
  <1>11. /\ DOMAIN AbsTable' = {q.str : q \in AllReps'}
         /\ \A q \in AllReps' : q.str \in DOMAIN AbsTable' /\ AbsTable'[q.str] = q.hashed
    <2>1. \A p, q \in AllReps' : p.str = q.str => p = q
      BY <1>2, <1>4, <1>5 DEF Inv, OneEach
    <2>2. AbsTable' = TableOf(AllReps')
      BY DEF AbsTable, TableOf
    <2> QED
      BY <2>1, <2>2, TableHas
  <1>12. DOMAIN AbsTable' = DOMAIN AbsTable \union {s} /\ s \notin DOMAIN AbsTable
    BY <1>2, <1>4, <1>5, <1>10, <1>11
  <1>13. AbsTable'[s] = h /\ h \notin {AbsTable[x] : x \in DOMAIN AbsTable}
    BY <1>2, <1>4, <1>5, <1>10, <1>11
  <1>14. \A x \in DOMAIN AbsTable : AbsTable'[x] = AbsTable[x]
    BY <1>2, <1>10, <1>11
  <1>15. s \in {Trim[x] : x \in Strings}
    BY <1>4
  <1> QED
    BY <1>4, <1>7, <1>8, <1>9, <1>12, <1>13, <1>14, <1>15, Seen

\* from_hash: the string that has the hash, or nothing if none has.
LEMMA FromHashAnswers ==
    ASSUME Inv, Talks, NEW t \in Threads, NEW h \in Hashes, FromHash(t, h)
    PROVE  Talks' /\ Ustrings!FromHash(t, h)
  <1> DEFINE r == FindHash(h)
  <1>1. \A u \in Threads \ {t} : Rests(u) /\ asked'[u] = asked[u]
    BY Others
  <1>2. /\ pc[t] = "idle" /\ pc'[t] = "answered" /\ entries' = entries
        /\ asked'[t] = h /\ result'[t] = r
    BY DEF FromHash, Goto, Set, Inv, Typed, table
  <1>3. AllReps' = AllReps /\ AbsTable' = AbsTable
    BY <1>2, SameTable
  <1>4. Talks'
    <2>1. TalksAt(t)'
      BY <1>2 DEF TalksAt, Named, Looked, Reporting
    <2> QED
      BY <1>1, <1>3, <2>1, TalksStep
  <1>5. AbsAsked[t] = None /\ AbsAnswer[t] = None
    BY <1>2, Before DEF TalksAt, AskedOf, AnswerOf
  <1>6. AskedOf(asked'[t]) = h
    BY <1>2, Before DEF AskedOf
  <1>7. AbsAsked' = Ustrings!Set(AbsAsked, t, h)
    BY <1>1, <1>6, AbsStep
  <1>8. /\ DOMAIN AbsTable = {q.str : q \in AllReps}
        /\ \A q \in AllReps : q.str \in DOMAIN AbsTable /\ AbsTable[q.str] = q.hashed
    BY TableHas DEF AbsTable, Inv, OneEach
  <1>9. /\ r # None => r \in AllReps /\ r.hashed = h
        /\ \A q \in AllReps : q.hashed = h => q = r
    <2>1. PICK s : s = None
      OBVIOUS
    <2> QED
      BY <2>1, Finds DEF Inv
  <1> HIDE DEF r
  <1>10. CASE r # None
    <2>1. AnswerOf(pc'[t], result'[t]) = r.str
      BY <1>2, <1>10 DEF AnswerOf
    <2>2. AbsAnswer' = Ustrings!Set(AbsAnswer, t, r.str)
      BY <1>1, <2>1, AbsStep
    <2>3. r.str \in DOMAIN AbsTable /\ AbsTable[r.str] = h
      BY <1>8, <1>9, <1>10
    <2> QED
      BY <1>3, <1>4, <1>5, <1>7, <2>2, <2>3, Seen
  <1>11. CASE r = None
    <2>1. AnswerOf(pc'[t], result'[t]) = AnswerOf(pc[t], result[t])
      BY <1>2, <1>11 DEF AnswerOf
    <2>2. AbsAnswer' = AbsAnswer
      BY <1>1, <2>1, AbsStep
    <2>3. h \notin {AbsTable[s] : s \in DOMAIN AbsTable}
      BY <1>8, <1>9, <1>11, Before
    <2> QED
      BY <1>3, <1>4, <1>5, <1>7, <2>2, <2>3, Seen
  <1> QED
    BY <1>10, <1>11

LEMMA ReturnForgets ==
    ASSUME Inv, Talks, NEW t \in Threads, Return(t)
    PROVE  Talks' /\ Ustrings!Forget(t)
  <1>1. \A u \in Threads \ {t} : Rests(u) /\ asked'[u] = asked[u]
    BY Others DEF Step
  <1>2. pc[t] = "answered" /\ pc'[t] = "idle" /\ entries' = entries /\ asked'[t] = None
    BY DEF Return, Goto, Set, Inv, Typed, table
  <1>3. AllReps' = AllReps /\ AbsTable' = AbsTable
    BY <1>2, SameTable
  <1>4. Talks'
    <2>1. TalksAt(t)'
      BY <1>2 DEF TalksAt, Named, Looked, Reporting
    <2> QED
      BY <1>1, <1>3, <2>1, TalksStep
  <1>5. AskedOf(asked'[t]) = None /\ AnswerOf(pc'[t], result'[t]) = None
    BY <1>2, Before DEF AskedOf, AnswerOf
  <1>6. AbsAsked' = Ustrings!Set(AbsAsked, t, None) /\ AbsAnswer' = Ustrings!Set(AbsAnswer, t, None)
    BY <1>1, <1>5, AbsStep
  <1>7. AbsAnswer[t] # None \/ AbsAsked[t] \in Hashes
    <2>1. TalksAt(t)
      BY Before
    <2>2. CASE asked[t] \in Hashes
      BY <2>2, Before DEF AskedOf
    <2>3. CASE result[t] \in AllReps
      BY <1>2, <2>3, Before DEF AnswerOf
    <2> QED
      BY <1>2, <2>1, <2>2, <2>3 DEF TalksAt
  <1> QED
    BY <1>3, <1>4, <1>6, <1>7, Seen

\* As long as no search meets a string that begins with its own, whatever the
\* threads do to the bins of the table and of the reverse map is one of the
\* steps of Interning, or nothing: a string is made unique once, under a hash
\* that no other has, and whoever asks for either is given that string.
THEOREM KeepsPromise == Spec /\ []NoPrefixMet => InternsStrings
  <1>1. Init => Talks /\ Ustrings!Init
    <2> SUFFICES ASSUME Init PROVE Talks /\ Ustrings!Init
      OBVIOUS
    <2>1. AllReps = {}
      <3>1. \A b \in TableBins : Used(entries[b]) = {}
        BY DEF Init, Used
      <3> QED
        BY <3>1 DEF AllReps
    <2>2. /\ \A t \in Threads : pc[t] = "idle" /\ asked[t] = None
      BY DEF Init
    <2>3. Talks
      BY <2>1, <2>2 DEF Talks, HeldTrimmed, TalksAt, Named, Looked, Reporting
    <2>4. None \notin Strings
      BY UstringAssumption
    <2>5. Ustrings!Init
      BY <2>1, <2>2, <2>4 DEF Ustrings!Init
    <2> QED
      BY <2>3, <2>5
  <1>2. Inv /\ Talks /\ NoPrefixMet /\ [Next]_vars => Talks' /\ [Ustrings!Next]_Ustrings!vars
    <2> SUFFICES ASSUME Inv, Talks, NoPrefixMet, [Next]_vars
                 PROVE  Talks' /\ (Ustrings!Next \/ UNCHANGED Ustrings!vars)
      OBVIOUS
    <2>1. ASSUME NEW t \in Threads, Step(t)
          PROVE  Talks' /\ (Ustrings!Next \/ UNCHANGED Ustrings!vars)
      <3>1. CASE Lookup(t) \/ Report(t)
        <4>1. Talks' /\ (Ustrings!Answer(t) \/ UNCHANGED Ustrings!vars)
          BY <3>1, LookupAnswers, ReportAnswers
        <4> QED
          BY <4>1 DEF Ustrings!Next
      <3>2. CASE LockBin(t) \/ Search(t) \/ Rehash(t) \/ MapInsert(t) \/ UnlockBin(t)
        BY <3>2, SettlingIsUnseen
      <3>3. CASE TableInsert(t)
        BY <3>3, TableInsertInterns DEF Ustrings!Next
      <3>4. CASE Return(t)
        BY <3>4, ReturnForgets DEF Ustrings!Next
      <3> QED
        BY <2>1, <3>1, <3>2, <3>3, <3>4 DEF Step
    <2>2. ASSUME NEW t \in Threads, NEW s \in Strings, MakeUnique(t, s)
          PROVE  Talks' /\ Ustrings!Next
      <3>1. Talks' /\ Ustrings!Ask(t, Trim[s]) /\ Trim[s] \in {Trim[x] : x \in Strings}
        BY <2>2, MakeUniqueAsks
      <3> QED
        BY <3>1 DEF Ustrings!Next
    <2>3. ASSUME NEW t \in Threads,
                 NEW h \in {r.hashed : r \in AllReps} \union {HashOf[s] : s \in Strings}, FromHash(t, h)
          PROVE  Talks' /\ Ustrings!Next
      <3>1. h \in Hashes
        BY HeldIs, UstringAssumption DEF Inv
      <3>2. Talks' /\ Ustrings!FromHash(t, h)
        BY <2>3, <3>1, FromHashAnswers
      <3> QED
        BY <3>1, <3>2 DEF Ustrings!Next
    <2>4. CASE UNCHANGED vars
      <3>1. /\ entries' = entries /\ UNCHANGED <<pc, asked, strref, result>>
        BY <2>4 DEF vars, table
      <3>2. AllReps' = AllReps /\ AbsTable' = AbsTable
        BY <3>1, SameTable
      <3>3. Talks'
        BY <3>1, <3>2 DEF Talks, HeldTrimmed, TalksAt
      <3>4. AbsAsked' = AbsAsked /\ AbsAnswer' = AbsAnswer
        BY <3>1 DEF AbsAsked, AbsAnswer
      <3> QED
        BY <3>2, <3>3, <3>4, Seen
    <2> QED
      BY <2>1, <2>2, <2>3, <2>4 DEF Next
  <1> QED
    BY <1>1, <1>2, Invariant, PTL DEF Spec, InternsStrings, Ustrings!Spec
=============================================================================
