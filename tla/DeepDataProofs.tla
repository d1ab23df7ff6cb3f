--------------------------- MODULE DeepDataProofs ---------------------------
(***************************************************************************)
(* The proofs about DeepData.                                              *)
(***************************************************************************)
EXTENDS DeepData, DataLemmas, SequenceTheorems

\* What the assumption says of the constants.
LEMMA Consts ==
    /\ NPixels \in Nat \ {0} /\ Pixels = 1..NPixels /\ Pixels \subseteq Nat
    /\ MaxCapacity \in Nat /\ MaxCalls \in Nat /\ MaxDepth \in Nat
    /\ Depths \subseteq Nat /\ 0 \in Depths /\ Zero \in Samples
    /\ Written \subseteq Samples
    /\ \A s \in Loaded : s \in Seq(Samples)
  <1>1. /\ NPixels \in Nat \ {0} /\ Pixels = 1..NPixels /\ Pixels \subseteq Nat
        /\ MaxCapacity \in Nat /\ MaxCalls \in Nat /\ MaxDepth \in Nat
        /\ Depths \subseteq Nat /\ 0 \in Depths /\ Written \subseteq Samples
    BY DeepAssumption DEF Pixels, Depths
  <1>2. Zero \in Samples
    BY <1>1 DEF Zero, Samples
  <1>3. \A s \in Loaded : s \in Seq(Samples)
    BY <1>1, DeepAssumption, SeqMonotonic
  <1> QED
    BY <1>1, <1>2, <1>3

-----------------------------------------------------------------------------
\* The loops of n steps within a set G, and the runs of one that begins at x.
Steps(G, n) == [G -> [1..n -> G]]
RunsOf(G, n, x, g) == {y \in [0..n -> G] : y[0] = x /\ \A k \in 1..n : y[k] = g[y[k - 1]][k]}

\* Every loop can be run.
LEMMA Runs ==
    ASSUME NEW n \in Nat, NEW G, NEW x \in G, NEW g \in Steps(G, n)
    PROVE  RunsOf(G, n, x, g) # {}
  <1> DEFINE R(m, y) == y[0] = x /\ \A k \in 1..m : y[k] = g[y[k - 1]][k]
             M == {m \in Nat : m <= n => \E y \in [0..m -> G] : R(m, y)}
  <1>1. 0 \in M
    <2>1. [k \in 0..0 |-> x] \in [0..0 -> G] /\ R(0, [k \in 0..0 |-> x])
      OBVIOUS
    <2> QED
      BY <2>1
  <1>2. ASSUME NEW m \in Nat, m \in M PROVE m + 1 \in M
    <2>1. ASSUME m + 1 <= n PROVE \E y \in [0..(m + 1) -> G] : R(m + 1, y)
      <3>1. m <= n /\ m + 1 \in 1..n
        BY <2>1
      <3>2. PICK y \in [0..m -> G] : R(m, y)
        <4> HIDE DEF R
        <4> QED
          BY <1>2, <3>1
      <3> DEFINE next == g[y[m]][m + 1]
                 z == [k \in 0..(m + 1) |-> IF k = m + 1 THEN next ELSE y[k]]
      <3>3. next \in G
        BY <3>1 DEF Steps
      <3> HIDE DEF next
      <3>4. /\ z \in [0..(m + 1) -> G] /\ z[m + 1] = next
            /\ \A k \in 0..m : z[k] = y[k]
        BY <3>3
      <3> HIDE DEF z
      <3>5. ASSUME NEW k \in 1..(m + 1) PROVE z[k] = g[z[k - 1]][k]
        <4>1. CASE k = m + 1
          <5>1. k - 1 = m /\ m \in 0..m
            BY <4>1
          <5> QED
            BY <3>4, <4>1, <5>1 DEF next
        <4>2. CASE k # m + 1
          <5>1. k \in 1..m /\ k \in 0..m /\ k - 1 \in 0..m
            BY <4>2
          <5> QED
            BY <3>2, <3>4, <5>1
        <4> QED
          BY <4>1, <4>2
      <3>6. z[0] = x
        BY <3>2, <3>4
      <3>7. R(m + 1, z)
        BY <3>5, <3>6
      <3> HIDE DEF R
      <3> QED
        BY <3>4, <3>7
    <2> HIDE DEF R
    <2> QED
      BY <2>1
  <1>3. n \in M
    <2> HIDE DEF M
    <2> QED
      BY <1>1, <1>2, InductiveSet
  <1> QED
    BY <1>3 DEF RunsOf

\* What holds before a loop and is kept by its steps holds after it.
LEMMA Stays ==
    ASSUME NEW n \in Nat, NEW G, NEW y, y[0] \in G,
           \A k \in 1..n : y[k - 1] \in G => y[k] \in G
    PROVE  \A k \in 0..n : y[k] \in G
  <1> DEFINE M == {m \in Nat : m <= n => y[m] \in G}
  <1>1. 0 \in M
    OBVIOUS
  <1>2. ASSUME NEW m \in Nat, m \in M PROVE m + 1 \in M
    <2>1. m + 1 <= n => m + 1 \in 1..n /\ (m + 1) - 1 = m
      OBVIOUS
    <2> QED
      BY <1>2, <2>1
  <1>3. Nat \subseteq M
    <2> HIDE DEF M
    <2> QED
      BY <1>1, <1>2, InductiveSet
  <1> QED
    BY <1>3

-----------------------------------------------------------------------------
\* The sums of the capacities.
LEMMA Sums ==
    ASSUME NEW c \in [Pixels -> Nat], NEW n \in 0..NPixels
    PROVE  \E f \in [0..n -> Nat] :
              f = [k \in 0..n |-> IF k = 0 THEN 0 ELSE f[k - 1] + c[k]]
  <1> USE Consts
  <1> DEFINE g == [m \in Nat |-> [k \in 1..n |-> m + c[k]]]
  <1>1. g \in [Nat -> [1..n -> Nat]] /\ \A m \in Nat, k \in 1..n : g[m][k] = m + c[k]
    OBVIOUS
  <1> HIDE DEF g
  <1> HIDE Consts
  <1>2. PICK y \in [0..n -> Nat] : y[0] = 0 /\ \A k \in 1..n : y[k] = g[y[k - 1]][k]
    <2>1. n \in Nat /\ 0 \in Nat
      BY Consts
    <2>2. g \in Steps(Nat, n)
      BY <1>1 DEF Steps
    <2>3. RunsOf(Nat, n, 0, g) # {}
      BY <2>1, <2>2, Runs
    <2> QED
      BY <2>3 DEF RunsOf
  <1>3. ASSUME NEW k \in 1..n PROVE y[k] = y[k - 1] + c[k]
    <2>1. y[k - 1] \in Nat
      BY Consts
    <2> QED
      BY <1>1, <1>2, <2>1
  <1>4. \A k \in 0..n : y[k] = IF k = 0 THEN 0 ELSE y[k - 1] + c[k]
    BY <1>2, <1>3
  <1> QED
    BY <1>4

\* A pixel's place is such a sum.
LEMMA BeforeIs ==
    ASSUME NEW d, d.capacity \in [Pixels -> Nat], NEW p \in 1..(NPixels + 1)
    PROVE  \E f \in [0..(p - 1) -> Nat] :
              /\ f[0] = 0 /\ \A k \in 1..(p - 1) : f[k] = f[k - 1] + d.capacity[k]
              /\ Before(d, p) = f[p - 1]
  <1> USE Consts
  <1> DEFINE n == p - 1
             F == CHOOSE f : f = [k \in 0..n |-> IF k = 0 THEN 0 ELSE f[k - 1] + d.capacity[k]]
  <1>1. n \in 0..NPixels
    OBVIOUS
  <1>2. PICK f \in [0..n -> Nat] :
              f = [k \in 0..n |-> IF k = 0 THEN 0 ELSE f[k - 1] + d.capacity[k]]
    BY <1>1, Sums
  <1>3. F = [k \in 0..n |-> IF k = 0 THEN 0 ELSE F[k - 1] + d.capacity[k]]
    BY <1>2, Zenon
  <1>4. Before(d, p) = F[n]
    BY DEF Before, Repeat
  <1> PICK G : G = F
    OBVIOUS
  <1> PICK c \in [Pixels -> Nat] : c = d.capacity
    OBVIOUS
  <1>5. G = [k \in 0..n |-> IF k = 0 THEN 0 ELSE G[k - 1] + c[k]]
    BY <1>3, Zenon
  <1>6. Before(d, p) = G[n]
    BY <1>4
  <1> HIDE DEF F, n
  <1>7. \A k \in 0..n : G[k] = IF k = 0 THEN 0 ELSE G[k - 1] + c[k]
    BY <1>5, Zenon
  <1>8. G[0] = 0 /\ \A k \in 1..n : G[k] = G[k - 1] + c[k]
    BY <1>1, <1>7
  <1>9. ASSUME NEW k \in 1..n, G[k - 1] \in Nat PROVE G[k] \in Nat
    <2>1. c[k] \in Nat
      BY <1>1
    <2> QED
      BY <1>8, <1>9, <2>1
  <1>10. \A k \in 0..n : G[k] \in Nat
    <2>1. n \in Nat /\ G[0] \in Nat
      BY <1>1, <1>8
    <2>2. \A k \in 1..n : G[k - 1] \in Nat => G[k] \in Nat
      BY <1>9
    <2> QED
      BY <2>1, <2>2, Stays, Zenon
  <1>11. G \in [0..n -> Nat]
    <2>1. G = [k \in 0..n |-> G[k]]
      BY <1>5, <1>7, Zenon
    <2> QED
      BY <1>10, <2>1, Zenon
  <1> QED
    BY <1>6, <1>8, <1>11 DEF n

\* The first pixel is at 0, and each of the others is where the one before it ends.
LEMMA BeforeStep ==
    ASSUME NEW d, d.capacity \in [Pixels -> Nat]
    PROVE  /\ Before(d, 1) = 0
           /\ \A p \in Pixels : Before(d, p + 1) = Before(d, p) + d.capacity[p]
           /\ \A p \in 1..(NPixels + 1) : Before(d, p) \in Nat
  <1> PICK c \in [Pixels -> Nat] : c = d.capacity
    OBVIOUS
  <1>1. ASSUME NEW p \in 1..(NPixels + 1)
        PROVE  \E f \in [0..(p - 1) -> Nat] :
                  /\ f[0] = 0 /\ \A k \in 1..(p - 1) : f[k] = f[k - 1] + c[k]
                  /\ Before(d, p) = f[p - 1]
    BY BeforeIs, Zenon
  <1>2. Before(d, 1) = 0
    <2>1. 1 \in 1..(NPixels + 1) /\ 1 - 1 = 0
      BY Consts
    <2> QED
      BY <1>1, <2>1
  <1>3. ASSUME NEW p \in 1..(NPixels + 1) PROVE Before(d, p) \in Nat
    <2>1. p - 1 \in 0..(p - 1)
      BY Consts
    <2>2. PICK f \in [0..(p - 1) -> Nat] : Before(d, p) = f[p - 1]
      BY <1>1
    <2> QED
      BY <2>1, <2>2
  <1>4. ASSUME NEW p \in Pixels PROVE Before(d, p + 1) = Before(d, p) + c[p]
    <2>1. /\ p \in 1..(NPixels + 1) /\ p + 1 \in 1..(NPixels + 1) /\ (p + 1) - 1 = p
          /\ p - 1 \in Nat /\ p \in 1..p /\ p \in Nat /\ c[p] \in Nat
      BY Consts
    <2>2. PICK f \in [0..(p - 1) -> Nat] :
              /\ f[0] = 0 /\ \A k \in 1..(p - 1) : f[k] = f[k - 1] + c[k]
              /\ Before(d, p) = f[p - 1]
      BY <1>1, <2>1
    <2>3. PICK g \in [0..p -> Nat] :
              /\ g[0] = 0 /\ \A k \in 1..p : g[k] = g[k - 1] + c[k]
              /\ Before(d, p + 1) = g[p]
      <3>1. \E g \in [0..((p + 1) - 1) -> Nat] :
                  /\ g[0] = 0 /\ \A k \in 1..((p + 1) - 1) : g[k] = g[k - 1] + c[k]
                  /\ Before(d, p + 1) = g[(p + 1) - 1]
        BY <1>1, <2>1, Zenon
      <3> QED
        BY <2>1, <3>1
    <2> DEFINE M == {m \in Nat : m <= p - 1 => f[m] = g[m]}
    <2>4. 0 \in M
      BY <2>2, <2>3
    <2>5. ASSUME NEW m \in Nat, m \in M PROVE m + 1 \in M
      <3>1. CASE m + 1 <= p - 1
        <4>1. m + 1 \in 1..(p - 1) /\ m + 1 \in 1..p /\ (m + 1) - 1 = m /\ m <= p - 1
          BY <2>1, <3>1
        <4>2. f[m + 1] = f[m] + c[m + 1] /\ g[m + 1] = g[m] + c[m + 1]
          BY <2>2, <2>3, <4>1
        <4> QED
          BY <2>5, <4>1, <4>2
      <3>2. CASE ~(m + 1 <= p - 1)
        BY <3>2
      <3> QED
        BY <3>1, <3>2
    <2>6. Nat \subseteq M
      <3> HIDE DEF M
      <3> QED
        BY <2>4, <2>5, InductiveSet
    <2>7. f[p - 1] = g[p - 1]
      BY <2>1, <2>6
    <2>8. g[p] = g[p - 1] + c[p]
      BY <2>1, <2>3
    <2> QED
      BY <2>2, <2>3, <2>7, <2>8
  <1> QED
    BY <1>2, <1>3, <1>4

\* What is true of the first pixel's place, and of each place if it is of the
\* one before, is true of all.
LEMMA PlaceInduction ==
    ASSUME NEW S, 1 \in S, \A p \in Pixels : p \in S => p + 1 \in S
    PROVE  1..(NPixels + 1) \subseteq S
  <1> DEFINE M == {m \in Nat : m <= NPixels => m + 1 \in S}
  <1>1. 0 \in M
    OBVIOUS
  <1>2. ASSUME NEW m \in Nat, m \in M PROVE m + 1 \in M
    <2>1. m + 1 <= NPixels => m + 1 \in Pixels
      BY Consts
    <2> QED
      BY <1>2, <2>1, Consts
  <1>3. Nat \subseteq M
    <2> HIDE DEF M
    <2> QED
      BY <1>1, <1>2, InductiveSet
  <1>4. ASSUME NEW p \in 1..(NPixels + 1) PROVE p \in S
    <2>1. p - 1 \in Nat /\ p - 1 <= NPixels /\ (p - 1) + 1 = p
      BY Consts
    <2>2. p - 1 \in M
      BY <1>3, <2>1
    <2> QED
      BY <2>1, <2>2
  <1> QED
    BY <1>4

\* The places depend on the capacities only.
LEMMA BeforeSame ==
    ASSUME NEW d, NEW e, d.capacity \in [Pixels -> Nat], e.capacity = d.capacity
    PROVE  \A p \in 1..(NPixels + 1) : Before(e, p) = Before(d, p)
  <1> DEFINE S == {p \in Nat : Before(e, p) = Before(d, p)}
  <1>1. 1 \in S
    BY BeforeStep
  <1>2. ASSUME NEW p \in Pixels, p \in S PROVE p + 1 \in S
    <2>1. /\ Before(d, p + 1) = Before(d, p) + d.capacity[p]
          /\ Before(e, p + 1) = Before(e, p) + e.capacity[p]
      BY BeforeStep
    <2> QED
      BY <1>2, <2>1, Consts
  <1> HIDE DEF S
  <1>3. 1..(NPixels + 1) \subseteq S
    BY <1>1, <1>2, PlaceInduction
  <1> QED
    BY <1>3 DEF S

\* The places after p's are n further.
MovedUp(d, e, p, n) ==
    \A q \in 1..(NPixels + 1) : Before(e, q) = Before(d, q) + (IF q > p THEN n ELSE 0)
\* When a pixel's capacity grows, the pixels after it move up.
LEMMA BeforeGrown ==
    ASSUME NEW d, NEW e, d.capacity \in [Pixels -> Nat], NEW p \in Pixels, NEW n \in Nat,
           e.capacity = [d.capacity EXCEPT ![p] = d.capacity[p] + n]
    PROVE  MovedUp(d, e, p, n)
  <1> PICK c \in [Pixels -> Nat] : c = d.capacity
    OBVIOUS
  <1> PICK b : b = e.capacity
    OBVIOUS
  <1>1. b \in [Pixels -> Nat] /\ \A q \in Pixels : b[q] = IF q = p THEN c[q] + n ELSE c[q]
    OBVIOUS
  <1>2. /\ Before(d, 1) = 0 /\ Before(e, 1) = 0
        /\ \A q \in Pixels : /\ Before(d, q + 1) = Before(d, q) + c[q]
                             /\ Before(e, q + 1) = Before(e, q) + b[q]
        /\ \A q \in 1..(NPixels + 1) : Before(d, q) \in Nat /\ Before(e, q) \in Nat
    BY <1>1, BeforeStep
  <1> DEFINE S == {q \in Nat : Before(e, q) = Before(d, q) + (IF q > p THEN n ELSE 0)}
  <1>3. 1 \in S
    BY <1>2, Consts
  <1>4. ASSUME NEW q \in Pixels, q \in S PROVE q + 1 \in S
    <2>1. /\ q \in Nat /\ p \in Nat /\ c[q] \in Nat /\ q \in 1..(NPixels + 1)
      BY Consts
    <2>2. Before(d, q) \in Nat
      BY <1>2, <2>1
    <2>3. /\ Before(d, q + 1) = Before(d, q) + c[q]
          /\ Before(e, q + 1) = Before(e, q) + (IF q = p THEN c[q] + n ELSE c[q])
          /\ Before(e, q) = Before(d, q) + (IF q > p THEN n ELSE 0)
      BY <1>1, <1>2, <1>4
    <2> QED
      BY <2>1, <2>2, <2>3
  <1> HIDE DEF S
  <1>5. 1..(NPixels + 1) \subseteq S
    BY <1>3, <1>4, PlaceInduction
  <1> QED
    BY <1>5 DEF S, MovedUp

\* A pixel ends before any later one begins.
LEMMA BeforeAfter ==
    ASSUME NEW d, d.capacity \in [Pixels -> Nat], NEW p \in Pixels
    PROVE  \A q \in 1..(NPixels + 1) : q > p => Before(d, p) + d.capacity[p] <= Before(d, q)
  <1> PICK c \in [Pixels -> Nat] : c = d.capacity
    OBVIOUS
  <1>1. /\ \A q \in Pixels : Before(d, q + 1) = Before(d, q) + c[q]
        /\ \A q \in 1..(NPixels + 1) : Before(d, q) \in Nat
    BY BeforeStep
  <1> DEFINE S == {q \in Nat : q > p => Before(d, p) + c[p] <= Before(d, q)}
  <1>2. 1 \in S
    BY Consts
  <1>3. ASSUME NEW q \in Pixels, q \in S PROVE q + 1 \in S
    <2>1. /\ q \in Nat /\ p \in Nat /\ c[q] \in Nat /\ c[p] \in Nat
          /\ q \in 1..(NPixels + 1) /\ p \in 1..(NPixels + 1)
      BY Consts
    <2>2. Before(d, q) \in Nat /\ Before(d, p) \in Nat
      BY <1>1, <2>1
    <2>3. Before(d, q + 1) = Before(d, q) + c[q]
      BY <1>1
    <2>4. CASE q = p
      BY <2>1, <2>2, <2>3, <2>4
    <2>5. CASE q # p
      <3>1. q + 1 > p => Before(d, p) + c[p] <= Before(d, q)
        BY <1>3, <2>1, <2>5
      <3> QED
        BY <2>1, <2>2, <2>3, <3>1
    <2> QED
      BY <2>4, <2>5
  <1> HIDE DEF S
  <1>4. 1..(NPixels + 1) \subseteq S
    BY <1>2, <1>3, PlaceInduction
  <1> QED
    BY <1>4 DEF S

-----------------------------------------------------------------------------
\* r is the n elements of s after the first a.
Slice(r, s, a, n, S) == r \in Seq(S) /\ Len(r) = n /\ \A k \in 1..n : r[k] = s[a + k]

\* A part of a sequence.
LEMMA SubSeqIs ==
    ASSUME NEW S, NEW s \in Seq(S), NEW a \in Nat, NEW n \in Nat, a + n <= Len(s)
    PROVE  Slice(SubSeq(s, a + 1, a + n), s, a, n, S)
  <1> PICK len \in Nat : len = Len(s)
    OBVIOUS
  <1> PICK m \in Int, b \in Int : m = a + 1 /\ b = a + n
    OBVIOUS
  <1>1. \A i \in m..b : i \in 1..len
    OBVIOUS
  <1>2. \A i \in m..b : s[i] \in S
    BY <1>1, ElementOfSeq
  <1>3. /\ SubSeq(s, m, b) \in Seq(S) /\ Len(SubSeq(s, m, b)) = IF m <= b THEN b - m + 1 ELSE 0
        /\ \A i \in 1..(b - m + 1) : SubSeq(s, m, b)[i] = s[m + i - 1]
    BY <1>2, SubSeqProperties
  <1>4. /\ (IF m <= b THEN b - m + 1 ELSE 0) = n /\ b - m + 1 = n
        /\ \A k \in 1..n : m + k - 1 = a + k
    OBVIOUS
  <1>5. Len(SubSeq(s, m, b)) = n
    BY <1>3, <1>4
  <1>6. \A k \in 1..n : SubSeq(s, m, b)[k] = s[a + k]
    BY <1>3, <1>4
  <1> QED
    BY <1>3, <1>5, <1>6 DEF Slice

\* y is l, and then r.
Joined(y, l, r, S) ==
    /\ y \in Seq(S) /\ Len(y) = Len(l) + Len(r)
    /\ \A k \in 1..Len(y) : y[k] = IF k <= Len(l) THEN l[k] ELSE r[k - Len(l)]

\* Concatenation is such.
LEMMA JoinIs ==
    ASSUME NEW S, NEW l \in Seq(S), NEW r \in Seq(S)
    PROVE  Joined(l \o r, l, r, S)
  BY ConcatProperties DEF Joined

\* y is x with s in the place of as many elements, after the first a.
Patched(y, x, a, s, S) ==
    /\ y \in Seq(S) /\ Len(y) = Len(x)
    /\ \A k \in 1..Len(x) : y[k] = IF a < k /\ k <= a + Len(s) THEN s[k - a] ELSE x[k]

\* The elements of the three parts.
LEMMA PatchParts ==
    ASSUME NEW a \in Nat, NEW n \in Nat, NEW m \in Nat, NEW b, b = a + n,
           NEW x, NEW s, NEW l, NEW r, NEW ls, NEW y,
           \A k \in 1..a : l[k] = x[k], \A k \in 1..m : r[k] = x[b + k],
           \A k \in 1..(a + n) : ls[k] = IF k <= a THEN l[k] ELSE s[k - a],
           \A k \in 1..(b + m) : y[k] = IF k <= b THEN ls[k] ELSE r[k - b]
    PROVE  \A k \in 1..(b + m) : y[k] = IF a < k /\ k <= a + n THEN s[k - a] ELSE x[k]
  <1> TAKE k \in 1..(b + m)
  <1>1. CASE k <= a
    <2>1. k \in 1..a /\ k \in 1..(a + n) /\ k <= b
      BY <1>1
    <2>2. y[k] = x[k]
      BY <1>1, <2>1
    <2> QED
      BY <1>1, <2>2
  <1>2. CASE a < k /\ k <= b
    <2>1. k \in 1..(a + n) /\ ~(k <= a)
      BY <1>2
    <2>2. y[k] = s[k - a]
      BY <1>2, <2>1
    <2> QED
      BY <1>2, <2>2
  <1>3. CASE b < k
    <2>1. k - b \in 1..m /\ b + (k - b) = k /\ ~(k <= b)
      BY <1>3
    <2>2. y[k] = x[k]
      BY <2>1
    <2> QED
      BY <1>3, <2>2
  <1>4. k <= a \/ (a < k /\ k <= b) \/ b < k
    OBVIOUS
  <1> QED
    BY <1>1, <1>2, <1>3, <1>4

\* Two slices around a sequence are x with the cells after a overwritten.
LEMMA PatchIs ==
    ASSUME NEW S, NEW x \in Seq(S), NEW s \in Seq(S), NEW a \in Nat, a + Len(s) <= Len(x)
    PROVE  Patched(SubSeq(x, 1, a) \o s \o SubSeq(x, a + Len(s) + 1, Len(x)), x, a, s, S)
  <1> DEFINE n == Len(s)
             b == a + n
             m == Len(x) - b
             l == SubSeq(x, 1, a)
             r == SubSeq(x, b + 1, Len(x))
  <1>1. n \in Nat /\ b \in Nat /\ m \in Nat /\ b + m = Len(x)
    OBVIOUS
  <1>2. Slice(l, x, 0, a, S)
    <2>1. 0 + a <= Len(x) /\ 0 + 1 = 1 /\ 0 + a = a /\ 0 \in Nat
      OBVIOUS
    <2>2. Slice(SubSeq(x, 0 + 1, 0 + a), x, 0, a, S)
      BY <2>1, SubSeqIs
    <2> QED
      BY <2>1, <2>2
  <1>3. Slice(r, x, b, m, S)
    <2> HIDE DEF b, m
    <2>1. Slice(SubSeq(x, b + 1, b + m), x, b, m, S)
      BY <1>1, SubSeqIs
    <2> QED
      BY <1>1, <2>1
  <1> HIDE DEF b, m, l, r, n
  <1>4. l \in Seq(S) /\ Len(l) = a /\ \A k \in 1..a : l[k] = x[k]
    BY <1>2 DEF Slice
  <1>5. r \in Seq(S) /\ Len(r) = m /\ \A k \in 1..m : r[k] = x[b + k]
    BY <1>3 DEF Slice
  <1> DEFINE ls == l \o s
             y == ls \o r
  <1>6. Joined(ls, l, s, S)
    BY <1>4, JoinIs
  <1>7. /\ ls \in Seq(S) /\ Len(ls) = b
        /\ \A k \in 1..(a + n) : ls[k] = IF k <= a THEN l[k] ELSE s[k - a]
    <2> HIDE DEF ls
    <2> QED
      BY <1>4, <1>6 DEF Joined, n, b
  <1>8. Joined(y, ls, r, S)
    BY <1>5, <1>7, JoinIs
  <1>9. /\ y \in Seq(S) /\ Len(y) = b + m
        /\ \A k \in 1..(b + m) : y[k] = IF k <= b THEN ls[k] ELSE r[k - b]
    <2> HIDE DEF ls, y
    <2> QED
      BY <1>5, <1>7, <1>8 DEF Joined
  <1> HIDE DEF ls, y
  <1>10. \A k \in 1..(b + m) : y[k] = IF a < k /\ k <= a + n THEN s[k - a] ELSE x[k]
    <2>1. n \in Nat /\ m \in Nat /\ b = a + n
      BY <1>1 DEF b
    <2>2. /\ \A k \in 1..a : l[k] = x[k]
          /\ \A k \in 1..m : r[k] = x[b + k]
      BY <1>4, <1>5
    <2>3. /\ \A k \in 1..(a + n) : ls[k] = IF k <= a THEN l[k] ELSE s[k - a]
          /\ \A k \in 1..(b + m) : y[k] = IF k <= b THEN ls[k] ELSE r[k - b]
      BY <1>7, <1>9
    <2> QED
      BY <2>1, <2>2, <2>3, PatchParts
  <1>11. Patched(y, x, a, s, S)
    BY <1>1, <1>9, <1>10 DEF Patched, n
  <1> QED
    BY <1>11 DEF y, ls, l, r, b, n

-----------------------------------------------------------------------------
(* The array                                                                 *)

Numbers == [Pixels -> Nat]
Data == [nsamples : Numbers, capacity : Numbers, cumcapacity : Numbers,
         data : Seq(Samples), allocated : BOOLEAN]
\* The array holds the pixels one after the other, each at its place.
Laid(d) == d.allocated => /\ \A p \in Pixels : d.cumcapacity[p] = Before(d, p)
                          /\ Len(d.data) = Before(d, NPixels + 1)
\* The states of a DeepData that the calls lead to.
Sane == {d \in Data : Laid(d) /\ \A p \in Pixels : d.nsamples[p] <= d.capacity[p]}
\* Position k of p's capacity.
Cell(d, p, k) == IF d.allocated THEN d.data[d.cumcapacity[p] + k] ELSE Zero

\* The fields of a DeepData.
LEMMA Fields ==
    ASSUME NEW d \in Sane
    PROVE  /\ d \in Data /\ d.nsamples \in Numbers /\ d.capacity \in Numbers
           /\ d.cumcapacity \in Numbers /\ d.data \in Seq(Samples) /\ d.allocated \in BOOLEAN
           /\ Len(d.data) \in Nat
           /\ \A k \in 1..Len(d.data) : d.data[k] \in Samples
           /\ \A p \in Pixels : /\ d.nsamples[p] \in Nat /\ d.capacity[p] \in Nat
                                /\ d.cumcapacity[p] \in Nat
                                /\ d.nsamples[p] <= d.capacity[p]
  <1>1. /\ d \in Data /\ d.nsamples \in Numbers /\ d.capacity \in Numbers
        /\ d.cumcapacity \in Numbers /\ d.data \in Seq(Samples) /\ d.allocated \in BOOLEAN
        /\ \A p \in Pixels : d.nsamples[p] <= d.capacity[p]
    BY DEF Sane, Data
  <1>2. \A p \in Pixels : /\ d.nsamples[p] \in Nat /\ d.capacity[p] \in Nat
                          /\ d.cumcapacity[p] \in Nat
    BY <1>1 DEF Numbers
  <1>3. Len(d.data) \in Nat /\ \A k \in 1..Len(d.data) : d.data[k] \in Samples
    BY <1>1
  <1> QED
    BY <1>1, <1>2, <1>3

\* Where the pixels are in the array.
LEMMA Extents ==
    ASSUME NEW d \in Sane, d.allocated, NEW p \in Pixels
    PROVE  /\ d.cumcapacity[p] + d.capacity[p] <= Len(d.data)
           /\ \A q \in Pixels : q > p => d.cumcapacity[p] + d.capacity[p] <= d.cumcapacity[q]
  <1>1. /\ \A q \in Pixels : d.cumcapacity[q] = Before(d, q)
        /\ Len(d.data) = Before(d, NPixels + 1)
    BY DEF Sane, Laid
  <1>2. \A q \in 1..(NPixels + 1) : q > p => Before(d, p) + d.capacity[p] <= Before(d, q)
    BY BeforeAfter, Fields DEF Numbers
  <1>3. /\ NPixels + 1 \in 1..(NPixels + 1) /\ NPixels + 1 > p
        /\ \A q \in Pixels : q \in 1..(NPixels + 1)
    BY Consts
  <1> QED
    BY <1>1, <1>2, <1>3

\* In numbers: a pixel's n samples lie within its capacity c, and the array.
LEMMA Within ==
    ASSUME NEW at \in Nat, NEW c \in Nat, NEW n \in Nat, NEW len \in Nat, n <= c, at + c <= len
    PROVE  at + n <= len /\ \A k \in 1..c : at + k \in 1..len
  OBVIOUS

\* The samples of a pixel are the first cells of it.
LEMMA ContentsIs ==
    ASSUME NEW d \in Sane, NEW p \in Pixels
    PROVE  /\ Contents(d, p) \in Seq(Samples) /\ Len(Contents(d, p)) = d.nsamples[p]
           /\ \A k \in 1..d.nsamples[p] : /\ Contents(d, p)[k] = Cell(d, p, k)
                                          /\ Contents(d, p)[k] \in Samples
           /\ \A k \in 1..d.capacity[p] : Cell(d, p, k) \in Samples
  <1> PICK n \in Nat : n = d.nsamples[p]
    BY Fields
  <1> PICK c \in Nat : c = d.capacity[p]
    BY Fields
  <1>1. n <= c
    BY Fields
  <1>2. CASE d.allocated
    <2> PICK at \in Nat : at = d.cumcapacity[p]
      BY Fields
    <2> PICK len \in Nat : len = Len(d.data)
      BY Fields
    <2>1. at + c <= len
      BY <1>2, Extents
    <2>2. at + n <= len /\ \A k \in 1..c : at + k \in 1..Len(d.data)
      <3>1. at + n <= len /\ \A k \in 1..c : at + k \in 1..len
        BY <1>1, <2>1, Within
      <3> QED
        BY <3>1
    <2>3. \A k \in 1..c : d.data[at + k] \in Samples
      BY <2>2, Fields
    <2> DEFINE s == SubSeq(d.data, at + 1, at + n)
    <2>4. s \in Seq(Samples) /\ Len(s) = n /\ \A k \in 1..n : s[k] = d.data[at + k]
      <3> PICK x \in Seq(Samples) : x = d.data
        BY Fields
      <3>1. at + n <= Len(x)
        BY <2>2
      <3>2. Slice(SubSeq(x, at + 1, at + n), x, at, n, Samples)
        BY <3>1, SubSeqIs
      <3> QED
        BY <3>2 DEF Slice
    <2> HIDE DEF s
    <2>5. Contents(d, p) = s
      BY <1>2 DEF Contents, Part, s
    <2> QED
      BY <1>1, <1>2, <2>3, <2>4, <2>5 DEF Cell
  <1>3. CASE ~d.allocated
    <2>1. Contents(d, p) = [k \in 1..n |-> Zero]
      BY <1>3 DEF Contents, Part, Zeros
    <2>2. [k \in 1..n |-> Zero] \in Seq(Samples) /\ Len([k \in 1..n |-> Zero]) = n
      BY Consts
    <2> QED
      BY <1>3, <2>1, <2>2, Consts DEF Cell
  <1> QED
    BY <1>2, <1>3

\* Pixels of the same cells have the same samples.
LEMMA SameCells ==
    ASSUME NEW d \in Sane, NEW e \in Sane, NEW p \in Pixels, NEW q \in Pixels,
           e.nsamples[q] = d.nsamples[p],
           \A k \in 1..d.nsamples[p] : Cell(e, q, k) = Cell(d, p, k)
    PROVE  Contents(e, q) = Contents(d, p)
  BY ContentsIs, SeqEqual

-----------------------------------------------------------------------------
(* The operations on the array                                               *)

\* The cells of two DeepData are the same.
SameArray(d, e) ==
    /\ e.nsamples = d.nsamples
    /\ \A q \in Pixels : d.capacity[q] <= e.capacity[q]
    /\ \A q \in Pixels : \A k \in 1..d.capacity[q] : Cell(e, q, k) = Cell(d, q, k)

\* Positions, in numbers: the pixel is at cum, with room for cap samples.
LEMMA RoomFor ==
    ASSUME NEW cum \in Nat, NEW cap \in Nat, NEW len \in Nat, cum + cap <= len
    PROVE  /\ \A i \in Nat \ {0}, n \in Nat : i - 1 + n <= cap =>
                 cum + i - 1 \in Nat /\ cum + i - 1 + n <= len
           /\ \A k \in 1..cap : cum + k \in 1..len
  OBVIOUS

\* In the pixel's own cells, those written are the ones from the i-th on.
LEMMA InPart ==
    ASSUME NEW cum \in Nat, NEW i \in Nat \ {0}, NEW n \in Nat, NEW cap \in Nat, NEW k \in 1..cap
    PROVE  /\ (cum + i - 1 < cum + k /\ cum + k <= cum + i - 1 + n) <=> (i <= k /\ k < i + n)
           /\ (cum + k) - (cum + i - 1) = k - i + 1
  OBVIOUS

\* No cell of another pixel is among those written.
LEMMA OutOfPart ==
    ASSUME NEW cum \in Nat, NEW cap \in Nat, NEW other \in Nat, NEW room \in Nat,
           cum + cap <= other \/ other + room <= cum,
           NEW i \in Nat \ {0}, NEW n \in Nat, i - 1 + n <= cap, NEW k \in 1..room
    PROVE  ~(cum + i - 1 < other + k /\ other + k <= cum + i - 1 + n)
  OBVIOUS

\* The first access allocates the array, and changes nothing else.
LEMMA AllocIs ==
    ASSUME NEW d \in Sane
    PROVE  Alloc(d) \in Sane /\ Alloc(d).allocated /\ Alloc(d).capacity = d.capacity
           /\ SameArray(d, Alloc(d))
  <1>1. CASE d.allocated
    BY <1>1, Fields DEF Alloc, SameArray
  <1>2. CASE ~d.allocated
    <2> DEFINE e == Alloc(d)
               N == Before(d, NPixels + 1)
    <2>1. \A p \in 1..(NPixels + 1) : Before(d, p) \in Nat
      BY Fields, BeforeStep DEF Numbers
    <2>2. N \in Nat /\ \A p \in Pixels : p \in 1..(NPixels + 1) /\ Before(d, p) \in Nat
      BY <2>1, Consts
    <2> HIDE DEF N
    <2>3. [p \in Pixels |-> Before(d, p)] \in Numbers
      BY <2>2 DEF Numbers
    <2>4. Zeros(N) \in Seq(Samples) /\ Len(Zeros(N)) = N /\ \A k \in 1..N : Zeros(N)[k] = Zero
      BY <2>2, Consts DEF Zeros
    <2>5. e = [d EXCEPT !.allocated = TRUE, !.data = Zeros(N),
                        !.cumcapacity = [p \in Pixels |-> Before(d, p)]]
      BY <1>2 DEF Alloc, N
    <2> HIDE DEF e
    <2>6. /\ e \in Data /\ e.allocated = TRUE /\ e.data = Zeros(N)
          /\ e.cumcapacity = [p \in Pixels |-> Before(d, p)]
          /\ e.nsamples = d.nsamples /\ e.capacity = d.capacity
      BY <2>3, <2>4, <2>5, Fields DEF Data
    <2>7. \A p \in 1..(NPixels + 1) : Before(e, p) = Before(d, p)
      BY <2>6, Fields, BeforeSame DEF Numbers
    <2>8. e \in Sane
      <3>1. Laid(e)
        BY <2>2, <2>4, <2>6, <2>7, Consts DEF Laid, N
      <3> QED
        BY <2>6, <3>1, Fields DEF Sane
    <2>9. ASSUME NEW q \in Pixels, NEW k \in 1..d.capacity[q] PROVE Cell(e, q, k) = Cell(d, q, k)
      <3>1. e.cumcapacity[q] + e.capacity[q] <= Len(e.data)
        BY <2>6, <2>8, Extents
      <3>2. /\ e.cumcapacity[q] \in Nat /\ d.capacity[q] \in Nat /\ Len(e.data) = N
        BY <2>4, <2>6, <2>8, Fields
      <3>3. e.cumcapacity[q] + k \in 1..N
        BY <2>2, <2>6, <3>1, <3>2
      <3>4. e.data[e.cumcapacity[q] + k] = Zero
        BY <2>4, <2>6, <3>3
      <3> QED
        BY <1>2, <2>6, <3>4 DEF Cell
    <2> QED
      BY <2>6, <2>8, <2>9, Fields DEF SameArray, e
  <1> QED
    BY <1>1, <1>2, Fields

\* Writing n cells of a pixel, from its i-th on.
Wrote(d, e, p, i, s) ==
    /\ e.nsamples = d.nsamples /\ e.capacity = d.capacity /\ e.allocated
    /\ \A q \in Pixels : \A k \in 1..d.capacity[q] :
          Cell(e, q, k) = IF q = p /\ i <= k /\ k < i + Len(s) THEN s[k - i + 1] ELSE Cell(d, q, k)

\* Over writes those cells, and the image stays sane.
LEMMA OverIs ==
    ASSUME NEW d \in Sane, d.allocated, NEW p \in Pixels, NEW i \in Nat \ {0},
           NEW s \in Seq(Samples), i - 1 + Len(s) <= d.capacity[p]
    PROVE  Over(d, p, i, s) \in Sane /\ Wrote(d, Over(d, p, i, s), p, i, s)
  <1> DEFINE e == Over(d, p, i, s)
             x == d.data
             at == d.cumcapacity[p] + i - 1
             y == SubSeq(x, 1, at) \o s \o SubSeq(x, at + Len(s) + 1, Len(x))
  <1>1. /\ d.cumcapacity[p] \in Nat /\ d.capacity[p] \in Nat /\ Len(x) \in Nat /\ Len(s) \in Nat
        /\ d.cumcapacity[p] + d.capacity[p] <= Len(x) /\ x \in Seq(Samples)
    BY Fields, Extents
  <1>2. at \in Nat /\ at + Len(s) <= Len(x)
    BY <1>1, RoomFor
  <1>3. Patched(y, x, at, s, Samples)
    <2> HIDE DEF at, x
    <2> QED
      BY <1>1, <1>2, PatchIs
  <1>4. e = [d EXCEPT !.data = y]
    BY DEF Over
  <1> HIDE DEF e, y
  <1>5. /\ e \in Data /\ e.data = y /\ e.nsamples = d.nsamples /\ e.capacity = d.capacity
        /\ e.cumcapacity = d.cumcapacity /\ e.allocated = d.allocated
    BY <1>3, <1>4, Fields DEF Data, Patched
  <1>6. Laid(e)
    <2>1. \A q \in 1..(NPixels + 1) : Before(e, q) = Before(d, q)
      BY <1>5, Fields, BeforeSame DEF Numbers
    <2>2. NPixels + 1 \in 1..(NPixels + 1) /\ \A q \in Pixels : q \in 1..(NPixels + 1)
      BY Consts
    <2>3. Len(e.data) = Len(d.data)
      BY <1>3, <1>5 DEF Patched
    <2> QED
      BY <1>5, <2>1, <2>2, <2>3 DEF Laid, Sane
  <1>7. e \in Sane
    BY <1>5, <1>6, Fields DEF Sane
  <1>8. ASSUME NEW q \in Pixels, NEW k \in 1..d.capacity[q]
        PROVE  Cell(e, q, k) = IF q = p /\ i <= k /\ k < i + Len(s) THEN s[k - i + 1]
                                                                  ELSE Cell(d, q, k)
    <2> DEFINE c == d.cumcapacity[q] + k
    <2>1. /\ d.cumcapacity[q] \in Nat /\ d.capacity[q] \in Nat
          /\ d.cumcapacity[q] + d.capacity[q] <= Len(x)
      BY Fields, Extents
    <2>2. c \in 1..Len(x)
      BY <1>1, <2>1, RoomFor
    <2>3. Cell(e, q, k) = y[c] /\ Cell(d, q, k) = x[c]
      BY <1>5 DEF Cell
    <2>4. y[c] = IF at < c /\ c <= at + Len(s) THEN s[c - at] ELSE x[c]
      <3> HIDE DEF c, at, x
      <3> QED
        BY <1>3, <2>2 DEF Patched
    <2>5. CASE q = p
      <3>1. /\ (at < c /\ c <= at + Len(s)) <=> (i <= k /\ k < i + Len(s))
            /\ c - at = k - i + 1
        <4>1. PICK cum \in Nat : cum = d.cumcapacity[p]
          BY <1>1
        <4>2. PICK cap \in Nat : cap = d.capacity[p]
          BY <1>1
        <4>3. PICK len \in Nat : len = Len(s)
          OBVIOUS
        <4>4. k \in 1..cap
          BY <2>5, <4>2
        <4>5. /\ (cum + i - 1 < cum + k /\ cum + k <= cum + i - 1 + len) <=> (i <= k /\ k < i + len)
              /\ (cum + k) - (cum + i - 1) = k - i + 1
          BY <4>4, InPart
        <4>6. at = cum + i - 1 /\ c = cum + k
          BY <2>5, <4>1
        <4> HIDE DEF at, c
        <4> QED
          BY <4>3, <4>5, <4>6
      <3> HIDE DEF c, at, x
      <3> QED
        BY <2>3, <2>4, <2>5, <3>1
    <2>6. CASE q # p
      <3>1. \/ d.cumcapacity[p] + d.capacity[p] <= d.cumcapacity[q]
            \/ d.cumcapacity[q] + d.capacity[q] <= d.cumcapacity[p]
        <4>1. q > p \/ p > q
          BY <2>6, Consts
        <4> QED
          BY <4>1, Extents
      <3>2. ~(at < c /\ c <= at + Len(s))
        BY <1>1, <2>1, <3>1, OutOfPart
      <3> HIDE DEF c, at, x
      <3> QED
        BY <2>3, <2>4, <2>6, <3>2
    <2> QED
      BY <2>5, <2>6
  <1> QED
    BY <1>5, <1>7, <1>8 DEF Wrote, e

-----------------------------------------------------------------------------
(* Capacities                                                                *)

\* y is x with n more elements after the first a.
Grown(y, x, a, n, S) ==
    /\ y \in Seq(S) /\ Len(y) = Len(x) + n
    /\ \A k \in 1..a : y[k] = x[k]
    /\ \A k \in 1..(Len(x) - a) : y[a + n + k] = x[a + k]

\* A sequence put in another.
LEMMA GrowIs ==
    ASSUME NEW S, NEW x \in Seq(S), NEW z \in Seq(S), NEW a \in Nat, a <= Len(x)
    PROVE  Grown(SubSeq(x, 1, a) \o z \o SubSeq(x, a + 1, Len(x)), x, a, Len(z), S)
  <1> DEFINE n == Len(z)
             m == Len(x) - a
             l == SubSeq(x, 1, a)
             r == SubSeq(x, a + 1, Len(x))
  <1>1. n \in Nat /\ m \in Nat /\ a + m = Len(x)
    OBVIOUS
  <1>2. Slice(l, x, 0, a, S)
    <2>1. 0 + a <= Len(x) /\ 0 + 1 = 1 /\ 0 + a = a /\ 0 \in Nat
      OBVIOUS
    <2>2. Slice(SubSeq(x, 0 + 1, 0 + a), x, 0, a, S)
      BY <2>1, SubSeqIs
    <2> QED
      BY <2>1, <2>2
  <1>3. Slice(r, x, a, m, S)
    <2> HIDE DEF m
    <2>1. Slice(SubSeq(x, a + 1, a + m), x, a, m, S)
      BY <1>1, SubSeqIs
    <2> QED
      BY <1>1, <2>1
  <1> HIDE DEF m, l, r, n
  <1>4. l \in Seq(S) /\ Len(l) = a /\ \A k \in 1..a : l[k] = x[k]
    BY <1>2 DEF Slice
  <1>5. r \in Seq(S) /\ Len(r) = m /\ \A k \in 1..m : r[k] = x[a + k]
    BY <1>3 DEF Slice
  <1> DEFINE lz == l \o z
             y == lz \o r
  <1>6. Joined(lz, l, z, S)
    BY <1>4, JoinIs
  <1>7. /\ lz \in Seq(S) /\ Len(lz) = a + n /\ \A k \in 1..a : lz[k] = l[k]
    <2> HIDE DEF lz
    <2> QED
      BY <1>1, <1>4, <1>6 DEF Joined, n
  <1>8. Joined(y, lz, r, S)
    BY <1>5, <1>7, JoinIs
  <1>9. /\ y \in Seq(S) /\ Len(y) = a + n + m
        /\ \A k \in 1..(a + n + m) : y[k] = IF k <= a + n THEN lz[k] ELSE r[k - (a + n)]
    <2> HIDE DEF lz, y
    <2> QED
      BY <1>5, <1>7, <1>8 DEF Joined
  <1> HIDE DEF lz, y
  <1>10. ASSUME NEW k \in 1..a PROVE y[k] = x[k]
    <2>1. k \in 1..(a + n + m) /\ k <= a + n
      BY <1>1
    <2> QED
      BY <1>4, <1>7, <1>9, <2>1
  <1>11. ASSUME NEW k \in 1..m PROVE y[a + n + k] = x[a + k]
    <2>1. /\ a + n + k \in 1..(a + n + m) /\ ~(a + n + k <= a + n)
          /\ (a + n + k) - (a + n) = k
      BY <1>1
    <2>2. y[a + n + k] = r[k]
      BY <1>9, <2>1
    <2> QED
      BY <1>5, <2>2
  <1>12. Len(y) = Len(x) + n
    <2> PICK len \in Nat : len = Len(x)
      OBVIOUS
    <2> PICK ylen : ylen = Len(y)
      OBVIOUS
    <2>1. a + m = len /\ ylen = a + n + m
      BY <1>1, <1>9
    <2>2. ylen = len + n
      BY <1>1, <2>1
    <2> QED
      BY <2>2
  <1>13. Grown(y, x, a, n, S)
    BY <1>9, <1>10, <1>11, <1>12 DEF Grown, m
  <1> QED
    BY <1>13 DEF y, lz, l, r, n

\* A DeepData of the same samples, with room for n of p.
Roomier(d, e, p, n) ==
    /\ e.nsamples = d.nsamples /\ e.allocated = d.allocated
    /\ \A q \in Pixels : Contents(e, q) = Contents(d, q)
    /\ e.capacity[p] >= n /\ \A q \in Pixels : q # p => e.capacity[q] = d.capacity[q]

\* Setting a capacity keeps the samples of every pixel, also of those that move.
LEMMA SetCapacityIs ==
    ASSUME NEW d \in Sane, NEW p \in Pixels, NEW n \in Nat, d.allocated \/ n >= d.nsamples[p]
    PROVE  SetCapacity(d, p, n) \in Sane /\ Roomier(d, SetCapacity(d, p, n), p, n)
  <1> DEFINE e == SetCapacity(d, p, n)
             cap == d.capacity
             toadd == n - cap[p]
             at == d.cumcapacity[p] + cap[p]
  <1>1. cap \in Numbers /\ cap[p] \in Nat /\ d.allocated \in BOOLEAN
    BY Fields
  <1>2. CASE ~d.allocated
    <2>1. e = [d EXCEPT !.capacity[p] = n]
      BY <1>2 DEF SetCapacity
    <2> HIDE DEF e
    <2>2. /\ e.nsamples = d.nsamples /\ e.allocated = d.allocated /\ e.data = d.data
          /\ e.cumcapacity = d.cumcapacity /\ e.capacity = [cap EXCEPT ![p] = n]
          /\ e \in Data
      BY <2>1, Fields DEF Data, Numbers
    <2>3. \A q \in Pixels : e.capacity[q] = IF q = p THEN n ELSE cap[q]
      BY <1>1, <2>2 DEF Numbers
    <2>4. e \in Sane
      BY <1>2, <2>2, <2>3, Fields DEF Sane, Laid
    <2>5. ASSUME NEW q \in Pixels PROVE Contents(e, q) = Contents(d, q)
      BY <1>2, <2>2 DEF Contents, Part
    <2>6. e.capacity[p] >= n
      BY <2>3
    <2> QED
      BY <2>2, <2>3, <2>4, <2>5, <2>6 DEF Roomier, e
  <1>3. CASE d.allocated /\ toadd <= 0
    <2>1. e = d
      <3>1. SetCapacity(d, p, n) = d
        BY <1>1, <1>3 DEF SetCapacity
      <3> QED
        BY <3>1
    <2>2. cap[p] >= n
      BY <1>1, <1>3
    <2> QED
      BY <2>1, <2>2 DEF Roomier
  <1>4. CASE d.allocated /\ toadd > 0
    <2> DEFINE x == d.data
               y == SubSeq(x, 1, at) \o Zeros(toadd) \o SubSeq(x, at + 1, Len(x))
               cum == [q \in Pixels |-> IF q > p THEN d.cumcapacity[q] + toadd
                                                 ELSE d.cumcapacity[q]]
    <2>1. toadd \in Nat /\ at \in Nat /\ at <= Len(x) /\ x \in Seq(Samples) /\ Len(x) \in Nat
      BY <1>1, <1>4, Fields, Extents
    <2>2. e = [d EXCEPT !.data = y, !.cumcapacity = cum, !.capacity[p] = n]
      BY <1>4 DEF SetCapacity
    <2>3. Zeros(toadd) \in Seq(Samples) /\ Len(Zeros(toadd)) = toadd
      BY <2>1, Consts DEF Zeros
    <2>4. Grown(y, x, at, toadd, Samples)
      <3> HIDE DEF x, at, toadd
      <3> QED
        BY <2>1, <2>3, GrowIs
    <2>5. cum \in Numbers
      <3>1. ASSUME NEW q \in Pixels PROVE d.cumcapacity[q] \in Nat /\ d.cumcapacity[q] + toadd \in Nat
        BY <2>1, Fields
      <3> QED
        BY <3>1 DEF Numbers
    <2> HIDE DEF e, y, cum
    <2>6. /\ e.nsamples = d.nsamples /\ e.allocated = d.allocated /\ e.data = y
          /\ e.cumcapacity = cum /\ e.capacity = [cap EXCEPT ![p] = n]
          /\ e \in Data
      BY <2>2, <2>4, <2>5, Fields DEF Data, Numbers, Grown
    <2>7. \A q \in Pixels : e.capacity[q] = IF q = p THEN n ELSE cap[q]
      BY <1>1, <2>6 DEF Numbers
    <2>8. cap[p] + toadd = n
      BY <1>1
    <2> HIDE DEF toadd
    <2>9. \A q \in 1..(NPixels + 1) : Before(e, q) = Before(d, q) + (IF q > p THEN toadd ELSE 0)
      <3>1. e.capacity = [d.capacity EXCEPT ![p] = d.capacity[p] + toadd]
        BY <2>6, <2>8
      <3>2. d.capacity \in [Pixels -> Nat]
        BY <1>1 DEF Numbers
      <3>3. PICK more \in Nat : more = toadd
        BY <2>1
      <3>4. e.capacity = [d.capacity EXCEPT ![p] = d.capacity[p] + more]
        BY <3>1, <3>3
      <3>5. MovedUp(d, e, p, more)
        BY <3>2, <3>4, BeforeGrown
      <3> QED
        BY <3>3, <3>5 DEF MovedUp
    <2>10. e \in Sane
      <3>1. ASSUME NEW q \in Pixels PROVE e.cumcapacity[q] = Before(e, q)
        <4>1. q \in 1..(NPixels + 1) /\ d.cumcapacity[q] \in Nat
          BY Consts, Fields
        <4>2. d.cumcapacity[q] = Before(d, q)
          BY <1>4 DEF Sane, Laid
        <4>3. Before(e, q) = Before(d, q) + (IF q > p THEN toadd ELSE 0)
          BY <2>9, <4>1
        <4>4. e.cumcapacity[q] = IF q > p THEN d.cumcapacity[q] + toadd ELSE d.cumcapacity[q]
          BY <2>6 DEF cum
        <4> QED
          BY <2>1, <4>1, <4>2, <4>3, <4>4
      <3>2. Len(e.data) = Before(e, NPixels + 1)
        <4>1. NPixels + 1 \in 1..(NPixels + 1) /\ NPixels + 1 > p
          BY Consts
        <4>2. Before(e, NPixels + 1) = Before(d, NPixels + 1) + toadd
          BY <2>9, <4>1
        <4>3. Len(x) = Before(d, NPixels + 1)
          BY <1>4 DEF Sane, Laid
        <4> QED
          BY <2>4, <2>6, <4>2, <4>3 DEF Grown
      <3>3. ASSUME NEW q \in Pixels PROVE e.nsamples[q] <= e.capacity[q]
        <4>1. d.nsamples[q] \in Nat /\ cap[q] \in Nat /\ d.nsamples[q] <= cap[q]
          BY Fields
        <4> QED
          BY <2>1, <2>6, <2>7, <2>8, <4>1
      <3> QED
        BY <2>6, <3>1, <3>2, <3>3 DEF Sane, Laid
    <2>11. ASSUME NEW q \in Pixels, NEW k \in 1..d.nsamples[q] PROVE Cell(e, q, k) = Cell(d, q, k)
      <3> DEFINE c == d.cumcapacity[q] + k
      <3>1. /\ d.cumcapacity[q] \in Nat /\ cap[q] \in Nat /\ d.cumcapacity[p] \in Nat
            /\ d.nsamples[q] \in Nat /\ d.nsamples[q] <= cap[q]
            /\ d.cumcapacity[q] + cap[q] <= Len(x)
        BY <1>4, Fields, Extents
      <3>2. Cell(d, q, k) = x[c]
        BY <1>4 DEF Cell
      <3>3. CASE q > p
        <4>1. d.cumcapacity[p] + cap[p] <= d.cumcapacity[q]
          BY <1>4, <3>3, Extents
        <4> DEFINE j == c - at
        <4>2. j \in 1..(Len(x) - at) /\ at + j = c /\ at + toadd + j = d.cumcapacity[q] + toadd + k
          <5>1. k \in 1..cap[q]
            BY <3>1
          <5>2. PICK C \in Nat : C = d.cumcapacity[q]
            BY <3>1
          <5>3. PICK A \in Nat : A = at
            BY <2>1
          <5>4. PICK L \in Nat : L = Len(x)
            BY <2>1
          <5>5. PICK D \in Nat : D = cap[q]
            BY <3>1
          <5>6. PICK T \in Nat : T = toadd
            BY <2>1
          <5>7. C + D <= L /\ A <= C /\ k \in Nat /\ 1 <= k /\ k <= D
            BY <3>1, <4>1, <5>1, <5>2, <5>3, <5>4, <5>5
          <5>8. /\ (C + k) - A \in 1..(L - A) /\ A + ((C + k) - A) = C + k
                /\ A + T + ((C + k) - A) = C + T + k
            BY <5>7
          <5> HIDE DEF at, x
          <5> QED
            BY <5>2, <5>3, <5>4, <5>6, <5>8
        <4>3. y[at + toadd + j] = x[at + j]
          <5> HIDE DEF j, at, x
          <5> QED
            BY <2>4, <4>2 DEF Grown
        <4>4. e.cumcapacity[q] = d.cumcapacity[q] + toadd
          BY <2>6, <3>3 DEF cum
        <4> QED
          BY <1>4, <2>6, <3>2, <4>2, <4>3, <4>4 DEF Cell
      <3>4. CASE ~(q > p)
        <4>1. d.cumcapacity[q] + cap[q] <= at
          <5>1. q = p \/ p > q
            BY <3>4, Consts
          <5>2. p > q => d.cumcapacity[q] + cap[q] <= d.cumcapacity[p]
            BY <1>4, Extents
          <5> QED
            BY <1>1, <3>1, <5>1, <5>2
        <4>2. c \in 1..at
          BY <1>1, <2>1, <3>1, <4>1
        <4>3. y[c] = x[c]
          <5> HIDE DEF c, at, x
          <5> QED
            BY <2>4, <4>2 DEF Grown
        <4>4. e.cumcapacity[q] = d.cumcapacity[q]
          BY <2>6, <3>4 DEF cum
        <4> QED
          BY <1>4, <2>6, <3>2, <4>3, <4>4 DEF Cell
      <3> QED
        BY <3>3, <3>4
    <2>12. \A q \in Pixels : Contents(e, q) = Contents(d, q)
      BY <2>6, <2>10, <2>11, SameCells
    <2>13. e.capacity[p] >= n
      BY <2>7
    <2> QED
      BY <2>6, <2>7, <2>10, <2>12, <2>13 DEF Roomier, e
  <1> QED
    BY <1>1, <1>2, <1>3, <1>4

-----------------------------------------------------------------------------
(* The number of samples                                                     *)

\* Of the samples, only those of p are not the same.
Only(d, e, p) ==
    /\ d.allocated => e.allocated
    /\ \A q \in Pixels : q # p => Contents(e, q) = Contents(d, q)

\* One such change after another.
LEMMA OnlyBoth ==
    ASSUME NEW d, NEW e, NEW f, NEW p, Only(d, e, p), Only(e, f, p)
    PROVE  Only(d, f, p)
  BY DEF Only

\* Pixels that are kept have as many samples.
LEMMA OnlyCounts ==
    ASSUME NEW d \in Sane, NEW e \in Sane, NEW p, Only(d, e, p)
    PROVE  \A q \in Pixels : q # p => e.nsamples[q] = d.nsamples[q]
  <1> TAKE q \in Pixels
  <1>1. Len(Contents(e, q)) = e.nsamples[q] /\ Len(Contents(d, q)) = d.nsamples[q]
    BY ContentsIs
  <1> QED
    BY <1>1 DEF Only

\* Writing to a pixel leaves the others alone.
LEMMA WroteOnly ==
    ASSUME NEW d \in Sane, NEW e \in Sane, NEW p \in Pixels, NEW i, NEW s, Wrote(d, e, p, i, s)
    PROVE  /\ Only(d, e, p) /\ e.nsamples = d.nsamples /\ e.capacity = d.capacity
           /\ e.allocated
  <1>1. ASSUME NEW q \in Pixels, q # p PROVE Contents(e, q) = Contents(d, q)
    <2>1. \A k \in 1..d.nsamples[q] : k \in 1..d.capacity[q]
      BY Fields
    <2>2. \A k \in 1..d.nsamples[q] : Cell(e, q, k) = Cell(d, q, k)
      BY <1>1, <2>1 DEF Wrote
    <2>3. e.nsamples[q] = d.nsamples[q]
      BY DEF Wrote
    <2> QED
      BY <2>2, <2>3, SameCells
  <1> QED
    BY <1>1 DEF Only, Wrote

\* Only the number of samples of p is another.
Recounted(d, e, p, n) ==
    /\ Only(d, e, p) /\ e.nsamples[p] = n /\ e.allocated = d.allocated
    /\ e.capacity = d.capacity
    /\ \A k \in 1..n : Contents(e, p)[k] = Cell(d, p, k)

\* Setting m_nsamples does that, within the capacity.
LEMMA RecountIs ==
    ASSUME NEW d \in Sane, NEW p \in Pixels, NEW n \in Nat, n <= d.capacity[p]
    PROVE  /\ [d EXCEPT !.nsamples[p] = n] \in Sane
           /\ Recounted(d, [d EXCEPT !.nsamples[p] = n], p, n)
  <1> DEFINE e == [d EXCEPT !.nsamples[p] = n]
  <1>1. /\ e.nsamples = [d.nsamples EXCEPT ![p] = n] /\ e.allocated = d.allocated
        /\ e.data = d.data /\ e.cumcapacity = d.cumcapacity /\ e.capacity = d.capacity
        /\ e \in Data
    BY Fields DEF Data, Numbers
  <1> HIDE DEF e
  <1>2. \A q \in Pixels : e.nsamples[q] = IF q = p THEN n ELSE d.nsamples[q]
    BY <1>1, Fields DEF Numbers
  <1>3. Laid(e)
    <2>1. \A q \in 1..(NPixels + 1) : Before(e, q) = Before(d, q)
      BY <1>1, Fields, BeforeSame DEF Numbers
    <2>2. NPixels + 1 \in 1..(NPixels + 1) /\ \A q \in Pixels : q \in 1..(NPixels + 1)
      BY Consts
    <2> QED
      BY <1>1, <2>1, <2>2 DEF Laid, Sane
  <1>4. e \in Sane
    BY <1>1, <1>2, <1>3, Fields DEF Sane
  <1>5. \A q \in Pixels : \A k \in Nat : Cell(e, q, k) = Cell(d, q, k)
    BY <1>1 DEF Cell
  <1>6. \A q \in Pixels : q # p => Contents(e, q) = Contents(d, q)
    BY <1>1, <1>2 DEF Contents, Part
  <1>7. \A k \in 1..n : Contents(e, p)[k] = Cell(d, p, k)
    <2>1. \A k \in 1..e.nsamples[p] : Contents(e, p)[k] = Cell(e, p, k)
      BY <1>4, ContentsIs
    <2> QED
      BY <1>2, <1>5, <2>1
  <1> QED
    BY <1>1, <1>2, <1>4, <1>6, <1>7 DEF Recounted, Only, e

\* n samples of p at pos are new, and the others in the order in which they were.
Opened(d, e, p, pos, n) ==
    /\ Only(d, e, p) /\ e.nsamples[p] = d.nsamples[p] + n /\ e.allocated = d.allocated
    /\ \A k \in 1..pos : Contents(e, p)[k] = Contents(d, p)[k]
    /\ \A k \in 1..(d.nsamples[p] - pos) : Contents(e, p)[pos + n + k] = Contents(d, p)[pos + k]

\* Numbers of insertions: positions i of what is moved, and k in the pixel.
LEMMA Openings ==
    ASSUME NEW old \in Nat, NEW n \in Nat, NEW pos \in 0..old
    PROVE  /\ pos \in Nat /\ pos + n + 1 \in Nat \ {0} /\ old - pos \in Nat
           /\ pos + n + 1 - 1 + (old - pos) = old + n /\ pos + (old - pos) = old
           /\ \A k \in 1..pos : /\ ~(pos + n + 1 <= k) /\ k \in 1..old /\ k \in 1..(old + n)
           /\ \A k \in 1..(old - pos) :
                 /\ pos + n + 1 <= pos + n + k /\ pos + n + k < pos + n + 1 + (old - pos)
                 /\ (pos + n + k) - (pos + n + 1) + 1 = k
                 /\ pos + k \in 1..old /\ pos + n + k \in 1..(old + n)
  OBVIOUS

\* Inserting samples.
LEMMA InsertIs ==
    ASSUME NEW d \in Sane, NEW p \in Pixels, NEW pos \in 0..d.nsamples[p], NEW n \in Nat
    PROVE  InsertSamples(d, p, pos, n) \in Sane /\ Opened(d, InsertSamples(d, p, pos, n), p, pos, n)
  <1> DEFINE old == d.nsamples[p]
             room == IF old + n > d.capacity[p] THEN SetCapacity(d, p, old + n) ELSE d
             s == SubSeq(Contents(room, p), pos + 1, old)
             moved == IF room.allocated /\ pos < old THEN Over(room, p, pos + n + 1, s) ELSE room
             e == [moved EXCEPT !.nsamples[p] = @ + n]
  <1>1. InsertSamples(d, p, pos, n) = e
    BY DEF InsertSamples
  <1>2. old \in Nat /\ d.capacity[p] \in Nat /\ old <= d.capacity[p]
    BY Fields
  <1>3. /\ room \in Sane /\ room.nsamples = d.nsamples /\ room.allocated = d.allocated
        /\ \A q \in Pixels : Contents(room, q) = Contents(d, q)
        /\ room.capacity[p] >= old + n
    <2>1. CASE old + n > d.capacity[p]
      <3>1. old + n \in Nat /\ old + n >= old
        BY <1>2
      <3>2. SetCapacity(d, p, old + n) \in Sane /\ Roomier(d, SetCapacity(d, p, old + n), p, old + n)
        BY <3>1, SetCapacityIs
      <3> QED
        BY <2>1, <3>2 DEF Roomier
    <2>2. CASE ~(old + n > d.capacity[p])
      <3>1. d.capacity[p] >= old + n
        BY <1>2, <2>2
      <3> QED
        BY <2>2, <3>1
    <2> QED
      BY <2>1, <2>2
  <1> HIDE DEF room
  <1> DEFINE c == Contents(d, p)
  <1>4. /\ c \in Seq(Samples) /\ Len(c) = old
        /\ \A k \in 1..old : c[k] = Cell(room, p, k)
    BY <1>3, ContentsIs
  <1> HIDE DEF c
  <1>5. /\ pos \in Nat /\ pos + n + 1 \in Nat \ {0} /\ old - pos \in Nat /\ pos <= old
        /\ pos + n + 1 - 1 + (old - pos) = old + n /\ pos + (old - pos) = old
        /\ \A k \in 1..pos : /\ ~(pos + n + 1 <= k) /\ k \in 1..old /\ k \in 1..(old + n)
        /\ \A k \in 1..(old - pos) :
              /\ pos + n + 1 <= pos + n + k /\ pos + n + k < pos + n + 1 + (old - pos)
              /\ (pos + n + k) - (pos + n + 1) + 1 = k
              /\ pos + k \in 1..old /\ pos + n + k \in 1..(old + n)
    <2> HIDE DEF old
    <2>1. pos \in 0..old
      BY DEF old
    <2> QED
      BY <1>2, <2>1, Openings
  <1>6. \A k \in 1..(old + n) : k \in 1..room.capacity[p]
    <2>1. old + n \in Nat /\ room.capacity[p] \in Nat /\ old + n <= room.capacity[p]
      BY <1>2, <1>3, Fields
    <2> QED
      BY <2>1
  <1> HIDE DEF old, s, moved, e
  <1>7. /\ moved \in Sane /\ moved.nsamples = d.nsamples /\ moved.allocated = d.allocated
        /\ moved.capacity = room.capacity /\ Only(d, moved, p)
        /\ \A k \in 1..pos : Cell(moved, p, k) = c[k]
        /\ \A k \in 1..(old - pos) : Cell(moved, p, pos + n + k) = c[pos + k]
    <2>1. Only(d, room, p)
      BY <1>3 DEF Only
    <2>2. CASE room.allocated /\ pos < old
      <3>1. Slice(s, c, pos, old - pos, Samples)
        <4>1. Slice(SubSeq(c, pos + 1, pos + (old - pos)), c, pos, old - pos, Samples)
          BY <1>4, <1>5, SubSeqIs
        <4> QED
          BY <1>3, <1>5, <4>1 DEF s, c
      <3>2. /\ s \in Seq(Samples) /\ Len(s) = old - pos
            /\ \A k \in 1..(old - pos) : s[k] = c[pos + k]
        BY <3>1 DEF Slice
      <3>3. moved = Over(room, p, pos + n + 1, s)
        BY <2>2 DEF moved
      <3>4. pos + n + 1 - 1 + Len(s) <= room.capacity[p]
        <4>1. old + n \in Nat /\ room.capacity[p] \in Nat
          BY <1>2, <1>3, Fields
        <4> QED
          BY <1>3, <1>5, <3>2, <4>1
      <3>5. moved \in Sane /\ Wrote(room, moved, p, pos + n + 1, s)
        <4>1. PICK i \in Nat \ {0} : i = pos + n + 1
          BY <1>5
        <4>2. i - 1 + Len(s) <= room.capacity[p]
          BY <3>4, <4>1
        <4>3. Over(room, p, i, s) \in Sane /\ Wrote(room, Over(room, p, i, s), p, i, s)
          BY <1>3, <2>2, <3>2, <4>2, OverIs
        <4> QED
          BY <3>3, <4>1, <4>3
      <3>6. /\ Only(room, moved, p) /\ moved.nsamples = room.nsamples
            /\ moved.capacity = room.capacity /\ moved.allocated
        BY <1>3, <3>5, WroteOnly
      <3>7. Only(d, moved, p)
        BY <2>1, <3>6, OnlyBoth
      <3>8. \A k \in 1..room.capacity[p] :
               Cell(moved, p, k) = IF pos + n + 1 <= k /\ k < pos + n + 1 + (old - pos)
                                   THEN s[k - (pos + n + 1) + 1] ELSE Cell(room, p, k)
        BY <3>2, <3>5 DEF Wrote
      <3>9. \A k \in 1..pos : Cell(moved, p, k) = c[k]
        BY <1>4, <1>5, <1>6, <3>8
      <3>10. \A k \in 1..(old - pos) : Cell(moved, p, pos + n + k) = c[pos + k]
        <4> TAKE k \in 1..(old - pos)
        <4>1. /\ pos + n + k \in 1..room.capacity[p]
              /\ pos + n + 1 <= pos + n + k /\ pos + n + k < pos + n + 1 + (old - pos)
              /\ (pos + n + k) - (pos + n + 1) + 1 = k
          BY <1>5, <1>6
        <4>2. Cell(moved, p, pos + n + k) = s[k]
          BY <3>8, <4>1
        <4> QED
          BY <3>2, <4>2
      <3> QED
        BY <1>3, <2>2, <3>5, <3>6, <3>7, <3>9, <3>10, Fields
    <2>3. CASE ~(room.allocated /\ pos < old)
      <3>1. moved = room
        BY <2>3 DEF moved
      <3>2. \A k \in 1..pos : Cell(moved, p, k) = c[k]
        BY <1>4, <1>5, <3>1
      <3>3. \A k \in 1..(old - pos) : Cell(moved, p, pos + n + k) = c[pos + k]
        <4>1. CASE ~room.allocated
          BY <1>4, <1>5, <3>1, <4>1 DEF Cell
        <4>2. CASE ~(pos < old)
          <5>1. old - pos = 0
            BY <1>2, <1>5, <4>2
          <5> QED
            BY <5>1
        <4> QED
          BY <2>3, <4>1, <4>2
      <3> QED
        BY <1>3, <2>1, <3>1, <3>2, <3>3
    <2> QED
      BY <2>2, <2>3
  <1>8. e = [moved EXCEPT !.nsamples[p] = old + n]
    BY <1>7 DEF e, old
  <1>9. old + n \in Nat /\ old + n <= moved.capacity[p]
    <2>1. old + n \in Nat /\ room.capacity[p] \in Nat
      BY <1>2, <1>3, Fields
    <2> QED
      BY <1>3, <1>7, <2>1
  <1>10. e \in Sane /\ Recounted(moved, e, p, old + n)
    BY <1>7, <1>8, <1>9, RecountIs
  <1>11. Only(d, e, p)
    BY <1>7, <1>10, OnlyBoth DEF Recounted
  <1>12. \A k \in 1..(old + n) : Contents(e, p)[k] = Cell(moved, p, k)
    BY <1>10 DEF Recounted
  <1>13. /\ \A k \in 1..pos : Contents(e, p)[k] = c[k]
         /\ \A k \in 1..(old - pos) : Contents(e, p)[pos + n + k] = c[pos + k]
    BY <1>5, <1>7, <1>12
  <1>14. Opened(d, e, p, pos, n)
    BY <1>7, <1>10, <1>11, <1>13 DEF Opened, Recounted, old, c
  <1> QED
    BY <1>1, <1>10, <1>14

\* The n samples of p after the first pos are gone, and the others as they were.
Closed(d, e, p, pos, n) ==
    /\ Only(d, e, p) /\ e.nsamples[p] = d.nsamples[p] - n /\ e.allocated = d.allocated
    /\ e.capacity = d.capacity
    /\ \A k \in 1..pos : Contents(e, p)[k] = Contents(d, p)[k]
    /\ \A k \in 1..(d.nsamples[p] - pos - n) : Contents(e, p)[pos + k] = Contents(d, p)[pos + n + k]

\* Numbers of removals: positions of what is moved, and k in the pixel.
LEMMA Closings ==
    ASSUME NEW old \in Nat, NEW pos \in Nat, NEW n \in Nat, pos + n <= old
    PROVE  /\ pos + 1 \in Nat \ {0} /\ old - pos - n \in Nat /\ old - n \in Nat
           /\ pos + n \in Nat /\ pos + 1 - 1 + (old - pos - n) = old - n
           /\ pos + n + (old - pos - n) = old /\ old - n <= old /\ n <= old
           /\ \A k \in 1..pos : ~(pos + 1 <= k) /\ k \in 1..old /\ k \in 1..(old - n)
           /\ \A k \in 1..(old - pos - n) :
                 /\ pos + 1 <= pos + k /\ pos + k < pos + 1 + (old - pos - n)
                 /\ (pos + k) - (pos + 1) + 1 = k
                 /\ pos + n + k \in 1..old /\ pos + k \in 1..(old - n)
  OBVIOUS

\* Erasing samples.
LEMMA EraseIs ==
    ASSUME NEW d \in Sane, NEW p \in Pixels, NEW pos \in Nat, NEW n \in Nat,
           pos + n <= d.nsamples[p]
    PROVE  EraseSamples(d, p, pos, n) \in Sane /\ Closed(d, EraseSamples(d, p, pos, n), p, pos, n)
  <1> DEFINE old == d.nsamples[p]
             c == Contents(d, p)
             s == SubSeq(c, pos + n + 1, old)
             moved == IF d.allocated THEN Over(d, p, pos + 1, s) ELSE d
             e == [moved EXCEPT !.nsamples[p] = @ - n]
  <1>1. old \in Nat /\ d.capacity[p] \in Nat /\ old <= d.capacity[p]
    BY Fields
  <1>2. EraseSamples(d, p, pos, n) = e
    <2>1. (IF n < old THEN n ELSE old) = n
      BY <1>1
    <2> QED
      BY <2>1 DEF EraseSamples
  <1>3. /\ c \in Seq(Samples) /\ Len(c) = old
        /\ \A k \in 1..old : c[k] = Cell(d, p, k)
    BY ContentsIs
  <1>4. /\ pos + 1 \in Nat \ {0} /\ old - pos - n \in Nat /\ old - n \in Nat
        /\ pos + n \in Nat /\ pos + 1 - 1 + (old - pos - n) = old - n
        /\ pos + n + (old - pos - n) = old /\ old - n <= old /\ n <= old
        /\ \A k \in 1..pos : ~(pos + 1 <= k) /\ k \in 1..old /\ k \in 1..(old - n)
        /\ \A k \in 1..(old - pos - n) :
              /\ pos + 1 <= pos + k /\ pos + k < pos + 1 + (old - pos - n)
              /\ (pos + k) - (pos + 1) + 1 = k
              /\ pos + n + k \in 1..old /\ pos + k \in 1..(old - n)
    <2> HIDE DEF old
    <2>1. pos + n <= old
      BY DEF old
    <2> QED
      BY <1>1, <2>1, Closings
  <1>5. (\A k \in 1..old : k \in 1..d.capacity[p]) /\ old - n <= d.capacity[p]
    <2> HIDE DEF old
    <2>1. old - n \in Nat /\ old - n <= old
      BY <1>4
    <2> QED
      BY <1>1, <2>1
  <1> HIDE DEF old, c, s, moved, e
  <1>6. /\ moved \in Sane /\ moved.nsamples = d.nsamples /\ moved.allocated = d.allocated
        /\ moved.capacity = d.capacity /\ Only(d, moved, p)
        /\ \A k \in 1..pos : Cell(moved, p, k) = c[k]
        /\ \A k \in 1..(old - pos - n) : Cell(moved, p, pos + k) = c[pos + n + k]
    <2>1. CASE d.allocated
      <3>1. Slice(s, c, pos + n, old - pos - n, Samples)
        <4>1. PICK a \in Nat : a = pos + n
          BY <1>4
        <4>2. PICK m \in Nat : m = old - pos - n
          BY <1>4
        <4>3. a + m = old
          BY <1>4, <4>1, <4>2
        <4>4. Slice(SubSeq(c, a + 1, a + m), c, a, m, Samples)
          BY <1>1, <1>3, <4>3, SubSeqIs
        <4> QED
          BY <4>1, <4>2, <4>3, <4>4 DEF s
      <3>2. /\ s \in Seq(Samples) /\ Len(s) = old - pos - n
            /\ \A k \in 1..(old - pos - n) : s[k] = c[pos + n + k]
        BY <3>1 DEF Slice
      <3>3. moved = Over(d, p, pos + 1, s)
        BY <2>1 DEF moved
      <3>4. pos + 1 - 1 + Len(s) <= d.capacity[p]
        BY <1>4, <1>5, <3>2
      <3>5. moved \in Sane /\ Wrote(d, moved, p, pos + 1, s)
        <4>1. PICK i \in Nat \ {0} : i = pos + 1
          BY <1>4
        <4>2. i - 1 + Len(s) <= d.capacity[p]
          BY <3>4, <4>1
        <4>3. Over(d, p, i, s) \in Sane /\ Wrote(d, Over(d, p, i, s), p, i, s)
          BY <2>1, <3>2, <4>2, OverIs
        <4> QED
          BY <3>3, <4>1, <4>3
      <3>6. /\ Only(d, moved, p) /\ moved.nsamples = d.nsamples
            /\ moved.capacity = d.capacity /\ moved.allocated
        BY <3>5, WroteOnly
      <3>7. \A k \in 1..d.capacity[p] :
               Cell(moved, p, k) = IF pos + 1 <= k /\ k < pos + 1 + (old - pos - n)
                                   THEN s[k - (pos + 1) + 1] ELSE Cell(d, p, k)
        BY <3>2, <3>5 DEF Wrote
      <3>8. \A k \in 1..pos : Cell(moved, p, k) = c[k]
        BY <1>3, <1>4, <1>5, <3>7
      <3>9. \A k \in 1..(old - pos - n) : Cell(moved, p, pos + k) = c[pos + n + k]
        <4> TAKE k \in 1..(old - pos - n)
        <4>1. /\ pos + k \in 1..(old - n)
              /\ pos + 1 <= pos + k /\ pos + k < pos + 1 + (old - pos - n)
              /\ (pos + k) - (pos + 1) + 1 = k
          BY <1>4
        <4>2. pos + k \in 1..d.capacity[p]
          BY <1>1, <1>4, <1>5, <4>1
        <4>3. Cell(moved, p, pos + k) = s[k]
          BY <3>7, <4>1, <4>2
        <4> QED
          BY <3>2, <4>3
      <3> QED
        BY <2>1, <3>5, <3>6, <3>8, <3>9, Fields
    <2>2. CASE ~d.allocated
      <3>1. moved = d
        BY <2>2 DEF moved
      <3>2. \A k \in 1..pos : Cell(moved, p, k) = c[k]
        BY <1>3, <1>4, <3>1
      <3>3. \A k \in 1..(old - pos - n) : Cell(moved, p, pos + k) = c[pos + n + k]
        BY <1>3, <1>4, <2>2, <3>1 DEF Cell
      <3> QED
        BY <3>1, <3>2, <3>3 DEF Only
    <2> QED
      BY <2>1, <2>2
  <1>7. e = [moved EXCEPT !.nsamples[p] = old - n]
    BY <1>6 DEF e, old
  <1>8. e \in Sane /\ Recounted(moved, e, p, old - n)
    BY <1>4, <1>5, <1>6, <1>7, RecountIs
  <1>9. Only(d, e, p)
    BY <1>6, <1>8, OnlyBoth DEF Recounted
  <1>10. \A k \in 1..(old - n) : Contents(e, p)[k] = Cell(moved, p, k)
    BY <1>8 DEF Recounted
  <1>11. /\ \A k \in 1..pos : Contents(e, p)[k] = c[k]
         /\ \A k \in 1..(old - pos - n) : Contents(e, p)[pos + k] = c[pos + n + k]
    BY <1>4, <1>6, <1>10
  <1>12. Closed(d, e, p, pos, n)
    BY <1>6, <1>8, <1>9, <1>11 DEF Closed, Recounted, old, c
  <1> QED
    BY <1>2, <1>8, <1>12

\* p has n samples, of which those that it had are the same.
Counted(d, e, p, n) ==
    /\ Only(d, e, p) /\ e.nsamples[p] = n /\ e.allocated = d.allocated
    /\ \A k \in 1..n : k <= d.nsamples[p] => Contents(e, p)[k] = Contents(d, p)[k]

\* Setting the number of samples.
LEMMA SetSamplesIs ==
    ASSUME NEW d \in Sane, NEW p \in Pixels, NEW n \in Nat
    PROVE  SetSamples(d, p, n) \in Sane /\ Counted(d, SetSamples(d, p, n), p, n)
  <1> DEFINE old == d.nsamples[p]
             e == SetSamples(d, p, n)
  <1>1. old \in Nat /\ d.capacity[p] \in Nat /\ old <= d.capacity[p] /\ d.allocated \in BOOLEAN
    BY Fields
  <1>2. CASE d.allocated /\ n > old
    <2>1. /\ n - old \in Nat /\ old \in 0..old /\ old + (n - old) = n
          /\ \A k \in 1..n : k <= old => k \in 1..old
      BY <1>1, <1>2
    <2> PICK m \in Nat : m = n - old
      BY <2>1
    <2>2. SetSamples(d, p, n) = InsertSamples(d, p, old, m)
      <3>1. n > old /\ ~(n < old) /\ d.allocated
        BY <1>1, <1>2
      <3> QED
        BY <3>1 DEF SetSamples
    <2>3. InsertSamples(d, p, old, m) \in Sane /\ Opened(d, InsertSamples(d, p, old, m), p, old, m)
      BY <2>1, InsertIs
    <2> QED
      BY <2>1, <2>2, <2>3 DEF Opened, Counted
  <1>3. CASE d.allocated /\ n < old
    <2>1. /\ old - n \in Nat /\ n + (old - n) = old /\ old - (old - n) = n
      BY <1>1, <1>3
    <2> PICK m \in Nat : m = old - n
      BY <2>1
    <2>2. SetSamples(d, p, n) = EraseSamples(d, p, n, m)
      BY <1>1, <1>3 DEF SetSamples
    <2>3. n + m <= d.nsamples[p]
      BY <1>1, <2>1
    <2>4. EraseSamples(d, p, n, m) \in Sane /\ Closed(d, EraseSamples(d, p, n, m), p, n, m)
      BY <2>3, EraseIs
    <2> QED
      BY <2>1, <2>2, <2>4 DEF Closed, Counted
  <1>4. CASE d.allocated /\ n = old
    <2>1. SetSamples(d, p, n) = d
      <3>1. ~(n > old) /\ ~(n < old)
        BY <1>1, <1>4
      <3> QED
        BY <1>4, <3>1 DEF SetSamples
    <2> QED
      BY <1>4, <2>1 DEF Counted, Only
  <1>5. CASE ~d.allocated
    <2> DEFINE c == IF n > d.capacity[p] THEN n ELSE d.capacity[p]
               f == [d EXCEPT !.capacity[p] = c]
    <2>1. c \in Nat /\ c >= n /\ c >= d.capacity[p] /\ c >= old
      BY <1>1
    <2> HIDE DEF c
    <2>2. /\ f \in Data /\ f.nsamples = d.nsamples /\ f.allocated = d.allocated
          /\ f.capacity = [d.capacity EXCEPT ![p] = c] /\ f.data = d.data
          /\ f.cumcapacity = d.cumcapacity
      BY <2>1, Fields DEF Data, Numbers
    <2>3. e = [f EXCEPT !.nsamples[p] = n]
      BY <1>5, Fields DEF SetSamples, c, Data
    <2> HIDE DEF f, e
    <2>4. \A q \in Pixels : f.capacity[q] = IF q = p THEN c ELSE d.capacity[q]
      BY <2>2, Fields DEF Numbers
    <2>5. f \in Sane
      <3>1. \A q \in Pixels : f.nsamples[q] <= f.capacity[q]
        BY <1>1, <2>1, <2>2, <2>4, Fields
      <3> QED
        BY <1>5, <2>2, <3>1 DEF Sane, Laid
    <2>6. e \in Sane /\ Recounted(f, e, p, n)
      BY <2>1, <2>3, <2>4, <2>5, RecountIs
    <2>7. \A q \in Pixels : Contents(f, q) = Contents(d, q)
      BY <1>5, <2>2 DEF Contents, Part
    <2>8. Only(d, e, p)
      BY <1>5, <2>6, <2>7 DEF Recounted, Only
    <2>9. \A k \in 1..n : k <= old => Contents(e, p)[k] = Contents(d, p)[k]
      <3>1. \A k \in 1..n : Contents(e, p)[k] = Zero
        BY <1>5, <2>2, <2>6 DEF Recounted, Cell
      <3>2. \A k \in 1..old : Contents(d, p)[k] = Zero
        BY <1>5, ContentsIs DEF Cell
      <3> QED
        BY <1>1, <3>1, <3>2
    <2> QED
      BY <2>2, <2>6, <2>8, <2>9 DEF Recounted, Counted, e
  <1> QED
    BY <1>1, <1>2, <1>3, <1>4, <1>5

-----------------------------------------------------------------------------
(* Writing samples                                                           *)

\* Allocating keeps the samples.
LEMMA AllocKeeps ==
    ASSUME NEW d \in Sane
    PROVE  /\ Alloc(d) \in Sane /\ Alloc(d).allocated /\ Alloc(d).capacity = d.capacity
           /\ Alloc(d).nsamples = d.nsamples
           /\ \A q \in Pixels : Contents(Alloc(d), q) = Contents(d, q)
  <1> DEFINE e == Alloc(d)
  <1>1. e \in Sane /\ e.allocated /\ e.capacity = d.capacity /\ SameArray(d, e)
    BY AllocIs
  <1> HIDE DEF e
  <1>2. ASSUME NEW q \in Pixels PROVE Contents(e, q) = Contents(d, q)
    <2>1. \A k \in 1..d.nsamples[q] : k \in 1..d.capacity[q]
      BY Fields
    <2>2. \A k \in 1..d.nsamples[q] : Cell(e, q, k) = Cell(d, q, k)
      BY <1>1, <2>1 DEF SameArray
    <2>3. e.nsamples[q] = d.nsamples[q]
      BY <1>1 DEF SameArray
    <2> QED
      BY <1>1, <2>2, <2>3, SameCells
  <1> QED
    BY <1>1, <1>2 DEF SameArray, e

\* p's samples from the i-th on are s.
Stored(d, e, p, i, s) ==
    /\ Only(d, e, p) /\ e.nsamples = d.nsamples /\ e.capacity = d.capacity /\ e.allocated
    /\ \A k \in 1..d.nsamples[p] :
          Contents(e, p)[k] = IF i <= k /\ k < i + Len(s) THEN s[k - i + 1] ELSE Contents(d, p)[k]

\* Writing samples, in an array that is there after the first access.
LEMMA StoreIs ==
    ASSUME NEW d \in Sane, NEW p \in Pixels, NEW i \in Nat \ {0}, NEW s \in Seq(Samples),
           i - 1 + Len(s) <= d.nsamples[p]
    PROVE  Over(Alloc(d), p, i, s) \in Sane /\ Stored(d, Over(Alloc(d), p, i, s), p, i, s)
  <1> DEFINE a == Alloc(d)
             e == Over(a, p, i, s)
  <1>1. /\ a \in Sane /\ a.allocated /\ a.capacity = d.capacity /\ a.nsamples = d.nsamples
        /\ \A q \in Pixels : Contents(a, q) = Contents(d, q)
    BY AllocKeeps
  <1> HIDE DEF a
  <1>2. i - 1 + Len(s) <= a.capacity[p]
    <2>1. d.nsamples[p] \in Nat /\ d.capacity[p] \in Nat /\ d.nsamples[p] <= d.capacity[p]
      BY Fields
    <2>2. Len(s) \in Nat
      OBVIOUS
    <2> QED
      BY <1>1, <2>1, <2>2
  <1>3. e \in Sane /\ Wrote(a, e, p, i, s)
    BY <1>1, <1>2, OverIs
  <1> HIDE DEF e
  <1>4. Only(a, e, p) /\ e.nsamples = a.nsamples /\ e.capacity = a.capacity /\ e.allocated
    BY <1>1, <1>3, WroteOnly
  <1>5. Only(d, e, p)
    BY <1>1, <1>4 DEF Only
  <1>6. ASSUME NEW k \in 1..d.nsamples[p]
        PROVE  Contents(e, p)[k] = IF i <= k /\ k < i + Len(s) THEN s[k - i + 1]
                                                              ELSE Contents(d, p)[k]
    <2>1. k \in 1..a.capacity[p]
      BY <1>1, Fields
    <2>2. Contents(e, p)[k] = Cell(e, p, k) /\ Contents(a, p)[k] = Cell(a, p, k)
      BY <1>1, <1>3, <1>4, ContentsIs
    <2>3. Cell(e, p, k) = IF i <= k /\ k < i + Len(s) THEN s[k - i + 1] ELSE Cell(a, p, k)
      BY <1>3, <2>1 DEF Wrote
    <2> QED
      BY <1>1, <2>2, <2>3
  <1> QED
    BY <1>1, <1>3, <1>4, <1>5, <1>6 DEF Stored, e, a

\* Writing all of a pixel's samples.
LEMMA FillIs ==
    ASSUME NEW d \in Sane, NEW p \in Pixels, NEW s \in Seq(Samples), Len(s) = d.nsamples[p]
    PROVE  LET e == Over(Alloc(d), p, 1, s) IN
           /\ e \in Sane /\ Only(d, e, p) /\ e.nsamples = d.nsamples /\ e.capacity = d.capacity
           /\ e.allocated /\ Contents(e, p) = s
  <1> DEFINE e == Over(Alloc(d), p, 1, s)
  <1>1. 1 \in Nat \ {0} /\ Len(s) \in Nat /\ 1 - 1 + Len(s) <= d.nsamples[p]
    OBVIOUS
  <1>2. e \in Sane /\ Stored(d, e, p, 1, s)
    BY <1>1, StoreIs, Zenon
  <1> HIDE DEF e
  <1>3. \A k \in 1..d.nsamples[p] : 1 <= k /\ k < 1 + Len(s) /\ k - 1 + 1 = k
    BY <1>1
  <1>4. e.nsamples = d.nsamples /\ \A k \in 1..d.nsamples[p] : Contents(e, p)[k] = s[k]
    BY <1>2, <1>3 DEF Stored
  <1>5. Contents(e, p) \in Seq(Samples) /\ Len(Contents(e, p)) = d.nsamples[p]
    BY <1>2, <1>4, ContentsIs
  <1>6. Contents(e, p) = s
    BY <1>4, <1>5, SeqEqual
  <1> QED
    BY <1>2, <1>4, <1>6 DEF Stored, e

\* One sample of p is v now.
Replaced(d, e, p, i, v) ==
    /\ Only(d, e, p) /\ e.nsamples = d.nsamples /\ e.capacity = d.capacity /\ e.allocated
    /\ \A k \in 1..d.nsamples[p] : Contents(e, p)[k] = IF k = i THEN v ELSE Contents(d, p)[k]

\* Writing one sample.
LEMMA PutIs ==
    ASSUME NEW d \in Sane, NEW p \in Pixels, NEW i \in 1..d.nsamples[p], NEW v \in Samples
    PROVE  Put(d, p, i, v) \in Sane /\ Replaced(d, Put(d, p, i, v), p, i, v)
  <1> DEFINE s == <<v>>
             e == Put(d, p, i, v)
  <1>1. s \in Seq(Samples) /\ Len(s) = 1 /\ s[1] = v
    OBVIOUS
  <1> HIDE DEF s
  <1>2. i \in Nat \ {0} /\ i - 1 + 1 <= d.nsamples[p] /\ i - 1 + Len(s) <= d.nsamples[p]
    <2>1. d.nsamples[p] \in Nat
      BY Fields
    <2> QED
      BY <1>1, <2>1
  <1>3. Over(Alloc(d), p, i, s) \in Sane /\ Stored(d, Over(Alloc(d), p, i, s), p, i, s)
    BY <1>1, <1>2, StoreIs
  <1>4. e = Over(Alloc(d), p, i, s)
    BY DEF Put, s
  <1> HIDE DEF e
  <1>5. ASSUME NEW k \in 1..d.nsamples[p]
        PROVE  Contents(e, p)[k] = IF k = i THEN v ELSE Contents(d, p)[k]
    <2>1. (i <= k /\ k < i + Len(s)) <=> k = i
      BY <1>1, <1>2
    <2>2. k = i => k - i + 1 = 1
      BY <1>2
    <2> QED
      BY <1>1, <1>3, <1>4, <2>1, <2>2 DEF Stored
  <1> QED
    BY <1>3, <1>4, <1>5 DEF Stored, Replaced, e

\* The value of a sample.
LEMMA ValueIs ==
    ASSUME NEW d \in Sane, NEW p \in Pixels, NEW i \in 1..d.nsamples[p]
    PROVE  Value(d, p, i) \in Samples /\ Value(d, p, i) = Contents(d, p)[i]
  BY ContentsIs DEF Value

\* Copying a sample between pixels of which the first has no fewer.
LEMMA CopySampleIs ==
    ASSUME NEW d \in Sane, NEW p \in Pixels, NEW q \in Pixels, d.nsamples[q] <= d.nsamples[p],
           NEW i \in 1..d.nsamples[p], NEW k \in 1..d.nsamples[q]
    PROVE  LET e == CopySample(d, p, i, q, k) IN
           /\ e \in Sane /\ Only(d, e, p) /\ e.nsamples[p] = d.nsamples[p] /\ e.allocated
           /\ \A j \in 1..d.nsamples[p] :
                 Contents(e, p)[j] = IF j = i THEN Value(d, q, k) ELSE Contents(d, p)[j]
  <1> DEFINE n == d.nsamples[p]
             room == SetSamples(d, p, n)
             v == Value(d, q, k)
             e == CopySample(d, p, i, q, k)
  <1>1. n \in Nat /\ d.nsamples[q] \in Nat
    BY Fields
  <1>2. Max({n, d.nsamples[q]}) = n
    BY <1>1, MaxPair
  <1>3. e = Put(room, p, i, v)
    BY <1>2 DEF CopySample
  <1>4. room \in Sane /\ Counted(d, room, p, n)
    BY <1>1, SetSamplesIs
  <1>5. v \in Samples
    BY ValueIs
  <1> HIDE DEF room, v
  <1>6. room.nsamples[p] = n
    BY <1>4 DEF Counted
  <1>7. Put(room, p, i, v) \in Sane /\ Replaced(room, Put(room, p, i, v), p, i, v)
    BY <1>4, <1>5, <1>6, PutIs
  <1> HIDE DEF e
  <1>8. Only(d, e, p) /\ e.nsamples[p] = n /\ e.allocated
    BY <1>3, <1>4, <1>6, <1>7, OnlyBoth DEF Counted, Replaced
  <1>9. \A j \in 1..n : Contents(e, p)[j] = IF j = i THEN v ELSE Contents(d, p)[j]
    <2>1. \A j \in 1..n : j <= n
      BY <1>1
    <2> QED
      BY <1>3, <1>4, <1>6, <1>7, <2>1 DEF Counted, Replaced
  <1> QED
    BY <1>3, <1>7, <1>8, <1>9 DEF e, v

\* Copying a pixel.
LEMMA CopyPixelIs ==
    ASSUME NEW d \in Sane, NEW p \in Pixels, NEW q \in Pixels, p # q
    PROVE  LET e == CopyPixel(d, p, q) IN
           e \in Sane /\ Only(d, e, p) /\ Contents(e, p) = Contents(d, q)
  <1> DEFINE n == d.nsamples[q]
             room == SetSamples(d, p, n)
             s == Contents(d, q)
             e == CopyPixel(d, p, q)
  <1>1. n \in Nat
    BY Fields
  <1>2. room \in Sane /\ Counted(d, room, p, n)
    BY <1>1, SetSamplesIs
  <1>3. /\ Only(d, room, p) /\ room.nsamples[p] = n /\ Contents(room, q) = s
    BY <1>2 DEF Counted, Only
  <1>4. s \in Seq(Samples) /\ Len(s) = n
    BY ContentsIs
  <1>5. e = IF n = 0 THEN room ELSE Over(Alloc(room), p, 1, s)
    BY <1>3 DEF CopyPixel
  <1> HIDE DEF e, room, s
  <1>6. CASE n = 0
    <2>1. e = room
      BY <1>5, <1>6
    <2>2. Contents(room, p) \in Seq(Samples) /\ Len(Contents(room, p)) = 0
      BY <1>2, <1>3, <1>6, ContentsIs
    <2>3. Contents(room, p) = s
      BY <1>4, <1>6, <2>2
    <2> QED
      BY <1>2, <1>3, <2>1, <2>3 DEF e, s
  <1>7. CASE n # 0
    <2>1. e = Over(Alloc(room), p, 1, s)
      BY <1>5, <1>7
    <2>2. e \in Sane /\ Only(room, e, p) /\ Contents(e, p) = s
      BY <1>2, <1>3, <1>4, <2>1, FillIs
    <2>3. Only(d, e, p)
      BY <1>3, <2>2, OnlyBoth
    <2> QED
      BY <2>2, <2>3 DEF e, s
  <1> QED
    BY <1>6, <1>7

-----------------------------------------------------------------------------
(* The loops                                                                 *)

\* What d becomes by changes of p.
Versions(d, p) == {e \in Sane : Only(d, e, p)}
Positions(from) == {i \in Nat : i >= from}

\* One change more.
LEMMA VersionsNext ==
    ASSUME NEW d, NEW p, NEW e \in Versions(d, p), NEW f \in Sane, Only(e, f, p)
    PROVE  f \in Versions(d, p)
  BY OnlyBoth DEF Versions

\* Mixing two samples, or cutting one, makes samples.
LEMMA SampleParts ==
    ASSUME NEW v \in Samples
    PROVE  /\ v.z \in Depths /\ v.zback \in Depths /\ v.opaque \in BOOLEAN
           /\ v.z <= v.zback /\ v.z \in Nat /\ v.zback \in Nat
           /\ \A depth \in Depths : v.z < depth /\ depth < v.zback =>
                 [v EXCEPT !.zback = depth] \in Samples /\ [v EXCEPT !.z = depth] \in Samples
           /\ \A w \in Samples : Mix(v, w) \in Samples
  <1>1. /\ v.z \in Depths /\ v.zback \in Depths /\ v.opaque \in BOOLEAN
        /\ v.z <= v.zback /\ v.z \in Nat /\ v.zback \in Nat
        /\ \A depth \in Depths : v.z < depth /\ depth < v.zback =>
              [v EXCEPT !.zback = depth] \in Samples /\ [v EXCEPT !.z = depth] \in Samples
    BY Consts DEF Samples
  <1>2. ASSUME NEW w \in Samples PROVE Mix(v, w) \in Samples
    <2> DEFINE colours == CASE v.opaque /\ ~w.opaque -> v.of
                            [] w.opaque /\ ~v.opaque -> w.of
                            [] v.opaque <=> w.opaque -> v.of \union w.of
               all == UNION {u.of : u \in Written}
    <2>1. v.of \subseteq all /\ w.of \subseteq all
      BY DEF Samples
    <2> HIDE DEF all
    <2>2. colours \subseteq all
      <3>1. CASE v.opaque /\ ~w.opaque
        BY <2>1, <3>1
      <3>2. CASE w.opaque /\ ~v.opaque
        BY <2>1, <3>2
      <3>3. CASE v.opaque <=> w.opaque
        BY <2>1, <3>3
      <3> QED
        BY <3>1, <3>2, <3>3
    <2>3. (v.opaque \/ w.opaque) \in BOOLEAN
      OBVIOUS
    <2> HIDE DEF colours
    <2>4. [v EXCEPT !.opaque = v.opaque \/ w.opaque, !.of = colours] \in Samples
      BY <2>2, <2>3 DEF Samples, all
    <2> QED
      BY <2>4 DEF Mix, colours
  <1> QED
    BY <1>1, <1>2

-----------------------------------------------------------------------------
(* How far capacities grow                                                   *)

\* The capacity of p in e is that in d, or n at most, and that of others as it was.
Widened(d, e, p, n) ==
    /\ e.capacity[p] = d.capacity[p] \/ e.capacity[p] <= n
    /\ \A q \in Pixels : q # p => e.capacity[q] = d.capacity[q]

\* Writing keeps capacities.
LEMMA OverCapacity ==
    ASSUME NEW d \in Sane, NEW p, NEW i, NEW s
    PROVE  Over(d, p, i, s).capacity = d.capacity /\ Over(d, p, i, s).nsamples = d.nsamples
           /\ Over(Alloc(d), p, i, s).capacity = d.capacity
  <1>1. \A x : [d EXCEPT !.data = x].capacity = d.capacity /\ [d EXCEPT !.data = x].nsamples = d.nsamples
    BY Fields
  <1>2. Alloc(d) \in Sane /\ Alloc(d).capacity = d.capacity
    BY AllocKeeps
  <1> DEFINE a == Alloc(d)
  <1>3. \A x : [a EXCEPT !.data = x].capacity = a.capacity
    <2> HIDE DEF a
    <2> QED
      BY <1>2, Fields DEF a
  <1> HIDE DEF a
  <1>4. Over(a, p, i, s).capacity = a.capacity
    BY <1>3 DEF Over
  <1> QED
    BY <1>1, <1>2, <1>4 DEF Over, a

\* Making room for samples, and their number.
LEMMA CapacityAfter ==
    ASSUME NEW d \in Sane, NEW p \in Pixels, NEW n \in Nat
    PROVE  /\ Widened(d, SetCapacity(d, p, n), p, n)
           /\ \A pos \in 0..d.nsamples[p] :
                 Widened(d, InsertSamples(d, p, pos, n), p, d.nsamples[p] + n)
           /\ Widened(d, SetSamples(d, p, n), p, n)
  <1>1. /\ d.nsamples[p] \in Nat /\ d.capacity[p] \in Nat /\ d.nsamples[p] <= d.capacity[p]
        /\ d.capacity \in [Pixels -> Nat] /\ d.nsamples \in [Pixels -> Nat] /\ d \in Data
        /\ d.allocated \in BOOLEAN
    BY Fields DEF Numbers
  <1>2. ASSUME NEW m \in Nat PROVE Widened(d, SetCapacity(d, p, m), p, m)
    <2>1. m - d.capacity[p] <= 0 \/ m - d.capacity[p] > 0
      BY <1>1
    <2> QED
      BY <1>1, <2>1 DEF Widened, SetCapacity, Data
  <1>3. ASSUME NEW pos \in 0..d.nsamples[p], NEW m \in Nat
        PROVE  Widened(d, InsertSamples(d, p, pos, m), p, d.nsamples[p] + m)
    <2> DEFINE old == d.nsamples[p]
               room == IF old + m > d.capacity[p] THEN SetCapacity(d, p, old + m) ELSE d
               s == SubSeq(Contents(room, p), pos + 1, old)
               moved == IF room.allocated /\ pos < old THEN Over(room, p, pos + m + 1, s) ELSE room
               e == [moved EXCEPT !.nsamples[p] = @ + m]
    <2>1. InsertSamples(d, p, pos, m) = e
      BY DEF InsertSamples
    <2>2. room \in Sane /\ Widened(d, room, p, old + m)
      BY <1>1, <1>2, SetCapacityIs DEF Widened
    <2> HIDE DEF room, s
    <2>3. moved.capacity = room.capacity
      BY <2>2, OverCapacity
    <2>4. \A x : [moved EXCEPT !.nsamples = x].capacity = moved.capacity
      <3>1. moved \in {room, Over(room, p, pos + m + 1, s)} /\ room \in Data
        BY <2>2 DEF Sane
      <3>2. \A x : [room EXCEPT !.data = x].capacity = room.capacity
        BY <3>1 DEF Data
      <3> QED
        BY <3>1 DEF Over, Data
    <2> HIDE DEF moved
    <2>5. e.capacity = moved.capacity
      BY <2>4
    <2> QED
      BY <2>1, <2>2, <2>3, <2>5 DEF Widened
  <1>4. Widened(d, SetSamples(d, p, n), p, n)
    <2>1. CASE ~d.allocated
      BY <1>1, <2>1 DEF SetSamples, Widened, Data
    <2>2. CASE d.allocated /\ n > d.nsamples[p]
      <3>1. n - d.nsamples[p] \in Nat /\ d.nsamples[p] + (n - d.nsamples[p]) = n
            /\ d.nsamples[p] \in 0..d.nsamples[p]
        BY <1>1, <2>2
      <3>2. SetSamples(d, p, n) = InsertSamples(d, p, d.nsamples[p], n - d.nsamples[p])
        BY <1>1, <2>2 DEF SetSamples
      <3> QED
        BY <1>3, <3>1, <3>2
    <2>3. CASE d.allocated /\ n < d.nsamples[p]
      <3> DEFINE m == d.nsamples[p] - n
                 k == IF m < d.nsamples[p] THEN m ELSE d.nsamples[p]
                 moved == Over(d, p, n + 1, SubSeq(Contents(d, p), n + k + 1, d.nsamples[p]))
      <3>1. SetSamples(d, p, n) = [moved EXCEPT !.nsamples[p] = @ - k]
        BY <1>1, <2>3 DEF SetSamples, EraseSamples
      <3>2. moved.capacity = d.capacity
        BY OverCapacity
      <3>3. \A x : [moved EXCEPT !.nsamples = x].capacity = moved.capacity
        BY <1>1 DEF Over, Data
      <3> HIDE DEF moved, k
      <3> QED
        BY <3>1, <3>2, <3>3 DEF Widened
    <2>4. CASE d.allocated /\ n = d.nsamples[p]
      BY <1>1, <2>4 DEF SetSamples, Widened
    <2> QED
      BY <1>1, <2>1, <2>2, <2>3, <2>4
  <1> QED
    BY <1>2, <1>3, <1>4

\* Copying samples.
LEMMA CapacityCopied ==
    ASSUME NEW d \in Sane, NEW p \in Pixels, NEW q \in Pixels
    PROVE  /\ \A i, k : d.nsamples[q] <= d.nsamples[p] =>
                            CopySample(d, p, i, q, k).capacity = d.capacity
           /\ Widened(d, CopyPixel(d, p, q), p, d.nsamples[q])
  <1> DEFINE n == d.nsamples[q]
             room == SetSamples(d, p, n)
             same == SetSamples(d, p, d.nsamples[p])
  <1>1. /\ d.nsamples[p] \in Nat /\ d.capacity[p] \in Nat /\ d.nsamples[p] <= d.capacity[p]
        /\ n \in Nat
    BY Fields
  <1>2. room \in Sane /\ same \in Sane
    BY <1>1, SetSamplesIs
  <1>3. Widened(d, room, p, n)
    BY <1>1, CapacityAfter
  <1>4. same.capacity = d.capacity
    <2>1. CASE d.allocated
      BY <1>1, <2>1 DEF SetSamples
    <2>2. CASE ~d.allocated
      <3>1. d.capacity = [d.capacity EXCEPT ![p] = d.capacity[p]] /\ d \in Data
        BY Fields DEF Numbers
      <3>2. same.capacity = [d.capacity EXCEPT ![p] = d.capacity[p]]
        BY <1>1, <2>2, <3>1 DEF SetSamples, Data
      <3> QED
        BY <3>1, <3>2
    <2> QED
      BY <2>1, <2>2
  <1> HIDE DEF room, same
  <1>5. ASSUME NEW i, NEW k, n <= d.nsamples[p]
        PROVE  CopySample(d, p, i, q, k).capacity = d.capacity
    <2>1. Max({d.nsamples[p], n}) = d.nsamples[p]
      BY <1>1, <1>5 DEF Max
    <2>2. CopySample(d, p, i, q, k) = Over(Alloc(same), p, i, <<Value(d, q, k)>>)
      BY <2>1 DEF CopySample, Put, same
    <2> QED
      BY <1>2, <1>4, <2>2, OverCapacity
  <1>6. Widened(d, CopyPixel(d, p, q), p, n)
    <2>1. CopyPixel(d, p, q) = IF n = 0 THEN room ELSE Over(Alloc(room), p, 1, Contents(room, q))
      BY DEF CopyPixel, room
    <2> QED
      BY <1>2, <1>3, <2>1, OverCapacity DEF Widened
  <1> QED
    BY <1>5, <1>6

-----------------------------------------------------------------------------
(* What is seen of a sequence of samples                                     *)

Like(v, w) == v.opaque = w.opaque /\ v.of = w.of
Spans(v, x) == v.z <= x /\ x < v.zback
StandsAt(v, x) == v.z = x /\ v.zback = x
\* Whatever s shows, r shows in the same place.
Covers(r, s) ==
    \A j \in 1..Len(s), x \in Depths :
        /\ Spans(s[j], x) => \E i \in 1..Len(r) : Spans(r[i], x) /\ Like(r[i], s[j])
        /\ StandsAt(s[j], x) => \E i \in 1..Len(r) : StandsAt(r[i], x) /\ Like(r[i], s[j])

\* Sets of samples that are alike show the same.
LEMMA SeenAlike ==
    ASSUME NEW S, NEW T, \A v \in S : \E w \in T : Like(v, w), \A w \in T : \E v \in S : Like(v, w)
    PROVE  Image!Seen(S) = Image!Seen(T)
  <1> DEFINE hidingS == {v \in S : v.opaque}
             hidingT == {v \in T : v.opaque}
             s == IF hidingS = {} THEN S ELSE hidingS
             t == IF hidingT = {} THEN T ELSE hidingT
  <1>1. \A v \in s : \E w \in t : v.of = w.of
    BY DEF Like
  <1>2. \A w \in t : \E v \in s : v.of = w.of
    BY DEF Like
  <1>3. Image!Seen(S) = UNION {v.of : v \in s} /\ Image!Seen(T) = UNION {v.of : v \in t}
    BY DEF Image!Seen
  <1> HIDE DEF s, t
  <1>4. {v.of : v \in s} = {v.of : v \in t}
    BY <1>1, <1>2
  <1> QED
    BY <1>3, <1>4

\* Sequences that cover each other look the same.
LEMMA CoversSees ==
    ASSUME NEW r \in Seq(Samples), NEW s \in Seq(Samples), Covers(r, s), Covers(s, r)
    PROVE  Image!SeesSame(r, s)
  <1> SUFFICES ASSUME NEW x \in Depths
               PROVE  Image!Between(r, x) = Image!Between(s, x) /\ Image!At(r, x) = Image!At(s, x)
    BY DEF Image!SeesSame
  <1>1. DOMAIN r = 1..Len(r) /\ DOMAIN s = 1..Len(s)
    OBVIOUS
  <1>2. Image!Between(r, x) = Image!Between(s, x)
    <2> DEFINE R == {r[i] : i \in {k \in DOMAIN r : r[k].z <= x /\ x < r[k].zback}}
               S == {s[i] : i \in {k \in DOMAIN s : s[k].z <= x /\ x < s[k].zback}}
    <2>1. ASSUME NEW v \in R PROVE \E w \in S : Like(v, w)
      <3>1. PICK i \in 1..Len(r) : v = r[i] /\ Spans(r[i], x)
        BY <1>1 DEF Spans
      <3>2. PICK j \in 1..Len(s) : Spans(s[j], x) /\ Like(s[j], r[i])
        BY <3>1 DEF Covers
      <3> QED
        BY <1>1, <3>1, <3>2 DEF Like, Spans
    <2>2. ASSUME NEW w \in S PROVE \E v \in R : Like(v, w)
      <3>1. PICK i \in 1..Len(s) : w = s[i] /\ Spans(s[i], x)
        BY <1>1 DEF Spans
      <3>2. PICK j \in 1..Len(r) : Spans(r[j], x) /\ Like(r[j], s[i])
        BY <3>1 DEF Covers
      <3> QED
        BY <1>1, <3>1, <3>2 DEF Like, Spans
    <2>3. Image!Between(r, x) = Image!Seen(R) /\ Image!Between(s, x) = Image!Seen(S)
      BY DEF Image!Between
    <2> HIDE DEF R, S
    <2> QED
      BY <2>1, <2>2, <2>3, SeenAlike
  <1>3. Image!At(r, x) = Image!At(s, x)
    <2> DEFINE R == {r[i] : i \in {k \in DOMAIN r : r[k].z = x /\ r[k].zback = x}}
               S == {s[i] : i \in {k \in DOMAIN s : s[k].z = x /\ s[k].zback = x}}
    <2>1. ASSUME NEW v \in R PROVE \E w \in S : Like(v, w)
      <3>1. PICK i \in 1..Len(r) : v = r[i] /\ StandsAt(r[i], x)
        BY <1>1 DEF StandsAt
      <3>2. PICK j \in 1..Len(s) : StandsAt(s[j], x) /\ Like(s[j], r[i])
        BY <3>1 DEF Covers
      <3> QED
        BY <1>1, <3>1, <3>2 DEF Like, StandsAt
    <2>2. ASSUME NEW w \in S PROVE \E v \in R : Like(v, w)
      <3>1. PICK i \in 1..Len(s) : w = s[i] /\ StandsAt(s[i], x)
        BY <1>1 DEF StandsAt
      <3>2. PICK j \in 1..Len(r) : StandsAt(r[j], x) /\ Like(r[j], s[i])
        BY <3>1 DEF Covers
      <3> QED
        BY <1>1, <3>1, <3>2 DEF Like, StandsAt
    <2>3. Image!At(r, x) = Image!Seen(R) /\ Image!At(s, x) = Image!Seen(S)
      BY DEF Image!At
    <2> HIDE DEF R, S
    <2> QED
      BY <2>1, <2>2, <2>3, SeenAlike
  <1> QED
    BY <1>2, <1>3

\* Looking the same is an equivalence.
LEMMA SeesEquiv ==
    ASSUME NEW r, NEW s, NEW t
    PROVE  /\ Image!SeesSame(s, s) /\ (Image!SeesSame(r, s) => Image!SeesSame(s, r))
           /\ Image!SeesSame(r, s) /\ Image!SeesSame(s, t) => Image!SeesSame(r, t)
  BY DEF Image!SeesSame

-----------------------------------------------------------------------------
(* Splitting a sequence                                                      *)

Straddles(v, u) == v.z < u /\ u < v.zback
Uncut(s, x) == \A i \in 1..Len(s) : ~Straddles(s[i], x)
PieceOf(v, w, u) ==
    /\ Like(v, w) /\ w.z <= v.z /\ v.zback <= w.zback
    /\ v.z \in {w.z, u} /\ v.zback \in {w.zback, u}
\* Every sample of r is a piece of that of s which o names, nearer pieces first.
CutFrom(o, s, r, u) ==
    /\ o \in [1..Len(r) -> 1..Len(s)]
    /\ \A i \in 1..Len(r) : o[i] <= i /\ PieceOf(r[i], s[o[i]], u)
    /\ \A i, j \in 1..Len(r) : i < j => o[i] <= o[j] /\ (o[i] = o[j] => u <= r[j].z)
\* r is s, with some samples split at u.
SplitFrom(s, r, u) ==
    /\ Image!SeesSame(r, s) /\ Len(s) <= Len(r)
    /\ \E o \in [1..Len(r) -> 1..Len(s)] : CutFrom(o, s, r, u)
\* The halves of a sample that is split at u; and r with its k-th sample split there.
Front(v, u) == [v EXCEPT !.zback = u]
Back(v, u) == [v EXCEPT !.z = u]
SplitOnce(t, r, k, u) ==
    /\ Len(t) = Len(r) + 1
    /\ \A i \in 1..Len(r) : (i < k => t[i] = r[i]) /\ (k < i => t[i + 1] = r[i])
    /\ t[k] = Front(r[k], u) /\ t[k + 1] = Back(r[k], u)

\* A sequence of which nothing was split.
LEMMA SplitNone ==
    ASSUME NEW s \in Seq(Samples), NEW u \in Depths
    PROVE  SplitFrom(s, s, u)
  <1> DEFINE o == [i \in 1..Len(s) |-> i]
  <1>1. Len(s) \in Nat /\ \A i \in 1..Len(s) : s[i] \in Samples
    OBVIOUS
  <1>2. \A i \in 1..Len(s) : PieceOf(s[i], s[i], u)
    BY <1>1, SampleParts DEF PieceOf, Like
  <1>3. o \in [1..Len(s) -> 1..Len(s)] /\ CutFrom(o, s, s, u)
    BY <1>1, <1>2 DEF CutFrom
  <1>4. Len(s) <= Len(s)
    BY <1>1
  <1> QED
    BY <1>3, <1>4, SeesEquiv DEF SplitFrom

\* The two halves of a sample.
LEMMA Halves ==
    ASSUME NEW v \in Samples, NEW u \in Depths, Straddles(v, u)
    PROVE  /\ Front(v, u) \in Samples /\ Front(v, u).z = v.z /\ Front(v, u).zback = u
           /\ Back(v, u) \in Samples /\ Back(v, u).z = u /\ Back(v, u).zback = v.zback
           /\ Like(Front(v, u), v) /\ Like(Back(v, u), v)
           /\ \A x \in Depths : Spans(v, x) <=> Spans(Front(v, u), x) \/ Spans(Back(v, u), x)
           /\ \A x \in Depths : /\ ~StandsAt(v, x) /\ ~StandsAt(Front(v, u), x)
                                /\ ~StandsAt(Back(v, u), x)
  <1> DEFINE f == Front(v, u)
             b == Back(v, u)
  <1>1. v.z < u /\ u < v.zback /\ u \in Nat /\ v.z \in Nat /\ v.zback \in Nat
    BY SampleParts, Consts DEF Straddles
  <1>2. f \in Samples /\ b \in Samples
    BY <1>1, SampleParts DEF Front, Back
  <1>3. f.z = v.z /\ f.zback = u /\ b.z = u /\ b.zback = v.zback /\ Like(f, v) /\ Like(b, v)
    BY DEF Samples, Like, Front, Back
  <1>4. ASSUME NEW x \in Depths
        PROVE  /\ Spans(v, x) <=> Spans(f, x) \/ Spans(b, x)
               /\ ~StandsAt(v, x) /\ ~StandsAt(f, x) /\ ~StandsAt(b, x)
    <2>1. x \in Nat
      BY Consts
    <2> QED
      BY <1>1, <1>3, <2>1 DEF Spans, StandsAt
  <1> QED
    BY <1>2, <1>3, <1>4

\* Splitting a sample shows the same.
LEMMA SplitOnceSees ==
    ASSUME NEW r \in Seq(Samples), NEW t \in Seq(Samples), NEW u \in Depths,
           NEW k \in 1..Len(r), Straddles(r[k], u), SplitOnce(t, r, k, u)
    PROVE  Image!SeesSame(t, r)
  <1> DEFINE n == Len(r)
  <1>1. n \in Nat /\ k \in Nat /\ 1 <= k /\ k <= n /\ k + 1 \in 1..Len(t) /\ k \in 1..Len(t)
        /\ Len(t) = n + 1
    BY DEF SplitOnce
  <1>2. r[k] \in Samples
    OBVIOUS
  <1>3. /\ \A x \in Depths : Spans(r[k], x) <=> Spans(t[k], x) \/ Spans(t[k + 1], x)
        /\ Like(t[k], r[k]) /\ Like(t[k + 1], r[k])
        /\ \A x \in Depths : ~StandsAt(r[k], x) /\ ~StandsAt(t[k], x) /\ ~StandsAt(t[k + 1], x)
    BY <1>2, Halves DEF SplitOnce
  <1>4. \A i \in 1..n : i = k \/ (i < k /\ t[i] = r[i] /\ i \in 1..Len(t))
                              \/ (i > k /\ t[i + 1] = r[i] /\ i + 1 \in 1..Len(t))
    BY <1>1 DEF SplitOnce
  <1>5. \A i \in 1..Len(t) : i = k \/ i = k + 1 \/ (i < k /\ t[i] = r[i] /\ i \in 1..n)
                              \/ (i > k + 1 /\ t[i] = r[i - 1] /\ i - 1 \in 1..n)
    <2> TAKE i \in 1..Len(t)
    <2>1. CASE i < k
      BY <1>1, <1>4, <2>1
    <2>2. CASE i > k + 1
      <3>1. i - 1 \in 1..n /\ i - 1 > k /\ (i - 1) + 1 = i
        BY <1>1, <2>2
      <3> QED
        BY <1>4, <2>2, <3>1
    <2> QED
      BY <1>1, <2>1, <2>2
  <1>6. Covers(t, r)
    <2> SUFFICES ASSUME NEW j \in 1..n, NEW x \in Depths
                 PROVE  /\ Spans(r[j], x) => \E i \in 1..Len(t) : Spans(t[i], x) /\ Like(t[i], r[j])
                        /\ StandsAt(r[j], x) => \E i \in 1..Len(t) : StandsAt(t[i], x) /\ Like(t[i], r[j])
      BY DEF Covers
    <2>1. CASE j = k
      BY <1>1, <1>3, <2>1
    <2>2. CASE j # k
      <3>1. Like(r[j], r[j])
        BY DEF Like
      <3>2. PICK i \in 1..Len(t) : t[i] = r[j]
        BY <1>4, <2>2
      <3> QED
        BY <3>1, <3>2
    <2> QED
      BY <2>1, <2>2
  <1>7. Covers(r, t)
    <2> SUFFICES ASSUME NEW j \in 1..Len(t), NEW x \in Depths
                 PROVE  /\ Spans(t[j], x) => \E i \in 1..n : Spans(r[i], x) /\ Like(r[i], t[j])
                        /\ StandsAt(t[j], x) => \E i \in 1..n : StandsAt(r[i], x) /\ Like(r[i], t[j])
      BY DEF Covers
    <2>1. CASE j = k \/ j = k + 1
      <3>1. Like(r[k], t[j])
        BY <1>3, <2>1 DEF Like
      <3> QED
        BY <1>1, <1>3, <2>1, <3>1
    <2>2. CASE j # k /\ j # k + 1
      <3>1. Like(t[j], t[j])
        BY DEF Like
      <3>2. PICK i \in 1..n : t[j] = r[i]
        BY <1>5, <2>2
      <3> QED
        BY <3>1, <3>2
    <2> QED
      BY <2>1, <2>2
  <1> QED
    BY <1>6, <1>7, CoversSees

\* A piece of a piece.
LEMMA PieceOfPiece ==
    ASSUME NEW v \in Samples, NEW w \in Samples, NEW y \in Samples, NEW u \in Depths,
           PieceOf(v, w, u), PieceOf(w, y, u)
    PROVE  PieceOf(v, y, u)
  <1>1. \A a \in {v, w, y} : a.z \in Nat /\ a.zback \in Nat
    BY SampleParts
  <1> QED
    BY <1>1 DEF PieceOf, Like

\* Nor does it mix up what the pieces are of.
LEMMA SplitOnceCuts ==
    ASSUME NEW s \in Seq(Samples), NEW r \in Seq(Samples), NEW t \in Seq(Samples),
           NEW u \in Depths, NEW k \in 1..Len(r), Straddles(r[k], u), SplitOnce(t, r, k, u),
           NEW o \in [1..Len(r) -> 1..Len(s)], CutFrom(o, s, r, u)
    PROVE  \E o2 \in [1..Len(t) -> 1..Len(s)] : CutFrom(o2, s, t, u)
  <1> DEFINE n == Len(r)
             src == [i \in 1..Len(t) |-> IF i <= k THEN i ELSE i - 1]
             o2 == [i \in 1..Len(t) |-> o[src[i]]]
  <1>1. n \in Nat /\ k \in Nat /\ 1 <= k /\ k <= n /\ Len(t) = n + 1 /\ Len(s) \in Nat
    BY DEF SplitOnce
  <1>2. /\ \A i \in 1..Len(t) : src[i] \in 1..n /\ src[i] <= i /\ (src[i] = k <=> i = k \/ i = k + 1)
        /\ \A i, j \in 1..Len(t) :
              i < j => src[i] < src[j] \/ (src[i] = k /\ src[j] = k /\ j = k + 1)
    <2>1. \A i \in 1..Len(t) : src[i] = IF i <= k THEN i ELSE i - 1
      OBVIOUS
    <2> HIDE DEF src, n
    <2>2. \A i \in 1..Len(t) : /\ src[i] \in 1..n /\ src[i] <= i
                              /\ (src[i] = k <=> i = k \/ i = k + 1)
      BY <1>1, <2>1
    <2>3. ASSUME NEW i \in 1..Len(t), NEW j \in 1..Len(t), i < j
          PROVE  src[i] < src[j] \/ (src[i] = k /\ src[j] = k /\ j = k + 1)
      <3>1. i \in Nat /\ j \in Nat
        BY <1>1
      <3> QED
        BY <1>1, <2>1, <2>3, <3>1
    <2> QED
      BY <2>2, <2>3
  <1>3. u \in Nat /\ r[k] \in Samples /\ r[k].z < u /\ u < r[k].zback /\ r[k].z \in Nat
    BY SampleParts, Consts DEF Straddles
  <1>10. /\ t[k].z = r[k].z /\ t[k].zback = u /\ t[k + 1].z = u
         /\ t[k + 1].zback = r[k].zback /\ Like(t[k], r[k]) /\ Like(t[k + 1], r[k])
    <2>1. t[k] = Front(r[k], u) /\ t[k + 1] = Back(r[k], u)
      BY DEF SplitOnce
    <2> HIDE DEF src, o2, n
    <2> QED
      BY <1>3, <2>1, Halves
  <1>4. \A i \in 1..Len(t) : i # k /\ i # k + 1 => t[i] = r[src[i]]
    <2> TAKE i \in 1..Len(t)
    <2>1. CASE i < k
      <3>1. i \in 1..n /\ src[i] = i
        BY <1>1, <2>1
      <3> QED
        BY <2>1, <3>1 DEF SplitOnce
    <2>2. CASE i > k + 1
      <3>1. i - 1 \in 1..n /\ k < i - 1 /\ (i - 1) + 1 = i
        BY <1>1, <2>2
      <3> QED
        BY <1>1, <2>2, <3>1 DEF SplitOnce
    <2> QED
      BY <1>1, <2>1, <2>2
  <1>5. ASSUME NEW i \in 1..Len(t) PROVE t[i] \in Samples /\ PieceOf(t[i], r[src[i]], u)
    <2>1. t[i] \in Samples /\ r[src[i]] \in Samples
      BY <1>2
    <2>2. CASE i # k /\ i # k + 1
      BY <1>4, <2>1, <2>2, SampleParts DEF PieceOf, Like
    <2>3. CASE i = k \/ i = k + 1
      <3>1. src[i] = k
        BY <1>2, <2>3
      <3>2. PieceOf(t[k], r[k], u) /\ PieceOf(t[k + 1], r[k], u)
        <4>1. r[k].zback \in Nat
          BY <1>3, SampleParts
        <4> QED
          BY <1>3, <1>10, <4>1 DEF PieceOf
      <3> QED
        BY <2>1, <2>3, <3>1, <3>2
    <2> QED
      BY <2>1, <2>2, <2>3
  <1> HIDE DEF src
  <1>6. o2 \in [1..Len(t) -> 1..Len(s)]
    BY <1>2
  <1>7. \A i \in 1..Len(t) : o2[i] <= i /\ PieceOf(t[i], s[o2[i]], u)
    <2> TAKE i \in 1..Len(t)
    <2>1. o2[i] = o[src[i]] /\ src[i] \in 1..n /\ src[i] <= i
      BY <1>2
    <2>2. o[src[i]] \in 1..Len(s) /\ o[src[i]] <= src[i] /\ PieceOf(r[src[i]], s[o[src[i]]], u)
      BY <2>1 DEF CutFrom
    <2>3. r[src[i]] \in Samples /\ s[o[src[i]]] \in Samples
      BY <2>1, <2>2
    <2>4. PieceOf(t[i], s[o2[i]], u)
      BY <1>5, <2>1, <2>2, <2>3, PieceOfPiece
    <2> HIDE DEF o2, n
    <2> QED
      BY <1>1, <2>1, <2>2, <2>4
  <1>8. ASSUME NEW i \in 1..Len(t), NEW j \in 1..Len(t), i < j
        PROVE  o2[i] <= o2[j] /\ (o2[i] = o2[j] => u <= t[j].z)
    <2>1. o2[i] = o[src[i]] /\ o2[j] = o[src[j]] /\ src[i] \in 1..n /\ src[j] \in 1..n
      BY <1>2
    <2>2. CASE src[i] < src[j]
      <3>1. o[src[i]] <= o[src[j]] /\ (o[src[i]] = o[src[j]] => u <= r[src[j]].z)
        BY <2>1, <2>2 DEF CutFrom
      <3>2. ASSUME o[src[i]] = o[src[j]] PROVE u <= t[j].z
        <4>1. u <= r[src[j]].z
          BY <3>1, <3>2
        <4>2. src[j] # k
          BY <1>3, <4>1
        <4>3. t[j] = r[src[j]]
          BY <1>2, <1>4, <4>2
        <4> QED
          BY <4>1, <4>3
      <3> QED
        BY <2>1, <3>1, <3>2
    <2>3. CASE src[i] = k /\ src[j] = k /\ j = k + 1
      <3>1. t[j].z = u
        BY <1>10, <2>3
      <3>2. o[k] \in Nat
        BY <1>1
      <3> QED
        BY <1>3, <2>1, <2>3, <3>1, <3>2
    <2> QED
      BY <1>2, <1>8, <2>2, <2>3
  <1>9. CutFrom(o2, s, t, u)
    BY <1>6, <1>7, <1>8 DEF CutFrom
  <1> QED
    BY <1>6, <1>9

\* A sequence split further.
LEMMA SplitMore ==
    ASSUME NEW s \in Seq(Samples), NEW r \in Seq(Samples), NEW t \in Seq(Samples),
           NEW u \in Depths, NEW k \in 1..Len(r), Straddles(r[k], u), SplitOnce(t, r, k, u),
           SplitFrom(s, r, u)
    PROVE  SplitFrom(s, t, u)
  <1>1. Image!SeesSame(t, r) /\ Image!SeesSame(r, s)
    BY SplitOnceSees DEF SplitFrom
  <1>2. Image!SeesSame(t, s)
    BY <1>1, SeesEquiv
  <1>3. Len(s) <= Len(t)
    BY DEF SplitFrom, SplitOnce
  <1>4. \E o2 \in [1..Len(t) -> 1..Len(s)] : CutFrom(o2, s, t, u)
    BY SplitOnceCuts DEF SplitFrom
  <1> QED
    BY <1>2, <1>3, <1>4 DEF SplitFrom

\* The depths that no sample straddles stay such, and so do the ends before the k-th.
EndsUncut(s, k) == \A i \in 1..Len(s) : i <= k => Uncut(s, s[i].z) /\ Uncut(s, s[i].zback)

\* Splitting makes no depth worse.
LEMMA SplitUncut ==
    ASSUME NEW s \in Seq(Samples), NEW r \in Seq(Samples), NEW u \in Depths, SplitFrom(s, r, u)
    PROVE  \A x \in Depths : Uncut(s, x) => Uncut(r, x)
  <1> SUFFICES ASSUME NEW x \in Depths, Uncut(s, x), NEW i \in 1..Len(r), Straddles(r[i], x)
               PROVE  FALSE
    BY DEF Uncut
  <1>1. PICK o \in [1..Len(r) -> 1..Len(s)] : CutFrom(o, s, r, u)
    BY DEF SplitFrom
  <1>2. o[i] \in 1..Len(s) /\ PieceOf(r[i], s[o[i]], u) /\ ~Straddles(s[o[i]], x)
    BY <1>1 DEF CutFrom, Uncut
  <1>3. r[i] \in Samples /\ s[o[i]] \in Samples
    BY <1>2
  <1>4. \A a \in {r[i], s[o[i]]} : a.z \in Nat /\ a.zback \in Nat
    BY <1>3, SampleParts
  <1>5. x \in Nat
    BY Consts
  <1> QED
    BY <1>2, <1>4, <1>5 DEF PieceOf, Straddles

-----------------------------------------------------------------------------
(* How many samples splitting can make                                       *)

\* The samples of t, by number, and the depths of Y inside each.
Spots(t, Y) == {a \in (1..Len(t)) \X (Y \union {-1}) : a[2] = -1 \/ Straddles(t[a[1]], a[2])}
EndsIn(t, Y) == \A i \in 1..Len(t) : t[i].z \in Y /\ t[i].zback \in Y

\* There are as many spots as there are samples, and more.
LEMMA SpotsAre ==
    ASSUME NEW t \in Seq(Samples), NEW Y \in SUBSET Depths
    PROVE  /\ IsFiniteSet(Spots(t, Y)) /\ Cardinality(Spots(t, Y)) \in Nat
           /\ Len(t) <= Cardinality(Spots(t, Y))
  <1> DEFINE D == 1..Len(t)
             S == Spots(t, Y)
             f == [i \in D |-> <<i, -1>>]
  <1>1. IsFiniteSet(D) /\ Cardinality(D) = Len(t)
    <2>1. Len(t) \in Nat
      OBVIOUS
    <2> QED
      BY <2>1, FS_Interval
  <1>2. IsFiniteSet(Y \union {-1})
    <2>1. IsFiniteSet(Depths)
      BY DeepAssumption, FS_Interval DEF Depths
    <2>2. IsFiniteSet(Y) /\ IsFiniteSet({-1})
      BY <2>1, FS_Subset, FS_Singleton
    <2> QED
      BY <2>2, FS_Union
  <1>3. IsFiniteSet(S)
    <2>1. IsFiniteSet(D \X (Y \union {-1}))
      BY <1>1, <1>2, FS_Product
    <2>2. S \in SUBSET (D \X (Y \union {-1}))
      BY DEF Spots
    <2> QED
      BY <2>1, <2>2, FS_Subset
  <1>4. f \in Injection(D, S)
    <2>1. \A i \in D : <<i, -1>> \in S
      BY DEF Spots
    <2>2. \A i, j \in D : <<i, -1>> = <<j, -1>> => i = j
      OBVIOUS
    <2> HIDE DEF S, D
    <2> QED
      BY <2>1, <2>2 DEF Injection, IsInjective
  <1> HIDE DEF f, S, D
  <1>5. Cardinality(D) <= Cardinality(S)
    BY <1>3, <1>4, FS_Injection
  <1> QED
    BY <1>1, <1>3, <1>5, FS_CardinalityType DEF S

\* A split at a depth of Y uses up the spot it is at.
LEMMA SpotsOfSplit ==
    ASSUME NEW r \in Seq(Samples), NEW t \in Seq(Samples), NEW Y \in SUBSET Depths, NEW u \in Y,
           NEW k \in 1..Len(r), Straddles(r[k], u), SplitOnce(t, r, k, u)
    PROVE  /\ Cardinality(Spots(t, Y)) <= Cardinality(Spots(r, Y))
           /\ EndsIn(r, Y) => EndsIn(t, Y)
  <1> DEFINE n == Len(r)
             S == Spots(t, Y)
             T == Spots(r, Y)
             To(i, x) == IF i <= k THEN <<i, x>>
                         ELSE <<i - 1, IF i = k + 1 /\ x = -1 THEN u ELSE x>>
             f == [a \in S |-> To(a[1], a[2])]
  <1>1. n \in Nat /\ k \in Nat /\ 1 <= k /\ k <= n /\ Len(t) = n + 1 /\ Len(t) \in Nat
        /\ r[k] \in Samples /\ u \in Depths
    BY DEF SplitOnce
  <1>2. /\ t[k].z = r[k].z /\ t[k].zback = u /\ t[k + 1].z = u /\ t[k + 1].zback = r[k].zback
        /\ r[k].z < u /\ u < r[k].zback /\ r[k].z \in Nat /\ r[k].zback \in Nat /\ u \in Nat
    BY <1>1, Halves, SampleParts, Consts DEF SplitOnce, Straddles
  <1>3. \A x \in Y : x \in Nat
    BY Consts
  <1>4. \A i \in 1..(n + 1) : /\ i < k => i \in 1..n /\ t[i] = r[i]
                              /\ i > k + 1 => i - 1 \in 1..n /\ t[i] = r[i - 1]
    <2> TAKE i \in 1..(n + 1)
    <2>1. i < k => i \in 1..n /\ t[i] = r[i]
      BY <1>1 DEF SplitOnce
    <2>2. ASSUME i > k + 1 PROVE i - 1 \in 1..n /\ t[i] = r[i - 1]
      <3>1. i - 1 \in 1..n /\ k < i - 1 /\ (i - 1) + 1 = i
        BY <1>1, <2>2
      <3> QED
        BY <3>1 DEF SplitOnce
    <2> QED
      BY <2>1, <2>2
  <1>5. \A a \in S : /\ a = <<a[1], a[2]>> /\ a[1] \in 1..(n + 1)
                     /\ a[2] = -1 \/ (a[2] \in Y /\ Straddles(t[a[1]], a[2]))
    BY <1>1 DEF Spots
  <1>6. \A i \in 1..n, x \in Y \union {-1} : x = -1 \/ Straddles(r[i], x) => <<i, x>> \in T
    BY DEF Spots
  <1> HIDE DEF S, T, n
  <1>7. ASSUME NEW i \in 1..(n + 1), NEW x, x = -1 \/ (x \in Y /\ Straddles(t[i], x))
        PROVE  To(i, x) \in T
    <2>1. CASE i < k
      BY <1>1, <1>4, <1>6, <1>7, <2>1
    <2>2. CASE i = k
      <3>1. ASSUME x # -1 PROVE Straddles(r[k], x)
        <4>1. x \in Nat /\ Straddles(t[i], x)
          BY <1>3, <1>7, <3>1
        <4> QED
          BY <1>2, <2>2, <4>1 DEF Straddles
      <3> QED
        BY <1>1, <1>6, <1>7, <2>2, <3>1
    <2>3. CASE i = k + 1
      <3>1. ASSUME x # -1 PROVE Straddles(r[k], x)
        <4>1. x \in Nat /\ Straddles(t[i], x)
          BY <1>3, <1>7, <3>1
        <4> QED
          BY <1>2, <2>3, <4>1 DEF Straddles
      <3>2. To(i, x) = <<k, IF x = -1 THEN u ELSE x>>
        BY <1>1, <2>3
      <3> HIDE DEF To
      <3> QED
        BY <1>1, <1>6, <1>7, <3>1, <3>2
    <2>4. CASE i > k + 1
      <3>1. To(i, x) = <<i - 1, x>> /\ i - 1 \in 1..n /\ t[i] = r[i - 1]
        BY <1>1, <1>4, <2>4
      <3> HIDE DEF To
      <3> QED
        BY <1>6, <1>7, <3>1
    <2> QED
      BY <1>1, <2>1, <2>2, <2>3, <2>4
  <1>8. ASSUME NEW i \in 1..(n + 1), NEW x, x = -1 \/ (x \in Y /\ Straddles(t[i], x)),
               NEW j \in 1..(n + 1), NEW y, y = -1 \/ (y \in Y /\ Straddles(t[j], y)),
               To(i, x) = To(j, y)
        PROVE  i = j /\ x = y
    <2>1. /\ i = k /\ x # -1 => x < u /\ x # u
          /\ j = k /\ y # -1 => y < u /\ y # u
          /\ i = k + 1 /\ x # -1 => u < x /\ x # u
          /\ j = k + 1 /\ y # -1 => u < y /\ y # u
      BY <1>2, <1>3, <1>8 DEF Straddles
    <2>2. u # -1
      BY <1>2
    <2>3. x \in Int /\ y \in Int /\ i \in Int /\ j \in Int
      BY <1>3, <1>8
    <2>4. CASE i <= k /\ j <= k
      BY <1>8, <2>4
    <2>5. CASE i <= k /\ ~(j <= k)
      <3>1. j - 1 = i /\ x = IF j = k + 1 /\ y = -1 THEN u ELSE y
        BY <1>8, <2>5
      <3>2. i = k /\ j = k + 1
        BY <1>1, <2>3, <2>5, <3>1
      <3> QED
        BY <1>2, <2>1, <2>2, <2>3, <3>1, <3>2
    <2>6. CASE ~(i <= k) /\ j <= k
      <3>1. i - 1 = j /\ y = IF i = k + 1 /\ x = -1 THEN u ELSE x
        BY <1>8, <2>6
      <3>2. j = k /\ i = k + 1
        BY <1>1, <2>3, <2>6, <3>1
      <3> QED
        BY <1>2, <2>1, <2>2, <2>3, <3>1, <3>2
    <2>7. CASE ~(i <= k) /\ ~(j <= k)
      <3>1. i - 1 = j - 1 /\ (IF i = k + 1 /\ x = -1 THEN u ELSE x)
                             = (IF j = k + 1 /\ y = -1 THEN u ELSE y)
        BY <1>8, <2>7
      <3>2. i = j
        BY <2>3, <3>1
      <3> QED
        BY <2>1, <2>2, <3>1, <3>2
    <2> QED
      BY <2>4, <2>5, <2>6, <2>7
  <1>9. f \in Injection(S, T)
    <2> HIDE DEF To
    <2>1. \A a \in S : To(a[1], a[2]) \in T
      BY <1>5, <1>7
    <2>2. ASSUME NEW a \in S, NEW b \in S, To(a[1], a[2]) = To(b[1], b[2]) PROVE a = b
      <3>1. a[1] = b[1] /\ a[2] = b[2]
        BY <1>5, <1>8, <2>2
      <3> QED
        BY <1>5, <3>1
    <2> QED
      BY <2>1, <2>2 DEF Injection, IsInjective
  <1>10. Cardinality(S) <= Cardinality(T)
    <2>1. IsFiniteSet(T)
      BY SpotsAre DEF T
    <2> HIDE DEF f
    <2> QED
      BY <1>9, <2>1, FS_Injection
  <1>11. ASSUME EndsIn(r, Y) PROVE EndsIn(t, Y)
    <2>1. ASSUME NEW i \in 1..(n + 1) PROVE t[i].z \in Y /\ t[i].zback \in Y
      <3>1. \A j \in 1..n : r[j].z \in Y /\ r[j].zback \in Y
        BY <1>11 DEF EndsIn, n
      <3>2. i < k \/ i = k \/ i = k + 1 \/ i > k + 1
        BY <1>1
      <3>3. k \in 1..n
        BY DEF n
      <3> QED
        BY <1>2, <1>4, <3>1, <3>2, <3>3
    <2> QED
      BY <1>1, <2>1 DEF EndsIn
  <1> QED
    BY <1>10, <1>11 DEF S, T

\* e has more samples than d, and capacity that was there or is used; and no more
\* spots at the depths of a set that has all ends of samples of d, and X.
Thrifty(d, e, p, X) ==
    /\ d.nsamples[p] <= e.nsamples[p]
    /\ Widened(d, e, p, e.nsamples[p])
    /\ \A Y \in SUBSET Depths : X \subseteq Y /\ EndsIn(Contents(d, p), Y) =>
          /\ EndsIn(Contents(e, p), Y)
          /\ Cardinality(Spots(Contents(e, p), Y)) <= Cardinality(Spots(Contents(d, p), Y))

\* Nothing, and one thing after another, is thrifty.
LEMMA ThriftyBoth ==
    ASSUME NEW d \in Sane, NEW p \in Pixels, NEW X
    PROVE  /\ Thrifty(d, d, p, X)
           /\ \A e, f \in Sane : Thrifty(d, e, p, X) /\ Thrifty(e, f, p, X) => Thrifty(d, f, p, X)
  <1>1. \A e \in Sane : /\ e.nsamples[p] \in Nat /\ e.capacity[p] \in Nat
                        /\ \A Y \in SUBSET Depths : Cardinality(Spots(Contents(e, p), Y)) \in Nat
    BY Fields, ContentsIs, SpotsAre
  <1>2. Thrifty(d, d, p, X)
    BY <1>1 DEF Thrifty, Widened
  <1>3. ASSUME NEW e \in Sane, NEW f \in Sane, Thrifty(d, e, p, X), Thrifty(e, f, p, X)
        PROVE  Thrifty(d, f, p, X)
    <2>1. d.nsamples[p] <= f.nsamples[p] /\ Widened(d, f, p, f.nsamples[p])
      BY <1>1, <1>3 DEF Thrifty, Widened
    <2>2. ASSUME NEW Y \in SUBSET Depths, X \subseteq Y, EndsIn(Contents(d, p), Y)
          PROVE  /\ EndsIn(Contents(f, p), Y)
                 /\ Cardinality(Spots(Contents(f, p), Y)) <= Cardinality(Spots(Contents(d, p), Y))
      <3>1. /\ EndsIn(Contents(e, p), Y)
            /\ Cardinality(Spots(Contents(e, p), Y)) <= Cardinality(Spots(Contents(d, p), Y))
        BY <1>3, <2>2 DEF Thrifty
      <3>2. /\ EndsIn(Contents(f, p), Y)
            /\ Cardinality(Spots(Contents(f, p), Y)) <= Cardinality(Spots(Contents(e, p), Y))
        BY <1>3, <2>2, <3>1 DEF Thrifty
      <3> QED
        BY <1>1, <3>1, <3>2
    <2> QED
      BY <2>1, <2>2 DEF Thrifty
  <1> QED
    BY <1>2, <1>3

\* So is a split.
LEMMA ThriftySplit ==
    ASSUME NEW d \in Sane, NEW e \in Sane, NEW p \in Pixels, NEW s \in 1..d.nsamples[p],
           NEW u \in Depths, Straddles(Contents(d, p)[s], u),
           SplitOnce(Contents(e, p), Contents(d, p), s, u),
           Widened(d, e, p, e.nsamples[p])
    PROVE  Thrifty(d, e, p, {u})
  <1> DEFINE r == Contents(d, p)
             t == Contents(e, p)
  <1>1. /\ r \in Seq(Samples) /\ t \in Seq(Samples) /\ Len(r) = d.nsamples[p]
        /\ Len(t) = e.nsamples[p] /\ d.nsamples[p] \in Nat
    BY ContentsIs, Fields
  <1>2. d.nsamples[p] <= e.nsamples[p]
    BY <1>1 DEF SplitOnce
  <1>3. ASSUME NEW Y \in SUBSET Depths, {u} \subseteq Y, EndsIn(r, Y)
        PROVE  EndsIn(t, Y) /\ Cardinality(Spots(t, Y)) <= Cardinality(Spots(r, Y))
    <2>1. u \in Y /\ s \in 1..Len(r)
      BY <1>1, <1>3
    <2> QED
      BY <1>1, <1>3, <2>1, SpotsOfSplit
  <1> QED
    BY <1>2, <1>3 DEF Thrifty

-----------------------------------------------------------------------------
(* Splitting a pixel                                                         *)

\* One step of a split.
LEMMA SplitOneDoes ==
    ASSUME NEW d \in Sane, NEW p \in Pixels, NEW depth \in Depths, NEW s \in 1..d.nsamples[p]
    PROVE  \E e \in Versions(d, p) :
              /\ SplitOne([d |-> d, s |-> s], p, depth) = [d |-> e, s |-> s + 1]
              /\ Straddles(Contents(d, p)[s], depth) =>
                    SplitOnce(Contents(e, p), Contents(d, p), s, depth)
              /\ ~Straddles(Contents(d, p)[s], depth) => e = d
              /\ Widened(d, e, p, e.nsamples[p])
  <1> DEFINE v == Value(d, p, s)
             one == InsertSamples(d, p, s, 1)
             two == CopySample(one, p, s + 1, p, s)
             front == Put(two, p, s, [v EXCEPT !.zback = depth])
             both == Put(front, p, s + 1, [v EXCEPT !.z = depth])
             n == d.nsamples[p]
             r == SplitOne([d |-> d, s |-> s], p, depth)
             c == Contents(d, p)
  <1>1. n \in Nat /\ s \in 1..n /\ s \in 0..n /\ s \in 1..(n + 1) /\ s + 1 \in 1..(n + 1)
    BY Fields
  <1>2. v \in Samples /\ v = c[s]
    BY <1>1, ValueIs
  <1>3. r = IF v.z < depth /\ v.zback > depth THEN [d |-> both, s |-> s + 1]
                                              ELSE [d |-> d, s |-> s + 1]
    BY DEF SplitOne
  <1>4. d \in Versions(d, p) /\ Widened(d, d, p, d.nsamples[p])
    BY DEF Versions, Only, Widened
  <1> SUFFICES ASSUME Straddles(v, depth)
               PROVE  /\ both \in Versions(d, p) /\ SplitOnce(Contents(both, p), c, s, depth)
                      /\ Widened(d, both, p, both.nsamples[p])
    BY <1>2, <1>3, <1>4 DEF Straddles
  <1>5. /\ [v EXCEPT !.zback = depth] = Front(v, depth) /\ [v EXCEPT !.z = depth] = Back(v, depth)
        /\ Front(v, depth) \in Samples /\ Back(v, depth) \in Samples
    BY <1>2, Halves DEF Front, Back
  <1>6. one \in Sane /\ Opened(d, one, p, s, 1) /\ one.nsamples[p] = n + 1
    BY <1>1, InsertIs DEF Opened
  <1>16. Widened(d, one, p, n + 1)
    BY <1>1, CapacityAfter
  <1> HIDE DEF r, both, one, v
  <1>7. /\ two \in Sane /\ Only(one, two, p) /\ two.nsamples[p] = n + 1
        /\ \A j \in 1..(n + 1) : j # s + 1 => Contents(two, p)[j] = Contents(one, p)[j]
        /\ two.capacity = one.capacity
    <2>1. one.nsamples[p] <= one.nsamples[p]
      BY <1>1, <1>6
    <2>2. two.capacity = one.capacity
      BY <1>6, <2>1, CapacityCopied
    <2> QED
      BY <1>1, <1>6, <2>1, <2>2, CopySampleIs
  <1> HIDE DEF two
  <1>8. front \in Sane /\ Replaced(two, front, p, s, Front(v, depth)) /\ front.nsamples[p] = n + 1
    BY <1>1, <1>5, <1>7, PutIs DEF Replaced
  <1> HIDE DEF front
  <1>9. /\ both \in Sane /\ Replaced(front, both, p, s + 1, Back(v, depth))
        /\ both.nsamples[p] = n + 1
    BY <1>1, <1>5, <1>8, PutIs DEF Replaced, both
  <1>10. both \in Versions(d, p)
    BY <1>6, <1>7, <1>8, <1>9, OnlyBoth DEF Versions, Opened, Replaced
  <1> DEFINE t == Contents(both, p)
  <1>11. Len(t) = n + 1 /\ Len(c) = n
    BY <1>9, ContentsIs
  <1>12. \A j \in 1..(n + 1) : t[j] = IF j = s + 1 THEN Back(v, depth)
                                      ELSE IF j = s THEN Front(v, depth) ELSE Contents(one, p)[j]
    <2> TAKE j \in 1..(n + 1)
    <2>1. t[j] = IF j = s + 1 THEN Back(v, depth) ELSE Contents(front, p)[j]
      BY <1>8, <1>9 DEF Replaced
    <2>2. Contents(front, p)[j] = IF j = s THEN Front(v, depth) ELSE Contents(two, p)[j]
      BY <1>7, <1>8 DEF Replaced
    <2> QED
      BY <1>7, <2>1, <2>2
  <1> HIDE DEF t, c
  <1>13. t[s] = Front(c[s], depth) /\ t[s + 1] = Back(c[s], depth)
    BY <1>1, <1>2, <1>12
  <1>14. ASSUME NEW i \in 1..n PROVE (i < s => t[i] = c[i]) /\ (s < i => t[i + 1] = c[i])
    <2>1. ASSUME i < s PROVE t[i] = c[i]
      <3>1. i \in 1..s /\ i \in 1..(n + 1) /\ i # s /\ i # s + 1
        BY <1>1, <2>1
      <3> QED
        BY <1>6, <1>12, <3>1 DEF Opened, c
    <2>2. ASSUME s < i PROVE t[i + 1] = c[i]
      <3>1. i - s \in 1..(n - s) /\ s + 1 + (i - s) = i + 1 /\ s + (i - s) = i
        BY <1>1, <2>2
      <3>2. i + 1 \in 1..(n + 1) /\ i + 1 # s /\ i + 1 # s + 1
        BY <1>1, <2>2
      <3> QED
        BY <1>6, <1>12, <3>1, <3>2 DEF Opened, c
    <2> QED
      BY <2>1, <2>2
  <1>15. SplitOnce(t, c, s, depth)
    BY <1>11, <1>13, <1>14 DEF SplitOnce
  <1>17. Widened(d, both, p, both.nsamples[p])
    BY <1>1, <1>7, <1>8, <1>9, <1>16 DEF Replaced, Widened
  <1> QED
    BY <1>10, <1>15, <1>17 DEF t, c

\* The states of a loop, by the number of steps.
LEMMA StaysAt ==
    ASSUME NEW n \in Nat, NEW G, NEW y, y[0] \in G[0],
           \A k \in 1..n : y[k - 1] \in G[k - 1] => y[k] \in G[k]
    PROVE  \A k \in 0..n : y[k] \in G[k]
  <1> DEFINE z == [k \in 0..n |-> <<k, y[k]>>]
             H == {<<k, y[k]>> : k \in {j \in 0..n : y[j] \in G[j]}}
  <1>1. 0 \in 0..n /\ \A k \in 1..n : k - 1 \in 0..n /\ k \in 0..n
    OBVIOUS
  <1>2. z[0] \in H
    BY <1>1
  <1>3. ASSUME NEW k \in 1..n, z[k - 1] \in H PROVE z[k] \in H
    <2>1. z[k - 1] = <<k - 1, y[k - 1]>> /\ z[k] = <<k, y[k]>>
      BY <1>1
    <2>2. y[k - 1] \in G[k - 1]
      <3>1. PICK j \in 0..n : y[j] \in G[j] /\ z[k - 1] = <<j, y[j]>>
        BY <1>3
      <3>2. j = k - 1
        BY <2>1, <3>1
      <3> QED
        BY <3>1, <3>2
    <2> QED
      BY <1>1, <2>1, <2>2
  <1> HIDE DEF H
  <1>4. \A k \in 0..n : z[k] \in H
    <2> HIDE DEF z
    <2> QED
      BY <1>2, <1>3, Stays
  <1> QED
    BY <1>4 DEF H

\* Splitting at a depth.
LEMMA SplitAtDoes ==
    ASSUME NEW d \in Sane, NEW p \in Pixels, NEW depth \in Depths
    PROVE  LET e == SplitAt(d, p, depth) IN
           /\ e \in Versions(d, p) /\ SplitFrom(Contents(d, p), Contents(e, p), depth)
           /\ e.nsamples[p] <= MaxCapacity => Uncut(Contents(e, p), depth)
           /\ Thrifty(d, e, p, {depth})
  <1> DEFINE n == 2 * MaxCapacity
             c == Contents(d, p)
             x == [d |-> d, s |-> 1]
             step(l) == IF l.s <= l.d.nsamples[p] THEN SplitOne(l, p, depth) ELSE l
             G == {l \in [d : Versions(d, p), s : Positions(1)] :
                       /\ SplitFrom(c, Contents(l.d, p), depth) /\ Thrifty(d, l.d, p, {depth})
                       /\ \A i \in 1..l.d.nsamples[p] : i < l.s => ~Straddles(Contents(l.d, p)[i], depth)}
             H == [k \in 0..n |-> {l \in G : l.s = k + 1 \/ l.s > l.d.nsamples[p]}]
             g == [l \in G |-> [k \in 1..n |-> step(l)]]
             F == CHOOSE f : f = [k \in 0..n |-> IF k = 0 THEN x ELSE step(f[k - 1])]
  <1>1. n \in Nat /\ x \in G /\ x \in H[0]
    <2>1. n \in Nat /\ 0 \in 0..n /\ d \in Versions(d, p) /\ 1 \in Positions(1)
      BY Consts DEF Versions, Only, Positions
    <2>2. SplitFrom(c, c, depth) /\ Thrifty(d, d, p, {depth})
      BY ContentsIs, SplitNone, ThriftyBoth
    <2> HIDE DEF c
    <2>3. x \in G
      BY <2>1, <2>2 DEF c
    <2> QED
      BY <2>1, <2>3
  <1>2. ASSUME NEW l \in G
        PROVE  /\ step(l) \in G
               /\ l.s <= l.d.nsamples[p] => step(l).s = l.s + 1
               /\ ~(l.s <= l.d.nsamples[p]) => step(l) = l
    <2> DEFINE t == Contents(l.d, p)
    <2>1. /\ l.d \in Sane /\ l.d \in Versions(d, p) /\ l.s \in Positions(1) /\ l.s \in Nat
          /\ l = [d |-> l.d, s |-> l.s] /\ l.d.nsamples[p] \in Nat
          /\ SplitFrom(c, t, depth) /\ Thrifty(d, l.d, p, {depth})
          /\ \A i \in 1..l.d.nsamples[p] : i < l.s => ~Straddles(t[i], depth)
      BY Fields DEF Versions, Positions
    <2>2. t \in Seq(Samples) /\ Len(t) = l.d.nsamples[p] /\ c \in Seq(Samples)
      BY <2>1, ContentsIs
    <2> HIDE DEF c, t
    <2>3. ASSUME l.s <= l.d.nsamples[p] PROVE step(l) \in G /\ step(l).s = l.s + 1
      <3>1. l.s \in 1..l.d.nsamples[p]
        BY <2>1, <2>3 DEF Positions
      <3>2. PICK e \in Versions(l.d, p) :
               /\ SplitOne(l, p, depth) = [d |-> e, s |-> l.s + 1]
               /\ Straddles(t[l.s], depth) => SplitOnce(Contents(e, p), t, l.s, depth)
               /\ ~Straddles(t[l.s], depth) => e = l.d
               /\ Widened(l.d, e, p, e.nsamples[p])
        <4> DEFINE d1 == l.d
                   s1 == l.s
        <4>1. l = [d |-> d1, s |-> s1] /\ d1 \in Sane /\ s1 \in 1..d1.nsamples[p]
          BY <2>1, <3>1
        <4> HIDE DEF d1, s1
        <4>2. PICK e \in Versions(d1, p) :
                 /\ SplitOne([d |-> d1, s |-> s1], p, depth) = [d |-> e, s |-> s1 + 1]
                 /\ Straddles(Contents(d1, p)[s1], depth) =>
                       SplitOnce(Contents(e, p), Contents(d1, p), s1, depth)
                 /\ ~Straddles(Contents(d1, p)[s1], depth) => e = d1
                 /\ Widened(d1, e, p, e.nsamples[p])
          BY <4>1, SplitOneDoes
        <4> QED
          BY <4>1, <4>2 DEF t, d1, s1
      <3> DEFINE r == Contents(e, p)
      <3>3. e \in Versions(d, p) /\ l.s + 1 \in Positions(1) /\ e \in Sane
        BY <2>1, <3>2, OnlyBoth DEF Versions, Positions
      <3>4. r \in Seq(Samples) /\ Len(r) = e.nsamples[p]
        BY <3>3, ContentsIs
      <3>5. /\ SplitFrom(c, r, depth)
            /\ \A i \in 1..e.nsamples[p] : i < l.s + 1 => ~Straddles(r[i], depth)
        <4>1. CASE ~Straddles(t[l.s], depth)
          <5>1. r = t /\ e = l.d
            BY <3>2, <4>1 DEF t
          <5>2. \A i \in 1..l.d.nsamples[p] : i < l.s + 1 => i < l.s \/ i = l.s
            BY <2>1
          <5> HIDE DEF r
          <5> QED
            BY <2>1, <4>1, <5>1, <5>2
        <4>2. CASE Straddles(t[l.s], depth)
          <5>1. SplitOnce(r, t, l.s, depth)
            BY <3>2, <4>2
          <5> HIDE DEF r
          <5>2. SplitFrom(c, r, depth)
            BY <2>1, <2>2, <3>1, <3>4, <4>2, <5>1, SplitMore
          <5>3. ASSUME NEW i \in 1..e.nsamples[p], i < l.s + 1 PROVE ~Straddles(r[i], depth)
            <6>1. CASE i = l.s
              <7>1. r[i] = Front(t[l.s], depth) /\ t[l.s] \in Samples /\ depth \in Nat
                BY <2>2, <3>1, <5>1, <6>1, Consts DEF SplitOnce
              <7>2. r[i].zback = depth
                BY <4>2, <7>1, Halves
              <7> QED
                BY <7>1, <7>2 DEF Straddles
            <6>2. CASE i # l.s
              <7>1. i < l.s /\ i \in 1..l.d.nsamples[p]
                BY <2>1, <3>1, <5>3, <6>2
              <7> QED
                BY <2>1, <2>2, <5>1, <7>1 DEF SplitOnce
            <6> QED
              BY <6>1, <6>2
          <5> QED
            BY <5>2, <5>3
        <4> QED
          BY <4>1, <4>2
      <3>7. Thrifty(d, e, p, {depth})
        <4>1. CASE ~Straddles(t[l.s], depth)
          BY <2>1, <3>2, <4>1
        <4>2. CASE Straddles(t[l.s], depth)
          <5>1. Thrifty(l.d, e, p, {depth})
            BY <2>1, <3>1, <3>2, <3>3, <4>2, ThriftySplit DEF t
          <5> QED
            BY <2>1, <3>3, <5>1, ThriftyBoth
        <4> QED
          BY <4>1, <4>2
      <3>6. step(l) = [d |-> e, s |-> l.s + 1]
        BY <2>3, <3>2
      <3> HIDE DEF step
      <3> QED
        BY <3>3, <3>5, <3>6, <3>7
    <2>4. ASSUME ~(l.s <= l.d.nsamples[p]) PROVE step(l) = l
      BY <2>4
    <2> HIDE DEF step
    <2> QED
      BY <2>3, <2>4
  <1>3. ASSUME NEW l \in G, NEW k \in 1..n, l \in H[k - 1] PROVE step(l) \in H[k]
    <2>1. k - 1 \in 0..n /\ k \in 0..n /\ (k - 1) + 1 = k
      BY <1>1
    <2>2. l.s = (k - 1) + 1 \/ l.s > l.d.nsamples[p]
      BY <1>3, <2>1
    <2>3. l.d.nsamples[p] \in Nat /\ l.s \in Nat
      BY Fields DEF Versions, Positions
    <2> HIDE DEF G, step
    <2>4. step(l).s = k + 1 \/ step(l).s > step(l).d.nsamples[p]
      BY <1>2, <2>1, <2>2, <2>3
    <2> QED
      BY <1>2, <2>1, <2>4
  <1>4. \A l \in G : /\ l.d \in Versions(d, p) /\ SplitFrom(c, Contents(l.d, p), depth)
                     /\ \A i \in 1..l.d.nsamples[p] : i < l.s => ~Straddles(Contents(l.d, p)[i], depth)
                     /\ l.s \in Nat /\ Thrifty(d, l.d, p, {depth})
    BY DEF Positions
  <1>5. \A l \in H[n] : l \in G /\ (l.s = n + 1 \/ l.s > l.d.nsamples[p])
    BY <1>1
  <1>14. \A k \in 0..n : H[k] \subseteq G
    OBVIOUS
  <1> HIDE DEF n, G, x, step, H, c
  <1>6. g \in Steps(G, n)
    BY <1>2 DEF Steps
  <1>7. \E f : f = [k \in 0..n |-> IF k = 0 THEN x ELSE step(f[k - 1])]
    <2>1. PICK f \in [0..n -> G] : f[0] = x /\ \A k \in 1..n : f[k] = g[f[k - 1]][k]
      <3>1. RunsOf(G, n, x, g) # {}
        <4> HIDE DEF g
        <4> QED
          BY <1>1, <1>6, Runs
      <3> HIDE DEF g
      <3> QED
        BY <3>1 DEF RunsOf
    <2>2. ASSUME NEW k \in 1..n PROVE f[k] = step(f[k - 1])
      <3>1. f[k - 1] \in G
        BY <1>1
      <3> QED
        BY <2>1, <3>1
    <2>3. f = [k \in 0..n |-> IF k = 0 THEN x ELSE step(f[k - 1])]
      BY <1>1, <2>1, <2>2
    <2> QED
      BY <2>3
  <1>8. F = [k \in 0..n |-> IF k = 0 THEN x ELSE step(F[k - 1])]
    BY <1>7, Zenon
  <1>9. SplitAt(d, p, depth) = F[n].d
    BY DEF SplitAt, Loop, Repeat, n, x, step
  <1> HIDE DEF F
  <1>10. \A k \in 0..n : F[k] \in H[k]
    <2>1. F[0] \in H[0]
      BY <1>1, <1>8
    <2>2. \A k \in 1..n : F[k - 1] \in H[k - 1] => F[k] \in H[k]
      <3> TAKE k \in 1..n
      <3>1. k \in 0..n /\ k # 0 /\ k - 1 \in 0..n
        BY <1>1
      <3>2. F[k] = step(F[k - 1])
        BY <1>8, <3>1
      <3> QED
        BY <1>3, <1>14, <3>1, <3>2
    <2> QED
      BY <1>1, <2>1, <2>2, StaysAt, Zenon
  <1> DEFINE l == F[n]
             e == l.d
  <1>11. l \in G /\ (l.s = n + 1 \/ l.s > e.nsamples[p])
    BY <1>1, <1>5, <1>10
  <1> HIDE DEF l
  <1>12. /\ e \in Versions(d, p) /\ SplitFrom(c, Contents(e, p), depth) /\ l.s \in Nat
         /\ \A i \in 1..e.nsamples[p] : i < l.s => ~Straddles(Contents(e, p)[i], depth)
         /\ Thrifty(d, e, p, {depth})
    BY <1>4, <1>11
  <1>13. ASSUME e.nsamples[p] <= MaxCapacity PROVE Uncut(Contents(e, p), depth)
    <2>1. e \in Sane /\ e.nsamples[p] \in Nat /\ MaxCapacity \in Nat
      BY <1>12, Fields, Consts DEF Versions
    <2>2. l.s > e.nsamples[p]
      BY <1>11, <1>12, <1>13, <2>1 DEF n
    <2>3. Len(Contents(e, p)) = e.nsamples[p]
      BY <2>1, ContentsIs
    <2>4. \A i \in 1..e.nsamples[p] : i < l.s
      BY <1>12, <2>1, <2>2
    <2> HIDE DEF e
    <2> QED
      BY <1>12, <2>3, <2>4 DEF Uncut
  <1> QED
    BY <1>9, <1>12, <1>13 DEF l, c

\* The ends of the first samples remain among X when split at one of X.
LEMMA EndsStay ==
    ASSUME NEW s \in Seq(Samples), NEW r \in Seq(Samples), NEW X, NEW u \in X, SplitFrom(s, r, u),
           NEW k \in Nat, \A i \in 1..Len(s) : i <= k => s[i].z \in X /\ s[i].zback \in X
    PROVE  \A i \in 1..Len(r) : i <= k => r[i].z \in X /\ r[i].zback \in X
  <1> SUFFICES ASSUME NEW i \in 1..Len(r), i <= k PROVE r[i].z \in X /\ r[i].zback \in X
    OBVIOUS
  <1>1. PICK o \in [1..Len(r) -> 1..Len(s)] : CutFrom(o, s, r, u)
    BY DEF SplitFrom
  <1>2. o[i] \in 1..Len(s) /\ o[i] <= i /\ PieceOf(r[i], s[o[i]], u)
    BY <1>1 DEF CutFrom
  <1>3. o[i] <= k
    BY <1>2
  <1> QED
    BY <1>2, <1>3 DEF PieceOf

\* A split at the ends of a sample adds its ends to those that are uncut.
LEMMA EndsOneMore ==
    ASSUME NEW t \in Seq(Samples), NEW a \in Seq(Samples), NEW b \in Seq(Samples),
           NEW k \in 1..Len(t), EndsUncut(t, k - 1), SplitFrom(t, a, t[k].z), Uncut(a, t[k].z),
           SplitFrom(a, b, t[k].zback), Uncut(b, t[k].zback)
    PROVE  EndsUncut(b, k)
  <1> DEFINE v == t[k]
             X == {x \in Depths : Uncut(t, x)} \union {v.z, v.zback}
  <1>1. Len(t) \in Nat /\ k \in Nat /\ v \in Samples /\ v.z \in Depths /\ v.zback \in Depths
    BY SampleParts
  <1>2. ASSUME NEW i \in 1..Len(t), i <= k PROVE t[i].z \in X /\ t[i].zback \in X
    <2>1. t[i].z \in Depths /\ t[i].zback \in Depths
      BY SampleParts
    <2>2. i = k \/ i <= k - 1
      BY <1>1, <1>2
    <2> QED
      BY <2>1, <2>2 DEF EndsUncut
  <1>3. v.z \in X /\ v.zback \in X
    OBVIOUS
  <1>4. ASSUME NEW x \in X PROVE x \in Depths /\ Uncut(b, x)
    <2>1. \A y \in Depths : Uncut(t, y) => Uncut(a, y)
      BY <1>1, SplitUncut
    <2>2. \A y \in Depths : Uncut(a, y) => Uncut(b, y)
      BY <1>1, SplitUncut
    <2>3. CASE x \in Depths /\ Uncut(t, x)
      BY <2>1, <2>2, <2>3
    <2>4. CASE x = v.z \/ x = v.zback
      BY <1>1, <2>2, <2>4
    <2> QED
      BY <2>3, <2>4
  <1> HIDE DEF X
  <1>5. \A i \in 1..Len(a) : i <= k => a[i].z \in X /\ a[i].zback \in X
    BY <1>1, <1>2, <1>3, EndsStay
  <1>6. \A i \in 1..Len(b) : i <= k => b[i].z \in X /\ b[i].zback \in X
    BY <1>1, <1>3, <1>5, EndsStay
  <1> QED
    BY <1>4, <1>6 DEF EndsUncut

\* One step of splitting at the ends of all samples.
LEMMA SplitAtEndsDoes ==
    ASSUME NEW d \in Sane, NEW p \in Pixels, NEW s \in 1..d.nsamples[p]
    PROVE  \E e \in Versions(d, p) :
              /\ SplitAtEnds([d |-> d, s |-> s], p) = [d |-> e, s |-> s + 1]
              /\ Image!SeesSame(Contents(e, p), Contents(d, p)) /\ d.nsamples[p] <= e.nsamples[p]
              /\ e.nsamples[p] <= MaxCapacity /\ EndsUncut(Contents(d, p), s - 1) =>
                    EndsUncut(Contents(e, p), s)
              /\ Thrifty(d, e, p, {})
  <1> DEFINE v == Value(d, p, s)
             one == SplitAt(d, p, v.z)
             two == SplitAt(one, p, v.zback)
             t == Contents(d, p)
             a == Contents(one, p)
             b == Contents(two, p)
  <1>1. v = t[s] /\ v.z \in Depths /\ v.zback \in Depths
    BY ValueIs, SampleParts
  <1>2. SplitAtEnds([d |-> d, s |-> s], p) = [d |-> two, s |-> s + 1]
    BY DEF SplitAtEnds
  <1> HIDE DEF v, two
  <1>3. /\ one \in Versions(d, p) /\ SplitFrom(t, a, v.z)
        /\ one.nsamples[p] <= MaxCapacity => Uncut(a, v.z)
        /\ Thrifty(d, one, p, {v.z})
    BY <1>1, SplitAtDoes
  <1> HIDE DEF one
  <1>4. one \in Sane /\ Only(d, one, p)
    BY <1>3 DEF Versions
  <1>5. /\ two \in Versions(one, p) /\ SplitFrom(a, b, v.zback)
        /\ two.nsamples[p] <= MaxCapacity => Uncut(b, v.zback)
        /\ Thrifty(one, two, p, {v.zback})
    BY <1>1, <1>4, SplitAtDoes DEF two
  <1>6. two \in Sane /\ two \in Versions(d, p)
    BY <1>4, <1>5, OnlyBoth DEF Versions
  <1>7. /\ t \in Seq(Samples) /\ a \in Seq(Samples) /\ b \in Seq(Samples)
        /\ Len(t) = d.nsamples[p] /\ Len(a) = one.nsamples[p] /\ Len(b) = two.nsamples[p]
        /\ d.nsamples[p] \in Nat /\ one.nsamples[p] \in Nat /\ two.nsamples[p] \in Nat
    BY <1>4, <1>6, ContentsIs, Fields
  <1> HIDE DEF t, a, b
  <1>8. Image!SeesSame(b, t) /\ d.nsamples[p] <= one.nsamples[p] /\ one.nsamples[p] <= two.nsamples[p]
    BY <1>3, <1>5, <1>7, SeesEquiv DEF SplitFrom
  <1>9. ASSUME two.nsamples[p] <= MaxCapacity, EndsUncut(t, s - 1) PROVE EndsUncut(b, s)
    <2>1. one.nsamples[p] <= MaxCapacity
      BY <1>7, <1>8, <1>9, Consts
    <2>2. Uncut(a, v.z) /\ Uncut(b, v.zback)
      BY <1>3, <1>5, <1>9, <2>1
    <2> QED
      BY <1>1, <1>3, <1>5, <1>7, <1>9, <2>2, EndsOneMore
  <1>10. d.nsamples[p] <= two.nsamples[p]
    BY <1>7, <1>8
  <1>11. Thrifty(d, two, p, {})
    <2> DEFINE X == {v.z, v.zback}
    <2>1. Thrifty(d, one, p, X) /\ Thrifty(one, two, p, X)
      BY <1>3, <1>5 DEF Thrifty
    <2> HIDE DEF X
    <2>2. Thrifty(d, two, p, X)
      BY <1>4, <1>6, <2>1, ThriftyBoth
    <2>3. ASSUME NEW Y \in SUBSET Depths, EndsIn(t, Y) PROVE X \subseteq Y
      BY <1>1, <1>7, <2>3 DEF EndsIn, X
    <2> QED
      BY <2>2, <2>3 DEF Thrifty, t
  <1> QED
    BY <1>2, <1>6, <1>8, <1>9, <1>10, <1>11 DEF t, b

\* Splitting at the ends of all samples.
Pieces(d, p) == Loop(LAMBDA l : l.s <= l.d.nsamples[p], LAMBDA l : SplitAtEnds(l, p),
                     [d |-> d, s |-> 1]).d

\* No sample straddles an end of another then, and what is seen is the same.
LEMMA PiecesDo ==
    ASSUME NEW d \in Sane, NEW p \in Pixels
    PROVE  /\ Pieces(d, p) \in Versions(d, p)
           /\ Image!SeesSame(Contents(Pieces(d, p), p), Contents(d, p))
           /\ Pieces(d, p).nsamples[p] <= MaxCapacity =>
                 EndsUncut(Contents(Pieces(d, p), p), Pieces(d, p).nsamples[p])
           /\ Thrifty(d, Pieces(d, p), p, {})
  <1> DEFINE n == 2 * MaxCapacity
             c == Contents(d, p)
             x == [d |-> d, s |-> 1]
             step(l) == IF l.s <= l.d.nsamples[p] THEN SplitAtEnds(l, p) ELSE l
             G == {l \in [d : Versions(d, p), s : Positions(1)] :
                       /\ Image!SeesSame(Contents(l.d, p), c) /\ Thrifty(d, l.d, p, {})
                       /\ l.d.nsamples[p] <= MaxCapacity => EndsUncut(Contents(l.d, p), l.s - 1)}
             H == [k \in 0..n |-> {l \in G : l.s = k + 1 \/ l.s > l.d.nsamples[p]}]
             g == [l \in G |-> [k \in 1..n |-> step(l)]]
             F == CHOOSE f : f = [k \in 0..n |-> IF k = 0 THEN x ELSE step(f[k - 1])]
  <1>1. n \in Nat /\ x \in G /\ x \in H[0]
    <2>1. n \in Nat /\ 0 \in 0..n /\ d \in Versions(d, p) /\ 1 \in Positions(1)
      BY Consts DEF Versions, Only, Positions
    <2>2. Image!SeesSame(c, c) /\ Thrifty(d, d, p, {})
      BY SeesEquiv, ThriftyBoth
    <2>3. EndsUncut(c, 0)
      BY DEF EndsUncut
    <2> HIDE DEF c
    <2>4. x \in G
      BY <2>1, <2>2, <2>3 DEF c
    <2> QED
      BY <2>1, <2>4
  <1>2. ASSUME NEW l \in G
        PROVE  /\ step(l) \in G
               /\ l.s <= l.d.nsamples[p] => step(l).s = l.s + 1
               /\ ~(l.s <= l.d.nsamples[p]) => step(l) = l
    <2> DEFINE b == l.d
               s == l.s
    <2>1. /\ b \in Sane /\ b \in Versions(d, p) /\ s \in Positions(1) /\ s \in Nat
          /\ l = [d |-> b, s |-> s] /\ b.nsamples[p] \in Nat
          /\ Image!SeesSame(Contents(b, p), c) /\ Thrifty(d, b, p, {})
          /\ b.nsamples[p] <= MaxCapacity => EndsUncut(Contents(b, p), s - 1)
      BY Fields DEF Versions, Positions
    <2>2. step(l) = IF s <= b.nsamples[p] THEN SplitAtEnds([d |-> b, s |-> s], p) ELSE l
      BY <2>1
    <2>3. ASSUME s <= b.nsamples[p] PROVE step(l) \in G /\ step(l).s = s + 1
      <3> HIDE DEF c, b, s, step
      <3>1. s \in 1..b.nsamples[p]
        BY <2>1, <2>3 DEF Positions
      <3>2. PICK e \in Versions(b, p) :
               /\ SplitAtEnds([d |-> b, s |-> s], p) = [d |-> e, s |-> s + 1]
               /\ Image!SeesSame(Contents(e, p), Contents(b, p)) /\ b.nsamples[p] <= e.nsamples[p]
               /\ e.nsamples[p] <= MaxCapacity /\ EndsUncut(Contents(b, p), s - 1) =>
                     EndsUncut(Contents(e, p), s)
               /\ Thrifty(b, e, p, {})
        BY <2>1, <3>1, SplitAtEndsDoes
      <3>3. e \in Versions(d, p) /\ s + 1 \in Positions(1) /\ e \in Sane /\ (s + 1) - 1 = s
        BY <2>1, <3>2, OnlyBoth DEF Versions, Positions
      <3>4. Image!SeesSame(Contents(e, p), c) /\ Thrifty(d, e, p, {})
        BY <2>1, <3>2, <3>3, SeesEquiv, ThriftyBoth
      <3>5. e.nsamples[p] <= MaxCapacity => EndsUncut(Contents(e, p), s)
        <4>1. e.nsamples[p] \in Nat /\ MaxCapacity \in Nat
          BY <3>3, Fields, Consts
        <4> QED
          BY <2>1, <3>2, <4>1
      <3>6. step(l) = [d |-> e, s |-> s + 1]
        BY <2>2, <2>3, <3>2
      <3> QED
        BY <3>3, <3>4, <3>5, <3>6
    <2> HIDE DEF G, step
    <2> QED
      BY <2>2, <2>3
  <1>3. ASSUME NEW l \in G, NEW k \in 1..n, l \in H[k - 1] PROVE step(l) \in H[k]
    <2>1. k - 1 \in 0..n /\ k \in 0..n /\ (k - 1) + 1 = k
      BY <1>1
    <2>2. l.s = (k - 1) + 1 \/ l.s > l.d.nsamples[p]
      BY <1>3, <2>1
    <2>3. l.d.nsamples[p] \in Nat /\ l.s \in Nat
      BY Fields DEF Versions, Positions
    <2> HIDE DEF G, step
    <2>4. step(l).s = k + 1 \/ step(l).s > step(l).d.nsamples[p]
      BY <1>2, <2>1, <2>2, <2>3
    <2> QED
      BY <1>2, <2>1, <2>4
  <1>4. \A l \in G : /\ l.d \in Versions(d, p) /\ Image!SeesSame(Contents(l.d, p), c)
                     /\ l.d.nsamples[p] <= MaxCapacity => EndsUncut(Contents(l.d, p), l.s - 1)
                     /\ l.s \in Nat /\ Thrifty(d, l.d, p, {})
    BY DEF Positions
  <1>5. \A l \in H[n] : l \in G /\ (l.s = n + 1 \/ l.s > l.d.nsamples[p])
    BY <1>1
  <1>14. \A k \in 0..n : H[k] \subseteq G
    OBVIOUS
  <1> HIDE DEF n, G, x, step, H, c
  <1>6. g \in Steps(G, n)
    BY <1>2 DEF Steps
  <1>7. \E f : f = [k \in 0..n |-> IF k = 0 THEN x ELSE step(f[k - 1])]
    <2>1. PICK f \in [0..n -> G] : f[0] = x /\ \A k \in 1..n : f[k] = g[f[k - 1]][k]
      <3>1. RunsOf(G, n, x, g) # {}
        <4> HIDE DEF g
        <4> QED
          BY <1>1, <1>6, Runs
      <3> HIDE DEF g
      <3> QED
        BY <3>1 DEF RunsOf
    <2>2. ASSUME NEW k \in 1..n PROVE f[k] = step(f[k - 1])
      <3>1. f[k - 1] \in G
        BY <1>1
      <3> QED
        BY <2>1, <3>1
    <2>3. f = [k \in 0..n |-> IF k = 0 THEN x ELSE step(f[k - 1])]
      BY <1>1, <2>1, <2>2
    <2> QED
      BY <2>3
  <1>8. F = [k \in 0..n |-> IF k = 0 THEN x ELSE step(F[k - 1])]
    BY <1>7, Zenon
  <1>9. Pieces(d, p) = F[n].d
    BY DEF Pieces, Loop, Repeat, n, x, step
  <1> HIDE DEF F
  <1>10. \A k \in 0..n : F[k] \in H[k]
    <2>1. F[0] \in H[0]
      BY <1>1, <1>8
    <2>2. \A k \in 1..n : F[k - 1] \in H[k - 1] => F[k] \in H[k]
      <3> TAKE k \in 1..n
      <3>1. k \in 0..n /\ k # 0 /\ k - 1 \in 0..n
        BY <1>1
      <3>2. F[k] = step(F[k - 1])
        BY <1>8, <3>1
      <3> QED
        BY <1>3, <1>14, <3>1, <3>2
    <2> QED
      BY <1>1, <2>1, <2>2, StaysAt, Zenon
  <1> DEFINE l == F[n]
             e == l.d
  <1>11. l \in G /\ (l.s = n + 1 \/ l.s > e.nsamples[p])
    BY <1>1, <1>5, <1>10
  <1> HIDE DEF l
  <1>12. /\ e \in Versions(d, p) /\ Image!SeesSame(Contents(e, p), c) /\ l.s \in Nat
         /\ e.nsamples[p] <= MaxCapacity => EndsUncut(Contents(e, p), l.s - 1)
         /\ Thrifty(d, e, p, {})
    BY <1>4, <1>11
  <1>13. ASSUME e.nsamples[p] <= MaxCapacity PROVE EndsUncut(Contents(e, p), e.nsamples[p])
    <2>1. e \in Sane /\ e.nsamples[p] \in Nat /\ MaxCapacity \in Nat
      BY <1>12, Fields, Consts DEF Versions
    <2>2. l.s > e.nsamples[p]
      BY <1>11, <1>12, <1>13, <2>1 DEF n
    <2>3. Len(Contents(e, p)) = e.nsamples[p]
      BY <2>1, ContentsIs
    <2>4. \A i \in 1..e.nsamples[p] : i <= l.s - 1
      BY <1>12, <2>1, <2>2
    <2> HIDE DEF e
    <2> QED
      BY <1>12, <1>13, <2>3, <2>4 DEF EndsUncut
  <1> QED
    BY <1>9, <1>12, <1>13 DEF l, c

-----------------------------------------------------------------------------
(* Merging neighbours                                                        *)

SameExtent(v, w) == v.z = w.z /\ v.zback = w.zback
Ordered(s) == \A i, j \in 1..Len(s) : i < j => ~Nearer(s[j], s[i])
Apart(s) == EndsUncut(s, Len(s))
\* r with its k-th sample mixed into the one before it.
JoinedAt(t, r, k) ==
    /\ Len(t) = Len(r) - 1 /\ t[k - 1] = Mix(r[k - 1], r[k])
    /\ \A i \in 1..Len(t) : (i < k - 1 => t[i] = r[i]) /\ (k <= i => t[i] = r[i + 1])
\* The samples of some extents.
Shown(s, X) == {s[i] : i \in {k \in 1..Len(s) : <<s[k].z, s[k].zback>> \in X}}

\* Two samples look like their mixture, whatever else is there.
LEMMA MixSeen ==
    ASSUME NEW v \in Samples, NEW w \in Samples, NEW R
    PROVE  Image!Seen(R \union {v, w}) = Image!Seen(R \union {Mix(v, w)})
  <1> DEFINE m == Mix(v, w)
             S == R \union {v, w}
             T == R \union {m}
             hS == {a \in S : a.opaque}
             hT == {a \in T : a.opaque}
             s == IF hS = {} THEN S ELSE hS
             t == IF hT = {} THEN T ELSE hT
  <1>1. /\ v.opaque \in BOOLEAN /\ w.opaque \in BOOLEAN /\ m.opaque = (v.opaque \/ w.opaque)
        /\ m.of = CASE v.opaque /\ ~w.opaque -> v.of
                    [] w.opaque /\ ~v.opaque -> w.of
                    [] v.opaque <=> w.opaque -> v.of \union w.of
    BY DEF Mix, Samples
  <1> HIDE DEF m
  <1>2. ASSUME NEW y PROVE (\E a \in s : y \in a.of) <=> (\E a \in t : y \in a.of)
    <2>1. CASE v.opaque /\ w.opaque
      <3>1. m.opaque /\ m.of = v.of \union w.of
        BY <1>1, <2>1
      <3>2. s = hS /\ t = hT
        BY <2>1, <3>1
      <3> QED
        BY <2>1, <3>1, <3>2
    <2>2. CASE v.opaque /\ ~w.opaque
      <3>1. m.opaque /\ m.of = v.of
        BY <1>1, <2>2
      <3>2. s = hS /\ t = hT
        BY <2>2, <3>1
      <3> QED
        BY <2>2, <3>1, <3>2
    <2>3. CASE ~v.opaque /\ w.opaque
      <3>1. m.opaque /\ m.of = w.of
        BY <1>1, <2>3
      <3>2. s = hS /\ t = hT
        BY <2>3, <3>1
      <3> QED
        BY <2>3, <3>1, <3>2
    <2>4. CASE ~v.opaque /\ ~w.opaque
      <3>1. ~m.opaque /\ m.of = v.of \union w.of
        BY <1>1, <2>4
      <3>2. hS = {a \in R : a.opaque} /\ hT = {a \in R : a.opaque}
        BY <2>4, <3>1
      <3>3. CASE hS = {}
        BY <3>1, <3>2, <3>3
      <3>4. CASE hS # {}
        BY <3>2, <3>4
      <3> QED
        BY <3>3, <3>4
    <2> QED
      BY <1>1, <2>1, <2>2, <2>3, <2>4
  <1>3. Image!Seen(S) = UNION {a.of : a \in s} /\ Image!Seen(T) = UNION {a.of : a \in t}
    BY DEF Image!Seen
  <1> HIDE DEF s, t
  <1>4. UNION {a.of : a \in s} = UNION {a.of : a \in t}
    BY <1>2
  <1> QED
    BY <1>3, <1>4 DEF m

\* Which of the others a sample of the joined sequence comes from.
LEMMA JoinedFrom ==
    ASSUME NEW r \in Seq(Samples), NEW t \in Seq(Samples), NEW k \in 2..Len(r), JoinedAt(t, r, k),
           SameExtent(r[k - 1], r[k])
    PROVE  /\ Len(r) \in Nat /\ Len(t) = Len(r) - 1 /\ k - 1 \in 1..Len(t) /\ k \in 1..Len(r)
           /\ k - 1 \in 1..Len(r) /\ t[k - 1] = Mix(r[k - 1], r[k])
           /\ \A i \in 1..Len(t) : /\ i \in 1..Len(r) /\ i + 1 \in 1..Len(r)
                                   /\ i < k - 1 => t[i] = r[i]
                                   /\ k <= i => t[i] = r[i + 1]
                                   /\ i < k => SameExtent(t[i], r[i])
                                   /\ k <= i => SameExtent(t[i], r[i + 1])
  <1>1. /\ Len(r) \in Nat /\ Len(t) = Len(r) - 1 /\ k - 1 \in 1..Len(t) /\ k \in 1..Len(r)
        /\ k - 1 \in 1..Len(r) /\ k \in Nat
    BY DEF JoinedAt
  <1>2. t[k - 1] = Mix(r[k - 1], r[k]) /\ r[k - 1] \in Samples
    BY <1>1 DEF JoinedAt
  <1>3. SameExtent(t[k - 1], r[k - 1])
    BY <1>2 DEF Mix, Samples, SameExtent
  <1>4. ASSUME NEW i \in 1..Len(t)
        PROVE  /\ i \in 1..Len(r) /\ i + 1 \in 1..Len(r)
               /\ i < k - 1 => t[i] = r[i]
               /\ k <= i => t[i] = r[i + 1]
               /\ i < k => i = k - 1 \/ i < k - 1
    BY <1>1 DEF JoinedAt
  <1>5. \A v : SameExtent(v, v)
    BY DEF SameExtent
  <1> QED
    BY <1>1, <1>2, <1>3, <1>4, <1>5

\* Of any extents, the joined sequence shows the same.
LEMMA JoinedShows ==
    ASSUME NEW r \in Seq(Samples), NEW t \in Seq(Samples), NEW k \in 2..Len(r), JoinedAt(t, r, k),
           SameExtent(r[k - 1], r[k]), NEW X
    PROVE  Image!Seen(Shown(t, X)) = Image!Seen(Shown(r, X))
  <1>8. /\ \A i \in 1..Len(t) : /\ i \in 1..Len(r) /\ i + 1 \in 1..Len(r)
                                /\ i < k - 1 => t[i] = r[i]
                                /\ k <= i => t[i] = r[i + 1]
        /\ k - 1 \in 1..Len(t) /\ SameExtent(t[k - 1], r[k - 1])
    <2>1. k - 1 < k
      OBVIOUS
    <2> QED
      BY <2>1, JoinedFrom
  <1> DEFINE In(v) == <<v.z, v.zback>> \in X
             R == {r[i] : i \in {j \in 1..Len(r) : j # k - 1 /\ j # k /\ In(r[j])}}
             v == r[k - 1]
             w == r[k]
  <1>1. /\ Len(r) \in Nat /\ Len(t) = Len(r) - 1 /\ k - 1 \in 1..Len(t) /\ k \in 1..Len(r)
        /\ k - 1 \in 1..Len(r) /\ t[k - 1] = Mix(v, w) /\ v \in Samples /\ w \in Samples /\ k \in Nat
    BY JoinedFrom
  <1>2. In(t[k - 1]) <=> In(v)
    BY <1>8 DEF SameExtent
  <1>3. In(v) <=> In(w)
    BY DEF SameExtent
  <1>4. \A i \in 1..Len(t) : i # k - 1 =>
            \E j \in 1..Len(r) : j # k - 1 /\ j # k /\ t[i] = r[j]
    <2> SUFFICES ASSUME NEW i \in 1..Len(t), i # k - 1
                 PROVE  \E j \in 1..Len(r) : j # k - 1 /\ j # k /\ t[i] = r[j]
      OBVIOUS
    <2>1. CASE i < k - 1
      <3>1. i \in 1..Len(r) /\ t[i] = r[i] /\ i # k - 1 /\ i # k
        BY <1>1, <1>8, <2>1
      <3> QED
        BY <3>1
    <2>2. CASE k <= i
      <3>1. i + 1 \in 1..Len(r) /\ t[i] = r[i + 1] /\ i + 1 # k - 1 /\ i + 1 # k
        BY <1>1, <1>8, <2>2
      <3> QED
        BY <3>1
    <2> QED
      BY <1>1, <2>1, <2>2
  <1>5. \A j \in 1..Len(r) : j # k - 1 /\ j # k =>
            \E i \in 1..Len(t) : i # k - 1 /\ t[i] = r[j]
    <2> SUFFICES ASSUME NEW j \in 1..Len(r), j # k - 1, j # k
                 PROVE  \E i \in 1..Len(t) : i # k - 1 /\ t[i] = r[j]
      OBVIOUS
    <2>1. CASE j < k - 1
      <3>1. j \in 1..Len(t) /\ j # k - 1
        BY <1>1, <2>1
      <3>2. t[j] = r[j]
        BY <1>8, <2>1, <3>1
      <3> QED
        BY <3>1, <3>2
    <2>2. CASE k < j
      <3>1. j - 1 \in 1..Len(t) /\ k <= j - 1 /\ (j - 1) + 1 = j
        BY <1>1, <2>2
      <3>2. t[j - 1] = r[j] /\ j - 1 # k - 1
        BY <1>1, <1>8, <3>1
      <3> QED
        BY <3>1, <3>2
    <2> QED
      BY <1>1, <2>1, <2>2
  <1>6. Shown(t, X) = IF In(v) THEN R \union {t[k - 1]} ELSE R
    <2>1. Shown(t, X) = {t[i] : i \in {j \in 1..Len(t) : In(t[j])}}
      BY DEF Shown
    <2> HIDE DEF In, v, w
    <2>2. ASSUME NEW y \in Shown(t, X) PROVE y \in R \/ (In(v) /\ y = t[k - 1])
      <3>1. PICK i \in 1..Len(t) : y = t[i] /\ In(t[i])
        BY <2>1
      <3> QED
        BY <1>2, <1>4, <3>1
    <2>3. ASSUME NEW y \in R PROVE y \in Shown(t, X)
      <3>1. PICK j \in 1..Len(r) : j # k - 1 /\ j # k /\ In(r[j]) /\ y = r[j]
        OBVIOUS
      <3> QED
        BY <1>5, <2>1, <3>1
    <2>4. In(v) => t[k - 1] \in Shown(t, X)
      BY <1>1, <1>2, <2>1
    <2> HIDE DEF R
    <2> QED
      BY <2>2, <2>3, <2>4
  <1>7. Shown(r, X) = IF In(v) THEN R \union {v, w} ELSE R
    <2>1. Shown(r, X) = {r[i] : i \in {j \in 1..Len(r) : In(r[j])}}
      BY DEF Shown
    <2> HIDE DEF In
    <2> QED
      BY <1>1, <1>3, <2>1
  <1> HIDE DEF R, In, v, w
  <1>9. Image!Seen(R \union {v, w}) = Image!Seen(R \union {Mix(v, w)})
    BY <1>1, MixSeen
  <1> QED
    BY <1>1, <1>6, <1>7, <1>9

\* It looks the same.
LEMMA JoinedSees ==
    ASSUME NEW r \in Seq(Samples), NEW t \in Seq(Samples), NEW k \in 2..Len(r), JoinedAt(t, r, k),
           SameExtent(r[k - 1], r[k])
    PROVE  Image!SeesSame(t, r)
  <1> SUFFICES ASSUME NEW x \in Depths
               PROVE  Image!Between(t, x) = Image!Between(r, x) /\ Image!At(t, x) = Image!At(r, x)
    BY DEF Image!SeesSame
  <1> DEFINE X == {ab \in Depths \X Depths : ab[1] <= x /\ x < ab[2]}
             Y == {<<x, x>>}
  <1>1. ASSUME NEW s \in Seq(Samples)
        PROVE  Image!Between(s, x) = Image!Seen(Shown(s, X)) /\ Image!At(s, x) = Image!Seen(Shown(s, Y))
    <2>1. DOMAIN s = 1..Len(s) /\ \A i \in 1..Len(s) : s[i].z \in Depths /\ s[i].zback \in Depths
      BY SampleParts
    <2>2. {k1 \in DOMAIN s : s[k1].z <= x /\ x < s[k1].zback} =
          {k1 \in 1..Len(s) : <<s[k1].z, s[k1].zback>> \in X}
      BY <2>1
    <2>3. {k1 \in DOMAIN s : s[k1].z = x /\ s[k1].zback = x} =
          {k1 \in 1..Len(s) : <<s[k1].z, s[k1].zback>> \in Y}
      BY <2>1
    <2> QED
      BY <2>2, <2>3 DEF Image!Between, Image!At, Shown
  <1> HIDE DEF X, Y
  <1> QED
    BY <1>1, JoinedShows

\* It is in order, and its samples apart, if the other's were.
LEMMA JoinedKeeps ==
    ASSUME NEW r \in Seq(Samples), NEW t \in Seq(Samples), NEW k \in 2..Len(r), JoinedAt(t, r, k),
           SameExtent(r[k - 1], r[k])
    PROVE  (Ordered(r) => Ordered(t)) /\ (Apart(r) => Apart(t))
  <1> DEFINE from == [i \in 1..Len(t) |-> IF i < k THEN i ELSE i + 1]
  <1>1. /\ Len(r) \in Nat /\ Len(t) \in Nat /\ k \in Nat
        /\ \A i \in 1..Len(t) : from[i] = IF i < k THEN i ELSE i + 1
    OBVIOUS
  <1> HIDE DEF from
  <1>2. \A i \in 1..Len(t) : from[i] \in 1..Len(r) /\ SameExtent(t[i], r[from[i]])
    <2> TAKE i \in 1..Len(t)
    <2>1. CASE i < k
      BY <1>1, <2>1, JoinedFrom
    <2>2. CASE k <= i
      <3>1. from[i] = i + 1
        BY <1>1, <2>2
      <3> QED
        BY <2>2, <3>1, JoinedFrom
    <2> QED
      BY <1>1, <2>1, <2>2
  <1>3. \A i, j \in 1..Len(t) : i < j => from[i] < from[j]
    BY <1>1
  <1>4. Ordered(r) => Ordered(t)
    BY <1>2, <1>3 DEF Ordered, SameExtent, Nearer
  <1>5. ASSUME Apart(r), NEW i \in 1..Len(t), NEW x \in {t[i].z, t[i].zback} PROVE Uncut(t, x)
    <2>1. x \in {r[from[i]].z, r[from[i]].zback}
      BY <1>2, <1>5 DEF SameExtent
    <2>2. from[i] \in 1..Len(r) /\ from[i] <= Len(r)
      BY <1>1, <1>2
    <2>3. Uncut(r, x)
      BY <1>5, <2>1, <2>2 DEF Apart, EndsUncut
    <2> QED
      BY <1>2, <2>3 DEF Uncut, Straddles, SameExtent
  <1> QED
    BY <1>4, <1>5 DEF Apart, EndsUncut

\* One step of merging neighbours.
LEMMA OverlapOneDoes ==
    ASSUME NEW d \in Sane, NEW p \in Pixels, NEW s \in 2..d.nsamples[p]
    PROVE  LET c == Contents(d, p)
               r == OverlapOne([d |-> d, s |-> s], p)
           IN /\ ~SameExtent(c[s - 1], c[s]) => r = [d |-> d, s |-> s + 1]
              /\ SameExtent(c[s - 1], c[s]) =>
                    \E e \in Versions(d, p) : /\ r = [d |-> e, s |-> s] /\ e.capacity = d.capacity
                                              /\ e.nsamples[p] = d.nsamples[p] - 1
                                              /\ JoinedAt(Contents(e, p), c, s)
  <1> DEFINE v == Value(d, p, s - 1)
             w == Value(d, p, s)
             put == Put(d, p, s - 1, Mix(v, w))
             less == EraseSamples(put, p, s - 1, 1)
             n == d.nsamples[p]
             r == OverlapOne([d |-> d, s |-> s], p)
             c == Contents(d, p)
             t == Contents(less, p)
  <1>1. /\ n \in Nat /\ s \in 1..n /\ s - 1 \in 1..n /\ s - 1 \in Nat /\ s - 1 + 1 <= n /\ s \in Nat
    BY Fields
  <1>2. v \in Samples /\ w \in Samples /\ v = c[s - 1] /\ w = c[s]
    BY <1>1, ValueIs
  <1>3. Mix(v, w) \in Samples
    BY <1>2, SampleParts
  <1>4. r = IF v.z = w.z /\ v.zback = w.zback THEN [d |-> less, s |-> s]
                                              ELSE [d |-> d, s |-> s + 1]
    BY DEF OverlapOne
  <1> HIDE DEF r, less, v, w
  <1>5. put \in Sane /\ Replaced(d, put, p, s - 1, Mix(v, w)) /\ put.nsamples[p] = n
    BY <1>1, <1>3, PutIs DEF Replaced
  <1> HIDE DEF put
  <1>6. less \in Sane /\ Closed(put, less, p, s - 1, 1)
    BY <1>1, <1>5, EraseIs DEF less
  <1>7. /\ less \in Versions(d, p) /\ less.capacity = d.capacity /\ less.nsamples[p] = n - 1
        /\ Len(t) = n - 1 /\ Len(c) = n
    BY <1>5, <1>6, OnlyBoth, ContentsIs DEF Closed, Replaced, Versions
  <1>8. \A i \in 1..n : Contents(put, p)[i] = IF i = s - 1 THEN Mix(v, w) ELSE c[i]
    BY <1>5 DEF Replaced
  <1>9. /\ \A i \in 1..(s - 1) : t[i] = Contents(put, p)[i]
        /\ \A i \in 1..(n - (s - 1) - 1) : t[s - 1 + i] = Contents(put, p)[s - 1 + 1 + i]
    BY <1>5, <1>6 DEF Closed
  <1> HIDE DEF t, c, n
  <1>10. t[s - 1] = Mix(c[s - 1], c[s])
    <2>1. s - 1 \in 1..(s - 1)
      BY <1>1
    <2> QED
      BY <1>1, <1>2, <1>8, <1>9, <2>1
  <1>11. ASSUME NEW i \in 1..Len(t) PROVE (i < s - 1 => t[i] = c[i]) /\ (s <= i => t[i] = c[i + 1])
    <2>1. ASSUME i < s - 1 PROVE t[i] = c[i]
      <3>1. i \in 1..(s - 1) /\ i \in 1..n /\ i # s - 1
        BY <1>1, <1>7, <2>1
      <3> QED
        BY <1>8, <1>9, <3>1
    <2>2. ASSUME s <= i PROVE t[i] = c[i + 1]
      <3>1. i - (s - 1) \in 1..(n - (s - 1) - 1)
        BY <1>1, <1>7, <2>2
      <3>2. s - 1 + (i - (s - 1)) = i /\ s - 1 + 1 + (i - (s - 1)) = i + 1
        BY <1>1, <1>7
      <3>3. i + 1 \in 1..n /\ i + 1 # s - 1
        BY <1>1, <1>7, <2>2
      <3> QED
        BY <1>8, <1>9, <3>1, <3>2, <3>3
    <2> QED
      BY <2>1, <2>2
  <1>12. JoinedAt(t, c, s)
    BY <1>7, <1>10, <1>11 DEF JoinedAt
  <1> QED
    BY <1>2, <1>4, <1>7, <1>12 DEF SameExtent, t, c, r, n

\* No two neighbours before the k-th sample are of one extent.
Distinct(s, k) == \A i \in 2..Len(s) : i < k => ~SameExtent(s[i - 1], s[i])

\* What is known of a sequence s of which neighbours were merged into c.
Merged(c, s) ==
    Image!SeesSame(c, s) /\ (Ordered(s) => Ordered(c)) /\ (Apart(s) => Apart(c))

\* Merging the next two keeps it.
LEMMA MergedNext ==
    ASSUME NEW s \in Seq(Samples), NEW r \in Seq(Samples), NEW t \in Seq(Samples),
           NEW k \in 2..Len(r), JoinedAt(t, r, k), SameExtent(r[k - 1], r[k]),
           Merged(r, s), Distinct(r, k)
    PROVE  Merged(t, s) /\ Distinct(t, k)
  <1>1. Merged(t, s)
    <2>1. Image!SeesSame(t, r) /\ (Ordered(r) => Ordered(t)) /\ (Apart(r) => Apart(t))
      BY JoinedSees, JoinedKeeps
    <2>2. Image!SeesSame(t, s)
      BY <2>1, SeesEquiv DEF Merged
    <2> QED
      BY <2>1, <2>2 DEF Merged
  <1>2. ASSUME NEW i \in 2..Len(t), i < k PROVE ~SameExtent(t[i - 1], t[i])
    <2>1. i \in 1..Len(t) /\ i - 1 \in 1..Len(t) /\ i - 1 < k /\ Len(r) \in Nat /\ Len(t) = Len(r) - 1
      BY <1>2, JoinedFrom
    <2>2. SameExtent(t[i], r[i]) /\ SameExtent(t[i - 1], r[i - 1])
      BY <1>2, <2>1, JoinedFrom
    <2>3. i \in 2..Len(r)
      BY <2>1
    <2>4. ~SameExtent(r[i - 1], r[i])
      BY <1>2, <2>3 DEF Distinct
    <2> QED
      BY <2>2, <2>4 DEF SameExtent
  <1> QED
    BY <1>1, <1>2 DEF Distinct

\* Merging the neighbours of one extent.
LEMMA MergeNeighboursDoes ==
    ASSUME NEW d \in Sane, NEW p \in Pixels
    PROVE  LET e == MergeNeighbours(d, p)
               c == Contents(e, p)
           IN /\ e \in Versions(d, p) /\ e.capacity = d.capacity /\ Merged(c, Contents(d, p))
              /\ d.nsamples[p] <= MaxCapacity => Distinct(c, Len(c) + 1)
  <1> DEFINE n == 2 * MaxCapacity
             c == Contents(d, p)
             n0 == d.nsamples[p]
             x == [d |-> d, s |-> 2]
             step(l) == IF l.s <= l.d.nsamples[p] THEN OverlapOne(l, p) ELSE l
             G == {l \in [d : Versions(d, p), s : Positions(2)] :
                       /\ l.d.capacity = d.capacity /\ Merged(Contents(l.d, p), c)
                       /\ Distinct(Contents(l.d, p), l.s)}
             H == [k \in 0..n |-> {l \in G : \/ l.s > l.d.nsamples[p]
                                             \/ l.d.nsamples[p] + k + 2 <= n0 + l.s}]
             g == [l \in G |-> [k \in 1..n |-> step(l)]]
             F == CHOOSE f : f = [k \in 0..n |-> IF k = 0 THEN x ELSE step(f[k - 1])]
  <1>1. n \in Nat /\ x \in G /\ x \in H[0] /\ n0 \in Nat /\ c \in Seq(Samples)
    <2>1. n \in Nat /\ 0 \in 0..n /\ d \in Versions(d, p) /\ 2 \in Positions(2) /\ n0 \in Nat
      BY Consts, Fields DEF Versions, Only, Positions
    <2>2. Merged(c, c)
      BY SeesEquiv DEF Merged
    <2>3. Distinct(c, 2)
      BY DEF Distinct
    <2>5. c \in Seq(Samples)
      BY ContentsIs
    <2> HIDE DEF c, n0
    <2>4. x \in G
      BY <2>1, <2>2, <2>3 DEF c
    <2> QED
      BY <2>1, <2>4, <2>5 DEF n0
  <1>2. ASSUME NEW l \in G
        PROVE  /\ step(l) \in G
               /\ l.s <= l.d.nsamples[p] =>
                     \/ step(l).s = l.s + 1 /\ step(l).d.nsamples[p] = l.d.nsamples[p]
                     \/ step(l).s = l.s /\ step(l).d.nsamples[p] = l.d.nsamples[p] - 1
               /\ ~(l.s <= l.d.nsamples[p]) => step(l) = l
    <2> DEFINE b == l.d
               s == l.s
               r == Contents(b, p)
    <2>1. /\ b \in Sane /\ b \in Versions(d, p) /\ s \in Positions(2) /\ s \in Nat /\ s >= 2
          /\ l = [d |-> b, s |-> s] /\ b.nsamples[p] \in Nat
          /\ b.capacity = d.capacity /\ Merged(r, c) /\ Distinct(r, s)
      BY Fields DEF Versions, Positions
    <2>2. step(l) = IF s <= b.nsamples[p] THEN OverlapOne([d |-> b, s |-> s], p) ELSE l
      BY <2>1
    <2>3. ASSUME s <= b.nsamples[p]
          PROVE  /\ step(l) \in G
                 /\ \/ step(l).s = s + 1 /\ step(l).d.nsamples[p] = b.nsamples[p]
                    \/ step(l).s = s /\ step(l).d.nsamples[p] = b.nsamples[p] - 1
      <3> HIDE DEF c, b, s, step
      <3>1. s \in 2..b.nsamples[p] /\ r \in Seq(Samples) /\ Len(r) = b.nsamples[p]
        BY <2>1, <2>3, ContentsIs
      <3>2. step(l) = OverlapOne([d |-> b, s |-> s], p)
        BY <2>2, <2>3
      <3>3. CASE SameExtent(r[s - 1], r[s])
        <4>1. PICK e \in Versions(b, p) :
                 /\ step(l) = [d |-> e, s |-> s] /\ e.capacity = b.capacity
                 /\ e.nsamples[p] = b.nsamples[p] - 1 /\ JoinedAt(Contents(e, p), r, s)
          BY <2>1, <3>1, <3>2, <3>3, OverlapOneDoes
        <4>2. e \in Versions(d, p) /\ e \in Sane /\ Contents(e, p) \in Seq(Samples)
          BY <2>1, <4>1, OnlyBoth, ContentsIs DEF Versions
        <4> HIDE DEF r
        <4>3. Merged(Contents(e, p), c) /\ Distinct(Contents(e, p), s)
          BY <1>1, <2>1, <3>1, <3>3, <4>1, <4>2, MergedNext
        <4> QED
          BY <2>1, <4>1, <4>2, <4>3
      <3>4. CASE ~SameExtent(r[s - 1], r[s])
        <4>1. step(l) = [d |-> b, s |-> s + 1]
          BY <2>1, <3>1, <3>2, <3>4, OverlapOneDoes
        <4>2. Distinct(r, s + 1)
          <5> SUFFICES ASSUME NEW i \in 2..Len(r), i < s + 1 PROVE ~SameExtent(r[i - 1], r[i])
            BY DEF Distinct
          <5>1. i = s \/ i < s
            BY <2>1
          <5> HIDE DEF r
          <5> QED
            BY <2>1, <3>4, <5>1 DEF Distinct
        <4>3. s + 1 \in Positions(2)
          BY <2>1 DEF Positions
        <4> QED
          BY <2>1, <4>1, <4>2, <4>3
      <3> QED
        BY <3>3, <3>4
    <2> HIDE DEF G, step
    <2> QED
      BY <2>2, <2>3
  <1>3. ASSUME NEW l \in G, NEW k \in 1..n, l \in H[k - 1] PROVE step(l) \in H[k]
    <2>1. k - 1 \in 0..n /\ k \in 0..n /\ k \in Nat
      BY <1>1
    <2>2. l.s > l.d.nsamples[p] \/ l.d.nsamples[p] + (k - 1) + 2 <= n0 + l.s
      BY <1>3, <2>1
    <2>3. l.d.nsamples[p] \in Nat /\ l.s \in Nat
      BY Fields DEF Versions, Positions
    <2>5. n0 \in Nat
      BY <1>1
    <2> HIDE DEF G, step, n0
    <2>4. \/ step(l).s > step(l).d.nsamples[p]
          \/ step(l).d.nsamples[p] + k + 2 <= n0 + step(l).s
      <3>1. CASE l.s <= l.d.nsamples[p]
        <4>1. l.d.nsamples[p] + (k - 1) + 2 <= n0 + l.s
          BY <2>2, <2>3, <3>1
        <4>2. CASE step(l).s = l.s + 1 /\ step(l).d.nsamples[p] = l.d.nsamples[p]
          BY <2>1, <2>3, <2>5, <4>1, <4>2
        <4>3. CASE step(l).s = l.s /\ step(l).d.nsamples[p] = l.d.nsamples[p] - 1
          BY <2>1, <2>3, <2>5, <4>1, <4>3
        <4> QED
          BY <1>2, <3>1, <4>2, <4>3
      <3>2. CASE ~(l.s <= l.d.nsamples[p])
        BY <1>2, <2>3, <3>2
      <3> QED
        BY <3>1, <3>2
    <2> QED
      BY <1>2, <2>1, <2>4
  <1>4. \A l \in G : /\ l.d \in Versions(d, p) /\ l.d.capacity = d.capacity
                     /\ Merged(Contents(l.d, p), c) /\ Distinct(Contents(l.d, p), l.s)
                     /\ l.s \in Nat
    BY DEF Positions
  <1>5. \A l \in H[n] : l \in G /\ (\/ l.s > l.d.nsamples[p]
                                    \/ l.d.nsamples[p] + n + 2 <= n0 + l.s)
    BY <1>1
  <1>14. \A k \in 0..n : H[k] \subseteq G
    OBVIOUS
  <1> HIDE DEF n, G, x, step, H, c, n0
  <1>6. g \in Steps(G, n)
    BY <1>2 DEF Steps
  <1>7. \E f : f = [k \in 0..n |-> IF k = 0 THEN x ELSE step(f[k - 1])]
    <2>1. PICK f \in [0..n -> G] : f[0] = x /\ \A k \in 1..n : f[k] = g[f[k - 1]][k]
      <3>1. RunsOf(G, n, x, g) # {}
        <4> HIDE DEF g
        <4> QED
          BY <1>1, <1>6, Runs
      <3> HIDE DEF g
      <3> QED
        BY <3>1 DEF RunsOf
    <2>2. ASSUME NEW k \in 1..n PROVE f[k] = step(f[k - 1])
      <3>1. f[k - 1] \in G
        BY <1>1
      <3> QED
        BY <2>1, <3>1
    <2>3. f = [k \in 0..n |-> IF k = 0 THEN x ELSE step(f[k - 1])]
      BY <1>1, <2>1, <2>2
    <2> QED
      BY <2>3
  <1>8. F = [k \in 0..n |-> IF k = 0 THEN x ELSE step(F[k - 1])]
    BY <1>7, Zenon
  <1>9. MergeNeighbours(d, p) = F[n].d
    BY DEF MergeNeighbours, Loop, Repeat, n, x, step
  <1> HIDE DEF F
  <1>10. \A k \in 0..n : F[k] \in H[k]
    <2>1. F[0] \in H[0]
      BY <1>1, <1>8
    <2>2. \A k \in 1..n : F[k - 1] \in H[k - 1] => F[k] \in H[k]
      <3> TAKE k \in 1..n
      <3>1. k \in 0..n /\ k # 0 /\ k - 1 \in 0..n
        BY <1>1
      <3>2. F[k] = step(F[k - 1])
        BY <1>8, <3>1
      <3> QED
        BY <1>3, <1>14, <3>1, <3>2
    <2> QED
      BY <1>1, <2>1, <2>2, StaysAt, Zenon
  <1> DEFINE l == F[n]
             e == l.d
  <1>11. l \in G /\ (l.s > e.nsamples[p] \/ e.nsamples[p] + n + 2 <= n0 + l.s)
    BY <1>1, <1>5, <1>10
  <1> HIDE DEF l
  <1>12. /\ e \in Versions(d, p) /\ e.capacity = d.capacity /\ Merged(Contents(e, p), c)
         /\ Distinct(Contents(e, p), l.s) /\ l.s \in Nat
    BY <1>4, <1>11
  <1>13. ASSUME n0 <= MaxCapacity PROVE Distinct(Contents(e, p), Len(Contents(e, p)) + 1)
    <2>1. e \in Sane /\ e.nsamples[p] \in Nat /\ MaxCapacity \in Nat
      BY <1>12, Fields, Consts DEF Versions
    <2>2. l.s > e.nsamples[p]
      BY <1>1, <1>11, <1>12, <1>13, <2>1 DEF n
    <2>3. Len(Contents(e, p)) = e.nsamples[p]
      BY <2>1, ContentsIs
    <2>4. \A i \in 2..e.nsamples[p] : i < l.s
      BY <1>12, <2>1, <2>2
    <2> HIDE DEF e
    <2> QED
      BY <1>12, <2>3, <2>4 DEF Distinct
  <1> QED
    BY <1>9, <1>12, <1>13 DEF l, c, n0

-----------------------------------------------------------------------------
(* Sorting                                                                   *)

\* An order of n things, and the k-th of them.
Orders(first, n) ==
    /\ \A i, j \in 1..n : <<i, j>> \in first => <<j, i>> \notin first
    /\ \A i, j \in 1..n : i # j => <<i, j>> \in first \/ <<j, i>> \in first
    /\ \A i, j, k \in 1..n : <<i, j>> \in first /\ <<j, k>> \in first => <<i, k>> \in first
AtPlace(first, n, i, k) == Cardinality({j \in 1..n : j = i \/ <<j, i>> \in first}) = k

\* Nearer is an order of the depths.
LEMMA NearerOrder ==
    ASSUME NEW a \in Samples, NEW b \in Samples, NEW c \in Samples
    PROVE  /\ Nearer(a, b) => ~Nearer(b, a)
           /\ Nearer(a, b) /\ ~Nearer(c, b) => Nearer(a, c)
           /\ ~Nearer(b, a) /\ Nearer(b, c) => Nearer(a, c)
           /\ ~Nearer(b, a) /\ ~Nearer(c, b) => ~Nearer(c, a)
  <1>1. \A v \in {a, b, c} : v.z \in Nat /\ v.zback \in Nat
    BY Consts DEF Samples
  <1> QED
    BY <1>1 DEF Nearer

\* Each thing has a place of its own, after the places of those before it.
LEMMA PlacesInOrder ==
    ASSUME NEW n \in Nat, NEW first, Orders(first, n)
    PROVE  \E f \in [1..n -> 1..n] :
              /\ \A i \in 1..n : AtPlace(first, n, i, f[i])
              /\ \A i, j \in 1..n : <<i, j>> \in first => f[i] < f[j]
              /\ \A i, j \in 1..n : f[i] = f[j] => i = j
              /\ \A k \in 1..n : \E i \in 1..n : f[i] = k
  <1> DEFINE upto(i) == {j \in 1..n : j = i \/ <<j, i>> \in first}
             f == [i \in 1..n |-> Cardinality(upto(i))]
  <1>1. ASSUME NEW i \in 1..n
        PROVE  upto(i) \in SUBSET (1..n) /\ i \in upto(i) /\ IsFiniteSet(upto(i)) /\ f[i] \in 1..n
    <2>1. IsFiniteSet(1..n) /\ Cardinality(1..n) = n
      BY FS_Interval
    <2>2. upto(i) \in SUBSET (1..n) /\ i \in upto(i) /\ f[i] = Cardinality(upto(i))
      OBVIOUS
    <2> HIDE DEF upto, f
    <2>3. IsFiniteSet(upto(i)) /\ Cardinality(upto(i)) <= n
      BY <2>1, <2>2, FS_Subset
    <2>4. Cardinality(upto(i)) \in Nat /\ Cardinality(upto(i)) # 0
      BY <2>2, <2>3, FS_CardinalityType, FS_EmptySet
    <2> QED
      BY <2>2, <2>3, <2>4
  <1>2. ASSUME NEW i \in 1..n, NEW j \in 1..n, <<i, j>> \in first PROVE f[i] < f[j]
    <2>1. upto(i) \in SUBSET upto(j)
      BY <1>2 DEF Orders
    <2>2. j \notin upto(i) /\ j \in upto(j)
      BY <1>2 DEF Orders
    <2>3. f[i] = Cardinality(upto(i)) /\ f[j] = Cardinality(upto(j))
      OBVIOUS
    <2> HIDE DEF upto, f
    <2>4. IsFiniteSet(upto(j)) /\ f[i] \in Nat /\ f[j] \in Nat
      <3>1. f[i] \in 1..n /\ f[j] \in 1..n /\ IsFiniteSet(upto(j))
        BY <1>1
      <3> QED
        BY <3>1
    <2>5. Cardinality(upto(i)) <= Cardinality(upto(j)) /\ Cardinality(upto(i)) # Cardinality(upto(j))
      BY <2>1, <2>2, <2>4, FS_Subset
    <2> QED
      BY <2>3, <2>4, <2>5
  <1>3. f \in [1..n -> 1..n] /\ \A i \in 1..n : AtPlace(first, n, i, f[i])
    <2>1. f = [i \in 1..n |-> f[i]] /\ \A i \in 1..n : f[i] = Cardinality(upto(i))
      OBVIOUS
    <2>2. \A i \in 1..n : f[i] \in 1..n
      BY <1>1
    <2>3. \A i \in 1..n : AtPlace(first, n, i, f[i])
      BY <2>1 DEF AtPlace
    <2> HIDE DEF f
    <2> QED
      BY <2>1, <2>2, <2>3
  <1> HIDE DEF f, upto
  <1>4. ASSUME NEW i \in 1..n, NEW j \in 1..n, f[i] = f[j] PROVE i = j
    <2>1. f[i] \in 1..n /\ f[j] \in 1..n
      BY <1>1
    <2>2. i # j => <<i, j>> \in first \/ <<j, i>> \in first
      BY DEF Orders
    <2> QED
      BY <1>2, <1>4, <2>1, <2>2
  <1>5. ASSUME NEW k \in 1..n PROVE \E i \in 1..n : f[i] = k
    <2>1. f \in Injection(1..n, 1..n)
      BY <1>3, <1>4 DEF Injection, IsInjective
    <2>2. f \in Surjection(1..n, 1..n)
      BY <2>1, FS_Interval, FS_Injection
    <2> QED
      BY <2>2 DEF Surjection
  <1> QED
    BY <1>2, <1>3, <1>4, <1>5

\* t has the samples of s in the order o.
ShuffledBy(o, t, s) ==
    /\ Len(t) = Len(s) /\ \A k \in 1..Len(s) : t[k] = s[o[k]]
    /\ \A i, j \in 1..Len(s) : o[i] = o[j] => i = j
    /\ \A i \in 1..Len(s) : \E k \in 1..Len(s) : o[k] = i
Shuffled(t, s) == \E o \in [1..Len(s) -> 1..Len(s)] : ShuffledBy(o, t, s)

\* Shuffled samples look the same, and each of them occurs as often.
LEMMA ShuffledSees ==
    ASSUME NEW s \in Seq(Samples), NEW t \in Seq(Samples), Shuffled(t, s)
    PROVE  /\ Image!SeesSame(t, s) /\ Len(t) = Len(s)
           /\ \A v : Cardinality(Image!Occurs(t, v)) = Cardinality(Image!Occurs(s, v))
  <1>1. PICK o \in [1..Len(s) -> 1..Len(s)] : ShuffledBy(o, t, s)
    BY DEF Shuffled
  <1>2. /\ Len(t) = Len(s) /\ Len(s) \in Nat /\ DOMAIN s = 1..Len(s) /\ DOMAIN t = 1..Len(s)
        /\ \A k \in 1..Len(s) : o[k] \in 1..Len(s) /\ t[k] = s[o[k]]
    BY <1>1 DEF ShuffledBy
  <1>3. Covers(t, s)
    <2>1. \A j \in 1..Len(s) : \E i \in 1..Len(t) : t[i] = s[j]
      BY <1>1, <1>2 DEF ShuffledBy
    <2> QED
      BY <2>1 DEF Covers, Like
  <1>4. Covers(s, t)
    BY <1>2 DEF Covers, Like
  <1>5. Image!SeesSame(t, s)
    BY <1>3, <1>4, CoversSees
  <1>6. ASSUME NEW v PROVE Cardinality(Image!Occurs(t, v)) = Cardinality(Image!Occurs(s, v))
    <2> DEFINE A == Image!Occurs(t, v)
               B == Image!Occurs(s, v)
               f == [k \in A |-> o[k]]
    <2>1. A \subseteq 1..Len(s) /\ B \subseteq 1..Len(s)
      BY <1>2 DEF Image!Occurs
    <2>2. \A k \in A : o[k] \in B
      BY <1>2 DEF Image!Occurs
    <2>3. \A i \in B : \E k \in A : o[k] = i
      BY <1>1, <1>2 DEF Image!Occurs, ShuffledBy
    <2> HIDE DEF A, B
    <2>4. f \in Injection(A, B)
      <3>1. f \in [A -> B]
        BY <2>2
      <3>2. \A i, j \in A : f[i] = f[j] => i = j
        BY <1>1, <2>1 DEF ShuffledBy
      <3> HIDE DEF f
      <3> QED
        BY <3>1, <3>2 DEF Injection, IsInjective
    <2>5. f \in Surjection(A, B)
      <3>1. f \in [A -> B]
        BY <2>2
      <3>2. \A i \in B : \E k \in A : f[k] = i
        BY <2>3
      <3> HIDE DEF f
      <3> QED
        BY <3>1, <3>2 DEF Surjection
    <2>6. IsFiniteSet(B)
      <3>1. IsFiniteSet(1..Len(s)) /\ B \in SUBSET (1..Len(s))
        BY <1>2, <2>1, FS_Interval
      <3> QED
        BY <3>1, FS_Subset
    <2> HIDE DEF f
    <2> QED
      BY <2>4, <2>5, <2>6, FS_Injection DEF A, B
  <1> QED
    BY <1>2, <1>5, <1>6

\* Shuffling keeps the number of spots.
LEMMA SpotsShuffled ==
    ASSUME NEW s \in Seq(Samples), NEW t \in Seq(Samples), Shuffled(t, s), NEW Y \in SUBSET Depths
    PROVE  /\ Cardinality(Spots(t, Y)) <= Cardinality(Spots(s, Y))
           /\ EndsIn(s, Y) => EndsIn(t, Y)
  <1>1. PICK o \in [1..Len(s) -> 1..Len(s)] : ShuffledBy(o, t, s)
    BY DEF Shuffled
  <1>2. /\ Len(t) = Len(s) /\ \A k \in 1..Len(s) : o[k] \in 1..Len(s) /\ t[k] = s[o[k]]
        /\ \A i, j \in 1..Len(s) : o[i] = o[j] => i = j
    BY <1>1 DEF ShuffledBy
  <1> DEFINE S == Spots(t, Y)
             T == Spots(s, Y)
             f == [a \in S |-> <<o[a[1]], a[2]>>]
  <1>3. \A a \in S : /\ a = <<a[1], a[2]>> /\ a[1] \in 1..Len(s) /\ a[2] \in Y \union {-1}
                     /\ a[2] = -1 \/ Straddles(t[a[1]], a[2])
    BY <1>2 DEF Spots
  <1>4. \A i \in 1..Len(s), x \in Y \union {-1} : x = -1 \/ Straddles(s[i], x) => <<i, x>> \in T
    BY DEF Spots
  <1> HIDE DEF S, T
  <1>5. f \in Injection(S, T)
    <2>1. \A a \in S : <<o[a[1]], a[2]>> \in T
      BY <1>2, <1>3, <1>4
    <2>2. ASSUME NEW a \in S, NEW b \in S, <<o[a[1]], a[2]>> = <<o[b[1]], b[2]>> PROVE a = b
      <3>1. a[1] = b[1] /\ a[2] = b[2]
        BY <1>2, <1>3, <2>2
      <3> QED
        BY <1>3, <3>1
    <2> QED
      BY <2>1, <2>2 DEF Injection, IsInjective
  <1>6. Cardinality(S) <= Cardinality(T)
    <2>1. IsFiniteSet(T)
      BY SpotsAre DEF T
    <2> HIDE DEF f
    <2> QED
      BY <1>5, <2>1, FS_Injection
  <1>7. EndsIn(s, Y) => EndsIn(t, Y)
    BY <1>2 DEF EndsIn
  <1> QED
    BY <1>6, <1>7 DEF S, T

\* What SortSamples puts at k: the sample whose place it is.
FirstOfTwo(s, i, j) == Nearer(s[i], s[j]) \/ (~Nearer(s[j], s[i]) /\ i < j)
PlaceOf(s, i) == Cardinality({j \in DOMAIN s : j = i \/ FirstOfTwo(s, j, i)})
InPlace(s) == [k \in DOMAIN s |-> s[CHOOSE i \in DOMAIN s : PlaceOf(s, i) = k]]

\* The places of the samples.
LEMMA PlacesOf ==
    ASSUME NEW s \in Seq(Samples)
    PROVE  \E f \in [1..Len(s) -> 1..Len(s)] :
              /\ \A i \in 1..Len(s) : f[i] = PlaceOf(s, i)
              /\ \A i, j \in 1..Len(s) : Nearer(s[i], s[j]) => f[i] < f[j]
              /\ \A i, j \in 1..Len(s) : f[i] = f[j] => i = j
              /\ \A k \in 1..Len(s) : \E i \in 1..Len(s) : f[i] = k
  <1> DEFINE n == Len(s)
             first == {ij \in (1..n) \X (1..n) : FirstOfTwo(s, ij[1], ij[2])}
  <1>1. n \in Nat /\ DOMAIN s = 1..n /\ \A i \in 1..n : s[i] \in Samples
    OBVIOUS
  <1> HIDE DEF n
  <1>2. \A i, j \in 1..n : <<i, j>> \in first <=> FirstOfTwo(s, i, j)
    OBVIOUS
  <1>3. ASSUME NEW i \in 1..n, NEW j \in 1..n
        PROVE  /\ FirstOfTwo(s, i, j) => ~FirstOfTwo(s, j, i)
               /\ i # j => FirstOfTwo(s, i, j) \/ FirstOfTwo(s, j, i)
    <2>1. s[i] \in Samples /\ s[j] \in Samples /\ i \in Nat /\ j \in Nat
      BY <1>1
    <2> QED
      BY <2>1, NearerOrder DEF FirstOfTwo
  <1>4. ASSUME NEW i \in 1..n, NEW j \in 1..n, NEW h \in 1..n,
               FirstOfTwo(s, i, j), FirstOfTwo(s, j, h)
        PROVE  FirstOfTwo(s, i, h)
    <2>1. /\ s[i] \in Samples /\ s[j] \in Samples /\ s[h] \in Samples
          /\ i \in Nat /\ j \in Nat /\ h \in Nat
      BY <1>1
    <2> QED
      BY <1>4, <2>1, NearerOrder DEF FirstOfTwo
  <1> HIDE DEF first
  <1>5. Orders(first, n)
    BY <1>2, <1>3, <1>4 DEF Orders
  <1>6. PICK f \in [1..n -> 1..n] :
           /\ \A i \in 1..n : AtPlace(first, n, i, f[i])
           /\ \A i, j \in 1..n : <<i, j>> \in first => f[i] < f[j]
           /\ \A i, j \in 1..n : f[i] = f[j] => i = j
           /\ \A k \in 1..n : \E i \in 1..n : f[i] = k
    BY <1>1, <1>5, PlacesInOrder
  <1>7. ASSUME NEW i \in 1..n PROVE f[i] = PlaceOf(s, i)
    <2>1. {j \in DOMAIN s : j = i \/ FirstOfTwo(s, j, i)} = {j \in 1..n : j = i \/ <<j, i>> \in first}
      BY <1>1, <1>2
    <2> QED
      BY <1>6, <2>1 DEF AtPlace, PlaceOf
  <1>8. \A i, j \in 1..n : Nearer(s[i], s[j]) => f[i] < f[j]
    BY <1>2, <1>6 DEF FirstOfTwo
  <1> QED
    BY <1>6, <1>7, <1>8 DEF n

\* The samples in their places are the same samples, in order.
LEMMA InPlaceIs ==
    ASSUME NEW s \in Seq(Samples)
    PROVE  InPlace(s) \in Seq(Samples) /\ Shuffled(InPlace(s), s) /\ Ordered(InPlace(s))
  <1> DEFINE n == Len(s)
             t == InPlace(s)
             o == [k \in 1..n |-> CHOOSE i \in 1..n : PlaceOf(s, i) = k]
  <1>1. PICK f \in [1..n -> 1..n] :
           /\ \A i \in 1..n : f[i] = PlaceOf(s, i)
           /\ \A i, j \in 1..n : Nearer(s[i], s[j]) => f[i] < f[j]
           /\ \A i, j \in 1..n : f[i] = f[j] => i = j
           /\ \A k \in 1..n : \E i \in 1..n : f[i] = k
    BY PlacesOf
  <1>2. n \in Nat /\ DOMAIN s = 1..n
    OBVIOUS
  <1> HIDE DEF n
  <1>3. ASSUME NEW k \in 1..n PROVE o[k] \in 1..n /\ f[o[k]] = k
    <2>1. \E i \in 1..n : PlaceOf(s, i) = k
      BY <1>1
    <2>2. o[k] = CHOOSE i \in 1..n : PlaceOf(s, i) = k
      OBVIOUS
    <2> HIDE DEF o
    <2>3. o[k] \in 1..n /\ PlaceOf(s, o[k]) = k
      BY <2>1, <2>2
    <2> QED
      BY <1>1, <2>3
  <1>4. t = [k \in 1..n |-> s[o[k]]]
    BY <1>2 DEF InPlace
  <1>5. o \in [1..n -> 1..n]
    <2>1. o = [k \in 1..n |-> o[k]]
      OBVIOUS
    <2> HIDE DEF o
    <2> QED
      BY <1>3, <2>1
  <1> HIDE DEF o, t
  <1>6. t \in Seq(Samples) /\ Len(t) = n
    <2>1. \A k \in 1..n : s[o[k]] \in Samples
      BY <1>3 DEF n
    <2>2. t \in [1..n -> Samples]
      BY <1>4, <2>1
    <2> QED
      BY <1>2, <2>2
  <1>7. ShuffledBy(o, t, s)
    <2>1. \A k \in 1..n : t[k] = s[o[k]]
      BY <1>4
    <2>2. \A i, j \in 1..n : o[i] = o[j] => i = j
      BY <1>3
    <2>3. \A i \in 1..n : \E k \in 1..n : o[k] = i
      <3> TAKE i \in 1..n
      <3>1. f[i] \in 1..n
        OBVIOUS
      <3>2. o[f[i]] \in 1..n /\ f[o[f[i]]] = f[i]
        BY <1>3, <3>1
      <3> QED
        BY <1>1, <3>1, <3>2
    <2> QED
      BY <1>6, <2>1, <2>2, <2>3 DEF ShuffledBy, n
  <1>8. Ordered(t)
    <2> SUFFICES ASSUME NEW i \in 1..n, NEW j \in 1..n, i < j, Nearer(t[j], t[i]) PROVE FALSE
      BY <1>6 DEF Ordered
    <2>1. o[i] \in 1..n /\ o[j] \in 1..n /\ f[o[i]] = i /\ f[o[j]] = j
      BY <1>3
    <2>2. Nearer(s[o[j]], s[o[i]])
      BY <1>4
    <2>3. f[o[j]] < f[o[i]]
      BY <1>1, <2>1, <2>2
    <2> QED
      BY <1>2, <2>1, <2>3
  <1> QED
    BY <1>5, <1>6, <1>7, <1>8 DEF Shuffled, n, t

\* Sorting puts the samples of p in order.
LEMMA SortDoes ==
    ASSUME NEW d \in Sane, NEW p \in Pixels
    PROVE  LET e == SortSamples(d, p) IN
           /\ e \in Versions(d, p) /\ e.capacity = d.capacity /\ e.nsamples = d.nsamples
           /\ Shuffled(Contents(e, p), Contents(d, p)) /\ Ordered(Contents(e, p))
  <1> DEFINE s == Contents(d, p)
             n == d.nsamples[p]
             e == Over(Alloc(d), p, 1, InPlace(s))
  <1>1. n \in Nat /\ s \in Seq(Samples) /\ Len(s) = n
    BY Fields, ContentsIs
  <1>2. SortSamples(d, p) = IF n < 2 THEN d ELSE e
    BY DEF SortSamples, InPlace, PlaceOf, FirstOfTwo
  <1>3. d \in Versions(d, p)
    BY DEF Versions, Only
  <1> HIDE DEF s, n
  <1>4. ASSUME n < 2 PROVE Shuffled(s, s) /\ Ordered(s)
    <2>1. Ordered(s)
      BY <1>1, <1>4 DEF Ordered
    <2>2. [i \in 1..Len(s) |-> i] \in [1..Len(s) -> 1..Len(s)]
      OBVIOUS
    <2>3. ShuffledBy([i \in 1..Len(s) |-> i], s, s)
      BY DEF ShuffledBy
    <2> QED
      BY <2>1, <2>2, <2>3 DEF Shuffled
  <1>5. InPlace(s) \in Seq(Samples) /\ Shuffled(InPlace(s), s) /\ Ordered(InPlace(s))
    BY <1>1, InPlaceIs
  <1>6. Len(InPlace(s)) = n
    BY <1>1, <1>5 DEF Shuffled, ShuffledBy
  <1>7. /\ e \in Sane /\ Only(d, e, p) /\ e.nsamples = d.nsamples /\ e.capacity = d.capacity
        /\ Contents(e, p) = InPlace(s)
    BY <1>5, <1>6, FillIs DEF n
  <1> HIDE DEF e
  <1> QED
    BY <1>2, <1>3, <1>4, <1>5, <1>7 DEF Versions, s

-----------------------------------------------------------------------------
(* What merging pixels does                                                  *)

\* The samples of both pixels are gathered, one after the other.
LEMMA GatheredDoes ==
    ASSUME NEW d \in Sane, NEW p \in Pixels, NEW q \in Pixels, p # q
    PROVE  /\ Gathered(d, p, q) \in Versions(d, p)
           /\ Contents(Gathered(d, p, q), p) = Contents(d, p) \o Contents(d, q)
           /\ Widened(d, Gathered(d, p, q), p, d.nsamples[p] + d.nsamples[q])
  <1> DEFINE own == d.nsamples[p]
             n == d.nsamples[q]
             c == Contents(d, p)
             t == Contents(d, q)
             G == {e \in Versions(d, p) : e.nsamples[p] = own + n /\ Widened(d, e, p, own + n) /\
                                          \A i \in 1..own : Contents(e, p)[i] = c[i]}
             H == [k \in 0..n |-> {e \in G : \A i \in 1..k : Contents(e, p)[own + i] = t[i]}]
             x == SetSamples(d, p, own + n)
             step(l, k) == CopySample(l, p, own + k, q, k)
             g == [l \in G |-> [k \in 1..n |-> step(l, k)]]
             F == CHOOSE f : f = [k \in 0..n |-> IF k = 0 THEN x ELSE step(f[k - 1], k)]
  <1>1. n \in Nat /\ own \in Nat /\ x \in G /\ x \in H[0]
    <2>1. n \in Nat /\ own \in Nat /\ own + n \in Nat /\ 0 \in 0..n
      BY Fields
    <2>2. x \in Sane /\ Counted(d, x, p, own + n)
      BY <2>1, SetSamplesIs
    <2>3. \A i \in 1..own : i \in 1..(own + n) /\ i <= own
      BY <2>1
    <2>5. Widened(d, x, p, own + n)
      BY <2>1, CapacityAfter
    <2>4. x \in G
      BY <2>1, <2>2, <2>3, <2>5 DEF Versions, Counted
    <2> QED
      BY <2>1, <2>4
  <1>2. ASSUME NEW l \in G, NEW k \in 1..n
        PROVE  /\ step(l, k) \in G
               /\ \A j \in 1..(own + n) :
                     Contents(step(l, k), p)[j] = IF j = own + k THEN t[k] ELSE Contents(l, p)[j]
    <2>1. /\ l \in Sane /\ Only(d, l, p) /\ l.nsamples[p] = own + n /\ Widened(d, l, p, own + n)
          /\ \A i \in 1..own : Contents(l, p)[i] = c[i]
      BY DEF Versions
    <2>2. l.nsamples[q] = n
      BY <2>1, OnlyCounts
    <2>3. own + k \in 1..(own + n) /\ n <= own + n
      BY <1>1
    <2>4. Value(l, q, k) = t[k]
      <3>1. Contents(l, q) = t
        BY <2>1 DEF Only
      <3> HIDE DEF t
      <3> QED
        BY <3>1 DEF Value
    <2>5. \A i \in 1..own : i \in 1..(own + n) /\ i # own + k
      BY <1>1
    <2> HIDE DEF own, n, step, t, c
    <2>6. /\ step(l, k) \in Sane /\ Only(l, step(l, k), p)
          /\ step(l, k).nsamples[p] = l.nsamples[p]
          /\ \A j \in 1..(own + n) :
                Contents(step(l, k), p)[j] = IF j = own + k THEN t[k] ELSE Contents(l, p)[j]
      BY <2>1, <2>2, <2>3, <2>4, CopySampleIs DEF step
    <2>7. Only(d, step(l, k), p)
      BY <2>1, <2>6, OnlyBoth
    <2>8. \A i \in 1..own : Contents(step(l, k), p)[i] = c[i]
      BY <2>1, <2>5, <2>6
    <2>9. Widened(d, step(l, k), p, own + n)
      <3>1. step(l, k).capacity = l.capacity
        BY <2>1, <2>2, <2>3, CapacityCopied DEF step
      <3> QED
        BY <2>1, <3>1 DEF Widened
    <2> QED
      BY <2>1, <2>6, <2>7, <2>8, <2>9 DEF Versions
  <1>9. ASSUME NEW l \in G, NEW k \in 1..n, l \in H[k - 1] PROVE step(l, k) \in H[k]
    <2>1. k - 1 \in 0..n /\ k \in 0..n
      BY <1>1
    <2>2. \A i \in 1..(k - 1) : Contents(l, p)[own + i] = t[i]
      BY <1>9, <2>1
    <2>3. ASSUME NEW i \in 1..k PROVE Contents(step(l, k), p)[own + i] = t[i]
      <3>1. own + i \in 1..(own + n) /\ (own + i = own + k <=> i = k) /\ (i # k => i \in 1..(k - 1))
        BY <1>1
      <3> HIDE DEF own, step, t, n, G
      <3> QED
        BY <1>2, <2>2, <3>1
    <2> HIDE DEF G, step, own, t
    <2> QED
      BY <1>2, <2>1, <2>3
  <1>10. \A l \in G : /\ l \in Versions(d, p) /\ l.nsamples[p] = own + n /\ Widened(d, l, p, own + n)
                      /\ \A i \in 1..own : Contents(l, p)[i] = c[i]
    OBVIOUS
  <1>11. \A l \in H[n] : l \in G /\ \A i \in 1..n : Contents(l, p)[own + i] = t[i]
    BY <1>1
  <1>14. \A k \in 0..n : H[k] \subseteq G
    OBVIOUS
  <1>15. c \in Seq(Samples) /\ t \in Seq(Samples) /\ Len(c) = own /\ Len(t) = n
    BY ContentsIs
  <1> HIDE DEF n, G, x, step, own, c, t, H
  <1>3. g \in Steps(G, n)
    BY <1>2 DEF Steps
  <1>4. \E f : f = [k \in 0..n |-> IF k = 0 THEN x ELSE step(f[k - 1], k)]
    <2>1. PICK f \in [0..n -> G] : f[0] = x /\ \A k \in 1..n : f[k] = g[f[k - 1]][k]
      <3>1. RunsOf(G, n, x, g) # {}
        <4> HIDE DEF g
        <4> QED
          BY <1>1, <1>3, Runs
      <3> HIDE DEF g
      <3> QED
        BY <3>1 DEF RunsOf
    <2>2. ASSUME NEW k \in 1..n PROVE f[k] = step(f[k - 1], k)
      <3>1. f[k - 1] \in G
        BY <1>1
      <3> QED
        BY <2>1, <3>1
    <2>3. f = [k \in 0..n |-> IF k = 0 THEN x ELSE step(f[k - 1], k)]
      BY <1>1, <2>1, <2>2
    <2> QED
      BY <2>3
  <1>5. F = [k \in 0..n |-> IF k = 0 THEN x ELSE step(F[k - 1], k)]
    BY <1>4, Zenon
  <1>6. Gathered(d, p, q) = F[n]
    BY DEF Gathered, Repeat, n, x, step, own
  <1> HIDE DEF F
  <1>7. \A k \in 0..n : F[k] \in H[k]
    <2>1. F[0] \in H[0]
      BY <1>1, <1>5
    <2>2. \A k \in 1..n : F[k - 1] \in H[k - 1] => F[k] \in H[k]
      <3> TAKE k \in 1..n
      <3>1. k \in 0..n /\ k # 0 /\ k - 1 \in 0..n
        BY <1>1
      <3>2. F[k] = step(F[k - 1], k)
        BY <1>5, <3>1
      <3> QED
        BY <1>9, <1>14, <3>1, <3>2
    <2> QED
      BY <1>1, <2>1, <2>2, StaysAt, Zenon
  <1> DEFINE e == F[n]
             r == Contents(e, p)
  <1>8. /\ e \in Versions(d, p) /\ e.nsamples[p] = own + n /\ Widened(d, e, p, own + n)
        /\ \A i \in 1..own : r[i] = c[i]
        /\ \A i \in 1..n : r[own + i] = t[i]
    BY <1>1, <1>7, <1>10, <1>11
  <1> HIDE DEF e
  <1>12. r \in Seq(Samples) /\ Len(r) = own + n
    BY <1>8, ContentsIs DEF Versions
  <1> HIDE DEF r
  <1>13. r = c \o t
    <2>1. Joined(c \o t, c, t, Samples)
      BY <1>15, JoinIs
    <2>2. ASSUME NEW k \in 1..Len(r) PROVE r[k] = (c \o t)[k]
      <3>1. CASE k <= own
        BY <1>1, <1>8, <1>12, <1>15, <2>1, <3>1 DEF Joined
      <3>2. CASE ~(k <= own)
        <4>1. k - own \in 1..n /\ own + (k - own) = k /\ k \in 1..(own + n)
          BY <1>1, <1>12, <3>2
        <4>2. r[k] = t[k - own]
          BY <1>8, <4>1
        <4> QED
          BY <1>15, <2>1, <3>2, <4>1, <4>2 DEF Joined
      <3> QED
        BY <3>1, <3>2
    <2> QED
      BY <1>12, <1>15, <2>1, <2>2, SeqEqual DEF Joined
  <1> QED
    BY <1>6, <1>8, <1>13 DEF r, e, c, t, own, n

\* Samples in order, apart, and of different extents meet at their ends only.
LEMMA MeetAtEnds ==
    ASSUME NEW s \in Seq(Samples), Ordered(s), Apart(s), Distinct(s, Len(s) + 1),
           NEW i \in 1..Len(s), NEW j \in 1..Len(s), i < j
    PROVE  s[i].zback <= s[j].z /\ Nearer(s[i], s[j])
  <1>1. /\ s[i] \in Samples /\ s[j] \in Samples
        /\ s[i].z \in Nat /\ s[i].zback \in Nat /\ s[j].z \in Nat /\ s[j].zback \in Nat
        /\ s[i].z <= s[i].zback /\ s[j].z <= s[j].zback
    BY SampleParts
  <1>2. ~Nearer(s[j], s[i])
    BY DEF Ordered
  <1>3. ~SameExtent(s[i], s[j])
    <2> SUFFICES ASSUME SameExtent(s[i], s[j]) PROVE FALSE
      OBVIOUS
    <2>1. i + 1 \in 2..Len(s) /\ i + 1 < Len(s) + 1 /\ i < i + 1 /\ (i + 1) - 1 = i
          /\ i + 1 \in 1..Len(s) /\ (i + 1 = j \/ i + 1 < j)
      OBVIOUS
    <2>2. ~SameExtent(s[i], s[i + 1])
      BY <2>1 DEF Distinct
    <2>3. s[i + 1].z \in Nat /\ s[i + 1].zback \in Nat
      BY <2>1, SampleParts
    <2>4. ~Nearer(s[i + 1], s[i])
      BY <2>1 DEF Ordered
    <2>5. i + 1 = j \/ ~Nearer(s[j], s[i + 1])
      BY <2>1 DEF Ordered
    <2> QED
      BY <1>1, <2>2, <2>3, <2>4, <2>5 DEF Nearer, SameExtent
  <1>4. Nearer(s[i], s[j])
    BY <1>1, <1>2, <1>3 DEF Nearer, SameExtent
  <1>5. ~Straddles(s[i], s[j].z) /\ ~Straddles(s[j], s[i].zback)
    <2>1. \A k \in 1..Len(s) : Uncut(s, s[k].z) /\ Uncut(s, s[k].zback)
      BY DEF Apart, EndsUncut
    <2> QED
      BY <2>1 DEF Uncut
  <1> QED
    BY <1>1, <1>4, <1>5 DEF Nearer, Straddles

\* Samples that are apart stay so in another order.
LEMMA ShuffledApart ==
    ASSUME NEW s \in Seq(Samples), NEW t \in Seq(Samples), Shuffled(t, s), Apart(s)
    PROVE  Apart(t)
  <1>1. PICK o \in [1..Len(s) -> 1..Len(s)] : ShuffledBy(o, t, s)
    BY DEF Shuffled
  <1>2. Len(t) = Len(s) /\ \A k \in 1..Len(t) : o[k] \in 1..Len(s) /\ t[k] = s[o[k]]
    BY <1>1 DEF ShuffledBy
  <1>3. \A x : Uncut(s, x) => Uncut(t, x)
    BY <1>2 DEF Uncut
  <1>4. \A k \in 1..Len(s) : k <= Len(s)
    OBVIOUS
  <1> QED
    BY <1>2, <1>3, <1>4 DEF Apart, EndsUncut

\* Merging pixels: what both saw is seen, in samples that meet at their ends only.
LEMMA MergePixelsDoes ==
    ASSUME NEW d \in Sane, NEW p \in Pixels, NEW q \in Pixels, p # q,
           MergePixels(d, p, q).capacity[p] <= MaxCapacity
    PROVE  LET new == Contents(MergePixels(d, p, q), p) IN
           /\ MergePixels(d, p, q) \in Versions(d, p)
           /\ Image!SeesSame(new, Contents(d, p) \o Contents(d, q))
           /\ \/ Contents(d, p) = <<>> \/ Contents(d, q) = <<>>
              \/ \A i, j \in 1..Len(new) : i < j => new[i].zback <= new[j].z /\ Nearer(new[i], new[j])
  <1> DEFINE a == Gathered(d, p, q)
             b == SortSamples(a, p)
             c == Pieces(b, p)
             e == SortSamples(c, p)
             f == MergeNeighbours(e, p)
             copy == CopyPixel(d, p, q)
             m == MergePixels(d, p, q)
             s == Contents(d, p)
             t == Contents(d, q)
             new == Contents(m, p)
  <1>1. d.nsamples[p] \in Nat /\ d.nsamples[q] \in Nat
    BY Fields
  <1>2. /\ d.nsamples[q] = 0 => m = d
        /\ d.nsamples[q] > 0 /\ d.nsamples[p] = 0 => m = copy
        /\ d.nsamples[q] > 0 /\ d.nsamples[p] > 0 => m = f
    BY <1>1 DEF MergePixels, Pieces
  <1>3. m.capacity[p] <= MaxCapacity
    OBVIOUS
  <1>4. /\ s \in Seq(Samples) /\ t \in Seq(Samples)
        /\ Len(s) = d.nsamples[p] /\ Len(t) = d.nsamples[q]
    BY ContentsIs
  <1> HIDE DEF m, copy, f, s, t
  <1>5. CASE d.nsamples[q] = 0
    <2>1. t = <<>> /\ s \o t = s
      BY <1>4, <1>5
    <2>2. m = d /\ d \in Versions(d, p)
      BY <1>2, <1>5 DEF Versions, Only
    <2>3. Image!SeesSame(s, s)
      BY SeesEquiv
    <2> QED
      BY <2>1, <2>2, <2>3 DEF m, s, t
  <1>6. CASE d.nsamples[q] > 0 /\ d.nsamples[p] = 0
    <2>1. s = <<>> /\ s \o t = t
      BY <1>4, <1>6
    <2>2. m = copy
      BY <1>2, <1>6
    <2>3. copy \in Versions(d, p) /\ Contents(copy, p) = t
      BY CopyPixelIs DEF copy, Versions, t
    <2>4. Image!SeesSame(t, t)
      BY SeesEquiv
    <2> QED
      BY <2>1, <2>2, <2>3, <2>4 DEF m, s, t
  <1>7. CASE d.nsamples[q] > 0 /\ d.nsamples[p] > 0
    <2>1. m = f
      BY <1>2, <1>7
    <2>2. a \in Sane /\ Only(d, a, p) /\ Contents(a, p) = s \o t
      BY GatheredDoes DEF Versions, s, t
    <2> HIDE DEF a
    <2>3. b \in Sane /\ Only(a, b, p) /\ Shuffled(Contents(b, p), Contents(a, p))
      BY <2>2, SortDoes DEF Versions
    <2> HIDE DEF b
    <2>4. /\ c \in Sane /\ Only(b, c, p) /\ Image!SeesSame(Contents(c, p), Contents(b, p))
          /\ c.nsamples[p] <= MaxCapacity => EndsUncut(Contents(c, p), c.nsamples[p])
      BY <2>3, PiecesDo DEF Versions
    <2> HIDE DEF c
    <2>5. /\ e \in Sane /\ Only(c, e, p) /\ e.capacity = c.capacity /\ e.nsamples = c.nsamples
          /\ Shuffled(Contents(e, p), Contents(c, p)) /\ Ordered(Contents(e, p))
      BY <2>4, SortDoes DEF Versions
    <2> HIDE DEF e
    <2>6. /\ f \in Sane /\ Only(e, f, p) /\ f.capacity = e.capacity
          /\ Merged(Contents(f, p), Contents(e, p))
          /\ e.nsamples[p] <= MaxCapacity => Distinct(Contents(f, p), Len(Contents(f, p)) + 1)
      BY <2>5, MergeNeighboursDoes DEF Versions, f
    <2>7. f \in Versions(d, p)
      BY <2>2, <2>3, <2>4, <2>5, <2>6, OnlyBoth DEF Versions
    <2>8. c.nsamples[p] <= MaxCapacity /\ e.nsamples[p] <= MaxCapacity
      <3>1. c.nsamples[p] \in Nat /\ c.capacity[p] \in Nat /\ c.nsamples[p] <= c.capacity[p]
        BY <2>4, Fields
      <3> QED
        BY <1>3, <2>1, <2>5, <2>6, <3>1, Consts
    <2>9. /\ Contents(a, p) \in Seq(Samples) /\ Contents(b, p) \in Seq(Samples)
          /\ Contents(c, p) \in Seq(Samples) /\ Contents(e, p) \in Seq(Samples)
          /\ Contents(f, p) \in Seq(Samples) /\ Len(Contents(c, p)) = c.nsamples[p]
      BY <2>2, <2>3, <2>4, <2>5, <2>6, ContentsIs
    <2>10. Image!SeesSame(Contents(f, p), s \o t)
      <3>1. Image!SeesSame(Contents(b, p), s \o t)
        BY <2>2, <2>3, <2>9, ShuffledSees
      <3>2. Image!SeesSame(Contents(e, p), Contents(c, p))
        BY <2>5, <2>9, ShuffledSees
      <3>3. Image!SeesSame(Contents(f, p), Contents(e, p))
        BY <2>6 DEF Merged
      <3>4. Image!SeesSame(Contents(c, p), s \o t)
        BY <2>4, <3>1, SeesEquiv
      <3>5. Image!SeesSame(Contents(e, p), s \o t)
        BY <3>2, <3>4, SeesEquiv
      <3> QED
        BY <3>3, <3>5, SeesEquiv
    <2>11. Ordered(Contents(f, p)) /\ Apart(Contents(f, p))
           /\ Distinct(Contents(f, p), Len(Contents(f, p)) + 1)
      <3>1. Apart(Contents(c, p))
        BY <2>4, <2>8, <2>9 DEF Apart
      <3>2. Apart(Contents(e, p))
        BY <2>5, <2>9, <3>1, ShuffledApart
      <3> QED
        BY <2>5, <2>6, <2>8, <3>2 DEF Merged
    <2>12. \A i, j \in 1..Len(Contents(f, p)) :
              i < j => /\ Contents(f, p)[i].zback <= Contents(f, p)[j].z
                       /\ Nearer(Contents(f, p)[i], Contents(f, p)[j])
      BY <2>9, <2>11, MeetAtEnds
    <2> HIDE DEF f
    <2> QED
      BY <2>1, <2>7, <2>10, <2>12 DEF m, s, t
  <1> QED
    BY <1>1, <1>5, <1>6, <1>7

\* The ends of the samples of a pixel are depths, and there are no more spots at
\* them than is reserved.
EndsOf(t) == {x \in Depths : \E i \in 1..Len(t) : x = t[i].z \/ x = t[i].zback}
LEMMA SpotsReserved ==
    ASSUME NEW s \in Seq(Samples), NEW r \in Seq(Samples)
    PROVE  LET all == s \o r IN
           /\ EndsIn(all, EndsOf(all)) /\ Reserved(s, r) \in Nat /\ Len(all) <= Reserved(s, r)
           /\ Cardinality(Spots(all, EndsOf(all))) <= Reserved(s, r)
  <1> DEFINE all == s \o r
             D == 1..Len(all)
             Y == EndsOf(all)
             inside(c) == all[c[1]].z < all[c[2]][c[3]] /\ all[c[2]][c[3]] < all[c[1]].zback
             C == {c \in D \X D \X {"z", "zback"} : inside(c)}
             A == {a \in Spots(all, Y) : a[2] = -1}
             B == {a \in Spots(all, Y) : a[2] # -1}
  <1>1. all \in Seq(Samples) /\ Len(all) \in Nat /\ DOMAIN all = D
    OBVIOUS
  <1>2. Reserved(s, r) = Len(all) + Cardinality(C)
    BY <1>1 DEF Reserved
  <1>3. \A i \in D : all[i].z \in Depths /\ all[i].zback \in Depths
    BY <1>1, SampleParts
  <1>4. EndsIn(all, Y)
    BY <1>3 DEF EndsIn, EndsOf
  <1>5. IsFiniteSet(D) /\ Cardinality(D) = Len(all)
    BY <1>1, FS_Interval
  <1>6. IsFiniteSet(C) /\ Cardinality(C) \in Nat
    <2>1. IsFiniteSet(D \X D \X {"z", "zback"})
      <3> DEFINE Z == {"z", "zback"}
                 P == D \X D \X Z
                 Q == (D \X D) \X Z
                 f == [c \in P |-> <<<<c[1], c[2]>>, c[3]>>]
      <3>1. IsFiniteSet(D \X D) /\ IsFiniteSet({"z"}) /\ IsFiniteSet({"zback"})
        BY <1>5, FS_Product, FS_Singleton
      <3>2. IsFiniteSet({"z"} \union {"zback"}) /\ {"z"} \union {"zback"} = Z
        BY <3>1, FS_Union
      <3>3. IsFiniteSet(Q)
        <4> HIDE DEF Z
        <4> QED
          BY <3>1, <3>2, FS_Product
      <3>4. f \in Injection(P, Q)
        <4> HIDE DEF Z, D
        <4>1. \A c \in P : <<<<c[1], c[2]>>, c[3]>> \in Q
          OBVIOUS
        <4>2. \A b, c \in P : <<<<b[1], b[2]>>, b[3]>> = <<<<c[1], c[2]>>, c[3]>> => b = c
          OBVIOUS
        <4> HIDE DEF P, Q
        <4> QED
          BY <4>1, <4>2 DEF Injection, IsInjective
      <3> HIDE DEF f, P, Q
      <3>5. IsFiniteSet(P)
        BY <3>3, <3>4, FS_Injection
      <3> QED
        BY <3>5 DEF P
    <2>2. C \in SUBSET (D \X D \X {"z", "zback"})
      OBVIOUS
    <2> HIDE DEF C
    <2> QED
      BY <2>1, <2>2, FS_Subset, FS_CardinalityType
  <1>7. Spots(all, Y) = A \union B /\ IsFiniteSet(Spots(all, Y)) /\ IsFiniteSet(A) /\ IsFiniteSet(B)
    <2>1. Y \in SUBSET Depths
      BY DEF EndsOf
    <2>2. IsFiniteSet(Spots(all, Y))
      BY <1>1, <2>1, SpotsAre
    <2>3. A \in SUBSET Spots(all, Y) /\ B \in SUBSET Spots(all, Y) /\ Spots(all, Y) = A \union B
      OBVIOUS
    <2> HIDE DEF A, B
    <2> QED
      BY <2>2, <2>3, FS_Subset
  <1>8. Cardinality(A) <= Cardinality(D)
    <2> DEFINE f == [a \in A |-> a[1]]
    <2>1. f \in Injection(A, D)
      <3>1. \A a \in A : a[1] \in D /\ a = <<a[1], -1>>
        BY DEF Spots
      <3> HIDE DEF A, D
      <3> QED
        BY <3>1 DEF Injection, IsInjective
    <2> HIDE DEF f, A, D
    <2> QED
      BY <1>5, <2>1, FS_Injection
  <1>9. Cardinality(B) <= Cardinality(C)
    <2> DEFINE Cause(a, c) == c[1] = a[1] /\ all[c[2]][c[3]] = a[2]
               f == [a \in B |-> CHOOSE c \in C : Cause(a, c)]
    <2>1. ASSUME NEW a \in B PROVE \E c \in C : Cause(a, c)
      <3>1. a[1] \in D /\ a[2] \in Y /\ Straddles(all[a[1]], a[2])
        BY DEF Spots
      <3>2. PICK j \in D : a[2] = all[j].z \/ a[2] = all[j].zback
        BY <3>1 DEF EndsOf
      <3>3. CASE a[2] = all[j].z
        <4>1. <<a[1], j, "z">> \in C
          BY <3>1, <3>3 DEF Straddles
        <4> HIDE DEF C
        <4> QED
          BY <3>3, <4>1
      <3>4. CASE a[2] = all[j].zback
        <4>1. <<a[1], j, "zback">> \in C
          BY <3>1, <3>4 DEF Straddles
        <4> HIDE DEF C
        <4> QED
          BY <3>4, <4>1
      <3> QED
        BY <3>2, <3>3, <3>4
    <2>2. \A a \in B : a = <<a[1], a[2]>>
      BY DEF Spots
    <2> HIDE DEF B, C, Cause
    <2>3. \A a \in B : f[a] \in C /\ Cause(a, f[a])
      BY <2>1
    <2>4. ASSUME NEW a \in B, NEW b \in B, f[a] = f[b] PROVE a = b
      <3> HIDE DEF f
      <3>1. Cause(a, f[a]) /\ Cause(b, f[a])
        BY <2>3, <2>4
      <3>2. \A c : Cause(a, c) /\ Cause(b, c) => a[1] = b[1] /\ a[2] = b[2]
        BY DEF Cause
      <3> QED
        BY <2>2, <3>1, <3>2
    <2>5. f \in [B -> C]
      <3>1. \A a \in B : (CHOOSE c \in C : Cause(a, c)) \in C
        BY <2>1
      <3> QED
        BY <3>1
    <2> HIDE DEF f
    <2>6. f \in Injection(B, C)
      BY <2>4, <2>5 DEF Injection, IsInjective
    <2> QED
      BY <1>6, <2>6, FS_Injection
  <1>10. Cardinality(Spots(all, Y)) <= Cardinality(A) + Cardinality(B)
    <2> HIDE DEF A, B
    <2>1. /\ Cardinality(A \union B) = Cardinality(A) + Cardinality(B) - Cardinality(A \cap B)
          /\ IsFiniteSet(A \cap B)
      BY <1>7, FS_Union, FS_Intersection
    <2>2. Cardinality(A \cap B) \in Nat /\ Cardinality(A) \in Nat /\ Cardinality(B) \in Nat
      BY <1>7, <2>1, FS_CardinalityType
    <2> QED
      BY <1>7, <2>1, <2>2
  <1>11. /\ Cardinality(A) \in Nat /\ Cardinality(B) \in Nat
         /\ Cardinality(Spots(all, Y)) \in Nat
    BY <1>7, FS_CardinalityType
  <1> HIDE DEF A, B, C, D, all, Y
  <1>12. Reserved(s, r) \in Nat /\ Len(all) <= Reserved(s, r)
    BY <1>1, <1>2, <1>6
  <1>13. Cardinality(Spots(all, Y)) <= Reserved(s, r)
    BY <1>1, <1>2, <1>5, <1>6, <1>8, <1>9, <1>10, <1>11
  <1> QED
    BY <1>4, <1>12, <1>13 DEF all, Y

\* A merge that reserves no more capacity than that has enough.
LEMMA MergeCapacity ==
    ASSUME NEW d \in Sane, NEW p \in Pixels, NEW q \in Pixels, p # q
    PROVE  LET m == MergePixels(d, p, q) IN
           Widened(d, m, p, Reserved(Contents(d, p), Contents(d, q)))
  <1> DEFINE a == Gathered(d, p, q)
             b == SortSamples(a, p)
             c == Pieces(b, p)
             e == SortSamples(c, p)
             f == MergeNeighbours(e, p)
             copy == CopyPixel(d, p, q)
             m == MergePixels(d, p, q)
             s == Contents(d, p)
             r == Contents(d, q)
             all == s \o r
             Y == EndsOf(all)
  <1>1. /\ d.nsamples[p] \in Nat /\ d.nsamples[q] \in Nat /\ s \in Seq(Samples) /\ r \in Seq(Samples)
        /\ Len(s) = d.nsamples[p] /\ Len(r) = d.nsamples[q] /\ Len(all) = d.nsamples[p] + d.nsamples[q]
    BY Fields, ContentsIs
  <1>2. /\ d.nsamples[q] = 0 => m = d
        /\ d.nsamples[q] > 0 /\ d.nsamples[p] = 0 => m = copy
        /\ d.nsamples[q] > 0 /\ d.nsamples[p] > 0 => m = f
    BY <1>1 DEF MergePixels, Pieces
  <1> HIDE DEF s, r
  <1>3. /\ EndsIn(all, Y) /\ Reserved(s, r) \in Nat /\ Len(all) <= Reserved(s, r)
        /\ Cardinality(Spots(all, Y)) <= Reserved(s, r)
    BY <1>1, SpotsReserved
  <1>4. Y \in SUBSET Depths
    BY DEF EndsOf
  <1> HIDE DEF m, copy, f, all, Y
  <1>5. ASSUME d.nsamples[q] = 0 PROVE Widened(d, m, p, Reserved(s, r))
    BY <1>2, <1>5 DEF Widened
  <1>6. ASSUME d.nsamples[q] > 0, d.nsamples[p] = 0
        PROVE  Widened(d, m, p, Reserved(s, r))
    <2>1. Widened(d, copy, p, d.nsamples[q])
      BY CapacityCopied DEF copy
    <2>2. d.nsamples[q] <= Reserved(s, r)
      BY <1>1, <1>3, <1>6
    <2>3. copy.capacity[p] = d.capacity[p] \/ copy.capacity[p] <= Reserved(s, r)
      <3>1. copy \in Sane
        BY CopyPixelIs DEF copy
      <3>2. copy.capacity[p] \in Nat
        BY <3>1, Fields
      <3> QED
        BY <1>1, <1>3, <2>1, <2>2, <3>2 DEF Widened
    <2> QED
      BY <1>2, <1>6, <2>1, <2>3 DEF Widened
  <1>7. ASSUME d.nsamples[q] > 0, d.nsamples[p] > 0
        PROVE  Widened(d, m, p, Reserved(s, r))
    <2>1. /\ a \in Sane /\ Contents(a, p) = all /\ Widened(d, a, p, d.nsamples[p] + d.nsamples[q])
      BY GatheredDoes DEF Versions, all, s, r
    <2> HIDE DEF a
    <2>2. /\ b \in Sane /\ b.capacity = a.capacity /\ b.nsamples = a.nsamples
          /\ Shuffled(Contents(b, p), all)
      BY <2>1, SortDoes DEF Versions
    <2> HIDE DEF b
    <2>3. c \in Sane /\ Thrifty(b, c, p, {})
      BY <2>2, PiecesDo DEF Versions
    <2> HIDE DEF c
    <2>4. e \in Sane /\ e.capacity = c.capacity
      BY <2>3, SortDoes DEF Versions
    <2> HIDE DEF e
    <2>5. f.capacity = e.capacity
      BY <2>4, MergeNeighboursDoes DEF f
    <2>6. /\ Contents(b, p) \in Seq(Samples) /\ Contents(c, p) \in Seq(Samples) /\ all \in Seq(Samples)
          /\ Len(Contents(c, p)) = c.nsamples[p]
      BY <2>1, <2>2, <2>3, ContentsIs
    <2>7. EndsIn(Contents(b, p), Y) /\
          Cardinality(Spots(Contents(b, p), Y)) <= Cardinality(Spots(all, Y))
      BY <1>3, <1>4, <2>2, <2>6, SpotsShuffled
    <2>8. Cardinality(Spots(Contents(c, p), Y)) <= Cardinality(Spots(Contents(b, p), Y))
      BY <1>4, <2>3, <2>7 DEF Thrifty
    <2>9. /\ Cardinality(Spots(all, Y)) \in Nat /\ Cardinality(Spots(Contents(b, p), Y)) \in Nat
          /\ Cardinality(Spots(Contents(c, p), Y)) \in Nat
          /\ Len(Contents(c, p)) <= Cardinality(Spots(Contents(c, p), Y))
      BY <1>4, <2>6, SpotsAre
    <2>10. c.nsamples[p] \in Nat /\ c.capacity[p] \in Nat /\ b.capacity[p] \in Nat
      BY <2>2, <2>3, Fields
    <2>11. c.nsamples[p] <= Reserved(s, r)
      BY <1>3, <2>6, <2>7, <2>8, <2>9, <2>10
    <2>12. Widened(b, c, p, c.nsamples[p])
      BY <2>3 DEF Thrifty
    <2>13. c.capacity[p] = d.capacity[p] \/ c.capacity[p] <= Reserved(s, r)
      BY <1>1, <1>3, <2>1, <2>2, <2>10, <2>11, <2>12 DEF Widened
    <2>14. \A x \in Pixels : x # p => c.capacity[x] = d.capacity[x]
      BY <2>1, <2>2, <2>12 DEF Widened
    <2> QED
      BY <1>2, <1>7, <2>4, <2>5, <2>13, <2>14 DEF Widened
  <1>8. Widened(d, m, p, Reserved(s, r))
    BY <1>1, <1>5, <1>6, <1>7
  <1> QED
    BY <1>8 DEF m, s, r

-----------------------------------------------------------------------------
(* The operations that are made of others                                    *)

\* Merging pixels.
LEMMA MergePixelsIs ==
    ASSUME NEW d \in Sane, NEW p \in Pixels, NEW q \in Pixels, p # q
    PROVE  MergePixels(d, p, q) \in Versions(d, p)
  <1> DEFINE a == Gathered(d, p, q)
             b == SortSamples(a, p)
             c == Pieces(b, p)
             e == SortSamples(c, p)
             f == MergeNeighbours(e, p)
             copy == CopyPixel(d, p, q)
             m == MergePixels(d, p, q)
  <1>1. d.nsamples[p] \in Nat /\ d.nsamples[q] \in Nat
    BY Fields
  <1>2. /\ d.nsamples[q] = 0 => m = d
        /\ d.nsamples[q] > 0 /\ d.nsamples[p] = 0 => m = copy
        /\ d.nsamples[q] > 0 /\ d.nsamples[p] > 0 => m = f
    BY <1>1 DEF MergePixels, Pieces
  <1> HIDE DEF m, copy, f
  <1>3. copy \in Versions(d, p)
    BY CopyPixelIs DEF copy, Versions
  <1>4. a \in Sane /\ Only(d, a, p)
    BY GatheredDoes DEF Versions
  <1> HIDE DEF a
  <1>5. b \in Sane /\ Only(a, b, p)
    BY <1>4, SortDoes DEF Versions
  <1> HIDE DEF b
  <1>6. c \in Sane /\ Only(b, c, p)
    BY <1>5, PiecesDo DEF Versions
  <1> HIDE DEF c
  <1>7. e \in Sane /\ Only(c, e, p)
    BY <1>6, SortDoes DEF Versions
  <1> HIDE DEF e
  <1>8. f \in Sane /\ Only(e, f, p)
    BY <1>7, MergeNeighboursDoes DEF Versions, f
  <1>9. f \in Versions(d, p)
    BY <1>4, <1>5, <1>6, <1>7, <1>8, OnlyBoth DEF Versions
  <1>10. d \in Versions(d, p)
    BY DEF Versions, Only
  <1>11. m \in Versions(d, p)
    BY <1>1, <1>2, <1>3, <1>9, <1>10
  <1> QED
    BY <1>11 DEF m

\* The first of some samples.
LEMMA FirstOf ==
    ASSUME NEW n \in Nat, NEW S \in SUBSET (1..n), S # {}
    PROVE  /\ Min(S) \in S /\ Min(S) \in Nat \ {0} /\ Min(S) <= n /\ Min(S) - 1 \in Nat
           /\ \A i \in S : Min(S) <= i
  <1>1. S \in SUBSET Nat
    OBVIOUS
  <1>2. Min(S) \in S /\ \A i \in S : Min(S) <= i
    BY <1>1, MinOf
  <1>3. Min(S) \in 1..n
    BY <1>2
  <1>4. Min(S) \in Nat \ {0} /\ Min(S) <= n /\ Min(S) - 1 \in Nat
    BY <1>3
  <1> QED
    BY <1>2, <1>4

\* Culling what is behind the first opaque sample.
LEMMA CullIs ==
    ASSUME NEW d \in Sane, NEW p \in Pixels
    PROVE  OcclusionCull(d, p) \in Versions(d, p)
  <1> DEFINE opaque == {i \in 1..d.nsamples[p] : Value(d, p, i).opaque}
             less == SetSamples(d, p, Min(opaque))
  <1>1. d \in Versions(d, p)
    BY DEF Versions, Only
  <1>2. ASSUME opaque # {} PROVE less \in Versions(d, p)
    <2>1. d.nsamples[p] \in Nat /\ opaque \in SUBSET (1..d.nsamples[p])
      BY Fields
    <2> HIDE DEF opaque
    <2>2. Min(opaque) \in Nat
      BY <1>2, <2>1, FirstOf
    <2> QED
      BY <2>2, SetSamplesIs DEF Versions, Counted
  <1> QED
    BY <1>1, <1>2 DEF OcclusionCull

\* Removing all from the first of some samples on.
LEMMA DiscardedIs ==
    ASSUME NEW d \in Sane, NEW p \in Pixels, NEW far \in SUBSET (1..d.nsamples[p])
    PROVE  Discarded(d, p, far) \in Versions(d, p)
  <1>1. d \in Versions(d, p)
    BY DEF Versions, Only
  <1>2. ASSUME far # {} PROVE SetSamples(d, p, Min(far) - 1) \in Versions(d, p)
    <2>1. Min(far) - 1 \in Nat
      BY <1>2, Fields, FirstOf
    <2> PICK n \in Nat : n = Min(far) - 1
      BY <2>1
    <2>2. SetSamples(d, p, n) \in Versions(d, p)
      BY SetSamplesIs DEF Versions, Counted
    <2> QED
      BY <2>2
  <1> QED
    BY <1>1, <1>2 DEF Discarded

\* Holding out.
LEMMA HeldOutIs ==
    ASSUME NEW d \in Sane, d.allocated, NEW p \in Pixels, NEW q \in Pixels, p # q,
           NEW depth \in Depths
    PROVE  HeldOut(d, p, q, depth) \in Versions(d, p)
  <1> DEFINE room == SetCapacity(d, p, d.capacity[q])
             copy == CopyPixel(room, p, q)
             near == Discarded(copy, p, Beyond(copy, p, "z", depth))
             pieces == SplitAt(near, p, depth)
             less == Discarded(pieces, p, Beyond(pieces, p, "zback", depth))
             h == HeldOut(d, p, q, depth)
  <1>1. h = IF pieces = near THEN near ELSE less
    BY DEF HeldOut
  <1> HIDE DEF h
  <1>2. d.capacity[q] \in Nat
    BY Fields
  <1>3. room \in Sane /\ Roomier(d, room, p, d.capacity[q])
    BY <1>2, SetCapacityIs
  <1>4. Only(d, room, p)
    BY <1>3 DEF Roomier, Only
  <1> HIDE DEF room
  <1>5. copy \in Sane /\ Only(room, copy, p)
    BY <1>3, CopyPixelIs
  <1> HIDE DEF copy
  <1>6. Beyond(copy, p, "z", depth) \in SUBSET (1..copy.nsamples[p])
    BY DEF Beyond
  <1>7. near \in Sane /\ Only(copy, near, p)
    BY <1>5, <1>6, DiscardedIs DEF Versions
  <1> HIDE DEF near
  <1>8. pieces \in Sane /\ Only(near, pieces, p)
    BY <1>7, SplitAtDoes DEF Versions
  <1> HIDE DEF pieces
  <1>9. Beyond(pieces, p, "zback", depth) \in SUBSET (1..pieces.nsamples[p])
    BY DEF Beyond
  <1>10. less \in Sane /\ Only(pieces, less, p)
    BY <1>8, <1>9, DiscardedIs DEF Versions
  <1> HIDE DEF less
  <1>11. Only(d, near, p) /\ Only(d, less, p)
    BY <1>4, <1>5, <1>7, <1>8, <1>10, OnlyBoth
  <1>12. h \in Versions(d, p)
    BY <1>1, <1>7, <1>10, <1>11 DEF Versions
  <1> QED
    BY <1>12 DEF h

\* Setting the numbers of samples of all pixels, before the array is there.
LEMMA CountsIs ==
    ASSUME NEW d \in Sane, ~d.allocated, NEW n \in Numbers
    PROVE  SetAllSamples(d, n) \in Sane /\ SetAllSamples(d, n).nsamples = n
  <1> DEFINE e == [d EXCEPT !.nsamples = n, !.capacity = n]
  <1>1. SetAllSamples(d, n) = e
    BY DEF SetAllSamples
  <1>2. e \in Data /\ e.nsamples = n /\ e.capacity = n /\ e.allocated = d.allocated
    BY Fields DEF Data
  <1> HIDE DEF e
  <1>3. \A p \in Pixels : n[p] <= n[p]
    BY DEF Numbers
  <1>4. e \in Sane
    BY <1>2, <1>3 DEF Sane, Laid
  <1> QED
    BY <1>1, <1>2, <1>4

\* Setting the numbers of samples of all pixels.
LEMMA SetAllSamplesIs ==
    ASSUME NEW d \in Sane, NEW c \in Numbers
    PROVE  SetAllSamples(d, c) \in Sane /\ (d.allocated => SetAllSamples(d, c).allocated)
  <1>1. CASE ~d.allocated
    BY <1>1, CountsIs
  <1>2. CASE d.allocated
    <2> DEFINE n == NPixels
               G == {e \in Sane : e.allocated}
               x == d
               step(l, k) == SetSamples(l, k, c[k])
               g == [l \in G |-> [k \in 1..n |-> step(l, k)]]
               F == CHOOSE f : f = [k \in 0..n |-> IF k = 0 THEN x ELSE step(f[k - 1], k)]
    <2>1. n \in Nat /\ x \in G
      BY <1>2, Consts
    <2>2. ASSUME NEW l \in G, NEW k \in 1..n PROVE step(l, k) \in G
      <3>1. l \in Sane /\ l.allocated /\ k \in Pixels /\ c[k] \in Nat
        BY Consts DEF Numbers
      <3>2. step(l, k) \in Sane /\ Counted(l, step(l, k), k, c[k])
        BY <3>1, SetSamplesIs
      <3> QED
        BY <3>1, <3>2 DEF Counted
    <2> HIDE DEF n, G, x, step
    <2>3. g \in Steps(G, n)
      BY <2>2 DEF Steps
    <2>4. \E f : f = [k \in 0..n |-> IF k = 0 THEN x ELSE step(f[k - 1], k)]
      <3>1. PICK f \in [0..n -> G] : f[0] = x /\ \A k \in 1..n : f[k] = g[f[k - 1]][k]
        <4>1. RunsOf(G, n, x, g) # {}
          <5> HIDE DEF g
          <5> QED
            BY <2>1, <2>3, Runs
        <4> HIDE DEF g
        <4> QED
          BY <4>1 DEF RunsOf
      <3>2. ASSUME NEW k \in 1..n PROVE f[k] = step(f[k - 1], k)
        <4>1. f[k - 1] \in G
          BY <2>1
        <4> QED
          BY <3>1, <4>1
      <3>3. f = [k \in 0..n |-> IF k = 0 THEN x ELSE step(f[k - 1], k)]
        BY <2>1, <3>1, <3>2
      <3> QED
        BY <3>3
    <2>5. F = [k \in 0..n |-> IF k = 0 THEN x ELSE step(F[k - 1], k)]
      BY <2>4, Zenon
    <2>6. SetAllSamples(d, c) = F[n]
      BY <1>2 DEF SetAllSamples, Repeat, n, x, step
    <2> HIDE DEF F
    <2>7. \A k \in 0..n : F[k] \in G
      <3>1. F[0] \in G
        BY <2>1, <2>5
      <3>2. \A k \in 1..n : F[k - 1] \in G => F[k] \in G
        <4> TAKE k \in 1..n
        <4>1. k \in 0..n /\ k # 0
          BY <2>1
        <4>2. F[k] = step(F[k - 1], k)
          BY <2>5, <4>1
        <4> QED
          BY <2>2, <4>2
      <3> QED
        BY <2>1, <3>1, <3>2, Stays, Zenon
    <2>8. F[n] \in G
      BY <2>1, <2>7
    <2> QED
      BY <2>6, <2>8 DEF G
  <1> QED
    BY <1>1, <1>2

\* Filling all pixels.
Filled(d, s) == Repeat(LAMBDA l, p : Over(l, p, 1, s[p]), NPixels, d)

\* Then every pixel holds what it was filled with.
LEMMA FilledIs ==
    ASSUME NEW d \in Sane, d.allocated, NEW s, \A p \in Pixels : s[p] \in Seq(Samples),
           \A p \in Pixels : d.nsamples[p] = Len(s[p])
    PROVE  Filled(d, s) \in Sane /\ Filled(d, s).allocated
  <1> DEFINE n == NPixels
             G == {e \in Sane : e.allocated /\ e.nsamples = d.nsamples}
             x == d
             step(l, k) == Over(l, k, 1, s[k])
             g == [l \in G |-> [k \in 1..n |-> step(l, k)]]
             F == CHOOSE f : f = [k \in 0..n |-> IF k = 0 THEN x ELSE step(f[k - 1], k)]
  <1>1. n \in Nat /\ x \in G
    BY Consts
  <1>2. ASSUME NEW l \in G, NEW k \in 1..n PROVE step(l, k) \in G
    <2>1. /\ l \in Sane /\ l.allocated /\ l.nsamples = d.nsamples /\ k \in Pixels
          /\ s[k] \in Seq(Samples) /\ Len(s[k]) = l.nsamples[k]
      BY Consts
    <2>2. Alloc(l) = l
      BY <2>1 DEF Alloc
    <2> QED
      BY <2>1, <2>2, FillIs
  <1> HIDE DEF n, G, x, step
  <1>3. g \in Steps(G, n)
    BY <1>2 DEF Steps
  <1>4. \E f : f = [k \in 0..n |-> IF k = 0 THEN x ELSE step(f[k - 1], k)]
    <2>1. PICK f \in [0..n -> G] : f[0] = x /\ \A k \in 1..n : f[k] = g[f[k - 1]][k]
      <3>1. RunsOf(G, n, x, g) # {}
        <4> HIDE DEF g
        <4> QED
          BY <1>1, <1>3, Runs
      <3> HIDE DEF g
      <3> QED
        BY <3>1 DEF RunsOf
    <2>2. ASSUME NEW k \in 1..n PROVE f[k] = step(f[k - 1], k)
      <3>1. f[k - 1] \in G
        BY <1>1
      <3> QED
        BY <2>1, <3>1
    <2>3. f = [k \in 0..n |-> IF k = 0 THEN x ELSE step(f[k - 1], k)]
      BY <1>1, <2>1, <2>2
    <2> QED
      BY <2>3
  <1>5. F = [k \in 0..n |-> IF k = 0 THEN x ELSE step(F[k - 1], k)]
    BY <1>4, Zenon
  <1>6. Filled(d, s) = F[n]
    BY DEF Filled, Repeat, n, x, step
  <1> HIDE DEF F
  <1>7. \A k \in 0..n : F[k] \in G
    <2>1. F[0] \in G
      BY <1>1, <1>5
    <2>2. \A k \in 1..n : F[k - 1] \in G => F[k] \in G
      <3> TAKE k \in 1..n
      <3>1. k \in 0..n /\ k # 0
        BY <1>1
      <3>2. F[k] = step(F[k - 1], k)
        BY <1>5, <3>1
      <3> QED
        BY <1>2, <3>2
    <2> QED
      BY <1>1, <2>1, <2>2, Stays, Zenon
  <1>8. F[n] \in G
    BY <1>1, <1>7
  <1> QED
    BY <1>6, <1>8 DEF G

-----------------------------------------------------------------------------
(* The invariant                                                             *)

\* The image is laid out as it should be, within its bounds, and is not
\* allocated before the first call.
IInv ==
    /\ dd \in Sane /\ \A p \in Pixels : dd.capacity[p] <= MaxCapacity
    /\ calls \in 0..MaxCalls /\ (calls = 0 => ~dd.allocated)

\* The image of which nothing was set.
LEMMA InitIInv == Init => IInv
  <1> SUFFICES ASSUME Init PROVE IInv
    OBVIOUS
  <1>1. /\ dd.nsamples = [p \in Pixels |-> 0] /\ dd.capacity = [p \in Pixels |-> 0]
        /\ dd.cumcapacity = [p \in Pixels |-> 0] /\ dd.data = <<>> /\ dd.allocated = FALSE
        /\ dd \in Data
    BY DEF Init, Data, Numbers
  <1>2. dd \in Sane
    BY <1>1 DEF Sane, Laid
  <1> QED
    BY <1>1, <1>2, Consts DEF Init, IInv

\* A call that leads to a layout as it should be keeps the invariant.
LEMMA CallKeeps ==
    ASSUME IInv, NEW p, NEW name, NEW a, NEW b, NEW new, Call(p, name, a, b, new), new \in Sane
    PROVE  IInv'
  <1>1. /\ dd' = new /\ calls' = calls + 1 /\ calls < MaxCalls /\ calls \in 0..MaxCalls
        /\ \A q \in Pixels : new.capacity[q] <= MaxCapacity
    BY DEF Call, IInv
  <1>2. calls' \in 0..MaxCalls /\ calls' # 0
    BY <1>1, Consts
  <1> QED
    BY <1>1, <1>2 DEF IInv

\* An image that is read.
LEMMA LoadKeeps ==
    ASSUME IInv, NEW s \in [Pixels -> Loaded], Load(s)
    PROVE  IInv'
  <1> DEFINE counts == [p \in Pixels |-> Len(s[p])]
             all == SetAllSamples(dd, counts)
             room == Alloc(all)
             new == Filled(room, s)
  <1>1. Call(s, "load", 0, 0, new) /\ calls = 0
    BY DEF Load, Filled
  <1> HIDE DEF new
  <1>2. dd \in Sane /\ ~dd.allocated
    BY <1>1 DEF IInv
  <1>3. \A p \in Pixels : s[p] \in Seq(Samples)
    BY Consts
  <1>4. counts \in Numbers /\ \A p \in Pixels : counts[p] = Len(s[p])
    BY <1>3 DEF Numbers
  <1> HIDE DEF counts
  <1>5. all \in Sane /\ all.nsamples = counts
    BY <1>2, <1>4, CountsIs
  <1> HIDE DEF all
  <1>6. room \in Sane /\ room.allocated /\ room.nsamples = counts
    BY <1>5, AllocKeeps
  <1> HIDE DEF room
  <1>7. new \in Sane
    <2>1. \A p \in Pixels : room.nsamples[p] = Len(s[p])
      BY <1>4, <1>6
    <2> QED
      BY <1>3, <1>6, <2>1, FilledIs DEF new
  <1> QED
    BY <1>1, <1>7, CallKeeps

\* The calls on one pixel.
PixelCall(p) ==
    \/ \E a \in 0..MaxCapacity, n \in 1..MaxSamples : Insert(p, a, n) \/ Erase(p, a, n)
    \/ \E n \in 0..MaxSamples : Resize(p, n) \/ Reserve(p, n)
    \/ \E i \in 1..MaxCapacity, v \in Written : Write(p, i, v)
    \/ \E q \in Pixels : Copy(p, q) \/ Merge(p, q)
    \/ \E u \in Depths : Split(p, u) \/ \E q \in Pixels : Holdout(p, q, u)
    \/ Sort(p) \/ MergeOverlaps(p) \/ Cull(p)

\* Each of them leads to a version of the image in which only p's samples are others.
LEMMA PixelCallIs ==
    ASSUME dd \in Sane, NEW p \in Pixels, PixelCall(p)
    PROVE  \E name, a, b : \E new \in Versions(dd, p) : Call(p, name, a, b, new)
  <1>1. MaxSamples \in Nat /\ 0..MaxSamples \subseteq Nat /\ 1..MaxSamples \subseteq Nat
    BY DeepAssumption
  <1>2. ASSUME NEW pos \in 0..MaxCapacity, NEW n \in 1..MaxSamples, Insert(p, pos, n)
        PROVE  InsertSamples(dd, p, pos, n) \in Versions(dd, p)
    <2>1. pos \in 0..dd.nsamples[p] /\ n \in Nat
      BY <1>1, <1>2, Fields DEF Insert
    <2> QED
      BY <2>1, InsertIs DEF Versions, Opened
  <1>3. ASSUME NEW pos \in 0..MaxCapacity, NEW n \in 1..MaxSamples, Erase(p, pos, n)
        PROVE  EraseSamples(dd, p, pos, n) \in Versions(dd, p)
    <2>1. pos \in Nat /\ n \in Nat /\ pos + n <= dd.nsamples[p]
      BY <1>1, <1>3 DEF Erase
    <2> QED
      BY <2>1, EraseIs DEF Versions, Closed
  <1>4. ASSUME NEW n \in 0..MaxSamples, Resize(p, n)
        PROVE  SetSamples(dd, p, n) \in Versions(dd, p)
    BY <1>1, SetSamplesIs DEF Versions, Counted
  <1>5. ASSUME NEW n \in 0..MaxSamples, Reserve(p, n)
        PROVE  SetCapacity(dd, p, n) \in Versions(dd, p)
    <2>1. n \in Nat /\ (dd.allocated \/ n >= dd.nsamples[p])
      BY <1>1, <1>5 DEF Reserve
    <2> QED
      BY <2>1, SetCapacityIs DEF Versions, Roomier, Only
  <1>6. ASSUME NEW i \in 1..MaxCapacity, NEW v \in Written, Write(p, i, v)
        PROVE  Put(dd, p, i, v) \in Versions(dd, p)
    <2>1. i \in 1..dd.nsamples[p] /\ v \in Samples
      BY <1>6, Consts DEF Write
    <2> QED
      BY <2>1, PutIs DEF Versions, Replaced
  <1>7. ASSUME NEW q \in Pixels, p # q
        PROVE  /\ CopyPixel(dd, p, q) \in Versions(dd, p)
               /\ MergePixels(dd, p, q) \in Versions(dd, p)
               /\ \A u \in Depths : dd.allocated => HeldOut(dd, p, q, u) \in Versions(dd, p)
    BY <1>7, CopyPixelIs, MergePixelsIs, HeldOutIs DEF Versions
  <1>8. /\ \A u \in Depths : SplitAt(dd, p, u) \in Versions(dd, p)
        /\ SortSamples(dd, p) \in Versions(dd, p)
        /\ MergeNeighbours(dd, p) \in Versions(dd, p)
        /\ OcclusionCull(dd, p) \in Versions(dd, p)
    BY SplitAtDoes, SortDoes, MergeNeighboursDoes, CullIs
  <1>9. CASE \E a \in 0..MaxCapacity, n \in 1..MaxSamples : Insert(p, a, n) \/ Erase(p, a, n)
    BY <1>2, <1>3, <1>9 DEF Insert, Erase
  <1>10. CASE \E n \in 0..MaxSamples : Resize(p, n) \/ Reserve(p, n)
    BY <1>4, <1>5, <1>10 DEF Resize, Reserve
  <1>11. CASE \E i \in 1..MaxCapacity, v \in Written : Write(p, i, v)
    BY <1>6, <1>11 DEF Write
  <1>12. CASE \E q \in Pixels : Copy(p, q) \/ Merge(p, q)
    BY <1>7, <1>12 DEF Copy, Merge
  <1>13. CASE \E u \in Depths : Split(p, u) \/ \E q \in Pixels : Holdout(p, q, u)
    BY <1>7, <1>8, <1>13 DEF Split, Holdout
  <1>14. CASE Sort(p) \/ MergeOverlaps(p) \/ Cull(p)
    BY <1>8, <1>14 DEF Sort, MergeOverlaps, Cull
  <1> QED
    BY <1>9, <1>10, <1>11, <1>12, <1>13, <1>14 DEF PixelCall

\* The invariant is kept.
LEMMA NextIInv == IInv /\ [Next]_vars => IInv'
  <1> SUFFICES ASSUME IInv, [Next]_vars PROVE IInv'
    OBVIOUS
  <1>1. dd \in Sane
    BY DEF IInv
  <1>2. CASE GetPointers
    <2>1. Alloc(dd) \in Sane /\ Alloc(dd).capacity = dd.capacity
      BY <1>1, AllocIs
    <2>2. calls' \in 0..MaxCalls /\ calls' # 0
      BY <1>2, Consts DEF GetPointers, IInv
    <2> QED
      BY <1>2, <2>1, <2>2 DEF GetPointers, IInv
  <1>3. ASSUME NEW s \in [Pixels -> Loaded], Load(s) PROVE IInv'
    BY <1>3, LoadKeeps
  <1>4. ASSUME NEW n \in [Pixels -> 0..MaxSamples], ResizeAll(n) PROVE IInv'
    <2>1. n \in Numbers
      BY DeepAssumption DEF Numbers
    <2>2. SetAllSamples(dd, n) \in Sane
      BY <1>1, <2>1, SetAllSamplesIs
    <2> QED
      BY <1>4, <2>2, CallKeeps DEF ResizeAll
  <1>5. ASSUME NEW p \in Pixels, PixelCall(p) PROVE IInv'
    <2>1. PICK name, a, b : \E new \in Versions(dd, p) : Call(p, name, a, b, new)
      BY <1>1, <1>5, PixelCallIs
    <2> QED
      BY <2>1, CallKeeps DEF Versions
  <1>6. CASE UNCHANGED vars
    BY <1>6 DEF vars, IInv
  <1> QED
    BY <1>2, <1>3, <1>4, <1>5, <1>6 DEF Next, PixelCall

\* The invariant holds.
LEMMA IInvHolds == Spec => []IInv
  BY InitIInv, NextIInv, PTL DEF Spec

\* The types are as they should be: no call writes a value that is no sample,
\* or sets a number that is no number of samples (deepdata.cpp throughout).
THEOREM TypesOK == Spec => []TypeOK
  <1>1. IInv => TypeOK
    <2> SUFFICES ASSUME IInv PROVE TypeOK
      OBVIOUS
    <2>1. dd \in Sane /\ calls \in 0..MaxCalls /\ \A p \in Pixels : dd.capacity[p] <= MaxCapacity
      BY DEF IInv
    <2>2. DOMAIN dd = {"nsamples", "capacity", "cumcapacity", "data", "allocated"}
      BY <2>1, Fields DEF Data
    <2>3. /\ dd.nsamples \in [Pixels -> Nat] /\ dd.capacity \in [Pixels -> Nat]
          /\ dd.cumcapacity \in [Pixels -> Nat] /\ dd.allocated \in BOOLEAN
          /\ dd.data \in Seq(Samples)
      BY <2>1, Fields DEF Numbers
    <2>4. dd.capacity \in [Pixels -> 0..MaxCapacity]
      <3>1. \A p \in Pixels : dd.capacity[p] \in 0..MaxCapacity
        BY <2>1, <2>3, Consts
      <3> QED
        BY <2>3, <3>1
    <2>5. \A i \in DOMAIN dd.data : dd.data[i] \in Samples
      BY <2>3
    <2> QED
      BY <2>1, <2>2, <2>3, <2>4, <2>5 DEF TypeOK
  <1> QED
    BY <1>1, IInvHolds, PTL

\* What sanity() asserts (deepdata.cpp:269-289) holds after every call: the
\* pixels lie in the array without gaps, none beyond its capacity.
THEOREM SanityHolds == Spec => []Sanity
  <1>1. IInv => Sanity
    BY Fields DEF IInv, Sane, Laid, Sanity
  <1> QED
    BY <1>1, IInvHolds, PTL

\* A call on one pixel changes no other pixel's samples.
OwnPixelOnly ==
    [][last'[1] \notin {"load", "resize all"} =>
          \A q \in Pixels : q # last'[2] => Contents(dd', q) = Contents(dd, q)]_vars

\* It does not, although a pixel that grows moves the later ones in the array:
\* what callers of the per-pixel operations of deepdata.cpp rely on.
THEOREM OthersKept == Spec => OwnPixelOnly
  <1> DEFINE A == last'[1] \notin {"load", "resize all"} =>
                     \A q \in Pixels : q # last'[2] => Contents(dd', q) = Contents(dd, q)
  <1>1. IInv /\ [Next]_vars => [A]_vars
    <2> SUFFICES ASSUME IInv, [Next]_vars PROVE A \/ UNCHANGED vars
      OBVIOUS
    <2>1. dd \in Sane
      BY DEF IInv
    <2>2. CASE GetPointers
      BY <2>1, <2>2, AllocKeeps DEF GetPointers
    <2>3. ASSUME NEW s \in [Pixels -> Loaded], Load(s) PROVE A
      BY <2>3 DEF Load, Call
    <2>4. ASSUME NEW n \in [Pixels -> 0..MaxSamples], ResizeAll(n) PROVE A
      BY <2>4 DEF ResizeAll, Call
    <2>5. ASSUME NEW p \in Pixels, PixelCall(p) PROVE A
      <3>1. PICK name, a, b : \E new \in Versions(dd, p) : Call(p, name, a, b, new)
        BY <2>1, <2>5, PixelCallIs
      <3>2. PICK new \in Versions(dd, p) : Call(p, name, a, b, new)
        BY <3>1
      <3>3. last' = <<name, p, a, b>> /\ dd' = new
        BY <3>2 DEF Call
      <3>4. last'[2] = p
        BY <3>3
      <3>5. \A q \in Pixels : q # p => Contents(new, q) = Contents(dd, q)
        BY DEF Versions, Only
      <3> QED
        BY <3>3, <3>4, <3>5
    <2> HIDE DEF A
    <2> QED
      BY <2>2, <2>3, <2>4, <2>5 DEF Next, PixelCall
  <1> QED
    BY <1>1, IInvHolds, PTL DEF Spec, OwnPixelOnly

-----------------------------------------------------------------------------
(* What culling and holding out do                                           *)

\* Lowering the number of samples keeps the first of them.
LEMMA ShortenDoes ==
    ASSUME NEW d \in Sane, NEW p \in Pixels, NEW n \in Nat, n <= d.nsamples[p]
    PROVE  LET e == SetSamples(d, p, n) IN
           /\ e \in Versions(d, p) /\ e.nsamples[p] = n /\ (d.allocated => e.capacity = d.capacity)
           /\ \A i \in 1..n : Contents(e, p)[i] = Contents(d, p)[i]
  <1> DEFINE old == d.nsamples[p]
             e == SetSamples(d, p, n)
  <1>1. old \in Nat /\ \A i \in 1..n : i <= old
    BY Fields
  <1>2. e \in Sane /\ Counted(d, e, p, n)
    BY SetSamplesIs
  <1>3. ASSUME d.allocated PROVE e.capacity = d.capacity
    <2>1. CASE n < old
      <3>1. ~(n > old) /\ n + (old - n) <= d.nsamples[p] /\ old - n \in Nat
        BY <1>1, <2>1
      <3>2. e = EraseSamples(d, p, n, old - n)
        BY <1>3, <2>1, <3>1 DEF SetSamples
      <3> PICK m \in Nat : m = old - n /\ n + m <= d.nsamples[p]
        BY <3>1
      <3>3. Closed(d, EraseSamples(d, p, n, m), p, n, m)
        BY EraseIs
      <3> QED
        BY <3>2, <3>3 DEF Closed
    <2>2. CASE n = old
      <3>1. ~(n > old) /\ ~(n < old)
        BY <1>1, <2>2
      <3> QED
        BY <1>3, <3>1 DEF SetSamples
    <2> QED
      BY <1>1, <2>1, <2>2
  <1> HIDE DEF e
  <1>4. \A i \in 1..n : Contents(e, p)[i] = Contents(d, p)[i]
    BY <1>1, <1>2 DEF Counted
  <1> QED
    BY <1>2, <1>3, <1>4 DEF Counted, Versions, e

\* r is s up to the first of the positions far.
UpTo(r, s, far) ==
    /\ Len(r) <= Len(s) /\ \A i \in 1..Len(r) : r[i] = s[i] /\ i \notin far
    /\ Len(r) < Len(s) => Len(r) + 1 \in far

\* Removing all from the first of some samples on.
LEMMA DiscardedDoes ==
    ASSUME NEW d \in Sane, d.allocated, NEW p \in Pixels, NEW far \in SUBSET (1..d.nsamples[p])
    PROVE  LET e == Discarded(d, p, far) IN
           /\ e \in Versions(d, p) /\ e.capacity = d.capacity
           /\ UpTo(Contents(e, p), Contents(d, p), far)
  <1> DEFINE e == SetSamples(d, p, Min(far) - 1)
             c == Contents(d, p)
  <1>1. d.nsamples[p] \in Nat /\ Len(c) = d.nsamples[p]
    BY Fields, ContentsIs
  <1>2. CASE far = {}
    <2>1. Discarded(d, p, far) = d
      BY <1>2 DEF Discarded
    <2>2. UpTo(c, c, far)
      BY <1>1, <1>2 DEF UpTo
    <2> QED
      BY <2>1, <2>2 DEF Versions, Only
  <1>3. CASE far # {}
    <2> PICK n \in Nat : n = Min(far) - 1 /\ n + 1 \in far /\ n + 1 <= d.nsamples[p] /\
                         \A i \in far : n + 1 <= i
      BY <1>1, <1>3, FirstOf
    <2>1. Discarded(d, p, far) = SetSamples(d, p, n)
      BY <1>3 DEF Discarded
    <2>2. n <= d.nsamples[p]
      BY <1>1
    <2>3. /\ SetSamples(d, p, n) \in Versions(d, p) /\ SetSamples(d, p, n).capacity = d.capacity
          /\ SetSamples(d, p, n).nsamples[p] = n
          /\ \A i \in 1..n : Contents(SetSamples(d, p, n), p)[i] = c[i]
      BY <2>2, ShortenDoes
    <2>4. Len(Contents(SetSamples(d, p, n), p)) = n
      BY <2>3, ContentsIs DEF Versions
    <2>5. \A i \in 1..n : i \notin far
      OBVIOUS
    <2> HIDE DEF c
    <2>6. UpTo(Contents(SetSamples(d, p, n), p), c, far)
      BY <1>1, <2>2, <2>3, <2>4, <2>5 DEF UpTo
    <2> QED
      BY <2>1, <2>3, <2>6 DEF c
  <1> QED
    BY <1>2, <1>3

\* Nearer than u, r and s look the same.
SeesSameNear(r, s, u) ==
    \A v \in Depths : v < u => /\ Image!Between(r, v) = Image!Between(s, v)
                               /\ Image!At(r, v) = Image!At(s, v)

\* What begins at u, or behind it, is not seen nearer than u.
LEMMA UpToSees ==
    ASSUME NEW r \in Seq(Samples), NEW s \in Seq(Samples), NEW far, NEW u \in Depths,
           UpTo(r, s, far), \A j \in 1..Len(s) : j > Len(r) => u <= s[j].z
    PROVE  SeesSameNear(r, s, u)
  <1> SUFFICES ASSUME NEW v \in Depths, v < u
               PROVE  Image!Between(r, v) = Image!Between(s, v) /\ Image!At(r, v) = Image!At(s, v)
    BY DEF SeesSameNear
  <1>1. /\ DOMAIN r = 1..Len(r) /\ DOMAIN s = 1..Len(s) /\ Len(r) \in Nat /\ Len(s) \in Nat
        /\ Len(r) <= Len(s) /\ \A i \in 1..Len(r) : r[i] = s[i] /\ i \in 1..Len(s)
        /\ v \in Nat /\ u \in Nat /\ \A i \in 1..Len(s) : s[i].z \in Nat
    BY Consts, SampleParts DEF UpTo
  <1>2. ASSUME NEW j \in 1..Len(s), s[j].z <= v PROVE j \in 1..Len(r)
    BY <1>1, <1>2
  <1>3. {r[i] : i \in {k \in DOMAIN r : r[k].z <= v /\ v < r[k].zback}}
        = {s[i] : i \in {k \in DOMAIN s : s[k].z <= v /\ v < s[k].zback}}
    BY <1>1, <1>2
  <1>4. {r[i] : i \in {k \in DOMAIN r : r[k].z = v /\ r[k].zback = v}}
        = {s[i] : i \in {k \in DOMAIN s : s[k].z = v /\ s[k].zback = v}}
    <2>1. \A j \in 1..Len(s) : s[j].z = v => j \in 1..Len(r)
      BY <1>1, <1>2
    <2> QED
      BY <1>1, <2>1
  <1> QED
    BY <1>3, <1>4 DEF Image!Between, Image!At

\* In front of u, unless a sample that ends behind u is before one that begins nearer.
InFront(s, u) == \A i, j \in 1..Len(s) : i < j => s[i].zback <= u \/ u <= s[j].z

\* What is kept when the samples that begin behind u are discarded.
LEMMA NearIs ==
    ASSUME NEW r \in Seq(Samples), NEW s \in Seq(Samples), NEW u \in Depths,
           UpTo(r, s, {i \in 1..Len(s) : s[i].z > u})
    PROVE  /\ \A i \in 1..Len(r) : r[i].z <= u
           /\ InFront(s, u) => InFront(r, u) /\ SeesSameNear(r, s, u)
  <1> DEFINE far == {i \in 1..Len(s) : s[i].z > u}
  <1>1. /\ Len(r) \in Nat /\ Len(s) \in Nat /\ Len(r) <= Len(s)
        /\ \A i \in 1..Len(r) : r[i] = s[i] /\ i \in 1..Len(s) /\ i \notin far
        /\ u \in Nat /\ \A i \in 1..Len(s) : s[i].z \in Nat /\ s[i].zback \in Nat /\ s[i].z <= s[i].zback
    BY Consts, SampleParts DEF UpTo
  <1>2. \A i \in 1..Len(r) : r[i].z <= u
    BY <1>1
  <1>3. ASSUME InFront(s, u) PROVE InFront(r, u)
    BY <1>1, <1>3 DEF InFront
  <1>4. ASSUME InFront(s, u), NEW j \in 1..Len(s), j > Len(r) PROVE u <= s[j].z
    <2> DEFINE i == Len(r) + 1
    <2>1. i \in far /\ i \in 1..Len(s) /\ s[i].z > u /\ (i = j \/ i < j)
      BY <1>1, <1>4 DEF UpTo
    <2> HIDE DEF i
    <2>2. i = j \/ s[i].zback <= u \/ u <= s[j].z
      BY <1>4, <2>1 DEF InFront
    <2> QED
      BY <1>1, <2>1, <2>2
  <1>5. InFront(s, u) => SeesSameNear(r, s, u)
    BY <1>4, UpToSees
  <1> QED
    BY <1>2, <1>3, <1>5

\* What is kept when, of samples that begin no farther than u and were split
\* there, those that end behind u are discarded.
LEMMA FarIs ==
    ASSUME NEW s \in Seq(Samples), NEW t \in Seq(Samples), NEW r \in Seq(Samples), NEW u \in Depths,
           \A i \in 1..Len(s) : s[i].z <= u, SplitFrom(s, t, u), Uncut(t, u),
           UpTo(r, t, {i \in 1..Len(t) : t[i].zback > u})
    PROVE  /\ \A i \in 1..Len(r) : r[i].z <= u /\ ~Straddles(r[i], u)
           /\ InFront(s, u) => SeesSameNear(r, s, u)
  <1> DEFINE far == {i \in 1..Len(t) : t[i].zback > u}
  <1>1. PICK o \in [1..Len(t) -> 1..Len(s)] : CutFrom(o, s, t, u)
    BY DEF SplitFrom
  <1>2. /\ Len(r) \in Nat /\ Len(t) \in Nat /\ Len(s) \in Nat /\ Len(r) <= Len(t)
        /\ \A i \in 1..Len(r) : r[i] = t[i] /\ i \in 1..Len(t)
        /\ u \in Nat
        /\ \A i \in 1..Len(t) : t[i].z \in Nat /\ t[i].zback \in Nat /\ t[i].z <= t[i].zback
        /\ \A i \in 1..Len(s) : s[i].z \in Nat /\ s[i].zback \in Nat /\ s[i].z <= s[i].zback
    BY Consts, SampleParts DEF UpTo
  <1>3. \A i \in 1..Len(t) : /\ o[i] \in 1..Len(s)
                             /\ t[i].z \in {s[o[i]].z, u} /\ t[i].zback \in {s[o[i]].zback, u}
    BY <1>1 DEF CutFrom, PieceOf
  <1>4. ASSUME NEW i \in 1..Len(r) PROVE r[i].z <= u /\ ~Straddles(r[i], u)
    <2>1. r[i] = t[i] /\ i \in 1..Len(t)
      BY <1>2
    <2>2. t[i].z <= u
      <3>1. o[i] \in 1..Len(s) /\ t[i].z \in {s[o[i]].z, u}
        BY <1>3, <2>1
      <3>2. s[o[i]].z <= u /\ u <= u
        BY <1>2, <3>1
      <3> QED
        BY <3>1, <3>2
    <2> QED
      BY <2>1, <2>2 DEF Uncut
  <1>5. ASSUME InFront(s, u), NEW j \in 1..Len(t), j > Len(r) PROVE u <= t[j].z
    <2> DEFINE i == Len(r) + 1
    <2>1. i \in 1..Len(t) /\ t[i].zback > u /\ (i = j \/ i < j)
      BY <1>2, <1>5 DEF UpTo
    <2> HIDE DEF i
    <2>2. CASE i = j
      <3>1. ~Straddles(t[i], u)
        BY <2>1 DEF Uncut
      <3> QED
        BY <1>2, <2>1, <2>2, <3>1 DEF Straddles
    <2>3. CASE i < j
      <3>1. o[i] <= o[j] /\ (o[i] = o[j] => u <= t[j].z)
        BY <1>1, <2>1, <2>3 DEF CutFrom
      <3>2. CASE o[i] = o[j]
        BY <3>1, <3>2
      <3>3. CASE o[i] < o[j]
        <4>1. s[o[i]].zback > u
          <5>1. t[i].zback \in {s[o[i]].zback, u}
            BY <1>3, <2>1
          <5> QED
            BY <1>2, <2>1, <5>1
        <4>2. s[o[i]].zback <= u \/ u <= s[o[j]].z
          BY <1>3, <1>5, <2>1, <3>3 DEF InFront
        <4>3. u <= s[o[j]].z
          BY <1>2, <1>3, <2>1, <4>1, <4>2
        <4> QED
          <5>1. t[j].z \in {s[o[j]].z, u}
            BY <1>3
          <5> QED
            BY <1>2, <4>3, <5>1
      <3> QED
        BY <1>3, <2>1, <3>1, <3>2, <3>3
    <2> QED
      BY <2>1, <2>2, <2>3
  <1>6. ASSUME InFront(s, u) PROVE SeesSameNear(r, s, u)
    <2>1. SeesSameNear(r, t, u)
      BY <1>5, <1>6, UpToSees
    <2>2. Image!SeesSame(t, s)
      BY DEF SplitFrom
    <2> QED
      BY <2>1, <2>2 DEF SeesSameNear, Image!SeesSame
  <1> QED
    BY <1>4, <1>6

\* Holding out.
LEMMA HeldOutDoes ==
    ASSUME NEW d \in Sane, d.allocated, NEW p \in Pixels, NEW q \in Pixels, p # q,
           NEW u \in Depths, HeldOut(d, p, q, u).capacity[p] <= MaxCapacity
    PROVE  LET new == Contents(HeldOut(d, p, q, u), p)
               old == Contents(d, q)
           IN /\ HeldOut(d, p, q, u) \in Versions(d, p)
              /\ \A i \in 1..Len(new) : new[i].z <= u /\ ~Straddles(new[i], u)
              /\ InFront(old, u) => SeesSameNear(new, old, u)
  <1> DEFINE room == SetCapacity(d, p, d.capacity[q])
             copy == CopyPixel(room, p, q)
             near == Discarded(copy, p, Beyond(copy, p, "z", u))
             pieces == SplitAt(near, p, u)
             less == Discarded(pieces, p, Beyond(pieces, p, "zback", u))
             h == HeldOut(d, p, q, u)
             old == Contents(d, q)
             n == Contents(near, p)
             t == Contents(pieces, p)
             r == Contents(less, p)
  <1>1. h = IF pieces = near THEN near ELSE less
    BY DEF HeldOut
  <1>2. h.capacity[p] <= MaxCapacity
    OBVIOUS
  <1>3. h \in Versions(d, p)
    BY HeldOutIs
  <1> HIDE DEF h
  <1>4. d.capacity[q] \in Nat
    BY Fields
  <1>5. room \in Sane /\ Roomier(d, room, p, d.capacity[q])
    BY <1>4, SetCapacityIs
  <1>6. room.allocated /\ Contents(room, q) = old
    BY <1>5 DEF Roomier
  <1> HIDE DEF room, old
  <1>7. copy \in Sane /\ copy.allocated /\ Contents(copy, p) = old
    BY <1>5, <1>6, CopyPixelIs DEF Only
  <1> HIDE DEF copy
  <1>8. ASSUME NEW e \in Sane, NEW field
        PROVE  Beyond(e, p, field, u) = {i \in 1..Len(Contents(e, p)) : Contents(e, p)[i][field] > u}
    BY ContentsIs DEF Beyond, Value
  <1>9. /\ near \in Sane /\ near.allocated /\ UpTo(n, old, {i \in 1..Len(old) : old[i].z > u})
    <2>1. Beyond(copy, p, "z", u) = {i \in 1..Len(old) : old[i].z > u}
      BY <1>7, <1>8
    <2>2. Beyond(copy, p, "z", u) \in SUBSET (1..copy.nsamples[p])
      BY DEF Beyond
    <2> QED
      BY <1>7, <2>1, <2>2, DiscardedDoes DEF Versions, Only
  <1> HIDE DEF near
  <1>10. /\ pieces \in Sane /\ pieces.allocated /\ SplitFrom(n, t, u)
         /\ pieces.nsamples[p] <= MaxCapacity => Uncut(t, u)
    BY <1>9, SplitAtDoes DEF Versions, Only
  <1> HIDE DEF pieces
  <1>11. less \in Sane /\ less.capacity = pieces.capacity /\ UpTo(r, t, {i \in 1..Len(t) : t[i].zback > u})
    <2>1. Beyond(pieces, p, "zback", u) = {i \in 1..Len(t) : t[i].zback > u}
      BY <1>8, <1>10
    <2>2. Beyond(pieces, p, "zback", u) \in SUBSET (1..pieces.nsamples[p])
      BY DEF Beyond
    <2> QED
      BY <1>10, <2>1, <2>2, DiscardedDoes DEF Versions
  <1> HIDE DEF less
  <1>12. /\ old \in Seq(Samples) /\ n \in Seq(Samples) /\ t \in Seq(Samples) /\ r \in Seq(Samples)
    BY <1>9, <1>10, <1>11, ContentsIs DEF old
  <1>13. Uncut(t, u)
    <2>1. pieces.nsamples[p] \in Nat /\ pieces.capacity[p] \in Nat
          /\ pieces.nsamples[p] <= pieces.capacity[p]
      BY <1>10, Fields
    <2>2. h.capacity = pieces.capacity
      BY <1>1, <1>11
    <2> QED
      BY <1>2, <1>10, <2>1, <2>2, Consts
  <1> HIDE DEF n, t, r
  <1>14. /\ \A i \in 1..Len(n) : n[i].z <= u
         /\ InFront(old, u) => InFront(n, u) /\ SeesSameNear(n, old, u)
    BY <1>9, <1>12, NearIs
  <1>15. CASE pieces = near
    <2>1. h = near /\ n = t
      BY <1>1, <1>15 DEF n, t
    <2>2. \A i \in 1..Len(n) : n[i].z <= u /\ ~Straddles(n[i], u)
      BY <1>13, <1>14, <2>1 DEF Uncut
    <2> QED
      BY <1>3, <1>14, <2>1, <2>2 DEF h, n, old
  <1>16. CASE pieces # near
    <2>1. h = less
      BY <1>1, <1>16
    <2>2. /\ \A i \in 1..Len(r) : r[i].z <= u /\ ~Straddles(r[i], u)
          /\ InFront(n, u) => SeesSameNear(r, n, u)
      BY <1>10, <1>11, <1>12, <1>13, <1>14, FarIs
    <2>3. InFront(old, u) => SeesSameNear(r, old, u)
      BY <1>14, <2>2 DEF SeesSameNear
    <2> QED
      BY <1>3, <2>1, <2>2, <2>3 DEF h, r, old
  <1> QED
    BY <1>15, <1>16

-----------------------------------------------------------------------------
(* The promises of the calls that insert, erase and resize                   *)

\* Equal parts of two sequences.
LEMMA SameParts ==
    ASSUME NEW r \in Seq(Samples), NEW s \in Seq(Samples), NEW a \in Nat, NEW b \in Nat, NEW n \in Nat,
           a + n <= Len(r), b + n <= Len(s), \A k \in 1..n : r[a + k] = s[b + k]
    PROVE  SubSeq(r, a + 1, a + n) = SubSeq(s, b + 1, b + n)
  <1> DEFINE x == SubSeq(r, a + 1, a + n)
             y == SubSeq(s, b + 1, b + n)
  <1>1. Slice(x, r, a, n, Samples) /\ Slice(y, s, b, n, Samples)
    BY SubSeqIs
  <1> HIDE DEF x, y
  <1>2. \A k \in 1..Len(x) : x[k] = y[k]
    BY <1>1 DEF Slice
  <1> QED
    BY <1>1, <1>2, SeqEqual DEF Slice, x, y

\* Insertion, sample by sample.
LEMMA InsertedIs ==
    ASSUME NEW s \in Seq(Samples), NEW r \in Seq(Samples), NEW pos \in Nat, NEW n \in Nat,
           pos <= Len(s), Len(r) = Len(s) + n, \A k \in 1..pos : r[k] = s[k],
           \A k \in 1..(Len(s) - pos) : r[pos + n + k] = s[pos + k]
    PROVE  Image!Inserted(s, r, pos, n)
  <1>1. Len(s) \in Nat /\ Len(s) - pos \in Nat /\ pos + n \in Nat /\ 0 \in Nat
    OBVIOUS
  <1>2. SubSeq(r, 1, pos) = SubSeq(s, 1, pos)
    <2>1. SubSeq(r, 0 + 1, 0 + pos) = SubSeq(s, 0 + 1, 0 + pos)
      <3>1. \A k \in 1..pos : r[0 + k] = s[0 + k]
        OBVIOUS
      <3>2. 0 + pos <= Len(r) /\ 0 + pos <= Len(s)
        BY <1>1
      <3> QED
        BY <1>1, <3>1, <3>2, SameParts
    <2> QED
      BY <2>1
  <1>3. SubSeq(r, pos + n + 1, Len(r)) = SubSeq(s, pos + 1, Len(s))
    <2> DEFINE m == Len(s) - pos
    <2>1. pos + n + m = Len(r) /\ pos + m = Len(s) /\ m \in Nat
      BY <1>1
    <2> HIDE DEF m
    <2>2. \A k \in 1..m : r[pos + n + k] = s[pos + k]
      BY DEF m
    <2>3. SubSeq(r, pos + n + 1, pos + n + m) = SubSeq(s, pos + 1, pos + m)
      <3> PICK b \in Nat : b = pos + n
        BY <1>1
      <3>1. b + m <= Len(r) /\ pos + m <= Len(s)
        BY <1>1, <2>1
      <3>2. \A k \in 1..m : r[b + k] = s[pos + k]
        BY <2>2
      <3> DEFINE x == SubSeq(r, b + 1, b + m)
                 y == SubSeq(s, pos + 1, pos + m)
      <3>3. Slice(x, r, b, m, Samples) /\ Slice(y, s, pos, m, Samples)
        BY <2>1, <3>1, SubSeqIs
      <3> HIDE DEF x, y
      <3>4. \A k \in 1..Len(x) : x[k] = y[k]
        BY <3>2, <3>3 DEF Slice
      <3>5. x = y
        BY <3>3, <3>4, SeqEqual DEF Slice
      <3> QED
        BY <3>5 DEF x, y
    <2> QED
      BY <2>1, <2>3
  <1> QED
    BY <1>2, <1>3 DEF Image!Inserted

\* Erasure, sample by sample.
LEMMA ErasedIs ==
    ASSUME NEW s \in Seq(Samples), NEW r \in Seq(Samples), NEW pos \in Nat, NEW n \in Nat,
           pos + n <= Len(s), Len(r) = Len(s) - n, \A k \in 1..pos : r[k] = s[k],
           \A k \in 1..(Len(s) - pos - n) : r[pos + k] = s[pos + n + k]
    PROVE  Image!Erased(s, r, pos, n)
  <1> DEFINE m == Len(s) - pos - n
             x == SubSeq(s, 1, pos)
             y == SubSeq(s, pos + n + 1, Len(s))
  <1>1. /\ Len(s) \in Nat /\ m \in Nat /\ pos + n \in Nat /\ (pos + n) + m = Len(s)
        /\ Len(r) = pos + m /\ 0 + pos = pos /\ pos <= Len(s) /\ 0 + 1 = 1
    OBVIOUS
  <1> HIDE DEF m
  <1>2. Slice(x, s, 0, pos, Samples)
    <2>1. Slice(SubSeq(s, 0 + 1, 0 + pos), s, 0, pos, Samples)
      BY <1>1, SubSeqIs
    <2> QED
      BY <1>1, <2>1
  <1>3. Slice(y, s, pos + n, m, Samples)
    <2> PICK b \in Nat : b = pos + n
      BY <1>1
    <2>1. Slice(SubSeq(s, b + 1, b + m), s, b, m, Samples)
      BY <1>1, SubSeqIs
    <2> QED
      BY <1>1, <2>1
  <1> HIDE DEF x, y
  <1>4. Joined(x \o y, x, y, Samples)
    BY <1>2, <1>3, JoinIs DEF Slice
  <1>5. ASSUME NEW k \in 1..Len(r) PROVE r[k] = (x \o y)[k]
    <2>1. CASE k <= pos
      <3>1. k \in 1..pos /\ r[k] = s[k] /\ k \in 1..Len(x \o y) /\ 0 + k = k
        BY <1>1, <1>2, <1>3, <1>4, <2>1 DEF Slice, Joined
      <3>2. x[k] = s[k]
        BY <1>2, <3>1 DEF Slice
      <3>3. (x \o y)[k] = x[k]
        BY <1>2, <1>4, <2>1, <3>1 DEF Slice, Joined
      <3> QED
        BY <3>1, <3>2, <3>3
    <2>2. CASE ~(k <= pos)
      <3> DEFINE i == k - pos
      <3>1. i \in 1..m /\ pos + i = k /\ k \in 1..Len(x \o y)
        BY <1>1, <1>2, <1>3, <1>4, <2>2 DEF Slice, Joined
      <3> HIDE DEF i
      <3>2. r[k] = s[pos + n + i]
        BY <3>1 DEF m
      <3>3. y[i] = s[pos + n + i]
        BY <1>3, <3>1 DEF Slice
      <3>4. (x \o y)[k] = y[i]
        BY <1>2, <1>4, <2>2, <3>1 DEF Slice, Joined, i
      <3> QED
        BY <3>2, <3>3, <3>4
    <2> QED
      BY <2>1, <2>2
  <1>6. Len(x \o y) = Len(r) /\ x \o y \in Seq(Samples)
    BY <1>1, <1>2, <1>3, <1>4 DEF Slice, Joined
  <1>7. r = x \o y
    BY <1>5, <1>6, SeqEqual
  <1> QED
    BY <1>7 DEF Image!Erased, x, y

\* Setting the number, sample by sample.
LEMMA ResizedIs ==
    ASSUME NEW s \in Seq(Samples), NEW r \in Seq(Samples), NEW n \in Nat, Len(r) = n,
           \A k \in 1..n : k <= Len(s) => r[k] = s[k]
    PROVE  Image!Resized(s, r, n)
  <1>1. Len(s) \in Nat
    OBVIOUS
  <1>2. CASE n < Len(s)
    <2> PICK m \in Nat : m = Len(s) - n
      BY <1>1, <1>2
    <2>1. n + m <= Len(s) /\ Len(r) = Len(s) - m /\ Len(s) - n - m = 0
      BY <1>1
    <2>2. \A k \in 1..n : r[k] = s[k]
      BY <1>1, <1>2
    <2>3. \A k \in 1..(Len(s) - n - m) : r[n + k] = s[n + m + k]
      BY <2>1
    <2>4. Image!Erased(s, r, n, m)
      BY <2>1, <2>2, <2>3, ErasedIs
    <2> QED
      BY <1>2, <2>4 DEF Image!Resized
  <1>3. CASE ~(n < Len(s))
    <2> PICK m \in Nat : m = n - Len(s)
      BY <1>1, <1>3
    <2> PICK len \in Nat : len = Len(s)
      BY <1>1
    <2>1. len <= Len(s) /\ Len(r) = Len(s) + m /\ Len(s) - len = 0
      BY <1>1
    <2>2. \A k \in 1..len : r[k] = s[k]
      BY <1>1, <1>3
    <2>3. \A k \in 1..(Len(s) - len) : r[len + m + k] = s[len + k]
      BY <2>1
    <2>4. Image!Inserted(s, r, len, m)
      BY <2>1, <2>2, <2>3, InsertedIs
    <2> QED
      BY <1>3, <2>4 DEF Image!Resized
  <1> QED
    BY <1>2, <1>3

-----------------------------------------------------------------------------
(* The refinement                                                            *)

\* The samples of all pixels, as DeepImage has them.
Pix == [p \in Pixels |-> Contents(dd, p)]

\* Of a version of the image, only p's samples are others.
LEMMA ChangesIs ==
    ASSUME NEW p \in Pixels, dd' \in Versions(dd, p)
    PROVE  /\ Pix[p] = Contents(dd, p) /\ Pix'[p] = Contents(dd', p)
           /\ Image!Changes(p, Contents(dd', p)) /\ Image!Changes(p, Pix'[p])
  <1>1. \A q \in Pixels : q # p => Contents(dd', q) = Contents(dd, q)
    BY DEF Versions, Only
  <1>2. Pix' = [q \in Pixels |-> Contents(dd', q)]
    BY DEF Pix
  <1>3. Pix' = [Pix EXCEPT ![p] = Contents(dd', p)]
    BY <1>1, <1>2 DEF Pix
  <1>4. Image!Changes(p, Contents(dd', p)) <=> Pix' = [Pix EXCEPT ![p] = Contents(dd', p)]
    BY DEF Image!Changes, Pix
  <1>5. Pix'[p] = Contents(dd', p) /\ Pix[p] = Contents(dd, p)
    BY <1>2 DEF Pix
  <1> QED
    BY <1>3, <1>4, <1>5

\* Inserting.
LEMMA InsertImage ==
    ASSUME dd \in Sane, dd' \in Sane, \A p \in Pixels : dd'.capacity[p] <= MaxCapacity,
           NEW p \in Pixels, NEW a \in 0..MaxCapacity, NEW n \in 1..MaxSamples, Insert(p, a, n)
    PROVE  Image!Next
  <1>1. /\ a <= dd.nsamples[p] /\ dd' = InsertSamples(dd, p, a, n) /\ last' = <<"insert", p, a, n>>
    BY DEF Insert, Call
  <1>2. a \in 0..dd.nsamples[p] /\ n \in Nat /\ a \in Nat /\ MaxCapacity \in Nat /\ dd.nsamples[p] \in Nat
    BY <1>1, Fields, Consts
  <1>3. Opened(dd, dd', p, a, n)
    BY <1>1, <1>2, InsertIs
  <1>4. dd' \in Versions(dd, p)
    BY <1>3 DEF Opened, Versions
  <1>5. Image!Inserted(Contents(dd, p), Contents(dd', p), a, n)
    <2>1. /\ Contents(dd, p) \in Seq(Samples) /\ Contents(dd', p) \in Seq(Samples)
          /\ Len(Contents(dd, p)) = dd.nsamples[p] /\ Len(Contents(dd', p)) = dd.nsamples[p] + n
      BY <1>3, ContentsIs DEF Opened
    <2> QED
      BY <1>1, <1>2, <1>3, <2>1, InsertedIs DEF Opened
  <1>6. Image!Insert(p, a, n)
    <2>1. Image!Calls(p, "insert", a, n)
      BY <1>1 DEF Image!Calls
    <2> QED
      BY <1>4, <1>5, <2>1, ChangesIs DEF Image!Insert, Pix
  <1>7. a \in Image!Counts /\ n \in Image!Counts
    <2>1. dd'.nsamples[p] \in Nat /\ dd'.capacity[p] \in Nat /\ dd'.nsamples[p] <= dd'.capacity[p]
          /\ dd'.nsamples[p] = dd.nsamples[p] + n
      BY <1>3, Fields DEF Opened
    <2> QED
      BY <1>2, <2>1 DEF Image!Counts
  <1> QED
    BY <1>6, <1>7 DEF Image!Next

\* Erasing.
LEMMA EraseImage ==
    ASSUME dd \in Sane, dd' \in Sane, \A p \in Pixels : dd'.capacity[p] <= MaxCapacity,
           NEW p \in Pixels, NEW a \in 0..MaxCapacity, NEW n \in 1..MaxSamples, Erase(p, a, n)
    PROVE  Image!Next
  <1>1. /\ a + n <= dd.nsamples[p] /\ dd' = EraseSamples(dd, p, a, n) /\ last' = <<"erase", p, a, n>>
    BY DEF Erase, Call
  <1>2. n \in Nat /\ a \in Nat /\ MaxCapacity \in Nat /\ dd.nsamples[p] \in Nat
    BY Fields, Consts
  <1>3. Closed(dd, dd', p, a, n)
    BY <1>1, <1>2, EraseIs
  <1>4. dd' \in Versions(dd, p)
    BY <1>3 DEF Closed, Versions
  <1>5. Image!Erased(Contents(dd, p), Contents(dd', p), a, n)
    <2>1. /\ Contents(dd, p) \in Seq(Samples) /\ Contents(dd', p) \in Seq(Samples)
          /\ Len(Contents(dd, p)) = dd.nsamples[p] /\ Len(Contents(dd', p)) = dd.nsamples[p] - n
      BY <1>3, ContentsIs DEF Closed
    <2> QED
      BY <1>1, <1>2, <1>3, <2>1, ErasedIs DEF Closed
  <1>6. Image!Erase(p, a, n)
    <2>1. Image!Calls(p, "erase", a, n)
      BY <1>1 DEF Image!Calls
    <2> QED
      BY <1>4, <1>5, <2>1, ChangesIs DEF Image!Erase, Pix
  <1>7. a \in Image!Counts /\ n \in Image!Counts
    <2>1. dd'.capacity[p] \in Nat /\ dd.nsamples[p] <= dd.capacity[p] /\ dd'.capacity = dd.capacity
      BY <1>3, Fields DEF Closed
    <2> QED
      BY <1>1, <1>2, <2>1 DEF Image!Counts
  <1> QED
    BY <1>6, <1>7 DEF Image!Next

\* Setting the number of samples.
LEMMA ResizeImage ==
    ASSUME dd \in Sane, dd' \in Sane, \A p \in Pixels : dd'.capacity[p] <= MaxCapacity,
           NEW p \in Pixels, NEW n \in 0..MaxSamples, Resize(p, n)
    PROVE  Image!Next
  <1>1. dd' = SetSamples(dd, p, n) /\ last' = <<"resize", p, n, 0>>
    BY DEF Resize, Call
  <1>2. n \in Nat /\ MaxCapacity \in Nat /\ dd.nsamples[p] \in Nat
    BY Fields, Consts
  <1>3. Counted(dd, dd', p, n)
    BY <1>1, <1>2, SetSamplesIs
  <1>4. dd' \in Versions(dd, p)
    BY <1>3 DEF Counted, Versions
  <1>5. Image!Resized(Contents(dd, p), Contents(dd', p), n)
    <2>1. /\ Contents(dd, p) \in Seq(Samples) /\ Contents(dd', p) \in Seq(Samples)
          /\ Len(Contents(dd, p)) = dd.nsamples[p] /\ Len(Contents(dd', p)) = n
      BY <1>3, ContentsIs DEF Counted
    <2> QED
      BY <1>2, <1>3, <2>1, ResizedIs DEF Counted
  <1>6. Image!Resize(p, n)
    <2>1. Image!Calls(p, "resize", n, 0)
      BY <1>1 DEF Image!Calls
    <2> QED
      BY <1>4, <1>5, <2>1, ChangesIs DEF Image!Resize, Pix
  <1>7. n \in Image!Counts
    <2>1. dd'.nsamples[p] = n /\ dd'.capacity[p] \in Nat /\ dd'.nsamples[p] <= dd'.capacity[p]
      BY <1>3, Fields DEF Counted
    <2> QED
      BY <1>2, <2>1 DEF Image!Counts
  <1> QED
    BY <1>6, <1>7 DEF Image!Next

\* Setting a capacity.
LEMMA ReserveImage ==
    ASSUME dd \in Sane, dd' \in Sane, \A p \in Pixels : dd'.capacity[p] <= MaxCapacity,
           NEW p \in Pixels, NEW n \in 0..MaxSamples, Reserve(p, n)
    PROVE  Image!Next
  <1>1. /\ dd' = SetCapacity(dd, p, n) /\ last' = <<"reserve", p, n, 0>>
        /\ dd.allocated \/ n >= dd.nsamples[p]
    BY DEF Reserve, Call
  <1>2. n \in Nat /\ MaxCapacity \in Nat
    BY Consts
  <1>3. Roomier(dd, dd', p, n)
    BY <1>1, <1>2, SetCapacityIs
  <1>4. Image!Reserve(p, n)
    <2>1. Image!Calls(p, "reserve", n, 0)
      BY <1>1 DEF Image!Calls
    <2>2. Pix' = Pix
      BY <1>3 DEF Pix, Roomier
    <2> QED
      BY <2>1, <2>2 DEF Image!Reserve, Pix
  <1>5. n \in Image!Counts
    <2>1. dd'.capacity[p] \in Nat /\ n <= dd'.capacity[p]
      BY <1>3, Fields DEF Roomier
    <2> QED
      BY <1>2, <2>1 DEF Image!Counts
  <1> QED
    BY <1>4, <1>5 DEF Image!Next

\* Writing a sample.
LEMMA WriteImage ==
    ASSUME dd \in Sane, dd' \in Sane, NEW p \in Pixels, NEW i \in 1..MaxCapacity, NEW v \in Written,
           Write(p, i, v)
    PROVE  Image!Next
  <1> DEFINE c == Contents(dd, p)
             new == Contents(dd', p)
  <1>1. /\ i \in 1..dd.nsamples[p] /\ dd' = Put(dd, p, i, v) /\ last' = <<"write", p, i, v>>
    BY DEF Write, Call
  <1>2. v \in Samples /\ MaxCapacity \in Nat
    BY Consts
  <1>3. Replaced(dd, dd', p, i, v)
    BY <1>1, <1>2, PutIs
  <1>4. dd' \in Versions(dd, p)
    BY <1>3 DEF Replaced, Versions
  <1>5. /\ c \in Seq(Samples) /\ new \in Seq(Samples)
        /\ Len(c) = dd.nsamples[p] /\ Len(new) = dd.nsamples[p]
    BY <1>3, ContentsIs DEF Replaced
  <1>6. \A k \in 1..dd.nsamples[p] : new[k] = IF k = i THEN v ELSE c[k]
    BY <1>3 DEF Replaced
  <1> HIDE DEF c, new
  <1>7. new = [c EXCEPT ![i] = v]
    <2> DEFINE r == [c EXCEPT ![i] = v]
    <2>1. /\ c = [k \in 1..Len(c) |-> c[k]] /\ DOMAIN c = 1..Len(c) /\ Len(c) \in Nat
          /\ \A k \in 1..Len(c) : c[k] \in Samples
      BY <1>5
    <2>2. r = [k \in 1..Len(c) |-> IF k = i THEN v ELSE c[k]]
      BY <2>1
    <2>3. r \in [1..Len(c) -> Samples] /\ \A k \in 1..Len(c) : r[k] = IF k = i THEN v ELSE c[k]
      BY <1>2, <2>1, <2>2
    <2> HIDE DEF r
    <2>4. r \in Seq(Samples) /\ Len(r) = Len(c)
      BY <2>1, <2>3
    <2>5. new = r
      BY <1>5, <1>6, <2>3, <2>4, SeqEqual
    <2> QED
      BY <2>5 DEF r
  <1>8. Image!Write(p, i, v)
    <2>1. Image!Calls(p, "write", i, v)
      BY <1>1 DEF Image!Calls
    <2> QED
      BY <1>4, <1>7, <2>1, ChangesIs DEF Image!Write, Pix, c, new
  <1>9. i \in Image!Counts
    BY <1>2 DEF Image!Counts
  <1> QED
    BY <1>8, <1>9 DEF Image!Next

\* Copying a pixel.
LEMMA CopyImage ==
    ASSUME dd \in Sane, NEW p \in Pixels, NEW q \in Pixels, Copy(p, q)
    PROVE  Image!Next
  <1>1. p # q /\ dd' = CopyPixel(dd, p, q) /\ last' = <<"copy", p, q, 0>>
    BY DEF Copy, Call
  <1>2. dd' \in Versions(dd, p) /\ Contents(dd', p) = Contents(dd, q)
    BY <1>1, CopyPixelIs DEF Versions
  <1>3. Image!Copy(p, q)
    <2>1. Image!Calls(p, "copy", q, 0)
      BY <1>1 DEF Image!Calls
    <2> QED
      BY <1>2, <2>1, ChangesIs DEF Image!Copy, Pix
  <1> QED
    BY <1>3 DEF Image!Next

\* Merging pixels.
LEMMA MergeImage ==
    ASSUME dd \in Sane, dd' \in Sane, \A p \in Pixels : dd'.capacity[p] <= MaxCapacity,
           NEW p \in Pixels, NEW q \in Pixels, Merge(p, q)
    PROVE  Image!Next
  <1>1. p # q /\ dd' = MergePixels(dd, p, q) /\ last' = <<"merge", p, q, 0>>
    BY DEF Merge, Call
  <1>2. /\ dd' \in Versions(dd, p)
        /\ Image!SeesSame(Contents(dd', p), Contents(dd, p) \o Contents(dd, q))
        /\ \/ Contents(dd, p) = <<>> \/ Contents(dd, q) = <<>>
           \/ \A i, j \in 1..Len(Contents(dd', p)) :
                 i < j => /\ Contents(dd', p)[i].zback <= Contents(dd', p)[j].z
                          /\ Nearer(Contents(dd', p)[i], Contents(dd', p)[j])
    BY <1>1, MergePixelsDoes
  <1>3. DOMAIN Contents(dd', p) = 1..Len(Contents(dd', p))
    BY ContentsIs
  <1>4. \A v, w : Nearer(v, w) <=> Image!Before(v, w)
    BY DEF Nearer, Image!Before
  <1>5. Pix[q] = Contents(dd, q)
    BY DEF Pix
  <1>6. Image!Merge(p, q)
    <2>1. Image!Calls(p, "merge", q, 0)
      BY <1>1 DEF Image!Calls
    <2> QED
      BY <1>2, <1>3, <1>4, <1>5, <2>1, ChangesIs DEF Image!Merge, Pix
  <1> QED
    BY <1>6 DEF Image!Next

\* Holding out.
LEMMA HoldoutImage ==
    ASSUME dd \in Sane, dd' \in Sane, \A p \in Pixels : dd'.capacity[p] <= MaxCapacity,
           NEW p \in Pixels, NEW q \in Pixels, NEW u \in Depths, Holdout(p, q, u)
    PROVE  Image!Next
  <1> DEFINE new == Contents(dd', p)
             old == Contents(dd, q)
  <1>1. p # q /\ dd.allocated /\ dd' = HeldOut(dd, p, q, u) /\ last' = <<"holdout", p, q, u>>
    BY DEF Holdout, Call
  <1>2. /\ dd' \in Versions(dd, p)
        /\ \A i \in 1..Len(new) : new[i].z <= u /\ ~Straddles(new[i], u)
        /\ InFront(old, u) => SeesSameNear(new, old, u)
    BY <1>1, HeldOutDoes
  <1>3. DOMAIN new = 1..Len(new) /\ DOMAIN old = 1..Len(old)
    BY ContentsIs
  <1> HIDE DEF new, old
  <1>4. Pix[q] = old /\ Pix'[p] = new /\ Image!Changes(p, new)
    BY <1>2, ChangesIs DEF Pix, new, old
  <1>5. \A i \in DOMAIN new : new[i].z <= u /\ ~(new[i].z < u /\ u < new[i].zback)
    BY <1>2, <1>3 DEF Straddles
  <1>6. (\A i, j \in DOMAIN old : i < j => old[i].zback <= u \/ u <= old[j].z) =>
           \A v \in Depths : v < u => /\ Image!Between(new, v) = Image!Between(old, v)
                                      /\ Image!At(new, v) = Image!At(old, v)
    BY <1>2, <1>3 DEF InFront, SeesSameNear
  <1>7. Image!Holdout(p, q, u)
    <2>1. Image!Calls(p, "holdout", q, u)
      BY <1>1 DEF Image!Calls
    <2> QED
      BY <1>4, <1>5, <1>6, <2>1 DEF Image!Holdout, Pix
  <1> QED
    BY <1>7 DEF Image!Next

\* Splitting.
LEMMA SplitImage ==
    ASSUME dd \in Sane, dd' \in Sane, \A p \in Pixels : dd'.capacity[p] <= MaxCapacity,
           NEW p \in Pixels, NEW u \in Depths, Split(p, u)
    PROVE  Image!Next
  <1> DEFINE new == Contents(dd', p)
             old == Contents(dd, p)
  <1>1. dd' = SplitAt(dd, p, u) /\ last' = <<"split", p, u, 0>>
    BY DEF Split, Call
  <1>2. /\ dd' \in Versions(dd, p) /\ SplitFrom(old, new, u)
        /\ dd'.nsamples[p] <= MaxCapacity => Uncut(new, u)
    BY <1>1, SplitAtDoes
  <1>3. DOMAIN new = 1..Len(new)
    BY ContentsIs
  <1> HIDE DEF new, old
  <1>4. Pix[p] = old /\ Pix'[p] = new /\ Image!Changes(p, new)
    BY <1>2, ChangesIs DEF Pix, new, old
  <1>5. Uncut(new, u)
    <2>1. dd'.nsamples[p] \in Nat /\ dd'.capacity[p] \in Nat /\ dd'.nsamples[p] <= dd'.capacity[p]
      BY Fields
    <2> QED
      BY <1>2, <2>1, Consts
  <1>6. \A i \in DOMAIN new : ~(new[i].z < u /\ u < new[i].zback)
    BY <1>3, <1>5 DEF Uncut, Straddles
  <1>7. Image!Split(p, u)
    <2>1. Image!Calls(p, "split", u, 0)
      BY <1>1 DEF Image!Calls
    <2>2. Image!SeesSame(new, old)
      BY <1>2 DEF SplitFrom
    <2> QED
      BY <1>4, <1>6, <2>1, <2>2 DEF Image!Split, Pix
  <1> QED
    BY <1>7 DEF Image!Next

\* DeepImage's Cardinality is that of FiniteSets.
LEMMA SameCardinality == \A S : Image!Cardinality(S) = Cardinality(S)
  BY DEF Cardinality, Image!Cardinality

\* Sorting.
LEMMA SortImage ==
    ASSUME dd \in Sane, dd' \in Sane, NEW p \in Pixels, Sort(p)
    PROVE  Image!Next
  <1> DEFINE new == Contents(dd', p)
             old == Contents(dd, p)
  <1>1. dd' = SortSamples(dd, p) /\ last' = <<"sort", p, 0, 0>>
    BY DEF Sort, Call
  <1>2. dd' \in Versions(dd, p) /\ Shuffled(new, old) /\ Ordered(new)
    BY <1>1, SortDoes
  <1>3. DOMAIN new = 1..Len(new) /\ new \in Seq(Samples) /\ old \in Seq(Samples)
    BY ContentsIs
  <1> HIDE DEF new, old
  <1>4. Pix[p] = old /\ Pix'[p] = new /\ Image!Changes(p, new)
    BY <1>2, ChangesIs DEF Pix, new, old
  <1>5. \A i, j \in DOMAIN new : i < j => ~Image!Before(new[j], new[i])
    BY <1>2, <1>3 DEF Ordered, Nearer, Image!Before
  <1>6. /\ Len(new) = Len(old)
        /\ \A v : Cardinality(Image!Occurs(new, v)) = Cardinality(Image!Occurs(old, v))
    BY <1>2, <1>3, ShuffledSees
  <1>7. Image!Sort(p)
    <2>1. Image!Calls(p, "sort", 0, 0)
      BY <1>1 DEF Image!Calls
    <2>2. \A i \in DOMAIN new : Image!Cardinality(Image!Occurs(new, new[i]))
                               = Image!Cardinality(Image!Occurs(old, new[i]))
      BY <1>6, SameCardinality
    <2>3. Image!Sort(p) <=>
             /\ Image!Calls(p, "sort", 0, 0) /\ Image!Changes(p, Pix'[p])
             /\ Len(Pix'[p]) = Len(Pix[p])
             /\ \A i, j \in DOMAIN Pix'[p] : i < j => ~Image!Before(Pix'[p][j], Pix'[p][i])
             /\ \A i \in DOMAIN Pix'[p] : Image!Cardinality(Image!Occurs(Pix'[p], Pix'[p][i]))
                                         = Image!Cardinality(Image!Occurs(Pix[p], Pix'[p][i]))
      BY DEF Image!Sort, Pix
    <2> QED
      BY <1>4, <1>5, <1>6, <2>1, <2>2, <2>3, Zenon
  <1> QED
    BY <1>7 DEF Image!Next

\* Merging neighbours.
LEMMA OverlapsImage ==
    ASSUME IInv, dd' \in Sane, NEW p \in Pixels, MergeOverlaps(p)
    PROVE  Image!Next
  <1> DEFINE new == Contents(dd', p)
             old == Contents(dd, p)
  <1>1. dd' = MergeNeighbours(dd, p) /\ last' = <<"merge overlaps", p, 0, 0>> /\ dd \in Sane
    BY DEF MergeOverlaps, Call, IInv
  <1>2. /\ dd' \in Versions(dd, p) /\ Merged(new, old)
        /\ dd.nsamples[p] <= MaxCapacity => Distinct(new, Len(new) + 1)
    BY <1>1, MergeNeighboursDoes
  <1>3. DOMAIN new = 1..Len(new) /\ Len(new) \in Nat
    BY ContentsIs
  <1> HIDE DEF new, old
  <1>4. Pix[p] = old /\ Pix'[p] = new /\ Image!Changes(p, new)
    BY <1>2, ChangesIs DEF Pix, new, old
  <1>5. Distinct(new, Len(new) + 1)
    <2>1. /\ dd.nsamples[p] \in Nat /\ dd.capacity[p] \in Nat /\ dd.nsamples[p] <= dd.capacity[p]
          /\ dd.capacity[p] <= MaxCapacity
      BY <1>1, Fields DEF IInv
    <2> QED
      BY <1>2, <2>1, Consts
  <1>6. \A i \in DOMAIN new \ {1} : new[i].z # new[i - 1].z \/ new[i].zback # new[i - 1].zback
    BY <1>3, <1>5 DEF Distinct, SameExtent
  <1>7. Image!MergeOverlaps(p)
    <2>1. Image!Calls(p, "merge overlaps", 0, 0)
      BY <1>1 DEF Image!Calls
    <2>2. Image!SeesSame(new, old)
      BY <1>2 DEF Merged
    <2> QED
      BY <1>4, <1>6, <2>1, <2>2 DEF Image!MergeOverlaps, Pix
  <1> QED
    BY <1>7 DEF Image!Next

\* Culling.
LEMMA CullImage ==
    ASSUME dd \in Sane, NEW p \in Pixels, Cull(p)
    PROVE  Image!Next
  <1> DEFINE s == Contents(dd, p)
             opaque == {i \in DOMAIN s : s[i].opaque}
  <1>1. dd' = OcclusionCull(dd, p) /\ last' = <<"cull", p, 0, 0>>
    BY DEF Cull, Call
  <1>2. s \in Seq(Samples) /\ DOMAIN s = 1..dd.nsamples[p] /\ Len(s) = dd.nsamples[p]
        /\ dd.nsamples[p] \in Nat
    BY ContentsIs, Fields
  <1>3. dd' = IF opaque = {} THEN dd ELSE SetSamples(dd, p, Min(opaque))
    <2>1. opaque = {i \in 1..dd.nsamples[p] : Value(dd, p, i).opaque}
      BY <1>2 DEF Value
    <2> QED
      BY <1>1, <2>1 DEF OcclusionCull
  <1>4. Pix[p] = s
    BY DEF Pix
  <1>5. Image!Calls(p, "cull", 0, 0)
    BY <1>1 DEF Image!Calls
  <1>6. CASE opaque = {}
    <2>1. dd' = dd
      BY <1>3, <1>6
    <2>2. Pix' = Pix
      BY <2>1 DEF Pix
    <2>3. Image!Cull(p)
      BY <1>4, <1>5, <1>6, <2>2 DEF Image!Cull, Pix
    <2> QED
      BY <2>3 DEF Image!Next
  <1>7. CASE opaque # {}
    <2> DEFINE i == Min(opaque)
    <2>1. opaque \in SUBSET (1..dd.nsamples[p])
      BY <1>2
    <2> HIDE DEF opaque, s
    <2>2. i \in opaque /\ i \in Nat /\ i <= dd.nsamples[p] /\ \A j \in opaque : i <= j
      BY <1>2, <1>7, <2>1, FirstOf
    <2>3. dd' = SetSamples(dd, p, i)
      BY <1>3, <1>7
    <2> HIDE DEF i
    <2>4. /\ dd' \in Versions(dd, p) /\ dd'.nsamples[p] = i
          /\ \A k \in 1..i : Contents(dd', p)[k] = s[k]
      BY <2>2, <2>3, ShortenDoes DEF s
    <2>5. Contents(dd', p) \in Seq(Samples) /\ Len(Contents(dd', p)) = i
      BY <2>4, ContentsIs DEF Versions
    <2>6. Contents(dd', p) = SubSeq(s, 1, i)
      <3>1. Slice(SubSeq(s, 0 + 1, 0 + i), s, 0, i, Samples)
        BY <1>2, <2>2, SubSeqIs
      <3>2. Slice(SubSeq(s, 1, i), s, 0, i, Samples)
        BY <2>2, <3>1
      <3>3. \A k \in 1..i : Contents(dd', p)[k] = SubSeq(s, 1, i)[k]
        BY <2>2, <2>4, <3>2 DEF Slice
      <3> QED
        BY <2>5, <3>2, <3>3, SeqEqual DEF Slice
    <2>7. Image!Changes(p, SubSeq(s, 1, i))
      BY <2>4, <2>6, ChangesIs
    <2>8. Image!Cull(p)
      BY <1>4, <1>5, <2>2, <2>7 DEF Image!Cull, Pix, opaque, s
    <2> QED
      BY <2>8 DEF Image!Next
  <1> QED
    BY <1>6, <1>7

\* p has n samples, of which those that it had are the same.
Kept(d, e, p, n) ==
    e.nsamples[p] = n /\ \A k \in 1..n : k <= d.nsamples[p] => Contents(e, p)[k] = Contents(d, p)[k]

\* Setting the numbers of samples of all pixels, pixel by pixel.
LEMMA SetAllSamplesDoes ==
    ASSUME NEW d \in Sane, NEW c \in Numbers
    PROVE  \A p \in Pixels : Kept(d, SetAllSamples(d, c), p, c[p])
  <1>1. CASE ~d.allocated
    <2> DEFINE e == SetAllSamples(d, c)
    <2>1. e \in Sane /\ e.nsamples = c
      BY <1>1, CountsIs
    <2>2. ~e.allocated
      BY <1>1, Fields DEF SetAllSamples, Data
    <2> HIDE DEF e
    <2>3. ASSUME NEW p \in Pixels, NEW k \in 1..c[p], k <= d.nsamples[p]
          PROVE  Contents(e, p)[k] = Contents(d, p)[k]
      <3>1. k \in 1..d.nsamples[p] /\ k \in 1..e.nsamples[p]
        BY <2>1, <2>3, Fields DEF Numbers
      <3>2. Contents(d, p)[k] = Zero /\ Contents(e, p)[k] = Zero
        BY <1>1, <2>1, <2>2, <3>1, ContentsIs DEF Cell
      <3> QED
        BY <3>2
    <2> QED
      BY <2>1, <2>3 DEF Kept, e
  <1>2. CASE d.allocated
    <2> DEFINE n == NPixels
               G == {e \in Sane : e.allocated}
               H == [k \in 0..n |-> {e \in G : \A p \in Pixels :
                                                  IF p <= k THEN Kept(d, e, p, c[p])
                                                            ELSE Contents(e, p) = Contents(d, p)}]
               x == d
               step(l, k) == SetSamples(l, k, c[k])
               g == [l \in G |-> [k \in 1..n |-> step(l, k)]]
               F == CHOOSE f : f = [k \in 0..n |-> IF k = 0 THEN x ELSE step(f[k - 1], k)]
    <2>1. n \in Nat /\ x \in G /\ x \in H[0]
      <3>1. n \in Nat /\ x \in G /\ 0 \in 0..n /\ \A p \in Pixels : ~(p <= 0)
        BY <1>2, Consts
      <3> QED
        BY <3>1
    <2>2. ASSUME NEW l \in G, NEW k \in 1..n
          PROVE  step(l, k) \in G /\ Counted(l, step(l, k), k, c[k])
      <3>1. l \in Sane /\ l.allocated /\ k \in Pixels /\ c[k] \in Nat
        BY Consts DEF Numbers
      <3>2. step(l, k) \in Sane /\ Counted(l, step(l, k), k, c[k])
        BY <3>1, SetSamplesIs
      <3> QED
        BY <3>1, <3>2 DEF Counted
    <2>9. ASSUME NEW l \in G, NEW k \in 1..n, l \in H[k - 1] PROVE step(l, k) \in H[k]
      <3> DEFINE e == step(l, k)
      <3>1. k - 1 \in 0..n /\ k \in 0..n /\ k \in Pixels /\ \A p \in Pixels : p \in Nat
        BY <2>1, Consts
      <3>2. \A p \in Pixels : IF p <= k - 1 THEN Kept(d, l, p, c[p])
                                            ELSE Contents(l, p) = Contents(d, p)
        BY <2>9, <3>1
      <3>3. e \in Sane /\ l \in Sane /\ Counted(l, e, k, c[k]) /\ Only(l, e, k)
        BY <2>2 DEF Counted
      <3>4. \A q \in Pixels : q # k => e.nsamples[q] = l.nsamples[q]
        BY <3>3, OnlyCounts
      <3> HIDE DEF e, step
      <3>5. ASSUME NEW p \in Pixels, p < k PROVE Kept(d, e, p, c[p])
        <4>1. Kept(d, l, p, c[p]) /\ p # k
          BY <3>1, <3>2, <3>5
        <4>2. Contents(e, p) = Contents(l, p)
          BY <3>3, <4>1 DEF Only
        <4> QED
          BY <3>4, <4>1, <4>2 DEF Kept
      <3>6. Kept(d, e, k, c[k])
        <4>1. Contents(l, k) = Contents(d, k)
          BY <3>1, <3>2
        <4>2. l.nsamples[k] = d.nsamples[k]
          <5>1. Len(Contents(l, k)) = l.nsamples[k] /\ Len(Contents(d, k)) = d.nsamples[k]
            BY <3>1, <3>3, ContentsIs
          <5> QED
            BY <4>1, <5>1
        <4> QED
          BY <3>3, <4>1, <4>2 DEF Counted, Kept
      <3>7. ASSUME NEW p \in Pixels, p > k PROVE Contents(e, p) = Contents(d, p)
        <4>1. Contents(l, p) = Contents(d, p) /\ p # k
          BY <3>1, <3>2, <3>7
        <4> QED
          BY <3>3, <4>1 DEF Only
      <3>8. \A p \in Pixels : IF p <= k THEN Kept(d, e, p, c[p]) ELSE Contents(e, p) = Contents(d, p)
        BY <3>1, <3>5, <3>6, <3>7
      <3>9. e \in G
        BY <2>2 DEF e
      <3> HIDE DEF G
      <3> QED
        BY <3>1, <3>8, <3>9 DEF e
    <2>10. \A e \in H[n] : \A p \in Pixels : Kept(d, e, p, c[p])
      <3>1. n \in 0..n /\ \A p \in Pixels : p <= n
        BY Consts
      <3>2. H[n] = {e \in G : \A p \in Pixels : IF p <= n THEN Kept(d, e, p, c[p])
                                                       ELSE Contents(e, p) = Contents(d, p)}
        BY <3>1
      <3> HIDE DEF H, n, G
      <3> QED
        BY <3>1, <3>2
    <2>14. \A k \in 0..n : H[k] \subseteq G
      OBVIOUS
    <2> HIDE DEF n, G, x, step, H
    <2>3. g \in Steps(G, n)
      BY <2>2 DEF Steps
    <2>4. \E f : f = [k \in 0..n |-> IF k = 0 THEN x ELSE step(f[k - 1], k)]
      <3>1. PICK f \in [0..n -> G] : f[0] = x /\ \A k \in 1..n : f[k] = g[f[k - 1]][k]
        <4>1. RunsOf(G, n, x, g) # {}
          <5> HIDE DEF g
          <5> QED
            BY <2>1, <2>3, Runs
        <4> HIDE DEF g
        <4> QED
          BY <4>1 DEF RunsOf
      <3>2. ASSUME NEW k \in 1..n PROVE f[k] = step(f[k - 1], k)
        <4>1. f[k - 1] \in G
          BY <2>1
        <4> QED
          BY <3>1, <4>1
      <3>3. f = [k \in 0..n |-> IF k = 0 THEN x ELSE step(f[k - 1], k)]
        BY <2>1, <3>1, <3>2
      <3> QED
        BY <3>3
    <2>5. F = [k \in 0..n |-> IF k = 0 THEN x ELSE step(F[k - 1], k)]
      BY <2>4, Zenon
    <2>6. SetAllSamples(d, c) = F[n]
      BY <1>2 DEF SetAllSamples, Repeat, n, x, step
    <2> HIDE DEF F
    <2>7. \A k \in 0..n : F[k] \in H[k]
      <3>1. F[0] \in H[0]
        BY <2>1, <2>5
      <3>2. \A k \in 1..n : F[k - 1] \in H[k - 1] => F[k] \in H[k]
        <4> TAKE k \in 1..n
        <4>1. k \in 0..n /\ k # 0 /\ k - 1 \in 0..n
          BY <2>1
        <4>2. F[k] = step(F[k - 1], k)
          BY <2>5, <4>1
        <4> QED
          BY <2>9, <2>14, <4>1, <4>2
      <3> QED
        BY <2>1, <3>1, <3>2, StaysAt, Zenon
    <2>8. F[n] \in H[n]
      BY <2>1, <2>7
    <2> QED
      BY <2>6, <2>8, <2>10
  <1> QED
    BY <1>1, <1>2

\* Setting all numbers.
LEMMA ResizeAllImage ==
    ASSUME dd \in Sane, dd' \in Sane, \A p \in Pixels : dd'.capacity[p] <= MaxCapacity,
           NEW n \in [Pixels -> 0..MaxSamples], ResizeAll(n)
    PROVE  Image!Next
  <1>1. dd' = SetAllSamples(dd, n) /\ last' = <<"resize all", n, 0, 0>>
    BY DEF ResizeAll, Call
  <1>2. n \in Numbers
    BY DeepAssumption DEF Numbers
  <1>3. \A p \in Pixels : Kept(dd, dd', p, n[p])
    BY <1>1, <1>2, SetAllSamplesDoes
  <1>4. \A p \in Pixels : Pix[p] = Contents(dd, p) /\ Pix'[p] = Contents(dd', p)
    BY DEF Pix
  <1>5. ASSUME NEW p \in Pixels
        PROVE  Image!Resized(Pix[p], Pix'[p], n[p]) /\ n[p] \in Image!Counts
    <2>1. /\ Contents(dd, p) \in Seq(Samples) /\ Contents(dd', p) \in Seq(Samples)
          /\ Len(Contents(dd, p)) = dd.nsamples[p] /\ Len(Contents(dd', p)) = n[p] /\ n[p] \in Nat
      BY <1>2, <1>3, ContentsIs DEF Kept, Numbers
    <2>2. Image!Resized(Contents(dd, p), Contents(dd', p), n[p])
      BY <1>3, <2>1, ResizedIs DEF Kept
    <2>3. dd'.nsamples[p] = n[p] /\ dd'.capacity[p] \in Nat /\ dd'.nsamples[p] <= dd'.capacity[p]
      BY <1>3, Fields DEF Kept
    <2>4. n[p] \in Image!Counts
      BY <2>1, <2>3, Consts DEF Image!Counts
    <2> QED
      BY <1>4, <2>2, <2>4
  <1>6. n \in [Pixels -> Image!Counts]
    BY <1>5
  <1>7. Image!ResizeAll(n)
    <2>1. Image!Calls(n, "resize all", 0, 0)
      BY <1>1 DEF Image!Calls, ResizeAll, Call
    <2> QED
      BY <1>5, <2>1 DEF Image!ResizeAll, Pix
  <1> QED
    BY <1>6, <1>7 DEF Image!Next

\* Filling all pixels, pixel by pixel.
LEMMA FilledDoes ==
    ASSUME NEW d \in Sane, d.allocated, NEW s, \A p \in Pixels : s[p] \in Seq(Samples),
           \A p \in Pixels : d.nsamples[p] = Len(s[p])
    PROVE  \A p \in Pixels : Contents(Filled(d, s), p) = s[p]
  <1> DEFINE n == NPixels
             G == {e \in Sane : e.allocated /\ e.nsamples = d.nsamples}
             H == [k \in 0..n |-> {e \in G : \A p \in Pixels : p <= k => Contents(e, p) = s[p]}]
             x == d
             step(l, k) == Over(l, k, 1, s[k])
             g == [l \in G |-> [k \in 1..n |-> step(l, k)]]
             F == CHOOSE f : f = [k \in 0..n |-> IF k = 0 THEN x ELSE step(f[k - 1], k)]
  <1>1. n \in Nat /\ x \in G /\ x \in H[0]
    <2>1. n \in Nat /\ x \in G /\ 0 \in 0..n /\ \A p \in Pixels : ~(p <= 0)
      BY Consts
    <2> QED
      BY <2>1
  <1>2. ASSUME NEW l \in G, NEW k \in 1..n
        PROVE  /\ step(l, k) \in G /\ Only(l, step(l, k), k) /\ k \in Pixels
               /\ Contents(step(l, k), k) = s[k]
    <2>1. /\ l \in Sane /\ l.allocated /\ l.nsamples = d.nsamples /\ k \in Pixels
          /\ s[k] \in Seq(Samples) /\ Len(s[k]) = l.nsamples[k]
      BY Consts
    <2>2. Alloc(l) = l
      BY <2>1 DEF Alloc
    <2> QED
      BY <2>1, <2>2, FillIs
  <1>9. ASSUME NEW l \in G, NEW k \in 1..n, l \in H[k - 1] PROVE step(l, k) \in H[k]
    <2>1. k - 1 \in 0..n /\ k \in 0..n /\ \A p \in Pixels : p \in Nat
      BY <1>1, Consts
    <2>2. \A p \in Pixels : p <= k - 1 => Contents(l, p) = s[p]
      BY <1>9, <2>1
    <2> HIDE DEF G, step
    <2>3. ASSUME NEW p \in Pixels, p <= k PROVE Contents(step(l, k), p) = s[p]
      <3>1. CASE p = k
        BY <1>2, <3>1
      <3>2. CASE p # k
        <4>1. p <= k - 1
          BY <2>1, <2>3, <3>2
        <4> QED
          BY <1>2, <2>2, <3>2, <4>1 DEF Only
      <3> QED
        BY <3>1, <3>2
    <2> QED
      BY <1>2, <2>1, <2>3
  <1>10. \A e \in H[n] : \A p \in Pixels : Contents(e, p) = s[p]
    <2>1. n \in 0..n /\ \A p \in Pixels : p <= n
      BY Consts
    <2>2. H[n] = {e \in G : \A p \in Pixels : p <= n => Contents(e, p) = s[p]}
      BY <2>1
    <2> HIDE DEF H, n, G
    <2> QED
      BY <2>1, <2>2
  <1>14. \A k \in 0..n : H[k] \subseteq G
    OBVIOUS
  <1> HIDE DEF n, G, x, step, H
  <1>3. g \in Steps(G, n)
    BY <1>2 DEF Steps
  <1>4. \E f : f = [k \in 0..n |-> IF k = 0 THEN x ELSE step(f[k - 1], k)]
    <2>1. PICK f \in [0..n -> G] : f[0] = x /\ \A k \in 1..n : f[k] = g[f[k - 1]][k]
      <3>1. RunsOf(G, n, x, g) # {}
        <4> HIDE DEF g
        <4> QED
          BY <1>1, <1>3, Runs
      <3> HIDE DEF g
      <3> QED
        BY <3>1 DEF RunsOf
    <2>2. ASSUME NEW k \in 1..n PROVE f[k] = step(f[k - 1], k)
      <3>1. f[k - 1] \in G
        BY <1>1
      <3> QED
        BY <2>1, <3>1
    <2>3. f = [k \in 0..n |-> IF k = 0 THEN x ELSE step(f[k - 1], k)]
      BY <1>1, <2>1, <2>2
    <2> QED
      BY <2>3
  <1>5. F = [k \in 0..n |-> IF k = 0 THEN x ELSE step(F[k - 1], k)]
    BY <1>4, Zenon
  <1>6. Filled(d, s) = F[n]
    BY DEF Filled, Repeat, n, x, step
  <1> HIDE DEF F
  <1>7. \A k \in 0..n : F[k] \in H[k]
    <2>1. F[0] \in H[0]
      BY <1>1, <1>5
    <2>2. \A k \in 1..n : F[k - 1] \in H[k - 1] => F[k] \in H[k]
      <3> TAKE k \in 1..n
      <3>1. k \in 0..n /\ k # 0 /\ k - 1 \in 0..n
        BY <1>1
      <3>2. F[k] = step(F[k - 1], k)
        BY <1>5, <3>1
      <3> QED
        BY <1>9, <1>14, <3>1, <3>2
    <2> QED
      BY <1>1, <2>1, <2>2, StaysAt, Zenon
  <1>8. F[n] \in H[n]
    BY <1>1, <1>7
  <1> QED
    BY <1>6, <1>8, <1>10

\* An image that is read.
LEMMA LoadImage ==
    ASSUME IInv, NEW s \in [Pixels -> Loaded], Load(s)
    PROVE  Image!Next
  <1> DEFINE counts == [p \in Pixels |-> Len(s[p])]
             all == SetAllSamples(dd, counts)
             room == Alloc(all)
             new == Filled(room, s)
  <1>1. Call(s, "load", 0, 0, new) /\ calls = 0
    BY DEF Load, Filled
  <1> HIDE DEF new
  <1>2. dd \in Sane /\ ~dd.allocated
    BY <1>1 DEF IInv
  <1>3. \A p \in Pixels : s[p] \in Seq(Samples)
    BY Consts
  <1>4. counts \in Numbers /\ \A p \in Pixels : counts[p] = Len(s[p])
    BY <1>3 DEF Numbers
  <1> HIDE DEF counts
  <1>5. all \in Sane /\ all.nsamples = counts
    BY <1>2, <1>4, CountsIs
  <1> HIDE DEF all
  <1>6. room \in Sane /\ room.allocated /\ room.nsamples = counts
    BY <1>5, AllocKeeps
  <1> HIDE DEF room
  <1>7. \A p \in Pixels : Contents(new, p) = s[p]
    <2>1. \A p \in Pixels : room.nsamples[p] = Len(s[p])
      BY <1>4, <1>6
    <2> QED
      BY <1>3, <1>6, <2>1, FilledDoes DEF new
  <1>8. dd' = new /\ last' = <<"load", s, 0, 0>>
    BY <1>1 DEF Call
  <1>9. Pix' = s
    <2>1. Pix' = [p \in Pixels |-> Contents(dd', p)]
      BY DEF Pix
    <2> QED
      BY <1>7, <1>8, <2>1
  <1>10. Image!Load(s)
    BY <1>8, <1>9 DEF Image!Load, Image!Calls, Pix
  <1> QED
    BY <1>10 DEF Image!Next

\* Every step is a step of DeepImage, or changes nothing that it shows.
LEMMA StepImage == IInv /\ IInv' /\ [Next]_vars => [Image!Next]_Image!vars
  <1> SUFFICES ASSUME IInv, IInv', [Next]_vars PROVE Image!Next \/ UNCHANGED Image!vars
    BY DEF Image!vars
  <1>1. /\ dd \in Sane /\ dd' \in Sane /\ \A p \in Pixels : dd'.capacity[p] <= MaxCapacity
    BY DEF IInv
  <1>2. CASE GetPointers
    <2>1. Pix' = Pix
      BY <1>1, <1>2, AllocKeeps DEF GetPointers, Pix
    <2> QED
      BY <1>2, <2>1 DEF GetPointers, Image!vars, Pix
  <1>3. ASSUME NEW s \in [Pixels -> Loaded], Load(s) PROVE Image!Next
    BY <1>3, LoadImage
  <1>4. ASSUME NEW n \in [Pixels -> 0..MaxSamples], ResizeAll(n) PROVE Image!Next
    BY <1>1, <1>4, ResizeAllImage
  <1>5. ASSUME NEW p \in Pixels, PixelCall(p) PROVE Image!Next
    <2>1. CASE \E a \in 0..MaxCapacity, n \in 1..MaxSamples : Insert(p, a, n) \/ Erase(p, a, n)
      BY <1>1, <2>1, InsertImage, EraseImage
    <2>2. CASE \E n \in 0..MaxSamples : Resize(p, n) \/ Reserve(p, n)
      BY <1>1, <2>2, ResizeImage, ReserveImage
    <2>3. CASE \E i \in 1..MaxCapacity, v \in Written : Write(p, i, v)
      BY <1>1, <2>3, WriteImage
    <2>4. CASE \E q \in Pixels : Copy(p, q) \/ Merge(p, q)
      BY <1>1, <2>4, CopyImage, MergeImage
    <2>5. CASE \E u \in Depths : Split(p, u) \/ \E q \in Pixels : Holdout(p, q, u)
      BY <1>1, <2>5, SplitImage, HoldoutImage
    <2>6. CASE Sort(p) \/ MergeOverlaps(p) \/ Cull(p)
      BY <1>1, <2>6, SortImage, OverlapsImage, CullImage
    <2> QED
      BY <1>5, <2>1, <2>2, <2>3, <2>4, <2>5, <2>6 DEF PixelCall
  <1>6. CASE UNCHANGED vars
    <2>1. Pix' = Pix /\ last' = last
      BY <1>6 DEF vars, Pix
    <2> QED
      BY <2>1 DEF Image!vars, Pix
  <1> QED
    BY <1>2, <1>3, <1>4, <1>5, <1>6 DEF Next, PixelCall

\* At first there are no samples.
LEMMA InitImage == Init => Image!Init
  <1> SUFFICES ASSUME Init PROVE Image!Init
    OBVIOUS
  <1>1. dd \in Sane
    BY InitIInv DEF IInv
  <1>2. \A p \in Pixels : Contents(dd, p) = <<>>
    <2> TAKE p \in Pixels
    <2>1. dd.nsamples[p] = 0
      BY DEF Init
    <2>2. Contents(dd, p) \in Seq(Samples) /\ Len(Contents(dd, p)) = 0
      BY <1>1, <2>1, ContentsIs
    <2> QED
      BY <2>2
  <1>3. Pix = [p \in Pixels |-> <<>>]
    BY <1>2 DEF Pix
  <1> QED
    BY <1>3 DEF Init, Image!Init, Pix

\* Whatever is allocated, moved and left stale in the array of deepdata.cpp, each
\* pixel is a sequence of samples of its own, and every call does to it what
\* deepdata.h promises.
THEOREM KeepsPromises == Spec => ImplementsImage
  BY IInvHolds, InitImage, StepImage, PTL DEF Spec, ImplementsImage, Image!Spec

\* The capacity that deep_merge reserves, from the ends of samples that lie in
\* others, is enough for all the pieces that merge_deep_pixels makes.
THEOREM ReservedSuffices == Spec => ReservedIsEnough
  <1> DEFINE A == \A p, q \in Pixels :
                     last' = <<"merge", p, q, 0>> /\ dd'.capacity # dd.capacity =>
                         dd'.capacity[p] <= Reserved(Contents(dd, p), Contents(dd, q))
  <1>1. IInv /\ [Next]_vars => [A]_vars
    <2> SUFFICES ASSUME IInv, Next, NEW p \in Pixels, NEW q \in Pixels,
                        last' = <<"merge", p, q, 0>>, dd'.capacity # dd.capacity
                 PROVE  dd'.capacity[p] <= Reserved(Contents(dd, p), Contents(dd, q))
      OBVIOUS
    <2>1. dd \in Sane /\ dd' \in Sane
      BY NextIInv DEF IInv
    <2>2. p # q /\ dd' = MergePixels(dd, p, q)
      <3>1. CASE GetPointers
        BY <2>1, <3>1, AllocKeeps DEF GetPointers
      <3>2. \A s \in [Pixels -> Loaded] : ~Load(s)
        BY DEF Load, Call
      <3>3. \A n \in [Pixels -> 0..MaxSamples] : ~ResizeAll(n)
        BY DEF ResizeAll, Call
      <3>4. ASSUME NEW x \in Pixels, PixelCall(x) PROVE \E y \in Pixels : Merge(x, y)
        BY <3>4 DEF PixelCall, Insert, Erase, Resize, Reserve, Write, Copy, Split, Holdout, Sort,
                    MergeOverlaps, Cull, Call
      <3>5. ASSUME NEW x \in Pixels, NEW y \in Pixels, Merge(x, y)
            PROVE  p # q /\ dd' = MergePixels(dd, p, q)
        BY <3>5 DEF Merge, Call
      <3> QED
        BY <3>1, <3>2, <3>3, <3>4, <3>5 DEF Next, PixelCall
    <2>3. Widened(dd, dd', p, Reserved(Contents(dd, p), Contents(dd, q)))
      BY <2>1, <2>2, MergeCapacity
    <2>4. dd.capacity \in [Pixels -> Nat] /\ dd'.capacity \in [Pixels -> Nat]
      BY <2>1, Fields DEF Numbers
    <2>5. dd'.capacity[p] # dd.capacity[p]
      BY <2>3, <2>4 DEF Widened
    <2> QED
      BY <2>3, <2>5 DEF Widened
  <1> QED
    BY <1>1, IInvHolds, PTL DEF Spec, ReservedIsEnough
=============================================================================
