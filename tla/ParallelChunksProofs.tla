------------------------ MODULE ParallelChunksProofs ------------------------
(***************************************************************************)
(* Proofs that the chunks of a parallel loop cover its range, whatever the *)
(* bounds, the sizes asked for and the number of threads are, and so that  *)
(* every loop that begins in a run of ThreadPool is divided right.         *)
(***************************************************************************)
EXTENDS MCThreadPool, ThreadPoolProofs

\* Min and Max of two numbers.
LEMMA MinPair ==
    ASSUME NEW m \in Int, NEW n \in Int
    PROVE  Min({m, n}) = IF m <= n THEN m ELSE n
  <1>1. \E x \in {m, n} : \A y \in {m, n} : x <= y
    OBVIOUS
  <1>2. Min({m, n}) \in {m, n} /\ \A y \in {m, n} : Min({m, n}) <= y
    BY <1>1 DEF Min
  <1> QED
    BY <1>2

\* Quotients are integers.
LEMMA DivInt ==
    ASSUME NEW m \in Int, NEW n \in Nat \ {0}
    PROVE  m \div n \in Int
  OBVIOUS

\* Multiples of the chunk size are a chunk apart at least.
LEMMA Apart ==
    ASSUME NEW sz \in Nat \ {0}, NEW j \in Nat, NEW k \in Nat, j < k
    PROVE  j * sz + sz <= k * sz
  <1> DEFINE d == k - j - 1
  <1>1. d \in Nat /\ k = j + 1 + d
    OBVIOUS
  <1>2. d * sz \in Nat
    BY <1>1
  <1>3. (j + 1 + d) * sz = j * sz + sz + d * sz
    BY <1>1
  <1> QED
    BY <1>1, <1>2, <1>3

\* The chunk an item is in begins with the greatest multiple that is no greater.
LEMMA StartBefore ==
    ASSUME NEW begin \in Int, NEW end \in Int, NEW sz \in Nat \ {0}, NEW i \in begin..end - 1
    PROVE  \E s \in Starts(begin, end, sz) : s <= i /\ i < s + sz
  <1> DEFINE S == {k \in 0..end - begin - 1 : begin + k * sz <= i}
  <1>1. S \in SUBSET Nat /\ 0 \in S /\ \A k \in S : k <= end - begin - 1
    OBVIOUS
  <1>2. PICK k \in S : \A j \in S : j <= k
    <2>1. end - begin - 1 \in Nat
      OBVIOUS
    <2> QED
      BY <1>1, <2>1, MaxOf
  <1>3. k \in Nat /\ k * sz \in Nat /\ begin + k * sz <= i
    BY <1>1
  <1>4. i < begin + k * sz + sz
    <2> SUFFICES ASSUME begin + k * sz + sz <= i PROVE FALSE
      BY <1>3
    <2>1. (k + 1) * sz = k * sz + sz
      BY <1>3
    <2>2. k + 1 <= (k + 1) * sz
      <3>1. k <= k * sz
        <4>1. k * sz = k + k * (sz - 1) /\ k * (sz - 1) \in Nat
          BY <1>3
        <4> QED
          BY <1>3, <4>1
      <3> QED
        BY <1>3, <2>1, <3>1
    <2>3. k + 1 \in S
      BY <1>3, <2>1, <2>2
    <2> QED
      BY <1>2, <1>3, <2>3
  <1>5. begin + k * sz \in Starts(begin, end, sz)
    BY <1>1, <1>3 DEF Starts
  <1> QED
    BY <1>3, <1>4, <1>5

\* It is the only one.
LEMMA OneStart ==
    ASSUME NEW begin \in Int, NEW end \in Int, NEW sz \in Nat \ {0}, NEW i \in Int,
           NEW s \in Starts(begin, end, sz), NEW d \in Starts(begin, end, sz),
           s <= i, i < s + sz, d <= i, i < d + sz
    PROVE  s = d
  <1>1. PICK j \in 0..end - begin - 1 : s = begin + j * sz
    BY DEF Starts
  <1>2. PICK k \in 0..end - begin - 1 : d = begin + k * sz
    BY DEF Starts
  <1>3. j \in Nat /\ k \in Nat /\ j * sz \in Int /\ k * sz \in Int
    OBVIOUS
  <1>4. ~(j < k)
    BY <1>1, <1>2, <1>3, Apart
  <1>5. ~(k < j)
    BY <1>1, <1>2, <1>3, Apart
  <1> QED
    BY <1>1, <1>2, <1>3, <1>4, <1>5

\* The start of a chunk is an item of the range.
LEMMA StartInRange ==
    ASSUME NEW begin \in Int, NEW end \in Int, NEW sz \in Nat \ {0},
           NEW s \in Starts(begin, end, sz)
    PROVE  s \in Int /\ begin <= s /\ s < end
  <1>1. PICK k \in 0..end - begin - 1 : s = begin + k * sz
    BY DEF Starts
  <1>2. k * sz \in Nat
    OBVIOUS
  <1>3. s \in Int /\ begin <= s /\ s < end
    BY <1>1, <1>2 DEF Starts
  <1> QED
    BY <1>3

\* A chunk is an interval of the range, and none is empty.
LEMMA ChunkBounds ==
    ASSUME NEW begin \in Int, NEW end \in Int, NEW sz \in Nat \ {0}
    PROVE  \A c \in Chunks(begin, end, sz) :
               c[1] \in Int /\ c[2] \in Int /\ begin <= c[1] /\ c[1] < c[2] /\ c[2] <= end
  <1> SUFFICES ASSUME NEW s \in Starts(begin, end, sz), NEW c, c = <<s, Min({end, s + sz})>>
               PROVE  c[1] \in Int /\ c[2] \in Int /\ begin <= c[1] /\ c[1] < c[2] /\ c[2] <= end
    BY Zenon DEF Chunks
  <1>1. c[1] = s /\ c[2] = Min({end, s + sz})
    OBVIOUS
  <1>2. /\ s \in Int /\ begin <= s /\ s < end
        /\ Min({end, s + sz}) \in Int
        /\ Min({end, s + sz}) = IF end <= s + sz THEN end ELSE s + sz
    <2>1. s \in Int /\ begin <= s /\ s < end
      BY StartInRange
    <2> QED
      BY <2>1, MinPair
  <1> QED
    BY <1>1, <1>2

\* Each item of the range is in one chunk and in no other.
LEMMA ChunkOfItem ==
    ASSUME NEW begin \in Int, NEW end \in Int, NEW sz \in Nat \ {0}
    PROVE  \A i \in begin..end - 1 : \E c \in Chunks(begin, end, sz) :
               /\ Within(i, c)
               /\ \A d \in Chunks(begin, end, sz) : Within(i, d) => d = c
  <1> SUFFICES ASSUME NEW i \in begin..end - 1
               PROVE  \E c \in Chunks(begin, end, sz) :
                         /\ Within(i, c)
                         /\ \A d \in Chunks(begin, end, sz) : Within(i, d) => d = c
    OBVIOUS
  <1>1. PICK s \in Starts(begin, end, sz) : s <= i /\ i < s + sz
    BY StartBefore
  <1>2. PICK c : c = <<s, Min({end, s + sz})>>
    OBVIOUS
  <1>3. c \in Chunks(begin, end, sz)
    BY <1>2, Zenon DEF Chunks
  <1>4. Within(i, c)
    <2>1. c[1] = s /\ c[2] = Min({end, s + sz})
      BY <1>2
    <2>2. /\ s \in Int
          /\ Min({end, s + sz}) = IF end <= s + sz THEN end ELSE s + sz
      <3>1. s \in Int
        BY StartInRange
      <3> QED
        BY <3>1, MinPair
    <2> QED
      BY <1>1, <2>1, <2>2 DEF Within
  <1>5. ASSUME NEW d \in Chunks(begin, end, sz), Within(i, d) PROVE d = c
    <2>1. PICK e \in Starts(begin, end, sz) : d = <<e, Min({end, e + sz})>>
      BY Zenon DEF Chunks
    <2>2. d[1] = e /\ d[2] = Min({end, e + sz})
      BY <2>1
    <2>3. /\ e \in Int
          /\ Min({end, e + sz}) = IF end <= e + sz THEN end ELSE e + sz
      <3>1. e \in Int
        BY StartInRange
      <3> QED
        BY <3>1, MinPair
    <2>4. e <= i /\ i < e + sz
      BY <1>5, <2>2, <2>3 DEF Within
    <2>5. s \in Int
      BY StartInRange
    <2>6. e = s
      BY <1>1, <2>4, OneStart
    <2> QED
      BY <1>2, <2>1, <2>6
  <1> QED
    BY <1>3, <1>4, <1>5

\* No chunk of a range that is not empty is empty.
LEMMA SizePositive ==
    ASSUME NEW begin \in Int, NEW end \in Int, NEW asked \in Int, NEW threads \in Nat \ {0},
           NEW m \in Nat \ {0}, begin < end
    PROVE  ChunkSize(begin, end, asked, threads, m) \in Nat \ {0}
  <1> DEFINE sz == Min({asked, end - begin})
  <1>1. sz \in Int
    BY MinPair
  <1>2. 2 * threads \in Nat \ {0}
    OBVIOUS
  <1>3. (end - begin) \div (2 * threads) \in Int
    BY <1>2, DivInt
  <1>4. Max({m, (end - begin) \div (2 * threads)}) \in Nat \ {0}
    BY <1>3, MaxPair
  <1> HIDE DEF sz
  <1>5. sz >= 1 => sz \in Nat \ {0}
    BY <1>1
  <1>6. end - begin \in Nat \ {0}
    OBVIOUS
  <1>7. CASE sz >= 1
    <2>1. ~(sz < 1)
      BY <1>1, <1>7
    <2>2. ChunkSize(begin, end, asked, threads, m) = sz
      BY <1>7, <2>1, Zenon DEF ChunkSize, sz
    <2> QED
      BY <1>5, <1>7, <2>2
  <1>8. CASE ~(sz >= 1)
    <2>1. sz < 1
      BY <1>1, <1>8
    <2>2. CASE threads = 1
      <3>1. ChunkSize(begin, end, asked, threads, m) = end - begin
        BY <1>8, <2>1, <2>2, Zenon DEF ChunkSize, sz
      <3> QED
        BY <1>6, <3>1
    <2>3. CASE threads # 1
      <3>1. ChunkSize(begin, end, asked, threads, m) = Max({m, (end - begin) \div (2 * threads)})
        BY <1>8, <2>1, <2>3, Zenon DEF ChunkSize, sz
      <3> QED
        BY <1>4, <3>1
    <2> QED
      BY <2>2, <2>3
  <1> QED
    BY <1>7, <1>8

\* An empty range, or one with its bounds the wrong way round, has no chunk.
LEMMA NoChunks ==
    ASSUME NEW begin \in Int, NEW end \in Int, NEW sz, end <= begin
    PROVE  Chunks(begin, end, sz) = {}
  <1>1. 0..end - begin - 1 = {}
    OBVIOUS
  <1>2. Starts(begin, end, sz) = {}
    BY <1>1 DEF Starts
  <1> QED
    BY <1>2 DEF Chunks

\* However many threads there are: every item of a range is in one chunk of it.
THEOREM RangeCovered ==
    ASSUME NEW threads \in Nat \ {0}
    PROVE  CoversRange(threads)
  <1> SUFFICES ASSUME NEW begin \in Bounds, NEW end \in Bounds, NEW asked \in AskedSizes,
                      NEW m \in MinItems
               PROVE  LET all == Chunks(begin, end, ChunkSize(begin, end, asked, threads, m)) IN
                      /\ \A c \in all : begin <= c[1] /\ c[1] < c[2] /\ c[2] <= end
                      /\ \A i \in begin..end - 1 : Cardinality({c \in all : Within(i, c)}) = 1
    BY DEF CoversRange
  <1> DEFINE sz == ChunkSize(begin, end, asked, threads, m)
             all == Chunks(begin, end, sz)
  <1>1. begin \in Int /\ end \in Int /\ asked \in Int /\ m \in Nat \ {0}
    BY ChunksAssumption
  <1>2. CASE begin < end
    <2>1. sz \in Nat \ {0}
      BY <1>1, <1>2, SizePositive
    <2> HIDE DEF sz
    <2>2. \A c \in all : begin <= c[1] /\ c[1] < c[2] /\ c[2] <= end
      BY <1>1, <2>1, ChunkBounds
    <2>4. \A i \in begin..end - 1 : \E c : {d \in all : Within(i, d)} = {c}
      <3>1. \A i \in begin..end - 1 : \E c \in all :
               Within(i, c) /\ (\A d \in all : Within(i, d) => d = c)
        BY <1>1, <2>1, ChunkOfItem
      <3> HIDE DEF all
      <3> QED
        BY <3>1
    <2>3. \A i \in begin..end - 1 : Cardinality({d \in all : Within(i, d)}) = 1
      BY <2>4, FS_Singleton
    <2> QED
      BY <2>2, <2>3 DEF sz
  <1>3. CASE ~(begin < end)
    <2>1. all = {}
      BY <1>1, <1>3, NoChunks
    <2>2. begin..end - 1 = {}
      BY <1>1, <1>3
    <2> QED
      BY <2>1, <2>2
  <1> QED
    BY <1>2, <1>3

\* A chunk of the two-dimensional loop is never empty.
LEMMA Size2DPositive ==
    ASSUME NEW range \in Int, NEW asked \in Int, NEW tasks \in Nat \ {0}
    PROVE  ChunkSize2D(range, asked, tasks) \in Nat \ {0}
  <1>1. range \div tasks \in Int
    BY DivInt
  <1>2. Max({1, range \div tasks}) \in Nat \ {0}
    BY <1>1, MaxPair
  <1> QED
    BY <1>2 DEF ChunkSize2D

\* Every item of a rectangle is in one chunk of it, too.
THEOREM RectangleCovered ==
    ASSUME NEW threads \in Nat \ {0}, NEW busy \in BOOLEAN
    PROVE  CoversRectangle(threads, busy)
  <1> DEFINE Covered(all, x, y) ==
          /\ \A c \in all : x[1] <= c[1][1] /\ c[1][2] <= x[2] /\ y[1] <= c[2][1] /\ c[2][2] <= y[2]
          /\ \A i \in x[1]..x[2] - 1, j \in y[1]..y[2] - 1 :
                Cardinality({c \in all : Within(i, c[1]) /\ Within(j, c[2])}) = 1
  <1> SUFFICES ASSUME NEW x \in {r \in Bounds \X Bounds : r[1] < r[2]},
                      NEW y \in {r \in Bounds \X Bounds : r[1] < r[2]},
                      NEW askedx \in AskedSizes, NEW askedy \in AskedSizes
               PROVE  Covered(Chunks2D(x, y, askedx, askedy, threads, busy), x, y)
    BY DEF CoversRectangle
  <1>1. /\ x[1] \in Int /\ x[2] \in Int /\ y[1] \in Int /\ y[2] \in Int
        /\ askedx \in Int /\ askedy \in Int /\ x[1] < x[2] /\ y[1] < y[2]
    BY ChunksAssumption
  <1>2. Covered({x} \X {y}, x, y)
    <2>1. \A c \in {x} \X {y} : c = <<x, y>>
      OBVIOUS
    <2>2. ASSUME NEW i \in x[1]..x[2] - 1, NEW j \in y[1]..y[2] - 1
          PROVE  Cardinality({c \in {x} \X {y} : Within(i, c[1]) /\ Within(j, c[2])}) = 1
      <3>1. Within(i, x) /\ Within(j, y)
        BY <1>1 DEF Within
      <3>2. {c \in {x} \X {y} : Within(i, c[1]) /\ Within(j, c[2])} = {<<x, y>>}
        BY <3>1
      <3> QED
        BY <3>2, FS_Singleton
    <2> QED
      BY <1>1, <2>1, <2>2
  <1>3. ASSUME NEW sizex \in Nat \ {0}, NEW sizey \in Nat \ {0}
        PROVE  Covered(Chunks(x[1], x[2], sizex) \X Chunks(y[1], y[2], sizey), x, y)
    <2> DEFINE X == Chunks(x[1], x[2], sizex)
               Y == Chunks(y[1], y[2], sizey)
    <2>1. /\ \A c \in X : x[1] <= c[1] /\ c[2] <= x[2]
          /\ \A i \in x[1]..x[2] - 1 : \E c : {d \in X : Within(i, d)} = {c}
      <3>1. \A c \in X : x[1] <= c[1] /\ c[2] <= x[2]
        BY <1>1, ChunkBounds
      <3>2. \A i \in x[1]..x[2] - 1 : \E c : {d \in X : Within(i, d)} = {c}
        <4>1. \A i \in x[1]..x[2] - 1 : \E c \in X :
                 Within(i, c) /\ (\A d \in X : Within(i, d) => d = c)
          BY <1>1, ChunkOfItem
        <4> HIDE DEF X
        <4> QED
          BY <4>1
      <3> QED
        BY <3>1, <3>2
    <2>2. /\ \A c \in Y : y[1] <= c[1] /\ c[2] <= y[2]
          /\ \A j \in y[1]..y[2] - 1 : \E c : {d \in Y : Within(j, d)} = {c}
      <3>1. \A c \in Y : y[1] <= c[1] /\ c[2] <= y[2]
        BY <1>1, ChunkBounds
      <3>2. \A j \in y[1]..y[2] - 1 : \E c : {d \in Y : Within(j, d)} = {c}
        <4>1. \A j \in y[1]..y[2] - 1 : \E c \in Y :
                 Within(j, c) /\ (\A d \in Y : Within(j, d) => d = c)
          BY <1>1, ChunkOfItem
        <4> HIDE DEF Y
        <4> QED
          BY <4>1
      <3> QED
        BY <3>1, <3>2
    <2> HIDE DEF X, Y
    <2>3. ASSUME NEW i \in x[1]..x[2] - 1, NEW j \in y[1]..y[2] - 1
          PROVE  Cardinality({c \in X \X Y : Within(i, c[1]) /\ Within(j, c[2])}) = 1
      <3>1. PICK c : {d \in X : Within(i, d)} = {c}
        BY <2>1
      <3>2. PICK e : {d \in Y : Within(j, d)} = {e}
        BY <2>2
      <3>3. {d \in X \X Y : Within(i, d[1]) /\ Within(j, d[2])} = {<<c, e>>}
        <4>1. c \in X /\ Within(i, c) /\ e \in Y /\ Within(j, e)
          BY <3>1, <3>2
        <4>2. \A d \in X \X Y : Within(i, d[1]) /\ Within(j, d[2]) => d = <<c, e>>
          BY <3>1, <3>2
        <4>3. <<c, e>> \in {d \in X \X Y : Within(i, d[1]) /\ Within(j, d[2])}
          BY <4>1
        <4> QED
          BY <4>2, <4>3
      <3> QED
        BY <3>3, FS_Singleton
    <2>4. \A c \in X \X Y : c[1] \in X /\ c[2] \in Y
      OBVIOUS
    <2> QED
      BY <2>1, <2>2, <2>3, <2>4 DEF X, Y
  <1> DEFINE dx == x[2] - x[1]
             dy == y[2] - y[1]
             sizey == ChunkSize2D(dy, askedy, 2 * threads)
             columns == Max({1, threads \div Max({1, dy \div sizey})})
             sizex == ChunkSize2D(dx, askedx, columns)
  <1>4. sizey \in Nat \ {0}
    <2>1. 2 * threads \in Nat \ {0} /\ dy \in Int
      BY <1>1
    <2> QED
      BY <1>1, <2>1, Size2DPositive
  <1>5. columns \in Nat \ {0}
    <2> HIDE DEF sizey
    <2>1. dy \div sizey \in Int
      BY <1>1, <1>4, DivInt
    <2> DEFINE rows == Max({1, dy \div sizey})
    <2>2. rows \in Nat \ {0}
      BY <2>1, MaxPair
    <2> HIDE DEF rows
    <2>3. threads \div rows \in Int
      BY <2>2, DivInt
    <2>4. Max({1, threads \div rows}) \in Nat \ {0}
      BY <2>3, MaxPair
    <2> QED
      BY <2>4 DEF rows
  <1>6. sizex \in Nat \ {0}
    <2> HIDE DEF columns
    <2>1. dx \in Int
      BY <1>1
    <2> QED
      BY <1>1, <1>5, <2>1, Size2DPositive
  <1>7. Covered(Chunks(x[1], x[2], sizex) \X Chunks(y[1], y[2], sizey), x, y)
    BY <1>3, <1>4, <1>6
  <1>8. \/ Chunks2D(x, y, askedx, askedy, threads, busy) = {x} \X {y}
        \/ Chunks2D(x, y, askedx, askedy, threads, busy)
             = Chunks(x[1], x[2], sizex) \X Chunks(y[1], y[2], sizey)
    BY Zenon DEF Chunks2D
  <1> HIDE DEF Covered, sizex, sizey, dx, dy
  <1> QED
    BY <1>2, <1>7, <1>8, Zenon

\* Every loop that begins divides its range so that every item is in one chunk,
\* with the size the pool has just then.
THEOREM LoopsCovered == Spec => ChunksCoverOnce
  <1>1. ASSUME TypeOK PROVE CoversRange(size + 1) /\ CoversRectangle(size + 1, very_busy)
    <2>1. size + 1 \in Nat \ {0}
      BY <1>1 DEF TypeOK
    <2>2. very_busy \in BOOLEAN
      BY DEF very_busy
    <2> QED
      BY <2>1, <2>2, RangeCovered, RectangleCovered
  <1>2. TypeOK => \A c \in Clients : pc[c] = "idle" /\ pc'[c] \in InLoop =>
                     CoversRange(size + 1) /\ CoversRectangle(size + 1, very_busy)
    BY <1>1
  <1> QED
    BY <1>2, TypeCorrect, PTL DEF ChunksCoverOnce, Spec
=============================================================================
