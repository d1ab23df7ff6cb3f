--------------------------- MODULE ParallelChunks ---------------------------
(***************************************************************************)
(* How parallel_for_chunked_id and parallel_for_chunked_2D_id              *)
(* (libutil/thread.cpp) divide a range among the tasks of ThreadPool.  A   *)
(* chunk <<b, e>> is the items b..e - 1; threads is what paropt::resolve   *)
(* leaves in maxthreads, and an asked size below 1 leaves the choice to    *)
(* the code.                                                               *)
(***************************************************************************)
EXTENDS Integers, FiniteSets, FiniteSetsExt

CONSTANTS Bounds, AskedSizes, MinItems   \* the inputs that are checked

\* minitems is never 0: the chunks of a short range would be empty, without end.
ASSUME ChunksAssumption ==
    Bounds \subseteq Int /\ AskedSizes \subseteq Int /\ MinItems \subseteq Nat \ {0}

\* Mutant: a share of the range is taken, however short that is.
MutChunkSize(begin, end, asked, threads, minitems) ==
    LET size == Min({asked, end - begin}) IN
    CASE size >= 1 -> size
      [] size < 1 -> (end - begin) \div (2 * threads)
ChunkSize(begin, end, asked, threads, minitems) ==
    LET size == Min({asked, end - begin}) IN
    CASE size >= 1 -> size
      [] size < 1 /\ threads = 1 -> end - begin
      [] size < 1 /\ threads # 1 -> Max({minitems, (end - begin) \div (2 * threads)})

\* The loop from begin in steps of size.
Starts(begin, end, size) == {b \in {begin + k * size : k \in 0..end - begin - 1} : b < end}
Chunks(begin, end, size) == {<<b, Min({end, b + size})>> : b \in Starts(begin, end, size)}

ChunkSize2D(range, asked, tasks) == IF asked < 1 THEN Max({1, range \div tasks}) ELSE asked
\* The chunks of each axis; a task is one of either.
Chunks2D(x, y, askedx, askedy, threads, busy) ==
    LET dx == x[2] - x[1]
        dy == y[2] - y[1]
        ysize == ChunkSize2D(dy, askedy, 2 * threads)
        columns == Max({1, threads \div Max({1, dy \div ysize})})
    IN IF threads = 1 \/ busy \/ (askedx >= dx /\ askedy >= dy) THEN {x} \X {y}
       ELSE Chunks(x[1], x[2], ChunkSize2D(dx, askedx, columns)) \X Chunks(y[1], y[2], ysize)
-----------------------------------------------------------------------------
Within(i, c) == c[1] <= i /\ i < c[2]

\* Every item is in one chunk, none is empty, and none goes outside.
CoversRange(threads) ==
    \A begin, end \in Bounds, asked \in AskedSizes, m \in MinItems :
        LET all == Chunks(begin, end, ChunkSize(begin, end, asked, threads, m)) IN
        /\ \A c \in all : begin <= c[1] /\ c[1] < c[2] /\ c[2] <= end
        /\ \A i \in begin..end - 1 : Cardinality({c \in all : Within(i, c)}) = 1
CoversRectangle(threads, busy) ==
    \A x, y \in {r \in Bounds \X Bounds : r[1] < r[2]}, askedx, askedy \in AskedSizes :
        LET all == Chunks2D(x, y, askedx, askedy, threads, busy)
            Among(i, j) == {c \in all : Within(i, c[1]) /\ Within(j, c[2])}
        IN /\ \A c \in all : x[1] <= c[1][1] /\ c[1][2] <= x[2] /\ y[1] <= c[2][1] /\ c[2][2] <= y[2]
           /\ \A i \in x[1]..x[2] - 1, j \in y[1]..y[2] - 1 : Cardinality(Among(i, j)) = 1
=============================================================================
