---------------------------- MODULE MCThreadPool ----------------------------
(* Instances of ThreadPool for TLC.  Client a runs a loop of two tasks, of   *)
(* which those in Nested hold a loop of their own; client b fires a task and *)
(* forgets it, and resizes and destroys the pool.                            *)
EXTENDS ThreadPool, ParallelChunks

CONSTANTS a, b, Nested   \* the tasks that hold a loop

MCWork == [c \in Clients |-> IF c = a THEN {1, 2} ELSE {}]
MCFired == [c \in Clients |-> IF c = b THEN {4} ELSE {}]
MCSubtasks == [k \in Tasks |-> IF k \in Nested THEN {10 * k, 10 * k + 1} ELSE {}]

\* A loop that begins, with however many threads the pool has just then and
\* however long its queue is, divides its range so that every item is in one chunk.
ChunksCoverOnce ==
    [][\A c \in Clients : pc[c] = "idle" /\ pc'[c] \in InLoop =>
          CoversRange(size + 1) /\ CoversRectangle(size + 1, very_busy)]_vars
=============================================================================
