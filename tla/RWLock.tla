------------------------------- MODULE RWLock -------------------------------
(***************************************************************************)
(* What a reader/writer mutex promises its clients: any number of readers, *)
(* or one writer and nobody else.  Acquiring is one atomic step; how long  *)
(* it takes, and who is preferred, is left open.  This is the              *)
(* specification that spin_rw_mutex (module SpinRWMutex) implements, and   *)
(* the one the models of its users rely on.                                *)
(***************************************************************************)
CONSTANT Threads

VARIABLES readers,  \* the threads that hold the lock shared
          writer    \* the threads that hold it exclusively (at most one)

lockVars == <<readers, writer>>

Init == readers = {} /\ writer = {}

AcquireShared(t) ==
    /\ t \notin readers /\ writer = {}
    /\ readers' = readers \union {t}
    /\ UNCHANGED writer

ReleaseShared(t) ==
    /\ t \in readers
    /\ readers' = readers \ {t}
    /\ UNCHANGED writer

AcquireExclusive(t) ==
    /\ readers = {} /\ writer = {}
    /\ writer' = {t}
    /\ UNCHANGED readers

ReleaseExclusive(t) ==
    /\ t \in writer
    /\ writer' = {}
    /\ UNCHANGED readers

Next == \E t \in Threads : \/ AcquireShared(t) \/ ReleaseShared(t)
                           \/ AcquireExclusive(t) \/ ReleaseExclusive(t)

Spec == Init /\ [][Next]_lockVars
=============================================================================
