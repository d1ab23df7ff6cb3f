-------------------------- MODULE FileCacheProofs ---------------------------
(***************************************************************************)
(* Proofs about FileCache, for any threads, files, bins, contents, limits  *)
(* and bounds.                                                             *)
(*                                                                         *)
(* Shape has the types, and what a thread's variables are at each place of *)
(* its program.  Locked says which files' mutexes a thread has, that a     *)
(* file about to be opened is closed, that a query's file is in the map,   *)
(* and how the open files, the threads between the halves of               *)
(* set_imageinput and those that the limit has let pass add up.  Heads     *)
(* says what an open, a valid, a broken and a fingerprinted file have.     *)
(* Fresh is about a cache that is quiet while it is invalidated: of which  *)
(* version a file's handle, time and fingerprint are, what an invalidation *)
(* has dealt with, and which headers and pixels a query may rely on.       *)
(***************************************************************************)
EXTENDS FileCache, DataLemmas, FiniteSetTheorems, TLAPS

\* Where a query is when it waits to open its file, or sweeps before it does.
SweepPcs  == {"find name", "sweep", "begin", "next", "step", "release", "save name"}
OpenPcs   == {"open", "limit", "sweep lock", "open lock"} \union SweepPcs
OpenedPcs == {"opening", "headers", "publish"}
QueryPcs  == {"verify", "verify lock", "opened", "compare", "unlock", "use", "check", "pixels",
              "answered", "failed"} \union OpenPcs \union OpenedPcs
LoopPcs   == {"begin", "next", "step", "visit"}
ClearPcs  == {"invalidate", "invalidate lock", "clear spec", "erase print"}

\* The place a thread is at, or goes to when it has lowered the count.
Goal(p, af) == IF p = "lower" THEN af ELSE p

\* What a thread at place p, on its way to g, has in op, asked, file, then,
\* inp, cand, key, bin and todo.
FitsAt(p, g, o, a, f, th, in, cd, k, b, td) ==
    /\ p = "idle" <=> o = "idle"
    /\ o # "idle" => a \in Files
    /\ o \in Queries => /\ f \in Files
                        /\ g \in QueryPcs \union {"find"}
                        /\ g \in OpenPcs \union OpenedPcs => th \in {"opened", "pixels"}
    /\ g \in QueryPcs \ LoopPcs => o \in Queries
    /\ o \in {"close", "close all"} => g \in {"find"} \union LoopPcs
    /\ o \in {"invalidate all", "refresh all"} => g \in LoopPcs \union ClearPcs
    /\ o \in {"invalidate", "refresh"} => g \in {"find", "check time"} \union ClearPcs
    /\ p = "lower" => g \in {"unlock", "step", "clear spec"}
    /\ g = "find" => o \notin {"close all", "invalidate all", "refresh all"}
    /\ g = "check time" => o = "refresh" /\ td # {}
    /\ p \in {"begin", "next"} => b \in Bins
    /\ g \in {"release", "step"} => k # None
    /\ g \in ClearPcs => IF o = "invalidate all" THEN g = "clear spec" /\ k # None ELSE td # {}
    /\ p = "compare" => cd # None
    /\ p \in {"headers", "publish"} => in # Closed
    /\ p = "headers" => in \in 1..Last(f) /\ Content[f][in] \in Prints
Sweeps(t) == op[t] \in Queries /\ Goal(pc[t], after[t]) \in SweepPcs
Fits == \A t \in Clients :
    /\ FitsAt(pc[t], Goal(pc[t], after[t]), op[t], asked[t], file[t], then[t], inp[t], cand[t],
              key[t], bin[t], todo[t])
    /\ sweepMutex = t <=> Sweeps(t)
    /\ pc[t] = "find name" => sweepName # None

DiskExists == \A f \in Files : disk[f] \in 1..Last(f)

\* The types, in parts; the range of openFiles follows from Locked.
FilesTyped ==
    /\ input \in OnFiles(Versions \union {Closed}) /\ owner \in OnFiles(MaybeClient)
    /\ valid \in OnFiles(BOOLEAN) /\ broken \in OnFiles(BOOLEAN) /\ used \in OnFiles(BOOLEAN)
    /\ fingerprint \in OnFiles(Prints \union {None}) /\ duplicate \in OnFiles(MaybeFile)
    /\ mod_time \in OnFiles(Versions \union {Closed})
GlobalTyped ==
    /\ m_files \subseteq Files /\ binLock \in [Bins -> MaybeClient] /\ openFiles \in Int
    /\ sweepMutex \in MaybeClient /\ sweepName \in MaybeFile
    /\ fingerprints \in [Prints -> MaybeFile]
WorldTyped ==
    /\ disk \in OnFiles(Versions) /\ floor \in OnFiles(Versions) /\ calls \in 0..MaxCalls
    /\ gaveUp \in Nat
CallTyped ==
    /\ op \in PerClient(Ops \union {"idle"})
    /\ asked \in PerClient(MaybeFile) /\ file \in PerClient(MaybeFile)
    /\ then \in PerClient({"idle", "opened", "pixels"}) /\ after \in PerClient(Places)
    /\ inp \in PerClient(Versions \union {Closed}) /\ cand \in PerClient(MaybeFile)
ClearTyped ==
    /\ todo \in PerClient(SUBSET Files)
    /\ print \in PerClient(Prints \union {None}) /\ atStart \in PerClient(OnFiles(Versions))
ClockTyped ==
    /\ pc \in PerClient(Places)
    /\ key \in PerClient(MaybeFile) /\ bin \in PerClient(0..NBins)
    /\ loops \in PerClient(0..FullLoops + 1)
Typed == FilesTyped /\ GlobalTyped /\ WorldTyped /\ CallTyped /\ ClearTyped /\ ClockTyped

Shape == Typed /\ Fits /\ DiskExists
-----------------------------------------------------------------------------
(* Shape: the types, and what each thread has where.                       *)

\* What the assumption says of the names.
LEMMA Names ==
    /\ None \notin Clients /\ None \notin Files /\ None \notin Prints /\ Missing \notin Prints
    /\ NBins \in Nat \ {0} /\ NFiles \in Nat \ {0} /\ BinOf \in [Files -> Bins]
    /\ Bins \subseteq 0..NBins /\ Files \subseteq Nat /\ 1 \in Bins /\ 1 \in Files
    /\ FullLoops \in Nat /\ MaxCalls \in Nat /\ MaxOpen \in Nat \ {0} /\ Slack \in Nat
    /\ IsFiniteSet(Clients) /\ IsFiniteSet(Files)
    /\ \A f \in Files : Last(f) \in Nat \ {0}
    /\ \A f \in Files : \A v \in 1..Last(f) : Content[f][v] \in Prints \union {Missing}
  <1>1. /\ NBins \in Nat \ {0} /\ NFiles \in Nat \ {0} /\ BinOf \in [Files -> Bins]
        /\ FullLoops \in Nat \ {0} /\ MaxCalls \in Nat /\ MaxOpen \in Nat \ {0} /\ Slack \in Nat
        /\ IsFiniteSet(Clients) /\ Missing \notin Prints
        /\ None \notin Clients /\ None \notin Int /\ None \notin Prints
    BY FileCacheAssumption
  <1>2. ASSUME NEW f \in Files
        PROVE  Last(f) \in Nat \ {0} /\ \A v \in 1..Last(f) : Content[f][v] \in Prints \union {Missing}
    <2>1. Content[f] \in Seq(Prints \union {Missing}) /\ Content[f] # <<>>
      BY FileCacheAssumption
    <2> QED
      BY <2>1 DEF Last
  <1>3. IsFiniteSet(Files)
    BY <1>1, FS_Interval DEF Files
  <1>4. Bins \subseteq 0..NBins /\ 1 \in Bins
    BY <1>1 DEF Bins
  <1>5. Files \subseteq Nat /\ 1 \in Files /\ None \notin Files
    BY <1>1 DEF Files
  <1>6. FullLoops \in Nat
    BY <1>1
  <1>7. /\ \A f \in Files : Last(f) \in Nat \ {0}
        /\ \A f \in Files : \A v \in 1..Last(f) : Content[f][v] \in Prints \union {Missing}
    BY <1>2
  <1> QED
    BY <1>1, <1>3, <1>4, <1>5, <1>6, <1>7, Zenon

\* Versions are numbered up to the longest content's.
LEMMA VersionsOf ==
    /\ Versions \subseteq Nat \ {0} /\ Closed \notin Versions /\ 1 \in Versions
    /\ \A f \in Files : 1..Last(f) \subseteq Versions
  <1> DEFINE S == {Last(f) : f \in Files}
             last == [f \in 1..NFiles |-> Last(f)]
  <1>1. last \in [1..NFiles -> Nat]
    BY Names DEF Files
  <1>2. PICK b \in Nat : \A f \in 1..NFiles : last[f] <= b
    BY <1>1, Names, Bounded
  <1>3. S \in SUBSET Nat /\ S # {} /\ \A n \in S : n <= b
    BY <1>2, Names DEF Files
  <1>4. Max(S) \in S /\ \A n \in S : n <= Max(S)
    BY <1>3, MaxOf
  <1>5. Max(S) \in Nat \ {0} /\ \A f \in Files : Last(f) <= Max(S)
    BY <1>4, Names
  <1> DEFINE top == Max(S)
  <1>6. Versions = 1..top
    BY DEF Versions
  <1>7. top \in Nat \ {0} /\ \A f \in Files : Last(f) <= top /\ Last(f) \in Nat \ {0}
    BY <1>5, Names
  <1> HIDE DEF top
  <1>8. \A f \in Files : 1..Last(f) \subseteq 1..top
    BY <1>7
  <1> QED
    BY <1>6, <1>7, <1>8 DEF Closed

\* TypeOK is the conjunction of its parts, but for the range of the count.
LEMMA TypeParts ==
    TypeOK <=> Typed /\ openFiles \in 0..NFiles + Cardinality(Clients)
  <1>1. NFiles + Cardinality(Clients) \in Int
    BY Names, FS_CardinalityType
  <1> QED
    BY <1>1 DEF TypeOK, Typed, FilesTyped, GlobalTyped, WorldTyped, CallTyped, ClearTyped, ClockTyped
-----------------------------------------------------------------------------
\* A step of one thread disturbs nobody else.
Moves(t) ==
    /\ \A u \in Clients \ {t} :
          /\ pc'[u] = pc[u] /\ after'[u] = after[u] /\ op'[u] = op[u] /\ asked'[u] = asked[u]
          /\ file'[u] = file[u] /\ then'[u] = then[u] /\ inp'[u] = inp[u]
          /\ cand'[u] = cand[u] /\ key'[u] = key[u] /\ bin'[u] = bin[u] /\ todo'[u] = todo[u]
    /\ \/ sweepMutex' = sweepMutex
       \/ sweepMutex = None /\ sweepMutex' = t
       \/ sweepMutex = t /\ sweepMutex' = None
    /\ sweepName' = sweepName \/ sweepMutex = t
FitsAfter(t) ==
    /\ FitsAt(pc[t], Goal(pc[t], after[t]), op[t], asked[t], file[t], then[t], inp[t], cand[t],
              key[t], bin[t], todo[t])'
    /\ sweepMutex' = t <=> Sweeps(t)'
    /\ pc'[t] = "find name" => sweepName' # None

\* What Fits says of a thread.
LEMMA Fit ==
    ASSUME Fits, NEW t \in Clients
    PROVE  /\ FitsAt(pc[t], Goal(pc[t], after[t]), op[t], asked[t], file[t], then[t], inp[t],
                     cand[t], key[t], bin[t], todo[t])
           /\ sweepMutex = t <=> Sweeps(t)
           /\ pc[t] = "find name" => sweepName # None
  BY DEF Fits

\* A step of one thread is the others' Fits if it leaves their variables alone.
LEMMA ThreadMoves ==
    ASSUME Fits, NEW t \in Clients, Moves(t), FitsAfter(t)
    PROVE  Fits'
  <1> SUFFICES ASSUME NEW u \in Clients, u # t
               PROVE  /\ FitsAt(pc[u], Goal(pc[u], after[u]), op[u], asked[u], file[u], then[u],
                                inp[u], cand[u], key[u], bin[u], todo[u])'
                      /\ sweepMutex' = u <=> Sweeps(u)'
                      /\ pc'[u] = "find name" => sweepName' # None
    BY DEF Fits, FitsAfter
  <1>1. /\ pc'[u] = pc[u] /\ after'[u] = after[u] /\ op'[u] = op[u] /\ asked'[u] = asked[u]
        /\ file'[u] = file[u] /\ then'[u] = then[u] /\ inp'[u] = inp[u]
        /\ cand'[u] = cand[u] /\ key'[u] = key[u] /\ bin'[u] = bin[u] /\ todo'[u] = todo[u]
    BY DEF Moves
  <1>2. (sweepMutex' = u) <=> (sweepMutex = u)
    BY Names DEF Moves
  <1>3. sweepName' = sweepName \/ sweepMutex # u
    BY DEF Moves
  <1>4. /\ FitsAt(pc[u], Goal(pc[u], after[u]), op[u], asked[u], file[u], then[u], inp[u],
                  cand[u], key[u], bin[u], todo[u])
        /\ sweepMutex = u <=> Sweeps(u)
        /\ pc[u] = "find name" => sweepName # None
    BY Fit
  <1>5. pc[u] = "find name" => sweepMutex = u
    BY <1>4 DEF FitsAt, Goal, Sweeps, SweepPcs, QueryPcs, OpenPcs, LoopPcs
  <1>6. Goal(pc[u], after[u])' = Goal(pc[u], after[u])
    BY <1>1 DEF Goal
  <1>7. Sweeps(u)' <=> Sweeps(u)
    BY <1>1, <1>6 DEF Sweeps
  <1>8. FitsAt(pc[u], Goal(pc[u], after[u]), op[u], asked[u], file[u], then[u], inp[u], cand[u],
               key[u], bin[u], todo[u])'
    <2>1. FitsAt(pc'[u], Goal(pc'[u], after'[u]), op'[u], asked'[u], file'[u], then'[u], inp'[u],
                 cand'[u], key'[u], bin'[u], todo'[u])
      BY <1>1, <1>4, Zenon
    <2> QED
      BY <2>1
  <1>9. pc'[u] = "find name" => sweepName' # None
    BY <1>1, <1>3, <1>4, <1>5
  <1> QED
    BY <1>2, <1>4, <1>7, <1>8, <1>9

\* What is enough to keep the shape.
LEMMA KeepShape ==
    ASSUME Shape, NEW t \in Clients, FilesTyped', GlobalTyped', WorldTyped', CallTyped',
           ClearTyped', ClockTyped', Moves(t), FitsAfter(t), UNCHANGED disk
    PROVE  Shape'
  <1>1. Fits'
    BY ThreadMoves DEF Shape
  <1>2. DiskExists'
    BY DEF Shape, DiskExists
  <1> QED
    BY <1>1, <1>2 DEF Shape, Typed

\* What a query has, at its place.
QueryAt(t) ==
    /\ op[t] \in Queries /\ asked[t] \in Files /\ file[t] \in Files
    /\ pc[t] \in QueryPcs
    /\ pc[t] \in OpenPcs \union OpenedPcs => then[t] \in {"opened", "pixels"}
    /\ pc[t] \in {"begin", "next"} => bin[t] \in Bins
    /\ pc[t] \in {"release", "step"} => key[t] # None
    /\ pc[t] = "compare" => cand[t] # None
    /\ pc[t] \in {"headers", "publish"} => inp[t] # Closed
    /\ pc[t] = "headers" => inp[t] \in 1..Last(file[t]) /\ Content[file[t]][inp[t]] \in Prints
    /\ sweepMutex = t <=> pc[t] \in SweepPcs
    /\ pc[t] = "find name" => sweepName # None

\* The shape says so of a thread at the place of a query, ...
LEMMA QueryFits ==
    ASSUME Shape, NEW t \in Clients, pc[t] \in QueryPcs,
           pc[t] \in LoopPcs => op[t] \in Queries
    PROVE  QueryAt(t)
  <1>1. pc[t] # "lower" /\ pc[t] # "idle"
    BY DEF QueryPcs, OpenPcs, OpenedPcs, SweepPcs
  <1>2. /\ FitsAt(pc[t], pc[t], op[t], asked[t], file[t], then[t], inp[t], cand[t], key[t],
                  bin[t], todo[t])
        /\ sweepMutex = t <=> op[t] \in Queries /\ pc[t] \in SweepPcs
        /\ pc[t] = "find name" => sweepName # None
    BY <1>1, Fit DEF Shape, Goal, Sweeps
  <1>3. op[t] \in Queries /\ op[t] # "idle"
    BY <1>2 DEF FitsAt, Queries
  <1> QED
    BY <1>2, <1>3 DEF FitsAt, QueryAt

\* ... and it keeps the shape if it stays one.
LEMMA QueryStays ==
    ASSUME NEW t \in Clients, QueryAt(t)'
    PROVE  FitsAfter(t)
  <1>1. /\ op'[t] \in Queries /\ op'[t] \in {"read", "info"} /\ pc'[t] \in QueryPcs
        /\ pc'[t] # "lower" /\ pc'[t] # "idle" /\ pc'[t] \notin ClearPcs
        /\ pc'[t] # "find" /\ pc'[t] # "check time"
    BY DEF QueryAt, Queries, QueryPcs, OpenPcs, OpenedPcs, SweepPcs, ClearPcs
  <1>2. FitsAt(pc'[t], pc'[t], op'[t], asked'[t], file'[t], then'[t], inp'[t], cand'[t], key'[t],
               bin'[t], todo'[t])
    BY <1>1 DEF QueryAt, FitsAt
  <1>3. Goal(pc'[t], after'[t]) = pc'[t]
    BY <1>1 DEF Goal
  <1>4. (sweepMutex' = t <=> Sweeps(t)') /\ (pc'[t] = "find name" => sweepName' # None)
    BY <1>1, <1>3 DEF QueryAt, Sweeps
  <1> QED
    BY <1>2, <1>3, <1>4 DEF FitsAfter

\* ... or if it has closed a file, and has yet to lower the count.
LEMMA QueryLowers ==
    ASSUME NEW t \in Clients, op'[t] \in Queries, asked'[t] \in Files, file'[t] \in Files,
           pc'[t] = "lower", after'[t] \in {"unlock", "step"},
           after'[t] = "step" => key'[t] # None, sweepMutex' = t <=> after'[t] = "step",
           then'[t] \in {"opened", "pixels"} \/ after'[t] = "unlock"
    PROVE  FitsAfter(t)
  <1>1. Goal(pc'[t], after'[t]) = after'[t] /\ op'[t] \in {"read", "info"}
    BY DEF Goal, Queries
  <1>2. FitsAt(pc'[t], after'[t], op'[t], asked'[t], file'[t], then'[t], inp'[t], cand'[t],
               key'[t], bin'[t], todo'[t])
    BY <1>1 DEF FitsAt, QueryPcs, OpenPcs, OpenedPcs, SweepPcs, ClearPcs
  <1>3. (sweepMutex' = t <=> Sweeps(t)') /\ (pc'[t] = "find name" => sweepName' # None)
    BY <1>1 DEF Sweeps, SweepPcs
  <1> QED
    BY <1>1, <1>2, <1>3 DEF FitsAfter

\* close(): where it goes.
LEMMA ShutGoes ==
    ASSUME Shape, NEW t \in Clients, NEW f, NEW to \in Places, Shut(t, f, to)
    PROVE  /\ input' \in OnFiles(Versions \union {Closed})
           /\ pc' \in PerClient(Places) /\ after' \in PerClient(Places)
           /\ pc'[t] = to \/ (pc'[t] = "lower" /\ after'[t] = to)
           /\ \A u \in Clients \ {t} : pc'[u] = pc[u] /\ after'[u] = after[u]
  <1>1. input' \in OnFiles(Versions \union {Closed})
    BY DEF Shut, Set, Shape, Typed, FilesTyped, OnFiles
  <1>2. /\ pc \in PerClient(Places) /\ after \in PerClient(Places) /\ "lower" \in Places
        /\ (after' = after /\ pc' = Set(pc, t, to)) \/ (after' = Set(after, t, to) /\ pc' = Set(pc, t, "lower"))
    BY DEF Shut, Shape, Typed, CallTyped, ClockTyped, Places
  <1> QED
    BY <1>1, <1>2 DEF Set, PerClient

\* The turns of a sweep.
LEMMA LoopsTyped ==
    ASSUME loops \in PerClient(0..FullLoops + 1), NEW t \in Clients
    PROVE  /\ Set(loops, t, 0) \in PerClient(0..FullLoops + 1)
           /\ loops[t] <= FullLoops => Set(loops, t, loops[t] + 1) \in PerClient(0..FullLoops + 1)
  <1>1. FullLoops \in Nat /\ loops[t] \in 0..FullLoops + 1
    BY Names DEF PerClient
  <1>2. /\ 0 \in 0..FullLoops + 1
        /\ loops[t] <= FullLoops => loops[t] + 1 \in 0..FullLoops + 1
    BY ONLY <1>1
  <1> QED
    BY <1>2 DEF Set, PerClient
-----------------------------------------------------------------------------
\* Verify keeps the shape.
LEMMA VerifyShape ==
    ASSUME Shape, NEW t \in Clients, Verify(t)
    PROVE  Shape' /\ Moves(t)
  <1> USE DEF Shape, Typed
  <1>1. /\ pc[t] = "verify" /\ pc' = Set(pc, t, IF valid[file[t]] THEN "use" ELSE "verify lock")
        /\ UNCHANGED <<perFile, global, world, file, mine, clock>>
    BY DEF Verify
  <1>2. QueryAt(t)
    BY <1>1, QueryFits DEF QueryPcs, OpenPcs, OpenedPcs, SweepPcs, LoopPcs
  <1>3. /\ pc' \in PerClient(Places) /\ pc'[t] \in {"use", "verify lock"}
        /\ \A u \in Clients \ {t} : pc'[u] = pc[u]
    BY <1>1, <1>2 DEF Set, PerClient, Places, ClockTyped
  <1>4. /\ FilesTyped' /\ GlobalTyped' /\ WorldTyped'
        /\ CallTyped' /\ ClearTyped' /\ ClockTyped'
    BY <1>1, <1>3
    DEF FilesTyped, GlobalTyped, WorldTyped, CallTyped, ClearTyped, ClockTyped, perFile, global,
        world, mine, clock
  <1>5. Moves(t)
    BY <1>1, <1>3 DEF Moves, global, mine, clock
  <1>6. QueryAt(t)'
    BY <1>1, <1>2, <1>3
    DEF QueryAt, QueryPcs, OpenPcs, OpenedPcs, SweepPcs, LoopPcs, global, mine, clock
  <1> QED
    BY <1>1, <1>4, <1>5, <1>6, QueryStays, KeepShape DEF world

\* VerifyLock keeps the shape.
LEMMA VerifyLockShape ==
    ASSUME Shape, NEW t \in Clients, VerifyLock(t)
    PROVE  Shape' /\ Moves(t)
  <1> USE DEF Shape, Typed
  <1>1. /\ pc[t] = "verify lock" /\ owner[file[t]] = None
        /\ \/ pc' = Set(pc, t, "use") /\ UNCHANGED <<owner, then>>
           \/ /\ owner' = Set(owner, file[t], t) /\ pc' = Set(pc, t, "open")
              /\ then' = Set(then, t, "opened")
        /\ UNCHANGED <<input, valid, broken, used, fingerprint, duplicate, mod_time,
                       global, world, file, op, asked, after, inp, cand, todo, print,
                       atStart, clock>>
    BY DEF VerifyLock
  <1>2. QueryAt(t)
    BY <1>1, QueryFits DEF QueryPcs, OpenPcs, OpenedPcs, SweepPcs, LoopPcs
  <1>3. /\ pc' \in PerClient(Places) /\ pc'[t] \in {"use", "open"}
        /\ \A u \in Clients \ {t} : pc'[u] = pc[u]
    BY <1>1, <1>2 DEF Set, PerClient, Places, ClockTyped
  <1>4. owner' \in OnFiles(MaybeClient)
    BY <1>1, <1>2 DEF Set, OnFiles, MaybeClient, FilesTyped
  <1>5. /\ then' \in PerClient({"idle", "opened", "pixels"}) /\ (pc'[t] = "open" => then'[t] = "opened")
        /\ \A u \in Clients \ {t} : then'[u] = then[u]
    BY <1>1, <1>2 DEF Set, PerClient, CallTyped, ClockTyped
  <1>6. /\ FilesTyped' /\ GlobalTyped' /\ WorldTyped'
        /\ CallTyped' /\ ClearTyped' /\ ClockTyped'
    BY <1>1, <1>3, <1>4, <1>5
    DEF FilesTyped, GlobalTyped, WorldTyped, CallTyped, ClearTyped, ClockTyped, perFile, global,
        world, mine, clock
  <1>7. Moves(t)
    BY <1>1, <1>3, <1>4, <1>5 DEF Moves, global, mine, clock
  <1>8. QueryAt(t)'
    BY <1>1, <1>2, <1>3, <1>4, <1>5
    DEF QueryAt, QueryPcs, OpenPcs, OpenedPcs, SweepPcs, LoopPcs, global, mine, clock
  <1> QED
    BY <1>1, <1>6, <1>7, <1>8, QueryStays, KeepShape DEF world

\* Opened keeps the shape.
LEMMA OpenedShape ==
    ASSUME Shape, NEW t \in Clients, Opened(t)
    PROVE  Shape' /\ Moves(t)
  <1> USE DEF Shape, Typed
  <1>1. /\ pc[t] = "opened"
        /\ \/ /\ fingerprints[fingerprint[file[t]]] \notin {None, file[t]} /\ fingerprint[file[t]] # None
              /\ pc' = Set(pc, t, "compare") /\ cand' = Set(cand, t, fingerprints[fingerprint[file[t]]])
              /\ UNCHANGED <<owner, fingerprints>>
           \/ /\ \/ /\ fingerprint[file[t]] # None
                    /\ fingerprints' = Set(fingerprints, fingerprint[file[t]], file[t])
                 \/ UNCHANGED fingerprints
              /\ pc' = Set(pc, t, "use") /\ owner' = Set(owner, file[t], None)
              /\ UNCHANGED cand
        /\ UNCHANGED <<input, valid, broken, used, fingerprint, duplicate, mod_time,
                       m_files, binLock, openFiles, sweepMutex, sweepName, world, file,
                       op, asked, then, after, inp, todo, print, atStart, clock>>
    BY DEF Opened
  <1>2. QueryAt(t)
    BY <1>1, QueryFits DEF QueryPcs, OpenPcs, OpenedPcs, SweepPcs, LoopPcs
  <1>3. /\ pc' \in PerClient(Places) /\ pc'[t] \in {"use", "compare"}
        /\ \A u \in Clients \ {t} : pc'[u] = pc[u]
    BY <1>1, <1>2 DEF Set, PerClient, Places, ClockTyped
  <1>4. owner' \in OnFiles(MaybeClient)
    BY <1>1, <1>2 DEF Set, OnFiles, MaybeClient, FilesTyped
  <1>5. fingerprint[file[t]] \in Prints \union {None}
    BY <1>1, <1>2 DEF FilesTyped, OnFiles, QueryAt
  <1>6. /\ cand' \in PerClient(MaybeFile) /\ (pc'[t] = "compare" => cand'[t] # None)
        /\ \A u \in Clients \ {t} : cand'[u] = cand[u]
    BY <1>1, <1>2, <1>5 DEF Set, PerClient, CallTyped, ClockTyped, GlobalTyped, MaybeFile
  <1>7. fingerprints' \in [Prints -> MaybeFile]
    BY <1>1, <1>2, <1>5 DEF Set, GlobalTyped, MaybeFile, QueryAt
  <1>8. /\ FilesTyped' /\ GlobalTyped' /\ WorldTyped'
        /\ CallTyped' /\ ClearTyped' /\ ClockTyped'
    BY <1>1, <1>3, <1>4, <1>5, <1>6, <1>7
    DEF FilesTyped, GlobalTyped, WorldTyped, CallTyped, ClearTyped, ClockTyped, perFile, global,
        world, mine, clock
  <1>9. Moves(t)
    BY <1>1, <1>3, <1>4, <1>5, <1>6, <1>7 DEF Moves, global, mine, clock
  <1>10. QueryAt(t)'
    BY <1>1, <1>2, <1>3, <1>4, <1>5, <1>6, <1>7
    DEF QueryAt, QueryPcs, OpenPcs, OpenedPcs, SweepPcs, LoopPcs, global, mine, clock
  <1> QED
    BY <1>1, <1>8, <1>9, <1>10, QueryStays, KeepShape DEF world
\* Unlock keeps the shape.
LEMMA UnlockShape ==
    ASSUME Shape, NEW t \in Clients, Unlock(t)
    PROVE  Shape' /\ Moves(t)
  <1> USE DEF Shape, Typed
  <1>1. /\ pc[t] = "unlock" /\ pc' = Set(pc, t, "use") /\ owner' = Set(owner, file[t], None)
        /\ UNCHANGED <<input, valid, broken, used, fingerprint, duplicate, mod_time,
                       global, world, file, mine, clock>>
    BY DEF Unlock, Goto
  <1>2. QueryAt(t)
    BY <1>1, QueryFits DEF QueryPcs, OpenPcs, OpenedPcs, SweepPcs, LoopPcs
  <1>3. /\ pc' \in PerClient(Places) /\ pc'[t] \in {"use"}
        /\ \A u \in Clients \ {t} : pc'[u] = pc[u]
    BY <1>1, <1>2 DEF Set, PerClient, Places, ClockTyped
  <1>4. owner' \in OnFiles(MaybeClient)
    BY <1>1, <1>2 DEF Set, OnFiles, MaybeClient, FilesTyped
  <1>5. /\ FilesTyped' /\ GlobalTyped' /\ WorldTyped'
        /\ CallTyped' /\ ClearTyped' /\ ClockTyped'
    BY <1>1, <1>3, <1>4
    DEF FilesTyped, GlobalTyped, WorldTyped, CallTyped, ClearTyped, ClockTyped, perFile, global,
        world, mine, clock
  <1>6. Moves(t)
    BY <1>1, <1>3, <1>4 DEF Moves, global, mine, clock
  <1>7. QueryAt(t)'
    BY <1>1, <1>2, <1>3, <1>4
    DEF QueryAt, QueryPcs, OpenPcs, OpenedPcs, SweepPcs, LoopPcs, global, mine, clock
  <1> QED
    BY <1>1, <1>5, <1>6, <1>7, QueryStays, KeepShape DEF world

\* Use keeps the shape.
LEMMA UseShape ==
    ASSUME Shape, NEW t \in Clients, Use(t)
    PROVE  Shape' /\ Moves(t)
  <1> USE DEF Shape, Typed
  <1>1. /\ pc[t] = "use" /\ pc' = Set(pc, t, "check")
        /\ \/ UNCHANGED <<file, used>>
           \/ file' = Set(file, t, file[t]) /\ used' = Set(used, file[t], TRUE)
           \/ /\ duplicate[file[t]] # None /\ file' = Set(file, t, duplicate[file[t]])
              /\ used' = Set(used, duplicate[file[t]], TRUE)
        /\ UNCHANGED <<input, owner, valid, broken, fingerprint, duplicate, mod_time,
                       global, world, mine, clock>>
    BY DEF Use, Goto
  <1>2. QueryAt(t)
    BY <1>1, QueryFits DEF QueryPcs, OpenPcs, OpenedPcs, SweepPcs, LoopPcs
  <1>3. /\ pc' \in PerClient(Places) /\ pc'[t] \in {"check"}
        /\ \A u \in Clients \ {t} : pc'[u] = pc[u]
    BY <1>1, <1>2 DEF Set, PerClient, Places, ClockTyped
  <1>4. used' \in OnFiles(BOOLEAN)
    BY <1>1, <1>2 DEF Set, OnFiles, FilesTyped
  <1>5. duplicate[file[t]] \in MaybeFile
    BY <1>1, <1>2 DEF OnFiles, FilesTyped, QueryAt
  <1>6. /\ file' \in PerClient(MaybeFile) /\ file'[t] \in Files
        /\ \A u \in Clients \ {t} : file'[u] = file[u]
    BY <1>1, <1>2, <1>5, Names DEF Set, PerClient, QueryAt, MaybeFile, CallTyped
  <1>7. /\ FilesTyped' /\ GlobalTyped' /\ WorldTyped'
        /\ CallTyped' /\ ClearTyped' /\ ClockTyped'
    BY <1>1, <1>3, <1>4, <1>5, <1>6
    DEF FilesTyped, GlobalTyped, WorldTyped, CallTyped, ClearTyped, ClockTyped, perFile, global,
        world, mine, clock
  <1>8. Moves(t)
    BY <1>1, <1>3, <1>4, <1>5, <1>6 DEF Moves, global, mine, clock
  <1>9. QueryAt(t)'
    BY <1>1, <1>2, <1>3, <1>4, <1>5, <1>6
    DEF QueryAt, QueryPcs, OpenPcs, OpenedPcs, SweepPcs, LoopPcs, global, mine, clock
  <1> QED
    BY <1>1, <1>7, <1>8, <1>9, QueryStays, KeepShape DEF world

\* Check keeps the shape.
LEMMA CheckShape ==
    ASSUME Shape, NEW t \in Clients, Check(t)
    PROVE  Shape' /\ Moves(t)
  <1> USE DEF Shape, Typed
  <1>1. /\ pc[t] = "check"
        /\ \/ pc' = Set(pc, t, "failed") \/ pc' = Set(pc, t, "answered") \/ pc' = Set(pc, t, "open")
        /\ then' = Set(then, t, "pixels")
        /\ UNCHANGED <<perFile, global, world, file, op, asked, after, inp, cand, todo,
                       print, atStart, clock>>
    BY DEF Check
  <1>2. QueryAt(t)
    BY <1>1, QueryFits DEF QueryPcs, OpenPcs, OpenedPcs, SweepPcs, LoopPcs
  <1>3. /\ pc' \in PerClient(Places) /\ pc'[t] \in {"failed", "answered", "open"}
        /\ \A u \in Clients \ {t} : pc'[u] = pc[u]
    BY <1>1, <1>2 DEF Set, PerClient, Places, ClockTyped
  <1>4. /\ then' \in PerClient({"idle", "opened", "pixels"}) /\ then'[t] = "pixels"
        /\ \A u \in Clients \ {t} : then'[u] = then[u]
    BY <1>1, <1>2 DEF Set, PerClient, CallTyped
  <1>5. /\ FilesTyped' /\ GlobalTyped' /\ WorldTyped'
        /\ CallTyped' /\ ClearTyped' /\ ClockTyped'
    BY <1>1, <1>3, <1>4
    DEF FilesTyped, GlobalTyped, WorldTyped, CallTyped, ClearTyped, ClockTyped, perFile, global,
        world, mine, clock
  <1>6. Moves(t)
    BY <1>1, <1>3, <1>4 DEF Moves, global, mine, clock
  <1>7. QueryAt(t)'
    BY <1>1, <1>2, <1>3, <1>4
    DEF QueryAt, QueryPcs, OpenPcs, OpenedPcs, SweepPcs, LoopPcs, global, mine, clock
  <1> QED
    BY <1>1, <1>5, <1>6, <1>7, QueryStays, KeepShape DEF world

\* Pixels keeps the shape.
LEMMA PixelsShape ==
    ASSUME Shape, NEW t \in Clients, Pixels(t)
    PROVE  Shape' /\ Moves(t)
  <1> USE DEF Shape, Typed
  <1>1. /\ pc[t] = "pixels" /\ (pc' = Set(pc, t, "failed") \/ pc' = Set(pc, t, "answered"))
        /\ UNCHANGED broken \/ broken' = Set(broken, file[t], TRUE)
        /\ UNCHANGED <<input, owner, valid, used, fingerprint, duplicate, mod_time, global,
                       world, file, mine, clock>>
    BY DEF Pixels
  <1>2. QueryAt(t)
    BY <1>1, QueryFits DEF QueryPcs, OpenPcs, OpenedPcs, SweepPcs, LoopPcs
  <1>3. /\ pc' \in PerClient(Places) /\ pc'[t] \in {"failed", "answered"}
        /\ \A u \in Clients \ {t} : pc'[u] = pc[u]
    BY <1>1, <1>2 DEF Set, PerClient, Places, ClockTyped
  <1>4. broken' \in OnFiles(BOOLEAN)
    BY <1>1, <1>2 DEF Set, OnFiles, FilesTyped
  <1>5. /\ FilesTyped' /\ GlobalTyped' /\ WorldTyped'
        /\ CallTyped' /\ ClearTyped' /\ ClockTyped'
    BY <1>1, <1>3, <1>4
    DEF FilesTyped, GlobalTyped, WorldTyped, CallTyped, ClearTyped, ClockTyped, perFile, global,
        world, mine, clock
  <1>6. Moves(t)
    BY <1>1, <1>3, <1>4 DEF Moves, global, mine, clock
  <1>7. QueryAt(t)'
    BY <1>1, <1>2, <1>3, <1>4
    DEF QueryAt, QueryPcs, OpenPcs, OpenedPcs, SweepPcs, LoopPcs, global, mine, clock
  <1> QED
    BY <1>1, <1>5, <1>6, <1>7, QueryStays, KeepShape DEF world

\* Open keeps the shape.
LEMMA OpenShape ==
    ASSUME Shape, NEW t \in Clients, Open(t)
    PROVE  Shape' /\ Moves(t)
  <1> USE DEF Shape, Typed
  <1>1. /\ pc[t] = "open"
        /\ \/ pc' = Set(pc, t, "limit") /\ UNCHANGED inp
           \/ pc' = Set(pc, t, then[t]) /\ inp' = Set(inp, t, Closed)
           \/ pc' = Set(pc, t, then[t]) /\ inp' = Set(inp, t, input[file[t]])
        /\ UNCHANGED <<perFile, global, world, file, op, asked, then, after, cand, todo,
                       print, atStart, clock>>
    BY DEF Open, Returns
  <1>2. QueryAt(t)
    BY <1>1, QueryFits DEF QueryPcs, OpenPcs, OpenedPcs, SweepPcs, LoopPcs
  <1>3. /\ pc' \in PerClient(Places) /\ pc'[t] \in {"limit", "opened", "pixels"}
        /\ \A u \in Clients \ {t} : pc'[u] = pc[u]
    <2>1. then[t] \in {"opened", "pixels"}
      BY <1>1, <1>2 DEF QueryAt, OpenPcs, OpenedPcs
    <2>2. {"limit", "opened", "pixels"} \subseteq Places /\ pc \in [Clients -> Places]
      BY DEF Places, ClockTyped, PerClient
    <2>3. \E to \in {"limit", "opened", "pixels"} : pc' = Set(pc, t, to)
      BY <1>1, <2>1
    <2> QED
      BY <2>2, <2>3 DEF Set, PerClient
  <1>4. /\ inp' \in PerClient(Versions \union {Closed})
        /\ \A u \in Clients \ {t} : inp'[u] = inp[u]
    BY <1>1, <1>2, <1>2 DEF Set, PerClient, QueryAt, FilesTyped, OnFiles, CallTyped
  <1>5. /\ FilesTyped' /\ GlobalTyped' /\ WorldTyped'
        /\ CallTyped' /\ ClearTyped' /\ ClockTyped'
    BY <1>1, <1>3, <1>4
    DEF FilesTyped, GlobalTyped, WorldTyped, CallTyped, ClearTyped, ClockTyped, perFile, global,
        world, mine, clock
  <1>6. Moves(t)
    BY <1>1, <1>3, <1>4 DEF Moves, global, mine, clock
  <1>7. QueryAt(t)'
    BY <1>1, <1>2, <1>3, <1>4
    DEF QueryAt, QueryPcs, OpenPcs, OpenedPcs, SweepPcs, LoopPcs, global, mine, clock
  <1> QED
    BY <1>1, <1>5, <1>6, <1>7, QueryStays, KeepShape DEF world

\* OpenLock keeps the shape.
LEMMA OpenLockShape ==
    ASSUME Shape, NEW t \in Clients, OpenLock(t)
    PROVE  Shape' /\ Moves(t)
  <1> USE DEF Shape, Typed
  <1>1. /\ pc[t] = "open lock"
        /\ \/ owner' = Set(owner, file[t], t) /\ pc' = Set(pc, t, "opening") /\ UNCHANGED inp
           \/ UNCHANGED owner /\ pc' = Set(pc, t, then[t]) /\ inp' = Set(inp, t, Closed)
           \/ UNCHANGED owner /\ pc' = Set(pc, t, then[t]) /\ inp' = Set(inp, t, input[file[t]])
        /\ UNCHANGED <<input, valid, broken, used, fingerprint, duplicate, mod_time, global,
                       world, file, op, asked, then, after, cand, todo, print, atStart, clock>>
    BY DEF OpenLock, Returns
  <1>2. QueryAt(t)
    BY <1>1, QueryFits DEF QueryPcs, OpenPcs, OpenedPcs, SweepPcs, LoopPcs
  <1>3. /\ pc' \in PerClient(Places) /\ pc'[t] \in {"opening", "opened", "pixels"}
        /\ \A u \in Clients \ {t} : pc'[u] = pc[u]
    <2>1. then[t] \in {"opened", "pixels"}
      BY <1>1, <1>2 DEF QueryAt, OpenPcs, OpenedPcs
    <2>2. {"opening", "opened", "pixels"} \subseteq Places /\ pc \in [Clients -> Places]
      BY DEF Places, ClockTyped, PerClient
    <2>3. \E to \in {"opening", "opened", "pixels"} : pc' = Set(pc, t, to)
      BY <1>1, <2>1
    <2> QED
      BY <2>2, <2>3 DEF Set, PerClient
  <1>4. /\ inp' \in PerClient(Versions \union {Closed})
        /\ \A u \in Clients \ {t} : inp'[u] = inp[u]
    BY <1>1, <1>2, <1>2 DEF Set, PerClient, QueryAt, FilesTyped, OnFiles, CallTyped
  <1>5. owner' \in OnFiles(MaybeClient)
    BY <1>1, <1>2 DEF Set, OnFiles, MaybeClient, FilesTyped
  <1>6. /\ FilesTyped' /\ GlobalTyped' /\ WorldTyped'
        /\ CallTyped' /\ ClearTyped' /\ ClockTyped'
    BY <1>1, <1>3, <1>4, <1>5
    DEF FilesTyped, GlobalTyped, WorldTyped, CallTyped, ClearTyped, ClockTyped, perFile, global,
        world, mine, clock
  <1>7. Moves(t)
    BY <1>1, <1>3, <1>4, <1>5 DEF Moves, global, mine, clock
  <1>8. QueryAt(t)'
    BY <1>1, <1>2, <1>3, <1>4, <1>5
    DEF QueryAt, QueryPcs, OpenPcs, OpenedPcs, SweepPcs, LoopPcs, global, mine, clock
  <1> QED
    BY <1>1, <1>6, <1>7, <1>8, QueryStays, KeepShape DEF world
\* Opening keeps the shape.
LEMMA OpeningShape ==
    ASSUME Shape, NEW t \in Clients, Opening(t)
    PROVE  Shape' /\ Moves(t)
  <1> USE DEF Shape, Typed
  <1>1. /\ pc[t] = "opening"
        /\ \/ /\ broken' = Set(broken, file[t], TRUE) /\ valid' = Set(valid, file[t], FALSE)
              /\ pc' = Set(pc, t, then[t])
              /\ inp' = Set(inp, t, IF then[t] = "pixels" THEN Closed ELSE Closed)
              /\ owner' = Set(owner, file[t], None) \/ UNCHANGED owner
              /\ UNCHANGED <<used, openFiles>>
           \/ /\ OnDisk(file[t]) # Missing
              /\ broken' = Set(broken, file[t], FALSE) /\ used' = Set(used, file[t], TRUE)
              /\ inp' = Set(inp, t, disk[file[t]])
              /\ pc' = Set(pc, t, "publish") \/ pc' = Set(pc, t, "headers")
              /\ openFiles' = openFiles \/ openFiles' = openFiles + 1
              /\ UNCHANGED <<valid, owner>>
        /\ UNCHANGED <<input, fingerprint, duplicate, mod_time, m_files, binLock, sweepMutex,
                       sweepName, fingerprints, world, file, op, asked, then, after, cand,
                       todo, print, atStart, clock>>
    <2>1. openFiles + 0 = openFiles
      BY DEF GlobalTyped
    <2>2. CASE OnDisk(file[t]) = Missing
      BY <2>2 DEF Opening, Returns, GiveUp
    <2>3. CASE OnDisk(file[t]) # Missing
      <3>1. openFiles' = openFiles \/ openFiles' = openFiles + 1
        BY <2>1, <2>3 DEF Opening
      <3> QED
        BY <2>3, <3>1 DEF Opening
    <2> QED
      BY <2>2, <2>3
  <1>2. QueryAt(t)
    BY <1>1, QueryFits DEF QueryPcs, OpenPcs, OpenedPcs, SweepPcs, LoopPcs
  <1>3. then[t] \in {"opened", "pixels"}
    BY <1>1, <1>2 DEF QueryAt, OpenedPcs
  <1>4. \E p \in {"publish", "headers", "opened", "pixels"} : pc' = Set(pc, t, p)
    BY ONLY <1>1, <1>3
  <1>5. /\ pc' \in PerClient(Places) /\ pc'[t] \in {"publish", "headers", "opened", "pixels"}
        /\ \A u \in Clients \ {t} : pc'[u] = pc[u]
    BY <1>4 DEF Set, PerClient, Places, ClockTyped
  <1>6. broken' \in OnFiles(BOOLEAN) /\ valid' \in OnFiles(BOOLEAN) /\ used' \in OnFiles(BOOLEAN)
    BY <1>1, <1>2 DEF Set, OnFiles, FilesTyped
  <1>7. disk[file[t]] \in 1..Last(file[t]) /\ 1..Last(file[t]) \subseteq Versions
          /\ Closed \notin 1..Last(file[t])
    BY <1>1, <1>2, VersionsOf, Names DEF QueryAt, DiskExists, Closed
  <1>8. /\ inp' \in PerClient(Versions \union {Closed})
        /\ \A u \in Clients \ {t} : inp'[u] = inp[u]
    BY <1>1, <1>2, <1>7 DEF Set, PerClient, CallTyped
  <1>9. openFiles \in Int /\ openFiles + 1 \in Int
    BY DEF GlobalTyped
  <1>10. openFiles' \in Int
    BY ONLY <1>1, <1>9
  <1>11. owner' \in OnFiles(MaybeClient)
    BY <1>1, <1>2 DEF Set, OnFiles, MaybeClient, FilesTyped
  <1>12. pc'[t] \in {"publish", "headers"} => inp'[t] \in 1..Last(file[t]) /\ inp'[t] # Closed
    BY <1>1, <1>2, <1>7, Names DEF Set, CallTyped, ClockTyped, PerClient, QueryAt, OpenedPcs, OpenPcs
  <1>13. pc'[t] = "headers" => Content[file[t]][inp'[t]] \in Prints
    BY <1>1, <1>2, <1>7, Names DEF Set, CallTyped, ClockTyped, PerClient, QueryAt, OpenedPcs, OpenPcs, OnDisk
  <1>14. /\ FilesTyped' /\ GlobalTyped' /\ WorldTyped'
        /\ CallTyped' /\ ClearTyped' /\ ClockTyped'
    BY <1>1, <1>3, <1>4, <1>5, <1>6, <1>7, <1>8, <1>9, <1>10, <1>11, <1>12, <1>13
    DEF FilesTyped, GlobalTyped, WorldTyped, CallTyped, ClearTyped, ClockTyped, perFile, global,
        world, mine, clock
  <1>15. Moves(t)
    BY <1>1, <1>3, <1>4, <1>5, <1>6, <1>7, <1>8, <1>9, <1>10, <1>11, <1>12, <1>13 DEF Moves, global, mine, clock
  <1>16. QueryAt(t)'
    BY <1>1, <1>2, <1>3, <1>4, <1>5, <1>6, <1>7, <1>8, <1>9, <1>10, <1>11, <1>12, <1>13
    DEF QueryAt, QueryPcs, OpenPcs, OpenedPcs, SweepPcs, LoopPcs, global, mine, clock
  <1> QED
    BY <1>1, <1>14, <1>15, <1>16, QueryStays, KeepShape DEF world

\* Headers keeps the shape.
LEMMA HeadersShape ==
    ASSUME Shape, NEW t \in Clients, Headers(t)
    PROVE  Shape' /\ Moves(t)
  <1> USE DEF Shape, Typed
  <1>1. /\ pc[t] = "headers" /\ pc' = Set(pc, t, "publish")
        /\ valid' = Set(valid, file[t], TRUE) /\ mod_time' = Set(mod_time, file[t], disk[file[t]])
        /\ fingerprint' = Set(fingerprint, file[t], Content[file[t]][inp[t]])
        /\ openFiles' = openFiles + 1
        /\ UNCHANGED <<input, owner, broken, used, duplicate, m_files, binLock, sweepMutex,
                       sweepName, fingerprints, world, file, mine, clock>>
    BY DEF Headers, Goto
  <1>2. QueryAt(t)
    BY <1>1, QueryFits DEF QueryPcs, OpenPcs, OpenedPcs, SweepPcs, LoopPcs
  <1>3. /\ pc' \in PerClient(Places) /\ pc'[t] \in {"publish"}
        /\ \A u \in Clients \ {t} : pc'[u] = pc[u]
    BY <1>1, <1>2 DEF Set, PerClient, Places, ClockTyped
  <1>4. openFiles' \in Int
    BY <1>1, <1>2 DEF GlobalTyped
  <1>5. valid' \in OnFiles(BOOLEAN)
    BY <1>1, <1>2 DEF Set, OnFiles, FilesTyped
  <1>6. Content[file[t]][inp[t]] \in Prints /\ disk[file[t]] \in Versions
    BY <1>1, <1>2 DEF QueryAt, WorldTyped, OnFiles
  <1>7. mod_time' \in OnFiles(Versions \union {Closed})
    BY <1>1, <1>2, <1>6 DEF Set, OnFiles, FilesTyped
  <1>8. fingerprint' \in OnFiles(Prints \union {None})
    BY <1>1, <1>2, <1>6 DEF Set, OnFiles, FilesTyped
  <1>9. /\ FilesTyped' /\ GlobalTyped' /\ WorldTyped'
        /\ CallTyped' /\ ClearTyped' /\ ClockTyped'
    BY <1>1, <1>3, <1>4, <1>5, <1>6, <1>7, <1>8
    DEF FilesTyped, GlobalTyped, WorldTyped, CallTyped, ClearTyped, ClockTyped, perFile, global,
        world, mine, clock
  <1>10. Moves(t)
    BY <1>1, <1>3, <1>4, <1>5, <1>6, <1>7, <1>8 DEF Moves, global, mine, clock
  <1>11. QueryAt(t)'
    BY <1>1, <1>2, <1>3, <1>4, <1>5, <1>6, <1>7, <1>8
    DEF QueryAt, QueryPcs, OpenPcs, OpenedPcs, SweepPcs, LoopPcs, global, mine, clock
  <1> QED
    BY <1>1, <1>9, <1>10, <1>11, QueryStays, KeepShape DEF world

\* Publish keeps the shape.
LEMMA PublishShape ==
    ASSUME Shape, NEW t \in Clients, Publish(t)
    PROVE  Shape' /\ Moves(t)
  <1> USE DEF Shape, Typed
  <1>1. /\ pc[t] = "publish" /\ input' = Set(input, file[t], inp[t])
        /\ openFiles' = openFiles - (IF input[file[t]] # Closed THEN 1 ELSE 0)
        /\ pc' = Set(pc, t, then[t]) /\ inp' = Set(inp, t, IF then[t] = "pixels" THEN inp[t] ELSE Closed)
        /\ owner' = Set(owner, file[t], None) \/ UNCHANGED owner
        /\ UNCHANGED <<valid, broken, used, fingerprint, duplicate, mod_time, m_files, binLock,
                       sweepMutex, sweepName, fingerprints, world, file, op, asked, then, after,
                       cand, todo, print, atStart, clock>>
    BY DEF Publish, Returns, GiveUp
  <1>2. QueryAt(t)
    BY <1>1, QueryFits DEF QueryPcs, OpenPcs, OpenedPcs, SweepPcs, LoopPcs
  <1>3. /\ pc' \in PerClient(Places) /\ pc'[t] \in {"opened", "pixels"}
        /\ \A u \in Clients \ {t} : pc'[u] = pc[u]
    BY <1>1, <1>2 DEF Set, PerClient, Places, ClockTyped, QueryAt, OpenPcs, OpenedPcs
  <1>4. openFiles' \in Int
    BY <1>1, <1>2 DEF GlobalTyped
  <1>5. inp[t] \in Versions \union {Closed}
    BY <1>1, <1>2 DEF CallTyped, PerClient
  <1>6. input' \in OnFiles(Versions \union {Closed})
    BY <1>1, <1>2, <1>5 DEF Set, OnFiles, FilesTyped
  <1>7. owner' \in OnFiles(MaybeClient)
    BY <1>1, <1>2 DEF Set, OnFiles, MaybeClient, FilesTyped
  <1>8. /\ inp' \in PerClient(Versions \union {Closed})
        /\ \A u \in Clients \ {t} : inp'[u] = inp[u]
    BY <1>1, <1>2, <1>5 DEF Set, PerClient, CallTyped
  <1>9. /\ FilesTyped' /\ GlobalTyped' /\ WorldTyped'
        /\ CallTyped' /\ ClearTyped' /\ ClockTyped'
    BY <1>1, <1>3, <1>4, <1>5, <1>6, <1>7, <1>8
    DEF FilesTyped, GlobalTyped, WorldTyped, CallTyped, ClearTyped, ClockTyped, perFile, global,
        world, mine, clock
  <1>10. Moves(t)
    BY <1>1, <1>3, <1>4, <1>5, <1>6, <1>7, <1>8 DEF Moves, global, mine, clock
  <1>11. QueryAt(t)'
    BY <1>1, <1>2, <1>3, <1>4, <1>5, <1>6, <1>7, <1>8
    DEF QueryAt, QueryPcs, OpenPcs, OpenedPcs, SweepPcs, LoopPcs, global, mine, clock
  <1> QED
    BY <1>1, <1>9, <1>10, <1>11, QueryStays, KeepShape DEF world

\* Limit keeps the shape.
LEMMA LimitShape ==
    ASSUME Shape, NEW t \in Clients, Limit(t)
    PROVE  Shape' /\ Moves(t)
  <1> USE DEF Shape, Typed
  <1>1. /\ pc[t] = "limit"
        /\ \/ /\ sweepMutex = None /\ sweepMutex' = t
              /\ \/ pc' = Set(pc, t, "sweep")
                 \/ sweepName # None /\ pc' = Set(pc, t, "find name")
           \/ pc' = Set(pc, t, "sweep lock") /\ UNCHANGED sweepMutex
           \/ pc' = Set(pc, t, "open lock") /\ UNCHANGED sweepMutex
        /\ UNCHANGED <<perFile, m_files, binLock, openFiles, sweepName, fingerprints, world,
                       file, mine, clock>>
    BY DEF Limit, TakeSweep
  <1>2. QueryAt(t)
    BY <1>1, QueryFits DEF QueryPcs, OpenPcs, OpenedPcs, SweepPcs, LoopPcs
  <1>3. /\ pc' \in PerClient(Places) /\ pc'[t] \in {"sweep", "find name", "sweep lock", "open lock"}
        /\ \A u \in Clients \ {t} : pc'[u] = pc[u]
    BY <1>1, <1>2 DEF Set, PerClient, Places, ClockTyped
  <1>4. /\ sweepMutex' = IF pc'[t] \in {"sweep", "find name"} THEN t ELSE sweepMutex
        /\ pc'[t] \in {"sweep", "find name"} => sweepMutex = None
        /\ pc'[t] = "find name" => sweepName # None
    BY <1>1, <1>2 DEF Set, ClockTyped, PerClient
  <1>5. sweepMutex' \in MaybeClient
    BY <1>1, <1>2, <1>4 DEF GlobalTyped, MaybeClient
  <1>6. /\ FilesTyped' /\ GlobalTyped' /\ WorldTyped'
        /\ CallTyped' /\ ClearTyped' /\ ClockTyped'
    BY <1>1, <1>3, <1>4, <1>5
    DEF FilesTyped, GlobalTyped, WorldTyped, CallTyped, ClearTyped, ClockTyped, perFile, global,
        world, mine, clock
  <1>7. Moves(t)
    BY <1>1, <1>3, <1>4, <1>5 DEF Moves, global, mine, clock
  <1>8. QueryAt(t)'
    BY <1>1, <1>2, <1>3, <1>4, <1>5
    DEF QueryAt, QueryPcs, OpenPcs, OpenedPcs, SweepPcs, LoopPcs, global, mine, clock
  <1> QED
    BY <1>1, <1>6, <1>7, <1>8, QueryStays, KeepShape DEF world

\* SweepLock keeps the shape.
LEMMA SweepLockShape ==
    ASSUME Shape, NEW t \in Clients, SweepLock(t)
    PROVE  Shape' /\ Moves(t)
  <1> USE DEF Shape, Typed
  <1>1. /\ pc[t] = "sweep lock" /\ sweepMutex = None /\ sweepMutex' = t
        /\ \/ pc' = Set(pc, t, "sweep")
           \/ sweepName # None /\ pc' = Set(pc, t, "find name")
        /\ UNCHANGED <<perFile, m_files, binLock, openFiles, sweepName, fingerprints, world,
                       file, mine, clock>>
    BY DEF SweepLock, TakeSweep
  <1>2. QueryAt(t)
    BY <1>1, QueryFits DEF QueryPcs, OpenPcs, OpenedPcs, SweepPcs, LoopPcs
  <1>3. /\ pc' \in PerClient(Places) /\ pc'[t] \in {"sweep", "find name"}
        /\ \A u \in Clients \ {t} : pc'[u] = pc[u]
    BY <1>1, <1>2 DEF Set, PerClient, Places, ClockTyped
  <1>4. pc'[t] = "find name" => sweepName # None
    BY <1>1, <1>2 DEF Set, ClockTyped, PerClient
  <1>5. sweepMutex' \in MaybeClient
    BY <1>1, <1>2, <1>4 DEF GlobalTyped, MaybeClient
  <1>6. /\ FilesTyped' /\ GlobalTyped' /\ WorldTyped'
        /\ CallTyped' /\ ClearTyped' /\ ClockTyped'
    BY <1>1, <1>3, <1>4, <1>5
    DEF FilesTyped, GlobalTyped, WorldTyped, CallTyped, ClearTyped, ClockTyped, perFile, global,
        world, mine, clock
  <1>7. Moves(t)
    BY <1>1, <1>3, <1>4, <1>5 DEF Moves, global, mine, clock
  <1>8. QueryAt(t)'
    BY <1>1, <1>2, <1>3, <1>4, <1>5
    DEF QueryAt, QueryPcs, OpenPcs, OpenedPcs, SweepPcs, LoopPcs, global, mine, clock
  <1> QED
    BY <1>1, <1>6, <1>7, <1>8, QueryStays, KeepShape DEF world

\* FindName keeps the shape.
LEMMA FindNameShape ==
    ASSUME Shape, NEW t \in Clients, FindName(t)
    PROVE  Shape' /\ Moves(t)
  <1> USE DEF Shape, Typed
  <1>1. /\ pc[t] = "find name" /\ pc' = Set(pc, t, "sweep")
        /\ key' = Set(key, t, sweepName) /\ binLock' = Set(binLock, BinOf[sweepName], t)
        /\ UNCHANGED <<perFile, m_files, openFiles, sweepMutex, sweepName, fingerprints,
                       world, file, mine, bin, loops>>
    BY DEF FindName, Goto
  <1>2. QueryAt(t)
    BY <1>1, QueryFits DEF QueryPcs, OpenPcs, OpenedPcs, SweepPcs, LoopPcs
  <1>3. /\ pc' \in PerClient(Places) /\ pc'[t] \in {"sweep"}
        /\ \A u \in Clients \ {t} : pc'[u] = pc[u]
    BY <1>1, <1>2 DEF Set, PerClient, Places, ClockTyped
  <1>4. binLock' \in [Bins -> MaybeClient]
    BY <1>1, <1>2 DEF Set, GlobalTyped, MaybeClient
  <1>5. /\ key' \in PerClient(MaybeFile)
        /\ \A u \in Clients \ {t} : key'[u] = key[u]
    BY <1>1, <1>2 DEF Set, PerClient, ClockTyped, MaybeFile, GlobalTyped
  <1>6. /\ FilesTyped' /\ GlobalTyped' /\ WorldTyped'
        /\ CallTyped' /\ ClearTyped' /\ ClockTyped'
    BY <1>1, <1>3, <1>4, <1>5
    DEF FilesTyped, GlobalTyped, WorldTyped, CallTyped, ClearTyped, ClockTyped, perFile, global,
        world, mine, clock
  <1>7. Moves(t)
    BY <1>1, <1>3, <1>4, <1>5 DEF Moves, global, mine, clock
  <1>8. QueryAt(t)'
    BY <1>1, <1>2, <1>3, <1>4, <1>5
    DEF QueryAt, QueryPcs, OpenPcs, OpenedPcs, SweepPcs, LoopPcs, global, mine, clock
  <1> QED
    BY <1>1, <1>6, <1>7, <1>8, QueryStays, KeepShape DEF world

\* Sweep keeps the shape.
LEMMA SweepShape ==
    ASSUME Shape, NEW t \in Clients, Sweep(t)
    PROVE  Shape' /\ Moves(t)
  <1> USE DEF Shape, Typed
  <1>1. /\ pc[t] = "sweep"
        /\ \/ pc' = Set(pc, t, "save name") /\ UNCHANGED <<loops, bin>>
           \/ key[t] # None /\ pc' = Set(pc, t, "release") /\ UNCHANGED <<loops, bin>>
           \/ /\ key[t] = None /\ loops[t] <= FullLoops /\ pc' = Set(pc, t, "begin")
              /\ loops' = Set(loops, t, loops[t] + 1) /\ bin' = Set(bin, t, 1)
        /\ gaveUp' = gaveUp \/ gaveUp' = gaveUp + 1
        /\ UNCHANGED <<perFile, global, disk, floor, calls, file, mine, key>>
    <2> DEFINE on == openFiles >= MaxOpen /\ loops[t] <= FullLoops
    <2>1. gaveUp' = gaveUp \/ gaveUp' = gaveUp + 1
      <3>1. gaveUp + 0 = gaveUp
        BY DEF WorldTyped
      <3> QED
        BY <3>1 DEF Sweep
    <2>2. /\ pc[t] = "sweep"
          /\ pc' = Set(pc, t, IF ~on THEN "save name" ELSE IF key[t] = None THEN "begin" ELSE "release")
          /\ IF on /\ key[t] = None
             THEN loops' = Set(loops, t, loops[t] + 1) /\ bin' = Set(bin, t, 1)
             ELSE UNCHANGED <<loops, bin>>
          /\ on => loops[t] <= FullLoops
          /\ UNCHANGED <<perFile, global, disk, floor, calls, file, mine, key>>
      BY DEF Sweep
    <2> HIDE DEF on
    <2> QED
      BY <2>1, <2>2
  <1>2. QueryAt(t)
    BY <1>1, QueryFits DEF QueryPcs, OpenPcs, OpenedPcs, SweepPcs, LoopPcs
  <1>3. /\ pc' \in PerClient(Places) /\ pc'[t] \in {"save name", "release", "begin"}
        /\ \A u \in Clients \ {t} : pc'[u] = pc[u]
    BY <1>1, <1>2 DEF Set, PerClient, Places, ClockTyped
  <1>4. gaveUp \in Nat /\ gaveUp + 1 \in Nat
    BY DEF WorldTyped
  <1>5. gaveUp' \in Nat
    BY ONLY <1>1, <1>4
  <1>6. /\ bin' \in PerClient(0..NBins) /\ (pc'[t] = "begin" => bin'[t] \in Bins)
        /\ \A u \in Clients \ {t} : bin'[u] = bin[u]
    BY <1>1, <1>2, Names DEF Set, PerClient, ClockTyped
  <1>7. loops' \in PerClient(0..FullLoops + 1)
    BY <1>1, LoopsTyped DEF ClockTyped
  <1>8. pc'[t] = "release" => key[t] # None
    BY <1>1, <1>2 DEF Set, ClockTyped, PerClient
  <1>9. /\ FilesTyped' /\ GlobalTyped' /\ WorldTyped'
        /\ CallTyped' /\ ClearTyped' /\ ClockTyped'
    BY <1>1, <1>3, <1>4, <1>5, <1>6, <1>7, <1>8
    DEF FilesTyped, GlobalTyped, WorldTyped, CallTyped, ClearTyped, ClockTyped, perFile, global,
        world, mine, clock
  <1>10. Moves(t)
    BY <1>1, <1>3, <1>4, <1>5, <1>6, <1>7, <1>8 DEF Moves, global, mine, clock
  <1>11. QueryAt(t)'
    BY <1>1, <1>2, <1>3, <1>4, <1>5, <1>6, <1>7, <1>8
    DEF QueryAt, QueryPcs, OpenPcs, OpenedPcs, SweepPcs, LoopPcs, global, mine, clock
  <1> QED
    BY <1>1, <1>9, <1>10, <1>11, QueryStays, KeepShape DEF world

\* SaveName keeps the shape.
LEMMA SaveNameShape ==
    ASSUME Shape, NEW t \in Clients, SaveName(t)
    PROVE  Shape' /\ Moves(t)
  <1> USE DEF Shape, Typed
  <1>1. /\ pc[t] = "save name" /\ pc' = Set(pc, t, "open lock")
        /\ sweepName' = key[t] /\ sweepMutex' = None
        /\ binLock' = [b \in Bins |-> IF binLock[b] = t THEN None ELSE binLock[b]]
        /\ key' = Set(key, t, None) /\ loops' = Set(loops, t, 0)
        /\ UNCHANGED <<perFile, m_files, openFiles, fingerprints, world, file, mine, bin>>
    BY DEF SaveName, Goto
  <1>2. QueryAt(t)
    BY <1>1, QueryFits DEF QueryPcs, OpenPcs, OpenedPcs, SweepPcs, LoopPcs
  <1>3. /\ pc' \in PerClient(Places) /\ pc'[t] \in {"open lock"}
        /\ \A u \in Clients \ {t} : pc'[u] = pc[u]
    BY <1>1, <1>2 DEF Set, PerClient, Places, ClockTyped
  <1>4. sweepName' \in MaybeFile /\ sweepMutex' \in MaybeClient /\ sweepMutex' # t /\ sweepMutex = t
    BY <1>1, <1>2, Names DEF ClockTyped, PerClient, MaybeClient, QueryAt, SweepPcs
  <1>5. binLock' \in [Bins -> MaybeClient]
    BY <1>1, <1>2 DEF GlobalTyped, MaybeClient
  <1>6. /\ key' \in PerClient(MaybeFile)
        /\ \A u \in Clients \ {t} : key'[u] = key[u]
    BY <1>1, <1>2 DEF Set, PerClient, ClockTyped, MaybeFile
  <1>7. loops' \in PerClient(0..FullLoops + 1)
    BY <1>1, LoopsTyped DEF ClockTyped
  <1>8. /\ FilesTyped' /\ GlobalTyped' /\ WorldTyped'
        /\ CallTyped' /\ ClearTyped' /\ ClockTyped'
    BY <1>1, <1>3, <1>4, <1>5, <1>6, <1>7
    DEF FilesTyped, GlobalTyped, WorldTyped, CallTyped, ClearTyped, ClockTyped, perFile, global,
        world, mine, clock
  <1>9. Moves(t)
    BY <1>1, <1>3, <1>4, <1>5, <1>6, <1>7 DEF Moves, global, mine, clock
  <1>10. QueryAt(t)'
    BY <1>1, <1>2, <1>3, <1>4, <1>5, <1>6, <1>7
    DEF QueryAt, QueryPcs, OpenPcs, OpenedPcs, SweepPcs, LoopPcs, global, mine, clock
  <1> QED
    BY <1>1, <1>8, <1>9, <1>10, QueryStays, KeepShape DEF world

\* A call that is over leaves nothing behind.
LEMMA Ends ==
    ASSUME Shape, NEW t \in Clients, Done(t), ~Sweeps(t), UNCHANGED <<sweepMutex, sweepName>>,
           \A u \in Clients \ {t} : key'[u] = key[u] /\ bin'[u] = bin[u]
    PROVE  /\ CallTyped' /\ ClearTyped' /\ pc' \in PerClient(Places)
           /\ Moves(t) /\ FitsAfter(t) /\ pc'[t] = "idle" /\ op'[t] = "idle"
  <1> USE DEF Shape, Typed
  <1>1. /\ pc' = Set(pc, t, "idle") /\ op' = Set(op, t, "idle")
        /\ asked' = Set(asked, t, None) /\ file' = Set(file, t, None)
        /\ then' = Set(then, t, "idle") /\ after' = Set(after, t, "idle")
        /\ inp' = Set(inp, t, Closed) /\ cand' = Set(cand, t, None)
        /\ todo' = Set(todo, t, {}) /\ print' = Set(print, t, None)
        /\ atStart' = Set(atStart, t, [f \in Files |-> 1])
    BY DEF Done
  <1>2. /\ op' \in PerClient(Ops \union {"idle"}) /\ op'[t] = "idle"
        /\ \A u \in Clients \ {t} : op'[u] = op[u]
    BY <1>1 DEF Set, PerClient, CallTyped
  <1>3. /\ asked' \in PerClient(MaybeFile) /\ file' \in PerClient(MaybeFile)
        /\ cand' \in PerClient(MaybeFile)
        /\ \A u \in Clients \ {t} : asked'[u] = asked[u] /\ file'[u] = file[u] /\ cand'[u] = cand[u]
    BY <1>1 DEF Set, PerClient, CallTyped, MaybeFile
  <1>4. /\ then' \in PerClient({"idle", "opened", "pixels"}) /\ after' \in PerClient(Places)
        /\ \A u \in Clients \ {t} : then'[u] = then[u] /\ after'[u] = after[u]
    BY <1>1 DEF Set, PerClient, CallTyped, Places
  <1>5. /\ inp' \in PerClient(Versions \union {Closed})
        /\ \A u \in Clients \ {t} : inp'[u] = inp[u]
    BY <1>1 DEF Set, PerClient, CallTyped
  <1>6. /\ todo' \in PerClient(SUBSET Files) /\ \A u \in Clients \ {t} : todo'[u] = todo[u]
    BY <1>1 DEF Set, PerClient, ClearTyped
  <1>7. print' \in PerClient(Prints \union {None})
    BY <1>1 DEF Set, PerClient, ClearTyped
  <1>8. atStart' \in PerClient(OnFiles(Versions))
    <2>1. [f \in Files |-> 1] \in OnFiles(Versions)
      BY VersionsOf DEF OnFiles
    <2> QED
      BY <1>1, <2>1 DEF Set, PerClient, ClearTyped
  <1>9. /\ pc' \in PerClient(Places) /\ pc'[t] = "idle" /\ \A u \in Clients \ {t} : pc'[u] = pc[u]
    BY <1>1 DEF Set, PerClient, Places, ClockTyped
  <1>10. Moves(t)
    BY <1>2, <1>3, <1>4, <1>5, <1>6, <1>9 DEF Moves
  <1>11. FitsAfter(t)
    <2>1. FitsAt("idle", "idle", "idle", asked'[t], file'[t], then'[t], inp'[t], cand'[t],
                 key'[t], bin'[t], todo'[t])
      BY DEF FitsAt, Queries, QueryPcs, OpenPcs, OpenedPcs, SweepPcs, LoopPcs, ClearPcs
    <2>2. Goal(pc'[t], after'[t]) = "idle"
      BY <1>9 DEF Goal
    <2>3. ~Sweeps(t)' /\ sweepMutex' # t
      BY <2>2, Fit DEF Sweeps, SweepPcs
    <2> QED
      BY <1>2, <1>9, <2>1, <2>2, <2>3 DEF FitsAfter
  <1> QED
    BY <1>2, <1>3, <1>4, <1>5, <1>6, <1>7, <1>8, <1>9, <1>10, <1>11 DEF CallTyped, ClearTyped

\* Answer keeps the shape.
LEMMA AnswerShape ==
    ASSUME Shape, NEW t \in Clients, Answer(t)
    PROVE  Shape' /\ Moves(t)
  <1> USE DEF Shape, Typed
  <1>1. pc[t] \in {"answered", "failed"} /\ Done(t) /\ UNCHANGED <<perFile, global, world, clock>>
    BY DEF Answer
  <1>2. ~Sweeps(t)
    BY <1>1 DEF Sweeps, SweepPcs, Goal
  <1>3. /\ CallTyped' /\ ClearTyped' /\ pc' \in PerClient(Places) /\ Moves(t) /\ FitsAfter(t)
    BY <1>1, <1>2, Ends DEF global, clock
  <1>4. FilesTyped' /\ GlobalTyped' /\ WorldTyped' /\ ClockTyped'
    BY <1>1, <1>3 DEF FilesTyped, GlobalTyped, WorldTyped, ClockTyped, perFile, global, world, clock
  <1> QED
    BY <1>1, <1>3, <1>4, KeepShape DEF world

\* Compare keeps the shape.
LEMMA CompareShape ==
    ASSUME Shape, NEW t \in Clients, Compare(t)
    PROVE  Shape' /\ Moves(t)
  <1> USE DEF Shape, Typed
  <1>1. /\ pc[t] = "compare"
        /\ \/ /\ duplicate' = Set(duplicate, file[t], cand[t]) /\ Shut(t, file[t], "unlock")
              /\ UNCHANGED owner
           \/ /\ pc' = Set(pc, t, "use") /\ owner' = Set(owner, file[t], None)
              /\ UNCHANGED <<duplicate, input, after>>
        /\ cand' = Set(cand, t, None)
        /\ UNCHANGED <<valid, broken, used, fingerprint, mod_time, global, world, file,
                       op, asked, then, inp, todo, print, atStart, clock>>
    BY DEF Compare
  <1>2. QueryAt(t)
    BY <1>1, QueryFits DEF QueryPcs, LoopPcs
  <1>3. /\ input' \in OnFiles(Versions \union {Closed})
        /\ pc' \in PerClient(Places) /\ after' \in PerClient(Places)
        /\ pc'[t] \in {"use", "unlock"} \/ (pc'[t] = "lower" /\ after'[t] = "unlock")
        /\ \A u \in Clients \ {t} : pc'[u] = pc[u] /\ after'[u] = after[u]
    <2>1. CASE Shut(t, file[t], "unlock")
      <3>1. "unlock" \in Places
        BY DEF Places
      <3> QED
        BY <2>1, <3>1, ShutGoes
    <2>2. CASE pc' = Set(pc, t, "use") /\ UNCHANGED <<input, after>>
      BY <2>2 DEF Set, PerClient, Places, FilesTyped, CallTyped, ClockTyped
    <2> QED
      BY <1>1, <2>1, <2>2
  <1>4. /\ cand' \in PerClient(MaybeFile) /\ \A u \in Clients \ {t} : cand'[u] = cand[u]
    BY <1>1 DEF Set, PerClient, CallTyped, MaybeFile
  <1>5. owner' \in OnFiles(MaybeClient) /\ duplicate' \in OnFiles(MaybeFile)
    <2>1. cand[t] \in MaybeFile
      BY DEF CallTyped, PerClient
    <2> QED
      BY <1>1, <2>1 DEF Set, OnFiles, FilesTyped, MaybeClient
  <1>6. /\ FilesTyped' /\ GlobalTyped' /\ WorldTyped' /\ CallTyped' /\ ClearTyped' /\ ClockTyped'
    BY <1>1, <1>3, <1>4, <1>5 DEF FilesTyped, GlobalTyped, WorldTyped, CallTyped, ClearTyped,
       ClockTyped, global, world, clock
  <1>7. Moves(t)
    BY <1>1, <1>3, <1>4 DEF Moves, global, clock
  <1>8. FitsAfter(t)
    <2>1. CASE pc'[t] \in {"use", "unlock"}
      <3>1. QueryAt(t)'
        BY <1>1, <1>2, <2>1 DEF QueryAt, QueryPcs, OpenPcs, OpenedPcs, SweepPcs, global, clock
      <3> QED
        BY <3>1, QueryStays
    <2>2. CASE pc'[t] = "lower" /\ after'[t] = "unlock"
      <3>1. sweepMutex' # t
        BY <1>1, <1>2 DEF QueryAt, SweepPcs, global
      <3> QED
        BY <1>1, <1>2, <2>2, <3>1, QueryLowers DEF QueryAt
    <2> QED
      BY <1>3, <2>1, <2>2
  <1> QED
    BY <1>1, <1>6, <1>7, <1>8, KeepShape DEF world

\* Release keeps the shape.
LEMMA ReleaseShape ==
    ASSUME Shape, NEW t \in Clients, Release(t)
    PROVE  Shape' /\ Moves(t)
  <1> USE DEF Shape, Typed
  <1>1. /\ pc[t] = "release"
        /\ \/ /\ pc' = Set(pc, t, "step") /\ UNCHANGED <<input, after>>
              /\ used' = Set(used, key[t], FALSE) \/ UNCHANGED used
           \/ Shut(t, key[t], "step") /\ UNCHANGED used
        /\ UNCHANGED <<owner, valid, broken, fingerprint, duplicate, mod_time, global, world,
                       file, op, asked, then, inp, cand, todo, print, atStart, clock>>
    BY DEF Release
  <1>2. /\ input' \in OnFiles(Versions \union {Closed})
        /\ pc' \in PerClient(Places) /\ after' \in PerClient(Places)
        /\ pc'[t] = "step" \/ (pc'[t] = "lower" /\ after'[t] = "step")
        /\ \A u \in Clients \ {t} : pc'[u] = pc[u] /\ after'[u] = after[u]
    <2>1. CASE Shut(t, key[t], "step")
      <3>1. "step" \in Places
        BY DEF Places
      <3> QED
        BY <2>1, <3>1, ShutGoes
    <2>2. CASE pc' = Set(pc, t, "step") /\ UNCHANGED <<input, after>>
      BY <2>2 DEF Set, PerClient, Places, FilesTyped, CallTyped, ClockTyped
    <2> QED
      BY <1>1, <2>1, <2>2
  <1>3. used' \in OnFiles(BOOLEAN)
    BY <1>1 DEF Set, OnFiles, FilesTyped
  <1>4. /\ FilesTyped' /\ GlobalTyped' /\ WorldTyped' /\ CallTyped' /\ ClearTyped' /\ ClockTyped'
    BY <1>1, <1>2, <1>3 DEF FilesTyped, GlobalTyped, WorldTyped, CallTyped, ClearTyped,
       ClockTyped, global, world, clock
  <1>5. Moves(t)
    BY <1>1, <1>2 DEF Moves, global, clock
  <1>6. QueryAt(t)
    BY <1>1, QueryFits DEF QueryPcs, OpenPcs, OpenedPcs, SweepPcs, LoopPcs
  <1>7. FitsAfter(t)
    <2>1. CASE pc'[t] = "step"
      <3>1. QueryAt(t)'
        BY <1>1, <1>6, <2>1 DEF QueryAt, QueryPcs, OpenPcs, OpenedPcs, SweepPcs, global, clock
      <3> QED
        BY <3>1, QueryStays
    <2>2. CASE pc'[t] = "lower" /\ after'[t] = "step"
      <3>1. sweepMutex' = t /\ key'[t] # None /\ then'[t] \in {"opened", "pixels"}
        BY <1>1, <1>6 DEF QueryAt, OpenPcs, SweepPcs, global, clock
      <3> QED
        BY <1>1, <1>6, <2>2, <3>1, QueryLowers DEF QueryAt
    <2> QED
      BY <1>2, <2>1, <2>2
  <1> QED
    BY <1>1, <1>4, <1>5, <1>7, KeepShape DEF world
-----------------------------------------------------------------------------
\* What a call that is no query has, at its place.
OtherAt(t) ==
    /\ op[t] \in Ops \ Queries /\ asked[t] \in Files /\ pc[t] # "idle" /\ sweepMutex # t
    /\ Goal(pc[t], after[t]) \in {"find", "check time"} \union LoopPcs \union ClearPcs
    /\ pc[t] = "lower" => after[t] \in {"step", "clear spec"}
    /\ op[t] \in {"close", "close all"} => Goal(pc[t], after[t]) \in {"find"} \union LoopPcs
    /\ op[t] \in {"invalidate all", "refresh all"} => Goal(pc[t], after[t]) \in LoopPcs \union ClearPcs
    /\ op[t] \in {"invalidate", "refresh"} =>
           Goal(pc[t], after[t]) \in {"find", "check time"} \union ClearPcs
    /\ pc[t] = "find" => op[t] \notin {"close all", "invalidate all", "refresh all"}
    /\ pc[t] = "check time" => op[t] = "refresh" /\ todo[t] # {}
    /\ pc[t] \in {"begin", "next"} => bin[t] \in Bins
    /\ Goal(pc[t], after[t]) = "step" => key[t] # None
    /\ Goal(pc[t], after[t]) \in ClearPcs =>
           IF op[t] = "invalidate all" THEN Goal(pc[t], after[t]) = "clear spec" /\ key[t] # None
                                       ELSE todo[t] # {}

\* The shape says so, ...
LEMMA OtherFits ==
    ASSUME Shape, NEW t \in Clients, op[t] \in Ops \ Queries
    PROVE  OtherAt(t)
  <1> DEFINE g == Goal(pc[t], after[t])
  <1>1. /\ FitsAt(pc[t], g, op[t], asked[t], file[t], then[t], inp[t], cand[t], key[t], bin[t],
                  todo[t])
        /\ sweepMutex = t <=> op[t] \in Queries /\ g \in SweepPcs
    BY Fit DEF Shape, Sweeps
  <1>2. op[t] # "idle" /\ sweepMutex # t
    BY <1>1 DEF Ops, Queries, Invalidations
  <1>3. /\ pc[t] # "idle" /\ (pc[t] = "find" => g = "find") /\ (pc[t] = "check time" => g = "check time")
        /\ pc[t] = "lower" => g = after[t]
    BY <1>1, <1>2 DEF FitsAt, Goal
  <1> HIDE DEF g
  <1>4. g \in {"find", "check time"} \union LoopPcs \union ClearPcs
    BY <1>1, <1>2 DEF FitsAt, Ops, Queries, Invalidations
  <1>5. pc[t] = "lower" => after[t] \in {"step", "clear spec"}
    BY <1>1, <1>3, <1>4 DEF FitsAt, LoopPcs, ClearPcs
  <1>6. OtherAt(t) <=>
          /\ op[t] \in Ops \ Queries /\ asked[t] \in Files /\ pc[t] # "idle" /\ sweepMutex # t
          /\ g \in {"find", "check time"} \union LoopPcs \union ClearPcs
          /\ pc[t] = "lower" => after[t] \in {"step", "clear spec"}
          /\ op[t] \in {"close", "close all"} => g \in {"find"} \union LoopPcs
          /\ op[t] \in {"invalidate all", "refresh all"} => g \in LoopPcs \union ClearPcs
          /\ op[t] \in {"invalidate", "refresh"} => g \in {"find", "check time"} \union ClearPcs
          /\ pc[t] = "find" => op[t] \notin {"close all", "invalidate all", "refresh all"}
          /\ pc[t] = "check time" => op[t] = "refresh" /\ todo[t] # {}
          /\ pc[t] \in {"begin", "next"} => bin[t] \in Bins
          /\ g = "step" => key[t] # None
          /\ g \in ClearPcs => IF op[t] = "invalidate all" THEN g = "clear spec" /\ key[t] # None
                                                           ELSE todo[t] # {}
    BY DEF OtherAt, g
  <1> QED
    BY <1>1, <1>2, <1>3, <1>4, <1>5, <1>6 DEF FitsAt

\* ... and it keeps the shape if it stays so.
LEMMA OtherStays ==
    ASSUME NEW t \in Clients, OtherAt(t)'
    PROVE  FitsAfter(t)
  <1> DEFINE g == Goal(pc'[t], after'[t])
  <1>1. /\ op'[t] \in Ops /\ op'[t] \notin Queries /\ op'[t] # "idle" /\ asked'[t] \in Files /\ pc'[t] # "idle"
        /\ sweepMutex' # t
        /\ g \in {"find", "check time"} \union LoopPcs \union ClearPcs
        /\ pc'[t] = "lower" => g \in {"step", "clear spec"}
        /\ op'[t] \in {"close", "close all"} => g \in {"find"} \union LoopPcs
        /\ op'[t] \in {"invalidate all", "refresh all"} => g \in LoopPcs \union ClearPcs
        /\ op'[t] \in {"invalidate", "refresh"} => g \in {"find", "check time"} \union ClearPcs
        /\ pc'[t] # "lower" => pc'[t] = g
        /\ pc'[t] = "find" => op'[t] \notin {"close all", "invalidate all", "refresh all"}
        /\ pc'[t] = "check time" => op'[t] = "refresh" /\ todo'[t] # {}
        /\ pc'[t] \in {"begin", "next"} => bin'[t] \in Bins
        /\ g = "step" => key'[t] # None
        /\ g \in ClearPcs => IF op'[t] = "invalidate all" THEN g = "clear spec" /\ key'[t] # None
                                                          ELSE todo'[t] # {}
    BY DEF OtherAt, Goal, Ops, Queries, Invalidations
  <1> HIDE DEF g
  <1>2. FitsAt(pc'[t], g, op'[t], asked'[t], file'[t], then'[t], inp'[t], cand'[t],
               key'[t], bin'[t], todo'[t])
    BY <1>1 DEF FitsAt, QueryPcs, OpenPcs, OpenedPcs, SweepPcs, LoopPcs, ClearPcs
  <1>3. ~Sweeps(t)' /\ pc'[t] # "find name"
    BY <1>1 DEF Sweeps, LoopPcs, ClearPcs
  <1> QED
    BY <1>1, <1>2, <1>3 DEF FitsAfter, g

\* Everybody is idle, in a query or in another call.
LEMMA Either ==
    ASSUME Shape, NEW t \in Clients, pc[t] # "idle"
    PROVE  op[t] \in Queries \/ op[t] \in Ops \ Queries
  BY Fit DEF Shape, Typed, CallTyped, PerClient, FitsAt

\* Lower keeps the shape.
LEMMA LowerShape ==
    ASSUME Shape, NEW t \in Clients, Lower(t)
    PROVE  Shape' /\ Moves(t)
  <1> USE DEF Shape, Typed
  <1>1. /\ pc[t] = "lower" /\ pc' = Set(pc, t, after[t]) /\ openFiles' = openFiles - 1
        /\ after' = Set(after, t, "idle")
        /\ UNCHANGED <<perFile, m_files, binLock, sweepMutex, sweepName, fingerprints, world,
                       file, op, asked, then, inp, cand, todo, print, atStart, clock>>
    BY DEF Lower, Goto
  <1>2. /\ FitsAt("lower", after[t], op[t], asked[t], file[t], then[t], inp[t], cand[t], key[t],
                  bin[t], todo[t])
        /\ sweepMutex = t <=> op[t] \in Queries /\ after[t] \in SweepPcs
    BY <1>1, Fit DEF Goal, Sweeps
  <1>3. after[t] \in {"unlock", "step", "clear spec"}
    BY <1>2 DEF FitsAt
  <1>4. /\ pc' \in PerClient(Places) /\ pc'[t] = after[t] /\ after' \in PerClient(Places)
        /\ \A u \in Clients \ {t} : pc'[u] = pc[u] /\ after'[u] = after[u]
    BY <1>1, <1>3 DEF Set, PerClient, Places, ClockTyped, CallTyped
  <1>5. openFiles' \in Int
    BY <1>1 DEF GlobalTyped
  <1>6. /\ FilesTyped' /\ GlobalTyped' /\ WorldTyped' /\ CallTyped' /\ ClearTyped' /\ ClockTyped'
    BY <1>1, <1>4, <1>5 DEF FilesTyped, GlobalTyped, WorldTyped, CallTyped, ClearTyped,
       ClockTyped, perFile, world, clock
  <1>7. Moves(t)
    BY <1>1, <1>4 DEF Moves, clock
  <1>8. FitsAfter(t)
    <2>1. Goal(pc'[t], after'[t]) = after[t]
      BY <1>3, <1>4 DEF Goal
    <2>2. FitsAt(after[t], after[t], op[t], asked[t], file[t], then[t], inp[t], cand[t], key[t],
                 bin[t], todo[t])
      BY <1>2, <1>3 DEF FitsAt
    <2>3. /\ op'[t] = op[t] /\ asked'[t] = asked[t] /\ file'[t] = file[t] /\ then'[t] = then[t]
          /\ inp'[t] = inp[t] /\ cand'[t] = cand[t] /\ key'[t] = key[t] /\ bin'[t] = bin[t]
          /\ todo'[t] = todo[t]
      BY <1>1 DEF clock
    <2>4. /\ FitsAt(pc'[t], Goal(pc'[t], after'[t]), op'[t], asked'[t], file'[t], then'[t],
                    inp'[t], cand'[t], key'[t], bin'[t], todo'[t])
      BY <1>4, <2>1, <2>2, <2>3, Zenon
    <2>5. (sweepMutex' = t <=> Sweeps(t)') /\ pc'[t] # "find name"
      BY <1>1, <1>2, <1>3, <1>4, <2>1, <2>3 DEF Sweeps
    <2> QED
      BY <2>4, <2>5 DEF FitsAfter
  <1> QED
    BY <1>1, <1>6, <1>7, <1>8, KeepShape DEF world

\* The numbers of the bins.
LEMMA BinNumbers ==
    /\ \A b \in Bins : b \in Nat /\ b \in 0..NBins
    /\ \A b \in Bins : b < NBins => b + 1 \in Bins /\ b + 1 \in 0..NBins
    /\ 0 \in 0..NBins /\ \A b \in 0..NBins : b # 0 => b \in Bins
    /\ \A f \in Files : BinOf[f] \in Bins
  <1>1. NBins \in Nat \ {0}
    BY Names
  <1>2. /\ \A b \in Bins : b \in Nat /\ b \in 0..NBins
        /\ \A b \in Bins : b < NBins => b + 1 \in Bins /\ b + 1 \in 0..NBins
        /\ 0 \in 0..NBins /\ \A b \in 0..NBins : b # 0 => b \in Bins
    BY ONLY <1>1 DEF Bins
  <1>3. \A f \in Files : BinOf[f] \in Bins
    BY Names
  <1> QED
    BY <1>2, <1>3

\* The first file in a bin, and the next ones.
LEMMA InBins ==
    ASSUME Shape, NEW b, NEW k
    PROVE  /\ InBin(b) # {} => Min(InBin(b)) \in InBin(b) /\ \A f \in InBin(b) : Min(InBin(b)) <= f
           /\ LET rest == {f \in InBin(b) : f > k}
              IN  rest # {} => Min(rest) \in rest /\ \A f \in rest : Min(rest) <= f
           /\ InBin(b) \subseteq Files
  <1>1. InBin(b) \subseteq Files /\ Files \subseteq Nat
    BY Names DEF InBin, Shape, Typed, GlobalTyped
  <1> HIDE DEF Shape
  <1> QED
    BY <1>1, MinOf

\* Enter keeps the shape.
LEMMA EnterShape ==
    ASSUME Shape, NEW t \in Clients, Enter(t)
    PROVE  Shape' /\ Moves(t)
  <1> USE DEF Shape, Typed
  <1> DEFINE b == bin[t]
             k == IF InBin(b) # {} THEN Min(InBin(b)) ELSE None
             on == k = None /\ b < NBins
  <1>1. /\ pc[t] \in {"begin", "next"} /\ key' = Set(key, t, k)
        /\ binLock' = IF k # None THEN Set(binLock, b, t) ELSE binLock
        /\ bin' = Set(bin, t, IF on THEN b + 1 ELSE 0)
        /\ pc' = Set(pc, t, IF on THEN pc[t] ELSE Goes(t, k))
        /\ UNCHANGED <<perFile, m_files, openFiles, sweepMutex, sweepName, fingerprints,
                       world, file, mine, loops>>
    BY DEF Enter
  <1>2. op[t] \in Queries \/ op[t] \in Ops \ Queries
    BY <1>1, Either
  <1>3. op[t] \in Queries => QueryAt(t)
    BY <1>1, QueryFits DEF QueryPcs, OpenPcs, SweepPcs
  <1>4. op[t] \in Ops \ Queries => OtherAt(t)
    BY OtherFits
  <1>5. b \in Bins /\ b \in Nat
    BY <1>1, <1>2, <1>3, <1>4, BinNumbers DEF QueryAt, OtherAt
  <1>6. k \in MaybeFile
    BY InBins DEF MaybeFile
  <1>7. (on => b + 1 \in Bins) /\ \A c \in Bins : c \in 0..NBins
    BY <1>5, BinNumbers
  <1> HIDE DEF b, k, on
  <1>8. /\ key' \in PerClient(MaybeFile) /\ key'[t] = k /\ \A u \in Clients \ {t} : key'[u] = key[u]
    BY <1>1, <1>6 DEF Set, PerClient, ClockTyped
  <1>9. binLock' \in [Bins -> MaybeClient]
    BY <1>1 DEF Set, GlobalTyped, MaybeClient
  <1>10. /\ bin' \in PerClient(0..NBins) /\ (on => bin'[t] \in Bins)
         /\ \A u \in Clients \ {t} : bin'[u] = bin[u]
    <2>1. 0 \in 0..NBins /\ (on => b + 1 \in 0..NBins)
      BY <1>7, BinNumbers
    <2> QED
      BY <1>1, <1>7, <2>1 DEF Set, PerClient, ClockTyped
  <1>11. /\ pc' \in PerClient(Places) /\ (on => pc'[t] = pc[t]) /\ (~on => pc'[t] = Goes(t, k))
         /\ \A u \in Clients \ {t} : pc'[u] = pc[u]
    <2>1. Goes(t, k) \in Places
      BY DEF Goes, Places
    <2> QED
      BY <1>1, <2>1 DEF Set, PerClient, ClockTyped
  <1>12. /\ FilesTyped' /\ GlobalTyped' /\ WorldTyped' /\ CallTyped' /\ ClearTyped' /\ ClockTyped'
    BY <1>1, <1>8, <1>9, <1>10, <1>11 DEF FilesTyped, GlobalTyped, WorldTyped, CallTyped,
       ClearTyped, ClockTyped, perFile, world, mine
  <1>13. Moves(t)
    BY <1>1, <1>8, <1>10, <1>11 DEF Moves, mine
  <1>14. FitsAfter(t)
    <2>1. CASE op[t] \in Queries
      <3>1. (pc'[t] \in {"begin", "next"} /\ on) \/ pc'[t] \in {"sweep", "save name"}
            \/ (pc'[t] = "release" /\ k # None)
        BY <1>1, <1>11, <2>1 DEF Goes, Querying
      <3>2. QueryAt(t)'
        BY <1>1, <1>3, <1>8, <1>10, <2>1, <3>1 DEF QueryAt, QueryPcs, OpenPcs, OpenedPcs, SweepPcs, mine
      <3> QED
        BY <3>2, QueryStays
    <2>2. CASE op[t] \in Ops \ Queries
      <3>1. (pc'[t] \in {"begin", "next"} /\ on) \/ pc'[t] = "visit"
        BY <1>1, <1>11, <2>2 DEF Goes, Querying
      <3>2. OtherAt(t)'
        BY <1>1, <1>4, <1>8, <1>10, <2>2, <3>1 DEF OtherAt, Goal, LoopPcs, ClearPcs, mine
      <3> QED
        BY <3>2, OtherStays
    <2> QED
      BY <1>2, <2>1, <2>2
  <1> QED
    BY <1>1, <1>12, <1>13, <1>14, KeepShape DEF world

\* StepOn keeps the shape.
LEMMA StepOnShape ==
    ASSUME Shape, NEW t \in Clients, StepOn(t)
    PROVE  Shape' /\ Moves(t)
  <1> USE DEF Shape, Typed
  <1> DEFINE k == key[t]
             b == BinOf[k]
             rest == {f \in InBin(b) : f > k}
             stay == rest # {} /\ op[t] # "close"
             on == ~stay /\ op[t] # "close" /\ b < NBins
  <1>1. /\ pc[t] = "step"
        /\ key' = Set(key, t, IF stay THEN Min(rest) ELSE None)
        /\ binLock' = IF stay THEN binLock ELSE Set(binLock, b, None)
        /\ IF stay THEN bin' = bin ELSE bin' = Set(bin, t, IF on THEN b + 1 ELSE 0)
        /\ IF op[t] = "close" THEN Done(t)
           ELSE /\ pc' = Set(pc, t, IF bin'[t] # 0 THEN "next" ELSE Goes(t, key'[t]))
                /\ UNCHANGED <<file, mine>>
        /\ UNCHANGED <<perFile, m_files, openFiles, sweepMutex, sweepName, fingerprints,
                       world, loops>>
    BY DEF StepOn
  <1>2. op[t] \in Queries \/ op[t] \in Ops \ Queries
    BY <1>1, Either
  <1>3. op[t] \in Queries => QueryAt(t)
    BY <1>1, QueryFits DEF QueryPcs, OpenPcs, SweepPcs
  <1>4. op[t] \in Ops \ Queries => OtherAt(t)
    BY OtherFits
  <1>5. k # None
    BY <1>1, <1>2, <1>3, <1>4 DEF QueryAt, OtherAt, Goal
  <1>6. k \in Files /\ b \in Bins /\ b \in Nat
    <2>1. k \in Files
      BY <1>5 DEF ClockTyped, PerClient, MaybeFile
    <2> QED
      BY <2>1, BinNumbers
  <1>7. stay => Min(rest) \in Files
    BY InBins
  <1>8. (on => b + 1 \in Bins) /\ \A c \in Bins : c \in 0..NBins
    BY <1>6, BinNumbers
  <1> HIDE DEF k, b, rest, stay, on
  <1>9. /\ key' \in PerClient(MaybeFile) /\ \A u \in Clients \ {t} : key'[u] = key[u]
    BY <1>1, <1>7 DEF Set, PerClient, ClockTyped, MaybeFile
  <1>10. binLock' \in [Bins -> MaybeClient]
    BY <1>1 DEF Set, GlobalTyped, MaybeClient
  <1>11. /\ bin' \in PerClient(0..NBins) /\ bin[t] \in 0..NBins
         /\ IF stay THEN bin'[t] = bin[t] ELSE bin'[t] = IF on THEN b + 1 ELSE 0
         /\ \A u \in Clients \ {t} : bin'[u] = bin[u]
    <2>1. 0 \in 0..NBins /\ (on => b + 1 \in 0..NBins)
      BY <1>8, BinNumbers
    <2> QED
      BY <1>1, <2>1 DEF Set, PerClient, ClockTyped
  <1>12. bin'[t] # 0 => bin'[t] \in Bins
    <2>1. bin'[t] \in 0..NBins
      BY <1>11 DEF PerClient
    <2> QED
      BY <2>1, BinNumbers
  <1>13. FilesTyped' /\ GlobalTyped' /\ WorldTyped'
    BY <1>1, <1>10 DEF FilesTyped, GlobalTyped, WorldTyped, perFile, world
  <1>14. CASE op[t] = "close"
    <2>1. ~Sweeps(t)
      BY <1>14 DEF Sweeps, Queries
    <2>2. /\ CallTyped' /\ ClearTyped' /\ pc' \in PerClient(Places) /\ Moves(t) /\ FitsAfter(t)
      BY <1>1, <1>9, <1>11, <1>14, <2>1, Ends
    <2>3. ClockTyped'
      BY <1>1, <1>9, <1>11, <2>2 DEF ClockTyped
    <2> QED
      BY <1>1, <1>13, <2>2, <2>3, KeepShape DEF world
  <1>15. CASE op[t] # "close"
    <2>1. /\ pc' \in PerClient(Places)
          /\ pc'[t] = IF bin'[t] # 0 THEN "next" ELSE Goes(t, key'[t])
          /\ \A u \in Clients \ {t} : pc'[u] = pc[u]
      <3>1. "next" \in Places /\ Goes(t, key'[t]) \in Places
        BY DEF Goes, Places
      <3> QED
        BY <1>1, <1>15, <3>1 DEF Set, PerClient, ClockTyped
    <2>2. CallTyped' /\ ClearTyped' /\ ClockTyped'
      BY <1>1, <1>9, <1>11, <1>15, <2>1 DEF CallTyped, ClearTyped, ClockTyped, mine
    <2>3. Moves(t)
      BY <1>1, <1>9, <1>11, <1>15, <2>1 DEF Moves, mine
    <2>4. FitsAfter(t)
      <3>1. CASE op[t] \in Queries
        <4>1. pc'[t] = "sweep" \/ (pc'[t] = "next" /\ bin'[t] \in Bins)
          BY <1>1, <1>12, <2>1, <3>1 DEF Goes, Querying
        <4>2. QueryAt(t)'
          BY <1>1, <1>3, <1>15, <3>1, <4>1 DEF QueryAt, QueryPcs, OpenPcs, OpenedPcs, SweepPcs, mine
        <4> QED
          BY <4>2, QueryStays
      <3>2. CASE op[t] \in Ops \ Queries
        <4>1. pc'[t] = "visit" \/ (pc'[t] = "next" /\ bin'[t] \in Bins)
          BY <1>1, <1>12, <2>1, <3>2 DEF Goes, Querying
        <4>2. OtherAt(t)'
          BY <1>1, <1>4, <1>15, <3>2, <4>1 DEF OtherAt, Goal, LoopPcs, ClearPcs, mine
        <4> QED
          BY <4>2, OtherStays
      <3> QED
        BY <1>2, <3>1, <3>2
    <2> QED
      BY <1>1, <1>13, <2>2, <2>3, <2>4, KeepShape DEF world
  <1> QED
    BY <1>14, <1>15

\* Forgotten keeps the type of floor.
LEMMA ForgottenTyped ==
    ASSUME Shape, NEW t \in Clients, NEW S, Forgotten(t, S)
    PROVE  floor' \in OnFiles(Versions)
  <1>1. floor \in OnFiles(Versions) /\ atStart[t] \in OnFiles(Versions)
    BY DEF Shape, Typed, WorldTyped, ClearTyped, PerClient
  <1>2. ASSUME NEW f \in Files
        PROVE  (IF f \in S THEN Max({floor[f], atStart[t][f]}) ELSE floor[f]) \in Versions
    <2>1. floor[f] \in Versions /\ atStart[t][f] \in Versions
      BY <1>1 DEF OnFiles
    <2> DEFINE m == floor[f]
               n == atStart[t][f]
    <2>2. Max({m, n}) \in {m, n}
      <3>1. m \in Int /\ n \in Int
        <4>1. m \in Nat \ {0} /\ n \in Nat \ {0}
          BY <2>1, VersionsOf, Zenon
        <4> QED
          BY ONLY <4>1
      <3> HIDE DEF m, n
      <3>2. Max({m, n}) = IF m <= n THEN n ELSE m
        BY <3>1, MaxPair
      <3> QED
        BY <3>2
    <2> QED
      BY <2>1, <2>2
  <1> QED
    BY <1>2 DEF Forgotten, OnFiles

\* Find keeps the shape.
LEMMA FindShape ==
    ASSUME Shape, NEW t \in Clients, Find(t)
    PROVE  Shape' /\ Moves(t)
  <1> USE DEF Shape, Typed
  <1> DEFINE f == asked[t]
  <1>1. /\ pc[t] = "find"
        /\ \/ /\ pc' = Set(pc, t, IF Querying(t) THEN "verify"
                                  ELSE IF op[t] = "close" THEN "visit"
                                  ELSE IF op[t] = "refresh" THEN "check time"
                                  ELSE "invalidate")
              /\ \/ /\ op[t] = "close" /\ binLock' = Set(binLock, BinOf[f], t)
                    /\ key' = Set(key, t, f)
                 \/ op[t] # "close" /\ UNCHANGED <<binLock, key>>
              /\ m_files' = m_files \union {f}
              /\ todo' = Set(todo, t, IF Invalidating(t) THEN {f} ELSE {})
              /\ UNCHANGED <<file, op, asked, then, after, inp, cand, print, atStart>>
           \/ Done(t) /\ UNCHANGED <<m_files, binLock, key>>
        /\ UNCHANGED <<perFile, openFiles, sweepMutex, sweepName, fingerprints, world,
                       bin, loops>>
    BY DEF Find
  <1>2. op[t] \in Queries \/ op[t] \in Ops \ Queries
    BY <1>1, Either
  <1>3. /\ op[t] \in Queries => file[t] \in Files
        /\ f \in Files /\ asked[t] \in Files /\ sweepMutex # t /\ ~Sweeps(t)
    <2>1. /\ FitsAt("find", "find", op[t], asked[t], file[t], then[t], inp[t], cand[t], key[t],
                    bin[t], todo[t])
          /\ sweepMutex = t <=> Sweeps(t)
      BY <1>1, Fit DEF Goal
    <2>2. ~Sweeps(t)
      BY <1>1 DEF Sweeps, Goal, SweepPcs
    <2>3. op[t] # "idle"
      BY <1>2 DEF Ops, Queries, Invalidations
    <2> QED
      BY <2>1, <2>2, <2>3 DEF FitsAt
  <1>4. op[t] \in Ops \ Queries => OtherAt(t)
    BY OtherFits
  <1> HIDE DEF f
  <1>5. FilesTyped' /\ WorldTyped' /\ openFiles' \in Int /\ sweepMutex' \in MaybeClient
        /\ sweepName' \in MaybeFile /\ fingerprints' \in [Prints -> MaybeFile]
    BY <1>1 DEF FilesTyped, GlobalTyped, WorldTyped, perFile, world
  <1>6. CASE Done(t) /\ UNCHANGED <<m_files, binLock, key>>
    <2>1. /\ CallTyped' /\ ClearTyped' /\ pc' \in PerClient(Places) /\ Moves(t) /\ FitsAfter(t)
      BY <1>1, <1>3, <1>6, Ends
    <2>2. GlobalTyped' /\ ClockTyped'
      BY <1>1, <1>5, <1>6, <2>1 DEF GlobalTyped, ClockTyped
    <2> QED
      BY <1>1, <1>5, <2>1, <2>2, KeepShape DEF world
  <1>7. CASE /\ pc' = Set(pc, t, IF Querying(t) THEN "verify"
                                 ELSE IF op[t] = "close" THEN "visit"
                                 ELSE IF op[t] = "refresh" THEN "check time"
                                 ELSE "invalidate")
             /\ \/ /\ op[t] = "close" /\ binLock' = Set(binLock, BinOf[f], t)
                   /\ key' = Set(key, t, f)
                \/ op[t] # "close" /\ UNCHANGED <<binLock, key>>
             /\ m_files' = m_files \union {f}
             /\ todo' = Set(todo, t, IF Invalidating(t) THEN {f} ELSE {})
             /\ UNCHANGED <<file, op, asked, then, after, inp, cand, print, atStart>>
    <2>1. /\ pc' \in PerClient(Places)
          /\ pc'[t] = IF Querying(t) THEN "verify" ELSE IF op[t] = "close" THEN "visit"
                      ELSE IF op[t] = "refresh" THEN "check time" ELSE "invalidate"
          /\ \A u \in Clients \ {t} : pc'[u] = pc[u]
      BY <1>7 DEF Set, PerClient, Places, ClockTyped
    <2>2. /\ key' \in PerClient(MaybeFile) /\ \A u \in Clients \ {t} : key'[u] = key[u]
      BY <1>3, <1>7 DEF Set, PerClient, ClockTyped, MaybeFile
    <2>3. binLock' \in [Bins -> MaybeClient] /\ m_files' \subseteq Files
      BY <1>3, <1>7 DEF Set, GlobalTyped, MaybeClient
    <2>4. /\ todo' \in PerClient(SUBSET Files) /\ (Invalidating(t) => todo'[t] # {})
          /\ \A u \in Clients \ {t} : todo'[u] = todo[u]
      BY <1>3, <1>7 DEF Set, PerClient, ClearTyped
    <2>5. GlobalTyped' /\ CallTyped' /\ ClearTyped' /\ ClockTyped'
      BY <1>1, <1>5, <1>7, <2>1, <2>2, <2>3, <2>4 DEF GlobalTyped, CallTyped, ClearTyped, ClockTyped
    <2>6. Moves(t)
      BY <1>1, <1>7, <2>1, <2>2, <2>4 DEF Moves
    <2>7. FitsAfter(t)
      <3>1. CASE op[t] \in Queries
        <4>1. pc'[t] = "verify"
          BY <2>1, <3>1 DEF Querying
        <4>2. QueryAt(t)'
          BY <1>1, <1>3, <1>7, <3>1, <4>1 DEF QueryAt, QueryPcs, OpenPcs, OpenedPcs, SweepPcs
        <4> QED
          BY <4>2, QueryStays
      <3>2. CASE op[t] \in Ops \ Queries
        <4>1. op[t] \in {"close", "refresh", "invalidate"}
          BY <1>1, <1>4, <3>2 DEF OtherAt, Ops, Invalidations
        <4>2. /\ op[t] = "close" => pc'[t] = "visit"
              /\ op[t] = "refresh" => pc'[t] = "check time" /\ todo'[t] # {}
              /\ op[t] = "invalidate" => pc'[t] = "invalidate" /\ todo'[t] # {}
          BY <2>1, <2>4 DEF Querying, Queries, Invalidating, Invalidations
        <4>3. OtherAt(t)'
          BY <1>1, <1>4, <1>7, <3>2, <4>1, <4>2 DEF OtherAt, Goal, LoopPcs, ClearPcs
        <4> QED
          BY <4>3, OtherStays
      <3> QED
        BY <1>2, <3>1, <3>2
    <2> QED
      BY <1>1, <1>5, <2>5, <2>6, <2>7, KeepShape DEF world
  <1> QED
    BY <1>1, <1>6, <1>7

\* EndVisit keeps the shape.
LEMMA EndVisitShape ==
    ASSUME Shape, NEW t \in Clients, EndVisit(t)
    PROVE  Shape' /\ Moves(t)
  <1> USE DEF Shape, Typed
  <1>1. /\ pc[t] = "visit"
        /\ fingerprints' = [p \in Prints |-> None] \/ UNCHANGED fingerprints
        /\ UNCHANGED <<perFile, m_files, binLock, openFiles, sweepMutex, sweepName, disk,
                       calls, gaveUp, clock>>
    BY DEF EndVisit
  <1>2. FilesTyped' /\ GlobalTyped'
    BY <1>1 DEF FilesTyped, GlobalTyped, perFile, MaybeFile
  <1>3. CASE Done(t) /\ Forgotten(t, IF Invalidating(t) THEN Files ELSE {})
    <2>1. ~Sweeps(t)
      BY <1>1 DEF Sweeps, Goal, SweepPcs
    <2>2. CallTyped' /\ ClearTyped' /\ pc' \in PerClient(Places) /\ Moves(t) /\ FitsAfter(t)
      BY <1>1, <1>3, <2>1, Ends DEF clock
    <2>3. WorldTyped' /\ ClockTyped'
      BY <1>1, <1>3, <2>2, ForgottenTyped DEF WorldTyped, ClockTyped, clock
    <2> QED
      BY <1>1, <1>2, <2>2, <2>3, KeepShape
  <1>4. CASE /\ op[t] = "refresh all" /\ todo[t] # {}
             /\ pc' = Set(pc, t, "invalidate") /\ UNCHANGED <<file, mine, floor>>
    <2>1. OtherAt(t)
      BY <1>4, OtherFits DEF Ops, Queries, Invalidations
    <2>2. /\ pc' \in PerClient(Places) /\ pc'[t] = "invalidate"
          /\ \A u \in Clients \ {t} : pc'[u] = pc[u]
      BY <1>4 DEF Set, PerClient, Places, ClockTyped
    <2>3. WorldTyped' /\ CallTyped' /\ ClearTyped' /\ ClockTyped'
      BY <1>1, <1>4, <2>2 DEF WorldTyped, CallTyped, ClearTyped, ClockTyped, mine, clock
    <2>4. Moves(t)
      BY <1>1, <1>4, <2>2 DEF Moves, mine, clock
    <2>5. OtherAt(t)'
      BY <1>1, <1>4, <2>1, <2>2 DEF OtherAt, Goal, LoopPcs, ClearPcs, mine, clock
    <2> QED
      BY <1>1, <1>2, <2>3, <2>4, <2>5, OtherStays, KeepShape
  <1> QED
    BY <1>3, <1>4 DEF EndVisit

\* CheckTime keeps the shape.
LEMMA CheckTimeShape ==
    ASSUME Shape, NEW t \in Clients, CheckTime(t)
    PROVE  Shape' /\ Moves(t)
  <1> USE DEF Shape, Typed
  <1>1. /\ pc[t] = "check time" /\ UNCHANGED <<perFile, global, disk, calls, gaveUp, clock>>
    BY DEF CheckTime
  <1>2. FilesTyped' /\ GlobalTyped'
    BY <1>1 DEF FilesTyped, GlobalTyped, perFile, global
  <1>3. CASE Done(t) /\ Forgotten(t, {asked[t]})
    <2>1. ~Sweeps(t)
      BY <1>1 DEF Sweeps, Goal, SweepPcs
    <2>2. CallTyped' /\ ClearTyped' /\ pc' \in PerClient(Places) /\ Moves(t) /\ FitsAfter(t)
      BY <1>1, <1>3, <2>1, Ends DEF global, clock
    <2>3. WorldTyped' /\ ClockTyped'
      BY <1>1, <1>3, <2>2, ForgottenTyped DEF WorldTyped, ClockTyped, clock
    <2> QED
      BY <1>1, <1>2, <2>2, <2>3, KeepShape
  <1>4. CASE pc' = Set(pc, t, "invalidate") /\ UNCHANGED <<file, mine, floor>>
    <2>1. OtherAt(t)
      <3>1. op[t] \in Ops \ Queries
        <4>1. FitsAt("check time", "check time", op[t], asked[t], file[t], then[t], inp[t],
                     cand[t], key[t], bin[t], todo[t])
          BY <1>1, Fit DEF Goal
        <4> QED
          BY <4>1 DEF FitsAt, Ops, Queries, Invalidations
      <3> QED
        BY <3>1, OtherFits
    <2>2. /\ pc' \in PerClient(Places) /\ pc'[t] = "invalidate"
          /\ \A u \in Clients \ {t} : pc'[u] = pc[u]
      BY <1>4 DEF Set, PerClient, Places, ClockTyped
    <2>3. WorldTyped' /\ CallTyped' /\ ClearTyped' /\ ClockTyped'
      BY <1>1, <1>4, <2>2 DEF WorldTyped, CallTyped, ClearTyped, ClockTyped, mine, clock
    <2>4. Moves(t)
      BY <1>1, <1>4, <2>2 DEF Moves, global, mine, clock
    <2>5. OtherAt(t)'
      BY <1>1, <1>4, <2>1, <2>2 DEF OtherAt, Goal, LoopPcs, ClearPcs, global, mine, clock
    <2> QED
      BY <1>1, <1>2, <2>3, <2>4, <2>5, OtherStays, KeepShape
  <1> QED
    BY <1>3, <1>4 DEF CheckTime

\* ErasePrint keeps the shape.
LEMMA ErasePrintShape ==
    ASSUME Shape, NEW t \in Clients, ErasePrint(t)
    PROVE  Shape' /\ Moves(t)
  <1> USE DEF Shape, Typed
  <1> DEFINE f == Min(todo[t])
             rest == todo[t] \ {f}
  <1>1. /\ pc[t] = "erase print"
        /\ fingerprints' = [p \in Prints |-> IF p = print[t] THEN None ELSE fingerprints[p]]
        /\ UNCHANGED <<perFile, m_files, binLock, openFiles, sweepMutex, sweepName, disk,
                       calls, gaveUp, clock>>
    BY DEF ErasePrint
  <1>2. \/ /\ rest # {} /\ pc' = Set(pc, t, "invalidate") /\ todo' = Set(todo, t, rest)
           /\ Forgotten(t, {})
           /\ UNCHANGED <<file, op, asked, then, after, inp, cand, print, atStart>>
        \/ /\ Done(t)
           /\ Forgotten(t, Files) \/ Forgotten(t, {f})
    BY DEF ErasePrint
  <1>3. OtherAt(t)
    <2>1. FitsAt("erase print", "erase print", op[t], asked[t], file[t], then[t], inp[t],
                 cand[t], key[t], bin[t], todo[t])
      BY <1>1, Fit DEF Goal
    <2>2. op[t] \in Ops \ Queries
      BY <2>1 DEF FitsAt, Ops, Queries, Invalidations, CallTyped, PerClient, QueryPcs, OpenPcs,
         OpenedPcs, SweepPcs, LoopPcs
    <2> QED
      BY <2>2, OtherFits
  <1> HIDE DEF f
  <1>4. FilesTyped' /\ GlobalTyped'
    BY <1>1 DEF FilesTyped, GlobalTyped, perFile, MaybeFile
  <1>5. WorldTyped'
    BY <1>1, <1>2, ForgottenTyped DEF WorldTyped
  <1>6. CASE Done(t)
    <2>1. ~Sweeps(t)
      BY <1>1 DEF Sweeps, Goal, SweepPcs
    <2>2. CallTyped' /\ ClearTyped' /\ pc' \in PerClient(Places) /\ Moves(t) /\ FitsAfter(t)
      BY <1>1, <1>6, <2>1, Ends DEF clock
    <2>3. ClockTyped'
      BY <1>1, <2>2 DEF ClockTyped, clock
    <2> QED
      BY <1>1, <1>4, <1>5, <2>2, <2>3, KeepShape
  <1>7. CASE /\ rest # {} /\ pc' = Set(pc, t, "invalidate") /\ todo' = Set(todo, t, rest)
             /\ UNCHANGED <<file, op, asked, then, after, inp, cand, print, atStart>>
    <2>1. /\ pc' \in PerClient(Places) /\ pc'[t] = "invalidate"
          /\ \A u \in Clients \ {t} : pc'[u] = pc[u]
      BY <1>7 DEF Set, PerClient, Places, ClockTyped
    <2>2. /\ todo' \in PerClient(SUBSET Files) /\ todo'[t] # {}
          /\ \A u \in Clients \ {t} : todo'[u] = todo[u]
      BY <1>7 DEF Set, PerClient, ClearTyped
    <2>3. CallTyped' /\ ClearTyped' /\ ClockTyped'
      BY <1>1, <1>7, <2>1, <2>2 DEF CallTyped, ClearTyped, ClockTyped, clock
    <2>4. Moves(t)
      BY <1>1, <1>7, <2>1, <2>2 DEF Moves, clock
    <2>5. OtherAt(t)'
      <3>1. op[t] # "invalidate all" /\ op[t] \notin {"close", "close all"}
        BY <1>1, <1>3 DEF OtherAt, Goal, LoopPcs, ClearPcs
      <3> QED
        BY <1>1, <1>3, <1>7, <2>1, <2>2, <3>1 DEF OtherAt, Goal, LoopPcs, ClearPcs, clock
    <2> QED
      BY <1>1, <1>4, <1>5, <2>3, <2>4, <2>5, OtherStays, KeepShape
  <1> QED
    BY <1>2, <1>6, <1>7

\* Visit keeps the shape.
LEMMA VisitShape ==
    ASSUME Shape, NEW t \in Clients, Visit(t)
    PROVE  Shape' /\ Moves(t)
  <1> USE DEF Shape, Typed
  <1> DEFINE k == key[t]
  <1>1. /\ pc[t] = "visit" /\ k # None
        /\ \/ /\ op[t] \in {"close", "close all"} /\ Shut(t, k, "step")
              /\ UNCHANGED <<owner, todo>>
           \/ /\ op[t] = "invalidate all" /\ owner' = Set(owner, k, t)
              /\ Shut(t, k, "clear spec") /\ UNCHANGED todo
           \/ /\ op[t] = "refresh all"
              /\ todo' = Set(todo, t, todo[t] \union {k}) \/ todo' = Set(todo, t, todo[t] \union {})
              /\ pc' = Set(pc, t, "step") /\ UNCHANGED <<input, owner, after>>
        /\ UNCHANGED <<valid, broken, used, fingerprint, duplicate, mod_time, global, world,
                       file, op, asked, then, inp, cand, print, atStart, clock>>
    BY DEF Visit
  <1>2. OtherAt(t)
    BY <1>1, OtherFits DEF Ops, Queries, Invalidations
  <1>3. k \in Files
    BY <1>1 DEF ClockTyped, PerClient, MaybeFile
  <1> HIDE DEF k
  <1>4. /\ input' \in OnFiles(Versions \union {Closed})
        /\ pc' \in PerClient(Places) /\ after' \in PerClient(Places)
        /\ \/ pc'[t] = "step" \/ (pc'[t] = "lower" /\ after'[t] = "step")
           \/ /\ op[t] = "invalidate all"
              /\ pc'[t] = "clear spec" \/ (pc'[t] = "lower" /\ after'[t] = "clear spec")
        /\ \A u \in Clients \ {t} : pc'[u] = pc[u] /\ after'[u] = after[u]
    <2>1. "step" \in Places /\ "clear spec" \in Places
      BY DEF Places
    <2>2. CASE Shut(t, k, "step")
      BY <2>1, <2>2, ShutGoes
    <2>3. CASE op[t] = "invalidate all" /\ Shut(t, k, "clear spec")
      BY <2>1, <2>3, ShutGoes
    <2>4. CASE pc' = Set(pc, t, "step") /\ UNCHANGED <<input, after>>
      BY <2>1, <2>4 DEF Set, PerClient, FilesTyped, CallTyped, ClockTyped
    <2> QED
      BY <1>1, <2>2, <2>3, <2>4
  <1>5. owner' \in OnFiles(MaybeClient)
    BY <1>1 DEF Set, OnFiles, FilesTyped, MaybeClient
  <1>6. todo' \in PerClient(SUBSET Files) /\ \A u \in Clients \ {t} : todo'[u] = todo[u]
    <2>1. todo \in [Clients -> SUBSET Files]
      BY DEF ClearTyped, PerClient
    <2>2. \E S \in SUBSET Files : todo' = Set(todo, t, S) \/ UNCHANGED todo
      BY <1>1, <1>3, <2>1
    <2> QED
      BY <2>1, <2>2 DEF Set, PerClient
  <1>7. /\ FilesTyped' /\ GlobalTyped' /\ WorldTyped' /\ CallTyped' /\ ClearTyped' /\ ClockTyped'
    BY <1>1, <1>4, <1>5, <1>6 DEF FilesTyped, GlobalTyped, WorldTyped, CallTyped, ClearTyped,
       ClockTyped, global, world, clock
  <1>8. Moves(t)
    BY <1>1, <1>4, <1>6 DEF Moves, global, clock
  <1>9. OtherAt(t)'
    <2>1. op[t] \notin {"invalidate", "refresh"} /\ key'[t] # None /\ op'[t] = op[t] /\ asked'[t] = asked[t]
          /\ sweepMutex' = sweepMutex
      BY <1>1, <1>2 DEF OtherAt, Goal, LoopPcs, ClearPcs, global, clock, k
    <2> QED
      BY <1>2, <1>4, <2>1 DEF OtherAt, Goal, LoopPcs, ClearPcs
  <1> QED
    BY <1>1, <1>7, <1>8, <1>9, OtherStays, KeepShape DEF world

\* Invalidate keeps the shape.
LEMMA InvalidateShape ==
    ASSUME Shape, NEW t \in Clients, Invalidate(t)
    PROVE  Shape' /\ Moves(t)
  <1> USE DEF Shape, Typed
  <1> DEFINE f == Min(todo[t])
  <1>1. /\ pc[t] = "invalidate" /\ pc' = Set(pc, t, "invalidate lock")
        /\ print' = Set(print, t, fingerprint[f])
        /\ UNCHANGED <<perFile, global, world, file, op, asked, then, after, inp, cand, todo,
                       atStart, clock>>
    BY DEF Invalidate, Goto
  <1>2. OtherAt(t) /\ op[t] # "invalidate all"
    <2>1. FitsAt("invalidate", "invalidate", op[t], asked[t], file[t], then[t], inp[t],
                 cand[t], key[t], bin[t], todo[t])
      BY <1>1, Fit DEF Goal
    <2>2. op[t] \in Ops \ Queries
      BY <2>1 DEF FitsAt, Ops, Queries, Invalidations, CallTyped, PerClient, QueryPcs, OpenPcs,
         OpenedPcs, SweepPcs, LoopPcs
    <2> QED
      BY <1>1, <2>2, OtherFits DEF OtherAt, Goal, ClearPcs
  <1>3. f \in Files
    <2>1. todo[t] \in SUBSET Nat /\ todo[t] # {} /\ todo[t] \subseteq Files
      BY <1>1, <1>2, Names DEF OtherAt, Goal, ClearPcs, ClearTyped, PerClient
    <2> QED
      BY <2>1, MinOf
  <1> HIDE DEF f
  <1>4. print' \in PerClient(Prints \union {None})
    <2>1. fingerprint[f] \in Prints \union {None}
      BY <1>3 DEF FilesTyped, OnFiles
    <2> QED
      BY <1>1, <2>1 DEF Set, PerClient, ClearTyped
  <1>5. /\ pc' \in PerClient(Places) /\ pc'[t] = "invalidate lock"
        /\ \A u \in Clients \ {t} : pc'[u] = pc[u]
    BY <1>1 DEF Set, PerClient, Places, ClockTyped
  <1>6. /\ FilesTyped' /\ GlobalTyped' /\ WorldTyped' /\ CallTyped' /\ ClearTyped' /\ ClockTyped'
    BY <1>1, <1>4, <1>5 DEF FilesTyped, GlobalTyped, WorldTyped, CallTyped, ClearTyped,
       ClockTyped, perFile, global, world, clock
  <1>7. Moves(t)
    BY <1>1, <1>5 DEF Moves, global, clock
  <1>8. OtherAt(t)'
    BY <1>1, <1>2, <1>5 DEF OtherAt, Goal, LoopPcs, ClearPcs, global, clock
  <1> QED
    BY <1>1, <1>6, <1>7, <1>8, OtherStays, KeepShape DEF world

\* InvalidateLock keeps the shape.
LEMMA InvalidateLockShape ==
    ASSUME Shape, NEW t \in Clients, InvalidateLock(t)
    PROVE  Shape' /\ Moves(t)
  <1> USE DEF Shape, Typed
  <1> DEFINE f == Min(todo[t])
  <1>1. /\ pc[t] = "invalidate lock" /\ owner' = Set(owner, f, t) /\ Shut(t, f, "clear spec")
        /\ UNCHANGED <<valid, broken, used, fingerprint, duplicate, mod_time, global, world,
                       file, op, asked, then, inp, cand, todo, print, atStart, clock>>
    BY DEF InvalidateLock
  <1>2. OtherAt(t) /\ op[t] # "invalidate all"
    <2>1. FitsAt("invalidate lock", "invalidate lock", op[t], asked[t], file[t], then[t], inp[t],
                 cand[t], key[t], bin[t], todo[t])
      BY <1>1, Fit DEF Goal
    <2>2. op[t] \in Ops \ Queries
      BY <2>1 DEF FitsAt, Ops, Queries, Invalidations, CallTyped, PerClient, QueryPcs, OpenPcs,
         OpenedPcs, SweepPcs, LoopPcs
    <2> QED
      BY <1>1, <2>2, OtherFits DEF OtherAt, Goal, ClearPcs
  <1> HIDE DEF f
  <1>3. /\ input' \in OnFiles(Versions \union {Closed})
        /\ pc' \in PerClient(Places) /\ after' \in PerClient(Places)
        /\ pc'[t] = "clear spec" \/ (pc'[t] = "lower" /\ after'[t] = "clear spec")
        /\ \A u \in Clients \ {t} : pc'[u] = pc[u] /\ after'[u] = after[u]
    <2>1. "clear spec" \in Places
      BY DEF Places
    <2> QED
      BY <1>1, <2>1, ShutGoes
  <1>4. owner' \in OnFiles(MaybeClient)
    BY <1>1 DEF Set, OnFiles, FilesTyped, MaybeClient
  <1>5. /\ FilesTyped' /\ GlobalTyped' /\ WorldTyped' /\ CallTyped' /\ ClearTyped' /\ ClockTyped'
    BY <1>1, <1>3, <1>4 DEF FilesTyped, GlobalTyped, WorldTyped, CallTyped, ClearTyped,
       ClockTyped, global, world, clock
  <1>6. Moves(t)
    BY <1>1, <1>3 DEF Moves, global, clock
  <1>7. OtherAt(t)'
    <2>1. op[t] \notin {"close", "close all"} /\ todo[t] # {}
      BY <1>1, <1>2 DEF OtherAt, Goal, LoopPcs, ClearPcs
    <2> QED
      BY <1>1, <1>2, <1>3, <2>1 DEF OtherAt, Goal, LoopPcs, ClearPcs, global, clock
  <1> QED
    BY <1>1, <1>5, <1>6, <1>7, OtherStays, KeepShape DEF world

\* ClearSpec keeps the shape.
LEMMA ClearSpecShape ==
    ASSUME Shape, NEW t \in Clients, ClearSpec(t)
    PROVE  Shape' /\ Moves(t)
  <1> USE DEF Shape, Typed
  <1> DEFINE f == IF op[t] = "invalidate all" THEN key[t] ELSE Min(todo[t])
  <1>1. /\ pc[t] = "clear spec"
        /\ pc' = Set(pc, t, IF op[t] = "invalidate all" THEN "step" ELSE "erase print")
        /\ valid' = Set(valid, f, FALSE) /\ broken' = Set(broken, f, FALSE)
        /\ fingerprint' = Set(fingerprint, f, None) /\ duplicate' = Set(duplicate, f, None)
        /\ owner' = Set(owner, f, None)
        /\ UNCHANGED <<input, used, mod_time, global, world, file, mine, clock>>
    BY DEF ClearSpec, Goto
  <1>2. OtherAt(t)
    <2>1. FitsAt("clear spec", "clear spec", op[t], asked[t], file[t], then[t], inp[t],
                 cand[t], key[t], bin[t], todo[t])
      BY <1>1, Fit DEF Goal
    <2>2. op[t] \in Ops \ Queries
      BY <2>1 DEF FitsAt, Ops, Queries, Invalidations, CallTyped, PerClient, QueryPcs, OpenPcs,
         OpenedPcs, SweepPcs, LoopPcs
    <2> QED
      BY <2>2, OtherFits
  <1> HIDE DEF f
  <1>3. valid' \in OnFiles(BOOLEAN) /\ broken' \in OnFiles(BOOLEAN)
    BY <1>1 DEF Set, OnFiles, FilesTyped
  <1>4. /\ fingerprint' \in OnFiles(Prints \union {None}) /\ duplicate' \in OnFiles(MaybeFile)
        /\ owner' \in OnFiles(MaybeClient)
    BY <1>1 DEF Set, OnFiles, FilesTyped, MaybeFile, MaybeClient
  <1>5. /\ pc' \in PerClient(Places)
        /\ pc'[t] = IF op[t] = "invalidate all" THEN "step" ELSE "erase print"
        /\ \A u \in Clients \ {t} : pc'[u] = pc[u]
    BY <1>1 DEF Set, PerClient, Places, ClockTyped
  <1>6. /\ FilesTyped' /\ GlobalTyped' /\ WorldTyped' /\ CallTyped' /\ ClearTyped' /\ ClockTyped'
    BY <1>1, <1>3, <1>4, <1>5 DEF FilesTyped, GlobalTyped, WorldTyped, CallTyped, ClearTyped,
       ClockTyped, global, world, mine, clock
  <1>7. Moves(t)
    BY <1>1, <1>5 DEF Moves, global, mine, clock
  <1>8. OtherAt(t)'
    BY <1>1, <1>2, <1>5 DEF OtherAt, Goal, LoopPcs, ClearPcs, global, mine, clock
  <1> QED
    BY <1>1, <1>6, <1>7, <1>8, OtherStays, KeepShape DEF world

\* Call keeps the shape.
LEMMA CallShape ==
    ASSUME Shape, NEW t \in Clients, NEW o \in Ops, NEW f \in Files, Call(t, o, f)
    PROVE  Shape' /\ Moves(t)
  <1> USE DEF Shape, Typed
  <1> DEFINE all == o \in {"invalidate all", "refresh all", "close all"}
  <1>1. /\ pc[t] = "idle" /\ calls < MaxCalls /\ calls' = calls + 1
        /\ op' = Set(op, t, o) /\ asked' = Set(asked, t, f) /\ file' = Set(file, t, f)
        /\ atStart' = Set(atStart, t, IF o \in Queries THEN floor ELSE disk)
        /\ pc' = Set(pc, t, IF all THEN "begin" ELSE "find")
        /\ bin' = Set(bin, t, IF pc'[t] = "begin" THEN 1 ELSE 0)
        /\ UNCHANGED <<perFile, global, disk, floor, gaveUp, then, after, inp, cand, todo, print,
                       key, loops>>
    BY DEF Call
  <1>2. /\ pc' \in PerClient(Places) /\ pc'[t] = IF all THEN "begin" ELSE "find"
        /\ \A u \in Clients \ {t} : pc'[u] = pc[u]
    BY <1>1 DEF Set, PerClient, Places, ClockTyped
  <1>3. /\ bin' \in PerClient(0..NBins) /\ (all => bin'[t] \in Bins)
        /\ \A u \in Clients \ {t} : bin'[u] = bin[u]
    <2>1. 0 \in 0..NBins /\ 1 \in 0..NBins /\ 1 \in Bins
      BY Names, BinNumbers
    <2> QED
      BY <1>1, <1>2, <2>1 DEF Set, PerClient, ClockTyped
  <1>4. /\ op' \in PerClient(Ops \union {"idle"}) /\ op'[t] = o
        /\ asked' \in PerClient(MaybeFile) /\ asked'[t] = f
        /\ file' \in PerClient(MaybeFile) /\ file'[t] = f
        /\ \A u \in Clients \ {t} : op'[u] = op[u] /\ asked'[u] = asked[u] /\ file'[u] = file[u]
    BY <1>1 DEF Set, PerClient, CallTyped, MaybeFile
  <1>5. atStart' \in PerClient(OnFiles(Versions))
    BY <1>1 DEF Set, PerClient, ClearTyped, WorldTyped
  <1>6. calls' \in 0..MaxCalls
    <2>1. calls \in 0..MaxCalls /\ MaxCalls \in Nat
      BY Names DEF WorldTyped
    <2>2. calls < MaxCalls /\ calls' = calls + 1
      BY <1>1
    <2> QED
      BY ONLY <2>1, <2>2
  <1>7. /\ FilesTyped' /\ GlobalTyped' /\ WorldTyped' /\ CallTyped' /\ ClearTyped' /\ ClockTyped'
    BY <1>1, <1>2, <1>3, <1>4, <1>5, <1>6 DEF FilesTyped, GlobalTyped, WorldTyped, CallTyped,
       ClearTyped, ClockTyped, perFile, global
  <1>8. Moves(t)
    BY <1>1, <1>2, <1>3, <1>4 DEF Moves, global
  <1>9. sweepMutex' # t
    BY <1>1, Fit DEF Sweeps, Goal, SweepPcs, global
  <1>10. FitsAfter(t)
    <2>1. Goal(pc'[t], after'[t]) = pc'[t] /\ pc'[t] \in {"begin", "find"}
      BY <1>2 DEF Goal
    <2>2. o # "idle" /\ (o \in Queries => ~all)
      BY DEF Ops, Queries, Invalidations
    <2> HIDE DEF all
    <2>3. FitsAt(pc'[t], pc'[t], o, f, f, then'[t], inp'[t], cand'[t], key'[t], bin'[t], todo'[t])
      BY <1>2, <1>3, <2>2 DEF all, FitsAt, QueryPcs, OpenPcs, OpenedPcs, SweepPcs, LoopPcs, ClearPcs
    <2>4. ~Sweeps(t)'
      BY <1>2, <1>4, <2>1, <2>2 DEF Sweeps, SweepPcs
    <2> QED
      BY <1>4, <1>9, <2>1, <2>3, <2>4 DEF FitsAfter
  <1> QED
    BY <1>1, <1>7, <1>8, <1>10, KeepShape

\* Modify keeps the shape.
LEMMA ModifyShape ==
    ASSUME Shape, NEW f \in Files, Modify(f)
    PROVE  Shape'
  <1> USE DEF Shape, Typed
  <1>1. /\ disk[f] < Last(f) /\ disk' = [disk EXCEPT ![f] = disk[f] + 1]
        /\ UNCHANGED <<perFile, global, floor, calls, gaveUp, pc, file, mine, clock>>
    BY DEF Modify
  <1>2. disk[f] + 1 \in 1..Last(f)
    <2>1. disk[f] \in 1..Last(f) /\ Last(f) \in Nat
      BY Names DEF DiskExists
    <2> QED
      BY ONLY <1>1, <2>1
  <1>3. DiskExists' /\ disk' \in OnFiles(Versions)
    BY <1>1, <1>2, VersionsOf DEF DiskExists, WorldTyped, OnFiles
  <1>4. /\ FilesTyped' /\ GlobalTyped' /\ WorldTyped' /\ CallTyped' /\ ClearTyped' /\ ClockTyped'
    BY <1>1, <1>3 DEF FilesTyped, GlobalTyped, WorldTyped, CallTyped, ClearTyped, ClockTyped,
       perFile, global, mine, clock
  <1>5. Fits'
    BY <1>1, Zenon DEF Fits, Sweeps, global, mine, clock
  <1> QED
    BY <1>3, <1>4, <1>5

\* It holds at first.
LEMMA InitShape ==
    ASSUME Init
    PROVE  Shape
  <1>1. FilesTyped
    BY DEF Init, FilesTyped, OnFiles, MaybeClient, MaybeFile
  <1>2. GlobalTyped
    BY DEF Init, GlobalTyped, MaybeClient, MaybeFile
  <1>3. WorldTyped
    BY Names, VersionsOf DEF Init, WorldTyped, OnFiles
  <1>4. CallTyped
    BY DEF Init, CallTyped, PerClient, MaybeFile, Places
  <1>5. ClearTyped
    BY Names, VersionsOf DEF Init, ClearTyped, PerClient, OnFiles
  <1>6. ClockTyped
    <2>1. 0 \in 0..NBins /\ 0 \in 0..FullLoops + 1
      BY Names
    <2> QED
      BY <2>1 DEF Init, ClockTyped, PerClient, MaybeFile, Places
  <1>7. DiskExists
    BY Names DEF Init, DiskExists
  <1>8. Fits
    <2> SUFFICES ASSUME NEW t \in Clients
                 PROVE  /\ FitsAt(pc[t], Goal(pc[t], after[t]), op[t], asked[t], file[t], then[t],
                                  inp[t], cand[t], key[t], bin[t], todo[t])
                        /\ sweepMutex = t <=> Sweeps(t)
                        /\ pc[t] = "find name" => sweepName # None
      BY DEF Fits
    <2>1. pc[t] = "idle" /\ op[t] = "idle" /\ sweepMutex # t
      BY Names DEF Init
    <2>2. Goal(pc[t], after[t]) = "idle" /\ ~Sweeps(t)
      BY <2>1 DEF Goal, Sweeps, SweepPcs
    <2>3. FitsAt("idle", "idle", "idle", asked[t], file[t], then[t], inp[t], cand[t], key[t],
                 bin[t], todo[t])
      BY DEF FitsAt, Queries, QueryPcs, OpenPcs, OpenedPcs, SweepPcs, LoopPcs, ClearPcs
    <2> QED
      BY <2>1, <2>2, <2>3
  <1> QED
    BY <1>1, <1>2, <1>3, <1>4, <1>5, <1>6, <1>7, <1>8 DEF Shape, Typed

\* Every step keeps the shape.
LEMMA NextShape ==
    ASSUME Shape, [Next]_vars
    PROVE  Shape'
  <1>1. ASSUME NEW t \in Clients, Step(t)
        PROVE  Shape'
    BY <1>1, FindShape, VerifyShape, VerifyLockShape, OpenedShape, CompareShape, UnlockShape,
       UseShape, CheckShape, PixelsShape, AnswerShape, OpenShape, OpenLockShape, OpeningShape,
       HeadersShape, PublishShape, LowerShape, LimitShape, SweepLockShape, FindNameShape,
       SweepShape, EnterShape, StepOnShape, ReleaseShape, SaveNameShape, VisitShape,
       EndVisitShape, CheckTimeShape, InvalidateShape, InvalidateLockShape, ClearSpecShape,
       ErasePrintShape DEF Step
  <1>2. CASE UNCHANGED vars
    <2>1. /\ UNCHANGED <<perFile, global, world>> /\ UNCHANGED <<pc, file, mine, clock>>
      BY <1>2 DEF vars
    <2>2. FilesTyped' /\ DiskExists'
      BY <2>1 DEF perFile, world, Shape, Typed, FilesTyped, DiskExists
    <2>3. GlobalTyped' /\ WorldTyped'
      BY <2>1 DEF perFile, global, world, Shape, Typed, GlobalTyped, WorldTyped
    <2>4. CallTyped' /\ ClearTyped' /\ ClockTyped'
      BY <2>1 DEF mine, clock, Shape, Typed, CallTyped, ClearTyped, ClockTyped
    <2>5. Fits'
      BY <2>1, Zenon DEF global, mine, clock, Shape, Fits, Sweeps
    <2> QED
      BY <2>2, <2>3, <2>4, <2>5 DEF Shape, Typed
  <1> QED
    BY <1>1, <1>2, CallShape, ModifyShape DEF Next
-----------------------------------------------------------------------------
(* Locked: who has which mutex, what is open, and whom the limit let pass. *)

\* The file whose mutex a thread has, from what FitsAt speaks of.
HoldPcs == {"opened", "compare", "unlock"} \union OpenedPcs
HoldsAt(g, o, f, th, k, td) ==
    IF g \in HoldPcs \/ (o \in Queries /\ g \in OpenPcs /\ th = "opened") THEN f
    ELSE IF g # "clear spec" THEN None
    ELSE IF o = "invalidate all" THEN k ELSE Min(td)
Holds(t) == HoldsAt(Goal(pc[t], after[t]), op[t], file[t], then[t], key[t], todo[t])
Owned == \A t \in Clients : Holds(t) # None => owner[Holds(t)] = t

\* A file that a thread is about to open is not open.
Opens == \A t \in Clients : pc[t] \in OpenedPcs => input[file[t]] = Closed

\* A query's file is in the map, and a sweep that begins again has not yet
\* passed its bin: the map is not empty.
FindsAt(t) == op[t] \in Queries /\ pc[t] # "find" =>
    asked[t] \in m_files /\ (pc[t] = "begin" => bin[t] <= BinOf[asked[t]])
Finds == \A t \in Clients : FindsAt(t)

\* Threads between the halves of set_imageinput.
CountPcs == {"publish", "lower"}
InputsOpen == {f \in Files : input[f] # Closed}
Halfway == {t \in Clients : pc[t] \in CountPcs}

\* Threads that the limit has let pass, on their way to opening a file.
PassedPcs == {"save name", "open lock", "opening", "headers"}
Passed == {t \in Clients : pc[t] \in PassedPcs}
PassedBounded ==
    Strict => openFiles + Cardinality(Passed) < MaxOpen + Slack + Cardinality(Clients) + gaveUp

Locked == Owned /\ Opens /\ Finds /\ CountsInputs /\ PassedBounded

\* CountsInputs, in these words.
LEMMA CountsWords ==
    /\ CountsInputs <=> openFiles = Cardinality(InputsOpen) + Cardinality(Halfway)
    /\ CountsInputs' <=> openFiles' = Cardinality(InputsOpen') + Cardinality(Halfway')
  BY DEF CountsInputs, InputsOpen, Halfway, CountPcs

\* What is counted is finite.
LEMMA Countable ==
    /\ IsFiniteSet(InputsOpen) /\ IsFiniteSet(Halfway) /\ IsFiniteSet(Passed)
    /\ Cardinality(InputsOpen) \in Nat /\ Cardinality(Halfway) \in Nat /\ Cardinality(Passed) \in Nat
    /\ Cardinality(Clients) \in Nat /\ Cardinality(Files) \in Nat
    /\ Cardinality(InputsOpen) <= NFiles /\ Cardinality(Halfway) <= Cardinality(Clients)
    /\ Cardinality(Passed) <= Cardinality(Clients)
    /\ Cardinality(Halfway) + Cardinality(Passed) <= Cardinality(Clients)
  <1>1. InputsOpen \subseteq Files /\ Halfway \subseteq Clients /\ Passed \subseteq Clients
    BY DEF InputsOpen, Halfway, Passed
  <1>2. IsFiniteSet(Clients) /\ IsFiniteSet(Files)
    BY Names
  <1>3. IsFiniteSet(InputsOpen) /\ IsFiniteSet(Halfway) /\ IsFiniteSet(Passed)
    BY <1>1, <1>2, FS_Subset
  <1>4. /\ Cardinality(InputsOpen) <= Cardinality(Files) /\ Cardinality(Halfway) <= Cardinality(Clients)
        /\ Cardinality(Passed) <= Cardinality(Clients)
    BY <1>1, <1>2, FS_Subset
  <1>5. Cardinality(Files) = NFiles
    <2>1. NFiles \in Nat /\ 1 \in Int /\ NFiles \in Int
      BY Names
    <2>2. Cardinality(1..NFiles) = IF 1 > NFiles THEN 0 ELSE NFiles - 1 + 1
      BY <2>1, FS_Interval
    <2>3. 0 < NFiles
      BY Names
    <2> QED
      BY <2>1, <2>2, <2>3 DEF Files
  <1>6. Cardinality(Halfway) + Cardinality(Passed) <= Cardinality(Clients)
    <2>1. Halfway \intersect Passed = {}
      BY DEF Halfway, Passed, CountPcs, PassedPcs
    <2>2. /\ IsFiniteSet(Halfway \union Passed)
          /\ Cardinality(Halfway \union Passed)
               = Cardinality(Halfway) + Cardinality(Passed) - Cardinality(Halfway \intersect Passed)
      BY <1>3, FS_Union
    <2>3. Cardinality(Halfway \intersect Passed) = 0
      BY <2>1, FS_EmptySet
    <2>4. Cardinality(Halfway \union Passed) <= Cardinality(Clients)
      BY <1>1, <1>2, FS_Subset
    <2>5. Cardinality(Halfway) \in Nat /\ Cardinality(Passed) \in Nat
      BY <1>3, FS_CardinalityType
    <2> QED
      BY <2>2, <2>3, <2>4, <2>5
  <1> QED
    BY <1>2, <1>3, <1>4, <1>5, <1>6, FS_CardinalityType

\* What a thread holds is a file.
LEMMA HoldsFile ==
    ASSUME Shape, NEW t \in Clients
    PROVE  Holds(t) \in MaybeFile
  <1> DEFINE g == Goal(pc[t], after[t])
  <1>1. /\ FitsAt(pc[t], g, op[t], asked[t], file[t], then[t], inp[t], cand[t], key[t], bin[t], todo[t])
        /\ file[t] \in MaybeFile /\ key[t] \in MaybeFile /\ todo[t] \subseteq Files
        /\ Holds(t) = HoldsAt(g, op[t], file[t], then[t], key[t], todo[t])
    BY Fit DEF Shape, Typed, CallTyped, ClearTyped, ClockTyped, PerClient, Holds
  <1> HIDE DEF g
  <1>2. g = "clear spec" /\ op[t] # "invalidate all" => Min(todo[t]) \in Files
    <2>1. g = "clear spec" /\ op[t] # "invalidate all" => todo[t] # {}
      BY <1>1 DEF FitsAt, ClearPcs
    <2>2. todo[t] \in SUBSET Nat
      BY <1>1, Names
    <2> QED
      BY <1>1, <2>1, <2>2, MinOf
  <1> QED
    BY <1>1, <1>2 DEF HoldsAt, MaybeFile

\* What others hold stays theirs when a thread takes a free mutex, or one that
\* it has, or gives up one that it has.
LEMMA KeepOwned ==
    ASSUME Shape, Owned, NEW t \in Clients, Moves(t),
           \A f \in Files : owner'[f] = owner[f] \/ owner[f] \in {None, t},
           Holds(t)' # None => owner'[Holds(t)'] = t
    PROVE  Owned'
  <1> SUFFICES ASSUME NEW u \in Clients, u # t, Holds(u)' # None
               PROVE  owner'[Holds(u)'] = u
    BY DEF Owned
  <1>1. Holds(u)' = Holds(u)
    <2>1. /\ pc'[u] = pc[u] /\ after'[u] = after[u] /\ op'[u] = op[u] /\ file'[u] = file[u]
          /\ then'[u] = then[u] /\ key'[u] = key[u] /\ todo'[u] = todo[u]
      BY DEF Moves
    <2> QED
      BY <2>1 DEF Holds
  <1>2. owner[Holds(u)] = u /\ Holds(u) \in Files
    BY <1>1, HoldsFile DEF Owned, MaybeFile
  <1> QED
    BY <1>1, <1>2, Names

\* No two threads have one file's mutex.
LEMMA OneHolder ==
    ASSUME Owned, NEW t \in Clients, NEW u \in Clients, Holds(t) # None, Holds(u) = Holds(t)
    PROVE  u = t
  BY DEF Owned

\* Opens, when a thread leaves other threads' files alone.
LEMMA KeepOpens ==
    ASSUME Opens, NEW t \in Clients, Moves(t),
           \A u \in Clients \ {t} : pc[u] \in OpenedPcs =>
               input'[file[u]] = input[file[u]] \/ input'[file[u]] = Closed,
           pc'[t] \in OpenedPcs => input'[file'[t]] = Closed
    PROVE  Opens'
  BY DEF Opens, Moves

\* Finds likewise: the map only grows.
LEMMA KeepFinds ==
    ASSUME Finds, NEW t \in Clients, Moves(t), m_files \subseteq m_files', FindsAt(t)'
    PROVE  Finds'
  BY DEF Finds, FindsAt, Moves

\* How the thread's step counts among those halfway and those let pass.
LEMMA OneMoves ==
    ASSUME NEW t \in Clients, Moves(t)
    PROVE  /\ Cardinality(Halfway') = Cardinality(Halfway) + (IF pc'[t] \in CountPcs THEN 1 ELSE 0)
                                                          - (IF pc[t] \in CountPcs THEN 1 ELSE 0)
           /\ Cardinality(Passed') = Cardinality(Passed) + (IF pc'[t] \in PassedPcs THEN 1 ELSE 0)
                                                        - (IF pc[t] \in PassedPcs THEN 1 ELSE 0)
           /\ Cardinality(Halfway') \in Nat /\ Cardinality(Passed') \in Nat
  <1>1. Halfway \ {t} = Halfway' \ {t} /\ Passed \ {t} = Passed' \ {t}
    BY DEF Halfway, Passed, Moves
  <1>2. /\ t \in Halfway <=> pc[t] \in CountPcs
        /\ t \in Halfway' <=> pc'[t] \in CountPcs
        /\ t \in Passed <=> pc[t] \in PassedPcs
        /\ t \in Passed' <=> pc'[t] \in PassedPcs
    BY DEF Halfway, Passed
  <1>3. IsFiniteSet(Halfway) /\ IsFiniteSet(Passed)
    BY Countable
  <1> DEFINE H == Halfway
             H2 == Halfway'
             P == Passed
             P2 == Passed'
  <1> HIDE DEF H, H2, P, P2
  <1>4. /\ Cardinality(H2) \in Nat
        /\ Cardinality(H2) = Cardinality(H) + (IF t \in H2 THEN 1 ELSE 0) - (IF t \in H THEN 1 ELSE 0)
    BY <1>1, <1>3, OneMember DEF H, H2
  <1>5. /\ Cardinality(P2) \in Nat
        /\ Cardinality(P2) = Cardinality(P) + (IF t \in P2 THEN 1 ELSE 0) - (IF t \in P THEN 1 ELSE 0)
    BY <1>1, <1>3, OneMember DEF P, P2
  <1> QED
    BY <1>2, <1>4, <1>5 DEF H, H2, P, P2

\* How closing or opening a file counts.
LEMMA OneInput ==
    ASSUME Shape, NEW f \in Files, NEW v, input' = Set(input, f, v)
    PROVE  /\ Cardinality(InputsOpen') = Cardinality(InputsOpen) + (IF v # Closed THEN 1 ELSE 0)
                                                                - (IF input[f] # Closed THEN 1 ELSE 0)
           /\ Cardinality(InputsOpen') \in Nat
  <1>1. input \in [Files -> Versions \union {Closed}]
    BY DEF Shape, Typed, FilesTyped, OnFiles
  <1>2. InputsOpen \ {f} = InputsOpen' \ {f}
    BY <1>1 DEF InputsOpen, Set
  <1>3. (f \in InputsOpen <=> input[f] # Closed) /\ (f \in InputsOpen' <=> v # Closed)
    BY <1>1 DEF InputsOpen, Set
  <1>4. IsFiniteSet(InputsOpen)
    BY Countable
  <1> DEFINE I == InputsOpen
             I2 == InputsOpen'
  <1> HIDE DEF I, I2
  <1>5. /\ Cardinality(I2) \in Nat
        /\ Cardinality(I2) = Cardinality(I) + (IF f \in I2 THEN 1 ELSE 0) - (IF f \in I THEN 1 ELSE 0)
    BY <1>2, <1>4, OneMember DEF I, I2
  <1> QED
    BY <1>3, <1>5 DEF I, I2

\* The counts, when nothing is opened or closed.
LEMMA StillCounts ==
    ASSUME CountsInputs, PassedBounded, NEW t \in Clients, Moves(t), openFiles \in Int, gaveUp \in Nat,
           UNCHANGED <<input, openFiles, gaveUp>>, pc[t] \notin CountPcs, pc'[t] \notin CountPcs,
           pc'[t] \in PassedPcs => pc[t] \in PassedPcs
    PROVE  CountsInputs' /\ PassedBounded'
  <1>1. /\ Cardinality(Halfway') = Cardinality(Halfway)
        /\ Cardinality(Passed') <= Cardinality(Passed)
        /\ Cardinality(Passed') \in Nat
    <2> DEFINE h == Cardinality(Halfway)
               h2 == Cardinality(Halfway')
               p == Cardinality(Passed)
               p2 == Cardinality(Passed')
               now == pc'[t] \in PassedPcs
               then0 == pc[t] \in PassedPcs
    <2>1. h \in Nat /\ p \in Nat /\ h2 \in Nat /\ p2 \in Nat
      BY Countable, OneMoves
    <2>2. /\ h2 = h + 0 - 0
          /\ p2 = p + (IF now THEN 1 ELSE 0) - (IF then0 THEN 1 ELSE 0) /\ (now => then0)
      BY OneMoves
    <2> HIDE DEF h, h2, p, p2, now, then0
    <2>3. h2 = h /\ p2 <= p
      BY <2>1, <2>2
    <2> QED
      BY <2>1, <2>3 DEF h, h2, p, p2
  <1>2. InputsOpen' = InputsOpen
    BY DEF InputsOpen
  <1>3. CountsInputs'
    BY <1>1, <1>2, CountsWords
  <1>4. PassedBounded'
    <2> DEFINE p == Cardinality(Passed)
               p2 == Cardinality(Passed')
               c == Cardinality(Clients)
    <2>1. /\ p \in Nat /\ p2 \in Nat /\ c \in Nat /\ p2 <= p
          /\ MaxOpen \in Nat /\ Slack \in Nat
      BY <1>1, Countable, Names
    <2>2. Strict => openFiles + p < MaxOpen + Slack + c + gaveUp
      BY DEF PassedBounded
    <2>3. PassedBounded' <=> (Strict => openFiles + p2 < MaxOpen + Slack + c + gaveUp)
      BY DEF PassedBounded
    <2> HIDE DEF p, p2, c
    <2>4. Strict => openFiles + p2 < MaxOpen + Slack + c + gaveUp
      BY <2>1, <2>2
    <2> QED
      BY <2>3, <2>4
  <1> QED
    BY <1>3, <1>4

\* The counts, when a file is closed: the thread that did is halfway if it was
\* open.
LEMMA ShutCounts ==
    ASSUME Shape, CountsInputs, PassedBounded, NEW t \in Clients, Moves(t), NEW f \in Files, NEW to \in Places,
           Shut(t, f, to), to \notin CountPcs, to \notin PassedPcs, pc[t] \notin CountPcs,
           UNCHANGED <<openFiles, gaveUp>>
    PROVE  CountsInputs' /\ PassedBounded'
  <1>1. openFiles \in Int /\ gaveUp \in Nat
    BY DEF Shape, Typed, GlobalTyped, WorldTyped
  <1>2. CASE input[f] = Closed
    <2>1. pc'[t] = to
      BY <1>2 DEF Shut, Set, Shape, Typed, ClockTyped, PerClient
    <2>2. input' = input
      BY <1>2 DEF Shut, Set, Shape, Typed, FilesTyped, OnFiles
    <2> QED
      BY <1>1, <2>1, <2>2, StillCounts
  <1>3. CASE input[f] # Closed
    <2>1. pc'[t] = "lower" /\ pc'[t] \in CountPcs /\ pc'[t] \notin PassedPcs
      BY <1>3 DEF Shut, Set, Shape, Typed, ClockTyped, PerClient, CountPcs, PassedPcs
    <2>2. input' = Set(input, f, Closed)
      BY DEF Shut
    <2> DEFINE i == Cardinality(InputsOpen)
               i2 == Cardinality(InputsOpen')
               h == Cardinality(Halfway)
               h2 == Cardinality(Halfway')
               p == Cardinality(Passed)
               p2 == Cardinality(Passed')
               c == Cardinality(Clients)
    <2>3. /\ i \in Nat /\ i2 \in Nat /\ h \in Nat /\ h2 \in Nat /\ p \in Nat /\ p2 \in Nat /\ c \in Nat
          /\ MaxOpen \in Nat /\ Slack \in Nat
      BY <2>2, Countable, OneInput, OneMoves, Names
    <2>4. i2 = i + 0 - 1
      BY <1>3, <2>2, OneInput
    <2>5. h2 = h + 1 - 0 /\ p2 = p + 0 - (IF pc[t] \in PassedPcs THEN 1 ELSE 0)
      BY <2>1, OneMoves
    <2>6. openFiles = i + h
      BY CountsWords
    <2>7. Strict => openFiles + p < MaxOpen + Slack + c + gaveUp
      BY DEF PassedBounded
    <2>8. CountsInputs' <=> openFiles = i2 + h2
      BY CountsWords
    <2>9. PassedBounded' <=> (Strict => openFiles + p2 < MaxOpen + Slack + c + gaveUp)
      BY DEF PassedBounded
    <2> HIDE DEF i, i2, h, h2, p, p2, c
    <2>10. openFiles = i2 + h2
      BY <2>3, <2>4, <2>5, <2>6
    <2>11. p2 <= p
      BY <2>3, <2>5
    <2>12. Strict => openFiles + p2 < MaxOpen + Slack + c + gaveUp
      BY <1>1, <2>3, <2>7, <2>11
    <2> QED
      BY <2>8, <2>9, <2>10, <2>12
  <1> QED
    BY <1>2, <1>3

\* A step that takes and gives up no mutex, and opens and closes no file.
LEMMA Still ==
    ASSUME Shape, Locked, NEW t \in Clients, Moves(t), UNCHANGED <<owner, input, openFiles, gaveUp>>,
           m_files \subseteq m_files', FindsAt(t)', Holds(t)' \in {None, Holds(t)},
           pc[t] \notin CountPcs, pc'[t] \notin CountPcs, pc'[t] \notin OpenedPcs,
           pc'[t] \in PassedPcs => pc[t] \in PassedPcs
    PROVE  Locked'
  <1> USE DEF Locked
  <1>1. Owned'
    <2>1. Holds(t)' # None => owner'[Holds(t)'] = t
      BY DEF Owned
    <2> QED
      BY <2>1, KeepOwned
  <1>2. Opens'
    BY KeepOpens
  <1>3. Finds'
    BY KeepFinds
  <1>4. CountsInputs' /\ PassedBounded'
    <2>1. openFiles \in Int /\ gaveUp \in Nat
      BY DEF Shape, Typed, GlobalTyped, WorldTyped
    <2> QED
      BY <2>1, StillCounts
  <1> QED
    BY <1>1, <1>2, <1>3, <1>4

\* A step that takes a free mutex or gives up one, but opens and closes no file.
LEMMA Locks ==
    ASSUME Shape, Locked, NEW t \in Clients, Moves(t), UNCHANGED <<input, openFiles, gaveUp, m_files>>,
           \A f \in Files : owner'[f] = owner[f] \/ owner[f] \in {None, t},
           Holds(t)' # None => owner'[Holds(t)'] = t, FindsAt(t)',
           pc[t] \notin CountPcs, pc'[t] \notin CountPcs,
           pc'[t] \in OpenedPcs => input[file'[t]] = Closed,
           pc'[t] \in PassedPcs => pc[t] \in PassedPcs
    PROVE  Locked'
  <1> USE DEF Locked
  <1>1. Owned'
    BY KeepOwned
  <1>2. Opens'
    BY KeepOpens
  <1>3. Finds'
    BY KeepFinds
  <1>4. CountsInputs' /\ PassedBounded'
    <2>1. openFiles \in Int /\ gaveUp \in Nat
      BY DEF Shape, Typed, GlobalTyped, WorldTyped
    <2> QED
      BY <2>1, StillCounts
  <1> QED
    BY <1>1, <1>2, <1>3, <1>4

\* A step that closes a file, and may take its mutex.
LEMMA Shuts ==
    ASSUME Shape, Locked, NEW t \in Clients, Moves(t), NEW f \in Files, NEW to \in Places,
           Shut(t, f, to), to \notin CountPcs \union PassedPcs \union OpenedPcs,
           pc[t] \notin CountPcs, UNCHANGED <<openFiles, gaveUp, m_files>>,
           \A g \in Files : owner'[g] = owner[g] \/ owner[g] \in {None, t},
           Holds(t)' # None => owner'[Holds(t)'] = t, FindsAt(t)'
    PROVE  Locked'
  <1> USE DEF Locked
  <1>1. Owned'
    BY KeepOwned
  <1>2. pc'[t] = to \/ pc'[t] = "lower"
    BY ShutGoes
  <1>3. pc'[t] \notin OpenedPcs
    BY <1>2 DEF OpenedPcs
  <1>4. Opens'
    <2>1. \A u \in Clients \ {t} : pc[u] \in OpenedPcs =>
              input'[file[u]] = input[file[u]] \/ input'[file[u]] = Closed
      <3>1. input' = Set(input, f, Closed) /\ input \in [Files -> Versions \union {Closed}]
        BY DEF Shut, Shape, Typed, FilesTyped, OnFiles
      <3>2. ASSUME NEW u \in Clients, pc[u] \in OpenedPcs PROVE file[u] \in Files
        <4>1. QueryAt(u)
          BY <3>2, QueryFits DEF QueryPcs, OpenedPcs, LoopPcs
        <4> QED
          BY <4>1 DEF QueryAt
      <3> QED
        BY <3>1, <3>2 DEF Set
    <2> QED
      BY <1>3, <2>1, KeepOpens
  <1>5. Finds'
    BY KeepFinds
  <1>6. CountsInputs' /\ PassedBounded'
    BY ShutCounts
  <1> QED
    BY <1>1, <1>4, <1>5, <1>6
-----------------------------------------------------------------------------
\* Verify takes and gives up no mutex.
LEMMA VerifyLocked ==
    ASSUME Shape, Locked, NEW t \in Clients, Verify(t)
    PROVE  Locked'
  <1>1. Moves(t)
    BY VerifyShape
  <1>2. pc[t] = "verify" /\ QueryAt(t)
    <2>1. pc[t] = "verify"
      BY DEF Verify
    <2> QED
      BY <2>1, QueryFits DEF QueryPcs, OpenPcs, OpenedPcs, SweepPcs, LoopPcs
  <1>3. /\ UNCHANGED <<owner, input, openFiles, m_files, op, asked, then, after>>
        /\ pc'[t] \in {"use", "verify lock"} /\ gaveUp' = gaveUp
    BY <1>2 DEF Verify, perFile, global, world, mine, clock,
       Set, Shape, Typed, ClockTyped, CallTyped, PerClient, QueryAt, OpenPcs, OpenedPcs, SweepPcs
  <1>4. Holds(t)' \in {None, Holds(t)}
    BY <1>2, <1>3 DEF Holds, HoldsAt, HoldPcs, Goal, OpenPcs, OpenedPcs, SweepPcs, QueryAt
  <1>5. FindsAt(t)'
    BY <1>2, <1>3 DEF Locked, Finds, FindsAt
  <1> QED
    BY <1>1, <1>2, <1>3, <1>4, <1>5, Still DEF CountPcs, OpenedPcs, PassedPcs

\* Use takes and gives up no mutex.
LEMMA UseLocked ==
    ASSUME Shape, Locked, NEW t \in Clients, Use(t)
    PROVE  Locked'
  <1>1. Moves(t)
    BY UseShape
  <1>2. pc[t] = "use" /\ QueryAt(t)
    <2>1. pc[t] = "use"
      BY DEF Use, Goto
    <2> QED
      BY <2>1, QueryFits DEF QueryPcs, OpenPcs, OpenedPcs, SweepPcs, LoopPcs
  <1>3. /\ UNCHANGED <<owner, input, openFiles, m_files, op, asked, then, after>>
        /\ pc'[t] \in {"check"} /\ gaveUp' = gaveUp
    BY <1>2 DEF Use, Goto, perFile, global, world, mine, clock,
       Set, Shape, Typed, ClockTyped, CallTyped, PerClient, QueryAt, OpenPcs, OpenedPcs, SweepPcs
  <1>4. Holds(t)' \in {None, Holds(t)}
    BY <1>2, <1>3 DEF Holds, HoldsAt, HoldPcs, Goal, OpenPcs, OpenedPcs, SweepPcs, QueryAt
  <1>5. FindsAt(t)'
    BY <1>2, <1>3 DEF Locked, Finds, FindsAt
  <1> QED
    BY <1>1, <1>2, <1>3, <1>4, <1>5, Still DEF CountPcs, OpenedPcs, PassedPcs

\* Check takes and gives up no mutex.
LEMMA CheckLocked ==
    ASSUME Shape, Locked, NEW t \in Clients, Check(t)
    PROVE  Locked'
  <1>1. Moves(t)
    BY CheckShape
  <1>2. pc[t] = "check" /\ QueryAt(t)
    <2>1. pc[t] = "check"
      BY DEF Check
    <2> QED
      BY <2>1, QueryFits DEF QueryPcs, OpenPcs, OpenedPcs, SweepPcs, LoopPcs
  <1>3. /\ UNCHANGED <<owner, input, openFiles, m_files, op, asked, after>>
        /\ pc'[t] \in {"failed", "answered", "open"} /\ gaveUp' = gaveUp /\ then'[t] = "pixels"
    BY <1>2 DEF Check, perFile, global, world, mine, clock,
       Set, Shape, Typed, ClockTyped, CallTyped, PerClient, QueryAt, OpenPcs, OpenedPcs, SweepPcs
  <1>4. Holds(t)' \in {None, Holds(t)}
    BY <1>2, <1>3 DEF Holds, HoldsAt, HoldPcs, Goal, OpenPcs, OpenedPcs, SweepPcs, QueryAt
  <1>5. FindsAt(t)'
    BY <1>2, <1>3 DEF Locked, Finds, FindsAt
  <1> QED
    BY <1>1, <1>2, <1>3, <1>4, <1>5, Still DEF CountPcs, OpenedPcs, PassedPcs

\* Pixels takes and gives up no mutex.
LEMMA PixelsLocked ==
    ASSUME Shape, Locked, NEW t \in Clients, Pixels(t)
    PROVE  Locked'
  <1>1. Moves(t)
    BY PixelsShape
  <1>2. pc[t] = "pixels" /\ QueryAt(t)
    <2>1. pc[t] = "pixels"
      BY DEF Pixels
    <2> QED
      BY <2>1, QueryFits DEF QueryPcs, OpenPcs, OpenedPcs, SweepPcs, LoopPcs
  <1>3. /\ UNCHANGED <<owner, input, openFiles, m_files, op, asked, then, after>>
        /\ pc'[t] \in {"failed", "answered"} /\ gaveUp' = gaveUp
    BY <1>2 DEF Pixels, perFile, global, world, mine, clock,
       Set, Shape, Typed, ClockTyped, CallTyped, PerClient, QueryAt, OpenPcs, OpenedPcs, SweepPcs
  <1>4. Holds(t)' \in {None, Holds(t)}
    BY <1>2, <1>3 DEF Holds, HoldsAt, HoldPcs, Goal, OpenPcs, OpenedPcs, SweepPcs, QueryAt
  <1>5. FindsAt(t)'
    BY <1>2, <1>3 DEF Locked, Finds, FindsAt
  <1> QED
    BY <1>1, <1>2, <1>3, <1>4, <1>5, Still DEF CountPcs, OpenedPcs, PassedPcs

\* Open takes and gives up no mutex.
LEMMA OpenLocked ==
    ASSUME Shape, Locked, NEW t \in Clients, Open(t)
    PROVE  Locked'
  <1>1. Moves(t)
    BY OpenShape
  <1>2. pc[t] = "open" /\ QueryAt(t)
    <2>1. pc[t] = "open"
      BY DEF Open, Returns
    <2> QED
      BY <2>1, QueryFits DEF QueryPcs, OpenPcs, OpenedPcs, SweepPcs, LoopPcs
  <1>3. /\ UNCHANGED <<owner, input, openFiles, m_files, op, asked, then, after>>
        /\ pc'[t] \in {"limit", "opened", "pixels"} /\ UNCHANGED <<gaveUp, file>>
        /\ pc'[t] = "opened" => then[t] = "opened"
    BY <1>2 DEF Open, Returns, perFile, global, world, mine, clock,
       Set, Shape, Typed, ClockTyped, CallTyped, PerClient, QueryAt, OpenPcs, OpenedPcs, SweepPcs
  <1>4. Holds(t)' \in {None, Holds(t)}
    BY <1>2, <1>3 DEF Holds, HoldsAt, HoldPcs, Goal, OpenPcs, OpenedPcs, SweepPcs, QueryAt
  <1>5. FindsAt(t)'
    BY <1>2, <1>3 DEF Locked, Finds, FindsAt
  <1> QED
    BY <1>1, <1>2, <1>3, <1>4, <1>5, Still DEF CountPcs, OpenedPcs, PassedPcs

\* SweepLock takes and gives up no mutex.
LEMMA SweepLockLocked ==
    ASSUME Shape, Locked, NEW t \in Clients, SweepLock(t)
    PROVE  Locked'
  <1>1. Moves(t)
    BY SweepLockShape
  <1>2. pc[t] = "sweep lock" /\ QueryAt(t)
    <2>1. pc[t] = "sweep lock"
      BY DEF SweepLock, TakeSweep
    <2> QED
      BY <2>1, QueryFits DEF QueryPcs, OpenPcs, OpenedPcs, SweepPcs, LoopPcs
  <1>3. /\ UNCHANGED <<owner, input, openFiles, m_files, op, asked, then, after>>
        /\ pc'[t] \in {"sweep", "find name"} /\ UNCHANGED <<gaveUp, file>>
    BY <1>2 DEF SweepLock, TakeSweep, perFile, global, world, mine, clock,
       Set, Shape, Typed, ClockTyped, CallTyped, PerClient, QueryAt, OpenPcs, OpenedPcs, SweepPcs
  <1>4. Holds(t)' \in {None, Holds(t)}
    BY <1>2, <1>3 DEF Holds, HoldsAt, HoldPcs, Goal, OpenPcs, OpenedPcs, SweepPcs, QueryAt
  <1>5. FindsAt(t)'
    BY <1>2, <1>3 DEF Locked, Finds, FindsAt
  <1> QED
    BY <1>1, <1>2, <1>3, <1>4, <1>5, Still DEF CountPcs, OpenedPcs, PassedPcs

\* FindName takes and gives up no mutex.
LEMMA FindNameLocked ==
    ASSUME Shape, Locked, NEW t \in Clients, FindName(t)
    PROVE  Locked'
  <1>1. Moves(t)
    BY FindNameShape
  <1>2. pc[t] = "find name" /\ QueryAt(t)
    <2>1. pc[t] = "find name"
      BY DEF FindName, Goto
    <2> QED
      BY <2>1, QueryFits DEF QueryPcs, OpenPcs, OpenedPcs, SweepPcs, LoopPcs
  <1>3. /\ UNCHANGED <<owner, input, openFiles, m_files, op, asked, then, after>>
        /\ pc'[t] \in {"sweep"} /\ UNCHANGED <<gaveUp, file>>
    BY <1>2 DEF FindName, Goto, perFile, global, world, mine, clock,
       Set, Shape, Typed, ClockTyped, CallTyped, PerClient, QueryAt, OpenPcs, OpenedPcs, SweepPcs
  <1>4. Holds(t)' \in {None, Holds(t)}
    BY <1>2, <1>3 DEF Holds, HoldsAt, HoldPcs, Goal, OpenPcs, OpenedPcs, SweepPcs, QueryAt
  <1>5. FindsAt(t)'
    BY <1>2, <1>3 DEF Locked, Finds, FindsAt
  <1> QED
    BY <1>1, <1>2, <1>3, <1>4, <1>5, Still DEF CountPcs, OpenedPcs, PassedPcs

\* SaveName takes and gives up no mutex.
LEMMA SaveNameLocked ==
    ASSUME Shape, Locked, NEW t \in Clients, SaveName(t)
    PROVE  Locked'
  <1>1. Moves(t)
    BY SaveNameShape
  <1>2. pc[t] = "save name" /\ QueryAt(t)
    <2>1. pc[t] = "save name"
      BY DEF SaveName, Goto
    <2> QED
      BY <2>1, QueryFits DEF QueryPcs, OpenPcs, OpenedPcs, SweepPcs, LoopPcs
  <1>3. /\ UNCHANGED <<owner, input, openFiles, m_files, op, asked, then, after>>
        /\ pc'[t] \in {"open lock"} /\ UNCHANGED <<gaveUp, file>>
    BY <1>2 DEF SaveName, Goto, perFile, global, world, mine, clock,
       Set, Shape, Typed, ClockTyped, CallTyped, PerClient, QueryAt, OpenPcs, OpenedPcs, SweepPcs
  <1>4. Holds(t)' \in {None, Holds(t)}
    BY <1>2, <1>3 DEF Holds, HoldsAt, HoldPcs, Goal, OpenPcs, OpenedPcs, SweepPcs, QueryAt
  <1>5. FindsAt(t)'
    BY <1>2, <1>3 DEF Locked, Finds, FindsAt
  <1> QED
    BY <1>1, <1>2, <1>3, <1>4, <1>5, Still DEF CountPcs, OpenedPcs, PassedPcs

\* Answer, and every step that ends a call or goes on with one that is no query,
\* holds nothing.
LEMMA OtherStill ==
    ASSUME Shape, Locked, NEW t \in Clients, Moves(t), UNCHANGED <<owner, input, openFiles, gaveUp>>,
           m_files \subseteq m_files', op'[t] \notin Queries,
           pc[t] \notin CountPcs, pc'[t] \notin {"lower", "clear spec"} \union HoldPcs \union PassedPcs
    PROVE  Locked'
  <1>1. Holds(t)' = None
    BY DEF Holds, HoldsAt, Goal
  <1>2. FindsAt(t)'
    BY DEF FindsAt
  <1> QED
    BY <1>1, <1>2, Still DEF CountPcs, HoldPcs, OpenedPcs

\* Where a call that is over has come to.
LEMMA EndsAt ==
    ASSUME Shape, NEW t \in Clients, Done(t)
    PROVE  op'[t] = "idle" /\ pc'[t] = "idle" /\ op'[t] \notin Queries
           /\ pc'[t] \notin {"lower", "clear spec"} \union HoldPcs \union PassedPcs
  BY DEF Done, Set, Shape, Typed, CallTyped, ClockTyped, PerClient, Queries, HoldPcs, OpenedPcs,
     PassedPcs

\* Answer takes and gives up no mutex.
LEMMA AnswerLocked ==
    ASSUME Shape, Locked, NEW t \in Clients, Answer(t)
    PROVE  Locked'
  <1>1. Moves(t)
    BY AnswerShape
  <1>2. /\ pc[t] \in {"answered", "failed"} /\ Done(t)
        /\ UNCHANGED <<owner, input, openFiles, gaveUp, m_files>>
    BY DEF Answer, perFile, global, world
  <1> QED
    BY <1>1, <1>2, EndsAt, OtherStill DEF CountPcs

\* EndVisit takes and gives up no mutex.
LEMMA EndVisitLocked ==
    ASSUME Shape, Locked, NEW t \in Clients, EndVisit(t)
    PROVE  Locked'
  <1>1. Moves(t)
    BY EndVisitShape
  <1>2. /\ pc[t] = "visit" /\ UNCHANGED <<owner, input, openFiles, gaveUp, m_files>>
        /\ Done(t) \/ (op'[t] = "refresh all" /\ pc'[t] = "invalidate")
    BY DEF EndVisit, perFile, mine, Set, Shape, Typed, ClockTyped, PerClient
  <1> QED
    BY <1>1, <1>2, EndsAt, OtherStill DEF CountPcs, HoldPcs, OpenedPcs, PassedPcs, Queries

\* CheckTime takes and gives up no mutex.
LEMMA CheckTimeLocked ==
    ASSUME Shape, Locked, NEW t \in Clients, CheckTime(t)
    PROVE  Locked'
  <1>1. Moves(t)
    BY CheckTimeShape
  <1>2. pc[t] = "check time" /\ op[t] \notin Queries
    <2>1. pc[t] = "check time"
      BY DEF CheckTime
    <2> QED
      BY <2>1, Fit DEF Shape, FitsAt, Goal, Queries
  <1>3. /\ UNCHANGED <<owner, input, openFiles, gaveUp, m_files>>
        /\ Done(t) \/ (op'[t] = op[t] /\ pc'[t] = "invalidate")
    BY DEF CheckTime, perFile, global, mine, Set, Shape, Typed, ClockTyped, PerClient
  <1> QED
    BY <1>1, <1>2, <1>3, EndsAt, OtherStill DEF CountPcs, HoldPcs, OpenedPcs, PassedPcs

\* Invalidate takes and gives up no mutex.
LEMMA InvalidateLocked ==
    ASSUME Shape, Locked, NEW t \in Clients, Invalidate(t)
    PROVE  Locked'
  <1>1. Moves(t)
    BY InvalidateShape
  <1>2. pc[t] = "invalidate" /\ op[t] \notin Queries
    <2>1. pc[t] = "invalidate"
      BY DEF Invalidate, Goto
    <2> QED
      BY <2>1, Fit DEF Shape, FitsAt, Goal, Queries, QueryPcs, OpenPcs, OpenedPcs, SweepPcs
  <1>3. /\ UNCHANGED <<owner, input, openFiles, gaveUp, m_files, op>> /\ pc'[t] = "invalidate lock"
    BY DEF Invalidate, Goto, perFile, global, world, Set, Shape, Typed, ClockTyped, PerClient
  <1> QED
    BY <1>1, <1>2, <1>3, OtherStill DEF CountPcs, HoldPcs, OpenedPcs, PassedPcs

\* ErasePrint takes and gives up no mutex.
LEMMA ErasePrintLocked ==
    ASSUME Shape, Locked, NEW t \in Clients, ErasePrint(t)
    PROVE  Locked'
  <1>1. Moves(t)
    BY ErasePrintShape
  <1>2. pc[t] = "erase print" /\ op[t] \notin Queries
    <2>1. pc[t] = "erase print"
      BY DEF ErasePrint
    <2> QED
      BY <2>1, Fit DEF Shape, FitsAt, Goal, Queries, QueryPcs, OpenPcs, OpenedPcs, SweepPcs
  <1>3. /\ UNCHANGED <<owner, input, openFiles, gaveUp, m_files>>
        /\ Done(t) \/ (op'[t] = op[t] /\ pc'[t] = "invalidate")
    BY DEF ErasePrint, perFile, Set, Shape, Typed, ClockTyped, PerClient
  <1> QED
    BY <1>1, <1>2, <1>3, EndsAt, OtherStill DEF CountPcs, HoldPcs, OpenedPcs, PassedPcs

\* Find takes and gives up no mutex of a file.
LEMMA FindLocked ==
    ASSUME Shape, Locked, NEW t \in Clients, Find(t)
    PROVE  Locked'
  <1>1. Moves(t)
    BY FindShape
  <1>2. /\ pc[t] = "find" /\ UNCHANGED <<owner, input, openFiles, gaveUp>>
        /\ \/ Done(t) /\ m_files' = m_files
           \/ /\ UNCHANGED <<op, asked, after>> /\ m_files' = m_files \union {asked[t]}
              /\ pc'[t] \in {"verify", "visit", "check time", "invalidate"}
    BY DEF Find, perFile, world, Set, Shape, Typed, ClockTyped, PerClient
  <1>3. CASE Done(t) /\ m_files' = m_files
    BY <1>1, <1>2, <1>3, EndsAt, OtherStill DEF CountPcs
  <1>4. CASE /\ UNCHANGED <<op, asked, after>> /\ m_files' = m_files \union {asked[t]}
             /\ pc'[t] \in {"verify", "visit", "check time", "invalidate"}
    <2>1. Holds(t)' = None
      BY <1>4 DEF Holds, HoldsAt, Goal, HoldPcs, OpenPcs, OpenedPcs, SweepPcs
    <2>2. FindsAt(t)'
      BY <1>4 DEF FindsAt
    <2> QED
      BY <1>1, <1>2, <1>4, <2>1, <2>2, Still DEF CountPcs, OpenedPcs, PassedPcs
  <1> QED
    BY <1>2, <1>3, <1>4

\* Call takes and gives up no mutex.
LEMMA CallLocked ==
    ASSUME Shape, Locked, NEW t \in Clients, NEW o \in Ops, NEW f \in Files, Call(t, o, f)
    PROVE  Locked'
  <1>1. Moves(t)
    BY CallShape
  <1>2. /\ pc[t] = "idle" /\ UNCHANGED <<owner, input, openFiles, gaveUp, m_files, after>>
        /\ pc'[t] = "find" \/ (pc'[t] = "begin" /\ op'[t] \notin Queries)
    BY DEF Call, perFile, global, Set, Shape, Typed, CallTyped, ClockTyped, PerClient, Queries
  <1>3. Holds(t)' = None
    BY <1>2 DEF Holds, HoldsAt, Goal, HoldPcs, OpenPcs, OpenedPcs, SweepPcs
  <1>4. FindsAt(t)'
    BY <1>2 DEF FindsAt
  <1> QED
    BY <1>1, <1>2, <1>3, <1>4, Still DEF CountPcs, OpenedPcs, PassedPcs

\* Modify has nothing to do with it.
LEMMA ModifyLocked ==
    ASSUME Locked, NEW f \in Files, Modify(f)
    PROVE  Locked'
  <1>1. UNCHANGED <<perFile, global, gaveUp, pc, file, mine, clock>>
    BY DEF Modify
  <1> QED
    BY <1>1 DEF perFile, global, mine, clock, Locked, Owned, Holds, Opens, Finds, FindsAt,
       CountsInputs, PassedBounded, Passed

\* A thread that the limit lets pass: there are files to spare, or its sweep
\* gave up.
LEMMA Passes ==
    ASSUME Shape, Locked, NEW t \in Clients, Moves(t), UNCHANGED <<owner, input, openFiles, m_files>>,
           FindsAt(t)', Holds(t)' \in {None, Holds(t)},
           pc[t] \notin CountPcs \union PassedPcs, pc'[t] \in {"save name", "open lock"},
           \/ (Strict => openFiles < MaxOpen + Slack) /\ gaveUp' \in {gaveUp, gaveUp + 1}
           \/ gaveUp' = gaveUp + 1
    PROVE  Locked'
  <1> USE DEF Locked
  <1>1. Owned'
    <2>1. Holds(t)' # None => owner'[Holds(t)'] = t
      BY DEF Owned
    <2> QED
      BY <2>1, KeepOwned
  <1>2. Opens'
    BY KeepOpens DEF OpenedPcs
  <1>3. Finds'
    BY KeepFinds
  <1> DEFINE i == Cardinality(InputsOpen)
             h == Cardinality(Halfway)
             h2 == Cardinality(Halfway')
             p == Cardinality(Passed)
             p2 == Cardinality(Passed')
             c == Cardinality(Clients)
  <1>4. /\ i \in Nat /\ h \in Nat /\ h2 \in Nat /\ p \in Nat /\ p2 \in Nat /\ c \in Nat
        /\ MaxOpen \in Nat /\ Slack \in Nat /\ openFiles \in Int /\ gaveUp \in Nat
    BY Countable, OneMoves, Names DEF Shape, Typed, GlobalTyped, WorldTyped
  <1>5. h2 = h + 0 - 0 /\ p2 = p + 1 - 0
    <2>1. pc'[t] \notin CountPcs /\ pc'[t] \in PassedPcs
      BY DEF CountPcs, PassedPcs
    <2> QED
      BY <2>1, OneMoves
  <1>6. Passed' # {} => p2 <= c
    <2>1. Passed' \subseteq Clients /\ IsFiniteSet(Clients)
      BY Names DEF Passed
    <2> QED
      BY <2>1, FS_Subset
  <1>7. t \in Passed'
    BY DEF Passed, PassedPcs
  <1>8. openFiles = i + h /\ (CountsInputs' <=> openFiles = i + h2)
    <2>1. InputsOpen' = InputsOpen
      BY DEF InputsOpen
    <2> QED
      BY <2>1, CountsWords
  <1>9. Strict => openFiles + p < MaxOpen + Slack + c + gaveUp
    BY DEF PassedBounded
  <1>10. PassedBounded' <=> (Strict => openFiles + p2 < MaxOpen + Slack + c + gaveUp')
    BY DEF PassedBounded
  <1> HIDE DEF i, h, h2, p, p2, c
  <1>11. openFiles = i + h2
    <2>1. h2 = h
      BY ONLY <1>4, <1>5
    <2> QED
      BY ONLY <1>8, <2>1
  <1>12. ASSUME Strict PROVE openFiles + p2 < MaxOpen + Slack + c + gaveUp'
    <2>1. p2 <= c
      BY <1>6, <1>7, Zenon
    <2>2. openFiles + p < MaxOpen + Slack + c + gaveUp
      BY <1>9, <1>12
    <2>3. CASE openFiles < MaxOpen + Slack /\ gaveUp' \in {gaveUp, gaveUp + 1}
      <3>1. openFiles + p2 < MaxOpen + Slack + c + gaveUp
        BY ONLY <1>4, <2>1, <2>3
      <3>2. openFiles + p2 < MaxOpen + Slack + c + (gaveUp + 1)
        BY ONLY <1>4, <3>1
      <3> QED
        BY <2>3, <3>1, <3>2, Zenon
    <2>4. CASE gaveUp' = gaveUp + 1
      BY ONLY <1>4, <1>5, <2>2, <2>4
    <2> QED
      BY <1>12, <2>3, <2>4
  <1> QED
    BY <1>1, <1>2, <1>3, <1>8, <1>10, <1>11, <1>12

\* set_imageinput raises the count: the thread that was let pass is halfway.
LEMMA Raises ==
    ASSUME Shape, Locked, NEW t \in Clients, Moves(t), UNCHANGED <<owner, input, gaveUp, m_files>>,
           openFiles' = openFiles + 1, FindsAt(t)', Holds(t)' \in {None, Holds(t)},
           pc[t] \in OpenedPcs /\ pc[t] \in PassedPcs, pc'[t] = "publish", file'[t] = file[t]
    PROVE  Locked'
  <1> USE DEF Locked
  <1>1. Owned'
    <2>1. Holds(t)' # None => owner'[Holds(t)'] = t
      BY DEF Owned
    <2> QED
      BY <2>1, KeepOwned
  <1>2. Opens'
    <2>1. input'[file'[t]] = Closed
      BY DEF Opens
    <2> QED
      BY <2>1, KeepOpens
  <1>3. Finds'
    BY KeepFinds
  <1> DEFINE i == Cardinality(InputsOpen)
             h == Cardinality(Halfway)
             h2 == Cardinality(Halfway')
             p == Cardinality(Passed)
             p2 == Cardinality(Passed')
             c == Cardinality(Clients)
  <1>4. /\ i \in Nat /\ h \in Nat /\ h2 \in Nat /\ p \in Nat /\ p2 \in Nat /\ c \in Nat
        /\ MaxOpen \in Nat /\ Slack \in Nat /\ openFiles \in Int /\ gaveUp \in Nat
    BY Countable, OneMoves, Names DEF Shape, Typed, GlobalTyped, WorldTyped
  <1>5. h2 = h + 1 - 0 /\ p2 = p + 0 - 1
    <2>1. /\ pc'[t] \in CountPcs /\ pc'[t] \notin PassedPcs
          /\ pc[t] \notin CountPcs /\ pc[t] \in PassedPcs
      BY DEF CountPcs, PassedPcs
    <2> QED
      BY <2>1, OneMoves
  <1>6. openFiles = i + h /\ (CountsInputs' <=> openFiles' = i + h2)
    <2>1. InputsOpen' = InputsOpen
      BY DEF InputsOpen
    <2> QED
      BY <2>1, CountsWords
  <1>7. Strict => openFiles + p < MaxOpen + Slack + c + gaveUp
    BY DEF PassedBounded
  <1>8. PassedBounded' <=> (Strict => openFiles' + p2 < MaxOpen + Slack + c + gaveUp)
    BY DEF PassedBounded
  <1> HIDE DEF i, h, h2, p, p2, c
  <1>9. openFiles' = i + h2
    BY <1>4, <1>5, <1>6
  <1>10. Strict => openFiles' + p2 < MaxOpen + Slack + c + gaveUp
    BY <1>4, <1>5, <1>7
  <1> QED
    BY <1>1, <1>2, <1>3, <1>6, <1>8, <1>9, <1>10

\* Opening raises the count, keeps the mutex or gives it up.
LEMMA OpeningLocked ==
    ASSUME Shape, Locked, NEW t \in Clients, Opening(t)
    PROVE  Locked'
  <1>1. Moves(t)
    BY OpeningShape
  <1>2. pc[t] = "opening" /\ QueryAt(t)
    <2>1. pc[t] = "opening"
      BY DEF Opening
    <2> QED
      BY <2>1, QueryFits DEF QueryPcs, OpenedPcs, LoopPcs
  <1>3. UNCHANGED <<input, m_files, gaveUp, op, asked, file, then, after>>
    BY DEF Opening, world
  <1>4. Holds(t) = file[t] /\ file[t] \in Files /\ owner[file[t]] = t /\ input[file[t]] = Closed
    <2>1. Holds(t) = file[t]
      BY <1>2 DEF Holds, HoldsAt, HoldPcs, Goal, OpenedPcs
    <2> QED
      BY <1>2, <2>1, Names DEF Locked, Owned, Opens, OpenedPcs, QueryAt
  <1>5. FindsAt(t)' <=> (pc'[t] = "begin" => bin'[t] <= BinOf[asked[t]])
    BY <1>2, <1>3 DEF Locked, Finds, FindsAt, QueryAt, Opening, Returns, Set, Shape, Typed,
       ClockTyped, PerClient, OpenedPcs, OpenPcs
  <1>6. CASE OnDisk(file[t]) = Missing
    <2>1. pc'[t] = then[t] /\ then[t] \in {"opened", "pixels"} /\ openFiles' = openFiles /\ GiveUp(t)
      BY <1>2, <1>6 DEF Opening, Returns, Set, Shape, Typed, ClockTyped, PerClient, QueryAt, OpenedPcs
    <2>2. /\ \A f \in Files : owner'[f] = owner[f] \/ owner[f] \in {None, t}
          /\ then[t] = "opened" => owner' = owner
      BY <1>4, <2>1 DEF GiveUp, Set, Shape, Typed, FilesTyped, OnFiles
    <2>3. Holds(t)' # None => Holds(t)' = file[t] /\ then[t] = "opened"
      BY <1>3, <2>1 DEF Holds, HoldsAt, Goal, HoldPcs, OpenPcs, OpenedPcs, SweepPcs
    <2> QED
      BY <1>1, <1>2, <1>3, <1>4, <1>5, <2>1, <2>2, <2>3, Locks DEF CountPcs, PassedPcs, OpenedPcs
  <1>7. CASE OnDisk(file[t]) # Missing
    <2>1. /\ pc'[t] = (IF valid[file[t]] THEN "publish" ELSE "headers") /\ owner' = owner
          /\ openFiles' = openFiles + (IF valid[file[t]] THEN 1 ELSE 0)
      BY <1>7 DEF Opening, Set, Shape, Typed, ClockTyped, PerClient
    <2>2. Holds(t)' = Holds(t)
      BY <1>3, <1>4, <2>1 DEF Holds, HoldsAt, Goal, HoldPcs, OpenedPcs
    <2>3. CASE valid[file[t]]
      BY <1>1, <1>2, <1>3, <1>5, <2>1, <2>2, <2>3, Raises DEF PassedPcs, OpenedPcs
    <2>4. CASE ~valid[file[t]]
      <3>1. openFiles' = openFiles
        <4>1. openFiles + 0 = openFiles
          BY DEF Shape, Typed, GlobalTyped
        <4> QED
          BY <2>1, <2>4, <4>1
      <3>2. pc'[t] = "headers"
        BY <2>1, <2>4
      <3> QED
        BY <1>1, <1>2, <1>3, <1>4, <1>5, <2>1, <2>2, <3>1, <3>2, Locks DEF CountPcs, PassedPcs
    <2> QED
      BY <2>3, <2>4
  <1> QED
    BY <1>6, <1>7

\* Headers raises the count.
LEMMA HeadersLocked ==
    ASSUME Shape, Locked, NEW t \in Clients, Headers(t)
    PROVE  Locked'
  <1>1. Moves(t)
    BY HeadersShape
  <1>2. pc[t] = "headers" /\ QueryAt(t)
    <2>1. pc[t] = "headers"
      BY DEF Headers, Goto
    <2> QED
      BY <2>1, QueryFits DEF QueryPcs, OpenedPcs, LoopPcs
  <1>3. /\ UNCHANGED <<owner, input, m_files, gaveUp, op, asked, file, then, after>>
        /\ openFiles' = openFiles + 1 /\ pc'[t] = "publish"
    BY DEF Headers, Goto, world, mine, Set, Shape, Typed, ClockTyped, PerClient
  <1>4. Holds(t)' = Holds(t)
    BY <1>2, <1>3 DEF Holds, HoldsAt, Goal, HoldPcs, OpenedPcs
  <1>5. FindsAt(t)'
    BY <1>2, <1>3 DEF Locked, Finds, FindsAt, QueryAt
  <1> QED
    BY <1>1, <1>2, <1>3, <1>4, <1>5, Raises DEF PassedPcs, OpenedPcs

\* Publish opens the file, which was closed, and may give up its mutex.
LEMMA PublishLocked ==
    ASSUME Shape, Locked, NEW t \in Clients, Publish(t)
    PROVE  Locked'
  <1>1. Moves(t)
    BY PublishShape
  <1>2. pc[t] = "publish" /\ QueryAt(t)
    <2>1. pc[t] = "publish"
      BY DEF Publish
    <2> QED
      BY <2>1, QueryFits DEF QueryPcs, OpenedPcs, LoopPcs
  <1> DEFINE f == file[t]
  <1>3. Holds(t) = f /\ f \in Files /\ owner[f] = t /\ input[f] = Closed
    <2>1. Holds(t) = f
      BY <1>2 DEF Holds, HoldsAt, HoldPcs, Goal, OpenedPcs
    <2> QED
      BY <1>2, <2>1, Names DEF Locked, Owned, Opens, OpenedPcs, QueryAt
  <1>4. /\ UNCHANGED <<m_files, gaveUp, op, asked, file, then, after>>
        /\ input' = Set(input, f, inp[t]) /\ inp[t] # Closed
        /\ pc'[t] = then[t] /\ then[t] \in {"opened", "pixels"} /\ GiveUp(t)
    BY <1>2 DEF Publish, Returns, world, Set, Shape, Typed, ClockTyped, PerClient, QueryAt, OpenedPcs
  <1>5. openFiles' = openFiles
    <2>1. openFiles - 0 = openFiles
      BY DEF Shape, Typed, GlobalTyped
    <2> QED
      BY <1>3, <2>1 DEF Publish
  <1>6. Owned'
    <2>1. /\ \A g \in Files : owner'[g] = owner[g] \/ owner[g] \in {None, t}
          /\ then[t] = "opened" => owner' = owner
      BY <1>3, <1>4 DEF GiveUp, Set, Shape, Typed, FilesTyped, OnFiles
    <2>2. Holds(t)' # None => Holds(t)' = f /\ then[t] = "opened"
      BY <1>4 DEF Holds, HoldsAt, Goal, HoldPcs, OpenPcs, OpenedPcs, SweepPcs
    <2>3. Holds(t)' # None => owner'[Holds(t)'] = t
      BY <1>3, <2>1, <2>2
    <2> QED
      BY <1>1, <2>1, <2>3, KeepOwned DEF Locked
  <1>7. Opens'
    <2>1. ASSUME NEW u \in Clients \ {t}, pc[u] \in OpenedPcs
          PROVE  input'[file[u]] = input[file[u]]
      <3>1. Holds(u) = file[u]
        BY <2>1 DEF Holds, HoldsAt, HoldPcs, Goal, OpenedPcs
      <3>2. file[u] # f
        BY <1>3, <3>1, OneHolder, Names DEF Locked
      <3>3. file[u] \in Files
        <4>1. QueryAt(u)
          BY <2>1, QueryFits DEF QueryPcs, OpenedPcs, LoopPcs
        <4> QED
          BY <4>1 DEF QueryAt
      <3> QED
        BY <1>4, <3>2, <3>3 DEF Set, Shape, Typed, FilesTyped, OnFiles
    <2>2. pc'[t] \notin OpenedPcs
      BY <1>4 DEF OpenedPcs
    <2> QED
      BY <1>1, <2>1, <2>2, KeepOpens DEF Locked
  <1>8. Finds'
    <2>1. FindsAt(t)'
      BY <1>2, <1>4 DEF Locked, Finds, FindsAt, QueryAt
    <2> QED
      BY <1>1, <1>4, <2>1, KeepFinds DEF Locked
  <1> DEFINE i == Cardinality(InputsOpen)
             i2 == Cardinality(InputsOpen')
             h == Cardinality(Halfway)
             h2 == Cardinality(Halfway')
             p == Cardinality(Passed)
             p2 == Cardinality(Passed')
             c == Cardinality(Clients)
  <1>9. i \in Nat /\ i2 \in Nat /\ h \in Nat /\ h2 \in Nat /\ p \in Nat /\ p2 \in Nat
    BY <1>1, <1>3, <1>4, Countable, OneMoves, OneInput
  <1>10. i2 = i + 1 - 0
    BY <1>3, <1>4, OneInput
  <1>11. h2 = h + 0 - 1 /\ p2 = p + 0 - 0
    <2>1. /\ pc'[t] \notin CountPcs /\ pc'[t] \notin PassedPcs
          /\ pc[t] \in CountPcs /\ pc[t] \notin PassedPcs
      BY <1>2, <1>4 DEF CountPcs, PassedPcs
    <2> QED
      BY <1>1, <2>1, OneMoves
  <1>12. openFiles = i + h /\ (CountsInputs' <=> openFiles' = i2 + h2)
    BY CountsWords DEF Locked
  <1>13. Strict => openFiles + p < MaxOpen + Slack + c + gaveUp
    BY DEF PassedBounded, Locked
  <1>14. PassedBounded' <=> (Strict => openFiles' + p2 < MaxOpen + Slack + c + gaveUp')
    BY DEF PassedBounded
  <1> HIDE DEF i, i2, h, h2, p, p2, c
  <1>15. i2 + h2 = i + h /\ p2 = p
    BY <1>9, <1>10, <1>11
  <1> QED
    BY <1>4, <1>5, <1>6, <1>7, <1>8, <1>12, <1>13, <1>14, <1>15 DEF Locked

\* Lower lowers the count: the thread is no longer halfway.
LEMMA LowerLocked ==
    ASSUME Shape, Locked, NEW t \in Clients, Lower(t)
    PROVE  Locked'
  <1>1. Moves(t)
    BY LowerShape
  <1>2. /\ pc[t] = "lower" /\ pc'[t] = after[t] /\ after'[t] = "idle" /\ openFiles' = openFiles - 1
        /\ UNCHANGED <<owner, input, m_files, gaveUp, op, asked, file, then, key, todo>>
    BY DEF Lower, Goto, perFile, world, clock, Set, Shape, Typed, CallTyped, ClockTyped, PerClient
  <1>3. after[t] \in {"unlock", "step", "clear spec"}
    BY <1>2, Fit DEF Shape, FitsAt, Goal
  <1>4. Owned'
    <2>1. Goal(pc[t], after[t]) = after[t] /\ Goal(pc'[t], after'[t]) = after[t]
      BY <1>2, <1>3 DEF Goal
    <2>2. Holds(t)' = Holds(t)
      BY <1>2, <2>1 DEF Holds
    <2> QED
      BY <1>1, <1>2, <2>2, KeepOwned DEF Locked, Owned
  <1>5. Opens'
    BY <1>1, <1>2, <1>3, KeepOpens DEF Locked, OpenedPcs
  <1>6. Finds'
    <2>1. FindsAt(t)'
      BY <1>2, <1>3 DEF Locked, Finds, FindsAt
    <2> QED
      BY <1>1, <1>2, <2>1, KeepFinds DEF Locked
  <1> DEFINE i == Cardinality(InputsOpen)
             h == Cardinality(Halfway)
             h2 == Cardinality(Halfway')
             p == Cardinality(Passed)
             p2 == Cardinality(Passed')
             c == Cardinality(Clients)
  <1>7. /\ i \in Nat /\ h \in Nat /\ h2 \in Nat /\ p \in Nat /\ p2 \in Nat /\ c \in Nat
        /\ MaxOpen \in Nat /\ Slack \in Nat /\ openFiles \in Int /\ gaveUp \in Nat
    BY <1>1, Countable, OneMoves, Names DEF Shape, Typed, GlobalTyped, WorldTyped
  <1>8. h2 = h + 0 - 1 /\ p2 = p + 0 - 0
    <2>1. /\ pc'[t] \notin CountPcs /\ pc'[t] \notin PassedPcs
          /\ pc[t] \in CountPcs /\ pc[t] \notin PassedPcs
      BY <1>2, <1>3 DEF CountPcs, PassedPcs
    <2> QED
      BY <1>1, <2>1, OneMoves
  <1>9. openFiles = i + h /\ (CountsInputs' <=> openFiles' = i + h2)
    <2>1. InputsOpen' = InputsOpen
      BY <1>2 DEF InputsOpen
    <2> QED
      BY <2>1, CountsWords DEF Locked
  <1>10. Strict => openFiles + p < MaxOpen + Slack + c + gaveUp
    BY DEF PassedBounded, Locked
  <1>11. PassedBounded' <=> (Strict => openFiles' + p2 < MaxOpen + Slack + c + gaveUp)
    BY <1>2 DEF PassedBounded
  <1> HIDE DEF i, h, h2, p, p2, c
  <1>12. openFiles' = i + h2
    BY <1>2, <1>7, <1>8, <1>9
  <1>13. Strict => openFiles' + p2 < MaxOpen + Slack + c + gaveUp
    BY <1>2, <1>7, <1>8, <1>10
  <1> QED
    BY <1>4, <1>5, <1>6, <1>9, <1>11, <1>12, <1>13 DEF Locked

\* Enter takes a bin, but no mutex.  A sweep that begins again finds a file: its
\* own is in the map, and in a bin that it has not passed.
LEMMA EnterLocked ==
    ASSUME Shape, Locked, NEW t \in Clients, Enter(t)
    PROVE  Locked'
  <1> DEFINE b == bin[t]
             k == IF InBin(b) # {} THEN Min(InBin(b)) ELSE None
             on == k = None /\ b < NBins
  <1>1. Moves(t)
    BY EnterShape
  <1>2. /\ pc[t] \in {"begin", "next"}
        /\ bin' = Set(bin, t, IF on THEN b + 1 ELSE 0)
        /\ pc' = Set(pc, t, IF on THEN pc[t] ELSE Goes(t, k))
        /\ UNCHANGED <<owner, input, openFiles, gaveUp, m_files, op, asked, file, then, after, todo>>
    BY DEF Enter, perFile, world, mine
  <1>3. /\ pc'[t] = IF on THEN pc[t] ELSE Goes(t, k)
        /\ bin'[t] = IF on THEN b + 1 ELSE 0
    BY <1>2 DEF Set, Shape, Typed, ClockTyped, PerClient
  <1>4. CASE op[t] \in Queries
    <2>1. QueryAt(t)
      BY <1>2, <1>4, QueryFits DEF QueryPcs, OpenPcs, SweepPcs
    <2>2. /\ asked[t] \in m_files /\ asked[t] \in Files /\ b \in Bins
          /\ pc[t] = "begin" => b <= BinOf[asked[t]]
      BY <1>2, <1>4, <2>1 DEF Locked, Finds, FindsAt, QueryAt
    <2>3. k = None => InBin(b) = {}
      <3>1. InBin(b) # {} => Min(InBin(b)) \in Files
        BY InBins
      <3> QED
        BY <3>1, Names
    <2>4. k = None => BinOf[asked[t]] # b
      BY <2>2, <2>3 DEF InBin
    <2>5. /\ b \in Nat /\ BinOf[asked[t]] \in Nat /\ NBins \in Nat /\ BinOf[asked[t]] <= NBins
      <3>1. NBins \in Nat \ {0} /\ b \in Bins
        BY <2>2, Names
      <3>2. BinOf[asked[t]] \in Bins
        BY <2>2, BinNumbers
      <3> QED
        BY ONLY <3>1, <3>2 DEF Bins
    <2>6. pc[t] = "begin" /\ k = None => on /\ b + 1 <= BinOf[asked[t]]
      BY <2>2, <2>4, <2>5
    <2> HIDE DEF b, k, on
    <2>7. /\ pc'[t] \in {"begin", "next", "sweep", "release"}
          /\ pc'[t] = "begin" => pc[t] = "begin" /\ on
      BY <1>2, <1>3, <1>4, <2>6 DEF Goes, Querying
    <2>8. FindsAt(t)'
      <3>1. pc'[t] = "begin" => bin'[t] <= BinOf[asked[t]]
        <4> SUFFICES ASSUME pc'[t] = "begin" PROVE bin'[t] <= BinOf[asked[t]]
          OBVIOUS
        <4>1. on /\ pc[t] = "begin"
          BY <2>7
        <4>2. k = None
          BY <4>1 DEF on
        <4>3. bin'[t] = b + 1 /\ b + 1 <= BinOf[asked[t]]
          BY <1>3, <2>6, <4>1, <4>2
        <4> QED
          BY <4>3
      <3> QED
        BY <1>2, <2>2, <3>1 DEF FindsAt
    <2>9. Holds(t)' = Holds(t)
      BY <1>2, <2>7 DEF Holds, HoldsAt, Goal, HoldPcs, OpenPcs, OpenedPcs, SweepPcs
    <2> QED
      BY <1>1, <1>2, <2>7, <2>8, <2>9, Still DEF CountPcs, OpenedPcs, PassedPcs
  <1>5. CASE op[t] \notin Queries
    <2> HIDE DEF b, k, on
    <2>1. pc'[t] \in {"begin", "next", "visit"}
      BY <1>2, <1>3, <1>5 DEF Goes, Querying
    <2> QED
      BY <1>1, <1>2, <1>5, <2>1, OtherStill DEF CountPcs, HoldPcs, OpenedPcs, PassedPcs
  <1> QED
    BY <1>4, <1>5

\* StepOn likewise: a sweep goes on to the head of its loop.
LEMMA StepOnLocked ==
    ASSUME Shape, Locked, NEW t \in Clients, StepOn(t)
    PROVE  Locked'
  <1>1. Moves(t)
    BY StepOnShape
  <1>2. /\ pc[t] = "step" /\ UNCHANGED <<owner, input, openFiles, gaveUp, m_files>>
        /\ IF op[t] = "close" THEN Done(t)
           ELSE /\ pc' = Set(pc, t, IF bin'[t] # 0 THEN "next" ELSE Goes(t, key'[t]))
                /\ UNCHANGED <<file, mine>>
    BY DEF StepOn, perFile, world
  <1>3. CASE op[t] = "close"
    BY <1>1, <1>2, <1>3, EndsAt, OtherStill DEF CountPcs
  <1>4. CASE op[t] # "close"
    <2>1. /\ UNCHANGED <<op, asked, file, then, after>>
          /\ pc'[t] \in {"next", IF op[t] \in Queries THEN "sweep" ELSE "visit"}
      BY <1>2, <1>4 DEF mine, Goes, Querying, Set, Shape, Typed, ClockTyped, PerClient
    <2>2. CASE op[t] \in Queries
      <3>1. pc'[t] \in {"next", "sweep"}
        BY <2>1, <2>2
      <3>2. FindsAt(t)'
        BY <1>2, <2>1, <2>2, <3>1 DEF Locked, Finds, FindsAt
      <3>3. Holds(t)' = Holds(t)
        BY <1>2, <2>1, <3>1 DEF Holds, HoldsAt, Goal, HoldPcs, OpenPcs, OpenedPcs, SweepPcs
      <3> QED
        BY <1>1, <1>2, <3>1, <3>2, <3>3, Still DEF CountPcs, OpenedPcs, PassedPcs
    <2>3. CASE op[t] \notin Queries
      BY <1>1, <1>2, <2>1, <2>3, OtherStill DEF CountPcs, HoldPcs, OpenedPcs, PassedPcs
    <2> QED
      BY <2>2, <2>3
  <1> QED
    BY <1>3, <1>4

\* Release may close a file.
LEMMA ReleaseLocked ==
    ASSUME Shape, Locked, NEW t \in Clients, Release(t)
    PROVE  Locked'
  <1>1. Moves(t)
    BY ReleaseShape
  <1>2. pc[t] = "release" /\ QueryAt(t)
    <2>1. pc[t] = "release"
      BY DEF Release
    <2> QED
      BY <2>1, QueryFits DEF QueryPcs, OpenPcs, OpenedPcs, SweepPcs, LoopPcs
  <1>3. /\ UNCHANGED <<owner, openFiles, gaveUp, m_files, op, asked, file, then>>
        /\ \/ pc'[t] = "step" /\ UNCHANGED <<input, after>>
           \/ Shut(t, key[t], "step")
    BY DEF Release, global, world, Set, Shape, Typed, ClockTyped, PerClient
  <1>4. CASE pc'[t] = "step" /\ UNCHANGED <<input, after>>
    <2>1. FindsAt(t)'
      BY <1>2, <1>3, <1>4 DEF Locked, Finds, FindsAt
    <2>2. Holds(t)' = Holds(t)
      BY <1>2, <1>3, <1>4 DEF Holds, HoldsAt, Goal, HoldPcs, OpenPcs, OpenedPcs, SweepPcs
    <2> QED
      BY <1>1, <1>2, <1>3, <1>4, <2>1, <2>2, Still DEF CountPcs, OpenedPcs, PassedPcs
  <1>5. CASE Shut(t, key[t], "step")
    <2>1. key[t] \in Files /\ "step" \in Places
      BY <1>2 DEF QueryAt, Shape, Typed, ClockTyped, PerClient, MaybeFile, Places
    <2>2. pc'[t] = "step" \/ (pc'[t] = "lower" /\ after'[t] = "step")
      BY <1>5, <2>1, ShutGoes
    <2>3. FindsAt(t)'
      BY <1>2, <1>3, <2>2 DEF Locked, Finds, FindsAt
    <2>4. Holds(t)' = Holds(t)
      <3>1. Goal(pc'[t], after'[t]) = "step" /\ Goal(pc[t], after[t]) = "release"
        BY <1>2, <2>2 DEF Goal
      <3> QED
        BY <1>3, <3>1 DEF Holds, HoldsAt, HoldPcs, OpenPcs, OpenedPcs, SweepPcs
    <2>5. Holds(t)' # None => owner'[Holds(t)'] = t
      BY <1>3, <2>4 DEF Locked, Owned
    <2>6. \A g \in Files : owner'[g] = owner[g] \/ owner[g] \in {None, t}
      BY <1>3
    <2>7. "step" \notin CountPcs \union PassedPcs \union OpenedPcs /\ pc[t] \notin CountPcs
      BY <1>2 DEF CountPcs, PassedPcs, OpenedPcs
    <2> QED
      BY <1>1, <1>3, <1>5, <2>1, <2>3, <2>5, <2>6, <2>7, Shuts
  <1> QED
    BY <1>3, <1>4, <1>5

\* VerifyLock takes the file's mutex to open it.
LEMMA VerifyLockLocked ==
    ASSUME Shape, Locked, NEW t \in Clients, VerifyLock(t)
    PROVE  Locked'
  <1>1. Moves(t)
    BY VerifyLockShape
  <1>2. pc[t] = "verify lock" /\ QueryAt(t)
    <2>1. pc[t] = "verify lock"
      BY DEF VerifyLock
    <2> QED
      BY <2>1, QueryFits DEF QueryPcs, LoopPcs
  <1>3. /\ UNCHANGED <<input, openFiles, gaveUp, m_files, op, asked, file, after>>
        /\ owner[file[t]] = None /\ file[t] \in Files
        /\ \/ pc'[t] = "use" /\ owner' = owner
           \/ pc'[t] = "open" /\ owner' = Set(owner, file[t], t)
    BY <1>2 DEF VerifyLock, global, world, Set, Shape, Typed, ClockTyped, PerClient, QueryAt
  <1>4. FindsAt(t)'
    BY <1>2, <1>3 DEF Locked, Finds, FindsAt, QueryAt
  <1>5. Holds(t)' # None => pc'[t] = "open" /\ Holds(t)' = file[t]
    BY <1>2, <1>3 DEF Holds, HoldsAt, Goal, HoldPcs, OpenPcs, OpenedPcs, SweepPcs
  <1>6. /\ \A f \in Files : owner'[f] = owner[f] \/ owner[f] \in {None, t}
        /\ pc'[t] = "open" => owner'[file[t]] = t
    BY <1>3 DEF Set, Shape, Typed, FilesTyped, OnFiles
  <1> QED
    BY <1>1, <1>2, <1>3, <1>4, <1>5, <1>6, Locks DEF CountPcs, OpenedPcs, PassedPcs

\* Opened gives up the mutex unless there is a file to compare with.
LEMMA OpenedLocked ==
    ASSUME Shape, Locked, NEW t \in Clients, Opened(t)
    PROVE  Locked'
  <1>1. Moves(t)
    BY OpenedShape
  <1>2. pc[t] = "opened" /\ QueryAt(t)
    <2>1. pc[t] = "opened"
      BY DEF Opened
    <2> QED
      BY <2>1, QueryFits DEF QueryPcs, LoopPcs
  <1>3. Holds(t) = file[t] /\ file[t] \in Files /\ owner[file[t]] = t
    <2>1. Holds(t) = file[t]
      BY <1>2 DEF Holds, HoldsAt, HoldPcs, Goal
    <2> QED
      BY <1>2, <2>1, Names DEF Locked, Owned, QueryAt
  <1>4. /\ UNCHANGED <<input, openFiles, gaveUp, m_files, op, asked, file, then, after>>
        /\ \/ pc'[t] = "compare" /\ owner' = owner
           \/ pc'[t] = "use" /\ owner' = Set(owner, file[t], None)
    BY DEF Opened, world, Set, Shape, Typed, ClockTyped, PerClient
  <1>5. FindsAt(t)'
    BY <1>2, <1>4 DEF Locked, Finds, FindsAt, QueryAt
  <1>6. Holds(t)' # None => pc'[t] = "compare" /\ Holds(t)' = file[t]
    BY <1>4 DEF Holds, HoldsAt, Goal, HoldPcs, OpenPcs, OpenedPcs, SweepPcs
  <1>7. /\ \A f \in Files : owner'[f] = owner[f] \/ owner[f] \in {None, t}
        /\ pc'[t] = "compare" => owner'[file[t]] = t
    BY <1>3, <1>4 DEF Set, Shape, Typed, FilesTyped, OnFiles
  <1> QED
    BY <1>1, <1>2, <1>4, <1>5, <1>6, <1>7, Locks DEF CountPcs, OpenedPcs, PassedPcs

\* Compare closes a duplicate, or gives up the mutex.
LEMMA CompareLocked ==
    ASSUME Shape, Locked, NEW t \in Clients, Compare(t)
    PROVE  Locked'
  <1>1. Moves(t)
    BY CompareShape
  <1>2. pc[t] = "compare" /\ QueryAt(t)
    <2>1. pc[t] = "compare"
      BY DEF Compare
    <2> QED
      BY <2>1, QueryFits DEF QueryPcs, LoopPcs
  <1>3. Holds(t) = file[t] /\ file[t] \in Files /\ owner[file[t]] = t
    <2>1. Holds(t) = file[t]
      BY <1>2 DEF Holds, HoldsAt, HoldPcs, Goal
    <2> QED
      BY <1>2, <2>1, Names DEF Locked, Owned, QueryAt
  <1>4. /\ UNCHANGED <<openFiles, gaveUp, m_files, op, asked, file, then>>
        /\ \/ Shut(t, file[t], "unlock") /\ owner' = owner
           \/ pc' = Set(pc, t, "use") /\ owner' = Set(owner, file[t], None) /\ UNCHANGED <<input, after>>
    BY DEF Compare, global, world
  <1>5. CASE Shut(t, file[t], "unlock") /\ owner' = owner
    <2>1. "unlock" \in Places
      BY DEF Places
    <2>2. pc'[t] = "unlock" \/ (pc'[t] = "lower" /\ after'[t] = "unlock")
      BY <1>5, <2>1, ShutGoes
    <2>3. FindsAt(t)'
      BY <1>2, <1>4, <2>2 DEF Locked, Finds, FindsAt, QueryAt
    <2>4. Holds(t)' = file[t]
      <3>1. Goal(pc'[t], after'[t]) = "unlock"
        BY <2>2 DEF Goal
      <3> QED
        BY <1>4, <3>1 DEF Holds, HoldsAt, HoldPcs
    <2>5. "unlock" \notin CountPcs \union PassedPcs \union OpenedPcs /\ pc[t] \notin CountPcs
      BY <1>2 DEF CountPcs, PassedPcs, OpenedPcs
    <2> QED
      BY <1>1, <1>3, <1>4, <1>5, <2>1, <2>3, <2>4, <2>5, Shuts
  <1>6. CASE pc' = Set(pc, t, "use") /\ owner' = Set(owner, file[t], None) /\ UNCHANGED <<input, after>>
    <2>1. pc'[t] = "use"
      BY <1>6 DEF Set, Shape, Typed, ClockTyped, PerClient
    <2>2. FindsAt(t)'
      BY <1>2, <1>4, <2>1 DEF Locked, Finds, FindsAt, QueryAt
    <2>3. Holds(t)' = None
      BY <2>1 DEF Holds, HoldsAt, Goal, HoldPcs, OpenPcs, OpenedPcs, SweepPcs
    <2>4. \A f \in Files : owner'[f] = owner[f] \/ owner[f] \in {None, t}
      BY <1>3, <1>6 DEF Set, Shape, Typed, FilesTyped, OnFiles
    <2> QED
      BY <1>1, <1>2, <1>4, <1>6, <2>1, <2>2, <2>3, <2>4, Locks DEF CountPcs, OpenedPcs, PassedPcs
  <1> QED
    BY <1>4, <1>5, <1>6

\* Unlock gives up the mutex.
LEMMA UnlockLocked ==
    ASSUME Shape, Locked, NEW t \in Clients, Unlock(t)
    PROVE  Locked'
  <1>1. Moves(t)
    BY UnlockShape
  <1>2. pc[t] = "unlock" /\ QueryAt(t)
    <2>1. pc[t] = "unlock"
      BY DEF Unlock, Goto
    <2> QED
      BY <2>1, QueryFits DEF QueryPcs, LoopPcs
  <1>3. Holds(t) = file[t] /\ file[t] \in Files /\ owner[file[t]] = t
    <2>1. Holds(t) = file[t]
      BY <1>2 DEF Holds, HoldsAt, HoldPcs, Goal
    <2> QED
      BY <1>2, <2>1, Names DEF Locked, Owned, QueryAt
  <1>4. /\ UNCHANGED <<input, openFiles, gaveUp, m_files, op, asked, file, then, after>>
        /\ pc'[t] = "use" /\ owner' = Set(owner, file[t], None)
    BY DEF Unlock, Goto, global, world, mine, Set, Shape, Typed, ClockTyped, PerClient
  <1>5. FindsAt(t)'
    BY <1>2, <1>4 DEF Locked, Finds, FindsAt, QueryAt
  <1>6. Holds(t)' = None
    BY <1>4 DEF Holds, HoldsAt, Goal, HoldPcs, OpenPcs, OpenedPcs, SweepPcs
  <1>7. \A f \in Files : owner'[f] = owner[f] \/ owner[f] \in {None, t}
    BY <1>3, <1>4 DEF Set, Shape, Typed, FilesTyped, OnFiles
  <1> QED
    BY <1>1, <1>2, <1>4, <1>5, <1>6, <1>7, Locks DEF CountPcs, OpenedPcs, PassedPcs

\* OpenLock takes the mutex of a file that is not open, or has it.
LEMMA OpenLockLocked ==
    ASSUME Shape, Locked, NEW t \in Clients, OpenLock(t)
    PROVE  Locked'
  <1>1. Moves(t)
    BY OpenLockShape
  <1>2. pc[t] = "open lock" /\ QueryAt(t)
    <2>1. pc[t] = "open lock"
      BY DEF OpenLock
    <2> QED
      BY <2>1, QueryFits DEF QueryPcs, OpenPcs, LoopPcs
  <1>3. /\ UNCHANGED <<input, openFiles, gaveUp, m_files, op, asked, file, then, after>>
        /\ owner[file[t]] \in {None, t} /\ file[t] \in Files
        /\ \/ pc'[t] = "opening" /\ owner' = Set(owner, file[t], t) /\ input[file[t]] = Closed
           \/ pc'[t] = then[t] /\ then[t] \in {"opened", "pixels"} /\ owner' = owner
    BY <1>2 DEF OpenLock, Returns, global, world, Set, Shape, Typed, ClockTyped, PerClient, QueryAt,
       OpenPcs
  <1>4. FindsAt(t)'
    BY <1>2, <1>3 DEF Locked, Finds, FindsAt, QueryAt
  <1>5. \A f \in Files : owner'[f] = owner[f] \/ owner[f] \in {None, t}
    BY <1>3 DEF Set, Shape, Typed, FilesTyped, OnFiles
  <1>6. Holds(t)' # None => owner'[Holds(t)'] = t
    <2>1. CASE pc'[t] = "opening" /\ owner' = Set(owner, file[t], t)
      <3>1. Holds(t)' = file[t]
        BY <1>3, <2>1 DEF Holds, HoldsAt, Goal, HoldPcs, OpenedPcs
      <3> QED
        BY <1>3, <2>1, <3>1 DEF Set, Shape, Typed, FilesTyped, OnFiles
    <2>2. CASE pc'[t] = "opened" /\ then[t] = "opened" /\ owner' = owner
      <3>1. Holds(t) = file[t] /\ Holds(t)' = file[t]
        BY <1>2, <1>3, <2>2 DEF Holds, HoldsAt, Goal, HoldPcs, OpenPcs, QueryAt
      <3> QED
        BY <2>2, <3>1 DEF Locked, Owned
    <2>3. CASE pc'[t] = "pixels"
      BY <2>3 DEF Holds, HoldsAt, Goal, HoldPcs, OpenPcs, OpenedPcs, SweepPcs
    <2> QED
      BY <1>3, <2>1, <2>2, <2>3
  <1>7. pc'[t] \in {"opening", "opened", "pixels"} /\ (pc'[t] = "opening" => input[file[t]] = Closed)
    BY <1>3
  <1> QED
    BY <1>1, <1>2, <1>3, <1>4, <1>5, <1>6, <1>7, Locks DEF CountPcs, OpenedPcs, PassedPcs

\* Limit lets the thread pass, or makes it sweep.
LEMMA LimitLocked ==
    ASSUME Shape, Locked, NEW t \in Clients, Limit(t)
    PROVE  Locked'
  <1>1. Moves(t)
    BY LimitShape
  <1>2. pc[t] = "limit" /\ QueryAt(t)
    <2>1. pc[t] = "limit"
      BY DEF Limit
    <2> QED
      BY <2>1, QueryFits DEF QueryPcs, OpenPcs, LoopPcs
  <1>3. /\ UNCHANGED <<owner, input, openFiles, gaveUp, m_files, op, asked, file, then, after>>
        /\ \/ pc'[t] \in {"sweep", "find name", "sweep lock"}
           \/ /\ pc'[t] = "open lock"
              /\ ~(openFiles >= MaxOpen) \/ ~(Strict /\ openFiles >= MaxOpen + Slack)
    BY DEF Limit, TakeSweep, perFile, world, mine, Set, Shape, Typed, ClockTyped, PerClient
  <1>4. FindsAt(t)'
    BY <1>2, <1>3 DEF Locked, Finds, FindsAt, QueryAt
  <1>5. Holds(t)' = Holds(t)
    BY <1>2, <1>3 DEF Holds, HoldsAt, Goal, HoldPcs, OpenPcs, OpenedPcs, SweepPcs
  <1>6. CASE pc'[t] \in {"sweep", "find name", "sweep lock"}
    BY <1>1, <1>2, <1>3, <1>4, <1>5, <1>6, Still DEF CountPcs, OpenedPcs, PassedPcs
  <1>7. CASE /\ pc'[t] = "open lock"
             /\ ~(openFiles >= MaxOpen) \/ ~(Strict /\ openFiles >= MaxOpen + Slack)
    <2>1. openFiles \in Int /\ MaxOpen \in Nat /\ Slack \in Nat
      BY Names DEF Shape, Typed, GlobalTyped
    <2>2. Strict => openFiles < MaxOpen + Slack
      <3>1. openFiles < MaxOpen \/ ~(openFiles >= MaxOpen + Slack) => openFiles < MaxOpen + Slack
        BY <2>1
      <3>2. ~(openFiles >= MaxOpen) => openFiles < MaxOpen
        BY <2>1
      <3> QED
        BY <1>7, <3>1, <3>2
    <2> QED
      BY <1>1, <1>2, <1>3, <1>4, <1>5, <1>7, <2>2, Passes DEF CountPcs, PassedPcs
  <1> QED
    BY <1>3, <1>6, <1>7

\* Sweep goes on, or ends: there is room, or it gives up.
LEMMA SweepLocked ==
    ASSUME Shape, Locked, NEW t \in Clients, Sweep(t)
    PROVE  Locked'
  <1>1. Moves(t)
    BY SweepShape
  <1>2. pc[t] = "sweep" /\ QueryAt(t)
    <2>1. pc[t] = "sweep"
      BY DEF Sweep
    <2> QED
      BY <2>1, QueryFits DEF QueryPcs, OpenPcs, SweepPcs, LoopPcs
  <1> DEFINE goes == openFiles >= MaxOpen /\ loops[t] <= FullLoops
  <1>3. /\ UNCHANGED <<owner, input, openFiles, m_files, op, asked, file, then, after>>
        /\ pc' = Set(pc, t, IF ~goes THEN "save name" ELSE IF key[t] = None THEN "begin" ELSE "release")
        /\ gaveUp' = gaveUp + (IF ~goes /\ openFiles >= MaxOpen THEN 1 ELSE 0)
        /\ goes /\ key[t] = None => bin' = Set(bin, t, 1)
    BY DEF Sweep, perFile, global, mine
  <1>4. /\ pc'[t] = IF ~goes THEN "save name" ELSE IF key[t] = None THEN "begin" ELSE "release"
        /\ pc'[t] = "begin" => bin'[t] = 1
    BY <1>3 DEF Set, Shape, Typed, ClockTyped, PerClient
  <1>5. FindsAt(t)'
    <2>1. asked[t] \in m_files /\ BinOf[asked[t]] \in Bins
      BY <1>2, BinNumbers DEF Locked, Finds, FindsAt, QueryAt
    <2>2. NBins \in Nat \ {0}
      BY Names
    <2>3. 1 <= BinOf[asked[t]]
      BY <2>1, <2>2 DEF Bins
    <2> QED
      BY <1>3, <1>4, <2>1, <2>3 DEF FindsAt
  <1>6. Holds(t)' = Holds(t)
    BY <1>2, <1>3, <1>4 DEF Holds, HoldsAt, Goal, HoldPcs, OpenPcs, OpenedPcs, SweepPcs
  <1>7. openFiles \in Int /\ gaveUp \in Nat /\ MaxOpen \in Nat /\ Slack \in Nat
    BY Names DEF Shape, Typed, GlobalTyped, WorldTyped
  <1>8. CASE goes
    <2> HIDE DEF goes
    <2>1. gaveUp' = gaveUp
      <3>1. gaveUp + 0 = gaveUp
        BY <1>7
      <3> QED
        BY <1>3, <1>8, <3>1
    <2>2. pc'[t] \in {"begin", "release"}
      BY <1>4, <1>8
    <2> QED
      BY <1>1, <1>2, <1>3, <1>5, <1>6, <2>1, <2>2, Still DEF CountPcs, OpenedPcs, PassedPcs
  <1>9. CASE ~goes
    <2>1. \/ openFiles < MaxOpen + Slack /\ gaveUp' = gaveUp
          \/ gaveUp' = gaveUp + 1
      <3>1. CASE openFiles >= MaxOpen
        BY <1>3, <1>9, <3>1
      <3>2. CASE ~(openFiles >= MaxOpen)
        <4>1. openFiles < MaxOpen + Slack /\ gaveUp + 0 = gaveUp
          BY <1>7, <3>2
        <4> QED
          BY <1>3, <3>2, <4>1
      <3> QED
        BY <3>1, <3>2
    <2> HIDE DEF goes
    <2>2. pc'[t] = "save name"
      BY <1>4, <1>9
    <2> QED
      BY <1>1, <1>2, <1>3, <1>5, <1>6, <2>1, <2>2, Passes DEF CountPcs, PassedPcs
  <1> QED
    BY <1>8, <1>9

\* Visit closes a file; invalidate_all takes its mutex first.
LEMMA VisitLocked ==
    ASSUME Shape, Locked, NEW t \in Clients, Visit(t)
    PROVE  Locked'
  <1>1. Moves(t)
    BY VisitShape
  <1> DEFINE x == key[t]
  <1>2. /\ pc[t] = "visit" /\ x # None /\ op[t] \notin Queries
        /\ UNCHANGED <<openFiles, gaveUp, m_files, op, asked, file, then, key>>
        /\ \/ Shut(t, x, "step") /\ owner' = owner
           \/ /\ op[t] = "invalidate all" /\ owner[x] = None /\ owner' = Set(owner, x, t)
              /\ Shut(t, x, "clear spec")
           \/ pc' = Set(pc, t, "step") /\ UNCHANGED <<input, owner, after>>
    BY DEF Visit, Queries, global, world, clock
  <1>3. x \in Files /\ "step" \in Places /\ "clear spec" \in Places
    BY <1>2 DEF Shape, Typed, ClockTyped, PerClient, MaybeFile, Places
  <1>4. FindsAt(t)'
    BY <1>2 DEF FindsAt
  <1>5. /\ pc[t] \notin CountPcs
        /\ "step" \notin CountPcs \union PassedPcs \union OpenedPcs
        /\ "clear spec" \notin CountPcs \union PassedPcs \union OpenedPcs
    BY <1>2 DEF CountPcs, PassedPcs, OpenedPcs
  <1> HIDE DEF x
  <1>6. CASE Shut(t, x, "step") /\ owner' = owner
    <2>1. pc'[t] = "step" \/ (pc'[t] = "lower" /\ after'[t] = "step")
      BY <1>3, <1>6, ShutGoes
    <2>2. Holds(t)' = None
      <3>1. Goal(pc'[t], after'[t]) = "step"
        BY <2>1 DEF Goal
      <3> QED
        BY <1>2, <3>1 DEF Holds, HoldsAt, HoldPcs, OpenedPcs
    <2> QED
      BY <1>1, <1>2, <1>3, <1>4, <1>5, <1>6, <2>2, Shuts
  <1>7. CASE /\ op[t] = "invalidate all" /\ owner[x] = None /\ owner' = Set(owner, x, t)
             /\ Shut(t, x, "clear spec")
    <2>1. pc'[t] = "clear spec" \/ (pc'[t] = "lower" /\ after'[t] = "clear spec")
      BY <1>3, <1>7, ShutGoes
    <2>2. Holds(t)' = x
      <3>1. Goal(pc'[t], after'[t]) = "clear spec"
        BY <2>1 DEF Goal
      <3> QED
        BY <1>2, <1>7, <3>1 DEF Holds, HoldsAt, HoldPcs, OpenedPcs, Queries, x
    <2>3. owner'[x] = t /\ \A g \in Files : owner'[g] = owner[g] \/ owner[g] \in {None, t}
      BY <1>3, <1>7 DEF Set, Shape, Typed, FilesTyped, OnFiles
    <2> QED
      BY <1>1, <1>2, <1>3, <1>4, <1>5, <1>7, <2>2, <2>3, Shuts
  <1>8. CASE pc' = Set(pc, t, "step") /\ UNCHANGED <<input, owner, after>>
    <2>1. pc'[t] = "step"
      BY <1>8 DEF Set, Shape, Typed, ClockTyped, PerClient
    <2> QED
      BY <1>1, <1>2, <1>8, <2>1, OtherStill DEF CountPcs, HoldPcs, OpenedPcs, PassedPcs
  <1> QED
    BY <1>2, <1>6, <1>7, <1>8

\* Who has come to clear a file is no query.
LEMMA Clears ==
    ASSUME Shape, NEW t \in Clients, pc[t] \in {"invalidate lock", "clear spec"}
    PROVE  /\ op[t] \notin Queries /\ op[t] # "idle"
           /\ IF op[t] = "invalidate all" THEN pc[t] = "clear spec" /\ key[t] \in Files
                                          ELSE Min(todo[t]) \in Files
  <1>1. FitsAt(pc[t], pc[t], op[t], asked[t], file[t], then[t], inp[t], cand[t], key[t],
               bin[t], todo[t])
    BY Fit DEF Shape, Goal
  <1>2. op[t] \notin Queries /\ op[t] # "idle"
    BY <1>1 DEF FitsAt, Queries, QueryPcs, OpenPcs, OpenedPcs, SweepPcs
  <1>3. IF op[t] = "invalidate all" THEN pc[t] = "clear spec" /\ key[t] # None ELSE todo[t] # {}
    BY <1>1 DEF FitsAt, ClearPcs
  <1>4. key[t] \in MaybeFile /\ todo[t] \in SUBSET Files
    BY DEF Shape, Typed, ClearTyped, ClockTyped, PerClient
  <1>5. todo[t] # {} => Min(todo[t]) \in Files
    <2>1. todo[t] \in SUBSET Nat
      BY <1>4, Names
    <2> QED
      BY <1>4, <2>1, MinOf
  <1> QED
    BY <1>2, <1>3, <1>4, <1>5 DEF MaybeFile

\* InvalidateLock takes the mutex and closes the file.
LEMMA InvalidateLockLocked ==
    ASSUME Shape, Locked, NEW t \in Clients, InvalidateLock(t)
    PROVE  Locked'
  <1>1. Moves(t)
    BY InvalidateLockShape
  <1> DEFINE x == Min(todo[t])
  <1>2. /\ pc[t] = "invalidate lock" /\ owner[x] = None /\ owner' = Set(owner, x, t)
        /\ Shut(t, x, "clear spec")
        /\ UNCHANGED <<openFiles, gaveUp, m_files, op, asked, file, then, todo>>
    BY DEF InvalidateLock, global, world
  <1>3. x \in Files /\ op[t] \notin Queries /\ op[t] # "invalidate all" /\ "clear spec" \in Places
    BY <1>2, Clears DEF Places
  <1>4. FindsAt(t)'
    BY <1>2, <1>3 DEF FindsAt
  <1>5. pc'[t] = "clear spec" \/ (pc'[t] = "lower" /\ after'[t] = "clear spec")
    BY <1>2, <1>3, ShutGoes
  <1>6. Holds(t)' = x
    <2>1. Goal(pc'[t], after'[t]) = "clear spec"
      BY <1>5 DEF Goal
    <2> QED
      BY <1>2, <1>3, <2>1 DEF Holds, HoldsAt, HoldPcs, OpenedPcs
  <1> HIDE DEF x
  <1>7. owner'[x] = t /\ \A g \in Files : owner'[g] = owner[g] \/ owner[g] \in {None, t}
    BY <1>2, <1>3 DEF Set, Shape, Typed, FilesTyped, OnFiles
  <1>8. pc[t] \notin CountPcs /\ "clear spec" \notin CountPcs \union PassedPcs \union OpenedPcs
    BY <1>2 DEF CountPcs, PassedPcs, OpenedPcs
  <1> QED
    BY <1>1, <1>2, <1>3, <1>4, <1>6, <1>7, <1>8, Shuts

\* ClearSpec gives up the mutex.
LEMMA ClearSpecLocked ==
    ASSUME Shape, Locked, NEW t \in Clients, ClearSpec(t)
    PROVE  Locked'
  <1>1. Moves(t)
    BY ClearSpecShape
  <1> DEFINE x == IF op[t] = "invalidate all" THEN key[t] ELSE Min(todo[t])
  <1>2. /\ pc[t] = "clear spec" /\ owner' = Set(owner, x, None)
        /\ pc' = Set(pc, t, IF op[t] = "invalidate all" THEN "step" ELSE "erase print")
        /\ UNCHANGED <<input, openFiles, gaveUp, m_files, op>>
    BY DEF ClearSpec, Goto, global, world, mine
  <1>3. x \in Files /\ op[t] \notin Queries
    BY <1>2, Clears
  <1>4. pc'[t] \in {"step", "erase print"}
    BY <1>2 DEF Set, Shape, Typed, ClockTyped, PerClient
  <1>5. Holds(t) = x
    BY <1>2, <1>3 DEF Holds, HoldsAt, Goal, HoldPcs, OpenedPcs
  <1>6. owner[x] = t
    BY <1>3, <1>5, Names DEF Locked, Owned
  <1> HIDE DEF x
  <1>7. \A g \in Files : owner'[g] = owner[g] \/ owner[g] \in {None, t}
    BY <1>2, <1>3, <1>6 DEF Set, Shape, Typed, FilesTyped, OnFiles
  <1>8. Holds(t)' = None
    BY <1>2, <1>3, <1>4 DEF Holds, HoldsAt, Goal, HoldPcs, OpenedPcs
  <1>9. FindsAt(t)'
    BY <1>2, <1>3 DEF FindsAt
  <1> QED
    BY <1>1, <1>2, <1>4, <1>7, <1>8, <1>9, Locks DEF CountPcs, OpenedPcs, PassedPcs

\* At first no mutex is taken and nothing is open.
LEMMA InitLocked ==
    ASSUME Init
    PROVE  Locked
  <1>1. /\ \A t \in Clients : pc[t] = "idle" /\ op[t] = "idle"
        /\ \A f \in Files : input[f] = Closed
        /\ openFiles = 0 /\ gaveUp = 0
    BY DEF Init
  <1>2. Owned
    BY <1>1 DEF Owned, Holds, HoldsAt, Goal, HoldPcs, OpenPcs, OpenedPcs, SweepPcs
  <1>3. Opens /\ Finds
    BY <1>1 DEF Opens, OpenedPcs, Finds, FindsAt, Queries
  <1>4. InputsOpen = {} /\ Halfway = {} /\ Passed = {}
    BY <1>1 DEF InputsOpen, Halfway, Passed, CountPcs, PassedPcs
  <1>5. Cardinality({}) = 0
    BY FS_EmptySet
  <1>6. CountsInputs
    BY <1>1, <1>4, <1>5, CountsWords
  <1>7. PassedBounded
    <2> DEFINE c == Cardinality(Clients)
    <2>1. c \in Nat /\ MaxOpen \in Nat \ {0} /\ Slack \in Nat
      BY Names, Countable
    <2> HIDE DEF c
    <2>2. 0 + 0 < MaxOpen + Slack + c + 0
      BY <2>1
    <2> QED
      BY <1>1, <1>4, <1>5, <2>2 DEF PassedBounded, c
  <1> QED
    BY <1>2, <1>3, <1>6, <1>7 DEF Locked

\* Every step keeps it.
LEMMA NextLocked ==
    ASSUME Shape, Locked, [Next]_vars
    PROVE  Locked'
  <1>1. ASSUME NEW t \in Clients, Step(t)
        PROVE  Locked'
    BY <1>1, FindLocked, VerifyLocked, VerifyLockLocked, OpenedLocked, CompareLocked, UnlockLocked,
       UseLocked, CheckLocked, PixelsLocked, AnswerLocked, OpenLocked, OpenLockLocked, OpeningLocked,
       HeadersLocked, PublishLocked, LowerLocked, LimitLocked, SweepLockLocked, FindNameLocked,
       SweepLocked, EnterLocked, StepOnLocked, ReleaseLocked, SaveNameLocked, VisitLocked,
       EndVisitLocked, CheckTimeLocked, InvalidateLocked, InvalidateLockLocked, ClearSpecLocked,
       ErasePrintLocked DEF Step
  <1>2. CASE UNCHANGED vars
    BY <1>2 DEF vars, perFile, global, world, mine, clock, Locked, Owned, Holds, Opens, Finds,
       FindsAt, CountsInputs, PassedBounded, Passed
  <1> QED
    BY <1>1, <1>2, CallLocked, ModifyLocked DEF Next

\* Both are invariants.
LEMMA Invariant == Spec => [](Shape /\ Locked)
  <1>1. Init => Shape /\ Locked
    BY InitShape, InitLocked
  <1>2. Shape /\ Locked /\ [Next]_vars => (Shape /\ Locked)'
    BY NextShape, NextLocked
  <1> QED
    BY <1>1, <1>2, PTL DEF Spec
-----------------------------------------------------------------------------
\* The types, for any number of files, bins, threads and calls.  The count of
\* open files has no more room than for every file and one per thread, though
\* it is raised before a file is open and lowered after it is closed.
THEOREM TypeCorrect == Spec => []TypeOK
  <1>1. ASSUME Shape, Locked PROVE TypeOK
    <2> DEFINE i == Cardinality(InputsOpen)
               h == Cardinality(Halfway)
               c == Cardinality(Clients)
    <2>1. /\ i \in Nat /\ h \in Nat /\ c \in Nat /\ NFiles \in Nat
          /\ i <= NFiles /\ h <= c
      BY Countable, Names
    <2>2. openFiles = i + h
      BY <1>1, CountsWords DEF Locked
    <2> HIDE DEF i, h, c
    <2>3. openFiles \in 0..NFiles + c
      BY <2>1, <2>2
    <2> QED
      BY <1>1, <2>3, TypeParts DEF Shape, c
  <1> QED
    BY <1>1, Invariant, PTL

\* The count of open files (m_stat_open_files_current) never drifts, whatever
\* is closed, opened, swept and invalidated at once.
THEOREM CountExact == Spec => []CountsInputs
  <1>1. Shape /\ Locked => CountsInputs
    BY DEF Locked
  <1> QED
    BY <1>1, Invariant, PTL

\* One thread at a time opens a file (ImageCacheFile::open under m_input_mutex),
\* and what it publishes replaces no ImageInput.
THEOREM OpenedOnce == Spec => []OneOpener
  <1>1. ASSUME Shape, Locked PROVE OneOpener
    <2> SUFFICES ASSUME NEW t \in Clients, pc[t] = "publish"
                 PROVE  /\ input[file[t]] = Closed
                        /\ \A u \in Clients \ {t} :
                              pc[u] \in {"opening", "headers", "publish"} => file[u] # file[t]
      BY DEF OneOpener
    <2>1. input[file[t]] = Closed
      BY <1>1 DEF Locked, Opens, OpenedPcs
    <2>2. ASSUME NEW u \in Clients, pc[u] \in OpenedPcs
          PROVE  Holds(u) = file[u] /\ file[u] # None
      <3>1. QueryAt(u)
        BY <1>1, <2>2, QueryFits DEF QueryPcs, OpenedPcs, LoopPcs
      <3> QED
        BY <2>2, <3>1, Names DEF QueryAt, Holds, HoldsAt, HoldPcs, Goal, OpenedPcs
    <2>3. ASSUME NEW u \in Clients \ {t}, pc[u] \in OpenedPcs
          PROVE  file[u] # file[t]
      <3>1. Holds(t) = file[t] /\ file[t] # None
        BY <2>2 DEF OpenedPcs
      <3>2. Holds(u) = file[u]
        BY <2>2, <2>3
      <3> QED
        BY <1>1, <3>1, <3>2, OneHolder DEF Locked
    <2> QED
      BY <2>1, <2>3 DEF OpenedPcs
  <1> QED
    BY <1>1, Invariant, PTL

\* With max_open_files_strict (check_max_files), the open files are fewer than
\* the limit, the slack, the threads and the sweeps that gave up together.
THEOREM LimitHolds == Spec => []OpenBounded
  <1>1. ASSUME Shape, Locked PROVE OpenBounded
    <2> DEFINE p == Cardinality(Passed)
               c == Cardinality(Clients)
    <2>1. p \in Nat /\ c \in Nat /\ MaxOpen \in Nat /\ Slack \in Nat /\ openFiles \in Int /\ gaveUp \in Nat
      BY <1>1, Countable, Names DEF Shape, Typed, GlobalTyped, WorldTyped
    <2>2. Strict => openFiles + p < MaxOpen + Slack + c + gaveUp
      BY <1>1 DEF Locked, PassedBounded
    <2> HIDE DEF p, c
    <2>3. Strict => openFiles < MaxOpen + Slack + c + gaveUp
      BY <2>1, <2>2
    <2> QED
      BY <2>3 DEF OpenBounded, c
  <1> QED
    BY <1>1, Invariant, PTL

-----------------------------------------------------------------------------
(* Heads: what is known of a file's headers, marks and fingerprint.        *)

\* The place a thread is at, or goes to when it has lowered the count.
G(t) == Goal(pc[t], after[t])
\* The file that an invalidation is at.
Target(t) == IF op[t] = "invalidate all" THEN key[t] ELSE Min(todo[t])
Cleared(f) == fingerprint[f] = None /\ duplicate[f] = None

\* An open file has headers; one that has none, and is not marked broken, has
\* no fingerprint either.
HeadsOf(f) ==
    /\ input[f] # Closed => valid[f]
    /\ ~valid[f] /\ ~broken[f] => Cleared(f)
    /\ duplicate[f] # None => fingerprint[f] # None
    /\ Sound(f) => ~broken[f]
\* What a thread knows of the file whose mutex it has.
HeadsAt(t) ==
    /\ G(t) = "publish" => valid[file[t]]
    /\ G(t) = "clear spec" => input[Target(t)] = Closed
    /\ G(t) \in {"opening", "headers"} /\ ~valid[file[t]] => Cleared(file[t])
    /\ G(t) = "headers" => ~valid[file[t]]
    /\ G(t) \in {"opened", "compare", "unlock"} => valid[file[t]] \/ broken[file[t]]
    /\ G(t) = "compare" => fingerprint[file[t]] # None
Heads == (\A f \in Files : HeadsOf(f)) /\ (\A t \in Clients : HeadsAt(t))

HeadPcs == HoldPcs \union {"clear spec"}
heads == <<input, valid, broken, fingerprint, duplicate>>

\* What a step does to a file whose mutex the thread does not have.
Gentle(t) == \A f \in Files : Holds(t) = f \/
    /\ valid'[f] = valid[f] /\ fingerprint'[f] = fingerprint[f] /\ duplicate'[f] = duplicate[f]
    /\ input'[f] \in {input[f], Closed}
    /\ broken'[f] = broken[f] \/ (broken'[f] /\ ~Sound(f))

\* Where a thread has the mutex of a file, and of which.
LEMMA HeldFile ==
    ASSUME Shape, NEW t \in Clients, G(t) \in HeadPcs
    PROVE  /\ Holds(t) = IF G(t) = "clear spec" THEN Target(t) ELSE file[t]
           /\ Holds(t) \in Files
  <1>1. /\ FitsAt(pc[t], G(t), op[t], asked[t], file[t], then[t], inp[t], cand[t], key[t], bin[t],
                  todo[t])
        /\ key[t] \in MaybeFile /\ todo[t] \subseteq Files
    BY Fit DEF Shape, Typed, ClearTyped, ClockTyped, PerClient, G
  <1>2. CASE G(t) = "clear spec"
    <2>1. Holds(t) = Target(t)
      BY <1>2 DEF Holds, HoldsAt, HoldPcs, OpenedPcs, OpenPcs, SweepPcs, G, Target
    <2>2. IF op[t] = "invalidate all" THEN key[t] # None ELSE todo[t] # {}
      BY <1>1, <1>2 DEF FitsAt, ClearPcs
    <2>3. todo[t] \in SUBSET Nat
      BY <1>1, Names
    <2>4. op[t] # "invalidate all" => Min(todo[t]) \in Files
      BY <1>1, <2>2, <2>3, MinOf
    <2> QED
      BY <1>1, <1>2, <2>1, <2>2, <2>4 DEF Target, MaybeFile
  <1>3. CASE G(t) # "clear spec"
    <2>1. G(t) \in HoldPcs
      BY <1>3 DEF HeadPcs
    <2>2. Holds(t) = file[t]
      BY <2>1 DEF Holds, HoldsAt, G
    <2>3. op[t] \in Queries
      BY <1>1, <2>1 DEF FitsAt, HoldPcs, OpenedPcs, QueryPcs, OpenPcs, LoopPcs
    <2> QED
      BY <1>1, <1>3, <2>2, <2>3 DEF FitsAt
  <1> QED
    BY <1>2, <1>3

\* What a thread knows stays true when another one takes a step.
LEMMA OthersHeads ==
    ASSUME Shape, Locked, NEW t \in Clients, Moves(t), Gentle(t), NEW u \in Clients, u # t, HeadsAt(u)
    PROVE  HeadsAt(u)'
  <1>1. /\ pc'[u] = pc[u] /\ after'[u] = after[u] /\ op'[u] = op[u] /\ file'[u] = file[u]
        /\ key'[u] = key[u] /\ todo'[u] = todo[u]
    BY DEF Moves
  <1>2. G(u)' = G(u) /\ Target(u)' = Target(u) /\ file'[u] = file[u]
    BY <1>1 DEF G, Target
  <1>3. CASE G(u) \notin HeadPcs
    BY <1>2, <1>3 DEF HeadsAt, HeadPcs, HoldPcs, OpenedPcs
  <1>4. CASE G(u) \in HeadPcs
    <2> DEFINE h == IF G(u) = "clear spec" THEN Target(u) ELSE file[u]
    <2>1. Holds(u) = h /\ h \in Files
      BY <1>4, HeldFile
    <2>2. Holds(t) # h
      BY <2>1, Names, OneHolder DEF Locked
    <2>3. /\ valid'[h] = valid[h] /\ fingerprint'[h] = fingerprint[h] /\ duplicate'[h] = duplicate[h]
          /\ input'[h] \in {input[h], Closed} /\ (broken[h] => broken'[h])
      BY <2>1, <2>2 DEF Gentle
    <2>4. CASE G(u) = "clear spec"
      BY <1>2, <2>3, <2>4 DEF HeadsAt
    <2>5. CASE G(u) # "clear spec"
      BY <1>2, <2>3, <2>5 DEF HeadsAt, Cleared
    <2> QED
      BY <2>4, <2>5
  <1> QED
    BY <1>3, <1>4

\* What is enough to keep Heads.
LEMMA KeepHeads ==
    ASSUME Shape, Locked, Heads, NEW t \in Clients, Moves(t), Gentle(t), HeadsAt(t)',
           \A f \in Files : Holds(t) = f => HeadsOf(f)'
    PROVE  Heads'
  <1>1. ASSUME NEW f \in Files PROVE HeadsOf(f)'
    <2>1. CASE Holds(t) = f
      BY <2>1
    <2>2. CASE Holds(t) # f
      <3>1. /\ valid'[f] = valid[f] /\ fingerprint'[f] = fingerprint[f] /\ duplicate'[f] = duplicate[f]
            /\ input'[f] \in {input[f], Closed}
            /\ broken'[f] = broken[f] \/ (broken'[f] /\ ~Sound(f))
        BY <2>2 DEF Gentle
      <3>2. HeadsOf(f) /\ Sound(f)' = Sound(f)
        BY DEF Heads, Sound, Last
      <3> QED
        BY <3>1, <3>2 DEF HeadsOf, Cleared
    <2> QED
      BY <2>1, <2>2
  <1>2. ASSUME NEW u \in Clients PROVE HeadsAt(u)'
    BY OthersHeads DEF Heads
  <1> QED
    BY <1>1, <1>2 DEF Heads

\* A step that changes nothing of the files, and a thread that comes to no
\* place where it has the mutex of a file, or stays where it was.
LEMMA StillHeads ==
    ASSUME Shape, Locked, Heads, NEW t \in Clients, Moves(t), UNCHANGED heads, HeadsAt(t)'
    PROVE  Heads'
  <1>1. /\ UNCHANGED <<input, valid, broken, fingerprint, duplicate>>
    BY DEF heads
  <1>2. Gentle(t)
    BY <1>1 DEF Gentle
  <1>3. ASSUME NEW f \in Files PROVE HeadsOf(f)'
    BY <1>1 DEF Heads, HeadsOf, Cleared, Sound, Last
  <1> QED
    BY <1>2, <1>3, KeepHeads

\* Steps of a query that change nothing of the files, to where the thread has
\* no mutex or is only about to open the file.
LEMMA QueryMoves ==
    ASSUME Shape, NEW t \in Clients,
           \/ Verify(t) \/ VerifyLock(t) \/ Unlock(t) \/ Use(t) \/ Check(t)
           \/ Limit(t) \/ SweepLock(t) \/ FindName(t) \/ Sweep(t) \/ SaveName(t)
    PROVE  UNCHANGED heads /\ pc'[t] \notin HeadPcs \union {"lower"}
  <1> USE DEF heads, perFile, Set, HeadPcs, HoldPcs, OpenedPcs
  <1>1. pc \in PerClient(Places)
    BY DEF Shape, Typed, ClockTyped
  <1>2. CASE Verify(t)
    BY <1>1, <1>2 DEF Verify, PerClient
  <1>3. CASE VerifyLock(t)
    BY <1>1, <1>3 DEF VerifyLock, PerClient
  <1>4. CASE Unlock(t)
    BY <1>1, <1>4 DEF Unlock, Goto, PerClient
  <1>5. CASE Use(t)
    BY <1>1, <1>5 DEF Use, Goto, PerClient
  <1>6. CASE Check(t)
    BY <1>1, <1>6 DEF Check, PerClient
  <1>7. CASE Limit(t)
    BY <1>1, <1>7 DEF Limit, TakeSweep, PerClient
  <1>8. CASE SweepLock(t)
    BY <1>1, <1>8 DEF SweepLock, TakeSweep, PerClient
  <1>9. CASE FindName(t)
    BY <1>1, <1>9 DEF FindName, Goto, PerClient
  <1>10. CASE Sweep(t)
    BY <1>1, <1>10 DEF Sweep, PerClient
  <1>11. CASE SaveName(t)
    BY <1>1, <1>11 DEF SaveName, Goto, PerClient
  <1> QED
    BY <1>2, <1>3, <1>4, <1>5, <1>6, <1>7, <1>8, <1>9, <1>10, <1>11

\* So do the steps that end a call or go round the files.
LEMMA OtherMoves ==
    ASSUME Shape, NEW t \in Clients,
           \/ Find(t) \/ Answer(t) \/ EndVisit(t) \/ CheckTime(t) \/ ErasePrint(t) \/ Invalidate(t)
           \/ Enter(t) \/ StepOn(t) \/ \E o \in Ops, f \in Files : Call(t, o, f)
    PROVE  UNCHANGED heads /\ pc'[t] \notin HeadPcs \union {"lower"}
  <1> USE DEF heads, perFile, HeadPcs, HoldPcs, OpenedPcs
  <1>1. pc \in PerClient(Places)
    BY DEF Shape, Typed, ClockTyped
  <1>2. Done(t) => pc'[t] = "idle"
    BY DEF Done, Set, Shape, Typed, ClockTyped, PerClient
  <1>3. \A k : Goes(t, k) \in {"visit", "sweep", "save name", "release"}
    BY DEF Goes
  <1>4. CASE Find(t)
    BY <1>1, <1>2, <1>3, <1>4 DEF Find, Set, PerClient
  <1>5. CASE Answer(t)
    BY <1>1, <1>2, <1>3, <1>5 DEF Answer
  <1>6. CASE EndVisit(t)
    BY <1>1, <1>2, <1>3, <1>6 DEF EndVisit, Set, PerClient
  <1>7. CASE CheckTime(t)
    BY <1>1, <1>2, <1>3, <1>7 DEF CheckTime, Set, PerClient
  <1>8. CASE ErasePrint(t)
    BY <1>1, <1>2, <1>3, <1>8 DEF ErasePrint, Set, PerClient
  <1>9. CASE Invalidate(t)
    BY <1>1, <1>2, <1>3, <1>9 DEF Invalidate, Set, PerClient, Goto
  <1>10. CASE Enter(t)
    BY <1>1, <1>2, <1>3, <1>10 DEF Enter, Set, PerClient
  <1>11. CASE StepOn(t)
    <2>1. /\ UNCHANGED <<input, valid, broken, fingerprint, duplicate>>
          /\ \/ Done(t) \/ pc' = Set(pc, t, "next") \/ pc' = Set(pc, t, Goes(t, key'[t]))
      BY <1>11 DEF StepOn
    <2>2. Goes(t, key'[t]) \in {"visit", "sweep", "save name", "release"}
      BY <1>3
    <2> QED
      BY <1>1, <1>2, <2>1, <2>2 DEF Set, PerClient
  <1>12. ASSUME NEW o \in Ops, NEW f \in Files, Call(t, o, f)
        PROVE  UNCHANGED heads /\ pc'[t] \notin HeadPcs \union {"lower"}
    BY <1>1, <1>12 DEF Call, Set, PerClient
  <1> QED
    BY <1>4, <1>5, <1>6, <1>7, <1>8, <1>9, <1>10, <1>11, <1>12

\* Open returns to verify_file with a file that has headers or is broken, or
\* goes on.
LEMMA OpenHeads ==
    ASSUME Shape, Locked, Heads, NEW t \in Clients, Open(t) \/ OpenLock(t)
    PROVE  Heads'
  <1>1. pc[t] \in {"open", "open lock"} /\ QueryAt(t)
    <2>1. pc[t] \in {"open", "open lock"}
      BY DEF Open, OpenLock
    <2> QED
      BY <2>1, QueryFits DEF QueryPcs, OpenPcs, OpenedPcs, SweepPcs, LoopPcs
  <1>2. Moves(t) /\ UNCHANGED heads /\ UNCHANGED <<file, op, todo, key>>
    BY OpenShape, OpenLockShape DEF Open, OpenLock, perFile, heads, clock
  <1>3. /\ pc \in PerClient(Places) /\ file[t] \in Files /\ then[t] \in {"opened", "pixels"}
    BY <1>1 DEF Shape, Typed, ClockTyped, QueryAt, OpenPcs
  <1>4. \/ pc'[t] = "limit"
        \/ pc'[t] = "opening" /\ ~broken[file[t]]
        \/ pc'[t] = then[t] /\ (broken[file[t]] \/ input[file[t]] # Closed)
    <2>1. CASE Open(t)
      BY <1>3, <2>1 DEF Open, Returns, Set, PerClient
    <2>2. CASE OpenLock(t)
      BY <1>3, <2>2 DEF OpenLock, Returns, Set, PerClient
    <2> QED
      BY <2>1, <2>2
  <1>5. G(t)' = pc'[t]
    BY <1>3, <1>4 DEF G, Goal
  <1>6. HeadsOf(file[t])
    BY <1>3 DEF Heads
  <1>7. HeadsAt(t)'
    BY <1>2, <1>3, <1>4, <1>5, <1>6 DEF HeadsAt, HeadsOf, Cleared, heads
  <1> QED
    BY <1>2, <1>7, StillHeads

\* Lower goes on to where it was told.
LEMMA LowerHeads ==
    ASSUME Shape, Locked, Heads, NEW t \in Clients, Lower(t)
    PROVE  Heads'
  <1>1. Moves(t) /\ UNCHANGED heads /\ UNCHANGED <<file, op, todo, key>>
    BY LowerShape DEF Lower, perFile, heads, clock
  <1>2. pc[t] = "lower" /\ pc'[t] = after[t] /\ after[t] # "lower"
    BY Fit DEF Lower, Goto, Set, Shape, Typed, ClockTyped, PerClient, FitsAt, Goal
  <1>3. G(t)' = G(t)
    BY <1>2 DEF G, Goal
  <1>4. Target(t)' = Target(t)
    BY <1>1 DEF Target
  <1>5. HeadsAt(t)'
    BY <1>1, <1>3, <1>4 DEF Heads, HeadsAt, Cleared, heads
  <1> QED
    BY <1>1, <1>5, StillHeads

\* Opened: who compares has a fingerprint, and what open() left.
LEMMA OpenedHeads ==
    ASSUME Shape, Locked, Heads, NEW t \in Clients, Opened(t)
    PROVE  Heads'
  <1>1. Moves(t) /\ UNCHANGED heads /\ UNCHANGED <<file, op, todo, key>>
    BY OpenedShape DEF Opened, heads, clock
  <1>2. /\ pc[t] = "opened"
        /\ pc'[t] = "use" \/ (pc'[t] = "compare" /\ fingerprint[file[t]] # None)
    BY DEF Opened, Set, Shape, Typed, ClockTyped, PerClient
  <1>3. G(t)' = pc'[t] /\ G(t) = "opened"
    BY <1>2 DEF G, Goal
  <1>4. HeadsAt(t)'
    BY <1>1, <1>2, <1>3 DEF Heads, HeadsAt, heads
  <1> QED
    BY <1>1, <1>4, StillHeads

\* close() takes a file from no place that has its headers.
LEMMA ShutHeads ==
    ASSUME Shape, Locked, Heads, NEW t \in Clients, Moves(t), NEW f \in Files, NEW to \in Places,
           to # "lower", Shut(t, f, to), UNCHANGED <<valid, broken, fingerprint, duplicate>>,
           to \in HeadPcs => to = "clear spec" /\ Target(t)' = f
    PROVE  Heads'
  <1>1. input' = Set(input, f, Closed) /\ input \in [Files -> Versions \union {Closed}]
    BY DEF Shut, Shape, Typed, FilesTyped, OnFiles
  <1>2. G(t)' = to
    BY ShutGoes DEF G, Goal
  <1>3. \A g \in Files : input'[g] \in {input[g], Closed}
    BY <1>1 DEF Set
  <1>4. Gentle(t)
    BY <1>3 DEF Gentle
  <1>5. HeadsAt(t)'
    <2>1. input'[f] = Closed
      BY <1>1 DEF Set
    <2> QED
      BY <1>2, <2>1 DEF HeadsAt, HeadPcs, HoldPcs, OpenedPcs
  <1>6. ASSUME NEW g \in Files PROVE HeadsOf(g)'
    <2>1. HeadsOf(g) /\ Sound(g)' = Sound(g)
      BY DEF Heads, Sound, Last
    <2> QED
      BY <1>3, <2>1 DEF HeadsOf, Cleared
  <1> QED
    BY <1>4, <1>5, <1>6, KeepHeads

\* Release and the loops that close files do; invalidation goes on to clear
\* the file's headers.
LEMMA ReleaseHeads ==
    ASSUME Shape, Locked, Heads, NEW t \in Clients, Release(t)
    PROVE  Heads'
  <1>1. Moves(t) /\ pc[t] = "release" /\ UNCHANGED <<valid, broken, fingerprint, duplicate>>
    BY ReleaseShape DEF Release
  <1>2. key[t] \in Files
    <2>1. QueryAt(t)
      BY <1>1, QueryFits DEF QueryPcs, OpenPcs, SweepPcs, LoopPcs
    <2> QED
      BY <1>1, <2>1 DEF QueryAt, Shape, Typed, ClockTyped, PerClient, MaybeFile
  <1>3. CASE Shut(t, key[t], "step")
    BY <1>1, <1>2, <1>3, ShutHeads DEF Places, HeadPcs, HoldPcs, OpenedPcs
  <1>4. CASE ~Shut(t, key[t], "step")
    <2>1. UNCHANGED input /\ pc' = Set(pc, t, "step")
      BY <1>4 DEF Release
    <2>2. pc'[t] = "step" /\ G(t)' = "step"
      BY <2>1 DEF Set, Shape, Typed, ClockTyped, PerClient, G, Goal
    <2>3. HeadsAt(t)'
      BY <2>2 DEF HeadsAt
    <2> QED
      BY <1>1, <2>1, <2>3, StillHeads DEF heads
  <1> QED
    BY <1>3, <1>4
\* Closing a file leaves its headers alone.
LEMMA VisitHeads ==
    ASSUME Shape, Locked, Heads, NEW t \in Clients, Visit(t)
    PROVE  Heads'
  <1>1. Moves(t) /\ pc[t] = "visit" /\ UNCHANGED <<valid, broken, fingerprint, duplicate, key, op>>
    BY VisitShape DEF Visit, clock
  <1>2. key[t] \in Files
    BY DEF Visit, Shape, Typed, ClockTyped, PerClient, MaybeFile
  <1>3. CASE Shut(t, key[t], "step")
    BY <1>1, <1>2, <1>3, ShutHeads DEF Places, HeadPcs, HoldPcs, OpenedPcs
  <1>4. CASE op[t] = "invalidate all" /\ Shut(t, key[t], "clear spec")
    <2>1. Target(t)' = key[t]
      BY <1>1, <1>4 DEF Target
    <2> QED
      BY <1>1, <1>2, <1>4, <2>1, ShutHeads DEF Places
  <1>5. CASE ~Shut(t, key[t], "step") /\ ~(op[t] = "invalidate all" /\ Shut(t, key[t], "clear spec"))
    <2>1. UNCHANGED input /\ pc' = Set(pc, t, "step")
      BY <1>5 DEF Visit
    <2>2. pc'[t] = "step" /\ G(t)' = "step"
      BY <2>1 DEF Set, Shape, Typed, ClockTyped, PerClient, G, Goal
    <2>3. HeadsAt(t)'
      BY <2>2 DEF HeadsAt
    <2> QED
      BY <1>1, <2>1, <2>3, StillHeads DEF heads
  <1> QED
    BY <1>3, <1>4, <1>5
\* Nor are they touched when an invalidation closes it, which does away with the fingerprint.
LEMMA InvalidateLockHeads ==
    ASSUME Shape, Locked, Heads, NEW t \in Clients, InvalidateLock(t)
    PROVE  Heads'
  <1>1. /\ Moves(t) /\ pc[t] = "invalidate lock" /\ Shut(t, Min(todo[t]), "clear spec")
        /\ UNCHANGED <<valid, broken, fingerprint, duplicate, op, todo>>
    BY InvalidateLockShape DEF InvalidateLock
  <1>2. op[t] # "invalidate all" /\ Min(todo[t]) \in Files
    <2>1. op[t] # "invalidate all" /\ todo[t] # {} /\ todo[t] \in SUBSET Nat /\ todo[t] \subseteq Files
      BY <1>1, Fit, Names DEF FitsAt, Goal, ClearPcs, LoopPcs, Shape, Typed, ClearTyped, PerClient
    <2> QED
      BY <2>1, MinOf
  <1>3. Target(t)' = Min(todo[t])
    BY <1>1, <1>2 DEF Target
  <1> QED
    BY <1>1, <1>2, <1>3, ShutHeads DEF Places

\* Compare: who becomes a duplicate has a fingerprint, and headers or its mark.
LEMMA CompareHeads ==
    ASSUME Shape, Locked, Heads, NEW t \in Clients, Compare(t)
    PROVE  Heads'
  <1> DEFINE f == file[t]
  <1>1. Moves(t) /\ pc[t] = "compare" /\ UNCHANGED <<valid, broken, fingerprint, file>>
    BY CompareShape DEF Compare
  <1>2. G(t) = "compare" /\ Holds(t) = f /\ f \in Files
    <2>1. G(t) = "compare"
      BY <1>1 DEF G, Goal
    <2> QED
      BY <2>1, HeldFile DEF HeadPcs, HoldPcs
  <1>3. /\ fingerprint[f] # None /\ (valid[f] \/ broken[f]) /\ HeadsOf(f)
    BY <1>2 DEF Heads, HeadsAt
  <1>4. /\ duplicate \in [Files -> MaybeFile] /\ input \in [Files -> Versions \union {Closed}]
        /\ pc \in PerClient(Places)
    BY DEF Shape, Typed, FilesTyped, OnFiles, ClockTyped
  <1>5. /\ \A g \in Files \ {f} : duplicate'[g] = duplicate[g]
        /\ \A g \in Files : input'[g] \in {input[g], Closed}
        /\ G(t)' \in {"unlock", "use"}
    <2>1. CASE duplicate' = Set(duplicate, f, cand[t]) /\ Shut(t, f, "unlock")
      <3>1. G(t)' = "unlock"
        BY <1>2, <2>1, ShutGoes DEF G, Goal, Places
      <3> QED
        BY <1>4, <2>1, <3>1 DEF Set, Shut
    <2>2. CASE pc' = Set(pc, t, "use") /\ UNCHANGED <<duplicate, input>>
      BY <1>4, <2>2 DEF Set, PerClient, G, Goal
    <2> QED
      BY <2>1, <2>2 DEF Compare
  <1>6. Gentle(t)
    BY <1>1, <1>2, <1>5 DEF Gentle
  <1>7. HeadsAt(t)'
    BY <1>1, <1>3, <1>5 DEF HeadsAt
  <1>8. HeadsOf(f)'
    <2>1. valid'[f] = valid[f] /\ broken'[f] = broken[f] /\ fingerprint'[f] = fingerprint[f]
          /\ input'[f] \in {input[f], Closed}
      BY <1>1, <1>2, <1>5
    <2> QED
      BY <1>1, <1>3, <2>1 DEF HeadsOf, Sound, Last
  <1> QED
    BY <1>1, <1>2, <1>6, <1>7, <1>8, KeepHeads

\* Pixels marks only files of which a tile may fail to read.
LEMMA PixelsHeads ==
    ASSUME Shape, Locked, Heads, NEW t \in Clients, Pixels(t)
    PROVE  Heads'
  <1>1. /\ Moves(t) /\ pc[t] = "pixels"
        /\ UNCHANGED <<input, valid, fingerprint, duplicate>>
        /\ broken' = broken \/ (file[t] \in Flaky /\ broken' = Set(broken, file[t], TRUE))
    BY PixelsShape DEF Pixels
  <1>2. G(t) = "pixels" /\ G(t)' \in {"failed", "answered"} /\ Holds(t) = None
    <2>1. QueryAt(t)
      BY <1>1, QueryFits DEF QueryPcs, LoopPcs
    <2>2. pc'[t] \in {"failed", "answered"}
      BY DEF Pixels, Set, Shape, Typed, ClockTyped, PerClient
    <2> QED
      BY <1>1, <2>2 DEF G, Goal, Holds, HoldsAt, HoldPcs, OpenedPcs, OpenPcs, SweepPcs
  <1>3. \A f \in Files : broken'[f] = broken[f] \/ (broken'[f] /\ ~Sound(f))
    BY <1>1 DEF Set, Sound, Shape, Typed, FilesTyped, OnFiles
  <1>4. Gentle(t)
    BY <1>1, <1>3 DEF Gentle
  <1>5. HeadsAt(t)'
    BY <1>2 DEF HeadsAt
  <1> QED
    BY <1>1, <1>2, <1>4, <1>5, Names, KeepHeads

\* Opening: a file that is not there loses its headers, and is not open.
LEMMA OpeningHeads ==
    ASSUME Shape, Locked, Heads, NEW t \in Clients, Opening(t)
    PROVE  Heads'
  <1> DEFINE f == file[t]
  <1>1. Moves(t) /\ pc[t] = "opening" /\ UNCHANGED <<input, fingerprint, duplicate, file>>
    BY OpeningShape DEF Opening
  <1>2. G(t) = "opening" /\ Holds(t) = f /\ f \in Files /\ input[f] = Closed
    <2>1. G(t) = "opening"
      BY <1>1 DEF G, Goal
    <2> QED
      BY <1>1, <2>1, HeldFile DEF HeadPcs, HoldPcs, OpenedPcs, Locked, Opens
  <1>3. HeadsOf(f) /\ (~valid[f] => Cleared(f))
    BY <1>2 DEF Heads, HeadsAt
  <1>4. /\ valid \in [Files -> BOOLEAN] /\ broken \in [Files -> BOOLEAN] /\ pc \in PerClient(Places)
        /\ then[t] \in {"opened", "pixels"}
    <2>1. QueryAt(t)
      BY <1>1, QueryFits DEF QueryPcs, OpenedPcs, LoopPcs
    <2> QED
      BY <1>1, <2>1 DEF QueryAt, OpenedPcs, Shape, Typed, FilesTyped, OnFiles, ClockTyped
  <1>5. CASE OnDisk(f) = Missing
    <2>1. ~Sound(f)
      <3>1. disk[f] \in 1..Last(f)
        BY <1>2 DEF Shape, DiskExists
      <3> QED
        BY <1>5, <3>1 DEF Sound, OnDisk
    <2>2. /\ broken' = Set(broken, f, TRUE) /\ valid' = Set(valid, f, FALSE) /\ pc' = Set(pc, t, then[t])
      BY <1>5 DEF Opening, Returns
    <2>3. Gentle(t)
      BY <1>1, <1>2, <1>4, <2>2 DEF Gentle, Set
    <2>4. pc'[t] = then[t] /\ G(t)' = then[t] /\ broken'[f] /\ ~valid'[f]
      BY <1>2, <1>4, <2>2 DEF Set, PerClient, G, Goal
    <2>5. HeadsAt(t)'
      BY <1>1, <1>4, <2>4 DEF HeadsAt
    <2>6. HeadsOf(f)'
      BY <1>1, <1>2, <1>3, <2>1, <2>4 DEF HeadsOf, Sound, Last
    <2> QED
      BY <1>1, <1>2, <2>3, <2>5, <2>6, KeepHeads
  <1>6. CASE OnDisk(f) # Missing
    <2>1. /\ broken' = Set(broken, f, FALSE) /\ UNCHANGED valid
          /\ pc' = Set(pc, t, IF valid[f] THEN "publish" ELSE "headers")
      BY <1>6 DEF Opening
    <2>2. Gentle(t)
      BY <1>1, <1>2, <1>4, <2>1 DEF Gentle, Set
    <2>3. G(t)' = (IF valid[f] THEN "publish" ELSE "headers") /\ ~broken'[f] /\ valid'[f] = valid[f]
      BY <1>2, <1>4, <2>1 DEF Set, PerClient, G, Goal
    <2>4. HeadsAt(t)'
      BY <1>1, <1>2, <1>3, <2>3 DEF HeadsAt, Cleared
    <2>5. HeadsOf(f)'
      BY <1>1, <1>2, <1>3, <2>3 DEF HeadsOf, Cleared
    <2> QED
      BY <1>1, <1>2, <2>2, <2>4, <2>5, KeepHeads
  <1> QED
    BY <1>5, <1>6

\* Headers makes them.
LEMMA HeadersHeads ==
    ASSUME Shape, Locked, Heads, NEW t \in Clients, Headers(t)
    PROVE  Heads'
  <1> DEFINE f == file[t]
  <1>1. /\ Moves(t) /\ pc[t] = "headers" /\ pc' = Set(pc, t, "publish")
        /\ UNCHANGED <<input, broken, duplicate, file>> /\ valid' = Set(valid, f, TRUE)
        /\ fingerprint' = Set(fingerprint, f, Content[f][inp[t]])
    BY HeadersShape DEF Headers, Goto
  <1>2. G(t) = "headers" /\ Holds(t) = f /\ f \in Files
    <2>1. G(t) = "headers"
      BY <1>1 DEF G, Goal
    <2> QED
      BY <2>1, HeldFile DEF HeadPcs, HoldPcs, OpenedPcs
  <1>3. HeadsOf(f) /\ duplicate[f] = None
    BY <1>2 DEF Heads, HeadsAt, Cleared
  <1>4. G(t)' = "publish" /\ valid'[f]
    BY <1>1, <1>2 DEF Set, Shape, Typed, FilesTyped, OnFiles, ClockTyped, PerClient, G, Goal
  <1>5. Gentle(t)
    BY <1>1, <1>2 DEF Gentle, Set, Shape, Typed, FilesTyped, OnFiles
  <1>6. HeadsAt(t)'
    BY <1>1, <1>4 DEF HeadsAt
  <1>7. HeadsOf(f)'
    BY <1>1, <1>3, <1>4 DEF HeadsOf, Sound, Last
  <1> QED
    BY <1>1, <1>2, <1>5, <1>6, <1>7, KeepHeads

\* Publish opens a file that has headers.
LEMMA PublishHeads ==
    ASSUME Shape, Locked, Heads, NEW t \in Clients, Publish(t)
    PROVE  Heads'
  <1> DEFINE f == file[t]
  <1>1. /\ Moves(t) /\ pc[t] = "publish" /\ pc' = Set(pc, t, then[t]) /\ input' = Set(input, f, inp[t])
        /\ UNCHANGED <<valid, broken, fingerprint, duplicate, file>>
    BY PublishShape DEF Publish, Returns
  <1>2. G(t) = "publish" /\ Holds(t) = f /\ f \in Files
    <2>1. G(t) = "publish"
      BY <1>1 DEF G, Goal
    <2> QED
      BY <2>1, HeldFile DEF HeadPcs, HoldPcs, OpenedPcs
  <1>3. HeadsOf(f) /\ valid[f]
    BY <1>2 DEF Heads, HeadsAt
  <1>4. G(t)' \in {"opened", "pixels"}
    <2>1. QueryAt(t)
      BY <1>1, QueryFits DEF QueryPcs, OpenedPcs, LoopPcs
    <2> QED
      BY <1>1, <2>1 DEF Set, Shape, Typed, ClockTyped, PerClient, G, Goal, QueryAt, OpenedPcs
  <1>5. Gentle(t)
    BY <1>1, <1>2 DEF Gentle, Set, Shape, Typed, FilesTyped, OnFiles
  <1>6. HeadsAt(t)'
    BY <1>1, <1>3, <1>4 DEF HeadsAt
  <1>7. HeadsOf(f)'
    BY <1>1, <1>3 DEF HeadsOf, Cleared, Sound, Last
  <1> QED
    BY <1>1, <1>2, <1>5, <1>6, <1>7, KeepHeads

\* ClearSpec clears a file that is closed.
LEMMA ClearSpecHeads ==
    ASSUME Shape, Locked, Heads, NEW t \in Clients, ClearSpec(t)
    PROVE  Heads'
  <1> DEFINE f == Target(t)
  <1>1. /\ Moves(t) /\ pc[t] = "clear spec" /\ UNCHANGED input
        /\ pc' = Set(pc, t, IF op[t] = "invalidate all" THEN "step" ELSE "erase print")
        /\ valid' = Set(valid, f, FALSE) /\ broken' = Set(broken, f, FALSE)
        /\ fingerprint' = Set(fingerprint, f, None) /\ duplicate' = Set(duplicate, f, None)
    BY ClearSpecShape DEF ClearSpec, Goto, Target
  <1>2. G(t) = "clear spec" /\ Holds(t) = f /\ f \in Files
    <2>1. G(t) = "clear spec"
      BY <1>1 DEF G, Goal
    <2> QED
      BY <2>1, HeldFile DEF HeadPcs
  <1>3. input[f] = Closed
    BY <1>2 DEF Heads, HeadsAt
  <1>4. G(t)' \in {"step", "erase print"}
    BY <1>1 DEF Set, Shape, Typed, ClockTyped, PerClient, G, Goal
  <1>5. Gentle(t)
    BY <1>1, <1>2 DEF Gentle, Set, Shape, Typed, FilesTyped, OnFiles
  <1>6. HeadsAt(t)'
    BY <1>4 DEF HeadsAt
  <1>7. \A g \in Files : g = f => HeadsOf(g)'
    <2>1. ~valid'[f] /\ ~broken'[f] /\ fingerprint'[f] = None /\ duplicate'[f] = None /\ input'[f] = Closed
      BY <1>1, <1>2, <1>3 DEF Set, Shape, Typed, FilesTyped, OnFiles
    <2> QED
      BY <2>1 DEF HeadsOf, Cleared
  <1> QED
    BY <1>1, <1>2, <1>5, <1>6, <1>7, KeepHeads

\* Nothing is open, marked or entered at the start.
LEMMA InitHeads == Init => Heads
  <1> SUFFICES ASSUME Init PROVE Heads
    OBVIOUS
  <1>1. ASSUME NEW f \in Files PROVE HeadsOf(f)
    BY DEF Init, HeadsOf, Cleared, Closed
  <1>2. ASSUME NEW t \in Clients PROVE HeadsAt(t)
    BY DEF Init, HeadsAt, G, Goal
  <1> QED
    BY <1>1, <1>2 DEF Heads

\* Every step keeps Heads.
LEMMA NextHeads ==
    ASSUME Shape, Locked, Heads, [Next]_vars
    PROVE  Heads'
  <1>1. ASSUME NEW t \in Clients, UNCHANGED heads, pc'[t] \notin HeadPcs \union {"lower"}, Moves(t)
        PROVE  Heads'
    <2>1. HeadsAt(t)'
      BY <1>1 DEF HeadsAt, HeadPcs, HoldPcs, OpenedPcs, G, Goal
    <2> QED
      BY <1>1, <2>1, StillHeads
  <1>2. ASSUME NEW t \in Clients,
               \/ Verify(t) \/ VerifyLock(t) \/ Unlock(t) \/ Use(t) \/ Check(t)
               \/ Limit(t) \/ SweepLock(t) \/ FindName(t) \/ Sweep(t) \/ SaveName(t)
        PROVE  Heads'
    <2>1. Moves(t)
      BY <1>2, VerifyShape, VerifyLockShape, UnlockShape, UseShape, CheckShape, LimitShape,
         SweepLockShape, FindNameShape, SweepShape, SaveNameShape
    <2> QED
      BY <1>1, <1>2, <2>1, QueryMoves
  <1>3. ASSUME NEW t \in Clients,
               \/ Find(t) \/ Answer(t) \/ EndVisit(t) \/ CheckTime(t) \/ ErasePrint(t) \/ Invalidate(t)
               \/ Enter(t) \/ StepOn(t) \/ \E o \in Ops, f \in Files : Call(t, o, f)
        PROVE  Heads'
    <2>1. Moves(t)
      BY <1>3, FindShape, AnswerShape, EndVisitShape, CheckTimeShape, ErasePrintShape,
         InvalidateShape, EnterShape, StepOnShape, CallShape
    <2> QED
      BY <1>1, <1>3, <2>1, OtherMoves
  <1>4. ASSUME NEW t \in Clients, Step(t)
        PROVE  Heads'
    BY <1>2, <1>3, <1>4, OpenHeads, LowerHeads, OpenedHeads, ReleaseHeads, VisitHeads,
       InvalidateLockHeads, CompareHeads, PixelsHeads, OpeningHeads, HeadersHeads, PublishHeads,
       ClearSpecHeads DEF Step
  <1>5. CASE UNCHANGED <<heads, pc, after, op, file, key, todo>>
    BY <1>5 DEF heads, Heads, HeadsOf, HeadsAt, Cleared, Target, G, Sound, Last
  <1>6. CASE \E f \in Files : Modify(f)
    BY <1>5, <1>6 DEF Modify, perFile, heads, mine, clock
  <1>7. CASE UNCHANGED vars
    BY <1>5, <1>7 DEF vars, perFile, heads, mine, clock
  <1> QED
    BY <1>3, <1>4, <1>6, <1>7 DEF Next

-----------------------------------------------------------------------------
(* Fresh: what the versions have to do with each other, while no query     *)
(* overlaps an invalidation.                                               *)

\* An invalidation has the queries and the other invalidations wait.
Alone == \A t, u \in Clients : Invalidating(t) /\ u # t => ~Invalidating(u) /\ ~Querying(u)

\* An invalidation by fingerprint that is on its way to erase p.
Clearing(t, p) == op[t] = "invalidate all" \/ (pc[t] = "erase print" /\ print[t] = p)
\* A file is no older than what was invalidated away, its time no later than
\* its content, and its fingerprint that of the version its time is of.
FreshOf(f) ==
    /\ floor[f] <= disk[f] /\ mod_time[f] <= disk[f]
    /\ input[f] # Closed => floor[f] <= input[f] /\ input[f] <= disk[f] /\ mod_time[f] <= input[f]
    /\ fingerprint[f] # None => floor[f] <= mod_time[f] /\ fingerprint[f] = Content[f][mod_time[f]]
    /\ duplicate[f] # None =>
          /\ duplicate[f] \in m_files
          /\ Last(duplicate[f]) = 1 => fingerprint[f] = Content[duplicate[f]][1]
    /\ input[f] # Closed \/ fingerprint[f] # None => f \in m_files
\* A sound file that is entered for a fingerprint has headers, and that one.
Entered(p) ==
    LET d == fingerprints[p] IN
    d # None =>
        /\ d \in m_files
        /\ Last(d) = 1 => p = Content[d][1]
        /\ Sound(d) => (valid[d] /\ fingerprint[d] = p) \/ \E t \in Clients : Clearing(t, p)

\* Before a query may have turned to the file that its own duplicates.
EarlyPcs == {"find", "verify", "verify lock", "opened", "compare", "unlock", "use"}
Early(t) == G(t) \in EarlyPcs \/ (G(t) \in OpenPcs \union OpenedPcs /\ then[t] = "opened")
\* Where a query has an ImageInput.
InputPcs == {"headers", "publish", "pixels", "answered", "failed"}
QueryFresh(t) ==
    /\ atStart[t] = floor
    /\ pc[t] # "find" => file[t] \in m_files
    /\ Early(t) => file[t] = asked[t]
    /\ G(t) \in EarlyPcs \union {"check"} => then[t] # "pixels"
    /\ pc[t] \in {"use", "check"} /\ Sound(asked[t]) => valid[asked[t]]
    /\ then[t] = "pixels" /\ pc[t] # "failed" /\ Sound(file[t]) => valid[file[t]]
    /\ pc[t] = "pixels" /\ Sound(file[t]) => inp[t] # Closed
    /\ pc[t] = "answered" /\ op[t] = "read" => inp[t] # Closed
    /\ inp[t] # Closed => pc[t] \in InputPcs /\ floor[file[t]] <= inp[t] /\ inp[t] <= disk[file[t]]
    /\ pc[t] = "headers" => inp[t] = disk[file[t]]
    /\ pc[t] = "publish" => mod_time[file[t]] <= inp[t]
    /\ pc[t] = "compare" =>
          /\ cand[t] \in m_files
          /\ Sound(cand[t]) => valid[cand[t]]
          /\ Last(cand[t]) = 1 => fingerprint[file[t]] = Content[cand[t]][1]
    /\ file[t] # asked[t] /\ Last(file[t]) = 1 =>
          \E v \in floor[asked[t]]..disk[asked[t]] : Content[asked[t]][v] = Content[file[t]][1]

\* The files that an iteration has passed, and those that wait to be invalidated.
Ahead(f, k) == BinOf[f] < BinOf[k] \/ (BinOf[f] = BinOf[k] /\ f < k)
Behind(t) ==
    IF op[t] = "refresh all" /\ G(t) \in ClearPcs THEN m_files
    ELSE IF pc[t] \in {"begin", "next"} THEN {f \in m_files : BinOf[f] < bin[t]}
    ELSE IF key[t] = None THEN m_files
    ELSE IF pc[t] = "step" THEN {f \in m_files : Ahead(f, key[t]) \/ f = key[t]}
    ELSE {f \in m_files : Ahead(f, key[t])}
Pending(t) == IF op[t] = "refresh all" THEN todo[t] ELSE {}
\* Nothing is known of the file that is older than the invalidation.
Handled(t, f) == input[f] # Closed \/ fingerprint[f] # None => atStart[t][f] <= mod_time[f]
ClearFresh(t) ==
    /\ pc[t] \notin {"begin", "next"} => bin[t] = 0
    /\ pc[t] = "lower" => G(t) = "clear spec"
    /\ G(t) \in {"invalidate lock", "clear spec"} /\ op[t] # "invalidate all" =>
          print[t] = fingerprint[Target(t)]
    /\ pc[t] = "erase print" => input[Target(t)] = Closed /\ fingerprint[Target(t)] = None
    /\ op[t] \in {"invalidate all", "refresh all"} => \A f \in Behind(t) \ Pending(t) : Handled(t, f)

FreshAt(t) ==
    /\ \A f \in Files : atStart[t][f] <= disk[f]
    /\ ~Querying(t) => inp[t] = Closed /\ then[t] = "idle"
    /\ Querying(t) => QueryFresh(t)
    /\ Invalidating(t) => ClearFresh(t)

Fresh ==
    /\ Alone
    /\ \A f \in Files : FreshOf(f)
    /\ \A p \in Prints : Entered(p)
    /\ \A t \in Clients : FreshAt(t)

\* Nobody else's history changes either.
Keeps(t) == \A u \in Clients \ {t} : print'[u] = print[u] /\ atStart'[u] = atStart[u]
\* What a step does to the rest of the world.
Careful(t) ==
    /\ disk' = disk /\ m_files \subseteq m_files'
    /\ \A f \in Files : Holds(t) = f \/ (fingerprint'[f] = fingerprint[f] /\ mod_time'[f] = mod_time[f])
    /\ ~Invalidating(t) => floor' = floor /\ \A f \in Files : Sound(f) /\ valid[f] => valid'[f]
    /\ ~Invalidating(t) /\ ~Querying(t) =>
          /\ UNCHANGED <<fingerprint, mod_time, m_files>>
          /\ \A f \in Files : input'[f] \in {input[f], Closed}

\* What a thread is told by Shape, for short.
LEMMA LocalTypes ==
    ASSUME Shape, NEW t \in Clients
    PROVE  /\ file[t] \in MaybeFile /\ asked[t] \in MaybeFile /\ cand[t] \in MaybeFile /\ key[t] \in MaybeFile
           /\ inp[t] \in Versions \union {Closed} /\ then[t] \in {"idle", "opened", "pixels"}
           /\ todo[t] \subseteq Files /\ bin[t] \in 0..NBins /\ pc[t] \in Places
           /\ op[t] \in Ops \union {"idle"} /\ after[t] \in Places
           /\ atStart[t] \in [Files -> Versions]
           /\ print[t] \in Prints \union {None}
  BY DEF Shape, Typed, CallTyped, ClearTyped, ClockTyped, PerClient, OnFiles

\* And of a file.
LEMMA FileTypes ==
    ASSUME Shape, NEW f \in Files
    PROVE  /\ mod_time[f] \in Nat /\ input[f] \in Nat /\ floor[f] \in Nat \ {0} /\ disk[f] \in Nat \ {0}
           /\ disk[f] \in 1..Last(f) /\ Last(f) \in Nat \ {0}
           /\ fingerprint[f] \in Prints \union {None} /\ duplicate[f] \in MaybeFile
  <1>1. /\ mod_time[f] \in Versions \union {Closed} /\ input[f] \in Versions \union {Closed}
        /\ floor[f] \in Versions /\ disk[f] \in Versions
        /\ fingerprint[f] \in Prints \union {None} /\ duplicate[f] \in MaybeFile
    BY DEF Shape, Typed, FilesTyped, WorldTyped, OnFiles
  <1>2. disk[f] \in 1..Last(f)
    BY DEF Shape, DiskExists
  <1>3. \A v \in Versions : v \in Nat \ {0}
    BY VersionsOf
  <1>4. Closed \in Nat
    BY DEF Closed
  <1> QED
    BY <1>1, <1>2, <1>3, <1>4, Names

\* A query does not invalidate.
LEMMA OneKind ==
    ASSUME NEW t
    PROVE  /\ Querying(t) => ~Invalidating(t) /\ op[t] \in {"read", "info"}
           /\ Invalidating(t) <=> op[t] \in {"invalidate", "refresh", "invalidate all", "refresh all"}
           /\ op[t] \in {"close", "close all", "idle"} => ~Querying(t) /\ ~Invalidating(t)
  BY DEF Querying, Invalidating, Queries, Invalidations

\* What a query knows stays true when another thread takes a step.
LEMMA OthersQuery ==
    ASSUME Shape, Locked, Alone, NEW t \in Clients, Moves(t), Keeps(t), Careful(t),
           NEW u \in Clients, u # t, Querying(u), QueryFresh(u)
    PROVE  QueryFresh(u)'
  <1>1. /\ pc'[u] = pc[u] /\ after'[u] = after[u] /\ op'[u] = op[u] /\ file'[u] = file[u]
        /\ asked'[u] = asked[u] /\ then'[u] = then[u] /\ inp'[u] = inp[u] /\ cand'[u] = cand[u]
        /\ atStart'[u] = atStart[u]
    BY DEF Moves, Keeps
  <1>2. G(u)' = G(u) /\ Early(u)' = Early(u)
    BY <1>1 DEF G, Early
  <1>3. ~Invalidating(t)
    BY DEF Alone
  <1>4. /\ disk' = disk /\ floor' = floor /\ m_files \subseteq m_files'
        /\ \A f \in Files : Sound(f) /\ valid[f] => valid'[f]
    BY <1>3 DEF Careful
  <1>5. asked[u] \in Files /\ file[u] \in Files
    BY Fit DEF Shape, FitsAt, Querying, Queries
  <1>6. pc[u] = "compare" => cand[u] \in Files
    BY LocalTypes, Fit DEF Shape, FitsAt, MaybeFile
  <1>7. pc[u] \in {"compare", "publish"} =>
            fingerprint'[file[u]] = fingerprint[file[u]] /\ mod_time'[file[u]] = mod_time[file[u]]
    <2> SUFFICES ASSUME pc[u] \in {"compare", "publish"}
                 PROVE  fingerprint'[file[u]] = fingerprint[file[u]] /\ mod_time'[file[u]] = mod_time[file[u]]
      OBVIOUS
    <2>1. G(u) = pc[u] /\ G(u) \in HeadPcs /\ G(u) # "clear spec"
      BY DEF G, Goal, HeadPcs, HoldPcs, OpenedPcs
    <2>2. Holds(u) = file[u] /\ Holds(u) # None
      BY <1>5, <2>1, HeldFile, Names
    <2>3. Holds(t) # file[u]
      BY <2>2, OneHolder DEF Locked
    <2> QED
      BY <1>5, <2>3 DEF Careful
  <1>8. \A f : Sound(f)' = Sound(f) /\ Last(f)' = Last(f)
    BY DEF Sound, Last
  <1> QED
    BY <1>1, <1>2, <1>4, <1>5, <1>6, <1>7, <1>8 DEF QueryFresh

\* What an invalidation knows does, too: others only close files.
LEMMA OthersClear ==
    ASSUME Shape, Locked, Alone, NEW t \in Clients, Moves(t), Keeps(t), Careful(t),
           NEW u \in Clients, u # t, Invalidating(u), ClearFresh(u)
    PROVE  ClearFresh(u)'
  <1>1. /\ pc'[u] = pc[u] /\ after'[u] = after[u] /\ op'[u] = op[u] /\ key'[u] = key[u]
        /\ bin'[u] = bin[u] /\ todo'[u] = todo[u] /\ print'[u] = print[u] /\ atStart'[u] = atStart[u]
    BY DEF Moves, Keeps
  <1>2. ~Querying(t) /\ ~Invalidating(t)
    BY DEF Alone
  <1>3. /\ UNCHANGED <<fingerprint, mod_time, m_files>>
        /\ \A f \in Files : input'[f] \in {input[f], Closed}
    BY <1>2 DEF Careful
  <1>4. G(u)' = G(u) /\ Target(u)' = Target(u) /\ Pending(u)' = Pending(u) /\ Behind(u)' = Behind(u)
    BY <1>1, <1>3 DEF G, Target, Pending, Behind, Ahead
  <1>5. pc[u] = "erase print" => Target(u) \in Files
    <2>1. op[u] # "idle" /\ op[u] \notin Queries /\ op[u] \in Ops
      BY LocalTypes, OneKind DEF Querying, Invalidating, Queries, Ops, Invalidations
    <2>2. OtherAt(u)
      BY <2>1, OtherFits
    <2>3. pc[u] = "erase print" => op[u] # "invalidate all" /\ todo[u] # {}
      BY <2>2 DEF OtherAt, Goal, ClearPcs
    <2>4. todo[u] \in SUBSET Nat /\ todo[u] \subseteq Files
      BY LocalTypes, Names
    <2> QED
      BY <2>3, <2>4, MinOf DEF Target
  <1>6. ASSUME NEW f \in Files, Handled(u, f) PROVE Handled(u, f)'
    BY <1>1, <1>3, <1>6 DEF Handled
  <1>7. Behind(u) \subseteq Files
    BY DEF Behind, Shape, Typed, GlobalTyped
  <1>8. pc[u] = "erase print" => input'[Target(u)] = Closed \/ input'[Target(u)] = input[Target(u)]
    BY <1>3, <1>5
  <1>9. /\ G(u)' \in {"invalidate lock", "clear spec"} /\ op'[u] # "invalidate all" =>
              print'[u] = fingerprint'[Target(u)']
        /\ pc'[u] = "erase print" => input'[Target(u)'] = Closed /\ fingerprint'[Target(u)'] = None
    BY <1>1, <1>3, <1>4, <1>8 DEF ClearFresh
  <1>10. op'[u] \in {"invalidate all", "refresh all"} => \A f \in Behind(u)' \ Pending(u)' : Handled(u, f)'
    BY <1>1, <1>4, <1>6, <1>7 DEF ClearFresh
  <1> QED
    BY <1>1, <1>4, <1>9, <1>10 DEF ClearFresh

\* What is enough to keep Fresh.
LEMMA KeepFresh ==
    ASSUME Shape, Locked, Fresh, NEW t \in Clients, Moves(t), Keeps(t), Careful(t),
           op'[t] \in {op[t], "idle"} \/ Alone', FreshAt(t)',
           \A f \in Files : FreshOf(f)', \A p \in Prints : Entered(p)'
    PROVE  Fresh'
  <1>1. Alone'
    <2> SUFFICES ASSUME op'[t] \in {op[t], "idle"} PROVE Alone'
      OBVIOUS
    <2>1. \A u \in Clients : (Invalidating(u)' => Invalidating(u)) /\ (Querying(u)' => Querying(u))
      BY OneKind DEF Moves, Invalidating, Querying, Queries, Invalidations
    <2> QED
      BY <2>1 DEF Fresh, Alone
  <1>2. ASSUME NEW u \in Clients, u # t PROVE FreshAt(u)'
    <2>1. /\ op'[u] = op[u] /\ inp'[u] = inp[u] /\ then'[u] = then[u] /\ atStart'[u] = atStart[u]
          /\ disk' = disk
      BY <1>2 DEF Moves, Keeps, Careful
    <2>2. (Querying(u)' = Querying(u)) /\ (Invalidating(u)' = Invalidating(u))
      BY <2>1 DEF Querying, Invalidating
    <2>3. Querying(u) => QueryFresh(u)'
      BY <1>2, OthersQuery DEF Fresh, FreshAt
    <2>4. Invalidating(u) => ClearFresh(u)'
      BY <1>2, OthersClear DEF Fresh, FreshAt
    <2> QED
      BY <2>1, <2>2, <2>3, <2>4 DEF Fresh, FreshAt
  <1> QED
    BY <1>1, <1>2 DEF Fresh

\* Whether a thread is on its way to erase a fingerprint.
LEMMA ClearingIs ==
    ASSUME Shape, NEW t \in Clients, NEW p, Clearing(t, p)
    PROVE  Invalidating(t)
  <1>1. FitsAt(pc[t], G(t), op[t], asked[t], file[t], then[t], inp[t], cand[t], key[t], bin[t], todo[t])
    BY Fit DEF Shape, G
  <1>2. op[t] = "invalidate all" \/ (pc[t] = "erase print" /\ G(t) = "erase print")
    BY DEF Clearing, G, Goal
  <1>3. op[t] \in Ops \union {"idle"}
    BY LocalTypes
  <1> QED
    BY <1>1, <1>2, <1>3, OneKind DEF FitsAt, Ops, Queries, Invalidations, LoopPcs, ClearPcs, QueryPcs,
       OpenPcs, OpenedPcs, SweepPcs

\* While there is a query, or a call of another kind, nothing is being cleared.
LEMMA NoClearing ==
    ASSUME Shape, Alone, NEW t \in Clients, Querying(t), NEW p
    PROVE  \A u \in Clients : ~Clearing(u, p) /\ ~Invalidating(u)
  BY ClearingIs, OneKind DEF Alone

\* What the others are clearing is not this thread's doing.
LEMMA OthersClearing ==
    ASSUME NEW t \in Clients, Moves(t), Keeps(t), NEW p
    PROVE  \A u \in Clients \ {t} : Clearing(u, p)' = Clearing(u, p)
  <1> SUFFICES ASSUME NEW u \in Clients \ {t} PROVE Clearing(u, p)' = Clearing(u, p)
    OBVIOUS
  <1>1. op'[u] = op[u] /\ pc'[u] = pc[u] /\ print'[u] = print[u]
    BY DEF Moves, Keeps
  <1> QED
    BY <1>1 DEF Clearing

\* A step that changes nothing of the files but may add one to the map.
fresh == <<input, valid, fingerprint, duplicate, mod_time, fingerprints, disk, floor>>
\* It keeps Fresh, if the thread itself is where it should be.
LEMMA StillFresh ==
    ASSUME Shape, Locked, Fresh, NEW t \in Clients, Moves(t), Keeps(t), UNCHANGED fresh,
           m_files \subseteq m_files', Querying(t) \/ Invalidating(t) \/ UNCHANGED m_files,
           op'[t] \in {op[t], "idle"} \/ Alone', FreshAt(t)',
           \A p : Clearing(t, p) => Clearing(t, p)'
    PROVE  Fresh'
  <1>1. UNCHANGED <<input, valid, fingerprint, duplicate, mod_time, fingerprints, disk, floor>>
    BY DEF fresh
  <1>2. Careful(t)
    BY <1>1 DEF Careful
  <1>3. ASSUME NEW f \in Files PROVE FreshOf(f)'
    <2>1. FreshOf(f) /\ \A g : Last(g)' = Last(g)
      BY DEF Fresh, Last
    <2> QED
      BY <1>1, <2>1 DEF FreshOf
  <1>4. ASSUME NEW p \in Prints PROVE Entered(p)'
    <2>1. Entered(p) /\ \A g : Last(g)' = Last(g) /\ Sound(g)' = Sound(g)
      BY DEF Fresh, Last, Sound
    <2>2. \A u \in Clients \ {t} : Clearing(u, p)' = Clearing(u, p)
      BY OthersClearing
    <2>3. \A u \in Clients : Clearing(u, p) => Clearing(u, p)'
      BY <2>2
    <2> QED
      BY <1>1, <2>1, <2>3 DEF Entered
  <1> QED
    BY <1>2, <1>3, <1>4, KeepFresh

\* A call that is over knows nothing.
LEMMA DoneFresh ==
    ASSUME Shape, NEW t \in Clients, Done(t), DiskExists'
    PROVE  FreshAt(t)' /\ op'[t] = "idle" /\ Keeps(t)
  <1>1. /\ op'[t] = "idle" /\ inp'[t] = Closed /\ then'[t] = "idle" /\ atStart'[t] = [f \in Files |-> 1]
        /\ Keeps(t)
    BY DEF Done, Set, Keeps, Shape, Typed, CallTyped, ClearTyped, PerClient
  <1>2. \A f \in Files : atStart'[t][f] <= disk'[f]
    BY <1>1 DEF DiskExists
  <1>3. ~Querying(t)' /\ ~Invalidating(t)'
    BY <1>1 DEF Querying, Invalidating, Queries, Invalidations
  <1> QED
    BY <1>1, <1>2, <1>3 DEF FreshAt
-----------------------------------------------------------------------------
\* What a query is told by Fresh, and where it is.
LEMMA QueryHas ==
    ASSUME Shape, Fresh, NEW t \in Clients, pc[t] \in QueryPcs, pc[t] \in LoopPcs => Querying(t)
    PROVE  QueryAt(t) /\ Querying(t) /\ ~Invalidating(t) /\ QueryFresh(t) /\ G(t) = pc[t]
  <1>1. QueryAt(t)
    BY QueryFits DEF Querying
  <1>2. pc[t] # "lower"
    BY DEF QueryPcs, OpenPcs, OpenedPcs, SweepPcs
  <1> QED
    BY <1>1, <1>2, OneKind DEF QueryAt, Querying, Fresh, FreshAt, G, Goal

\* A query that changes nothing of the files keeps Fresh if it keeps what it knows.
LEMMA QueryKeeps ==
    ASSUME Shape, Locked, Fresh, NEW t \in Clients, Querying(t), Moves(t),
           UNCHANGED <<op, atStart, print>>, UNCHANGED fresh, m_files \subseteq m_files', QueryFresh(t)'
    PROVE  Fresh'
  <1>1. Keeps(t) /\ disk' = disk
    BY DEF Keeps, fresh
  <1>2. Querying(t)' /\ ~Invalidating(t)' /\ ~Invalidating(t)
    BY OneKind DEF Querying, Invalidating, Queries, Invalidations
  <1>3. FreshAt(t)'
    BY <1>1, <1>2 DEF Fresh, FreshAt
  <1>4. \A p : ~Clearing(t, p)
    BY <1>2, ClearingIs
  <1> QED
    BY <1>1, <1>3, <1>4, StillFresh

\* Between the places where a file waits to be opened nothing happens to it.
local == <<op, asked, file, then, inp, cand, print, atStart>>
\* What a query knows there stays true as it moves on.
LEMMA OpenMoves ==
    ASSUME Shape, Locked, Fresh, NEW t \in Clients, Querying(t), G(t) \in OpenPcs, G(t)' \in OpenPcs,
           UNCHANGED local, UNCHANGED <<valid, disk, floor, m_files>>
    PROVE  QueryFresh(t)'
  <1>1. QueryFresh(t) /\ then[t] \in {"idle", "opened", "pixels"}
    BY LocalTypes DEF Fresh, FreshAt
  <1>2. UNCHANGED <<op, asked, file, then, inp, cand, print, atStart>>
    BY DEF local
  <1>3. /\ pc[t] \in OpenPcs \union {"lower"} /\ pc'[t] \in OpenPcs \union {"lower"}
    BY DEF G, Goal
  <1>4. /\ pc[t] \notin InputPcs \union EarlyPcs \union {"check", "find"}
        /\ pc'[t] \notin InputPcs \union EarlyPcs \union {"check", "find"}
        /\ G(t) \notin EarlyPcs \union {"check"} /\ G(t)' \notin EarlyPcs \union {"check"}
    <2>1. \A x \in OpenPcs \union {"lower"} : x \notin InputPcs \union EarlyPcs \union {"check", "find"}
      BY DEF OpenPcs, SweepPcs, InputPcs, EarlyPcs
    <2>2. \A x \in OpenPcs : x \notin EarlyPcs \union {"check"}
      BY <2>1
    <2> QED
      BY <1>3, <2>1, <2>2
  <1>5. Early(t)' = Early(t)
    BY <1>2, <1>4 DEF Early
  <1>6. \A f : Sound(f)' = Sound(f) /\ Last(f)' = Last(f)
    BY DEF Sound, Last
  <1> QED
    BY <1>1, <1>2, <1>4, <1>5, <1>6 DEF QueryFresh, InputPcs, EarlyPcs

\* The limit on open files, and the sweep that it has a query do.
LEMMA LimitFresh ==
    ASSUME Shape, Locked, Fresh, NEW t \in Clients,
           Limit(t) \/ SweepLock(t) \/ FindName(t) \/ Sweep(t) \/ SaveName(t)
    PROVE  Fresh'
  <1>1. pc[t] \in {"limit", "sweep lock", "find name", "sweep", "save name"}
    BY DEF Limit, SweepLock, FindName, Sweep, SaveName, Goto
  <1>2. Querying(t) /\ G(t) \in OpenPcs
    BY <1>1, QueryHas DEF QueryPcs, OpenPcs, SweepPcs, LoopPcs
  <1>3. Moves(t)
    BY LimitShape, SweepLockShape, FindNameShape, SweepShape, SaveNameShape
  <1>4. UNCHANGED <<perFile, m_files, fingerprints, disk, floor, file, mine>>
    BY DEF Limit, SweepLock, FindName, Sweep, SaveName, world, global
  <1>5. pc'[t] \in OpenPcs
    <2>1. pc \in PerClient(Places)
      BY DEF Shape, Typed, ClockTyped
    <2>2. CASE Limit(t)
      BY <2>1, <2>2 DEF Limit, TakeSweep, OpenPcs, SweepPcs, Set, PerClient
    <2>3. CASE SweepLock(t)
      BY <2>1, <2>3 DEF SweepLock, TakeSweep, OpenPcs, SweepPcs, Set, PerClient
    <2>4. CASE FindName(t)
      BY <2>1, <2>4 DEF FindName, Goto, OpenPcs, SweepPcs, Set, PerClient
    <2>5. CASE Sweep(t)
      BY <2>1, <2>5 DEF Sweep, OpenPcs, SweepPcs, Set, PerClient
    <2>6. CASE SaveName(t)
      BY <2>1, <2>6 DEF SaveName, Goto, OpenPcs, SweepPcs, Set, PerClient
    <2> QED
      BY <2>2, <2>3, <2>4, <2>5, <2>6
  <1>6. G(t)' \in OpenPcs
    BY <1>5 DEF G, Goal, OpenPcs, SweepPcs
  <1>7. QueryFresh(t)'
    BY <1>2, <1>4, <1>6, OpenMoves DEF perFile, mine, local
  <1> QED
    BY <1>2, <1>3, <1>4, <1>7, QueryKeeps DEF perFile, mine, fresh

\* verify_file looks for headers, and has the mutex before it opens the file.
LEMMA VerifyFresh ==
    ASSUME Shape, Locked, Fresh, NEW t \in Clients, Verify(t) \/ VerifyLock(t)
    PROVE  Fresh'
  <1>1. pc[t] \in {"verify", "verify lock"} /\ Moves(t)
    BY VerifyShape, VerifyLockShape DEF Verify, VerifyLock
  <1>2. Querying(t) /\ QueryFresh(t) /\ G(t) = pc[t]
    BY <1>1, QueryHas DEF QueryPcs, LoopPcs
  <1>3. UNCHANGED <<input, valid, fingerprint, duplicate, mod_time, m_files, fingerprints, disk, floor,
                    op, asked, file, inp, cand, print, atStart>>
    BY DEF Verify, VerifyLock, perFile, global, world, mine
  <1>4. \/ pc'[t] = "use" /\ valid[file[t]] /\ then'[t] = then[t]
        \/ pc'[t] = "verify lock" /\ then'[t] = then[t]
        \/ pc'[t] = "open" /\ then'[t] = "opened"
    BY DEF Verify, VerifyLock, Set, mine, Shape, Typed, CallTyped, ClockTyped, PerClient
  <1>5. G(t)' = pc'[t]
    BY <1>4 DEF G, Goal
  <1>6. file[t] = asked[t] /\ inp[t] = Closed /\ then[t] # "pixels" /\ file[t] \in m_files
    BY <1>1, <1>2 DEF QueryFresh, EarlyPcs, Early, InputPcs
  <1>7. QueryFresh(t)'
    BY <1>2, <1>3, <1>4, <1>5, <1>6 DEF QueryFresh, EarlyPcs, OpenPcs, OpenedPcs, InputPcs
  <1> QED
    BY <1>1, <1>2, <1>3, <1>7, QueryKeeps DEF fresh

\* A query that changes a file keeps Fresh if it keeps what is known of the
\* files, and changes headers only of the file whose mutex it has.
LEMMA QueryChanges ==
    ASSUME Shape, Locked, Fresh, NEW t \in Clients, Querying(t), Moves(t),
           UNCHANGED <<op, atStart, print, disk, floor, m_files>>, QueryFresh(t)',
           \A f \in Files : Holds(t) = f \/ (fingerprint'[f] = fingerprint[f] /\ mod_time'[f] = mod_time[f]),
           \A f \in Files : Sound(f) /\ valid[f] => valid'[f],
           \A f \in Files : FreshOf(f)', \A p \in Prints : Entered(p)'
    PROVE  Fresh'
  <1>1. Keeps(t)
    BY DEF Keeps
  <1>2. Querying(t)' /\ ~Invalidating(t)' /\ ~Invalidating(t)
    BY OneKind DEF Querying, Invalidating, Queries, Invalidations
  <1>3. FreshAt(t)'
    BY <1>1, <1>2 DEF Fresh, FreshAt
  <1>4. Careful(t)
    BY <1>2 DEF Careful
  <1> QED
    BY <1>1, <1>3, <1>4, KeepFresh

\* What is entered for a fingerprint while there are queries.
LEMMA EnteredNow ==
    ASSUME Shape, Fresh, NEW t \in Clients, Querying(t), NEW p \in Prints, fingerprints[p] # None
    PROVE  LET d == fingerprints[p] IN
           /\ d \in m_files /\ d \in Files
           /\ Last(d) = 1 => p = Content[d][1]
           /\ Sound(d) => valid[d] /\ fingerprint[d] = p
  BY NoClearing DEF Fresh, Entered, Shape, Typed, GlobalTyped

\* Enough to have it so: no sound file that is entered loses its headers.
LEMMA EnteredStays ==
    ASSUME Shape, Fresh, NEW t \in Clients, Querying(t), UNCHANGED <<m_files, fingerprints>>,
           \A f \in m_files : Sound(f) /\ valid[f] => valid'[f] /\ fingerprint'[f] = fingerprint[f]
    PROVE  \A p \in Prints : Entered(p)'
  <1>1. \A f : Sound(f)' = Sound(f) /\ Last(f)' = Last(f)
    BY DEF Sound, Last
  <1>2. SUFFICES ASSUME NEW p \in Prints, fingerprints[p] # None PROVE Entered(p)'
    BY DEF Entered
  <1> QED
    BY <1>1, EnteredNow DEF Entered

\* Opened: the file that is entered for a fingerprint has the same pixels.
LEMMA OpenedFresh ==
    ASSUME Shape, Locked, Heads, Fresh, NEW t \in Clients, Opened(t)
    PROVE  Fresh'
  <1> DEFINE f == file[t]
             p == fingerprint[f]
             d == fingerprints[p]
  <1>1. /\ pc[t] = "opened" /\ Moves(t)
        /\ UNCHANGED <<input, valid, fingerprint, duplicate, mod_time, m_files, disk, floor,
                       op, asked, file, then, inp, print, atStart>>
    BY OpenedShape DEF Opened, world
  <1>2. Querying(t) /\ QueryFresh(t) /\ G(t) = "opened" /\ f \in Files
    BY <1>1, QueryHas DEF QueryPcs, LoopPcs, QueryAt
  <1>3. f = asked[t] /\ inp[t] = Closed /\ then[t] # "pixels" /\ f \in m_files
    BY <1>1, <1>2 DEF QueryFresh, EarlyPcs, Early, InputPcs
  <1>4. HeadsOf(f) /\ (valid[f] \/ broken[f])
    BY <1>2 DEF Heads, HeadsAt
  <1>5. p \in Prints \union {None} /\ FreshOf(f) /\ fingerprints \in [Prints -> MaybeFile]
    BY <1>2 DEF Fresh, Shape, Typed, FilesTyped, GlobalTyped, OnFiles
  <1>6. \A g : Sound(g)' = Sound(g) /\ Last(g)' = Last(g)
    BY DEF Sound, Last
  <1>7. ASSUME NEW g \in Files PROVE FreshOf(g)'
    BY <1>1, <1>6 DEF Fresh, FreshOf
  <1>8. /\ pc \in PerClient(Places) /\ cand \in PerClient(MaybeFile)
    BY DEF Shape, Typed, ClockTyped, CallTyped
  <1>9. CASE Dedup /\ p # None /\ d \notin {None, f}
    <2>1. UNCHANGED fingerprints /\ cand'[t] = d /\ pc'[t] = "compare"
      BY <1>8, <1>9 DEF Opened, Set, PerClient
    <2>2. d \in m_files /\ (Last(d) = 1 => p = Content[d][1]) /\ (Sound(d) => valid[d])
      BY <1>2, <1>5, <1>9, EnteredNow
    <2>3. G(t)' = "compare"
      BY <2>1 DEF G, Goal
    <2>4. QueryFresh(t)'
      BY <1>1, <1>2, <1>3, <1>6, <2>1, <2>2, <2>3 DEF QueryFresh, InputPcs
    <2> QED
      BY <1>1, <1>2, <2>1, <2>4, QueryKeeps DEF fresh
  <1>10. CASE ~(Dedup /\ p # None /\ d \notin {None, f})
    <2>1. /\ UNCHANGED cand /\ pc'[t] = "use"
          /\ fingerprints' = IF Dedup /\ p # None THEN Set(fingerprints, p, f) ELSE fingerprints
      BY <1>8, <1>10 DEF Opened, Set, PerClient
    <2>2. G(t)' = "use"
      BY <2>1 DEF G, Goal
    <2>3. QueryFresh(t)'
      BY <1>1, <1>2, <1>3, <1>4, <1>6, <2>1, <2>2 DEF QueryFresh, InputPcs, HeadsOf
    <2>4. ASSUME NEW q \in Prints PROVE Entered(q)'
      <3>1. CASE fingerprints'[q] = fingerprints[q]
        <4>1. Entered(q)
          BY DEF Fresh
        <4>2. \A u \in Clients : ~Clearing(u, q)
          BY <1>2, NoClearing DEF Fresh
        <4> QED
          BY <1>1, <1>6, <3>1, <4>1, <4>2 DEF Entered
      <3>2. CASE fingerprints'[q] # fingerprints[q]
        <4>1. q = p /\ fingerprints'[q] = f
          BY <1>5, <2>1, <3>2 DEF Set
        <4>2. p # None
          BY <4>1, Names
        <4>3. floor[f] <= mod_time[f] /\ mod_time[f] <= disk[f] /\ p = Content[f][mod_time[f]]
          BY <1>5, <4>2 DEF FreshOf
        <4>4. mod_time[f] \in Nat /\ floor[f] \in Nat \ {0} /\ disk[f] \in 1..Last(f)
          BY <1>2, FileTypes
        <4>5. Last(f) = 1 => mod_time[f] = 1
          BY <4>3, <4>4
        <4>6. Sound(f) => valid[f]
          BY <1>4 DEF HeadsOf
        <4> QED
          BY <1>1, <1>3, <1>6, <4>1, <4>3, <4>5, <4>6 DEF Entered
      <3> QED
        BY <3>1, <3>2
    <2> QED
      BY <1>1, <1>2, <1>7, <2>3, <2>4, QueryChanges
  <1> QED
    BY <1>9, <1>10

\* A close() changes nothing that is known of files.
LEMMA ShutFresh ==
    ASSUME Fresh, \A f \in Files : input'[f] \in {input[f], Closed},
           UNCHANGED <<fingerprint, duplicate, mod_time, m_files, disk, floor>>
    PROVE  \A f \in Files : FreshOf(f)'
  <1>1. \A g : Last(g)' = Last(g)
    BY DEF Last
  <1> QED
    BY <1>1 DEF Fresh, FreshOf

\* Compare: a duplicate has the pixels of the file that was entered, and the
\* file has headers again.
LEMMA CompareFresh ==
    ASSUME Shape, Locked, Heads, Fresh, NEW t \in Clients, Compare(t)
    PROVE  Fresh'
  <1> DEFINE f == file[t]
             d == cand[t]
  <1>1. /\ pc[t] = "compare" /\ Moves(t)
        /\ UNCHANGED <<valid, fingerprint, mod_time, m_files, fingerprints, disk, floor,
                       op, asked, file, then, inp, print, atStart>>
        /\ cand' = Set(cand, t, None)
    BY CompareShape DEF Compare, world, global
  <1>2. Querying(t) /\ QueryFresh(t) /\ G(t) = "compare" /\ f \in Files
    BY <1>1, QueryHas DEF QueryPcs, LoopPcs, QueryAt
  <1>3. f = asked[t] /\ inp[t] = Closed /\ then[t] # "pixels" /\ f \in m_files
    BY <1>1, <1>2 DEF QueryFresh, EarlyPcs, Early, InputPcs
  <1>4. HeadsOf(f) /\ (valid[f] \/ broken[f]) /\ FreshOf(f)
    BY <1>2 DEF Heads, HeadsAt, Fresh
  <1>5. \A g : Sound(g)' = Sound(g) /\ Last(g)' = Last(g)
    BY DEF Sound, Last
  <1>6. /\ \/ UNCHANGED duplicate
           \/ duplicate' = Set(duplicate, f, d)
        /\ \A g \in Files : input'[g] \in {input[g], Closed}
        /\ G(t)' \in {"unlock", "use"} /\ pc'[t] \in {"unlock", "use", "lower"}
    <2>1. CASE duplicate' = Set(duplicate, f, d) /\ Shut(t, f, "unlock")
      <3>1. G(t)' = "unlock" /\ pc'[t] \in {"unlock", "lower"}
        BY <1>2, <2>1, ShutGoes DEF G, Goal, Places
      <3> QED
        BY <2>1, <3>1 DEF Set, Shut, Shape, Typed, FilesTyped, OnFiles
    <2>2. CASE pc' = Set(pc, t, "use") /\ UNCHANGED <<duplicate, input>>
      BY <2>2 DEF Set, PerClient, G, Goal, Shape, Typed, ClockTyped
    <2> QED
      BY <2>1, <2>2 DEF Compare
  <1>7. QueryFresh(t)'
    BY <1>1, <1>2, <1>3, <1>4, <1>5, <1>6 DEF QueryFresh, EarlyPcs, InputPcs, HeadsOf, Early
  <1>8. ASSUME NEW g \in Files PROVE FreshOf(g)'
    <2>1. FreshOf(g) /\ duplicate \in [Files -> MaybeFile]
      BY DEF Fresh, Shape, Typed, FilesTyped, OnFiles
    <2>2. /\ d \in m_files
          /\ Last(d) = 1 => fingerprint[f] = Content[d][1]
      BY <1>1, <1>2 DEF QueryFresh
    <2>3. duplicate'[g] = duplicate[g] \/ (g = f /\ duplicate'[g] = d)
      BY <1>6, <2>1 DEF Set
    <2> QED
      BY <1>1, <1>5, <1>6, <2>1, <2>2, <2>3 DEF FreshOf
  <1>9. \A p \in Prints : Entered(p)'
    BY <1>1, <1>2, EnteredStays
  <1> QED
    BY <1>1, <1>2, <1>7, <1>8, <1>9, QueryChanges

\* Unlock: the file has headers.
LEMMA UnlockFresh ==
    ASSUME Shape, Locked, Heads, Fresh, NEW t \in Clients, Unlock(t)
    PROVE  Fresh'
  <1>1. /\ pc[t] = "unlock" /\ Moves(t) /\ pc'[t] = "use"
        /\ UNCHANGED fresh
             /\ UNCHANGED <<valid, disk, floor, m_files, op, asked, file, then, inp, cand, print, atStart>>
    BY UnlockShape DEF Unlock, Goto, Set, global, world, mine, fresh, Shape, Typed, ClockTyped, PerClient
  <1>2. Querying(t) /\ QueryFresh(t) /\ G(t) = "unlock" /\ file[t] \in Files
    BY <1>1, QueryHas DEF QueryPcs, LoopPcs, QueryAt
  <1>3. HeadsOf(file[t]) /\ (valid[file[t]] \/ broken[file[t]])
    BY <1>2 DEF Heads, HeadsAt
  <1>4. G(t)' = "use"
    BY <1>1 DEF G, Goal
  <1>5. \A g : Sound(g)' = Sound(g) /\ Last(g)' = Last(g)
    BY DEF Sound, Last
  <1>6. QueryFresh(t)'
    BY <1>1, <1>2, <1>3, <1>4, <1>5 DEF QueryFresh, EarlyPcs, InputPcs, HeadsOf, Early
  <1> QED
    BY <1>1, <1>2, <1>6, QueryKeeps

\* Use: the file that is turned to instead had the pixels that this one has
\* had since the query began.
LEMMA UseFresh ==
    ASSUME Shape, Locked, Heads, Fresh, NEW t \in Clients, Use(t)
    PROVE  Fresh'
  <1> DEFINE f == file[t]
             d == duplicate[f]
  <1>1. /\ pc[t] = "use" /\ Moves(t) /\ pc'[t] = "check"
        /\ UNCHANGED fresh
             /\ UNCHANGED <<valid, disk, floor, m_files, op, asked, then, inp, cand, print, atStart>>
    BY UseShape DEF Use, Goto, Set, global, world, mine, fresh, Shape, Typed, ClockTyped, PerClient
  <1>2. Querying(t) /\ QueryFresh(t) /\ G(t) = "use" /\ f \in Files
    BY <1>1, QueryHas DEF QueryPcs, LoopPcs, QueryAt
  <1>3. f = asked[t] /\ inp[t] = Closed /\ then[t] # "pixels" /\ f \in m_files
    BY <1>1, <1>2 DEF QueryFresh, EarlyPcs, Early, InputPcs
  <1>4. HeadsOf(f) /\ FreshOf(f)
    BY <1>2 DEF Heads, Fresh
  <1>5. G(t)' = "check"
    BY <1>1 DEF G, Goal
  <1>6. \A g : Sound(g)' = Sound(g) /\ Last(g)' = Last(g)
    BY DEF Sound, Last
  <1>7. file'[t] = f \/ (d # None /\ file'[t] = d)
    BY <1>2 DEF Use, Set, Shape, Typed, CallTyped, PerClient
  <1>8. file'[t] \in m_files
    BY <1>3, <1>4, <1>7 DEF FreshOf
  <1>9. file'[t] # f /\ Last(file'[t]) = 1 =>
            \E v \in floor[f]..disk[f] : Content[f][v] = Content[file'[t]][1]
    <2> SUFFICES ASSUME file'[t] # f, Last(file'[t]) = 1
                 PROVE  \E v \in floor[f]..disk[f] : Content[f][v] = Content[file'[t]][1]
      OBVIOUS
    <2>1. fingerprint[f] # None /\ fingerprint[f] = Content[file'[t]][1]
      BY <1>4, <1>7 DEF HeadsOf, FreshOf
    <2>2. floor[f] <= mod_time[f] /\ mod_time[f] <= disk[f] /\ fingerprint[f] = Content[f][mod_time[f]]
      BY <1>4, <2>1 DEF FreshOf
    <2>3. mod_time[f] \in floor[f]..disk[f]
      BY <1>2, <2>2, FileTypes
    <2> QED
      BY <2>1, <2>2, <2>3
  <1>10. QueryFresh(t)'
    BY <1>1, <1>2, <1>3, <1>5, <1>6, <1>8, <1>9 DEF QueryFresh, EarlyPcs, InputPcs, Early, OpenPcs,
       OpenedPcs, SweepPcs
  <1> QED
    BY <1>1, <1>2, <1>10, QueryKeeps

\* Check: a file that passes has headers.
LEMMA CheckFresh ==
    ASSUME Shape, Locked, Heads, Fresh, NEW t \in Clients, Check(t)
    PROVE  Fresh'
  <1> DEFINE f == file[t]
             good == ~broken[f] /\ valid[f]
  <1>1. /\ pc[t] = "check" /\ Moves(t) /\ then'[t] = "pixels"
        /\ pc'[t] = IF ~good THEN "failed" ELSE IF op[t] = "info" THEN "answered" ELSE "open"
        /\ UNCHANGED fresh
        /\ UNCHANGED <<valid, disk, floor, m_files, op, asked, file, inp, cand, print, atStart>>
    <2>1. pc \in [Clients -> Places] /\ then \in [Clients -> {"idle", "opened", "pixels"}]
      BY DEF Shape, Typed, ClockTyped, CallTyped, PerClient
    <2>2. /\ pc[t] = "check" /\ then' = Set(then, t, "pixels")
          /\ pc' = Set(pc, t, IF ~good THEN "failed" ELSE IF op[t] = "info" THEN "answered" ELSE "open")
          /\ UNCHANGED <<perFile, global, world, file, op, asked, inp, cand, print, atStart>>
      BY DEF Check
    <2>3. UNCHANGED fresh /\ UNCHANGED <<valid, disk, floor, m_files>>
      BY <2>2 DEF fresh, perFile, global, world
    <2> QED
      BY <2>1, <2>2, <2>3, CheckShape DEF Set
  <1>2. Querying(t) /\ QueryFresh(t) /\ G(t) = "check"
    BY <1>1, QueryHas DEF QueryPcs, LoopPcs
  <1>3. inp[t] = Closed /\ f \in m_files
    BY <1>1, <1>2 DEF QueryFresh, InputPcs
  <1>4. G(t)' = pc'[t] /\ pc'[t] \in {"failed", "answered", "open"}
    BY <1>1 DEF G, Goal
  <1>5. \A g : Sound(g)' = Sound(g) /\ Last(g)' = Last(g)
    BY DEF Sound, Last
  <1>6. pc'[t] # "failed" => valid[f]
    BY <1>1
  <1>7. pc'[t] = "answered" => op[t] = "info"
    BY <1>1
  <1>8. ~Early(t)'
    BY <1>1, <1>4 DEF Early, EarlyPcs
  <1>9. QueryFresh(t)'
    BY <1>1, <1>2, <1>3, <1>4, <1>5, <1>6, <1>7, <1>8 DEF QueryFresh, EarlyPcs
  <1> QED
    BY <1>1, <1>2, <1>9, QueryKeeps

\* Pixels: only what has been read is answered.
LEMMA PixelsFresh ==
    ASSUME Shape, Locked, Heads, Fresh, NEW t \in Clients, Pixels(t)
    PROVE  Fresh'
  <1>1. /\ pc[t] = "pixels" /\ Moves(t)
        /\ pc'[t] = "failed" \/ (pc'[t] = "answered" /\ inp[t] # Closed)
        /\ UNCHANGED fresh
        /\ UNCHANGED <<valid, disk, floor, m_files, op, asked, file, then, inp, cand, print, atStart>>
    BY PixelsShape DEF Pixels, Set, global, world, mine, fresh, Shape, Typed, ClockTyped, PerClient
  <1>2. Querying(t) /\ QueryFresh(t) /\ G(t) = "pixels"
    BY <1>1, QueryHas DEF QueryPcs, LoopPcs
  <1>3. G(t)' = pc'[t]
    BY <1>1 DEF G, Goal
  <1>4. \A g : Sound(g)' = Sound(g) /\ Last(g)' = Last(g)
    BY DEF Sound, Last
  <1>5. ~Early(t)'
    BY <1>1, <1>3 DEF Early, EarlyPcs, OpenPcs, OpenedPcs, SweepPcs
  <1>6. QueryFresh(t)'
    BY <1>1, <1>2, <1>3, <1>4, <1>5 DEF QueryFresh, EarlyPcs, InputPcs
  <1> QED
    BY <1>1, <1>2, <1>6, QueryKeeps

\* Answer ends the query.
LEMMA AnswerFresh ==
    ASSUME Shape, Locked, Fresh, NEW t \in Clients, Answer(t)
    PROVE  Fresh'
  <1>1. /\ pc[t] \in {"answered", "failed"} /\ Moves(t) /\ Done(t)
        /\ UNCHANGED fresh /\ UNCHANGED <<m_files, disk>>
    BY AnswerShape DEF Answer, global, world, perFile, fresh
  <1>2. Querying(t) /\ ~Invalidating(t)
    BY <1>1, QueryHas DEF QueryPcs, LoopPcs
  <1>3. FreshAt(t)' /\ op'[t] = "idle" /\ Keeps(t)
    BY <1>1, DoneFresh DEF Shape, DiskExists, Last
  <1>4. \A p : ~Clearing(t, p)
    BY <1>2, ClearingIs
  <1> QED
    BY <1>1, <1>2, <1>3, <1>4, StillFresh

\* Open returns what is open, or nothing if the file is marked broken.
LEMMA OpenFresh ==
    ASSUME Shape, Locked, Heads, Fresh, NEW t \in Clients, Open(t) \/ OpenLock(t)
    PROVE  Fresh'
  <1> DEFINE f == file[t]
             go == ~broken[f] /\ input[f] = Closed
  <1>1. pc[t] \in {"open", "open lock"} /\ Moves(t)
    BY OpenShape, OpenLockShape DEF Open, OpenLock
  <1>2. /\ UNCHANGED fresh
        /\ UNCHANGED <<valid, disk, floor, m_files, op, asked, file, then, cand, print, atStart>>
    BY DEF Open, OpenLock, global, world, perFile, fresh
  <1>3. Querying(t) /\ QueryFresh(t) /\ G(t) = pc[t] /\ f \in Files /\ then[t] \in {"opened", "pixels"}
    BY <1>1, QueryHas DEF QueryPcs, LoopPcs, OpenPcs, QueryAt
  <1>4. inp[t] = Closed /\ f \in m_files
    BY <1>1, <1>3 DEF QueryFresh, InputPcs
  <1>5. \/ go /\ pc'[t] \in {"limit", "opening"} /\ inp'[t] = Closed
        \/ /\ ~go /\ pc'[t] = then[t]
           /\ inp'[t] = IF then[t] = "pixels" THEN (IF broken[f] THEN Closed ELSE input[f]) ELSE Closed
    <2>1. pc \in PerClient(Places) /\ inp \in PerClient(Versions \union {Closed})
      BY DEF Shape, Typed, ClockTyped, CallTyped
    <2>2. CASE Open(t)
      BY <1>4, <2>1, <2>2 DEF Open, Returns, Set, PerClient
    <2>3. CASE OpenLock(t)
      BY <1>4, <2>1, <2>3 DEF OpenLock, Returns, Set, PerClient
    <2> QED
      BY <2>2, <2>3
  <1>6. G(t)' = pc'[t]
    BY <1>3, <1>5 DEF G, Goal
  <1>7. \A g : Sound(g)' = Sound(g) /\ Last(g)' = Last(g)
    BY DEF Sound, Last
  <1>8. Early(t)' => file[t] = asked[t]
    <2>1. Early(t)' => then[t] # "pixels"
      BY <1>2, <1>5, <1>6 DEF Early, EarlyPcs
    <2> QED
      BY <1>1, <1>3, <2>1 DEF QueryFresh, Early, OpenPcs
  <1>9. inp'[t] # Closed => floor[f] <= inp'[t] /\ inp'[t] <= disk[f]
    BY <1>3, <1>5 DEF Fresh, FreshOf
  <1>10. pc'[t] = "pixels" /\ Sound(f) => inp'[t] # Closed
    BY <1>3, <1>5 DEF Heads, HeadsOf
  <1>11. G(t)' \in EarlyPcs \union {"check"} => then[t] # "pixels"
    BY <1>3, <1>5, <1>6 DEF EarlyPcs
  <1>12. /\ pc'[t] \in {"limit", "opening", "opened", "pixels"}
         /\ inp'[t] # Closed => pc'[t] \in InputPcs
    BY <1>3, <1>5 DEF InputPcs
  <1>13. QueryFresh(t)'
    BY <1>1, <1>2, <1>3, <1>4, <1>7, <1>8, <1>9, <1>10, <1>11, <1>12 DEF QueryFresh
  <1> QED
    BY <1>1, <1>2, <1>3, <1>13, QueryKeeps

\* Opening: a file that is always there is opened as it is now.
LEMMA OpeningFresh ==
    ASSUME Shape, Locked, Heads, Fresh, NEW t \in Clients, Opening(t)
    PROVE  Fresh'
  <1> DEFINE f == file[t]
  <1>1. /\ pc[t] = "opening" /\ Moves(t)
        /\ UNCHANGED <<input, fingerprint, duplicate, mod_time, m_files, fingerprints, disk, floor,
                       op, asked, file, then, cand, print, atStart>>
    BY OpeningShape DEF Opening, world
  <1>2. Querying(t) /\ QueryFresh(t) /\ G(t) = "opening" /\ f \in Files /\ then[t] \in {"opened", "pixels"}
    BY <1>1, QueryHas DEF QueryPcs, OpenedPcs, LoopPcs, QueryAt
  <1>3. inp[t] = Closed /\ f \in m_files
    BY <1>1, <1>2 DEF QueryFresh, InputPcs
  <1>4. FreshOf(f) /\ disk[f] \in 1..Last(f)
    BY <1>2, FileTypes DEF Fresh
  <1>5. /\ pc \in PerClient(Places) /\ inp \in PerClient(Versions \union {Closed})
             /\ valid \in [Files -> BOOLEAN]
    BY DEF Shape, Typed, ClockTyped, CallTyped, FilesTyped, OnFiles
  <1>6. \A g : Sound(g)' = Sound(g) /\ Last(g)' = Last(g)
    BY DEF Sound, Last
  <1>7. \A g \in Files : FreshOf(g)'
    BY <1>1, ShutFresh DEF Fresh
  <1>8. \A g \in Files : g # f => valid'[g] = valid[g]
    BY <1>5 DEF Opening, Set
  <1>9. CASE OnDisk(f) = Missing
    <2>1. ~Sound(f)
      BY <1>4, <1>9 DEF Sound, OnDisk
    <2>2. pc'[t] = then[t] /\ inp'[t] = Closed
      BY <1>5, <1>9 DEF Opening, Returns, Set, PerClient
    <2>3. G(t)' = pc'[t]
      BY <1>2, <2>2 DEF G, Goal
    <2>4. \A g \in Files : Sound(g) => valid'[g] = valid[g]
      BY <1>8, <2>1
    <2>5. asked[t] \in Files
      BY <1>1, QueryHas DEF QueryAt, QueryPcs, OpenedPcs, LoopPcs
    <2>6. Early(t)' => file[t] = asked[t]
      BY <1>1, <1>2, <2>2, <2>3 DEF QueryFresh, Early, EarlyPcs, OpenedPcs
    <2>7. /\ pc'[t] \in {"opened", "pixels"}
          /\ G(t)' \in EarlyPcs \union {"check"} => then[t] # "pixels"
      BY <1>2, <2>2, <2>3 DEF EarlyPcs
    <2>8. QueryFresh(t)'
      BY <1>1, <1>2, <1>3, <1>6, <2>1, <2>2, <2>3, <2>4, <2>5, <2>6, <2>7 DEF QueryFresh
    <2>9. \A p \in Prints : Entered(p)'
      BY <1>1, <1>2, <2>4, EnteredStays DEF Shape, Typed, GlobalTyped
    <2> QED
      BY <1>1, <1>2, <1>7, <2>4, <2>8, <2>9, QueryChanges
  <1>10. CASE OnDisk(f) # Missing
    <2>1. /\ UNCHANGED valid /\ inp'[t] = disk[f]
          /\ pc'[t] = IF valid[f] THEN "publish" ELSE "headers"
      BY <1>5, <1>10 DEF Opening, Set, PerClient
    <2>2. G(t)' = pc'[t] /\ pc'[t] \in {"publish", "headers"}
      BY <2>1 DEF G, Goal
    <2>3. Early(t)' => file[t] = asked[t]
      BY <1>1, <1>2, <2>2 DEF QueryFresh, Early, EarlyPcs, OpenedPcs
    <2>4. mod_time[f] <= disk[f] /\ floor[f] <= disk[f] /\ disk[f] <= disk[f]
      BY <1>2, <1>4, FileTypes DEF FreshOf
    <2>5. G(t)' \notin EarlyPcs \union {"check"} /\ pc'[t] \in InputPcs
      BY <2>2 DEF EarlyPcs, InputPcs
    <2>6. QueryFresh(t)'
      BY <1>1, <1>2, <1>3, <1>6, <2>1, <2>2, <2>3, <2>4, <2>5 DEF QueryFresh
    <2> QED
      BY <1>1, <1>2, <2>1, <2>6, QueryKeeps DEF fresh
  <1> QED
    BY <1>9, <1>10

\* Headers: the file is as it was opened when its time is read, and nothing
\* was entered for it since it had no headers.
LEMMA HeadersFresh ==
    ASSUME Shape, Locked, Heads, Fresh, NEW t \in Clients, Headers(t)
    PROVE  Fresh'
  <1> DEFINE f == file[t]
  <1>1. /\ pc[t] = "headers" /\ Moves(t) /\ pc' = Set(pc, t, "publish")
        /\ valid' = Set(valid, f, TRUE) /\ mod_time' = Set(mod_time, f, disk[f])
        /\ fingerprint' = Set(fingerprint, f, Content[f][inp[t]])
        /\ UNCHANGED <<input, duplicate, m_files, fingerprints, disk, floor,
                       op, asked, file, then, inp, cand, print, atStart>>
    BY HeadersShape DEF Headers, Goto, world, mine
  <1>2. /\ Querying(t) /\ QueryFresh(t) /\ G(t) = "headers" /\ f \in Files /\ inp[t] # Closed
        /\ Content[f][inp[t]] \in Prints
    BY <1>1, QueryHas DEF QueryPcs, OpenedPcs, LoopPcs, QueryAt
  <1>3. inp[t] = disk[f] /\ f \in m_files
    BY <1>1, <1>2 DEF QueryFresh
  <1>4. ~valid[f] /\ duplicate[f] = None
    BY <1>2 DEF Heads, HeadsAt, Cleared
  <1>5. input[f] = Closed /\ Holds(t) = f
    <2>1. Holds(t) = f
      BY <1>2, HeldFile DEF HeadPcs, HoldPcs, OpenedPcs
    <2> QED
      BY <1>1, <2>1 DEF Locked, Opens, OpenedPcs
  <1>6. /\ valid \in [Files -> BOOLEAN] /\ pc'[t] = "publish"
        /\ mod_time \in [Files -> Versions \union {Closed}]
        /\ fingerprint \in [Files -> Prints \union {None}]
    BY <1>1 DEF Shape, Typed, FilesTyped, OnFiles, ClockTyped, PerClient, Set
  <1>7. \A g : Sound(g)' = Sound(g) /\ Last(g)' = Last(g)
    BY DEF Sound, Last
  <1>8. \A g \in Files : g = f \/ (valid'[g] = valid[g] /\ mod_time'[g] = mod_time[g]
          /\ fingerprint'[g] = fingerprint[g])
    BY <1>1, <1>6 DEF Set
  <1>9. valid'[f] /\ mod_time'[f] = disk[f] /\ fingerprint'[f] = Content[f][disk[f]]
    BY <1>1, <1>2, <1>3, <1>6 DEF Set
  <1>10. floor[f] <= disk[f] /\ disk[f] <= disk[f]
    BY <1>2, FileTypes DEF Fresh, FreshOf
  <1>11. ASSUME NEW g \in Files PROVE FreshOf(g)'
    <2>1. FreshOf(g)
      BY DEF Fresh
    <2> QED
      BY <1>1, <1>3, <1>4, <1>5, <1>7, <1>8, <1>9, <1>10, <2>1 DEF FreshOf
  <1>12. \A p \in Prints : Entered(p)'
    <2>1. SUFFICES ASSUME NEW p \in Prints, fingerprints[p] # None PROVE Entered(p)'
      BY <1>1 DEF Entered
    <2> DEFINE d == fingerprints[p]
    <2>2. /\ d \in m_files /\ d \in Files /\ (Last(d) = 1 => p = Content[d][1])
          /\ Sound(d) => valid[d] /\ fingerprint[d] = p
      BY <1>2, <2>1, EnteredNow
    <2>3. Sound(d) => valid'[d] /\ fingerprint'[d] = p
      BY <1>4, <1>8, <2>2
    <2> QED
      BY <1>1, <1>7, <2>2, <2>3 DEF Entered
  <1>13. G(t)' = "publish"
    BY <1>6 DEF G, Goal
  <1>14. Early(t)' => file[t] = asked[t]
    BY <1>1, <1>2, <1>13 DEF QueryFresh, Early, EarlyPcs, OpenedPcs
  <1>15. asked[t] \in Files
    BY <1>1, QueryHas DEF QueryAt, QueryPcs, OpenedPcs, LoopPcs
  <1>16. \A g \in Files : valid[g] => valid'[g]
    BY <1>8, <1>9
  <1>17. G(t)' \notin EarlyPcs \union {"check"} /\ pc'[t] \in InputPcs
    BY <1>6, <1>13 DEF EarlyPcs, InputPcs
  <1>18. QueryFresh(t)'
    BY <1>1, <1>2, <1>3, <1>6, <1>7, <1>9, <1>10, <1>13, <1>14, <1>15, <1>16, <1>17 DEF QueryFresh
  <1> QED
    BY <1>1, <1>2, <1>5, <1>8, <1>11, <1>12, <1>16, <1>18, QueryChanges

\* Publish: what is open is no older than what was invalidated away.
LEMMA PublishFresh ==
    ASSUME Shape, Locked, Heads, Fresh, NEW t \in Clients, Publish(t)
    PROVE  Fresh'
  <1> DEFINE f == file[t]
  <1>1. /\ pc[t] = "publish" /\ Moves(t) /\ input' = Set(input, f, inp[t]) /\ Returns(t, inp[t])
        /\ UNCHANGED <<valid, fingerprint, duplicate, mod_time, m_files, fingerprints, disk, floor,
                       op, asked, file, then, cand, print, atStart>>
    BY PublishShape DEF Publish, world
  <1>2. /\ Querying(t) /\ QueryFresh(t) /\ G(t) = "publish" /\ f \in Files /\ inp[t] # Closed
        /\ then[t] \in {"opened", "pixels"}
    BY <1>1, QueryHas DEF QueryPcs, OpenedPcs, LoopPcs, QueryAt
  <1>3. /\ floor[f] <= inp[t] /\ inp[t] <= disk[f] /\ mod_time[f] <= inp[t] /\ f \in m_files
    BY <1>1, <1>2 DEF QueryFresh
  <1>4. /\ pc'[t] = then[t] /\ inp'[t] = (IF then[t] = "pixels" THEN inp[t] ELSE Closed)
        /\ input \in [Files -> Versions \union {Closed}]
    BY <1>1 DEF Returns, Set, Shape, Typed, ClockTyped, CallTyped, FilesTyped, OnFiles, PerClient
  <1>5. \A g : Sound(g)' = Sound(g) /\ Last(g)' = Last(g)
    BY DEF Sound, Last
  <1>6. ASSUME NEW g \in Files PROVE FreshOf(g)'
    <2>1. FreshOf(g)
      BY DEF Fresh
    <2>2. input'[g] = IF g = f THEN inp[t] ELSE input[g]
      BY <1>1, <1>4 DEF Set
    <2> QED
      BY <1>1, <1>3, <1>5, <2>1, <2>2 DEF FreshOf
  <1>7. \A p \in Prints : Entered(p)'
    BY <1>1, <1>2, EnteredStays
  <1>8. G(t)' = pc'[t] /\ pc'[t] \in {"opened", "pixels"}
    BY <1>2, <1>4 DEF G, Goal
  <1>9. Early(t)' => file[t] = asked[t]
    BY <1>1, <1>2, <1>4, <1>8 DEF QueryFresh, Early, EarlyPcs, OpenedPcs, OpenPcs, SweepPcs
  <1>10. /\ G(t)' \in EarlyPcs \union {"check"} => then[t] # "pixels"
         /\ inp'[t] # Closed => pc'[t] \in InputPcs
         /\ pc'[t] = "pixels" => inp'[t] # Closed
    BY <1>2, <1>4, <1>8 DEF EarlyPcs, InputPcs
  <1>11. QueryFresh(t)'
    BY <1>1, <1>2, <1>3, <1>4, <1>5, <1>8, <1>9, <1>10 DEF QueryFresh
  <1> QED
    BY <1>1, <1>2, <1>6, <1>7, <1>11, QueryChanges
-----------------------------------------------------------------------------
\* What an invalidation is told by Fresh, and where it is.
LEMMA ClearHas ==
    ASSUME Shape, Fresh, NEW t \in Clients, Invalidating(t)
    PROVE  OtherAt(t) /\ ~Querying(t) /\ ClearFresh(t)
  <1>1. op[t] \in Ops \ Queries
    BY OneKind, LocalTypes DEF Ops, Queries
  <1> QED
    BY <1>1, OneKind, OtherFits DEF Fresh, FreshAt

\* A call that is no query, and closes files at most, keeps Fresh if it keeps
\* what it knows.
LEMMA LoopKeeps ==
    ASSUME Shape, Locked, Fresh, NEW t \in Clients, ~Querying(t), Moves(t), Keeps(t),
           UNCHANGED <<op, inp, then, atStart>>,
           UNCHANGED <<valid, fingerprint, duplicate, mod_time, m_files, fingerprints, disk, floor>>,
           \A f \in Files : input'[f] \in {input[f], Closed},
           \A p : Clearing(t, p) => Clearing(t, p)', Invalidating(t) => ClearFresh(t)'
    PROVE  Fresh'
  <1>1. Careful(t)
    BY DEF Careful
  <1>2. Querying(t)' = Querying(t) /\ Invalidating(t)' = Invalidating(t)
    BY DEF Querying, Invalidating
  <1>3. FreshAt(t)'
    BY <1>2 DEF Fresh, FreshAt
  <1>4. \A f \in Files : FreshOf(f)'
    BY ShutFresh
  <1>5. ASSUME NEW p \in Prints PROVE Entered(p)'
    <2>1. \A g : Sound(g)' = Sound(g) /\ Last(g)' = Last(g)
      BY DEF Sound, Last
    <2>2. \A u \in Clients \ {t} : Clearing(u, p)' = Clearing(u, p)
      BY OthersClearing
    <2>3. \A u \in Clients : Clearing(u, p) => Clearing(u, p)'
      BY <2>2
    <2> QED
      BY <2>1, <2>3 DEF Fresh, Entered
  <1> QED
    BY <1>1, <1>3, <1>4, <1>5, KeepFresh

\* Lower goes on to where it was told.
LEMMA LowerFresh ==
    ASSUME Shape, Locked, Fresh, NEW t \in Clients, Lower(t)
    PROVE  Fresh'
  <1>1. /\ pc[t] = "lower" /\ pc'[t] = after[t] /\ Moves(t) /\ UNCHANGED fresh
        /\ UNCHANGED <<valid, m_files, disk, floor, input, fingerprint, duplicate, mod_time, fingerprints,
                       op, asked, file, then, inp, cand, print, atStart, key, bin, todo>>
    BY LowerShape DEF Lower, Goto, Set, perFile, world, clock, fresh, Shape, Typed, ClockTyped, PerClient
  <1>2. G(t) = after[t] /\ G(t)' = G(t) /\ after[t] \in {"unlock", "step", "clear spec"}
    BY <1>1, Fit DEF Shape, FitsAt, G, Goal
  <1>3. \A p : Clearing(t, p) => Clearing(t, p)'
    BY <1>1 DEF Clearing
  <1>4. Keeps(t) /\ \A f \in Files : input'[f] \in {input[f], Closed}
    BY <1>1 DEF Keeps
  <1>5. CASE Querying(t) /\ after[t] = "step"
    <2>1. QueryFresh(t)'
      BY <1>1, <1>2, <1>5, OpenMoves DEF local, OpenPcs, SweepPcs
    <2> QED
      BY <1>1, <1>5, <2>1, QueryKeeps
  <1>6. CASE Querying(t) /\ after[t] = "unlock"
    <2>1. QueryFresh(t)
      BY <1>6 DEF Fresh, FreshAt
    <2>2. \A g : Sound(g)' = Sound(g) /\ Last(g)' = Last(g)
      BY DEF Sound, Last
    <2>3. file[t] \in m_files /\ inp[t] = Closed
      BY <1>1, <2>1 DEF QueryFresh, InputPcs
    <2>4. QueryFresh(t)'
      BY <1>1, <1>2, <1>6, <2>1, <2>2, <2>3 DEF QueryFresh, Early, EarlyPcs
    <2> QED
      BY <1>1, <1>6, <2>4, QueryKeeps
  <1>7. CASE ~Querying(t)
    <2>1. Invalidating(t) => ClearFresh(t)'
      <3> SUFFICES ASSUME Invalidating(t) PROVE ClearFresh(t)'
        OBVIOUS
      <3>1. ClearFresh(t) /\ G(t) = "clear spec"
        BY <1>1, ClearHas DEF ClearFresh
      <3>2. Behind(t)' = Behind(t) /\ Pending(t)' = Pending(t) /\ Target(t)' = Target(t)
        BY <1>1, <1>2, <3>1 DEF Behind, Pending, Target, Ahead
      <3>3. \A f : Handled(t, f)' = Handled(t, f)
        BY <1>1 DEF Handled
      <3> QED
        BY <1>1, <1>2, <3>1, <3>2, <3>3 DEF ClearFresh
    <2> QED
      BY <1>1, <1>3, <1>4, <1>7, <2>1, LoopKeeps
  <1>8. CASE Querying(t) /\ after[t] = "clear spec"
    <2>1. op[t] \in Queries
      BY <1>8 DEF Querying
    <2> QED
      BY <1>2, <1>8, <2>1, Fit DEF Shape, FitsAt, G, QueryPcs, OpenPcs, OpenedPcs, SweepPcs
  <1> QED
    BY <1>2, <1>5, <1>6, <1>7, <1>8

\* Release: a sweep closes files.
LEMMA ReleaseFresh ==
    ASSUME Shape, Locked, Fresh, NEW t \in Clients, Release(t)
    PROVE  Fresh'
  <1>1. /\ pc[t] = "release" /\ Moves(t)
        /\ UNCHANGED <<valid, fingerprint, duplicate, mod_time, m_files, fingerprints, disk, floor,
                       op, asked, file, then, inp, cand, print, atStart>>
    BY ReleaseShape DEF Release, global, world
  <1>2. Querying(t) /\ G(t) \in OpenPcs /\ key[t] \in Files
    BY <1>1, QueryHas, LocalTypes DEF QueryPcs, OpenPcs, SweepPcs, LoopPcs, QueryAt, MaybeFile
  <1>3. G(t)' = "step" /\ \A f \in Files : input'[f] \in {input[f], Closed}
    <2>1. CASE Shut(t, key[t], "step")
      <3>1. G(t)' = "step"
        BY <1>2, <2>1, ShutGoes DEF G, Goal, Places
      <3> QED
        BY <2>1, <3>1 DEF Set, Shut, Shape, Typed, FilesTyped, OnFiles
    <2>2. CASE pc' = Set(pc, t, "step") /\ UNCHANGED input
      BY <2>2 DEF Set, PerClient, G, Goal, Shape, Typed, ClockTyped
    <2> QED
      BY <2>1, <2>2 DEF Release
  <1>4. QueryFresh(t)'
    BY <1>1, <1>2, <1>3, OpenMoves DEF local, OpenPcs, SweepPcs
  <1>5. \A f \in Files : FreshOf(f)'
    BY <1>1, <1>3, ShutFresh
  <1>6. \A p \in Prints : Entered(p)'
    BY <1>1, <1>2, EnteredStays
  <1> QED
    BY <1>1, <1>2, <1>4, <1>5, <1>6, QueryChanges

\* An iterator passes over nothing.
LEMMA EnterFresh ==
    ASSUME Shape, Locked, Fresh, NEW t \in Clients, Enter(t)
    PROVE  Fresh'
  <1> DEFINE b == bin[t]
             k == IF InBin(b) # {} THEN Min(InBin(b)) ELSE None
             on == k = None /\ b < NBins
  <1>1. /\ pc[t] \in {"begin", "next"} /\ Moves(t) /\ UNCHANGED fresh
        /\ UNCHANGED <<valid, m_files, disk, floor, input, fingerprint, duplicate, mod_time, fingerprints,
                       op, asked, file, then, after, inp, cand, print, atStart, todo>>
        /\ key' = Set(key, t, k) /\ bin' = Set(bin, t, IF on THEN b + 1 ELSE 0)
        /\ pc' = Set(pc, t, IF on THEN pc[t] ELSE Goes(t, k))
    BY EnterShape DEF Enter, perFile, world, mine, fresh
  <1>2. /\ key'[t] = k /\ bin'[t] = (IF on THEN b + 1 ELSE 0) /\ pc'[t] = (IF on THEN pc[t] ELSE Goes(t, k))
    BY <1>1 DEF Set, Shape, Typed, ClockTyped, PerClient
  <1>3. CASE Querying(t)
    <2>1. pc'[t] \in {"begin", "next", "sweep", "save name", "release"}
      BY <1>1, <1>2, <1>3 DEF Goes
    <2>2. G(t) \in OpenPcs /\ G(t)' \in OpenPcs
      BY <1>1, <2>1 DEF G, Goal, OpenPcs, SweepPcs
    <2>3. QueryFresh(t)'
      BY <1>1, <1>3, <2>2, OpenMoves DEF local
    <2> QED
      BY <1>1, <1>3, <2>3, QueryKeeps
  <1>4. CASE ~Querying(t)
    <2>1. pc'[t] = IF on THEN pc[t] ELSE "visit"
      BY <1>2, <1>4 DEF Goes
    <2>2. G(t)' = pc'[t] /\ pc'[t] \in {"begin", "next", "visit"}
      BY <1>1, <2>1 DEF G, Goal
    <2>3. Invalidating(t) => ClearFresh(t)'
      <3> SUFFICES ASSUME Invalidating(t) PROVE ClearFresh(t)'
        OBVIOUS
      <3>1. ClearFresh(t) /\ b \in Bins
        BY <1>1, ClearHas DEF OtherAt
      <3>2. Behind(t) = {f \in m_files : BinOf[f] < b}
        BY <1>1 DEF Behind, G, Goal, ClearPcs
      <3>3. \A f \in m_files : BinOf[f] \in Nat /\ BinOf[f] <= NBins /\ f \in Nat /\ f \in Files
        BY Names DEF Shape, Typed, GlobalTyped, Bins
      <3>4. b \in Nat /\ NBins \in Nat /\ b <= NBins
        BY <3>1, Names DEF Bins
      <3>5. InBin(b) \in SUBSET Nat /\ InBin(b) \subseteq m_files
              /\ \A f \in m_files : BinOf[f] = b <=> f \in InBin(b)
        BY <3>3 DEF InBin
      <3>6. Behind(t)' = Behind(t)
        <4>1. CASE on
          <5>1. InBin(b) = {} /\ bin'[t] = b + 1
            BY <1>2, <3>3, <3>5, <4>1, MinOf, Names
          <5>2. Behind(t)' = {f \in m_files : BinOf[f] < b + 1}
            BY <1>1, <2>1, <2>2, <4>1, <5>1 DEF Behind, ClearPcs
          <5>3. \A f \in m_files : BinOf[f] < b + 1 <=> BinOf[f] < b
            BY <3>3, <3>4, <3>5, <5>1
          <5> QED
            BY <3>2, <5>2, <5>3
        <4>2. CASE ~on /\ InBin(b) = {}
          <5>1. key'[t] = None /\ b = NBins
            BY <1>2, <3>4, <4>2
          <5>2. Behind(t)' = m_files
            BY <1>1, <2>1, <2>2, <4>2, <5>1 DEF Behind, ClearPcs
          <5>3. \A f \in m_files : BinOf[f] < b
            BY <3>3, <3>4, <3>5, <4>2, <5>1
          <5> QED
            BY <3>2, <5>2, <5>3
        <4>3. CASE ~on /\ InBin(b) # {}
          <5>1. key'[t] = Min(InBin(b)) /\ Min(InBin(b)) \in InBin(b) /\ \A f \in InBin(b) : Min(InBin(b)) <= f
            BY <1>2, <3>5, <4>3, MinOf
          <5> DEFINE m == Min(InBin(b))
          <5>2. m # None /\ BinOf[m] = b /\ m \in Nat
            BY <3>3, <3>5, <5>1, Names
          <5> HIDE DEF m
          <5>3. Behind(t)' = {f \in m_files : Ahead(f, m)}
            BY <1>1, <2>1, <2>2, <4>3, <5>1, <5>2 DEF Behind, ClearPcs, m, Ahead
          <5>4. \A f \in m_files : Ahead(f, m) <=> BinOf[f] < b
            BY <3>3, <3>4, <3>5, <5>1, <5>2 DEF Ahead, m
          <5> QED
            BY <3>2, <5>3, <5>4
        <4> QED
          BY <4>1, <4>2, <4>3
      <3>7. Pending(t)' = Pending(t) /\ \A f : Handled(t, f)' = Handled(t, f)
        BY <1>1 DEF Pending, Handled
      <3>8. pc'[t] \notin {"begin", "next"} => bin'[t] = 0
        BY <1>1, <1>2, <2>1
      <3> QED
        BY <1>1, <2>2, <3>1, <3>6, <3>7, <3>8 DEF ClearFresh
    <2>4. \A p : Clearing(t, p) => Clearing(t, p)'
      BY <1>1 DEF Clearing
    <2>5. Keeps(t) /\ \A f \in Files : input'[f] \in {input[f], Closed}
      BY <1>1 DEF Keeps
    <2> QED
      BY <1>1, <1>4, <2>3, <2>4, <2>5, LoopKeeps
  <1> QED
    BY <1>3, <1>4

\* Steps that end a call that is no invalidation, or invalidates nothing.
LEMMA EndsFresh ==
    ASSUME Shape, Locked, Fresh, NEW t \in Clients, Moves(t), Done(t), UNCHANGED fresh, UNCHANGED m_files,
           \A p : ~Clearing(t, p)
    PROVE  Fresh'
  <1>1. DiskExists'
    BY DEF Shape, DiskExists, fresh, Last
  <1>2. FreshAt(t)' /\ op'[t] = "idle" /\ Keeps(t)
    BY <1>1, DoneFresh
  <1> QED
    BY <1>2, StillFresh

\* Nor does it when it goes on.
LEMMA StepOnFresh ==
    ASSUME Shape, Locked, Fresh, NEW t \in Clients, StepOn(t)
    PROVE  Fresh'
  <1> DEFINE k == key[t]
             b == BinOf[k]
             rest == {f \in InBin(b) : f > k}
  <1>1. /\ pc[t] = "step" /\ Moves(t) /\ UNCHANGED fresh
        /\ UNCHANGED <<valid, m_files, disk, floor, input, fingerprint, duplicate, mod_time, fingerprints>>
    BY StepOnShape DEF StepOn, perFile, world, fresh
  <1>2. CASE op[t] = "close"
    <2>1. Done(t)
      BY <1>2 DEF StepOn
    <2>2. \A p : ~Clearing(t, p)
      BY <1>2, ClearingIs, OneKind
    <2> QED
      BY <1>1, <2>1, <2>2, EndsFresh
  <1>3. CASE op[t] # "close"
    <2>1. /\ UNCHANGED <<op, asked, file, then, after, inp, cand, print, atStart, todo>>
          /\ pc'[t] = IF bin'[t] # 0 THEN "next" ELSE Goes(t, key'[t])
      BY <1>3 DEF StepOn, mine, Set, Shape, Typed, ClockTyped, PerClient
    <2>2. CASE Querying(t)
      <3>1. pc'[t] \in {"next", "sweep"}
        BY <1>1, <2>1, <2>2 DEF Goes
      <3>2. G(t) \in OpenPcs /\ G(t)' \in OpenPcs
        BY <1>1, <3>1 DEF G, Goal, OpenPcs, SweepPcs
      <3>3. QueryFresh(t)'
        BY <1>1, <2>1, <2>2, <3>2, OpenMoves DEF local
      <3> QED
        BY <1>1, <2>1, <2>2, <3>3, QueryKeeps
    <2>3. CASE ~Querying(t)
      <3>1. pc'[t] = IF bin'[t] # 0 THEN "next" ELSE "visit"
        BY <2>1, <2>3 DEF Goes
      <3>2. Invalidating(t) => ClearFresh(t)'
        <4> SUFFICES ASSUME Invalidating(t) PROVE ClearFresh(t)'
          OBVIOUS
        <4>1. ClearFresh(t) /\ k # None /\ bin[t] = 0
          BY <1>1, ClearHas DEF OtherAt, ClearFresh, G, Goal
        <4>2. k \in Files
          BY <4>1, LocalTypes DEF MaybeFile
        <4>3. Behind(t) = {f \in m_files : Ahead(f, k) \/ f = k}
          BY <1>1, <4>1 DEF Behind, G, Goal, ClearPcs
        <4>4. \A f \in m_files : BinOf[f] \in Nat /\ BinOf[f] <= NBins /\ f \in Nat
          BY Names DEF Shape, Typed, GlobalTyped, Bins
        <4>5. b \in Nat \ {0} /\ NBins \in Nat /\ b <= NBins /\ k \in Nat
          <5>1. b \in Bins /\ NBins \in Nat /\ k \in Nat
            BY <4>2, Names
          <5> QED
            BY <5>1 DEF Bins
        <4>6. /\ rest \in SUBSET Nat /\ rest \subseteq m_files
              /\ \A f \in m_files : f \in rest <=> BinOf[f] = b /\ f > k
          BY <4>4 DEF InBin
        <4> HIDE DEF b, rest
        <4>7. G(t)' = pc'[t] /\ pc'[t] \in {"next", "visit"}
          BY <3>1 DEF G, Goal
        <4>8. key \in PerClient(MaybeFile) /\ bin \in PerClient(0..NBins)
          BY DEF Shape, Typed, ClockTyped
        <4>9. Behind(t)' = Behind(t) /\ (pc'[t] \notin {"begin", "next"} => bin'[t] = 0)
          <5>1. CASE rest # {}
            <6> DEFINE m == Min(rest)
            <6>1. key'[t] = m /\ bin'[t] = 0
              BY <1>3, <4>1, <4>8, <5>1 DEF StepOn, Set, PerClient, b, rest
            <6>2. m \in rest /\ \A f \in rest : m <= f
              BY <4>6, <5>1, MinOf
            <6> HIDE DEF m
            <6>3. m # None /\ BinOf[m] = b /\ m \in Nat /\ m > k
              <7>1. m \in m_files /\ m \in Nat /\ m \in Files
                BY <4>4, <4>6, <6>2 DEF Shape, Typed, GlobalTyped
              <7> QED
                BY <4>6, <6>2, <7>1, Names
            <6>4. Behind(t)' = {f \in m_files : Ahead(f, m)}
              BY <1>1, <3>1, <4>7, <6>1, <6>3 DEF Behind, ClearPcs, Ahead
            <6>5. \A f \in m_files : Ahead(f, m) <=> Ahead(f, k) \/ f = k
              BY <4>4, <4>5, <4>6, <6>2, <6>3 DEF Ahead, b
            <6> QED
              BY <4>3, <6>1, <6>4, <6>5
          <5>2. CASE rest = {}
            <6>1. key'[t] = None /\ bin'[t] = (IF b < NBins THEN b + 1 ELSE 0)
              BY <1>3, <4>8, <5>2 DEF StepOn, Set, PerClient, b, rest
            <6>2. Behind(t)' = {f \in m_files : b < NBins => BinOf[f] < b + 1}
              <7>1. CASE b < NBins
                <8>1. bin'[t] = b + 1 /\ pc'[t] = "next"
                  BY <3>1, <4>5, <6>1, <7>1
                <8> QED
                  BY <1>1, <4>7, <7>1, <8>1 DEF Behind, ClearPcs
              <7>2. CASE ~(b < NBins)
                <8>1. pc'[t] = "visit"
                  BY <3>1, <6>1, <7>2
                <8> QED
                  BY <1>1, <4>7, <6>1, <7>2, <8>1 DEF Behind, ClearPcs
              <7> QED
                BY <7>1, <7>2
            <6>3. \A f \in m_files : (b < NBins => BinOf[f] < b + 1) <=> Ahead(f, k) \/ f = k
              BY <4>4, <4>5, <4>6, <5>2 DEF Ahead, b
            <6>4. pc'[t] \notin {"begin", "next"} => bin'[t] = 0
              BY <3>1
            <6> QED
              BY <4>3, <6>2, <6>3, <6>4
          <5> QED
            BY <5>1, <5>2
        <4>10. Pending(t)' = Pending(t) /\ \A f : Handled(t, f)' = Handled(t, f)
          BY <1>1, <2>1 DEF Pending, Handled
        <4> QED
          BY <1>1, <2>1, <4>1, <4>7, <4>9, <4>10 DEF ClearFresh
      <3>3. \A p : Clearing(t, p) => Clearing(t, p)'
        BY <1>1, <2>1 DEF Clearing
      <3>4. Keeps(t) /\ \A f \in Files : input'[f] \in {input[f], Closed}
        BY <1>1, <2>1 DEF Keeps
      <3> QED
        BY <1>1, <2>1, <2>3, <3>2, <3>3, <3>4, LoopKeeps
    <2> QED
      BY <2>2, <2>3
  <1> QED
    BY <1>2, <1>3

\* Find: a query makes an entry, the others look for one.
LEMMA FindFresh ==
    ASSUME Shape, Locked, Fresh, NEW t \in Clients, Find(t)
    PROVE  Fresh'
  <1> DEFINE f == asked[t]
  <1>1. /\ pc[t] = "find" /\ Moves(t) /\ UNCHANGED fresh
        /\ UNCHANGED <<valid, disk, floor, input, fingerprint, duplicate, mod_time, fingerprints, bin>>
    BY FindShape DEF Find, perFile, world, fresh
  <1>2. CASE ~(Querying(t) \/ f \in m_files)
    <2>1. Done(t) /\ UNCHANGED m_files
      BY <1>2 DEF Find
    <2>2. \A p : ~Clearing(t, p)
      <3>1. op[t] # "invalidate all"
        BY <1>1, ClearHas, OneKind DEF OtherAt
      <3> QED
        BY <1>1, <3>1 DEF Clearing
    <2> QED
      BY <1>1, <2>1, <2>2, EndsFresh
  <1>3. CASE Querying(t) \/ f \in m_files
    <2>1. /\ UNCHANGED <<file, op, asked, then, after, inp, cand, print, atStart>>
          /\ m_files' = m_files \union {f}
          /\ pc'[t] = IF Querying(t) THEN "verify"
                      ELSE IF op[t] = "close" THEN "visit"
                      ELSE IF op[t] = "refresh" THEN "check time" ELSE "invalidate"
      BY <1>3 DEF Find, Set, Shape, Typed, ClockTyped, PerClient
    <2>2. G(t)' = pc'[t]
      BY <2>1 DEF G, Goal
    <2>3. CASE Querying(t)
      <3>1. QueryFresh(t) /\ G(t) = "find"
        BY <1>1, <2>3 DEF Fresh, FreshAt, G, Goal
      <3>2. \A g : Sound(g)' = Sound(g) /\ Last(g)' = Last(g)
        BY DEF Sound, Last
      <3>3. file[t] = f /\ inp[t] = Closed /\ then[t] # "pixels"
        BY <1>1, <3>1 DEF QueryFresh, Early, EarlyPcs, InputPcs
      <3>4. pc'[t] = "verify"
        BY <2>1, <2>3
      <3>5. QueryFresh(t)'
        BY <1>1, <2>1, <2>2, <2>3, <3>1, <3>2, <3>3, <3>4 DEF QueryFresh, InputPcs
      <3> QED
        BY <1>1, <2>1, <2>3, <3>5, QueryKeeps
    <2>4. CASE ~Querying(t)
      <3>1. m_files' = m_files
        BY <1>3, <2>1, <2>4
      <3>2. Invalidating(t) => ClearFresh(t)'
        <4> SUFFICES ASSUME Invalidating(t) PROVE ClearFresh(t)'
          OBVIOUS
        <4>1. op[t] \notin {"invalidate all", "refresh all"} /\ bin[t] = 0
          BY <1>1, ClearHas DEF OtherAt, ClearFresh
        <4>2. pc'[t] \in {"visit", "check time", "invalidate"}
          BY <2>1, <2>4
        <4> QED
          BY <1>1, <2>1, <2>2, <4>1, <4>2 DEF ClearFresh
      <3>3. \A p : Clearing(t, p) => Clearing(t, p)'
        BY <1>1, <2>1 DEF Clearing
      <3>4. Keeps(t) /\ \A g \in Files : input'[g] \in {input[g], Closed}
        BY <1>1, <2>1 DEF Keeps
      <3> QED
        BY <1>1, <2>1, <2>4, <3>1, <3>2, <3>3, <3>4, LoopKeeps
    <2> QED
      BY <2>3, <2>4
  <1> QED
    BY <1>2, <1>3

\* Only an invalidation that is alone clears anything.
LEMMA OnlyOne ==
    ASSUME Shape, Alone, NEW t \in Clients, Invalidating(t), NEW p, NEW u \in Clients, Clearing(u, p)
    PROVE  u = t
  BY ClearingIs DEF Alone

\* The time that Stale goes by is no earlier than the invalidation.
LEMMA NotStale ==
    ASSUME Shape, Fresh, NEW t \in Clients, NEW f \in Files, ~Stale(f)
    PROVE  Handled(t, f)
  BY DEF Fresh, FreshAt, Handled, Stale

\* Visit: who keeps a file leaves it as of now, or for later.
LEMMA VisitFresh ==
    ASSUME Shape, Locked, Fresh, NEW t \in Clients, Visit(t)
    PROVE  Fresh'
  <1> DEFINE k == key[t]
  <1>1. /\ pc[t] = "visit" /\ k # None /\ k \in Files /\ Moves(t)
        /\ UNCHANGED <<valid, fingerprint, duplicate, mod_time, m_files, fingerprints, disk, floor,
                       file, op, asked, then, inp, cand, print, atStart, key, bin>>
    BY VisitShape, LocalTypes DEF Visit, world, global, clock, MaybeFile
  <1>2. op[t] \in {"close", "close all", "invalidate all", "refresh all"} /\ ~Querying(t)
    BY OneKind DEF Visit
  <1>3. /\ \/ op[t] \in {"close", "close all"} /\ G(t)' = "step" /\ pc'[t] \in {"lower", "step"}
           \/ op[t] = "invalidate all" /\ G(t)' = "clear spec" /\ pc'[t] \in {"lower", "clear spec"}
           \/ /\ op[t] = "refresh all" /\ pc'[t] = "step" /\ UNCHANGED input
              /\ todo'[t] = todo[t] \union (IF Stale(k) \/ OnDisk(k) = Missing THEN {k} ELSE {})
        /\ \A f \in Files : input'[f] \in {input[f], Closed}
    <2>1. \A to \in {"step", "clear spec"} : Shut(t, k, to) =>
              G(t)' = to /\ pc'[t] \in {"lower", to} /\ \A f \in Files : input'[f] \in {input[f], Closed}
      <3> SUFFICES ASSUME NEW to \in {"step", "clear spec"}, Shut(t, k, to)
                   PROVE  G(t)' = to /\ pc'[t] \in {"lower", to}
                            /\ \A f \in Files : input'[f] \in {input[f], Closed}
        OBVIOUS
      <3>1. to \in Places /\ to # "lower"
        BY DEF Places
      <3>2. pc'[t] = to \/ (pc'[t] = "lower" /\ after'[t] = to)
        BY <1>1, <3>1, ShutGoes
      <3>3. G(t)' = to /\ pc'[t] \in {"lower", to}
        BY <3>1, <3>2 DEF G, Goal
      <3> QED
        BY <3>3 DEF Set, Shut, Shape, Typed, FilesTyped, OnFiles
    <2>2. CASE op[t] \in {"close", "close all"}
      BY <2>1, <2>2 DEF Visit
    <2>3. CASE op[t] = "invalidate all"
      BY <2>1, <2>3 DEF Visit
    <2>4. CASE op[t] = "refresh all"
      BY <2>4 DEF Visit, Set, Shape, Typed, ClockTyped, ClearTyped, PerClient
    <2> QED
      BY <1>2, <2>2, <2>3, <2>4
  <1>4. Invalidating(t) => ClearFresh(t)'
    <2> SUFFICES ASSUME Invalidating(t) PROVE ClearFresh(t)'
      OBVIOUS
    <2>1. ClearFresh(t) /\ bin[t] = 0 /\ G(t) = "visit"
      BY <1>1, ClearHas DEF ClearFresh, G, Goal
    <2>2. Behind(t) = {f \in m_files : Ahead(f, k)} /\ m_files \subseteq Files
      BY <1>1, <2>1 DEF Behind, ClearPcs, Shape, Typed, GlobalTyped
    <2>3. \A f \in Files : Handled(t, f) => Handled(t, f)'
      BY <1>1, <1>3 DEF Handled
    <2>4. CASE op[t] = "invalidate all"
      <3>1. G(t)' = "clear spec" /\ pc'[t] \in {"lower", "clear spec"}
        BY <1>3, <2>4
      <3>2. Behind(t)' = Behind(t) /\ Pending(t)' = {} /\ Pending(t) = {}
        BY <1>1, <2>2, <2>4, <3>1 DEF Behind, Pending, Ahead
      <3> QED
        BY <1>1, <2>1, <2>2, <2>3, <2>4, <3>1, <3>2 DEF ClearFresh
    <2>5. CASE op[t] = "refresh all"
      <3>1. /\ pc'[t] = "step" /\ G(t)' = "step"
            /\ todo'[t] = todo[t] \union (IF Stale(k) \/ OnDisk(k) = Missing THEN {k} ELSE {})
        BY <1>3, <2>5 DEF G, Goal
      <3>2. Behind(t)' = {f \in m_files : Ahead(f, k) \/ f = k}
        BY <1>1, <2>5, <3>1 DEF Behind, Ahead, ClearPcs
      <3>3. Pending(t)' = todo'[t] /\ Pending(t) = todo[t]
        BY <1>1, <2>5 DEF Pending
      <3>4. ~Stale(k) => Handled(t, k)
        BY <1>1, NotStale
      <3>5. ASSUME NEW f \in Behind(t)' \ Pending(t)' PROVE Handled(t, f)'
        <4>1. f \in m_files /\ f \in Files /\ f \notin todo[t] /\ (f = k => ~Stale(k))
          BY <2>2, <3>1, <3>2, <3>3
        <4>2. CASE f = k
          BY <2>3, <3>4, <4>1, <4>2
        <4>3. CASE f # k
          <5>1. f \in Behind(t) \ Pending(t)
            BY <2>2, <3>2, <3>3, <4>1, <4>3
          <5> QED
            BY <2>1, <2>3, <2>5, <4>1, <5>1 DEF ClearFresh
        <4> QED
          BY <4>2, <4>3
      <3> QED
        BY <1>1, <2>1, <3>1, <3>5 DEF ClearFresh
    <2> QED
      BY <1>2, <2>4, <2>5, OneKind
  <1>5. \A p : Clearing(t, p) => Clearing(t, p)'
    BY <1>1 DEF Clearing
  <1>6. Keeps(t)
    BY <1>1 DEF Keeps
  <1> QED
    BY <1>1, <1>2, <1>3, <1>4, <1>5, <1>6, LoopKeeps

\* Where an invalidation that is over has left nothing of before, the oldest
\* version that may be known is that of its beginning.
LEMMA ForgetFresh ==
    ASSUME Shape, Locked, Fresh, NEW t \in Clients, Invalidating(t), Moves(t), Done(t),
           NEW S \in SUBSET Files, Forgotten(t, S), \A f \in S : f \in m_files => Handled(t, f),
           UNCHANGED <<input, valid, fingerprint, duplicate, mod_time, m_files, disk>>,
           \A p \in Prints :
               fingerprints'[p] = None \/ (fingerprints'[p] = fingerprints[p] /\ ~Clearing(t, p))
    PROVE  Fresh'
  <1>1. DiskExists' /\ \A g : Sound(g)' = Sound(g) /\ Last(g)' = Last(g)
    BY DEF Shape, DiskExists, Last, Sound
  <1>2. FreshAt(t)' /\ op'[t] = "idle" /\ Keeps(t)
    BY <1>1, DoneFresh
  <1>3. Careful(t)
    BY OneKind DEF Careful
  <1>4. ASSUME NEW f \in Files PROVE FreshOf(f)'
    <2> DEFINE a == atStart[t][f]
               M == {floor[f], a}
    <2>1. FreshOf(f) /\ a <= disk[f] /\ a \in Nat
      <3>1. a \in Versions
        BY LocalTypes
      <3> QED
        BY <3>1, VersionsOf DEF Fresh, FreshAt
    <2>2. floor[f] \in Nat /\ disk[f] \in Nat /\ mod_time[f] \in Nat /\ input[f] \in Nat
      BY FileTypes
    <2>3. Max(M) \in M
      <3>1. M \in SUBSET Nat /\ M # {}
        BY <2>1, <2>2
      <3>2. \A n \in M : n <= disk[f]
        BY <2>1 DEF FreshOf
      <3> QED
        BY <2>2, <3>1, <3>2, MaxOf
    <2>4. floor'[f] = floor[f] \/ (f \in S /\ floor'[f] = a)
      BY <2>3 DEF Forgotten
    <2>5. CASE floor'[f] = floor[f]
      BY <1>1, <2>1, <2>5 DEF FreshOf
    <2>6. CASE f \in S /\ floor'[f] = a
      <3>1. input[f] # Closed \/ fingerprint[f] # None => a <= mod_time[f]
        BY <2>1, <2>6 DEF FreshOf, Handled
      <3>2. input[f] # Closed => a <= input[f]
        BY <2>1, <2>2, <3>1 DEF FreshOf
      <3> QED
        BY <1>1, <2>1, <2>6, <3>1, <3>2 DEF FreshOf
    <2> QED
      BY <2>4, <2>5, <2>6
  <1>5. ASSUME NEW p \in Prints PROVE Entered(p)'
    <2>1. SUFFICES ASSUME fingerprints'[p] = fingerprints[p], ~Clearing(t, p) PROVE Entered(p)'
      BY DEF Entered
    <2>2. \A u \in Clients : ~Clearing(u, p)
      BY <2>1, OnlyOne DEF Fresh
    <2> QED
      BY <1>1, <2>1, <2>2 DEF Fresh, Entered
  <1> QED
    BY <1>2, <1>3, <1>4, <1>5, KeepFresh

\* EndVisit, CheckTime: the call is over, or goes on to invalidate.
LEMMA EndVisitFresh ==
    ASSUME Shape, Locked, Fresh, NEW t \in Clients, EndVisit(t)
    PROVE  Fresh'
  <1>1. /\ pc[t] = "visit" /\ key[t] = None /\ G(t) = "visit" /\ Moves(t)
        /\ UNCHANGED <<input, valid, fingerprint, duplicate, mod_time, m_files, disk, key, bin>>
    BY EndVisitShape DEF EndVisit, perFile, clock, G, Goal
  <1>2. m_files \subseteq Files
    BY DEF Shape, Typed, GlobalTyped
  <1>3. CASE op[t] = "refresh all" /\ todo[t] # {}
    <2>1. /\ pc'[t] = "invalidate" /\ G(t)' = "invalidate" /\ UNCHANGED <<fingerprints, floor>>
          /\ UNCHANGED <<file, op, asked, then, inp, cand, todo, print, atStart>>
      BY <1>3 DEF EndVisit, mine, Set, Shape, Typed, ClockTyped, PerClient, G, Goal
    <2>2. Invalidating(t) /\ ~Querying(t) /\ ClearFresh(t)
      BY <1>3, OneKind, ClearHas
    <2>3. Behind(t)' = m_files /\ Behind(t) = m_files
      BY <1>1, <1>3, <2>1 DEF Behind, ClearPcs
    <2>4. Pending(t)' = Pending(t) /\ \A f : Handled(t, f)' = Handled(t, f)
      BY <1>1, <2>1 DEF Pending, Handled
    <2>5. ClearFresh(t)'
      BY <1>1, <2>1, <2>2, <2>3, <2>4 DEF ClearFresh
    <2>6. Keeps(t) /\ \A p : Clearing(t, p) => Clearing(t, p)'
      BY <1>1, <2>1 DEF Keeps, Clearing
    <2> QED
      BY <1>1, <2>1, <2>2, <2>5, <2>6, LoopKeeps
  <1>4. CASE ~(op[t] = "refresh all" /\ todo[t] # {})
    <2>1. /\ Done(t) /\ Forgotten(t, IF Invalidating(t) THEN Files ELSE {})
          /\ fingerprints' = IF op[t] = "invalidate all" THEN [p \in Prints |-> None] ELSE fingerprints
      BY <1>4 DEF EndVisit
    <2>2. CASE ~Invalidating(t)
      <3>1. UNCHANGED <<fingerprints, floor>>
        <4>1. floor' = [f \in Files |-> floor[f]] /\ floor \in [Files -> Versions]
          BY <2>1, <2>2 DEF Forgotten, Shape, Typed, WorldTyped, OnFiles
        <4> QED
          BY <2>1, <2>2, <4>1, OneKind
      <3> QED
        BY <1>1, <2>1, <2>2, <3>1, EndsFresh, ClearingIs DEF fresh
    <2>3. CASE Invalidating(t)
      <3>1. ClearFresh(t) /\ op[t] \in {"invalidate all", "refresh all"}
        BY <1>1, <2>3, ClearHas, OneKind DEF OtherAt, G, ClearPcs
      <3>2. Behind(t) = m_files /\ Pending(t) = {}
        BY <1>1, <1>4, <3>1 DEF Behind, Pending, ClearPcs
      <3>3. \A f \in m_files : Handled(t, f)
        BY <3>1, <3>2 DEF ClearFresh
      <3>4. \A p \in Prints : fingerprints'[p] = None \/ (fingerprints'[p] = fingerprints[p] /\ ~Clearing(t, p))
        BY <1>1, <2>1 DEF Clearing
      <3> QED
        BY <1>1, <1>2, <2>1, <2>3, <3>3, <3>4, ForgetFresh
    <2> QED
      BY <2>2, <2>3
  <1> QED
    BY <1>3, <1>4
\* A file whose time is the same is as new as the invalidation.
LEMMA CheckTimeFresh ==
    ASSUME Shape, Locked, Fresh, NEW t \in Clients, CheckTime(t)
    PROVE  Fresh'
  <1> DEFINE f == asked[t]
  <1>1. /\ pc[t] = "check time" /\ G(t) = "check time" /\ Moves(t)
        /\ UNCHANGED <<input, valid, fingerprint, duplicate, mod_time, m_files, fingerprints, disk, key, bin>>
    BY CheckTimeShape DEF CheckTime, perFile, global, clock, G, Goal
  <1>2. op[t] = "refresh" /\ Invalidating(t) /\ ~Querying(t) /\ f \in Files /\ ClearFresh(t)
    <2>1. op[t] \in Ops \ Queries
      BY <1>1, Fit, LocalTypes DEF Shape, FitsAt, G, Goal, Queries
    <2>2. op[t] = "refresh" /\ f \in Files
      BY <1>1, <2>1, OtherFits DEF OtherAt
    <2> QED
      BY <2>2, OneKind, ClearHas
  <1>3. \A p : ~Clearing(t, p)
    BY <1>1, <1>2 DEF Clearing
  <1>4. CASE Stale(f)
    <2>1. /\ pc'[t] = "invalidate" /\ G(t)' = "invalidate" /\ floor' = floor
          /\ UNCHANGED <<file, op, asked, then, inp, cand, todo, print, atStart>>
      BY <1>4 DEF CheckTime, mine, Set, Shape, Typed, ClockTyped, PerClient, G, Goal
    <2>2. ClearFresh(t)'
      BY <1>1, <1>2, <2>1 DEF ClearFresh
    <2>3. Keeps(t)
      BY <2>1 DEF Keeps
    <2> QED
      BY <1>1, <1>2, <1>3, <2>1, <2>2, <2>3, LoopKeeps
  <1>5. CASE ~Stale(f)
    <2>1. Done(t) /\ Forgotten(t, {f})
      BY <1>5 DEF CheckTime
    <2>2. Handled(t, f)
      BY <1>2, <1>5, NotStale
    <2>3. {f} \in SUBSET Files /\ \A g \in {f} : Handled(t, g)
      BY <1>2, <2>2
    <2> QED
      BY <1>1, <1>2, <1>3, <2>1, <2>3, ForgetFresh
  <1> QED
    BY <1>4, <1>5

\* Where an invalidation that goes by todo is.
LEMMA TargetIs ==
    ASSUME Shape, Fresh, NEW t \in Clients, pc[t] \in ClearPcs
    PROVE  /\ Invalidating(t) /\ ~Querying(t) /\ ClearFresh(t) /\ G(t) = pc[t] /\ bin[t] = 0
           /\ Target(t) \in Files
           /\ op[t] = "invalidate all" => pc[t] = "clear spec" /\ key[t] # None
           /\ op[t] # "invalidate all" => Target(t) = Min(todo[t]) /\ Target(t) \in todo[t]
  <1>1. G(t) = pc[t] /\ op[t] \in Ops \union {"idle"} /\ pc[t] \notin QueryPcs
          /\ pc[t] \notin {"begin", "next", "idle"}
    BY LocalTypes DEF G, Goal, ClearPcs, QueryPcs, OpenPcs, OpenedPcs, SweepPcs
  <1>2. FitsAt(pc[t], G(t), op[t], asked[t], file[t], then[t], inp[t], cand[t], key[t], bin[t], todo[t])
    BY Fit DEF Shape, G
  <1>3. op[t] \notin Queries /\ op[t] # "idle"
    BY <1>1, <1>2 DEF FitsAt, ClearPcs
  <1>4. OtherAt(t)
    BY <1>1, <1>3, OtherFits
  <1>5. Invalidating(t)
    BY <1>1, <1>3, <1>4 DEF OtherAt, G, ClearPcs, LoopPcs, Invalidating, Ops
  <1>6. /\ op[t] = "invalidate all" => pc[t] = "clear spec" /\ key[t] # None
        /\ op[t] # "invalidate all" => todo[t] # {}
    BY <1>1, <1>4 DEF OtherAt, G
  <1>7. todo[t] \in SUBSET Nat /\ todo[t] \subseteq Files /\ key[t] \in MaybeFile
    BY LocalTypes, Names
  <1>8. op[t] # "invalidate all" => Min(todo[t]) \in todo[t]
    BY <1>6, <1>7, MinOf
  <1>9. ~Querying(t) /\ ClearFresh(t) /\ bin[t] = 0
    BY <1>1, <1>5, ClearHas DEF ClearFresh
  <1> QED
    BY <1>1, <1>5, <1>6, <1>7, <1>8, <1>9 DEF Target, MaybeFile

\* Invalidate, InvalidateLock: the fingerprint that was read is still the file's.
LEMMA InvalidateFresh ==
    ASSUME Shape, Locked, Fresh, NEW t \in Clients, Invalidate(t) \/ InvalidateLock(t)
    PROVE  Fresh'
  <1>1. /\ pc[t] \in {"invalidate", "invalidate lock"} /\ Moves(t)
        /\ UNCHANGED <<valid, fingerprint, duplicate, mod_time, m_files, fingerprints, disk, floor,
                       file, op, asked, then, inp, cand, todo, atStart, key, bin>>
    BY InvalidateShape, InvalidateLockShape
       DEF Invalidate, InvalidateLock, Goto, perFile, global, world, clock
  <1>2. /\ Invalidating(t) /\ ~Querying(t) /\ ClearFresh(t) /\ G(t) = pc[t] /\ bin[t] = 0
        /\ Target(t) \in Files /\ op[t] # "invalidate all" /\ Target(t) = Min(todo[t])
    BY <1>1, TargetIs DEF ClearPcs
  <1>3. Target(t)' = Target(t)
    BY <1>1 DEF Target
  <1>4. /\ G(t)' \in {"invalidate lock", "clear spec"} /\ pc'[t] \in {"lower", "invalidate lock", "clear spec"}
        /\ pc'[t] = "lower" => G(t)' = "clear spec"
        /\ print'[t] = fingerprint[Target(t)] /\ \A f \in Files : input'[f] \in {input[f], Closed}
        /\ \A u \in Clients \ {t} : print'[u] = print[u]
    <2>1. CASE Invalidate(t)
      BY <1>2, <2>1 DEF Invalidate, Goto, perFile, Set, Shape, Typed, ClockTyped, ClearTyped, PerClient, G, Goal
    <2>2. CASE InvalidateLock(t)
      <3>1. Shut(t, Target(t), "clear spec") /\ UNCHANGED print /\ pc[t] = "invalidate lock"
        BY <1>2, <2>2 DEF InvalidateLock
      <3>2. "clear spec" \in Places
        BY DEF Places
      <3>3. pc'[t] = "clear spec" \/ (pc'[t] = "lower" /\ after'[t] = "clear spec")
        BY <3>1, <3>2, ShutGoes
      <3>4. \A f \in Files : input'[f] \in {input[f], Closed}
        BY <3>1 DEF Shut, Set, Shape, Typed, FilesTyped, OnFiles
      <3>5. print[t] = fingerprint[Target(t)]
        BY <1>2, <3>1 DEF ClearFresh
      <3> QED
        BY <3>1, <3>3, <3>4, <3>5 DEF G, Goal
    <2> QED
      BY <2>1, <2>2
  <1>5. Keeps(t) /\ \A p : ~Clearing(t, p)
    BY <1>1, <1>2, <1>4 DEF Keeps, Clearing
  <1>6. op[t] = "refresh all" => Behind(t)' = Behind(t) /\ Pending(t)' = Pending(t)
    BY <1>1, <1>2, <1>4 DEF Behind, Pending, ClearPcs
  <1>7. \A f \in m_files : Handled(t, f) => Handled(t, f)'
    BY <1>1, <1>4 DEF Handled, Shape, Typed, GlobalTyped
  <1>8. op[t] = "refresh all" => Behind(t) = m_files
    BY <1>1, <1>2 DEF Behind, ClearPcs
  <1>9. ClearFresh(t)'
    BY <1>1, <1>2, <1>3, <1>4, <1>6, <1>7, <1>8 DEF ClearFresh
  <1> QED
    BY <1>1, <1>2, <1>4, <1>5, <1>9, LoopKeeps

\* ClearSpec: a file that has lost its headers loses its entry, too, or is
\* about to.
LEMMA ClearSpecFresh ==
    ASSUME Shape, Locked, Heads, Fresh, NEW t \in Clients, ClearSpec(t)
    PROVE  Fresh'
  <1> DEFINE f == Target(t)
  <1>1. /\ pc[t] = "clear spec" /\ Moves(t)
        /\ pc'[t] = IF op[t] = "invalidate all" THEN "step" ELSE "erase print"
        /\ valid' = Set(valid, f, FALSE) /\ fingerprint' = Set(fingerprint, f, None)
        /\ duplicate' = Set(duplicate, f, None)
        /\ UNCHANGED <<input, mod_time, m_files, fingerprints, disk, floor,
                       file, op, asked, then, after, inp, cand, todo, print, atStart, key, bin>>
    BY ClearSpecShape DEF ClearSpec, Goto, global, world, mine, clock, Target, Set, Shape, Typed,
       ClockTyped, PerClient
  <1>2. /\ Invalidating(t) /\ ~Querying(t) /\ ClearFresh(t) /\ G(t) = "clear spec" /\ bin[t] = 0
        /\ f \in Files /\ (op[t] = "invalidate all" => f = key[t] /\ key[t] # None)
    BY <1>1, TargetIs DEF ClearPcs, Target
  <1>3. input[f] = Closed /\ Holds(t) = f
    BY <1>2, HeldFile DEF Heads, HeadsAt, HeadPcs
  <1>4. /\ \A g \in Files : g = f \/ (valid'[g] = valid[g] /\ fingerprint'[g] = fingerprint[g]
             /\ duplicate'[g] = duplicate[g])
        /\ fingerprint'[f] = None /\ duplicate'[f] = None
    BY <1>1, <1>2 DEF Set, Shape, Typed, FilesTyped, OnFiles
  <1>5. \A g : Sound(g)' = Sound(g) /\ Last(g)' = Last(g)
    BY DEF Sound, Last
  <1>6. ASSUME NEW g \in Files PROVE FreshOf(g)'
    <2>1. FreshOf(g)
      BY DEF Fresh
    <2> QED
      BY <1>1, <1>3, <1>4, <1>5, <2>1 DEF FreshOf
  <1>7. ASSUME NEW p \in Prints PROVE Entered(p)'
    <2>1. Entered(p) /\ m_files \subseteq Files
      BY DEF Fresh, Shape, Typed, GlobalTyped
    <2>2. \A u \in Clients : Clearing(u, p) => Clearing(u, p)'
      <3> SUFFICES ASSUME NEW u \in Clients, Clearing(u, p) PROVE Clearing(u, p)'
        OBVIOUS
      <3>1. u = t
        BY <1>2, OnlyOne DEF Fresh
      <3> QED
        BY <1>1, <3>1 DEF Clearing
    <2>3. ~(op[t] = "invalidate all") => print[t] = fingerprint[f] /\ pc'[t] = "erase print"
      BY <1>1, <1>2 DEF ClearFresh
    <2>4. fingerprint[f] = p => Clearing(t, p)'
      BY <1>1, <2>3 DEF Clearing
    <2> QED
      BY <1>1, <1>4, <1>5, <2>1, <2>2, <2>4 DEF Entered
  <1>8. Careful(t) /\ Keeps(t)
    BY <1>1, <1>2, <1>3, <1>4 DEF Careful, Keeps
  <1>9. Invalidating(t)' /\ ~Querying(t)' /\ G(t)' = pc'[t] /\ Target(t)' = f
    BY <1>1, <1>2 DEF Invalidating, Querying, G, Goal, Target
  <1>10. ASSUME NEW g \in m_files, Handled(t, g) \/ g = f PROVE Handled(t, g)'
    <2>1. g \in Files
      BY DEF Shape, Typed, GlobalTyped
    <2>2. CASE g = f
      BY <1>1, <1>3, <1>4, <2>2 DEF Handled
    <2>3. CASE g # f
      BY <1>1, <1>4, <1>10, <2>1, <2>3 DEF Handled
    <2> QED
      BY <2>2, <2>3
  <1>11. ClearFresh(t)'
    <2>1. CASE op[t] = "invalidate all"
      <3>1. pc'[t] = "step"
        BY <1>1, <2>1
      <3>2. Behind(t) = {g \in m_files : Ahead(g, f)} /\ Behind(t)' = {g \in m_files : Ahead(g, f) \/ g = f}
        BY <1>1, <1>2, <2>1, <3>1 DEF Behind, Ahead, ClearPcs
      <3>3. Pending(t) = {} /\ Pending(t)' = {}
        BY <1>1, <2>1 DEF Pending
      <3>4. \A g \in m_files : Ahead(g, f) => Handled(t, g)
        BY <1>2, <2>1, <3>2, <3>3 DEF ClearFresh
      <3> QED
        BY <1>1, <1>2, <1>9, <1>10, <2>1, <3>1, <3>2, <3>3, <3>4 DEF ClearFresh
    <2>2. CASE op[t] # "invalidate all"
      <3>1. pc'[t] = "erase print"
        BY <1>1, <2>2
      <3>2. op[t] = "refresh all" => /\ Behind(t)' = m_files /\ Behind(t) = m_files
                                     /\ Pending(t)' = Pending(t)
        BY <1>1, <1>2, <1>9, <3>1 DEF Behind, Pending, ClearPcs
      <3>3. op[t] = "refresh all" => \A g \in m_files \ Pending(t) : Handled(t, g)'
        BY <1>2, <1>10, <3>2 DEF ClearFresh
      <3> QED
        BY <1>1, <1>2, <1>3, <1>4, <1>9, <2>2, <3>1, <3>2, <3>3 DEF ClearFresh
    <2> QED
      BY <2>1, <2>2
  <1>12. FreshAt(t)'
    BY <1>1, <1>2, <1>9, <1>11 DEF Fresh, FreshAt
  <1> QED
    BY <1>1, <1>6, <1>7, <1>8, <1>12, KeepFresh

\* ErasePrint: the next file, or the end.
LEMMA ErasePrintFresh ==
    ASSUME Shape, Locked, Fresh, NEW t \in Clients, ErasePrint(t)
    PROVE  Fresh'
  <1> DEFINE f == Min(todo[t])
             rest == todo[t] \ {f}
  <1>1. /\ pc[t] = "erase print" /\ Moves(t)
        /\ fingerprints' = [p \in Prints |-> IF p = print[t] THEN None ELSE fingerprints[p]]
        /\ UNCHANGED <<input, valid, fingerprint, duplicate, mod_time, m_files, disk, key, bin>>
    BY ErasePrintShape DEF ErasePrint, perFile, clock
  <1>2. /\ Invalidating(t) /\ ~Querying(t) /\ ClearFresh(t) /\ G(t) = "erase print" /\ bin[t] = 0
        /\ Target(t) = f /\ f \in Files /\ op[t] # "invalidate all"
    BY <1>1, TargetIs DEF ClearPcs
  <1>3. Handled(t, f)
    BY <1>1, <1>2 DEF ClearFresh, Handled
  <1>4. op[t] = "refresh all" => /\ Behind(t) = m_files /\ Pending(t) = todo[t]
                                 /\ \A g \in m_files \ rest : Handled(t, g)
    <2> SUFFICES ASSUME op[t] = "refresh all"
                 PROVE  /\ Behind(t) = m_files /\ Pending(t) = todo[t]
                        /\ \A g \in m_files \ rest : Handled(t, g)
      OBVIOUS
    <2>1. Behind(t) = m_files /\ Pending(t) = todo[t]
      BY <1>2 DEF Behind, Pending, ClearPcs
    <2>2. \A g \in m_files \ todo[t] : Handled(t, g)
      BY <1>2, <2>1 DEF ClearFresh
    <2> QED
      BY <1>3, <2>1, <2>2
  <1>5. \A p \in Prints : Clearing(t, p) <=> p = print[t]
    BY <1>1, <1>2 DEF Clearing
  <1>6. \A p \in Prints : fingerprints'[p] = None \/ (fingerprints'[p] = fingerprints[p] /\ ~Clearing(t, p))
    BY <1>1, <1>5
  <1>7. CASE rest # {}
    <2>1. /\ pc'[t] = "invalidate" /\ G(t)' = "invalidate" /\ todo'[t] = rest /\ Forgotten(t, {})
          /\ UNCHANGED <<file, op, asked, then, after, inp, cand, print, atStart>>
      BY <1>7 DEF ErasePrint, Set, Shape, Typed, ClockTyped, ClearTyped, PerClient, G, Goal
    <2>2. floor' = floor
      <3>1. floor' = [g \in Files |-> floor[g]] /\ floor \in [Files -> Versions]
        BY <2>1 DEF Forgotten, Shape, Typed, WorldTyped, OnFiles
      <3> QED
        BY <3>1
    <2>3. Careful(t) /\ Keeps(t)
      BY <1>1, <1>2, <2>1, <2>2 DEF Careful, Keeps
    <2>4. \A g \in Files : FreshOf(g)'
      BY <1>1, <2>2, ShutFresh
    <2>5. ASSUME NEW p \in Prints PROVE Entered(p)'
      <3>1. SUFFICES ASSUME fingerprints'[p] = fingerprints[p], ~Clearing(t, p) PROVE Entered(p)'
        BY <1>6 DEF Entered
      <3>2. \A u \in Clients : ~Clearing(u, p)
        BY <1>2, <3>1, OnlyOne DEF Fresh
      <3>3. \A g : Sound(g)' = Sound(g) /\ Last(g)' = Last(g)
        BY DEF Sound, Last
      <3> QED
        BY <1>1, <3>1, <3>2, <3>3 DEF Fresh, Entered
    <2>6. Invalidating(t)' /\ ~Querying(t)'
      BY <1>2, <2>1 DEF Invalidating, Querying
    <2>7. op[t] = "refresh all" => Behind(t)' = m_files /\ Pending(t)' = rest
      BY <1>1, <2>1 DEF Behind, Pending, ClearPcs
    <2>8. \A g : Handled(t, g)' = Handled(t, g)
      BY <1>1, <2>1 DEF Handled
    <2>9. ClearFresh(t)'
      BY <1>1, <1>2, <1>4, <2>1, <2>7, <2>8 DEF ClearFresh
    <2>10. FreshAt(t)'
      BY <1>1, <1>2, <2>1, <2>6, <2>9 DEF Fresh, FreshAt
    <2> QED
      BY <1>1, <2>1, <2>3, <2>4, <2>5, <2>10, KeepFresh
  <1>8. CASE rest = {}
    <2>1. Done(t) /\ Forgotten(t, IF op[t] = "refresh all" THEN Files ELSE {f})
      BY <1>8 DEF ErasePrint
    <2>2. CASE op[t] = "refresh all"
      <3>1. \A g \in Files : g \in m_files => Handled(t, g)
        BY <1>4, <1>8, <2>2
      <3> QED
        BY <1>1, <1>2, <1>6, <2>1, <2>2, <3>1, ForgetFresh
    <2>3. CASE op[t] # "refresh all"
      <3>1. {f} \in SUBSET Files /\ \A g \in {f} : Handled(t, g)
        BY <1>2, <1>3
      <3> QED
        BY <1>1, <1>2, <1>6, <2>1, <2>3, <3>1, ForgetFresh
    <2> QED
      BY <2>2, <2>3
  <1> QED
    BY <1>7, <1>8
-----------------------------------------------------------------------------
\* No bin comes before the first one, where every walk begins.
LEMMA FromOne == \A n \in Bins : ~(n < 1)
  <1>1. NBins \in Int
    BY Names
  <1> QED
    BY <1>1 DEF Bins

\* A call begins when it may.
LEMMA CallFresh ==
    ASSUME Quiet, Shape, Locked, Fresh, NEW t \in Clients, NEW o \in Ops, NEW f \in Files, Call(t, o, f)
    PROVE  Fresh'
  <1>1. /\ pc[t] = "idle" /\ op[t] = "idle" /\ Moves(t) /\ UNCHANGED fresh
        /\ UNCHANGED <<input, valid, fingerprint, duplicate, mod_time, m_files, fingerprints, disk, floor,
                       then, after, inp, cand, print>>
    BY CallShape, Fit DEF Call, perFile, global, fresh, Shape, FitsAt
  <1>2. /\ op'[t] = o /\ asked'[t] = f /\ file'[t] = f
        /\ atStart'[t] = (IF o \in Queries THEN floor ELSE disk)
        /\ pc'[t] = (IF o \in {"invalidate all", "refresh all", "close all"} THEN "begin" ELSE "find")
        /\ bin'[t] = (IF pc'[t] = "begin" THEN 1 ELSE 0)
        /\ \A u \in Clients \ {t} : op'[u] = op[u] /\ atStart'[u] = atStart[u]
    BY DEF Call, Set, Shape, Typed, ClockTyped, CallTyped, ClearTyped, PerClient
  <1>3. ~Querying(t) /\ ~Invalidating(t)
    BY <1>1, OneKind
  <1>4. inp[t] = Closed /\ then[t] = "idle"
    BY <1>3 DEF Fresh, FreshAt
  <1>5. Alone'
    <2>1. \A u \in Clients \ {t} : Querying(u)' = Querying(u) /\ Invalidating(u)' = Invalidating(u)
      BY <1>2 DEF Querying, Invalidating
    <2>2. Querying(t)' = (o \in Queries) /\ Invalidating(t)' = (o \in Invalidations)
      BY <1>2 DEF Querying, Invalidating
    <2>3. o \in Queries => \A u \in Clients : ~Invalidating(u)
      BY DEF Call
    <2>4. o \in Invalidations => \A u \in Clients : ~Invalidating(u) /\ ~Querying(u)
      BY DEF Call
    <2> QED
      BY <2>1, <2>2, <2>3, <2>4 DEF Fresh, Alone
  <1>6. G(t)' = pc'[t] /\ pc'[t] \in {"begin", "find"}
    BY <1>2 DEF G, Goal
  <1>7. Querying(t)' => QueryFresh(t)'
    <2> SUFFICES ASSUME Querying(t)' PROVE QueryFresh(t)'
      OBVIOUS
    <2>1. o \in Queries /\ pc'[t] = "find"
      BY <1>2 DEF Querying, Queries
    <2> QED
      BY <1>1, <1>2, <1>4, <1>6, <2>1 DEF QueryFresh
  <1>8. Invalidating(t)' => ClearFresh(t)'
    <2> SUFFICES ASSUME Invalidating(t)' PROVE ClearFresh(t)'
      OBVIOUS
    <2>1. o \in {"invalidate all", "refresh all"} => Behind(t)' = {}
      <3> SUFFICES ASSUME o \in {"invalidate all", "refresh all"} PROVE Behind(t)' = {}
        OBVIOUS
      <3>1. pc'[t] = "begin" /\ bin'[t] = 1 /\ m_files' = m_files
        BY <1>1, <1>2
      <3>2. Behind(t)' = {g \in m_files : BinOf[g] < 1}
        BY <1>6, <3>1 DEF Behind, ClearPcs
      <3>3. \A g \in m_files : BinOf[g] \in Bins
        BY Names DEF Shape, Typed, GlobalTyped
      <3>4. \A n \in Bins : ~(n < 1)
        BY FromOne
      <3> QED
        BY <3>2, <3>3, <3>4
    <2> QED
      BY <1>2, <1>6, <2>1 DEF ClearFresh
  <1>9. \A g \in Files : atStart'[t][g] <= disk'[g]
    <2>1. \A g \in Files : floor[g] <= disk[g] /\ disk[g] <= disk[g]
      BY FileTypes DEF Fresh, FreshOf
    <2> QED
      BY <1>1, <1>2, <2>1
  <1>10. FreshAt(t)'
    BY <1>1, <1>4, <1>7, <1>8, <1>9 DEF FreshAt
  <1>11. Keeps(t) /\ \A p : ~Clearing(t, p)
    BY <1>1, <1>2, <1>3, ClearingIs DEF Keeps
  <1> QED
    BY <1>1, <1>5, <1>10, <1>11, StillFresh

\* A file changes, but not while its headers are being read.
LEMMA ModifyFresh ==
    ASSUME Quiet, Shape, Fresh, NEW f \in Files, Modify(f)
    PROVE  Fresh'
  <1>1. /\ disk' = [disk EXCEPT ![f] = @ + 1]
        /\ \A t \in Clients : pc[t] # "headers" \/ file[t] # f
        /\ UNCHANGED <<input, valid, fingerprint, duplicate, mod_time, m_files, fingerprints, floor,
                       pc, file, op, asked, then, after, inp, cand, todo, print, atStart, key, bin>>
    BY DEF Modify, perFile, global, mine, clock
  <1>2. disk \in [Files -> Versions]
    BY DEF Shape, Typed, WorldTyped, OnFiles
  <1>3. \A g \in Files : g # f => disk'[g] = disk[g]
    BY <1>1, <1>2
  <1>4. \A g \in Files : \A n \in Int : n <= disk[g] => n <= disk'[g]
    <2> SUFFICES ASSUME NEW g \in Files, NEW n \in Int, n <= disk[g] PROVE n <= disk'[g]
      OBVIOUS
    <2>1. disk[g] \in Nat
      BY FileTypes
    <2>2. disk'[g] = disk[g] \/ disk'[g] = disk[g] + 1
      BY <1>1, <1>2
    <2> QED
      BY <2>1, <2>2
  <1>5. \A g : Sound(g)' = Sound(g) /\ Last(g)' = Last(g)
    BY DEF Sound, Last
  <1>6. Alone' /\ \A t \in Clients : \A p : Clearing(t, p)' = Clearing(t, p)
    BY <1>1 DEF Fresh, Alone, Clearing, Invalidating, Querying
  <1>7. ASSUME NEW g \in Files PROVE FreshOf(g)'
    <2>1. FreshOf(g) /\ floor[g] \in Int /\ mod_time[g] \in Int /\ input[g] \in Int
      BY FileTypes DEF Fresh
    <2> QED
      BY <1>1, <1>4, <1>5, <2>1 DEF FreshOf
  <1>8. ASSUME NEW p \in Prints PROVE Entered(p)'
    BY <1>1, <1>5, <1>6 DEF Fresh, Entered
  <1>9. ASSUME NEW t \in Clients PROVE FreshAt(t)'
    <2>1. Querying(t)' = Querying(t) /\ Invalidating(t)' = Invalidating(t) /\ G(t)' = G(t)
      BY <1>1 DEF Querying, Invalidating, G
    <2>2. \A g \in Files : atStart'[t][g] <= disk'[g]
      <3> SUFFICES ASSUME NEW g \in Files PROVE atStart[t][g] <= disk'[g]
        BY <1>1
      <3>1. atStart[t][g] \in Versions
        BY LocalTypes
      <3>2. atStart[t][g] \in Int
        <4>1. \A v \in Versions : v \in Int
          BY VersionsOf
        <4> QED
          BY <3>1, <4>1
      <3> QED
        BY <1>4, <3>2 DEF Fresh, FreshAt
    <2>3. Querying(t) => QueryFresh(t)'
      <3> SUFFICES ASSUME Querying(t) PROVE QueryFresh(t)'
        OBVIOUS
      <3> DEFINE a == asked[t]
                 g == file[t]
      <3>1. QueryFresh(t) /\ inp[t] \in Int
        <4>1. Closed \in Int /\ inp[t] \in Versions \union {Closed}
          BY LocalTypes DEF Closed
        <4>2. \A v \in Versions : v \in Int
          BY VersionsOf
        <4> QED
          BY <4>1, <4>2 DEF Fresh, FreshAt
      <3>2. a \in Files /\ g \in Files
        BY Fit DEF Shape, FitsAt, Querying, Queries
      <3>3. pc[t] = "headers" => disk'[g] = disk[g]
        BY <1>1, <1>3, <3>2
      <3>4. inp[t] <= disk[g] => inp[t] <= disk'[g]
        BY <1>4, <3>1, <3>2
      <3>5. \A v \in floor[a]..disk[a] : v \in floor[a]..disk'[a]
        <4> SUFFICES ASSUME NEW v \in floor[a]..disk[a] PROVE v \in floor[a]..disk'[a]
          OBVIOUS
        <4>1. floor[a] \in Int /\ disk[a] \in Int
          BY <3>2, FileTypes
        <4>2. disk'[a] = disk[a] \/ disk'[a] = disk[a] + 1
          BY <1>1, <1>2, <3>2
        <4> QED
          BY <4>1, <4>2
      <3>6. Early(t)' = Early(t)
        BY <1>1, <2>1 DEF Early
      <3>7. g # a /\ Last(g) = 1 => \E v \in floor[a]..disk'[a] : Content[a][v] = Content[g][1]
        BY <3>1, <3>5 DEF QueryFresh
      <3>8. pc[t] = "headers" => inp[t] = disk'[g]
        BY <3>1, <3>3 DEF QueryFresh
      <3>9. inp[t] # Closed => pc[t] \in InputPcs /\ floor[g] <= inp[t] /\ inp[t] <= disk'[g]
        BY <3>1, <3>4 DEF QueryFresh
      <3> QED
        BY <1>1, <1>5, <2>1, <3>1, <3>6, <3>7, <3>8, <3>9 DEF QueryFresh
    <2>4. Invalidating(t) => ClearFresh(t)'
      <3>1. Target(t)' = Target(t) /\ Behind(t)' = Behind(t) /\ Pending(t)' = Pending(t)
        BY <1>1, <2>1 DEF Target, Behind, Pending, Ahead
      <3>2. \A g : Handled(t, g)' = Handled(t, g)
        BY <1>1 DEF Handled
      <3> QED
        BY <1>1, <2>1, <3>1, <3>2 DEF Fresh, FreshAt, ClearFresh
    <2> QED
      BY <1>1, <2>1, <2>2, <2>3, <2>4 DEF Fresh, FreshAt
  <1> QED
    BY <1>6, <1>7, <1>8, <1>9 DEF Fresh

\* No version is known at the start.
LEMMA InitFresh == Init => Fresh
  <1> SUFFICES ASSUME Init PROVE Fresh
    OBVIOUS
  <1>1. \A t \in Clients : ~Querying(t) /\ ~Invalidating(t)
    BY DEF Init, Querying, Invalidating, Queries, Invalidations
  <1>2. ASSUME NEW f \in Files PROVE FreshOf(f)
    BY <1>2 DEF Init, FreshOf, Closed
  <1>3. ASSUME NEW p \in Prints PROVE Entered(p)
    BY <1>3 DEF Init, Entered
  <1>4. ASSUME NEW t \in Clients PROVE FreshAt(t)
    BY <1>1, <1>4 DEF Init, FreshAt
  <1> QED
    BY <1>1, <1>2, <1>3, <1>4 DEF Fresh, Alone

\* Every step keeps Fresh.
LEMMA NextFresh ==
    ASSUME Quiet, Shape, Locked, Heads, Fresh, [Next]_vars
    PROVE  Fresh'
  <1>1. ASSUME NEW t \in Clients, Step(t)
        PROVE  Fresh'
    BY <1>1, FindFresh, VerifyFresh, OpenedFresh, CompareFresh, UnlockFresh, UseFresh, CheckFresh,
       PixelsFresh, AnswerFresh, OpenFresh, OpeningFresh, HeadersFresh, PublishFresh, LowerFresh,
       LimitFresh, EnterFresh, StepOnFresh, ReleaseFresh, VisitFresh, EndVisitFresh, CheckTimeFresh,
       InvalidateFresh, ClearSpecFresh, ErasePrintFresh DEF Step
  <1>2. CASE UNCHANGED vars
    <2>1. UNCHANGED <<input, valid, fingerprint, duplicate, mod_time, m_files, fingerprints, disk, floor,
                      pc, file, op, asked, then, after, inp, cand, todo, print, atStart, key, bin>>
      BY <1>2 DEF vars, perFile, global, world, mine, clock
    <2>2. Alone' = Alone /\ \A t, p : Clearing(t, p)' = Clearing(t, p)
      BY <2>1 DEF Alone, Clearing, Querying, Invalidating
    <2>3. /\ \A f : FreshOf(f)' = FreshOf(f)
          /\ \A p : Entered(p)' = Entered(p)
      BY <2>1, <2>2 DEF FreshOf, Entered, Sound, Last
    <2>4. ASSUME NEW t \in Clients PROVE FreshAt(t)' = FreshAt(t)
      <3>1. G(t)' = G(t) /\ Querying(t)' = Querying(t) /\ Invalidating(t)' = Invalidating(t)
        BY <2>1 DEF G, Querying, Invalidating
      <3>2. QueryFresh(t)' = QueryFresh(t)
        BY <2>1, <3>1 DEF QueryFresh, Early, Sound, Last
      <3>3. Target(t)' = Target(t) /\ Behind(t)' = Behind(t) /\ Pending(t)' = Pending(t)
        BY <2>1, <3>1 DEF Target, Behind, Pending, Ahead
      <3>4. ClearFresh(t)' = ClearFresh(t)
        BY <2>1, <3>1, <3>3 DEF ClearFresh, Handled
      <3> QED
        BY <2>1, <3>1, <3>2, <3>4 DEF FreshAt
    <2> QED
      BY <2>2, <2>3, <2>4 DEF Fresh
  <1> QED
    BY <1>1, <1>2, CallFresh, ModifyFresh DEF Next
-----------------------------------------------------------------------------
(* The theorems.                                                           *)

\* Shape, Locked and Heads together are an invariant, ...
LEMMA HeadsInvariant == Spec => [](Shape /\ Locked /\ Heads)
  <1>1. Init => Shape /\ Locked /\ Heads
    BY InitShape, InitLocked, InitHeads
  <1>2. Shape /\ Locked /\ Heads /\ [Next]_vars => (Shape /\ Locked /\ Heads)'
    BY NextShape, NextLocked, NextHeads
  <1> QED
    BY <1>1, <1>2, PTL DEF Spec

\* ... and with Fresh, while no query overlaps an invalidation.
LEMMA FreshInvariant ==
    ASSUME Quiet
    PROVE  Spec => [](Shape /\ Locked /\ Heads /\ Fresh)
  <1>1. Init => Shape /\ Locked /\ Heads /\ Fresh
    BY InitShape, InitLocked, InitHeads, InitFresh
  <1>2. Shape /\ Locked /\ Heads /\ Fresh /\ [Next]_vars => (Shape /\ Locked /\ Heads /\ Fresh)'
    BY NextShape, NextLocked, NextHeads, NextFresh
  <1> QED
    BY <1>1, <1>2, PTL DEF Spec

\* Whatever is closed, invalidated or marked broken meanwhile, a file that is
\* open (m_input) has its headers (m_validspec), and a file that is always
\* there and can be read is never marked broken (m_broken).
THEOREM OpenHasHeaders ==
    Spec => [](\A f \in Files : (input[f] # Closed => valid[f]) /\ (Sound(f) => ~broken[f]))
  <1>1. Heads => \A f \in Files : (input[f] # Closed => valid[f]) /\ (Sound(f) => ~broken[f])
    BY DEF Heads, HeadsOf
  <1> QED
    BY <1>1, HeadsInvariant, PTL

\* The pixels that a query answers with (read_tile) are some that the file
\* has had since the last invalidation before it, or that a duplicate of it
\* has that is never replaced, if no query overlaps an invalidation.
THEOREM PixelsAreCurrent ==
    ASSUME Quiet
    PROVE  Spec => []AnswersAreCurrent
  <1>1. ASSUME Shape, Fresh PROVE AnswersAreCurrent
    <2> SUFFICES ASSUME NEW t \in Clients, pc[t] = "answered", op[t] = "read",
                        file[t] = asked[t] \/ Last(file[t]) = 1
                 PROVE  AnswerIsCurrent(t)
      BY DEF AnswersAreCurrent
    <2> DEFINE a == asked[t]
               g == file[t]
    <2>1. QueryFresh(t) /\ a \in Files /\ g \in Files
      BY <1>1, QueryHas DEF QueryAt, QueryPcs, LoopPcs
    <2>2. inp[t] # Closed /\ floor[g] <= inp[t] /\ inp[t] <= disk[g] /\ atStart[t] = floor
      BY <2>1 DEF QueryFresh
    <2>3. inp[t] \in Int /\ floor[g] \in Nat \ {0} /\ disk[g] \in 1..Last(g) /\ disk[g] \in Int
      <3>1. inp[t] \in Versions
        BY <1>1, <2>2, LocalTypes
      <3>2. \A v \in Versions : v \in Int
        BY VersionsOf
      <3> QED
        BY <1>1, <2>1, <3>1, <3>2, FileTypes
    <2>4. CASE g = a
      <3>1. inp[t] \in floor[a]..disk[a]
        BY <2>2, <2>3, <2>4
      <3> QED
        BY <2>2, <2>4, <3>1 DEF AnswerIsCurrent
    <2>5. CASE g # a /\ Last(g) = 1
      <3>1. inp[t] = 1
        BY <2>2, <2>3, <2>5
      <3>2. \E v \in floor[a]..disk[a] : Content[a][v] = Content[g][1]
        BY <2>1, <2>5 DEF QueryFresh
      <3> QED
        BY <2>2, <3>1, <3>2 DEF AnswerIsCurrent
    <2> QED
      BY <2>4, <2>5
  <1> QED
    BY <1>1, FreshInvariant, PTL

\* subimageinfo() finds a subimage 0 of every file that is always there, where
\* verify_file compares two files and where read_tile begins.
THEOREM SoundHaveHeaders ==
    ASSUME Quiet
    PROVE  Spec => []SoundHeadersThere
  <1>1. ASSUME Shape, Heads, Fresh PROVE SoundHeadersThere
    <2> SUFFICES ASSUME NEW t \in Clients
                 PROVE  /\ pc[t] = "compare" => \A f \in {file[t], cand[t]} : Sound(f) => valid[f]
                        /\ pc[t] = "open" /\ then[t] = "pixels" /\ Sound(file[t]) => valid[file[t]]
      BY DEF SoundHeadersThere
    <2>1. CASE pc[t] = "compare"
      <3>1. QueryFresh(t) /\ G(t) = "compare" /\ file[t] \in Files
        BY <1>1, <2>1, QueryHas DEF QueryAt, QueryPcs, LoopPcs
      <3>2. valid[file[t]] \/ broken[file[t]]
        BY <1>1, <3>1 DEF Heads, HeadsAt
      <3>3. Sound(file[t]) => valid[file[t]]
        BY <1>1, <3>1, <3>2 DEF Heads, HeadsOf
      <3>4. Sound(cand[t]) => valid[cand[t]]
        BY <2>1, <3>1 DEF QueryFresh
      <3> QED
        BY <2>1, <3>3, <3>4
    <2>2. CASE pc[t] = "open"
      <3>1. QueryFresh(t)
        BY <1>1, <2>2, QueryHas DEF QueryPcs, LoopPcs, OpenPcs
      <3> QED
        BY <2>2, <3>1 DEF QueryFresh
    <2> QED
      BY <2>1, <2>2
  <1> QED
    BY <1>1, FreshInvariant, PTL

\* Only Check and Pixels have a query fail.
LEMMA FailsAt ==
    ASSUME Shape, NEW t \in Clients, Step(t), pc[t] # "failed", pc'[t] = "failed"
    PROVE  Check(t) \/ Pixels(t)
  <1> USE DEF Set, PerClient
  <1>1. pc \in PerClient(Places)
    BY DEF Shape, Typed, ClockTyped
  <1>2. Done(t) => pc'[t] = "idle"
    BY <1>1 DEF Done
  <1>3. \A k : Goes(t, k) \in {"visit", "sweep", "save name", "release"}
    BY DEF Goes
  <1>4. \A f \in Files : \A to \in Places : Shut(t, f, to) => pc'[t] \in {to, "lower"}
    BY <1>1 DEF Shut
  <1>5. ~Verify(t) /\ ~VerifyLock(t) /\ ~Opened(t) /\ ~Unlock(t) /\ ~Use(t)
    BY <1>1 DEF Verify, VerifyLock, Opened, Unlock, Use, Goto
  <1>6. ~Limit(t) /\ ~SweepLock(t) /\ ~FindName(t) /\ ~Sweep(t) /\ ~SaveName(t)
    BY <1>1 DEF Limit, SweepLock, FindName, Sweep, SaveName, TakeSweep, Goto
  <1>7. ~Find(t) /\ ~Answer(t) /\ ~EndVisit(t) /\ ~CheckTime(t) /\ ~ErasePrint(t) /\ ~Invalidate(t)
          /\ ~ClearSpec(t)
    BY <1>1, <1>2 DEF Find, Answer, EndVisit, CheckTime, ErasePrint, Invalidate, ClearSpec, Goto
  <1>8. ~Enter(t) /\ ~StepOn(t)
    <2>1. ~Enter(t)
      BY <1>1, <1>3 DEF Enter
    <2>2. ASSUME StepOn(t) PROVE FALSE
      <3>1. Done(t) \/ pc' = Set(pc, t, "next") \/ pc' = Set(pc, t, Goes(t, key'[t]))
        BY <2>2 DEF StepOn
      <3>2. Goes(t, key'[t]) # "failed"
        BY <1>3
      <3> QED
        BY <1>1, <1>2, <3>1, <3>2
    <2> QED
      BY <2>1, <2>2
  <1>9. pc[t] \in {"open", "open lock", "opening", "publish"} => then[t] # "failed"
    BY LocalTypes
  <1>10. ~Open(t) /\ ~OpenLock(t) /\ ~Publish(t) /\ ~Headers(t)
    BY <1>1, <1>9 DEF Open, OpenLock, Publish, Headers, Returns, Goto
  <1>11. ~Opening(t)
    BY <1>1, <1>9 DEF Opening, Returns
  <1>12. ~Lower(t)
    <2>1. pc[t] = "lower" => after[t] # "failed"
      BY Fit DEF Shape, FitsAt, Goal
    <2> QED
      BY <1>1, <2>1 DEF Lower, Goto
  <1>13. Shut(t, file[t], "unlock") \/ Shut(t, key[t], "step") \/ Shut(t, key[t], "clear spec")
            \/ Shut(t, Min(todo[t]), "clear spec") => pc'[t] # "failed"
    BY <1>1 DEF Shut
  <1>14. ~Compare(t) /\ ~Release(t) /\ ~Visit(t) /\ ~InvalidateLock(t)
    BY <1>1, <1>13 DEF Compare, Release, Visit, InvalidateLock
  <1> QED
    BY <1>5, <1>6, <1>7, <1>8, <1>10, <1>11, <1>12, <1>14 DEF Step

\* A query of a file that is always there and can be read (get_pixels,
\* get_imagespec) fails only because of the duplicate it was answered from.
THEOREM SoundAnswer ==
    ASSUME Quiet
    PROVE  Spec => SoundFilesAnswer
  <1> DEFINE A == \A t \in Clients :
                     pc[t] # "failed" /\ pc'[t] = "failed" /\ Sound(asked[t]) =>
                         file[t] # asked[t] /\ ~(Sound(file[t]) /\ valid[file[t]])
  <1>1. ASSUME Shape, Heads, Fresh, NEW t \in Clients, Check(t) \/ Pixels(t), Sound(asked[t]), pc'[t] = "failed"
        PROVE  file[t] # asked[t] /\ ~(Sound(file[t]) /\ valid[file[t]])
    <2> DEFINE f == file[t]
    <2>1. pc[t] \in {"check", "pixels"}
      BY <1>1 DEF Check, Pixels
    <2>2. QueryFresh(t) /\ f \in Files
      BY <1>1, <2>1, QueryHas DEF QueryAt, QueryPcs, LoopPcs
    <2>3. HeadsOf(f)
      BY <1>1, <2>2 DEF Heads
    <2>4. CASE Check(t)
      <3>1. broken[f] \/ ~valid[f]
        BY <1>1, <2>4 DEF Check, Set, Shape, Typed, ClockTyped, PerClient
      <3>2. Sound(f) => ~valid[f]
        BY <2>3, <3>1 DEF HeadsOf
      <3>3. valid[asked[t]]
        BY <1>1, <2>2, <2>4 DEF QueryFresh, Check
      <3> QED
        BY <1>1, <3>2, <3>3
    <2>5. CASE Pixels(t)
      <3>1. inp[t] = Closed \/ f \in Flaky
        BY <1>1, <2>5 DEF Pixels, Set, Shape, Typed, ClockTyped, PerClient
      <3>2. ~Sound(f)
        BY <2>2, <2>5, <3>1 DEF QueryFresh, Pixels, Sound
      <3> QED
        BY <1>1, <3>2
    <2> QED
      BY <1>1, <2>4, <2>5
  <1>2. ASSUME Shape, Heads, Fresh, Next PROVE A
    <2> SUFFICES ASSUME NEW u \in Clients, pc[u] # "failed", pc'[u] = "failed", Sound(asked[u])
                 PROVE  file[u] # asked[u] /\ ~(Sound(file[u]) /\ valid[file[u]])
      OBVIOUS
    <2>1. ASSUME NEW t \in Clients, Step(t) PROVE t = u
      <3>1. Moves(t)
        BY <1>2, <2>1, FindShape, VerifyShape, VerifyLockShape, OpenedShape, CompareShape, UnlockShape,
           UseShape, CheckShape, PixelsShape, AnswerShape, OpenShape, OpenLockShape, OpeningShape,
           HeadersShape, PublishShape, LowerShape, LimitShape, SweepLockShape, FindNameShape, SweepShape,
           EnterShape, StepOnShape, ReleaseShape, SaveNameShape, VisitShape, EndVisitShape,
           CheckTimeShape, InvalidateShape, InvalidateLockShape, ClearSpecShape, ErasePrintShape DEF Step
      <3> QED
        BY <3>1 DEF Moves
    <2>2. ASSUME NEW t \in Clients, NEW o \in Ops, NEW f \in Files, Call(t, o, f) PROVE FALSE
      <3>1. Moves(t) /\ pc'[t] # "failed"
        BY <1>2, <2>2, CallShape DEF Call, Set, Shape, Typed, ClockTyped, PerClient
      <3> QED
        BY <3>1 DEF Moves
    <2>3. ASSUME NEW f \in Files, Modify(f) PROVE FALSE
      BY <2>3 DEF Modify
    <2>4. ~UNCHANGED vars
      BY DEF vars
    <2>5. Step(u)
      BY <1>2, <2>1, <2>2, <2>3, <2>4 DEF Next
    <2>6. Check(u) \/ Pixels(u)
      BY <1>2, <2>5, FailsAt
    <2> QED
      BY <1>1, <1>2, <2>6
  <1>3. Shape /\ Locked /\ Heads /\ Fresh /\ [Next]_vars => [A]_vars
    BY <1>2
  <1> QED
    BY <1>3, FreshInvariant, PTL DEF SoundFilesAnswer, Spec
=============================================================================
