------------------------------ MODULE FileCache ------------------------------
(***************************************************************************)
(* The file side of the ImageCache (libtexture/imagecache.cpp): the map    *)
(* m_files, the ImageInput that each ImageCacheFile may hold open, the     *)
(* limit on open files and the clock that enforces it, fingerprints and    *)
(* duplicates, and the calls that close and invalidate files.              *)
(*                                                                         *)
(* A query is get_pixels by handle or by name, with the tile it needs not  *)
(* in the tile cache (or, alternatively, there: then no file is touched),  *)
(* or get_imagespec, which wants headers only.  What a file holds is       *)
(* Content[f][v], v counting the times it changed on disk: pixels, or      *)
(* Missing.  All files carry the SHA-1 of their pixels, and an ImageInput  *)
(* keeps reading the version it opened: files are replaced, not written    *)
(* in place.  Retries of a failed open are part of one attempt.            *)
(*                                                                         *)
(* The bins of m_files are locked as in module TileCache: a call that      *)
(* holds a bin only while it runs is one step, iterators hold theirs       *)
(* between steps.  owner is the recursive mutex m_input_mutex of a file:   *)
(* a thread holds at most one, and only verify_file takes it twice.        *)
(***************************************************************************)
EXTENDS Integers, Sequences, FiniteSets, FiniteSetsExt

CONSTANTS Clients,
          NFiles, NBins,   \* files are 1..NFiles, bins 1..NBins
          BinOf,           \* the bin of every file's name
          Prints,          \* pixels, as good as their fingerprints
          Content,         \* what the file holds: a sequence of versions
          Layout,          \* what else duplicates must agree in, per file
          Missing,
          Flaky,           \* files of which a tile may fail to read
          MaxOpen, Strict, \* m_max_open_files, m_max_open_files_strict
          Slack,           \* 16 in the code
          FullLoops,       \* 100 in the code
          Dedup,           \* m_deduplicate
          MayCall,         \* the calls, <<op, file>>, each client may make
          MaxCalls,        \* bound: how many calls, in all
          Quiet,           \* TRUE: no query overlaps an invalidation, and no
                           \* file changes while its headers are being read
          None

Files == 1..NFiles
Bins == 1..NBins
Queries == {"read", "info"}
Invalidations == {"invalidate", "refresh", "invalidate all", "refresh all"}
Ops == Queries \union Invalidations \union {"close", "close all"}
Closed == 0
Last(f) == Len(Content[f])
Versions == 1..Max({Last(f) : f \in Files})

ASSUME FileCacheAssumption ==
    /\ IsFiniteSet(Clients) /\ NFiles \in Nat \ {0} /\ NBins \in Nat \ {0}
    /\ BinOf \in [Files -> Bins]
    /\ IsFiniteSet(Prints) /\ Missing \notin Prints
    /\ Content \in [Files -> Seq(Prints \union {Missing})]
    /\ \A f \in Files : Content[f] # <<>>
    /\ DOMAIN Layout = Files /\ Flaky \subseteq Files
    /\ MaxOpen \in Nat \ {0} /\ Slack \in Nat /\ FullLoops \in Nat \ {0}
    /\ Strict \in BOOLEAN /\ Dedup \in BOOLEAN /\ Quiet \in BOOLEAN
    /\ MayCall \in [Clients -> SUBSET (Ops \X Files)] /\ MaxCalls \in Nat
    /\ None \notin Clients /\ None \notin Int /\ None \notin Prints

VARIABLES
    m_files,                   \* the files in the map; none is ever erased
    binLock,                   \* whose iterator holds the bin
    input, owner,              \* m_input: the version open; m_input_mutex
    valid, broken, used,       \* m_validspec, m_broken, m_used
    fingerprint, duplicate,    \* m_fingerprint, m_duplicate
    mod_time,                  \* m_mod_time: the version it was seen at
    openFiles,                 \* m_stat_open_files_current
    sweepMutex, sweepName,     \* m_file_sweep_mutex, m_file_sweep_name
    fingerprints,              \* m_fingerprints: print -> file
    disk, floor,               \* version on disk; (history) oldest version
                               \* not yet invalidated away
    calls,                     \* how many began
    gaveUp,                    \* (history) sweeps that ended before enough
                               \* files were closed
    pc, op, asked,             \* the call, and the file it is about
    file,                      \* verify_file's tf, open()'s this
    then,                      \* where open() returns to
    after,                     \* where set_imageinput returns to
    inp,                       \* the shared_ptr to an ImageInput
    cand,                      \* verify_file's dup
    key, bin, loops,           \* iterator, the bin it locks next; full_loops
    todo, print,               \* invalidate: files left, their fingerprint
    atStart                    \* history: floor (query) or disk at the call

perFile == <<input, owner, valid, broken, used, fingerprint, duplicate, mod_time>>
global  == <<m_files, binLock, openFiles, sweepMutex, sweepName, fingerprints>>
world   == <<disk, floor, calls, gaveUp>>
mine    == <<op, asked, then, after, inp, cand, todo, print, atStart>>
clock   == <<key, bin, loops>>
vars    == <<perFile, global, world, pc, file, mine, clock>>

Set(f, x, v) == [f EXCEPT ![x] = v]
Goto(t, from, to) == pc[t] = from /\ pc' = Set(pc, t, to)
Free(b) == binLock[b] = None
InBin(b) == {f \in m_files : BinOf[f] = b}
OnDisk(f) == Content[f][disk[f]]

Init ==
    /\ m_files = {} /\ binLock = [b \in Bins |-> None]
    /\ input = [f \in Files |-> Closed] /\ owner = [f \in Files |-> None]
    /\ valid = [f \in Files |-> FALSE] /\ broken = valid /\ used = [f \in Files |-> TRUE]
    /\ fingerprint = [f \in Files |-> None] /\ duplicate = fingerprint
    /\ mod_time = [f \in Files |-> Closed]
    /\ openFiles = 0 /\ sweepMutex = None /\ sweepName = None
    /\ fingerprints = [p \in Prints |-> None]
    /\ disk = [f \in Files |-> 1] /\ floor = disk /\ calls = 0 /\ gaveUp = 0
    /\ pc = [t \in Clients |-> "idle"] /\ op = pc
    /\ asked = [t \in Clients |-> None] /\ file = asked /\ cand = asked
    /\ key = asked /\ print = asked
    /\ then = [t \in Clients |-> "idle"] /\ after = then
    /\ inp = [t \in Clients |-> Closed]
    /\ bin = [t \in Clients |-> 0] /\ loops = bin
    /\ todo = [t \in Clients |-> {}] /\ atStart = [t \in Clients |-> disk]
-----------------------------------------------------------------------------
(* A call begins.  calls bounds how many do.                                 *)

Invalidating(t) == op[t] \in Invalidations
Querying(t) == op[t] \in Queries

Call(t, o, f) ==
    /\ pc[t] = "idle" /\ <<o, f>> \in MayCall[t]
    /\ calls < MaxCalls /\ calls' = calls + 1
    /\ Quiet /\ o \in Queries => \A u \in Clients : ~Invalidating(u)
    /\ Quiet /\ o \in Invalidations =>
          \A u \in Clients : ~Invalidating(u) /\ ~Querying(u)
    /\ op' = Set(op, t, o) /\ asked' = Set(asked, t, f) /\ file' = Set(file, t, f)
    /\ atStart' = Set(atStart, t, IF o \in Queries THEN floor ELSE disk)
    /\ pc' = Set(pc, t, IF o \in {"invalidate all", "refresh all", "close all"}
                        THEN "begin" ELSE "find")
    /\ bin' = Set(bin, t, IF pc'[t] = "begin" THEN 1 ELSE 0)
    /\ UNCHANGED <<perFile, global, disk, floor, gaveUp, then, after, inp, cand, todo, print,
                   key, loops>>

\* Nothing of the call is left behind, and what its locals held is forgotten.
Done(t) ==
    /\ pc' = Set(pc, t, "idle") /\ op' = Set(op, t, "idle")
    /\ asked' = Set(asked, t, None) /\ file' = Set(file, t, None)
    /\ then' = Set(then, t, "idle") /\ after' = Set(after, t, "idle")
    /\ inp' = Set(inp, t, Closed) /\ cand' = Set(cand, t, None)
    /\ todo' = Set(todo, t, {}) /\ print' = Set(print, t, None)
    /\ atStart' = Set(atStart, t, [f \in Files |-> 1])

\* The entry of a file: a query by name makes one, a handle stands for one
\* that is there, the other calls end when there is none.  close() keeps the
\* bin locked through its iterator.
Find(t) ==
    LET f == asked[t] IN
    /\ pc[t] = "find"
    /\ f \in m_files \/ Free(BinOf[f])
    /\ IF Querying(t) \/ f \in m_files
       THEN /\ pc' = Set(pc, t, IF Querying(t) THEN "verify"
                                ELSE IF op[t] = "close" THEN "visit"
                                ELSE IF op[t] = "refresh" THEN "check time"
                                ELSE "invalidate")
            /\ IF op[t] = "close"
               THEN /\ Free(BinOf[f]) /\ binLock' = Set(binLock, BinOf[f], t)
                    /\ key' = Set(key, t, f)
               ELSE UNCHANGED <<binLock, key>>
            /\ m_files' = m_files \union {f}
            /\ todo' = Set(todo, t, IF Invalidating(t) THEN {f} ELSE {})
            /\ UNCHANGED <<file, op, asked, then, after, inp, cand, print, atStart>>
       ELSE Done(t) /\ UNCHANGED <<m_files, binLock, key>>
    /\ UNCHANGED <<perFile, openFiles, sweepMutex, sweepName, fingerprints, world,
                   bin, loops>>
-----------------------------------------------------------------------------
(* set_imageinput(empty), from everywhere                                    *)

\* Mutant: the count is lowered whether or not something was open.
MutShut(t, f, to) ==
    /\ input' = Set(input, f, Closed)
    /\ after' = Set(after, t, to) /\ pc' = Set(pc, t, "lower")
\* close(): the exchange; the count is lowered if something was open.
Shut(t, f, to) ==
    /\ input' = Set(input, f, Closed)
    /\ IF input[f] # Closed THEN after' = Set(after, t, to) /\ pc' = Set(pc, t, "lower")
                            ELSE pc' = Set(pc, t, to) /\ UNCHANGED after

Lower(t) ==
    /\ Goto(t, "lower", after[t]) /\ openFiles' = openFiles - 1
    /\ after' = Set(after, t, "idle")
    /\ UNCHANGED <<perFile, m_files, binLock, sweepMutex, sweepName, fingerprints, world,
                   file, op, asked, then, inp, cand, todo, print, atStart, clock>>
-----------------------------------------------------------------------------
(* verify_file.  From "verified" on, file[t] is what it returned.            *)

\* validspec() is looked at without the mutex ...
Verify(t) ==
    /\ pc[t] = "verify"
    /\ pc' = Set(pc, t, IF valid[file[t]] THEN "use" ELSE "verify lock")
    /\ UNCHANGED <<perFile, global, world, file, mine, clock>>

\* ... and again with it.
VerifyLock(t) ==
    LET f == file[t] IN
    /\ pc[t] = "verify lock" /\ owner[f] = None
    /\ IF valid[f]
       THEN pc' = Set(pc, t, "use") /\ UNCHANGED <<owner, then>>
       ELSE /\ owner' = Set(owner, f, t) /\ pc' = Set(pc, t, "open")
            /\ then' = Set(then, t, "opened")
    /\ UNCHANGED <<input, valid, broken, used, fingerprint, duplicate, mod_time,
                   global, world, file, op, asked, after, inp, cand, todo, print,
                   atStart, clock>>

\* After open(): has another file the same fingerprint?  The first file with
\* it is entered.
Opened(t) ==
    LET f == file[t]
        p == fingerprint[f]
        d == fingerprints[p]
    IN
    /\ pc[t] = "opened"
    /\ IF Dedup /\ p # None /\ d \notin {None, f}
       THEN /\ pc' = Set(pc, t, "compare") /\ cand' = Set(cand, t, d)
            /\ UNCHANGED <<owner, fingerprints>>
       ELSE /\ fingerprints' = IF Dedup /\ p # None THEN Set(fingerprints, p, f)
                                                    ELSE fingerprints
            /\ pc' = Set(pc, t, "use") /\ owner' = Set(owner, f, None)
            /\ UNCHANGED cand
    /\ UNCHANGED <<input, valid, broken, used, fingerprint, duplicate, mod_time,
                   m_files, binLock, openFiles, sweepMutex, sweepName, world, file,
                   op, asked, then, after, inp, todo, print, atStart, clock>>

\* Without headers, subimageinfo(0) reads past the end: any outcome.
Matches(f, d) ==
    IF valid[f] /\ valid[d] THEN {Layout[f] = Layout[d]} ELSE BOOLEAN

\* Same shape: file[t] becomes a duplicate, and is closed.
Compare(t) ==
    LET f == file[t] IN
    /\ pc[t] = "compare"
    /\ \E same \in Matches(f, cand[t]) :
          IF same
          THEN /\ duplicate' = Set(duplicate, f, cand[t]) /\ Shut(t, f, "unlock")
               /\ UNCHANGED owner
          ELSE /\ pc' = Set(pc, t, "use") /\ owner' = Set(owner, f, None)
               /\ UNCHANGED <<duplicate, input, after>>
    /\ cand' = Set(cand, t, None)
    /\ UNCHANGED <<valid, broken, used, fingerprint, mod_time, global, world, file,
                   op, asked, then, inp, todo, print, atStart, clock>>

Unlock(t) ==
    /\ Goto(t, "unlock", "use") /\ owner' = Set(owner, file[t], None)
    /\ UNCHANGED <<input, valid, broken, used, fingerprint, duplicate, mod_time,
                   global, world, file, mine, clock>>

\* Pixels, unlike headers, come from the canonical file.
Use(t) ==
    LET f == file[t]
        g == IF duplicate[f] # None THEN duplicate[f] ELSE f
    IN
    /\ Goto(t, "use", "check")
    /\ IF op[t] = "read"
       THEN file' = Set(file, t, g) /\ used' = Set(used, g, TRUE)
       ELSE UNCHANGED <<file, used>>
    /\ UNCHANGED <<input, owner, valid, broken, fingerprint, duplicate, mod_time,
                   global, world, mine, clock>>

\* get_pixels, get_imagespec: no broken file, and there is a subimage 0.  A
\* tile that is not in the tile cache has to be read.
Check(t) ==
    LET f == file[t]
        good == ~broken[f] /\ valid[f]
    IN
    /\ pc[t] = "check"
    /\ pc' = Set(pc, t, IF ~good THEN "failed"
                        ELSE IF op[t] = "info" THEN "answered" ELSE "open")
    /\ then' = Set(then, t, "pixels")
    /\ UNCHANGED <<perFile, global, world, file, op, asked, after, inp, cand, todo,
                   print, atStart, clock>>

\* read_tiles through the ImageInput that open() returned, whoever closed or
\* reopened the file since.
Pixels(t) ==
    LET f == file[t] IN
    /\ pc[t] = "pixels"
    /\ \/ inp[t] = Closed /\ pc' = Set(pc, t, "failed") /\ UNCHANGED broken
       \/ inp[t] # Closed /\ pc' = Set(pc, t, "answered") /\ UNCHANGED broken
       \/ /\ inp[t] # Closed /\ f \in Flaky
          /\ pc' = Set(pc, t, "failed") /\ broken' = Set(broken, f, TRUE)
    /\ UNCHANGED <<input, owner, valid, used, fingerprint, duplicate, mod_time, global,
                   world, file, mine, clock>>

Answer(t) ==
    /\ pc[t] \in {"answered", "failed"} /\ Done(t)
    /\ UNCHANGED <<perFile, global, world, clock>>
-----------------------------------------------------------------------------
(* open().  It returns to then[t]: to verify_file, which holds the mutex, or *)
(* to read_tile, which does not.                                             *)

\* verify_file is not interested in the ImageInput.
Returns(t, v) ==
    /\ pc' = Set(pc, t, then[t])
    /\ inp' = Set(inp, t, IF then[t] = "pixels" THEN v ELSE Closed)
\* Mutant: read_tile's hold on the mutex of a file is never given up.
MutGiveUp(t) == UNCHANGED owner
\* open()'s own hold on the mutex ends.
GiveUp(t) == owner' = IF then[t] = "pixels" THEN Set(owner, file[t], None) ELSE owner

Open(t) ==
    LET f == file[t]
        go == ~broken[f] /\ input[f] = Closed
    IN
    /\ pc[t] = "open"
    /\ IF go THEN pc' = Set(pc, t, "limit") /\ UNCHANGED inp
             ELSE Returns(t, IF broken[f] THEN Closed ELSE input[f])
    /\ UNCHANGED <<perFile, global, world, file, op, asked, then, after, cand, todo,
                   print, atStart, clock>>

\* Mutant: does not check again.
MutOpenLock(t) ==
    LET f == file[t]
        go == ~broken[f]
    IN
    /\ pc[t] = "open lock" /\ owner[f] \in {None, t}
    /\ IF go THEN owner' = Set(owner, f, t) /\ pc' = Set(pc, t, "opening") /\ UNCHANGED inp
             ELSE UNCHANGED owner /\ Returns(t, IF broken[f] THEN Closed ELSE input[f])
    /\ UNCHANGED <<input, valid, broken, used, fingerprint, duplicate, mod_time, global,
                   world, file, op, asked, then, after, cand, todo, print, atStart, clock>>
\* "JUST IN CASE somebody else opened the file we want".
OpenLock(t) ==
    LET f == file[t]
        go == ~broken[f] /\ input[f] = Closed
    IN
    /\ pc[t] = "open lock" /\ owner[f] \in {None, t}
    /\ IF go THEN owner' = Set(owner, f, t) /\ pc' = Set(pc, t, "opening") /\ UNCHANGED inp
             ELSE UNCHANGED owner /\ Returns(t, IF broken[f] THEN Closed ELSE input[f])
    /\ UNCHANGED <<input, valid, broken, used, fingerprint, duplicate, mod_time, global,
                   world, file, op, asked, then, after, cand, todo, print, atStart, clock>>

\* Mutant: a file that is opened again is not counted again.
MutOpening(t) ==
    LET f == file[t] IN
    /\ pc[t] = "opening"
    /\ IF OnDisk(f) = Missing
       THEN /\ broken' = Set(broken, f, TRUE) /\ valid' = Set(valid, f, FALSE)
            /\ Returns(t, Closed) /\ GiveUp(t) /\ UNCHANGED <<used, openFiles>>
       ELSE /\ broken' = Set(broken, f, FALSE) /\ used' = Set(used, f, TRUE)
            /\ inp' = Set(inp, t, disk[f])
            /\ pc' = Set(pc, t, IF valid[f] THEN "publish" ELSE "headers")
            /\ UNCHANGED openFiles
            /\ UNCHANGED <<valid, owner>>
    /\ UNCHANGED <<input, fingerprint, duplicate, mod_time, m_files, binLock, sweepMutex,
                   sweepName, fingerprints, world, file, op, asked, then, after, cand,
                   todo, print, atStart, clock>>
\* The reader opens the file, or the file is marked broken.  A file whose
\* headers are still valid keeps them.  set_imageinput raises the count ...
Opening(t) ==
    LET f == file[t] IN
    /\ pc[t] = "opening"
    /\ IF OnDisk(f) = Missing
       THEN /\ broken' = Set(broken, f, TRUE) /\ valid' = Set(valid, f, FALSE)
            /\ Returns(t, Closed) /\ GiveUp(t) /\ UNCHANGED <<used, openFiles>>
       ELSE /\ broken' = Set(broken, f, FALSE) /\ used' = Set(used, f, TRUE)
            /\ inp' = Set(inp, t, disk[f])
            /\ pc' = Set(pc, t, IF valid[f] THEN "publish" ELSE "headers")
            /\ openFiles' = openFiles + (IF valid[f] THEN 1 ELSE 0)
            /\ UNCHANGED <<valid, owner>>
    /\ UNCHANGED <<input, fingerprint, duplicate, mod_time, m_files, binLock, sweepMutex,
                   sweepName, fingerprints, world, file, op, asked, then, after, cand,
                   todo, print, atStart, clock>>

\* All subimages' headers; init_from_spec looks at the file's time last.
Headers(t) ==
    LET f == file[t] IN
    /\ Goto(t, "headers", "publish")
    /\ valid' = Set(valid, f, TRUE) /\ mod_time' = Set(mod_time, f, disk[f])
    /\ fingerprint' = Set(fingerprint, f, Content[f][inp[t]])
    /\ openFiles' = openFiles + 1
    /\ UNCHANGED <<input, owner, broken, used, duplicate, m_files, binLock, sweepMutex,
                   sweepName, fingerprints, world, file, mine, clock>>

\* ... exchanges m_input, and lowers the count if it replaced something.
Publish(t) ==
    LET f == file[t] IN
    /\ pc[t] = "publish" /\ input' = Set(input, f, inp[t])
    /\ openFiles' = openFiles - (IF input[f] # Closed THEN 1 ELSE 0)
    /\ Returns(t, inp[t]) /\ GiveUp(t)
    /\ UNCHANGED <<valid, broken, used, fingerprint, duplicate, mod_time, m_files, binLock,
                   sweepMutex, sweepName, fingerprints, world, file, op, asked, then, after,
                   cand, todo, print, atStart, clock>>

-----------------------------------------------------------------------------
(* check_max_files.  key[t] is the entry the iterator is at, its bin locked  *)
(* by t; None past the end.  The iterations of the other calls go the same   *)
(* way, with "visit" for the head of their loops.                            *)

\* Where an iterator that came to k takes its loop.  A sweep that begins
\* again does not look at the head of the loop first; begin() of an empty map
\* would end it.
Goes(t, k) ==
    IF ~Querying(t) THEN "visit"
    ELSE IF pc[t] # "begin" THEN "sweep"
    ELSE IF k = None THEN "save name" ELSE "release"

TakeSweep(t) ==
    /\ sweepMutex = None /\ sweepMutex' = t
    /\ pc' = Set(pc, t, IF sweepName = None THEN "sweep" ELSE "find name")

\* Mutant: off by one.
MutLimit(t) ==
    LET over == openFiles > MaxOpen
        block == Strict /\ openFiles >= MaxOpen + Slack
        pass == ~over \/ (~block /\ sweepMutex # None)
    IN
    /\ pc[t] = "limit"
    /\ \/ over /\ ~block /\ TakeSweep(t)
       \/ over /\ block /\ pc' = Set(pc, t, "sweep lock") /\ UNCHANGED sweepMutex
       \/ pass /\ pc' = Set(pc, t, "open lock") /\ UNCHANGED sweepMutex
    /\ UNCHANGED <<perFile, m_files, binLock, openFiles, sweepName, fingerprints, world,
                   file, mine, clock>>
Limit(t) ==
    LET over == openFiles >= MaxOpen
        block == Strict /\ openFiles >= MaxOpen + Slack
        pass == ~over \/ (~block /\ sweepMutex # None)
    IN
    /\ pc[t] = "limit"
    /\ \/ over /\ ~block /\ TakeSweep(t)
       \/ over /\ block /\ pc' = Set(pc, t, "sweep lock") /\ UNCHANGED sweepMutex
       \/ pass /\ pc' = Set(pc, t, "open lock") /\ UNCHANGED sweepMutex
    /\ UNCHANGED <<perFile, m_files, binLock, openFiles, sweepName, fingerprints, world,
                   file, mine, clock>>

SweepLock(t) ==
    /\ pc[t] = "sweep lock" /\ TakeSweep(t)
    /\ UNCHANGED <<perFile, m_files, binLock, openFiles, sweepName, fingerprints, world,
                   file, mine, clock>>

FindName(t) ==
    /\ Goto(t, "find name", "sweep") /\ Free(BinOf[sweepName])
    /\ key' = Set(key, t, sweepName) /\ binLock' = Set(binLock, BinOf[sweepName], t)
    /\ UNCHANGED <<perFile, m_files, openFiles, sweepMutex, sweepName, fingerprints,
                   world, file, mine, bin, loops>>

\* The head of the loop.
Sweep(t) ==
    LET on == openFiles >= MaxOpen /\ loops[t] <= FullLoops IN
    /\ pc[t] = "sweep"
    /\ pc' = Set(pc, t, IF ~on THEN "save name"
                        ELSE IF key[t] = None THEN "begin" ELSE "release")
    /\ gaveUp' = gaveUp + (IF ~on /\ openFiles >= MaxOpen THEN 1 ELSE 0)
    /\ IF on /\ key[t] = None
       THEN loops' = Set(loops, t, loops[t] + 1) /\ bin' = Set(bin, t, 1)
       ELSE UNCHANGED <<loops, bin>>
    /\ UNCHANGED <<perFile, global, disk, floor, calls, file, mine, key>>

\* begin(), and ++ past the end of a bin: lock the next one, and stay there
\* unless it is empty.
Enter(t) ==
    LET b == bin[t]
        k == IF InBin(b) # {} THEN Min(InBin(b)) ELSE None
        on == k = None /\ b < NBins
    IN
    /\ pc[t] \in {"begin", "next"} /\ Free(b) /\ key' = Set(key, t, k)
    /\ binLock' = IF k # None THEN Set(binLock, b, t) ELSE binLock
    /\ bin' = Set(bin, t, IF on THEN b + 1 ELSE 0)
    /\ pc' = Set(pc, t, IF on THEN pc[t] ELSE Goes(t, k))
    /\ UNCHANGED <<perFile, m_files, openFiles, sweepMutex, sweepName, fingerprints,
                   world, file, mine, loops>>

\* operator++.  The iterator of close() goes out of scope instead.
StepOn(t) ==
    LET k == key[t]
        b == BinOf[k]
        rest == {f \in InBin(b) : f > k}
    IN
    /\ pc[t] = "step"
    /\ IF rest # {} /\ op[t] # "close"
       THEN key' = Set(key, t, Min(rest)) /\ UNCHANGED <<binLock, bin>>
       ELSE /\ key' = Set(key, t, None) /\ binLock' = Set(binLock, b, None)
            /\ bin' = Set(bin, t, IF op[t] # "close" /\ b < NBins THEN b + 1 ELSE 0)
    /\ IF op[t] = "close" THEN Done(t)
       ELSE /\ pc' = Set(pc, t, IF bin'[t] # 0 THEN "next" ELSE Goes(t, key'[t]))
            /\ UNCHANGED <<file, mine>>
    /\ UNCHANGED <<perFile, m_files, openFiles, sweepMutex, sweepName, fingerprints,
                   world, loops>>

\* release(): a file whose mutex somebody else keeps for 100 ms is passed
\* over, a file used since the last turn gets another.  The mutex is given up
\* with the exchange: the count that close() lowers after it is not the
\* mutex's business.
Release(t) ==
    LET k == key[t] IN
    /\ pc[t] = "release"
    /\ \/ /\ owner[k] \notin {None, t}
          /\ pc' = Set(pc, t, "step") /\ UNCHANGED <<input, used, after>>
       \/ /\ owner[k] \in {None, t} /\ used[k]
          /\ used' = Set(used, k, FALSE) /\ pc' = Set(pc, t, "step")
          /\ UNCHANGED <<input, after>>
       \/ owner[k] \in {None, t} /\ ~used[k] /\ Shut(t, k, "step") /\ UNCHANGED used
    /\ UNCHANGED <<owner, valid, broken, fingerprint, duplicate, mod_time, global, world,
                   file, op, asked, then, inp, cand, todo, print, atStart, clock>>

SaveName(t) ==
    /\ Goto(t, "save name", "open lock")
    /\ sweepName' = key[t] /\ sweepMutex' = None
    /\ binLock' = [b \in Bins |-> IF binLock[b] = t THEN None ELSE binLock[b]]
    /\ key' = Set(key, t, None) /\ loops' = Set(loops, t, 0)
    /\ UNCHANGED <<perFile, m_files, openFiles, fingerprints, world, file, mine, bin>>
-----------------------------------------------------------------------------
(* close, close_all, invalidate, invalidate_all                              *)

\* An invalidation that is over has cleared away all that the cache knew of
\* the files' versions before the call.
Forgotten(t, S) ==
    floor' = [f \in Files |-> IF f \in S THEN Max({floor[f], atStart[t][f]}) ELSE floor[f]]

\* Mutant: a file is stale when its time is earlier.
MutStale(f) == broken[f] \/ disk[f] < mod_time[f]
\* Invalidation without force looks for these.
Stale(f) == broken[f] \/ mod_time[f] # disk[f]

\* Mutant: invalidate_all(true) leaves the files open.
MutVisit(t) ==
    LET k == key[t] IN
    /\ pc[t] = "visit" /\ k # None
    /\ \/ /\ op[t] \in {"close", "close all"} /\ Shut(t, k, "step")
          /\ UNCHANGED <<owner, todo>>
       \/ /\ op[t] = "invalidate all" /\ owner[k] = None /\ owner' = Set(owner, k, t)
          /\ pc' = Set(pc, t, "clear spec") /\ UNCHANGED <<input, after, todo>>
       \/ /\ op[t] = "refresh all" /\ owner[k] = None
          /\ todo' = Set(todo, t, todo[t] \union (IF Stale(k) \/ OnDisk(k) = Missing THEN {k} ELSE {}))
          /\ pc' = Set(pc, t, "step") /\ UNCHANGED <<input, owner, after>>
    /\ UNCHANGED <<valid, broken, used, fingerprint, duplicate, mod_time, global, world,
                   file, op, asked, then, inp, cand, print, atStart, clock>>
\* The body of the loops over m_files: with the bin locked, invalidate_all
\* waits for the mutex of every file.  close() and close_all() do not.
Visit(t) ==
    LET k == key[t] IN
    /\ pc[t] = "visit" /\ k # None
    /\ \/ /\ op[t] \in {"close", "close all"} /\ Shut(t, k, "step")
          /\ UNCHANGED <<owner, todo>>
       \/ /\ op[t] = "invalidate all" /\ owner[k] = None /\ owner' = Set(owner, k, t)
          /\ Shut(t, k, "clear spec") /\ UNCHANGED todo
       \/ /\ op[t] = "refresh all" /\ owner[k] = None
          /\ todo' = Set(todo, t, todo[t] \union (IF Stale(k) \/ OnDisk(k) = Missing THEN {k} ELSE {}))
          /\ pc' = Set(pc, t, "step") /\ UNCHANGED <<input, owner, after>>
    /\ UNCHANGED <<valid, broken, used, fingerprint, duplicate, mod_time, global, world,
                   file, op, asked, then, inp, cand, print, atStart, clock>>

\* Mutant: invalidate_all(true) leaves the fingerprints.
MutEndVisit(t) ==
    /\ pc[t] = "visit" /\ key[t] = None
    /\ IF op[t] = "refresh all" /\ todo[t] # {}
       THEN pc' = Set(pc, t, "invalidate") /\ UNCHANGED <<file, mine, floor>>
       ELSE Done(t) /\ Forgotten(t, IF Invalidating(t) THEN Files ELSE {})
    /\ UNCHANGED fingerprints
    /\ UNCHANGED <<perFile, m_files, binLock, openFiles, sweepMutex, sweepName, disk,
                   calls, gaveUp, clock>>
\* The loop is over.  invalidate_all(true) clears all fingerprints.
EndVisit(t) ==
    /\ pc[t] = "visit" /\ key[t] = None
    /\ IF op[t] = "refresh all" /\ todo[t] # {}
       THEN pc' = Set(pc, t, "invalidate") /\ UNCHANGED <<file, mine, floor>>
       ELSE Done(t) /\ Forgotten(t, IF Invalidating(t) THEN Files ELSE {})
    /\ fingerprints' = IF op[t] = "invalidate all" THEN [p \in Prints |-> None]
                                                   ELSE fingerprints
    /\ UNCHANGED <<perFile, m_files, binLock, openFiles, sweepMutex, sweepName, disk,
                   calls, gaveUp, clock>>

\* invalidate(handle, force = false) leaves a file alone whose time is the same.
CheckTime(t) ==
    LET f == asked[t] IN
    /\ pc[t] = "check time" /\ owner[f] = None
    /\ IF Stale(f) THEN pc' = Set(pc, t, "invalidate") /\ UNCHANGED <<file, mine, floor>>
                   ELSE Done(t) /\ Forgotten(t, {f})
    /\ UNCHANGED <<perFile, global, disk, calls, gaveUp, clock>>

\* invalidate(handle): the tiles are erased (module TileCache), the
\* fingerprint is read without the mutex.  invalidate_all looks files up by
\* name again.
Invalidate(t) ==
    LET f == Min(todo[t]) IN
    /\ Goto(t, "invalidate", "invalidate lock")
    /\ op[t] = "refresh all" => Free(BinOf[f])
    /\ print' = Set(print, t, fingerprint[f])
    /\ UNCHANGED <<perFile, global, world, file, op, asked, then, after, inp, cand, todo,
                   atStart, clock>>

InvalidateLock(t) ==
    LET f == Min(todo[t]) IN
    /\ pc[t] = "invalidate lock" /\ owner[f] = None /\ owner' = Set(owner, f, t)
    /\ Shut(t, f, "clear spec")
    /\ UNCHANGED <<valid, broken, used, fingerprint, duplicate, mod_time, global, world,
                   file, op, asked, then, inp, cand, todo, print, atStart, clock>>

\* The rest of ImageCacheFile::invalidate.
ClearSpec(t) ==
    LET f == IF op[t] = "invalidate all" THEN key[t] ELSE Min(todo[t]) IN
    /\ Goto(t, "clear spec", IF op[t] = "invalidate all" THEN "step" ELSE "erase print")
    /\ valid' = Set(valid, f, FALSE) /\ broken' = Set(broken, f, FALSE)
    /\ fingerprint' = Set(fingerprint, f, None) /\ duplicate' = Set(duplicate, f, None)
    /\ owner' = Set(owner, f, None)
    /\ UNCHANGED <<input, used, mod_time, global, world, file, mine, clock>>

\* The fingerprint that was read, whichever file is entered for it.
ErasePrint(t) ==
    LET f == Min(todo[t])
        rest == todo[t] \ {f}
    IN
    /\ pc[t] = "erase print"
    /\ fingerprints' = [p \in Prints |-> IF p = print[t] THEN None ELSE fingerprints[p]]
    /\ IF rest # {}
       THEN /\ pc' = Set(pc, t, "invalidate") /\ todo' = Set(todo, t, rest)
            /\ Forgotten(t, {})
            /\ UNCHANGED <<file, op, asked, then, after, inp, cand, print, atStart>>
       ELSE Done(t) /\ Forgotten(t, IF op[t] = "refresh all" THEN Files ELSE {f})
    /\ UNCHANGED <<perFile, m_files, binLock, openFiles, sweepMutex, sweepName, disk,
                   calls, gaveUp, clock>>

\* The environment: somebody replaces the file.
Modify(f) ==
    /\ disk[f] < Last(f) /\ disk' = [disk EXCEPT ![f] = @ + 1]
    /\ Quiet => \A t \in Clients : pc[t] # "headers" \/ file[t] # f
    /\ UNCHANGED <<perFile, global, floor, calls, gaveUp, pc, file, mine, clock>>
-----------------------------------------------------------------------------
Step(t) ==
    \/ Find(t) \/ Verify(t) \/ VerifyLock(t) \/ Opened(t) \/ Compare(t) \/ Unlock(t)
    \/ Use(t) \/ Check(t) \/ Pixels(t) \/ Answer(t)
    \/ Open(t) \/ OpenLock(t) \/ Opening(t) \/ Headers(t) \/ Publish(t) \/ Lower(t)
    \/ Limit(t) \/ SweepLock(t) \/ FindName(t) \/ Sweep(t) \/ Enter(t) \/ StepOn(t)
    \/ Release(t) \/ SaveName(t)
    \/ Visit(t) \/ EndVisit(t) \/ CheckTime(t) \/ Invalidate(t) \/ InvalidateLock(t)
    \/ ClearSpec(t) \/ ErasePrint(t)

\* A client may stay idle for ever.
Next ==
    \/ \E t \in Clients : Step(t)
    \/ \E t \in Clients, o \in Ops, f \in Files : Call(t, o, f)
    \/ \E f \in Files : Modify(f)
    \/ (\E t \in Clients : pc[t] = "idle") /\ UNCHANGED vars

Spec == Init /\ [][Next]_vars
\* Threads inside a call run; whoever finds a lock free takes it.
FairSpec == Spec /\ \A t \in Clients : WF_vars(Step(t))
-----------------------------------------------------------------------------
MaybeFile == Files \union {None}
MaybeClient == Clients \union {None}
PerClient(S) == [Clients -> S]
OnFiles(S) == [Files -> S]
Places == {"idle", "find", "verify", "verify lock", "opened", "compare", "unlock", "use",
    "check", "pixels", "answered", "failed", "open", "open lock", "opening", "headers",
    "publish", "lower", "limit", "sweep lock", "find name", "sweep", "begin", "next", "step",
    "release", "save name", "visit", "check time", "invalidate", "invalidate lock",
    "clear spec", "erase print"}

TypeOK ==
    /\ m_files \subseteq Files /\ binLock \in [Bins -> MaybeClient]
    /\ input \in OnFiles(Versions \union {Closed}) /\ owner \in OnFiles(MaybeClient)
    /\ valid \in OnFiles(BOOLEAN) /\ broken \in OnFiles(BOOLEAN) /\ used \in OnFiles(BOOLEAN)
    /\ fingerprint \in OnFiles(Prints \union {None}) /\ duplicate \in OnFiles(MaybeFile)
    /\ mod_time \in OnFiles(Versions \union {Closed})
    /\ openFiles \in 0..NFiles + Cardinality(Clients)
    /\ sweepMutex \in MaybeClient /\ sweepName \in MaybeFile
    /\ fingerprints \in [Prints -> MaybeFile]
    /\ disk \in OnFiles(Versions) /\ floor \in OnFiles(Versions) /\ calls \in 0..MaxCalls
    /\ gaveUp \in Nat
    /\ pc \in PerClient(Places) /\ op \in PerClient(Ops \union {"idle"})
    /\ asked \in PerClient(MaybeFile) /\ file \in PerClient(MaybeFile)
    /\ then \in PerClient({"idle", "opened", "pixels"}) /\ after \in PerClient(Places)
    /\ inp \in PerClient(Versions \union {Closed}) /\ cand \in PerClient(MaybeFile)
    /\ key \in PerClient(MaybeFile) /\ bin \in PerClient(0..NBins)
    /\ loops \in PerClient(0..FullLoops + 1) /\ todo \in PerClient(SUBSET Files)
    /\ print \in PerClient(Prints \union {None}) /\ atStart \in PerClient(OnFiles(Versions))

\* m_stat_open_files_current, which the limit is enforced by, counts the
\* files that are open and the threads between the two halves of
\* set_imageinput, although closing takes no lock: it never drifts.
CountsInputs ==
    openFiles = Cardinality({f \in Files : input[f] # Closed})
                + Cardinality({t \in Clients : pc[t] \in {"publish", "lower"}})

\* A file is opened by one thread at a time, and an ImageInput that is
\* published replaces none that another thread opened meanwhile.
OneOpener ==
    \A t \in Clients : pc[t] = "publish" =>
        /\ input[file[t]] = Closed
        /\ \A u \in Clients \ {t} :
              pc[u] \in {"opening", "headers", "publish"} => file[u] # file[t]

\* With max_open_files_strict, "a small percentage" is at most Slack plus one
\* file per thread, however long a sweep takes or whatever it passes over, plus
\* one for every sweep that gave up.
OpenBounded ==
    Strict => openFiles < MaxOpen + Slack + Cardinality(Clients) + gaveUp

\* The pixels are some that the file asked for has had on disk since the last
\* invalidation that ended before the query.
AnswerIsCurrent(t) ==
    LET f == asked[t] IN
    Content[file[t]][inp[t]] \in {Content[f][v] : v \in atStart[t][f]..disk[f]}
\* So they are if they come from that file, or from a duplicate of it that is
\* never replaced ...
AnswersAreCurrent ==
    \A t \in Clients :
        /\ pc[t] = "answered" /\ op[t] = "read"
        /\ file[t] = asked[t] \/ Last(file[t]) = 1
        => AnswerIsCurrent(t)
\* ... but not if the duplicate is, although it is invalidated then.
DuplicatesAreCurrent ==
    \A t \in Clients : pc[t] = "answered" /\ op[t] = "read" => AnswerIsCurrent(t)

\* Always there, and its tiles can be read.
Sound(f) == f \notin Flaky /\ \A v \in 1..Last(f) : Content[f][v] # Missing
\* No query of such a file fails, unless it is answered from a duplicate that is
\* not sound, or that was invalidated after this file was found to duplicate it.
SoundFilesAnswer ==
    [][\A t \in Clients :
          pc[t] # "failed" /\ pc'[t] = "failed" /\ Sound(asked[t]) =>
              file[t] # asked[t] /\ ~(Sound(file[t]) /\ valid[file[t]])]_vars

\* subimageinfo() asserts that there is a subimage 0, where verify_file
\* compares two files and where read_tile begins ...
HeadersThere ==
    \A t \in Clients :
        /\ pc[t] = "compare" => valid[file[t]] /\ valid[cand[t]]
        /\ pc[t] = "open" /\ then[t] = "pixels" => valid[file[t]]
\* ... which holds at least of files that are always there, whatever is closed,
\* invalidated or marked broken around them.
SoundHeadersThere ==
    \A t \in Clients :
        /\ pc[t] = "compare" => \A f \in {file[t], cand[t]} : Sound(f) => valid[f]
        /\ pc[t] = "open" /\ then[t] = "pixels" /\ Sound(file[t]) => valid[file[t]]

WaitsForFile(t, f) ==
    pc[t] = "visit" /\ key[t] = f /\ op[t] \in {"invalidate all", "refresh all"}
WaitsForBin(t, b) ==
    \/ pc[t] \in {"begin", "next"} /\ bin[t] = b
    \/ pc[t] = "find name" /\ BinOf[sweepName] = b
\* Nobody who has a bin of m_files locked waits for the mutex of a file whose
\* holder waits for that bin.
NoStandoff ==
    \A t, u \in Clients, f \in Files, b \in Bins :
        ~ /\ binLock[b] = t /\ WaitsForFile(t, f)
          /\ t # u /\ owner[f] = u /\ WaitsForBin(u, b)

\* Every call ends: whoever waits for a mutex, a bin or the sweep gets it,
\* and the sweep gives up when no file can be closed.
CallsEnd == \A t \in Clients : pc[t] # "idle" ~> pc[t] = "idle"
=============================================================================
