----------------------------- MODULE TileCache ------------------------------
(***************************************************************************)
(* The tile side of the ImageCache (libtexture/imagecache.cpp,             *)
(* imagecache_pvt.h): the shared map from TileID to reference-counted      *)
(* tiles, the two-tile microcache of each thread, the clock that evicts    *)
(* tiles when memory is over the limit, and invalidation.                  *)
(*                                                                         *)
(* The map is an unordered_map_concurrent: NBins bins, each behind a       *)
(* reader/writer lock that keeps the promises of module RWLock.  A call    *)
(* that holds a bin only while it runs is one atomic step, enabled when    *)
(* nobody's iterator holds the bin.  Iterators hold their bin between the  *)
(* steps of their owner; binLock says who does.  Iteration visits the      *)
(* TileIDs of a bin in increasing order: the code's order is that of a     *)
(* hash table, of which only its stability under a held lock matters.      *)
(*                                                                         *)
(* A tile is destroyed, and its memory given back, with its last           *)
(* reference; all tiles have the same size.  The files are kept to what    *)
(* tiles need of them: the version of the pixels that the open ImageInput  *)
(* sees and the broken flag.                                               *)
(***************************************************************************)
EXTENDS Integers, FiniteSets, FiniteSetsExt

CONSTANTS Threads,
          NIds, NBins,     \* TileIDs are 1..NIds, bins 1..NBins
          BinOf, FileOf,   \* the bin and the file of every TileID
          Files,
          MaxMemory,       \* m_max_memory_bytes, in tiles
          FullLoops,       \* 100 in the code
          MaxLookups,      \* bound: how many lookups, in all
          MaxVersion,      \* bound: no file changes once one has this version
          Invalidators, Clearers,  \* who calls invalidate, invalidate_all(true)
          MaxInvalidations,\* bound: how many such calls, in all
          KeepsPerthread,  \* threads that pass the Perthread* they once got
          ReadsFail,       \* may reading pixels fail?
          Quiet,           \* TRUE: no lookup overlaps an invalidation
          None

Ids  == 1..NIds
Bins == 1..NBins
\* In memory there may be several tiles of one TileID: one in the cache, and
\* older ones in microcaches.  They are numbered, lowest free number first.
Objs == Ids \X (0..2 * Cardinality(Threads))
Versions == 0..MaxVersion
Closed == -1

ASSUME TileCacheAssumption ==
    /\ IsFiniteSet(Threads) /\ Threads # {} /\ IsFiniteSet(Files)
    /\ NIds \in Nat \ {0} /\ NBins \in Nat \ {0}
    /\ BinOf \in [Ids -> Bins] /\ FileOf \in [Ids -> Files]
    /\ MaxMemory \in Nat \ {0} /\ FullLoops \in Nat \ {0}
    /\ MaxLookups \in Nat /\ MaxVersion \in Nat /\ MaxInvalidations \in Nat
    /\ Invalidators \subseteq Threads /\ Clearers \subseteq Threads
    /\ KeepsPerthread \subseteq Threads
    /\ ReadsFail \in BOOLEAN /\ Quiet \in BOOLEAN
    /\ None \notin Threads /\ None \notin Int /\ None \notin Objs

VARIABLES
    tilecache,   \* [Ids -> Objs or None]: m_tilecache's entries
    m_size,      \* its entry count
    binLock,     \* [Bins -> Threads or None]: whose iterator holds the bin
    obj,         \* the tiles in memory, by their Objs
    tile, lasttile, purge,     \* the threads' microcaches
    sweepMutex, sweepId,       \* m_tile_sweep_mutex, m_tile_sweep_id
    alone,       \* history: a thread sweeps, and only it moved since it began
    input, broken, disk,       \* per file: m_input, m_broken, version on disk
    floor,       \* history, per file: oldest version not yet invalidated away
    lookups, invalidations,    \* how many began
    pc,
    want, found, need,         \* find_tile: its TileID, its answer, and
                               \* (history) floor when the lookup began
    inp,                       \* read_tile's shared_ptr: a version
    key, enter, loops, doomed, \* iterators: entry, bin being locked;
                               \* check_max_mem: full_loops, todelete
    target, todo, atStart      \* invalidate: the files, tiles (then files)
                               \* left to do, and (history) disk at the call

shared == <<tilecache, m_size, binLock, obj, tile, lasttile, purge,
            sweepMutex, sweepId>>
files  == <<input, broken, disk, floor, lookups, invalidations>>
lookup == <<want, found, need, inp>>
sweep  == <<key, enter, loops, doomed>>
inval  == <<target, todo, atStart>>
vars   == <<shared, alone, files, pc, lookup, sweep, inval>>

Tile == [ver : Versions, ready : BOOLEAN, valid : BOOLEAN, used : BOOLEAN,
         size : {0, 1}]
NewTile == [ver |-> 0, ready |-> FALSE, valid |-> TRUE, used |-> TRUE, size |-> 0]
IdOf(o) == o[1]

\* intrusive_ptr: an object lives while something refers to it.
LiveIn(map, t1, t2) ==
    ({map[i] : i \in Ids} \union {t1[t] : t \in Threads}
     \union {t2[t] : t \in Threads}) \ {None}
Live == LiveIn(tilecache, tile, lasttile)
Refs(map, t1, t2, o) ==
    /\ tilecache' = map /\ tile' = t1 /\ lasttile' = t2
    /\ obj' = [x \in LiveIn(map, t1, t2) |-> o[x]]

\* m_mem_used: incr_mem in read, decr_tiles in the destructor.
MemUsed == Cardinality({o \in DOMAIN obj : obj[o].size = 1})

InBin(b) == {i \in Ids : BinOf[i] = b /\ tilecache[i] # None}
Free(b) == binLock[b] = None
Set(f, t, v) == [f EXCEPT ![t] = v]
\* Every step of a thread says where it goes, and that it moved.
To(t, to) == pc' = Set(pc, t, to) /\ alone' = (alone /\ t = sweepMutex)
Goto(t, from, to) == pc[t] = from /\ To(t, to)

Init ==
    /\ tilecache = [i \in Ids |-> None] /\ m_size = 0
    /\ binLock = [b \in Bins |-> None] /\ obj = [o \in {} |-> NewTile]
    /\ tile = [t \in Threads |-> None] /\ lasttile = tile
    /\ purge = [t \in Threads |-> FALSE]
    /\ sweepMutex = None /\ sweepId = None /\ alone = FALSE
    /\ input = [f \in Files |-> Closed] /\ broken = [f \in Files |-> FALSE]
    /\ disk = [f \in Files |-> 0] /\ floor = disk /\ lookups = 0 /\ invalidations = 0
    /\ pc = [t \in Threads |-> "idle"]
    /\ want = [t \in Threads |-> None] /\ found = [t \in Threads |-> FALSE]
    /\ need = [t \in Threads |-> 0] /\ inp = [t \in Threads |-> Closed]
    /\ key = [t \in Threads |-> None] /\ enter = [t \in Threads |-> 0]
    /\ loops = [t \in Threads |-> 0] /\ doomed = [t \in Threads |-> None]
    /\ target = [t \in Threads |-> {}] /\ todo = [t \in Threads |-> {}]
    /\ atStart = [t \in Threads |-> disk]
-----------------------------------------------------------------------------
(* find_tile, find_tile_main_cache, add_tile_to_cache, ImageCacheTile::read *)

InvalidationPcs == {"collect", "erase ids", "clear", "close files", "purge"}
Invalidating(t) == pc[t] \in InvalidationPcs
LookingUp(t) == pc[t] # "idle" /\ ~Invalidating(t)
\* get_tile up to find_tile: the housekeeping of get_perthread_info, unless
\* the caller brings its own pointer; verify_file opens a file not yet open;
\* a broken file is given up on before any tile is looked for.
Lookup(t, id) ==
    LET f == FileOf[id]
        drop == purge[t] /\ t \notin KeepsPerthread
    IN
    /\ pc[t] = "idle" /\ lookups < MaxLookups /\ lookups' = lookups + 1
    /\ Quiet => \A u \in Threads : ~Invalidating(u)
    /\ IF drop THEN Refs(tilecache, Set(tile, t, None), Set(lasttile, t, None), obj)
               ELSE UNCHANGED <<tilecache, tile, lasttile, obj>>
    /\ purge' = Set(purge, t, purge[t] /\ ~drop)
    /\ \/ /\ broken[f] /\ To(t, "idle") /\ UNCHANGED <<input, want, need>>
       \/ /\ ~broken[f] /\ To(t, "micro")
          /\ input' = [input EXCEPT ![f] = IF @ = Closed THEN disk[f] ELSE @]
          /\ want' = Set(want, t, id) /\ need' = Set(need, t, floor[f])
    /\ UNCHANGED <<m_size, binLock, sweepMutex, sweepId, broken, disk, floor,
                   invalidations, found, inp, sweep, inval>>

\* find_tile's microcache.  A tile that is already current is marked used
\* when the caller says so; one that was current before always is.
Micro(t) ==
    LET Has(o) == o # None /\ IdOf(o) = want[t]
        Touch(o) == [obj EXCEPT ![o].used = TRUE]
    IN
    /\ pc[t] = "micro"
    /\ \/ /\ Has(tile[t])
          /\ \E mark \in BOOLEAN : obj' = IF mark THEN Touch(tile[t]) ELSE obj
          /\ To(t, "answer") /\ found' = Set(found, t, TRUE)
          /\ UNCHANGED <<tile, lasttile>>
       \/ /\ tile[t] # None /\ ~Has(tile[t])
          /\ tile' = Set(tile, t, lasttile[t]) /\ lasttile' = Set(lasttile, t, tile[t])
          /\ IF Has(lasttile[t])
             THEN /\ obj' = Touch(lasttile[t]) /\ found' = Set(found, t, TRUE)
                  /\ To(t, "answer")
             ELSE To(t, "retrieve") /\ UNCHANGED <<obj, found>>
       \/ /\ tile[t] = None
          /\ To(t, "retrieve") /\ UNCHANGED <<tile, lasttile, obj, found>>
    /\ UNCHANGED <<tilecache, m_size, binLock, purge, sweepMutex, sweepId, files,
                   want, need, inp, sweep, inval>>

\* m_tilecache.retrieve; a miss makes the tile, still outside of the cache.
\* New objects take the first free name.
Retrieve(t) ==
    LET id == want[t]
        new == <<id, Min({o[2] : o \in {x \in Objs \ Live : IdOf(x) = id}})>>
    IN
    /\ pc[t] = "retrieve" /\ Free(BinOf[id])
    /\ IF tilecache[id] # None
       THEN /\ Refs(tilecache, Set(tile, t, tilecache[id]), lasttile, obj)
            /\ To(t, "wait")
       ELSE /\ Refs(tilecache, Set(tile, t, new), lasttile, [o \in Live \union {new} |-> IF o = new THEN NewTile ELSE obj[o]])
            /\ To(t, "insert")
    /\ UNCHANGED <<m_size, binLock, purge, sweepMutex, sweepId, files, lookup,
                   sweep, inval>>

\* wait_pixels_ready and use of a tile that was found: answered TRUE, valid
\* or not.
WaitFound(t) ==
    /\ Goto(t, "wait", "answer") /\ obj[tile[t]].ready
    /\ obj' = [obj EXCEPT ![tile[t]].used = TRUE] /\ found' = Set(found, t, TRUE)
    /\ UNCHANGED <<tilecache, m_size, binLock, tile, lasttile, purge, sweepMutex,
                   sweepId, files, want, need, inp, sweep, inval>>

\* Mutant: a thread that finds the tile already inserted reads it all the same.
MutInsertReads(t) ==
    /\ pc[t] = "insert" /\ Free(BinOf[want[t]])
    /\ Refs([tilecache EXCEPT ![want[t]] = IF @ = None THEN tile[t] ELSE @],
            Set(tile, t, IF tilecache[want[t]] = None THEN tile[t] ELSE tilecache[want[t]]),
            lasttile, obj)
    /\ m_size' = m_size + (IF tilecache[want[t]] = None THEN 1 ELSE 0) /\ To(t, "read")
    /\ UNCHANGED <<binLock, purge, sweepMutex, sweepId, files, lookup, sweep, inval>>
\* insert_retrieve: the first thread to add the tile reads it, the others
\* take the cached one in exchange for theirs.
Insert(t) ==
    LET id == want[t] IN
    /\ pc[t] = "insert" /\ Free(BinOf[id])
    /\ IF tilecache[id] = None
       THEN /\ Refs(Set(tilecache, id, tile[t]), tile, lasttile, obj)
            /\ m_size' = m_size + 1 /\ To(t, "read")
       ELSE /\ Refs(tilecache, Set(tile, t, tilecache[id]), lasttile, obj)
            /\ To(t, "wait inserted") /\ UNCHANGED m_size
    /\ UNCHANGED <<binLock, purge, sweepMutex, sweepId, files, lookup, sweep, inval>>

WaitInserted(t) ==
    /\ Goto(t, "wait inserted", "answer") /\ obj[tile[t]].ready
    /\ found' = Set(found, t, obj[tile[t]].valid)
    /\ UNCHANGED <<shared, files, want, need, inp, sweep, inval>>

\* read allocates the pixels; read_tile gets the ImageInput from open(),
\* which opens a closed file again and refuses a broken one.
OpenInput(t) ==
    LET f == FileOf[want[t]] IN
    /\ Goto(t, "read", "pixels")
    /\ IF broken[f] THEN UNCHANGED <<input, inp>>
       ELSE /\ input' = [input EXCEPT ![f] = IF @ = Closed THEN disk[f] ELSE @]
            /\ inp' = Set(inp, t, input'[f])
    /\ UNCHANGED <<shared, broken, disk, floor, lookups, invalidations, want, found, need,
                   sweep, inval>>

\* Mutant: the missing ImageInput of a broken file goes unnoticed.
MutReadPixels(t) ==
    /\ Goto(t, "pixels", "publish")
    /\ \/ obj' = [obj EXCEPT ![tile[t]].ver = inp[t], ![tile[t]].size = 1] /\ UNCHANGED broken
       \/ /\ ReadsFail /\ obj' = [obj EXCEPT ![tile[t]].valid = FALSE, ![tile[t]].size = 1]
          /\ broken' = [broken EXCEPT ![FileOf[want[t]]] = TRUE]
    /\ inp' = Set(inp, t, Closed)
    /\ UNCHANGED <<tilecache, m_size, binLock, tile, lasttile, purge, sweepMutex,
                   sweepId, input, disk, floor, lookups, invalidations, want, found,
                   need, sweep, inval>>
\* inp->read_tiles; a failure marks the file broken.
ReadPixels(t) ==
    LET f == FileOf[want[t]]
        ok == inp[t] # Closed
    IN
    /\ Goto(t, "pixels", "publish")
    /\ \/ /\ ok
          /\ obj' = [obj EXCEPT ![tile[t]].ver = inp[t], ![tile[t]].size = 1]
          /\ UNCHANGED broken
       \/ /\ ok => ReadsFail
          /\ obj' = [obj EXCEPT ![tile[t]].valid = FALSE, ![tile[t]].size = 1]
          /\ broken' = [broken EXCEPT ![f] = @ \/ ok]
    /\ inp' = Set(inp, t, Closed)
    /\ UNCHANGED <<tilecache, m_size, binLock, tile, lasttile, purge, sweepMutex,
                   sweepId, input, disk, floor, lookups, invalidations, want, found,
                   need, sweep, inval>>

\* Mutant: only a tile that was read well becomes ready.
MutPublish(t) ==
    /\ Goto(t, "publish", "check mem")
    /\ obj' = [obj EXCEPT ![tile[t]].used = @ /\ obj[tile[t]].valid,
                          ![tile[t]].ready = obj[tile[t]].valid]
    /\ found' = Set(found, t, obj[tile[t]].valid)
    /\ UNCHANGED <<tilecache, m_size, binLock, tile, lasttile, purge, sweepMutex,
                   sweepId, files, want, need, inp, sweep, inval>>
\* The end of read: an invalid tile is not used, and every tile is ready.
Publish(t) ==
    /\ Goto(t, "publish", "check mem")
    /\ obj' = [obj EXCEPT ![tile[t]].used = @ /\ obj[tile[t]].valid,
                          ![tile[t]].ready = TRUE]
    /\ found' = Set(found, t, obj[tile[t]].valid)
    /\ UNCHANGED <<tilecache, m_size, binLock, tile, lasttile, purge, sweepMutex,
                   sweepId, files, want, need, inp, sweep, inval>>

\* The caller has its answer, in found, and the tile.
Answer(t) ==
    /\ Goto(t, "answer", "idle")
    /\ want' = Set(want, t, None) /\ found' = Set(found, t, FALSE)
    /\ need' = Set(need, t, 0)
    /\ UNCHANGED <<shared, files, inp, sweep, inval>>
-----------------------------------------------------------------------------
(* check_max_mem.  key[t] is the entry the iterator is at, its bin locked    *)
(* by t; None when the iterator is past the end or empty.                    *)

At(t, k) == key' = Set(key, t, k)

CheckMem(t) ==
    /\ pc[t] = "check mem"
    /\ IF m_size = 0 \/ MemUsed < MaxMemory \/ sweepMutex # None
       THEN To(t, "answer") /\ UNCHANGED sweepMutex
       ELSE /\ sweepMutex' = t /\ alone' = TRUE
            /\ pc' = Set(pc, t, IF sweepId = None THEN "sweep" ELSE "find")
    /\ UNCHANGED <<tilecache, m_size, binLock, obj, tile, lasttile, purge, sweepId,
                   files, lookup, sweep, inval>>

\* find(m_tile_sweep_id): where the last sweep stopped, or where the entry
\* after an erased one is, unless it is gone.
FindHand(t) ==
    LET b == BinOf[sweepId]
        there == tilecache[sweepId] # None
    IN
    /\ Goto(t, "find", "sweep") /\ Free(b)
    /\ At(t, IF there THEN sweepId ELSE None)
    /\ binLock' = IF there THEN Set(binLock, b, t) ELSE binLock
    /\ UNCHANGED <<tilecache, m_size, obj, tile, lasttile, purge, sweepMutex,
                   sweepId, files, lookup, enter, loops, doomed, inval>>

\* Mutant: turns of the clock are not counted.
MutSweepHead(t) ==
    LET on == MemUsed >= MaxMemory IN
    /\ pc[t] = "sweep"
    /\ To(t, IF ~on THEN "finish" ELSE IF key[t] = None THEN "begin" ELSE "look")
    /\ enter' = IF on /\ key[t] = None THEN Set(enter, t, 1) ELSE enter
    /\ UNCHANGED <<shared, files, lookup, key, loops, doomed, inval>>
\* The head of the loop.  begin() starts at the first bin.
SweepHead(t) ==
    LET on == MemUsed >= MaxMemory /\ loops[t] < FullLoops IN
    /\ pc[t] = "sweep"
    /\ To(t, IF ~on THEN "finish"
                        ELSE IF key[t] = None THEN "begin" ELSE "look")
    /\ IF on /\ key[t] = None
       THEN loops' = Set(loops, t, loops[t] + 1) /\ enter' = Set(enter, t, 1)
       ELSE UNCHANGED <<loops, enter>>
    /\ UNCHANGED <<shared, files, lookup, key, doomed, inval>>

\* A locked iterator stops at entry k (or past the end).  When the entry
\* before it is doomed, k's TileID is remembered and its bin given up.
StopAt(t, b, k) ==
    IF doomed'[t] = None
    THEN /\ At(t, k) /\ UNCHANGED sweepId
         /\ binLock' = Set(binLock, b, IF k = None THEN None ELSE t)
         /\ To(t, IF pc[t] = "begin" THEN (IF k = None THEN "finish" ELSE "look")
                                     ELSE "sweep")
    ELSE /\ sweepId' = k /\ At(t, None)
         /\ binLock' = Set(binLock, b, None)
         /\ To(t, "evict")

\* rebin, in begin() and in operator++: lock the next bin, and stay there
\* unless it is empty.  begin() of an empty cache ends the sweep.
EnterBin(t) ==
    LET b == enter[t] IN
    /\ pc[t] \in {"begin", "next"} /\ Free(b) /\ UNCHANGED doomed
    /\ \/ /\ InBin(b) # {} /\ StopAt(t, b, Min(InBin(b))) /\ enter' = Set(enter, t, 0)
       \/ /\ InBin(b) = {} /\ b < NBins /\ enter' = Set(enter, t, b + 1)
          /\ To(t, pc[t]) /\ UNCHANGED <<binLock, key, sweepId>>
       \/ /\ InBin(b) = {} /\ b = NBins /\ StopAt(t, b, None) /\ enter' = Set(enter, t, 0)
    /\ UNCHANGED <<tilecache, m_size, obj, tile, lasttile, purge, sweepMutex, files,
                   lookup, loops, inval>>

\* Mutant: release() looks at the validity alone, which a tile starts out with.
MutKept(o) == ~obj[o].valid
\* release(): unready and invalid tiles are kept, used ones get a second
\* chance, the others are doomed.
Kept(o)   == ~obj[o].ready \/ ~obj[o].valid
Reused(o) == obj[o].used

\* Mutant: a used tile keeps its mark.
MutLook(t) ==
    LET b == BinOf[key[t]]
        o == tilecache[key[t]]
        rest == {i \in InBin(b) : i > key[t]}
    IN
    /\ pc[t] = "look" /\ UNCHANGED obj
    /\ doomed' = Set(doomed, t, IF Kept(o) \/ Reused(o) THEN None ELSE key[t])
    /\ \/ /\ rest # {} /\ StopAt(t, b, Min(rest)) /\ UNCHANGED enter
       \/ /\ rest = {} /\ b = NBins /\ StopAt(t, b, None) /\ UNCHANGED enter
       \/ /\ rest = {} /\ b < NBins /\ enter' = Set(enter, t, b + 1) /\ At(t, None)
          /\ binLock' = Set(binLock, b, None) /\ To(t, "next") /\ UNCHANGED sweepId
    /\ UNCHANGED <<tilecache, m_size, tile, lasttile, purge, sweepMutex, files, lookup,
                   loops, inval>>
\* The body of the loop, with ++sweep up to where it leaves the bin.
Look(t) ==
    LET k == key[t]
        b == BinOf[k]
        o == tilecache[k]
        rest == {i \in InBin(b) : i > k}
    IN
    /\ pc[t] = "look"
    /\ obj' = IF Kept(o) THEN obj ELSE [obj EXCEPT ![o].used = FALSE]
    /\ doomed' = Set(doomed, t, IF Kept(o) \/ Reused(o) THEN None ELSE k)
    /\ \/ /\ rest # {} /\ StopAt(t, b, Min(rest)) /\ UNCHANGED enter
       \/ /\ rest = {} /\ b = NBins /\ StopAt(t, b, None) /\ UNCHANGED enter
       \/ /\ rest = {} /\ b < NBins /\ enter' = Set(enter, t, b + 1) /\ At(t, None)
          /\ binLock' = Set(binLock, b, None) /\ To(t, "next") /\ UNCHANGED sweepId
    /\ UNCHANGED <<tilecache, m_size, tile, lasttile, purge, sweepMutex, files, lookup,
                   loops, inval>>

\* Mutant: erase(key, do_lock = false).
MutEraseEntry(i) ==
    /\ Refs(Set(tilecache, i, None), tile, lasttile, obj)
    /\ m_size' = m_size - 1
\* unordered_map_concurrent::erase counts an entry less, there or not.
EraseEntry(i) ==
    /\ Free(BinOf[i])
    /\ Refs(Set(tilecache, i, None), tile, lasttile, obj)
    /\ m_size' = m_size - 1

\* Erase the doomed entry, with no lock held, and find the next one again.
Evict(t) ==
    /\ pc[t] = "evict" /\ EraseEntry(doomed[t])
    /\ To(t, IF sweepId = None THEN "sweep" ELSE "find")
    /\ doomed' = Set(doomed, t, None)
    /\ UNCHANGED <<binLock, purge, sweepMutex, sweepId, files, lookup, key, enter,
                   loops, inval>>

\* m_tile_sweep_id keeps the place; the iterator's lock goes with it.
Finish(t) ==
    /\ Goto(t, "finish", "answer")
    /\ sweepId' = key[t] /\ sweepMutex' = None /\ At(t, None)
    /\ binLock' = [b \in Bins |-> IF binLock[b] = t THEN None ELSE binLock[b]]
    /\ loops' = Set(loops, t, 0)
    /\ UNCHANGED <<tilecache, m_size, obj, tile, lasttile, purge, files, lookup,
                   enter, doomed, inval>>
-----------------------------------------------------------------------------
(* invalidate(handle, force = true), invalidate_all(force = true)            *)

MayInvalidate(t) ==
    /\ pc[t] = "idle" /\ invalidations < MaxInvalidations
    /\ Quiet => \A u \in Threads : ~LookingUp(u)
    /\ invalidations' = invalidations + 1 /\ atStart' = Set(atStart, t, disk)

Invalidate(t, f) ==
    /\ t \in Invalidators /\ MayInvalidate(t)
    /\ target' = Set(target, t, {f}) /\ enter' = Set(enter, t, 1)
    /\ To(t, "collect")
    /\ UNCHANGED <<shared, input, broken, disk, floor, lookups, lookup, key, loops, doomed, todo>>

\* clear() looks at the entry count first, and does nothing if it is 0.
InvalidateAll(t) ==
    /\ t \in Clearers /\ MayInvalidate(t)
    /\ target' = Set(target, t, Files)
    /\ IF m_size = 0
       THEN To(t, "close files") /\ todo' = Set(todo, t, Files) /\ UNCHANGED enter
       ELSE To(t, "clear") /\ enter' = Set(enter, t, 1) /\ UNCHANGED todo
    /\ UNCHANGED <<shared, input, broken, disk, floor, lookups, lookup, key, loops, doomed>>

\* One bin of the walk over the cache that collects tiles_to_delete.
Collect(t) ==
    LET b == enter[t]
        all == todo[t] \union {i \in InBin(b) : FileOf[i] \in target[t]}
        last == b = NBins
    IN
    /\ pc[t] = "collect" /\ Free(b)
    /\ enter' = Set(enter, t, IF last THEN 0 ELSE b + 1)
    /\ todo' = Set(todo, t, IF last /\ all = {} THEN target[t] ELSE all)
    /\ To(t, IF ~last THEN "collect"
                        ELSE IF all = {} THEN "close files" ELSE "erase ids")
    /\ UNCHANGED <<shared, files, lookup, key, loops, doomed, target, atStart>>

EraseId(t) ==
    LET i == Min(todo[t])
        last == todo[t] = {i}
    IN
    /\ pc[t] = "erase ids" /\ EraseEntry(i)
    /\ todo' = Set(todo, t, IF last THEN target[t] ELSE todo[t] \ {i})
    /\ To(t, IF last THEN "close files" ELSE "erase ids")
    /\ UNCHANGED <<binLock, purge, sweepMutex, sweepId, files, lookup, sweep, target,
                   atStart>>

\* Mutant: clear() forgets to take its entries off the count.
MutClearBin(t) ==
    LET b == enter[t]
        last == b = NBins
    IN
    /\ pc[t] = "clear" /\ Free(b)
    /\ Refs([i \in Ids |-> IF BinOf[i] = b THEN None ELSE tilecache[i]], tile, lasttile, obj)
    /\ enter' = Set(enter, t, IF last THEN 0 ELSE b + 1)
    /\ todo' = Set(todo, t, IF last THEN target[t] ELSE {})
    /\ To(t, IF last THEN "close files" ELSE "clear")
    /\ UNCHANGED <<m_size, binLock, purge, sweepMutex, sweepId, files, lookup, key, loops,
                   doomed, target, atStart>>
\* One bin of clear(): its entries are swapped out and dropped.
ClearBin(t) ==
    LET b == enter[t]
        last == b = NBins
    IN
    /\ pc[t] = "clear" /\ Free(b)
    /\ Refs([i \in Ids |-> IF BinOf[i] = b THEN None ELSE tilecache[i]], tile, lasttile, obj)
    /\ m_size' = m_size - Cardinality(InBin(b))
    /\ enter' = Set(enter, t, IF last THEN 0 ELSE b + 1)
    /\ todo' = Set(todo, t, IF last THEN target[t] ELSE {})
    /\ To(t, IF last THEN "close files" ELSE "clear")
    /\ UNCHANGED <<binLock, purge, sweepMutex, sweepId, files, lookup, key, loops,
                   doomed, target, atStart>>

\* ImageCacheFile::invalidate, file by file.
CloseFile(t, f) ==
    /\ pc[t] = "close files" /\ f \in todo[t]
    /\ input' = [input EXCEPT ![f] = Closed] /\ broken' = [broken EXCEPT ![f] = FALSE]
    /\ todo' = Set(todo, t, todo[t] \ {f})
    /\ To(t, IF todo[t] = {f} THEN "purge" ELSE "close files")
    /\ UNCHANGED <<shared, disk, floor, lookups, invalidations, lookup, sweep, target, atStart>>

\* Mutant: only the invalidating thread's microcache is purged.
MutPurge(t) ==
    /\ Goto(t, "purge", "idle") /\ purge' = Set(purge, t, TRUE)
    /\ floor' = [f \in Files |-> IF f \in target[t] /\ atStart[t][f] > floor[f]
                                 THEN atStart[t][f] ELSE floor[f]]
    /\ target' = Set(target, t, {})
    /\ atStart' = Set(atStart, t, [f \in Files |-> 0])
    /\ UNCHANGED <<tilecache, m_size, binLock, obj, tile, lasttile, sweepMutex, sweepId,
                   input, broken, disk, lookups, invalidations, lookup, sweep, todo>>
\* purge_perthread_microcaches.
Purge(t) ==
    /\ Goto(t, "purge", "idle")
    /\ purge' = [u \in Threads |-> TRUE]
    /\ floor' = [f \in Files |-> IF f \in target[t] /\ atStart[t][f] > floor[f]
                                 THEN atStart[t][f] ELSE floor[f]]
    /\ target' = Set(target, t, {})
    /\ atStart' = Set(atStart, t, [f \in Files |-> 0])
    /\ UNCHANGED <<tilecache, m_size, binLock, obj, tile, lasttile, sweepMutex, sweepId,
                   input, broken, disk, lookups, invalidations, lookup, sweep, todo>>

\* The environment: somebody writes the file.
Modify(f) ==
    /\ \A g \in Files : disk[g] < MaxVersion
    /\ disk' = [disk EXCEPT ![f] = @ + 1]
    /\ UNCHANGED <<shared, alone, input, broken, floor, lookups, invalidations, pc, lookup, sweep,
                   inval>>
-----------------------------------------------------------------------------
Step(t) ==
    \/ Micro(t) \/ Retrieve(t) \/ WaitFound(t) \/ Insert(t) \/ WaitInserted(t)
    \/ OpenInput(t) \/ ReadPixels(t) \/ Publish(t) \/ Answer(t)
    \/ CheckMem(t) \/ FindHand(t) \/ SweepHead(t) \/ EnterBin(t) \/ Look(t)
    \/ Evict(t) \/ Finish(t)
    \/ Collect(t) \/ EraseId(t) \/ ClearBin(t) \/ Purge(t)
    \/ \E f \in Files : CloseFile(t, f)

Next ==
    \/ \E t \in Threads : Step(t)
    \/ \E t \in Threads, id \in Ids : Lookup(t, id)
    \/ \E t \in Threads, f \in Files : Invalidate(t, f)
    \/ \E t \in Threads : InvalidateAll(t)
    \/ \E f \in Files : Modify(f)
    \/ (\A t \in Threads : pc[t] = "idle") /\ UNCHANGED vars

Spec == Init /\ [][Next]_vars
\* Threads inside a call run; nobody has to call, and a lock is taken by
\* whoever finds it free.
FairSpec == Spec /\ \A t \in Threads : WF_vars(Step(t))
-----------------------------------------------------------------------------
Reading(t) == pc[t] \in {"read", "pixels", "publish"}
MaybeId == Ids \union {None}
PerThread(S) == [Threads -> S]

TypeOK ==
    /\ tilecache \in [Ids -> Objs \union {None}] /\ m_size \in Int
    /\ binLock \in [Bins -> Threads \union {None}]
    /\ DOMAIN obj = Live /\ Live \subseteq Objs /\ \A o \in Live : obj[o] \in Tile
    /\ tile \in PerThread(Objs \union {None}) /\ lasttile \in PerThread(Objs \union {None})
    /\ purge \in PerThread(BOOLEAN)
    /\ sweepMutex \in Threads \union {None} /\ sweepId \in MaybeId /\ alone \in BOOLEAN
    /\ input \in [Files -> Versions \union {Closed}] /\ broken \in [Files -> BOOLEAN]
    /\ disk \in [Files -> Versions] /\ floor \in [Files -> Versions]
    /\ lookups \in 0..MaxLookups /\ invalidations \in 0..MaxInvalidations
    /\ pc \in PerThread({"idle", "micro", "retrieve", "wait", "insert", "wait inserted",
                         "read", "pixels", "publish", "answer", "check mem", "find",
                         "sweep", "begin", "next", "look", "evict", "finish"}
                        \union InvalidationPcs)
    /\ want \in PerThread(MaybeId) /\ found \in PerThread(BOOLEAN)
    /\ need \in PerThread(Versions) /\ inp \in PerThread(Versions \union {Closed})
    /\ key \in PerThread(MaybeId) /\ enter \in PerThread(0..NBins)
    /\ loops \in PerThread(0..FullLoops) /\ doomed \in PerThread(MaybeId)
    /\ target \in PerThread(SUBSET Files) /\ todo \in PerThread(SUBSET (Ids \union Files))
    /\ atStart \in PerThread([Files -> Versions])

\* The sweep's iterator stands on an entry that is in the cache, in a bin its
\* thread has locked, whatever the other threads insert, erase or clear; and
\* no thread ever holds a second bin, or one without standing in it.
IteratorValid ==
    /\ \A t \in Threads : key[t] # None =>
          tilecache[key[t]] # None /\ binLock[BinOf[key[t]]] = t
    /\ \A b \in Bins : binLock[b] # None =>
          key[binLock[b]] # None /\ BinOf[key[binLock[b]]] = b

\* A tile somebody can find, or waits for, and whose pixels are not ready has
\* exactly one thread that is about to make them ready: wait_pixels_ready
\* never spins on a tile nobody reads, and no tile is read twice.
UnreadyHasOneReader ==
    \A o \in Live :
        (o \in {tilecache[i] : i \in Ids}
         \/ \E t \in Threads : tile[t] = o /\ pc[t] \in {"wait", "wait inserted"})
        /\ ~obj[o].ready
        => Cardinality({t \in Threads : Reading(t) /\ tile[t] = o}) = 1

\* m_size is "the total number of entries in the map" that empty(), and
\* through it clear() and check_max_mem, take it for.
Entries == {i \in Ids : tilecache[i] # None}
SizeIsEntryCount == m_size = Cardinality(Entries)

\* What a query is answered with: the tile it asked for, ready, and no older
\* than the file was when the last invalidation that ended before the query
\* began.
AnswersAreFresh ==
    \A t \in Threads : pc[t] = "answer" /\ found[t] =>
        LET o == obj[tile[t]] IN
        IdOf(tile[t]) = want[t] /\ o.ready /\ (o.valid => o.ver >= need[t])

\* A sweep that ran while nobody else moved gives up above the memory limit
\* only when it has evicted everything it may evict.
SweepReclaims ==
    \A t \in Threads : pc[t] = "finish" /\ alone /\ MemUsed >= MaxMemory =>
        \A i \in Entries : Kept(tilecache[i])

\* The sweep erases no tile that is still being read, although it lets go of
\* the bin between its verdict and the erasure.
EvictsOnlyReadTiles ==
    [][\A t \in Threads : pc[t] = "evict" /\ pc'[t] # "evict"
         => tilecache[doomed[t]] # None /\ obj[tilecache[doomed[t]]].ready]_vars

\* Waiting for the pixels of a tile ends.
WaitEnds == \A t \in Threads :
    pc[t] \in {"wait", "wait inserted"} ~> pc[t] \notin {"wait", "wait inserted"}

\* The thread that enforces the memory limit gets out again, even when no
\* memory can be freed and other threads keep adding tiles.
SweepEnds == \A t \in Threads : sweepMutex = t ~> sweepMutex # t
=============================================================================
