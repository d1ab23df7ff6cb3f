-------------------------- MODULE TileCacheProofs ---------------------------
(***************************************************************************)
(* Proofs about TileCache, for any threads, TileIDs, bins, files, limits   *)
(* and bounds.                                                             *)
(*                                                                         *)
(* Four inductive invariants hold in every run.  Shape has the types, and  *)
(* what a thread's variables are at each place of its program; then        *)
(* IteratorValid.  Made says who makes a tile ready: a tile that is not    *)
(* ready has one maker, and one that is not inserted yet is nobody else's. *)
(* Laps says what the turns of a sweep have done that nobody disturbed.    *)
(*                                                                         *)
(* Three more hold when no lookup overlaps an invalidation (Quiet).        *)
(* Verdict keeps what a sweep has decided about a tile until it erases it. *)
(* Counted, for one invalidating thread, keeps m_size; and Fresh, when     *)
(* nobody keeps a Perthread*, keeps the versions of tiles and of inputs.   *)
(***************************************************************************)
EXTENDS TileCache, DataLemmas, FiniteSetTheorems, TLAPS

SweepPcs  == {"find", "sweep", "begin", "next", "look", "evict", "finish"}
LookupPcs == {"micro", "retrieve", "wait", "insert", "wait inserted", "read",
              "pixels", "publish", "answer", "check mem"} \union SweepPcs
\* Where a thread has the tile it looks for and is not done with it.
TilePcs   == {"wait", "insert", "wait inserted", "read", "pixels", "publish",
              "check mem"} \union SweepPcs
ErasePcs  == {"collect", "erase ids"}

\* What a thread at place p has in want, tile, found, enter, key, doomed, todo
\* and target; mine is whether it has the sweep mutex.
FitsAt(p, w, o, e, k, d, td, tg, mine) ==
    /\ p \in LookupPcs => w \in Ids
    /\ p \in TilePcs => o # None /\ IdOf(o) = w
    /\ p \in {"begin", "next", "collect", "clear"} => e \in Bins
    /\ p = "look" => k # None
    /\ p \notin {"look", "sweep", "finish"} => k = None
    /\ p = "evict" => d # None
    /\ p \notin {"next", "evict"} => d = None
    /\ p \in SweepPcs <=> mine
    /\ p \in ErasePcs => td \subseteq Ids
    /\ p = "erase ids" => td # {}
    /\ p = "close files" => td \subseteq tg
    /\ p \notin {"collect", "erase ids", "close files"} => td = {}
Fits == \A t \in Threads :
    /\ FitsAt(pc[t], want[t], tile[t], enter[t], key[t], doomed[t], todo[t],
              target[t], sweepMutex = t)
    /\ pc[t] = "find" => sweepId # None

\* A tile is in the cache under its own TileID.
Named == \A i \in Ids : tilecache[i] # None => IdOf(tilecache[i]) = i

Shape == TypeOK /\ Fits /\ Named

\* A thread that has made a tile and has not yet made it ready.
Makes(p) == p \in {"insert", "read", "pixels", "publish"}
\* Before it is inserted it is in no other hands.
Private(t) ==
    /\ \A i \in Ids : tilecache[i] # tile[t]
    /\ \A u \in Threads \ {t} : tile[u] # tile[t]
    /\ \A u \in Threads : lasttile[u] # tile[t]
\* The tiles a thread has after a lookup, and before the next, are ready.
Seen(p, o, last) ==
    /\ last # None => obj[last].ready
    /\ ~Makes(p) /\ p \notin {"wait", "wait inserted"} /\ o # None => obj[o].ready
Made ==
    /\ \A t \in Threads : pc[t] = "insert" => Private(t)
    /\ \A t, u \in Threads : Makes(pc[t]) /\ Makes(pc[u]) /\ tile[t] = tile[u] => t = u
    /\ \A o \in Live : ~obj[o].ready => \E t \in Threads : Makes(pc[t]) /\ tile[t] = o
    /\ \A t \in Threads : Seen(pc[t], tile[t], lasttile[t])

\* No lookup overlaps an invalidation.
Calm == \A t, u \in Threads : ~(LookingUp(t) /\ Invalidating(u))
Verdict == \A t \in Threads : pc[t] \in {"next", "evict"} /\ doomed[t] # None =>
    tilecache[doomed[t]] # None /\ obj[tilecache[doomed[t]]].ready

\* All calls that invalidate are one thread's, one after the other.
OneInvalidates == \A t, u \in Invalidators \union Clearers : t = u
Counted ==
    /\ SizeIsEntryCount
    /\ \A t \in Threads : Invalidating(t) => t \in Invalidators \union Clearers
    /\ \A t \in Threads : pc[t] \in ErasePcs => todo[t] \subseteq Entries

\* A version that lookups that begin now may be answered with.
Late(o) == obj[o].valid => obj[o].ver >= floor[FileOf[IdOf(o)]]
\* What an invalidation has left of its files' tiles.
Gone(t) == {i \in Entries : FileOf[i] \in target[t]} = {}
Erased(t) ==
    /\ pc[t] = "collect" => \A i \in Entries :
           FileOf[i] \in target[t] /\ BinOf[i] < enter[t] => i \in todo[t]
    /\ pc[t] = "erase ids" => \A i \in Entries : FileOf[i] \in target[t] => i \in todo[t]
    /\ pc[t] = "clear" => \A i \in Entries : BinOf[i] >= enter[t]
    /\ pc[t] \in {"close files", "purge"} => Gone(t)
    /\ pc[t] = "close files" => \A f \in target[t] \ todo[t] : input[f] = Closed
    /\ pc[t] = "purge" => \A f \in target[t] : input[f] = Closed
FilesFresh == \A f \in Files :
    /\ floor[f] <= disk[f] /\ (input[f] # Closed => input[f] >= floor[f])
    /\ \A t \in Threads : atStart[t][f] <= disk[f]
Asked(t) == LookingUp(t) =>
    /\ ~purge[t] /\ need[t] = floor[FileOf[want[t]]]
    /\ pc[t] = "pixels" /\ inp[t] # Closed => inp[t] >= need[t]
    /\ pc[t] = "publish" => Late(tile[t])
    /\ pc[t] = "answer" /\ found[t] => tile[t] # None /\ IdOf(tile[t]) = want[t]
InputUsed(t) == pc[t] # "pixels" => inp[t] = Closed
EntriesLate  == \A i \in Entries : obj[tilecache[i]].ready => Late(tilecache[i])
MicroLate(t) == ~purge[t] =>
    /\ tile[t] # None /\ obj[tile[t]].ready => Late(tile[t])
    /\ lasttile[t] # None => Late(lasttile[t])
Fresh ==
    /\ FilesFresh /\ EntriesLate
    /\ \A t \in Threads : Erased(t) /\ Asked(t) /\ InputUsed(t) /\ MicroLate(t)
-----------------------------------------------------------------------------
(* Shape: the types, and what each thread has where.                       *)

\* TypeOK in parts: the tiles and what refers to them, and the rest.
ObjsTyped ==
    /\ tilecache \in [Ids -> Objs \union {None}]
    /\ DOMAIN obj = Live /\ Live \subseteq Objs /\ \A o \in Live : obj[o] \in Tile
    /\ tile \in PerThread(Objs \union {None}) /\ lasttile \in PerThread(Objs \union {None})
CountsTyped ==
    /\ m_size \in Int
    /\ lookups \in 0..MaxLookups /\ invalidations \in 0..MaxInvalidations
    /\ purge \in PerThread(BOOLEAN)
FilesTyped ==
    /\ input \in [Files -> Versions \union {Closed}] /\ broken \in [Files -> BOOLEAN]
    /\ disk \in [Files -> Versions] /\ floor \in [Files -> Versions]
    /\ atStart \in PerThread([Files -> Versions])
LookupTyped ==
    /\ want \in PerThread(MaybeId) /\ found \in PerThread(BOOLEAN)
    /\ need \in PerThread(Versions) /\ inp \in PerThread(Versions \union {Closed})
SweepTyped ==
    /\ binLock \in [Bins -> Threads \union {None}]
    /\ sweepMutex \in Threads \union {None} /\ sweepId \in MaybeId
    /\ key \in PerThread(MaybeId) /\ enter \in PerThread(0..NBins)
    /\ loops \in PerThread(0..FullLoops) /\ doomed \in PerThread(MaybeId)
    /\ target \in PerThread(SUBSET Files) /\ todo \in PerThread(SUBSET (Ids \union Files))
Places == {"idle"} \union LookupPcs \union InvalidationPcs
PlacesTyped == pc \in PerThread(Places) /\ alone \in BOOLEAN

Typed == /\ ObjsTyped /\ CountsTyped /\ FilesTyped /\ LookupTyped /\ SweepTyped
         /\ PlacesTyped

\* TypeOK is the conjunction of its parts.
LEMMA TypeParts == TypeOK <=> Typed
  BY DEF TypeOK, Typed, ObjsTyped, CountsTyped, FilesTyped, LookupTyped, SweepTyped, PlacesTyped,
         Places, LookupPcs, SweepPcs

\* What the assumption says of the names: None is none of them, and every tile's
\* TileID has a bin and a file.
LEMMA Names ==
    /\ None \notin Threads /\ None \notin Ids /\ None \notin Objs
    /\ NBins \in Nat \ {0} /\ NIds \in Nat \ {0}
    /\ BinOf \in [Ids -> Bins] /\ FileOf \in [Ids -> Files]
    /\ Bins \subseteq 0..NBins /\ Ids \subseteq Nat /\ 1 \in Bins
    /\ Closed \notin Versions /\ 0 \in Versions /\ Versions \subseteq Nat
    /\ \A o \in Objs : IdOf(o) \in Ids
    /\ FullLoops \in Nat /\ MaxLookups \in Nat /\ MaxInvalidations \in Nat /\ MaxVersion \in Nat
  BY TileCacheAssumption DEF Ids, Bins, Closed, Versions, Objs, IdOf

\* What is referred to after Refs is what lives.
LEMMA RefsTyped ==
    ASSUME NEW map \in [Ids -> Objs \union {None}],
           NEW t1 \in PerThread(Objs \union {None}), NEW t2 \in PerThread(Objs \union {None}),
           NEW o, \A x \in LiveIn(map, t1, t2) : o[x] \in Tile, Refs(map, t1, t2, o)
    PROVE  ObjsTyped' /\ \A x \in Live' : obj'[x] = o[x]
  <1>1. LiveIn(map, t1, t2) \subseteq Objs
    BY Names DEF LiveIn, PerThread
  <1>2. Live' = LiveIn(map, t1, t2)
    BY DEF Refs, Live
  <1>3. obj' = [x \in LiveIn(map, t1, t2) |-> o[x]]
    BY DEF Refs
  <1>4. DOMAIN obj' = LiveIn(map, t1, t2) /\ \A x \in LiveIn(map, t1, t2) : obj'[x] = o[x]
    BY <1>3
  <1>5. tilecache' = map /\ tile' = t1 /\ lasttile' = t2
    BY DEF Refs
  <1> QED
    BY <1>1, <1>2, <1>4, <1>5 DEF ObjsTyped

\* Where the references stay, the tiles may change.
LEMMA SameRefs ==
    ASSUME ObjsTyped, UNCHANGED <<tilecache, tile, lasttile>>,
           DOMAIN obj' = DOMAIN obj, \A x \in Live : obj'[x] \in Tile
    PROVE  ObjsTyped' /\ Live' = Live
  BY DEF ObjsTyped, Live, LiveIn

\* There are more names than microcache entries: a new tile finds one.
LEMMA FreeName ==
    ASSUME ObjsTyped, Named, NEW id \in Ids, tilecache[id] = None
    PROVE  LET new == <<id, Min({o[2] : o \in {x \in Objs \ Live : IdOf(x) = id}})>>
           IN  new \in Objs \ Live
  <1> DEFINE N == 2 * Cardinality(Threads)
             A == {tile[t][2] : t \in Threads}
             B == {lasttile[t][2] : t \in Threads}
             free == {o[2] : o \in {x \in Objs \ Live : IdOf(x) = id}}
  <1>1. IsFiniteSet(Threads) /\ Cardinality(Threads) \in Nat
    BY TileCacheAssumption, FS_CardinalityType
  <1>2. IsFiniteSet(A) /\ Cardinality(A) <= Cardinality(Threads) /\ Cardinality(A) \in Nat
    <2> DEFINE f == [t \in Threads |-> tile[t][2]]
    <2>1. A = {f[t] : t \in Threads} /\ f \in [Threads -> A]
      OBVIOUS
    <2>2. f \in Surjection(Threads, A)
      BY <2>1 DEF Surjection
    <2> QED
      BY <1>1, <2>2, FS_Surjection, FS_CardinalityType
  <1>3. IsFiniteSet(B) /\ Cardinality(B) <= Cardinality(Threads) /\ Cardinality(B) \in Nat
    <2> DEFINE f == [t \in Threads |-> lasttile[t][2]]
    <2>1. B = {f[t] : t \in Threads} /\ f \in [Threads -> B]
      OBVIOUS
    <2>2. f \in Surjection(Threads, B)
      BY <2>1 DEF Surjection
    <2> QED
      BY <1>1, <2>2, FS_Surjection, FS_CardinalityType
  <1>4. /\ IsFiniteSet(A \union B)
        /\ Cardinality(A \union B) <= N
        /\ Cardinality(A \union B) \in Nat
    <2> HIDE DEF A, B
    <2>1. /\ IsFiniteSet(A \union B) /\ Cardinality(A \intersect B) \in Nat
          /\ Cardinality(A \union B) = Cardinality(A) + Cardinality(B) - Cardinality(A \intersect B)
      BY <1>2, <1>3, FS_Union, FS_Intersection, FS_CardinalityType
    <2> QED
      BY <1>1, <1>2, <1>3, <2>1, FS_CardinalityType
  <1>5. Cardinality(0..N) = N + 1 /\ N \in Nat
    <2>1. N \in Nat /\ N \in Int /\ 0 \in Int /\ ~(0 > N)
      BY <1>1
    <2> HIDE DEF N
    <2>2. Cardinality(0..N) = N - 0 + 1
      BY <2>1, FS_Interval
    <2> QED
      BY <2>1, <2>2
  <1>6. ~(0..N \subseteq A \union B)
    <2> HIDE DEF A, B
    <2>1. ASSUME 0..N \subseteq A \union B PROVE FALSE
      <3>1. Cardinality(0..N) <= Cardinality(A \union B)
        BY <1>4, <2>1, FS_Subset
      <3> QED
        BY <1>4, <1>5, <3>1
    <2> QED
      BY <2>1
  <1>7. PICK n \in 0..N : n \notin A \union B
    BY <1>6
  <1>8. <<id, n>> \in Objs /\ IdOf(<<id, n>>) = id /\ <<id, n>>[2] = n
    BY DEF Objs, IdOf
  <1>9. <<id, n>> \notin Live
    <2>1. ASSUME NEW i \in Ids, tilecache[i] = <<id, n>> PROVE FALSE
      <3>1. tilecache[i] # None
        BY <1>8, <2>1, Names
      <3>2. i = id
        BY <1>8, <2>1, <3>1 DEF Named
      <3> QED
        BY <3>1, <3>2
    <2>2. ASSUME NEW t \in Threads, tile[t] = <<id, n>> \/ lasttile[t] = <<id, n>> PROVE FALSE
      BY <1>7, <1>8, <2>2
    <2> QED
      BY <2>1, <2>2 DEF Live, LiveIn
  <1>10. n \in free
    BY <1>8, <1>9
  <1>11. free \in SUBSET Nat
    BY <1>5 DEF Objs
  <1>12. Min(free) \in free
    BY <1>10, <1>11, MinOf
  <1>13. PICK o \in Objs \ Live : IdOf(o) = id /\ o[2] = Min(free)
    BY <1>12
  <1>14. o = <<id, Min(free)>>
    BY <1>13 DEF Objs, IdOf
  <1> QED
    BY <1>13, <1>14

-----------------------------------------------------------------------------
\* A step of one thread disturbs nobody else.
Moves(t) ==
    /\ \A u \in Threads \ {t} :
          /\ pc'[u] = pc[u] /\ want'[u] = want[u] /\ tile'[u] = tile[u]
          /\ enter'[u] = enter[u] /\ key'[u] = key[u] /\ doomed'[u] = doomed[u]
          /\ todo'[u] = todo[u] /\ target'[u] = target[u]
    /\ \/ sweepMutex' = sweepMutex
       \/ sweepMutex = None /\ sweepMutex' = t
       \/ sweepMutex = t /\ sweepMutex' = None
    /\ sweepId' = sweepId \/ sweepMutex = t
FitsAfter(t) ==
    /\ FitsAt(pc[t], want[t], tile[t], enter[t], key[t], doomed[t], todo[t],
              target[t], sweepMutex = t)'
    /\ pc'[t] = "find" => sweepId' # None

\* A step of one thread is the others' Fits if it leaves their variables alone.
LEMMA ThreadMoves ==
    ASSUME Fits, NEW t \in Threads, Moves(t), FitsAfter(t)
    PROVE  Fits'
  <1> SUFFICES ASSUME NEW u \in Threads, u # t
               PROVE  /\ FitsAt(pc[u], want[u], tile[u], enter[u], key[u], doomed[u], todo[u],
                                target[u], sweepMutex = u)'
                      /\ pc'[u] = "find" => sweepId' # None
    BY DEF Fits, FitsAfter
  <1>1. /\ pc'[u] = pc[u] /\ want'[u] = want[u] /\ tile'[u] = tile[u]
        /\ enter'[u] = enter[u] /\ key'[u] = key[u] /\ doomed'[u] = doomed[u]
        /\ todo'[u] = todo[u] /\ target'[u] = target[u]
    BY DEF Moves
  <1>2. (sweepMutex' = u) <=> (sweepMutex = u)
    BY Names DEF Moves
  <1>3. sweepId' = sweepId \/ sweepMutex # u
    BY DEF Moves
  <1>4. /\ FitsAt(pc[u], want[u], tile[u], enter[u], key[u], doomed[u], todo[u],
                  target[u], sweepMutex = u)
        /\ pc[u] = "find" => sweepId # None
    BY DEF Fits
  <1>5. pc[u] = "find" => sweepMutex = u
    BY <1>4 DEF FitsAt, SweepPcs
  <1> QED
    BY <1>1, <1>2, <1>3, <1>4, <1>5 DEF FitsAt

\* What Fits says of a thread.
LEMMA Fit ==
    ASSUME Fits, NEW t \in Threads
    PROVE  /\ FitsAt(pc[t], want[t], tile[t], enter[t], key[t], doomed[t], todo[t],
                     target[t], sweepMutex = t)
           /\ pc[t] = "find" => sweepId # None
  BY DEF Fits

\* What is enough to keep the shape: a reference moves, or nothing does.
LEMMA KeepShape ==
    ASSUME Shape, NEW t \in Threads, ObjsTyped', CountsTyped', FilesTyped', LookupTyped',
           SweepTyped', PlacesTyped', Moves(t), FitsAfter(t), Named'
    PROVE  Shape'
  <1>1. Fits'
    BY ThreadMoves DEF Shape
  <1>2. TypeOK'
    BY DEF TypeOK, ObjsTyped, CountsTyped, FilesTyped, LookupTyped, SweepTyped, PlacesTyped,
       Places, LookupPcs, SweepPcs
  <1> QED
    BY <1>1, <1>2 DEF Shape

\* The steps of a thread that leaves the tiles and the references alone.
Still == UNCHANGED <<tilecache, tile, lasttile, obj>>
\* References to tiles of the cache and of the microcaches only.
Older(map, t1, t2) ==
    /\ map \in [Ids -> Objs \union {None}]
    /\ t1 \in PerThread(Objs \union {None}) /\ t2 \in PerThread(Objs \union {None})
    /\ LiveIn(map, t1, t2) \subseteq Live

\* A step that leaves the tiles and all that refers to them alone.
LEMMA StillTyped ==
    ASSUME ObjsTyped, Named, Still
    PROVE  ObjsTyped' /\ Named'
  BY DEF Still, ObjsTyped, Named, Live, LiveIn

\* A step after which fewer tiles are referred to.
LEMMA OlderTyped ==
    ASSUME ObjsTyped, NEW map, NEW t1, NEW t2, Older(map, t1, t2),
           Refs(map, t1, t2, obj)
    PROVE  /\ ObjsTyped' /\ Live' \subseteq Live /\ \A x \in Live' : obj'[x] = obj[x]
           /\ tilecache' = map /\ tile' = t1 /\ lasttile' = t2
  <1>1. Live' = LiveIn(map, t1, t2) /\ tilecache' = map /\ tile' = t1 /\ lasttile' = t2
    BY DEF Refs, Live
  <1>2. \A x \in LiveIn(map, t1, t2) : obj[x] \in Tile
    BY DEF ObjsTyped, Older
  <1>3. ObjsTyped' /\ \A x \in Live' : obj'[x] = obj[x]
    BY <1>2, RefsTyped DEF Older
  <1> QED
    BY <1>1, <1>3 DEF Older

\* Marking a tile, and reading it, leave it a tile.
LEMMA Marked ==
    ASSUME ObjsTyped, NEW o, obj' = [obj EXCEPT ![o].used = TRUE]
    PROVE  DOMAIN obj' = DOMAIN obj /\ \A x \in Live : obj'[x] \in Tile
  BY DEF ObjsTyped, Tile

\* Marking a tile unused changes no other field.
LEMMA Unmarked ==
    ASSUME ObjsTyped, NEW o, obj' = [obj EXCEPT ![o].used = FALSE]
    PROVE  DOMAIN obj' = DOMAIN obj /\ \A x \in Live : obj'[x] \in Tile
  BY DEF ObjsTyped, Tile

\* Reading the pixels of a tile, or failing to, keeps the tiles typed.
LEMMA WasRead ==
    ASSUME ObjsTyped, NEW o, NEW v \in Versions,
           \/ obj' = [obj EXCEPT ![o].ver = v, ![o].size = 1]
           \/ obj' = [obj EXCEPT ![o].valid = FALSE, ![o].size = 1]
    PROVE  DOMAIN obj' = DOMAIN obj /\ \A x \in Live : obj'[x] \in Tile
  <1>1. CASE obj' = [obj EXCEPT ![o].ver = v, ![o].size = 1]
    BY <1>1 DEF ObjsTyped, Tile
  <1>2. CASE obj' = [obj EXCEPT ![o].valid = FALSE, ![o].size = 1]
    BY <1>2 DEF ObjsTyped, Tile
  <1> QED
    BY <1>1, <1>2

-----------------------------------------------------------------------------
\* A lookup begins: the microcache may be dropped.
LEMMA LookupShape ==
    ASSUME Shape, NEW t \in Threads, NEW id \in Ids, Lookup(t, id)
    PROVE  Shape'
  <1> USE Names DEF Set, PerThread
  <1>1. /\ ObjsTyped /\ CountsTyped /\ FilesTyped /\ LookupTyped /\ SweepTyped /\ PlacesTyped
        /\ Fits /\ Named
    BY TypeParts DEF Shape, Typed
  <1>2. /\ UNCHANGED <<m_size, binLock, sweepMutex, sweepId, broken, disk, floor, invalidations,
                       found, inp, key, enter, loops, doomed, target, todo, atStart>>
        /\ pc[t] = "idle" /\ lookups < MaxLookups /\ lookups' = lookups + 1
    BY DEF Lookup, sweep, inval
  <1>3. /\ pc' = [pc EXCEPT ![t] = pc'[t]] /\ pc'[t] \in {"idle", "micro"}
        /\ alone' \in BOOLEAN
    BY <1>1 DEF Lookup, To, PlacesTyped
  <1>4. /\ want' = [want EXCEPT ![t] = want'[t]] /\ want'[t] \in MaybeId
        /\ pc'[t] = "micro" => want'[t] = id
        /\ need' \in PerThread(Versions) /\ input' \in [Files -> Versions \union {Closed}]
        /\ purge' \in PerThread(BOOLEAN)
    <2> DEFINE f == FileOf[id]
    <2>1. purge' \in PerThread(BOOLEAN)
      <3>1. purge \in PerThread(BOOLEAN)
        BY <1>1 DEF CountsTyped
      <3>2. \E b \in BOOLEAN : purge' = [purge EXCEPT ![t] = b]
        BY <3>1 DEF Lookup
      <3> QED
        BY <3>1, <3>2
    <2>2. f \in Files
      BY Names
    <2>3. CASE broken[f] /\ To(t, "idle") /\ UNCHANGED <<input, want, need>>
      BY <1>1, <2>1, <2>3 DEF To, PlacesTyped, LookupTyped, FilesTyped
    <2>4. CASE /\ ~broken[f] /\ To(t, "micro")
               /\ input' = [input EXCEPT ![f] = IF @ = Closed THEN disk[f] ELSE @]
               /\ want' = [want EXCEPT ![t] = id] /\ need' = [need EXCEPT ![t] = floor[f]]
      <3>1. /\ want \in [Threads -> MaybeId] /\ need \in [Threads -> Versions]
            /\ input \in [Files -> Versions \union {Closed}]
            /\ disk[f] \in Versions /\ floor[f] \in Versions
        BY <1>1, <2>2 DEF LookupTyped, FilesTyped, CountsTyped
      <3>2. input' \in [Files -> Versions \union {Closed}]
        BY <2>4, <3>1
      <3>3. need' \in [Threads -> Versions]
        BY <2>4, <3>1
      <3>4. want' = [want EXCEPT ![t] = want'[t]] /\ want'[t] = id /\ id \in MaybeId
        BY <2>4, <3>1 DEF MaybeId
      <3> HIDE DEF f
      <3> QED
        BY <2>1, <3>2, <3>3, <3>4
    <2>5. \/ broken[f] /\ To(t, "idle") /\ UNCHANGED <<input, want, need>>
          \/ /\ ~broken[f] /\ To(t, "micro")
             /\ input' = [input EXCEPT ![f] = IF @ = Closed THEN disk[f] ELSE @]
             /\ want' = [want EXCEPT ![t] = id] /\ need' = [need EXCEPT ![t] = floor[f]]
      BY DEF Lookup
    <2> QED
      BY <2>3, <2>4, <2>5
  <1>5. /\ ObjsTyped' /\ UNCHANGED tilecache /\ \A u \in Threads \ {t} : tile'[u] = tile[u]
    <2>1. CASE UNCHANGED <<tilecache, tile, lasttile, obj>>
      BY <1>1, <2>1, StillTyped DEF Still
    <2>2. CASE Refs(tilecache, Set(tile, t, None), Set(lasttile, t, None), obj)
      <3>1. Older(tilecache, Set(tile, t, None), Set(lasttile, t, None))
        BY <1>1 DEF LiveIn, Live, ObjsTyped, Older
      <3> QED
        BY <1>1, <2>2, <3>1, OlderTyped DEF ObjsTyped
    <2> QED
      BY <2>1, <2>2 DEF Lookup
  <1>6. CountsTyped' /\ FilesTyped' /\ LookupTyped' /\ SweepTyped' /\ PlacesTyped'
    <2>1. CountsTyped'
      BY <1>1, <1>2, <1>4 DEF CountsTyped
    <2>2. FilesTyped' /\ LookupTyped'
      BY <1>1, <1>2, <1>4 DEF FilesTyped, LookupTyped
    <2>3. SweepTyped'
      BY <1>1, <1>2 DEF SweepTyped
    <2>4. PlacesTyped'
      BY <1>1, <1>3 DEF PlacesTyped, Places, LookupPcs
    <2> QED
      BY <2>1, <2>2, <2>3, <2>4
  <1>7. FitsAfter(t)
    BY <1>1, <1>2, <1>3, <1>4, Fit DEF FitsAfter, FitsAt, LookupPcs, TilePcs, SweepPcs, ErasePcs
  <1>8. Moves(t) /\ Named'
    BY <1>1, <1>2, <1>3, <1>4, <1>5 DEF Moves, PlacesTyped, LookupTyped, Named
  <1> QED
    BY <1>5, <1>6, <1>7, <1>8, KeepShape
-----------------------------------------------------------------------------
\* Micro swaps the two tiles, or marks the one it finds.
LEMMA MicroShape ==
    ASSUME Shape, NEW t \in Threads, Micro(t)
    PROVE  Shape'
  <1> USE Names DEF Set, PerThread
  <1>1. /\ ObjsTyped /\ CountsTyped /\ FilesTyped /\ LookupTyped /\ SweepTyped /\ PlacesTyped
        /\ Fits /\ Named
    BY TypeParts DEF Shape, Typed
  <1>2. UNCHANGED <<tilecache, m_size, binLock, purge, sweepMutex, sweepId, input, broken,
                     disk, floor, lookups, invalidations, want, need, inp, key, enter,
                     loops, doomed, target, todo, atStart>>
    BY DEF Micro, shared, files, lookup, sweep, inval, Goto, To
  <1>3. /\ pc[t] \in {"micro"} /\ pc' = [pc EXCEPT ![t] = pc'[t]]
        /\ pc'[t] \in {"answer", "retrieve"}
        /\ alone' \in BOOLEAN
    BY <1>1 DEF Micro, Goto, To, PlacesTyped
  <1>4. found' \in PerThread(BOOLEAN)
    BY <1>1 DEF Micro, LookupTyped
  <1>5. ObjsTyped' /\ Named' /\ \A u \in Threads \ {t} : tile'[u] = tile[u]
    <2>1. /\ DOMAIN obj' = DOMAIN obj /\ \A x \in Live : obj'[x] \in Tile
      <3>1. \/ obj' = obj
            \/ obj' = [obj EXCEPT ![tile[t]].used = TRUE]
            \/ obj' = [obj EXCEPT ![lasttile[t]].used = TRUE]
        BY Zenon DEF Micro
      <3>2. obj' = obj => DOMAIN obj' = DOMAIN obj /\ \A x \in Live : obj'[x] \in Tile
        BY <1>1 DEF ObjsTyped
      <3> QED
        BY <1>1, <3>1, <3>2, Marked
    <2>2. CASE UNCHANGED <<tile, lasttile>>
      BY <1>1, <1>2, <2>1, <2>2, SameRefs DEF Named
    <2>3. CASE tile' = Set(tile, t, lasttile[t]) /\ lasttile' = Set(lasttile, t, tile[t])
      <3>1. Live' = Live
        BY <1>1, <1>2, <2>3 DEF Live, LiveIn, ObjsTyped
      <3> QED
        BY <1>1, <1>2, <2>1, <2>3, <3>1 DEF ObjsTyped, Named
    <2> QED
      BY <2>2, <2>3 DEF Micro
  <1>6. CountsTyped' /\ FilesTyped' /\ LookupTyped' /\ SweepTyped' /\ PlacesTyped'
    <2>1. CountsTyped'
      BY <1>1, <1>2 DEF CountsTyped
    <2>2. FilesTyped'
      BY <1>1, <1>2 DEF FilesTyped
    <2>3. LookupTyped'
      BY <1>1, <1>2, <1>4 DEF LookupTyped
    <2>4. SweepTyped'
      BY <1>1, <1>2 DEF SweepTyped
    <2>5. PlacesTyped'
      BY <1>1, <1>3 DEF PlacesTyped, Places, LookupPcs, SweepPcs, InvalidationPcs
    <2> QED
      BY <2>1, <2>2, <2>3, <2>4, <2>5
  <1>7. FitsAfter(t)
    BY <1>1, <1>2, <1>3, <1>4, <1>5, Fit DEF FitsAfter, FitsAt, LookupPcs, TilePcs, SweepPcs, ErasePcs
  <1>8. Moves(t)
    BY <1>1, <1>2, <1>3, <1>4, <1>5 DEF Moves, PlacesTyped, LookupTyped, SweepTyped
  <1> QED
    BY <1>5, <1>6, <1>7, <1>8, KeepShape

\* Retrieve takes the tile of the cache, or makes one with a name of its own.
LEMMA RetrieveShape ==
    ASSUME Shape, NEW t \in Threads, Retrieve(t)
    PROVE  Shape'
  <1> USE Names DEF Set, PerThread
  <1>1. /\ ObjsTyped /\ CountsTyped /\ FilesTyped /\ LookupTyped /\ SweepTyped /\ PlacesTyped
        /\ Fits /\ Named
    BY TypeParts DEF Shape, Typed
  <1>2. UNCHANGED <<m_size, binLock, purge, sweepMutex, sweepId, input, broken, disk,
                     floor, lookups, invalidations, want, found, need, inp, key, enter,
                     loops, doomed, target, todo, atStart>>
    BY DEF Retrieve, shared, files, lookup, sweep, inval, Goto, To
  <1>3. /\ pc[t] \in {"retrieve"} /\ pc' = [pc EXCEPT ![t] = pc'[t]]
        /\ pc'[t] \in {"wait", "insert"}
        /\ alone' \in BOOLEAN
    BY <1>1 DEF Retrieve, Goto, To, PlacesTyped
  <1>4. want[t] \in Ids
        /\ tile'[t] \in Objs /\ IdOf(tile'[t]) = want[t]
        /\ ObjsTyped' /\ UNCHANGED <<tilecache, lasttile>>
        /\ \A u \in Threads \ {t} : tile'[u] = tile[u]
    <2> DEFINE id == want[t]
               new == <<id, Min({o[2] : o \in {x \in Objs \ Live : IdOf(x) = id}})>>
    <2>1. id \in Ids
      BY <1>1, <1>3, Fit DEF FitsAt, LookupPcs
    <2>2. CASE tilecache[id] # None
      <3>1. Refs(tilecache, Set(tile, t, tilecache[id]), lasttile, obj)
        BY <2>2 DEF Retrieve
      <3>2. Older(tilecache, Set(tile, t, tilecache[id]), lasttile)
        BY <1>1, <2>1, <2>2 DEF LiveIn, Live, ObjsTyped, Older
      <3>3. /\ ObjsTyped' /\ UNCHANGED <<tilecache, lasttile>>
            /\ tile' = Set(tile, t, tilecache[id])
        BY <1>1, <3>1, <3>2, OlderTyped
      <3> QED
        BY <1>1, <2>1, <2>2, <3>3 DEF ObjsTyped, Named
    <2>3. CASE tilecache[id] = None
      <3> DEFINE o2 == [o \in Live \union {new} |-> IF o = new THEN NewTile ELSE obj[o]]
      <3>1. Refs(tilecache, Set(tile, t, new), lasttile, o2)
        BY <2>3 DEF Retrieve
      <3>2. new \in Objs \ Live
        BY <1>1, <2>1, <2>3, FreeName
      <3>3. IdOf(new) = id
        BY DEF IdOf
      <3> HIDE DEF new
      <3>4. LiveIn(tilecache, Set(tile, t, new), lasttile) \subseteq Live \union {new}
        BY <1>1 DEF LiveIn, Live, ObjsTyped
      <3>5. NewTile \in Tile
        BY DEF NewTile, Tile
      <3>6. \A x \in LiveIn(tilecache, Set(tile, t, new), lasttile) : o2[x] \in Tile
        BY <1>1, <3>4, <3>5 DEF ObjsTyped
      <3>7. /\ tilecache \in [Ids -> Objs \union {None}]
            /\ Set(tile, t, new) \in PerThread(Objs \union {None})
            /\ lasttile \in PerThread(Objs \union {None})
        BY <1>1, <3>2 DEF ObjsTyped
      <3> HIDE DEF o2
      <3>8. ObjsTyped'
        BY <3>1, <3>6, <3>7, RefsTyped
      <3> QED
        BY <1>1, <2>1, <3>1, <3>2, <3>3, <3>8 DEF Refs, ObjsTyped
    <2> QED
      BY <2>1, <2>2, <2>3
  <1>5. ObjsTyped' /\ Named' /\ \A u \in Threads \ {t} : tile'[u] = tile[u]
    BY <1>1, <1>4 DEF Named
  <1>6. CountsTyped' /\ FilesTyped' /\ LookupTyped' /\ SweepTyped' /\ PlacesTyped'
    <2>1. CountsTyped'
      BY <1>1, <1>2 DEF CountsTyped
    <2>2. FilesTyped'
      BY <1>1, <1>2 DEF FilesTyped
    <2>3. LookupTyped'
      BY <1>1, <1>2 DEF LookupTyped
    <2>4. SweepTyped'
      BY <1>1, <1>2 DEF SweepTyped
    <2>5. PlacesTyped'
      BY <1>1, <1>3 DEF PlacesTyped, Places, LookupPcs, SweepPcs, InvalidationPcs
    <2> QED
      BY <2>1, <2>2, <2>3, <2>4, <2>5
  <1>7. FitsAfter(t)
    BY <1>1, <1>2, <1>3, <1>4, <1>5, Fit DEF FitsAfter, FitsAt, LookupPcs, TilePcs, SweepPcs, ErasePcs
  <1>8. Moves(t)
    BY <1>1, <1>2, <1>3, <1>4, <1>5 DEF Moves, PlacesTyped, LookupTyped, SweepTyped
  <1> QED
    BY <1>5, <1>6, <1>7, <1>8, KeepShape

\* A tile that was found is marked.
LEMMA WaitFoundShape ==
    ASSUME Shape, NEW t \in Threads, WaitFound(t)
    PROVE  Shape'
  <1> USE Names DEF Set, PerThread
  <1>1. /\ ObjsTyped /\ CountsTyped /\ FilesTyped /\ LookupTyped /\ SweepTyped /\ PlacesTyped
        /\ Fits /\ Named
    BY TypeParts DEF Shape, Typed
  <1>2. UNCHANGED <<tilecache, m_size, binLock, tile, lasttile, purge, sweepMutex, sweepId,
                     input, broken, disk, floor, lookups, invalidations, want, need, inp,
                     key, enter, loops, doomed, target, todo, atStart>>
    BY DEF WaitFound, shared, files, lookup, sweep, inval, Goto, To
  <1>3. /\ pc[t] \in {"wait"} /\ pc' = [pc EXCEPT ![t] = pc'[t]]
        /\ pc'[t] \in {"answer"}
        /\ alone' \in BOOLEAN
    BY <1>1 DEF WaitFound, Goto, To, PlacesTyped
  <1>4. found' \in PerThread(BOOLEAN)
    BY <1>1 DEF WaitFound, LookupTyped
  <1>5. ObjsTyped' /\ Named' /\ \A u \in Threads \ {t} : tile'[u] = tile[u]
    <2>1. DOMAIN obj' = DOMAIN obj /\ \A x \in Live : obj'[x] \in Tile
      BY <1>1, Marked DEF WaitFound
    <2> QED
      BY <1>1, <1>2, <2>1, SameRefs DEF Named
  <1>6. CountsTyped' /\ FilesTyped' /\ LookupTyped' /\ SweepTyped' /\ PlacesTyped'
    <2>1. CountsTyped'
      BY <1>1, <1>2 DEF CountsTyped
    <2>2. FilesTyped'
      BY <1>1, <1>2 DEF FilesTyped
    <2>3. LookupTyped'
      BY <1>1, <1>2, <1>4 DEF LookupTyped
    <2>4. SweepTyped'
      BY <1>1, <1>2 DEF SweepTyped
    <2>5. PlacesTyped'
      BY <1>1, <1>3 DEF PlacesTyped, Places, LookupPcs, SweepPcs, InvalidationPcs
    <2> QED
      BY <2>1, <2>2, <2>3, <2>4, <2>5
  <1>7. FitsAfter(t)
    BY <1>1, <1>2, <1>3, <1>4, <1>5, Fit DEF FitsAfter, FitsAt, LookupPcs, TilePcs, SweepPcs, ErasePcs
  <1>8. Moves(t)
    BY <1>1, <1>2, <1>3, <1>4, <1>5 DEF Moves, PlacesTyped, LookupTyped, SweepTyped
  <1> QED
    BY <1>5, <1>6, <1>7, <1>8, KeepShape

\* The new tile goes into the cache, or gives way to the one that is there.
LEMMA InsertShape ==
    ASSUME Shape, NEW t \in Threads, Insert(t)
    PROVE  Shape'
  <1> USE Names DEF Set, PerThread
  <1>1. /\ ObjsTyped /\ CountsTyped /\ FilesTyped /\ LookupTyped /\ SweepTyped /\ PlacesTyped
        /\ Fits /\ Named
    BY TypeParts DEF Shape, Typed
  <1>2. UNCHANGED <<binLock, purge, sweepMutex, sweepId, input, broken, disk, floor,
                     lookups, invalidations, want, found, need, inp, key, enter, loops,
                     doomed, target, todo, atStart>>
    BY DEF Insert, shared, files, lookup, sweep, inval, Goto, To
  <1>3. /\ pc[t] \in {"insert"} /\ pc' = [pc EXCEPT ![t] = pc'[t]]
        /\ pc'[t] \in {"read", "wait inserted"}
        /\ alone' \in BOOLEAN
    BY <1>1 DEF Insert, Goto, To, PlacesTyped
  <1>4. want[t] \in Ids /\ m_size' \in Int
        /\ tile'[t] \in Objs /\ IdOf(tile'[t]) = want[t]
        /\ ObjsTyped' /\ Named'
        /\ \A u \in Threads \ {t} : tile'[u] = tile[u]
    <2> DEFINE id == want[t]
    <2>1. id \in Ids /\ tile[t] \in Objs /\ IdOf(tile[t]) = id
      BY <1>1, <1>3, Fit DEF FitsAt, LookupPcs, TilePcs, ObjsTyped
    <2>2. CASE tilecache[id] = None
      <3>1. Refs(Set(tilecache, id, tile[t]), tile, lasttile, obj) /\ m_size' = m_size + 1
        BY <2>2 DEF Insert
      <3>2. Older(Set(tilecache, id, tile[t]), tile, lasttile)
        BY <1>1, <2>1 DEF LiveIn, Live, ObjsTyped, Older
      <3>3. /\ ObjsTyped' /\ UNCHANGED tile
            /\ tilecache' = Set(tilecache, id, tile[t])
        BY <1>1, <3>1, <3>2, OlderTyped
      <3>4. Named'
        BY <1>1, <2>1, <3>3 DEF ObjsTyped, Named
      <3> QED
        BY <1>1, <2>1, <3>1, <3>3, <3>4 DEF ObjsTyped, CountsTyped
    <2>3. CASE tilecache[id] # None
      <3>1. Refs(tilecache, Set(tile, t, tilecache[id]), lasttile, obj) /\ UNCHANGED m_size
        BY <2>3 DEF Insert
      <3>2. Older(tilecache, Set(tile, t, tilecache[id]), lasttile)
        BY <1>1, <2>1, <2>3 DEF LiveIn, Live, ObjsTyped, Older
      <3>3. /\ ObjsTyped' /\ UNCHANGED tilecache
            /\ tile' = Set(tile, t, tilecache[id])
        BY <1>1, <3>1, <3>2, OlderTyped
      <3>4. Named'
        BY <1>1, <3>3 DEF Named
      <3> QED
        BY <1>1, <2>1, <2>3, <3>1, <3>3, <3>4 DEF ObjsTyped, Named, CountsTyped
    <2> QED
      BY <2>1, <2>2, <2>3
  <1>5. ObjsTyped' /\ Named' /\ \A u \in Threads \ {t} : tile'[u] = tile[u]
    BY <1>4
  <1>6. CountsTyped' /\ FilesTyped' /\ LookupTyped' /\ SweepTyped' /\ PlacesTyped'
    <2>1. CountsTyped'
      BY <1>1, <1>2, <1>4 DEF CountsTyped
    <2>2. FilesTyped'
      BY <1>1, <1>2 DEF FilesTyped
    <2>3. LookupTyped'
      BY <1>1, <1>2 DEF LookupTyped
    <2>4. SweepTyped'
      BY <1>1, <1>2 DEF SweepTyped
    <2>5. PlacesTyped'
      BY <1>1, <1>3 DEF PlacesTyped, Places, LookupPcs, SweepPcs, InvalidationPcs
    <2> QED
      BY <2>1, <2>2, <2>3, <2>4, <2>5
  <1>7. FitsAfter(t)
    BY <1>1, <1>2, <1>3, <1>4, <1>5, Fit DEF FitsAfter, FitsAt, LookupPcs, TilePcs, SweepPcs, ErasePcs
  <1>8. Moves(t)
    BY <1>1, <1>2, <1>3, <1>4, <1>5 DEF Moves, PlacesTyped, LookupTyped, SweepTyped
  <1> QED
    BY <1>5, <1>6, <1>7, <1>8, KeepShape

\* The answer is whether the tile is valid.
LEMMA WaitInsertedShape ==
    ASSUME Shape, NEW t \in Threads, WaitInserted(t)
    PROVE  Shape'
  <1> USE Names DEF Set, PerThread
  <1>1. /\ ObjsTyped /\ CountsTyped /\ FilesTyped /\ LookupTyped /\ SweepTyped /\ PlacesTyped
        /\ Fits /\ Named
    BY TypeParts DEF Shape, Typed
  <1>2. UNCHANGED <<tilecache, m_size, binLock, obj, tile, lasttile, purge, sweepMutex,
                     sweepId, input, broken, disk, floor, lookups, invalidations, want,
                     need, inp, key, enter, loops, doomed, target, todo, atStart>>
    BY DEF WaitInserted, shared, files, lookup, sweep, inval, Goto, To
  <1>3. /\ pc[t] \in {"wait inserted"} /\ pc' = [pc EXCEPT ![t] = pc'[t]]
        /\ pc'[t] \in {"answer"}
        /\ alone' \in BOOLEAN
    BY <1>1 DEF WaitInserted, Goto, To, PlacesTyped
  <1>4. tile[t] \in Live
        /\ found' \in PerThread(BOOLEAN)
    <2>1. tile[t] \in Live
      BY <1>1, <1>3, Fit DEF FitsAt, TilePcs, Live, LiveIn, ObjsTyped
    <2>2. obj[tile[t]].valid \in BOOLEAN
      BY <1>1, <2>1 DEF ObjsTyped, Tile
    <2> QED
      BY <1>1, <2>1, <2>2 DEF WaitInserted, LookupTyped
  <1>5. ObjsTyped' /\ Named' /\ \A u \in Threads \ {t} : tile'[u] = tile[u]
    BY <1>1, <1>2, StillTyped DEF Still
  <1>6. CountsTyped' /\ FilesTyped' /\ LookupTyped' /\ SweepTyped' /\ PlacesTyped'
    <2>1. CountsTyped'
      BY <1>1, <1>2 DEF CountsTyped
    <2>2. FilesTyped'
      BY <1>1, <1>2 DEF FilesTyped
    <2>3. LookupTyped'
      BY <1>1, <1>2, <1>4 DEF LookupTyped
    <2>4. SweepTyped'
      BY <1>1, <1>2 DEF SweepTyped
    <2>5. PlacesTyped'
      BY <1>1, <1>3 DEF PlacesTyped, Places, LookupPcs, SweepPcs, InvalidationPcs
    <2> QED
      BY <2>1, <2>2, <2>3, <2>4, <2>5
  <1>7. FitsAfter(t)
    BY <1>1, <1>2, <1>3, <1>4, <1>5, Fit DEF FitsAfter, FitsAt, LookupPcs, TilePcs, SweepPcs, ErasePcs
  <1>8. Moves(t)
    BY <1>1, <1>2, <1>3, <1>4, <1>5 DEF Moves, PlacesTyped, LookupTyped, SweepTyped
  <1> QED
    BY <1>5, <1>6, <1>7, <1>8, KeepShape

\* Opening the file again.
LEMMA OpenInputShape ==
    ASSUME Shape, NEW t \in Threads, OpenInput(t)
    PROVE  Shape'
  <1> USE Names DEF Set, PerThread
  <1>1. /\ ObjsTyped /\ CountsTyped /\ FilesTyped /\ LookupTyped /\ SweepTyped /\ PlacesTyped
        /\ Fits /\ Named
    BY TypeParts DEF Shape, Typed
  <1>2. UNCHANGED <<tilecache, m_size, binLock, obj, tile, lasttile, purge, sweepMutex,
                     sweepId, broken, disk, floor, lookups, invalidations, want, found,
                     need, key, enter, loops, doomed, target, todo, atStart>>
    BY DEF OpenInput, shared, files, lookup, sweep, inval, Goto, To
  <1>3. /\ pc[t] \in {"read"} /\ pc' = [pc EXCEPT ![t] = pc'[t]]
        /\ pc'[t] \in {"pixels"}
        /\ alone' \in BOOLEAN
    BY <1>1 DEF OpenInput, Goto, To, PlacesTyped
  <1>4. /\ input' \in [Files -> Versions \union {Closed}]
        /\ inp' \in PerThread(Versions \union {Closed})
    <2>1. FileOf[want[t]] \in Files
      BY <1>1, <1>3, Fit DEF FitsAt, LookupPcs
    <2>2. CASE broken[FileOf[want[t]]]
      BY <1>1, <2>2 DEF OpenInput, FilesTyped, LookupTyped
    <2>3. CASE ~broken[FileOf[want[t]]]
      <3>1. input' = [input EXCEPT ![FileOf[want[t]]] = IF @ = Closed THEN disk[FileOf[want[t]]] ELSE @]
            /\ inp' = Set(inp, t, input'[FileOf[want[t]]])
        BY <2>3 DEF OpenInput
      <3>2. input' \in [Files -> Versions \union {Closed}]
        BY <1>1, <2>1, <3>1 DEF FilesTyped
      <3> QED
        BY <1>1, <2>1, <3>1, <3>2 DEF LookupTyped
    <2> QED
      BY <2>2, <2>3
  <1>5. ObjsTyped' /\ Named' /\ \A u \in Threads \ {t} : tile'[u] = tile[u]
    BY <1>1, <1>2, StillTyped DEF Still
  <1>6. CountsTyped' /\ FilesTyped' /\ LookupTyped' /\ SweepTyped' /\ PlacesTyped'
    <2>1. CountsTyped'
      BY <1>1, <1>2 DEF CountsTyped
    <2>2. FilesTyped'
      BY <1>1, <1>2, <1>4 DEF FilesTyped
    <2>3. LookupTyped'
      BY <1>1, <1>2, <1>4 DEF LookupTyped
    <2>4. SweepTyped'
      BY <1>1, <1>2 DEF SweepTyped
    <2>5. PlacesTyped'
      BY <1>1, <1>3 DEF PlacesTyped, Places, LookupPcs, SweepPcs, InvalidationPcs
    <2> QED
      BY <2>1, <2>2, <2>3, <2>4, <2>5
  <1>7. FitsAfter(t)
    BY <1>1, <1>2, <1>3, <1>4, <1>5, Fit DEF FitsAfter, FitsAt, LookupPcs, TilePcs, SweepPcs, ErasePcs
  <1>8. Moves(t)
    BY <1>1, <1>2, <1>3, <1>4, <1>5 DEF Moves, PlacesTyped, LookupTyped, SweepTyped
  <1> QED
    BY <1>5, <1>6, <1>7, <1>8, KeepShape

\* The pixels are read, or the file is broken.
LEMMA ReadPixelsShape ==
    ASSUME Shape, NEW t \in Threads, ReadPixels(t)
    PROVE  Shape'
  <1> USE Names DEF Set, PerThread
  <1>1. /\ ObjsTyped /\ CountsTyped /\ FilesTyped /\ LookupTyped /\ SweepTyped /\ PlacesTyped
        /\ Fits /\ Named
    BY TypeParts DEF Shape, Typed
  <1>2. UNCHANGED <<tilecache, m_size, binLock, tile, lasttile, purge, sweepMutex, sweepId,
                     input, disk, floor, lookups, invalidations, want, found, need, key,
                     enter, loops, doomed, target, todo, atStart>>
    BY DEF ReadPixels, shared, files, lookup, sweep, inval, Goto, To
  <1>3. /\ pc[t] \in {"pixels"} /\ pc' = [pc EXCEPT ![t] = pc'[t]]
        /\ pc'[t] \in {"publish"}
        /\ alone' \in BOOLEAN
    BY <1>1 DEF ReadPixels, Goto, To, PlacesTyped
  <1>4. /\ broken' \in [Files -> BOOLEAN]
        /\ inp' \in PerThread(Versions \union {Closed})
    <2>1. FileOf[want[t]] \in Files
      BY <1>1, <1>3, Fit DEF FitsAt, LookupPcs
    <2>2. inp' \in PerThread(Versions \union {Closed})
      BY <1>1 DEF ReadPixels, LookupTyped
    <2>3. broken' \in [Files -> BOOLEAN]
      BY <1>1, <2>1, Zenon DEF ReadPixels, FilesTyped
    <2> QED
      BY <2>2, <2>3
  <1>5. ObjsTyped' /\ Named' /\ \A u \in Threads \ {t} : tile'[u] = tile[u]
    <2>1. inp[t] \in Versions \union {Closed}
      BY <1>1 DEF LookupTyped
    <2>2. DOMAIN obj' = DOMAIN obj /\ \A x \in Live : obj'[x] \in Tile
      <3>1. \/ /\ inp[t] # Closed
               /\ obj' = [obj EXCEPT ![tile[t]].ver = inp[t], ![tile[t]].size = 1]
            \/ obj' = [obj EXCEPT ![tile[t]].valid = FALSE, ![tile[t]].size = 1]
        BY Zenon DEF ReadPixels
      <3> QED
        BY <1>1, <2>1, <3>1, WasRead, Names
    <2> QED
      BY <1>1, <1>2, <2>2, SameRefs DEF Named
  <1>6. CountsTyped' /\ FilesTyped' /\ LookupTyped' /\ SweepTyped' /\ PlacesTyped'
    <2>1. CountsTyped'
      BY <1>1, <1>2 DEF CountsTyped
    <2>2. FilesTyped'
      BY <1>1, <1>2, <1>4 DEF FilesTyped
    <2>3. LookupTyped'
      BY <1>1, <1>2, <1>4 DEF LookupTyped
    <2>4. SweepTyped'
      BY <1>1, <1>2 DEF SweepTyped
    <2>5. PlacesTyped'
      BY <1>1, <1>3 DEF PlacesTyped, Places, LookupPcs, SweepPcs, InvalidationPcs
    <2> QED
      BY <2>1, <2>2, <2>3, <2>4, <2>5
  <1>7. FitsAfter(t)
    BY <1>1, <1>2, <1>3, <1>4, <1>5, Fit DEF FitsAfter, FitsAt, LookupPcs, TilePcs, SweepPcs, ErasePcs
  <1>8. Moves(t)
    BY <1>1, <1>2, <1>3, <1>4, <1>5 DEF Moves, PlacesTyped, LookupTyped, SweepTyped
  <1> QED
    BY <1>5, <1>6, <1>7, <1>8, KeepShape

\* The tile becomes ready.
LEMMA PublishShape ==
    ASSUME Shape, NEW t \in Threads, Publish(t)
    PROVE  Shape'
  <1> USE Names DEF Set, PerThread
  <1>1. /\ ObjsTyped /\ CountsTyped /\ FilesTyped /\ LookupTyped /\ SweepTyped /\ PlacesTyped
        /\ Fits /\ Named
    BY TypeParts DEF Shape, Typed
  <1>2. UNCHANGED <<tilecache, m_size, binLock, tile, lasttile, purge, sweepMutex, sweepId,
                     input, broken, disk, floor, lookups, invalidations, want, need, inp,
                     key, enter, loops, doomed, target, todo, atStart>>
    BY DEF Publish, shared, files, lookup, sweep, inval, Goto, To
  <1>3. /\ pc[t] \in {"publish"} /\ pc' = [pc EXCEPT ![t] = pc'[t]]
        /\ pc'[t] \in {"check mem"}
        /\ alone' \in BOOLEAN
    BY <1>1 DEF Publish, Goto, To, PlacesTyped
  <1>4. tile[t] \in Live
        /\ found' \in PerThread(BOOLEAN)
    <2>1. tile[t] \in Live
      BY <1>1, <1>3, Fit DEF FitsAt, TilePcs, Live, LiveIn, ObjsTyped
    <2>2. obj[tile[t]].valid \in BOOLEAN
      BY <1>1, <2>1 DEF ObjsTyped, Tile
    <2> QED
      BY <1>1, <2>1, <2>2 DEF Publish, LookupTyped
  <1>5. ObjsTyped' /\ Named' /\ \A u \in Threads \ {t} : tile'[u] = tile[u]
    <2>1. obj[tile[t]] \in Tile
      BY <1>1, <1>4 DEF ObjsTyped
    <2>2. (obj[tile[t]].used /\ obj[tile[t]].valid) \in BOOLEAN
      OBVIOUS
    <2>3. obj' = [obj EXCEPT ![tile[t]].used = obj[tile[t]].used /\ obj[tile[t]].valid,
                             ![tile[t]].ready = TRUE]
      BY DEF Publish
    <2>4. DOMAIN obj' = DOMAIN obj /\ \A x \in Live : obj'[x] \in Tile
      BY <1>1, <2>1, <2>2, <2>3 DEF ObjsTyped, Tile
    <2> QED
      BY <1>1, <1>2, <2>4, SameRefs DEF Named
  <1>6. CountsTyped' /\ FilesTyped' /\ LookupTyped' /\ SweepTyped' /\ PlacesTyped'
    <2>1. CountsTyped'
      BY <1>1, <1>2 DEF CountsTyped
    <2>2. FilesTyped'
      BY <1>1, <1>2 DEF FilesTyped
    <2>3. LookupTyped'
      BY <1>1, <1>2, <1>4 DEF LookupTyped
    <2>4. SweepTyped'
      BY <1>1, <1>2 DEF SweepTyped
    <2>5. PlacesTyped'
      BY <1>1, <1>3 DEF PlacesTyped, Places, LookupPcs, SweepPcs, InvalidationPcs
    <2> QED
      BY <2>1, <2>2, <2>3, <2>4, <2>5
  <1>7. FitsAfter(t)
    BY <1>1, <1>2, <1>3, <1>4, <1>5, Fit DEF FitsAfter, FitsAt, LookupPcs, TilePcs, SweepPcs, ErasePcs
  <1>8. Moves(t)
    BY <1>1, <1>2, <1>3, <1>4, <1>5 DEF Moves, PlacesTyped, LookupTyped, SweepTyped
  <1> QED
    BY <1>5, <1>6, <1>7, <1>8, KeepShape

\* The call returns.
LEMMA AnswerShape ==
    ASSUME Shape, NEW t \in Threads, Answer(t)
    PROVE  Shape'
  <1> USE Names DEF Set, PerThread
  <1>1. /\ ObjsTyped /\ CountsTyped /\ FilesTyped /\ LookupTyped /\ SweepTyped /\ PlacesTyped
        /\ Fits /\ Named
    BY TypeParts DEF Shape, Typed
  <1>2. UNCHANGED <<tilecache, m_size, binLock, obj, tile, lasttile, purge, sweepMutex,
                     sweepId, input, broken, disk, floor, lookups, invalidations, inp, key,
                     enter, loops, doomed, target, todo, atStart>>
    BY DEF Answer, shared, files, lookup, sweep, inval, Goto, To
  <1>3. /\ pc[t] \in {"answer"} /\ pc' = [pc EXCEPT ![t] = pc'[t]]
        /\ pc'[t] \in {"idle"}
        /\ alone' \in BOOLEAN
    BY <1>1 DEF Answer, Goto, To, PlacesTyped
  <1>4. /\ want' = [want EXCEPT ![t] = None] /\ want' \in PerThread(MaybeId)
        /\ found' \in PerThread(BOOLEAN)
        /\ need' \in PerThread(Versions)
    BY <1>1 DEF Answer, LookupTyped, MaybeId
  <1>5. ObjsTyped' /\ Named' /\ \A u \in Threads \ {t} : tile'[u] = tile[u]
    BY <1>1, <1>2, StillTyped DEF Still
  <1>6. CountsTyped' /\ FilesTyped' /\ LookupTyped' /\ SweepTyped' /\ PlacesTyped'
    <2>1. CountsTyped'
      BY <1>1, <1>2 DEF CountsTyped
    <2>2. FilesTyped'
      BY <1>1, <1>2 DEF FilesTyped
    <2>3. LookupTyped'
      BY <1>1, <1>2, <1>4 DEF LookupTyped
    <2>4. SweepTyped'
      BY <1>1, <1>2 DEF SweepTyped
    <2>5. PlacesTyped'
      BY <1>1, <1>3 DEF PlacesTyped, Places, LookupPcs, SweepPcs, InvalidationPcs
    <2> QED
      BY <2>1, <2>2, <2>3, <2>4, <2>5
  <1>7. FitsAfter(t)
    BY <1>1, <1>2, <1>3, <1>4, <1>5, Fit DEF FitsAfter, FitsAt, LookupPcs, TilePcs, SweepPcs, ErasePcs
  <1>8. Moves(t)
    BY <1>1, <1>2, <1>3, <1>4, <1>5 DEF Moves, PlacesTyped, LookupTyped, SweepTyped, MaybeId
  <1> QED
    BY <1>5, <1>6, <1>7, <1>8, KeepShape
-----------------------------------------------------------------------------
\* Where StopAt leaves the iterator.
LEMMA Stops ==
    ASSUME NEW t \in Threads, NEW b \in Bins, NEW k \in MaybeId, StopAt(t, b, k),
           SweepTyped, PlacesTyped, pc[t] \in {"begin", "next", "look"}
    PROVE  /\ key' \in PerThread(MaybeId) /\ sweepId' \in MaybeId
           /\ binLock' \in [Bins -> Threads \union {None}]
           /\ pc' = [pc EXCEPT ![t] = pc'[t]] /\ alone' \in BOOLEAN
           /\ \A u \in Threads \ {t} : key'[u] = key[u]
           /\ \A c \in Bins \ {b} : binLock'[c] = binLock[c]
           /\ doomed'[t] = None =>
                 /\ key'[t] = k /\ binLock'[b] = (IF k = None THEN None ELSE t)
                 /\ pc'[t] = IF pc[t] = "begin" THEN (IF k = None THEN "finish" ELSE "look")
                             ELSE "sweep"
           /\ doomed'[t] # None => /\ pc'[t] = "evict" /\ key'[t] = None /\ binLock'[b] = None
  <1> USE Names DEF Set, PerThread
  <1>1. CASE doomed'[t] = None
    <2>1. /\ key' = Set(key, t, k) /\ sweepId' = sweepId
          /\ binLock' = Set(binLock, b, IF k = None THEN None ELSE t)
          /\ To(t, IF pc[t] = "begin" THEN (IF k = None THEN "finish" ELSE "look") ELSE "sweep")
      BY <1>1 DEF StopAt, At
    <2> QED
      BY <1>1, <2>1 DEF SweepTyped, PlacesTyped, To, MaybeId
  <1>2. CASE doomed'[t] # None
    <2>1. /\ key' = Set(key, t, None) /\ sweepId' = k /\ binLock' = Set(binLock, b, None)
          /\ To(t, "evict")
      BY <1>2 DEF StopAt, At
    <2> QED
      BY <1>2, <2>1 DEF SweepTyped, PlacesTyped, To, MaybeId
  <1> QED
    BY <1>1, <1>2

\* The least entry of a part of a bin.
LEMMA LeastEntry ==
    ASSUME NEW b, NEW S \in SUBSET InBin(b), S # {}
    PROVE  Min(S) \in Ids /\ Min(S) \in InBin(b) /\ Min(S) \in S
  <1>1. InBin(b) \subseteq Ids
    BY DEF InBin
  <1>2. S \in SUBSET Nat
    BY <1>1, Names
  <1> QED
    BY <1>1, <1>2, MinOf


\* A thread becomes the one that sweeps, or leaves that to another.
LEMMA CheckMemShape ==
    ASSUME Shape, NEW t \in Threads, CheckMem(t)
    PROVE  Shape'
  <1> USE Names DEF Set, PerThread
  <1>1. /\ ObjsTyped /\ CountsTyped /\ FilesTyped /\ LookupTyped /\ SweepTyped /\ PlacesTyped
        /\ Fits /\ Named
    BY TypeParts DEF Shape, Typed
  <1>2. UNCHANGED <<tilecache, m_size, binLock, obj, tile, lasttile, purge, sweepId, input,
                     broken, disk, floor, lookups, invalidations, want, found, need, inp,
                     key, enter, loops, doomed, target, todo, atStart>>
    BY DEF CheckMem, shared, files, lookup, sweep, inval, Goto, To
  <1>3. /\ pc[t] \in {"check mem"} /\ pc' = [pc EXCEPT ![t] = pc'[t]]
        /\ pc'[t] \in {"answer", "sweep", "find"}
        /\ alone' \in BOOLEAN
    BY <1>1 DEF CheckMem, Goto, To, PlacesTyped
  <1>4. \/ pc'[t] = "answer" /\ sweepMutex' = sweepMutex
        \/ /\ sweepMutex = None /\ sweepMutex' = t
           /\ pc'[t] = IF sweepId = None THEN "sweep" ELSE "find"
    BY <1>1 DEF CheckMem, To, PlacesTyped
  <1>5. ObjsTyped' /\ Named' /\ \A u \in Threads \ {t} : tile'[u] = tile[u]
    BY <1>1, <1>2, StillTyped DEF Still
  <1>6. CountsTyped' /\ FilesTyped' /\ LookupTyped' /\ SweepTyped' /\ PlacesTyped'
    <2>1. CountsTyped'
      BY <1>1, <1>2 DEF CountsTyped
    <2>2. FilesTyped'
      BY <1>1, <1>2 DEF FilesTyped
    <2>3. LookupTyped'
      BY <1>1, <1>2 DEF LookupTyped
    <2>4. SweepTyped'
      BY <1>1, <1>2, <1>4 DEF SweepTyped
    <2>5. PlacesTyped'
      BY <1>1, <1>3 DEF PlacesTyped, Places, LookupPcs, SweepPcs, InvalidationPcs
    <2> QED
      BY <2>1, <2>2, <2>3, <2>4, <2>5
  <1>7. FitsAfter(t)
    BY <1>1, <1>2, <1>3, <1>4, <1>5, Fit DEF FitsAfter, FitsAt, LookupPcs, TilePcs, SweepPcs, ErasePcs
  <1>8. Moves(t)
    BY <1>1, <1>2, <1>3, <1>4, <1>5 DEF Moves, PlacesTyped, LookupTyped, SweepTyped
  <1> QED
    BY <1>5, <1>6, <1>7, <1>8, KeepShape

\* The hand of the clock is found again.
LEMMA FindHandShape ==
    ASSUME Shape, NEW t \in Threads, FindHand(t)
    PROVE  Shape'
  <1> USE Names DEF Set, PerThread
  <1>1. /\ ObjsTyped /\ CountsTyped /\ FilesTyped /\ LookupTyped /\ SweepTyped /\ PlacesTyped
        /\ Fits /\ Named
    BY TypeParts DEF Shape, Typed
  <1>2. UNCHANGED <<tilecache, m_size, obj, tile, lasttile, purge, sweepMutex, sweepId,
                     input, broken, disk, floor, lookups, invalidations, want, found, need,
                     inp, enter, loops, doomed, target, todo, atStart>>
    BY DEF FindHand, shared, files, lookup, sweep, inval, Goto, To
  <1>3. /\ pc[t] \in {"find"} /\ pc' = [pc EXCEPT ![t] = pc'[t]]
        /\ pc'[t] \in {"sweep"}
        /\ alone' \in BOOLEAN
    BY <1>1 DEF FindHand, Goto, To, PlacesTyped
  <1>4. /\ key' \in PerThread(MaybeId) /\ \A u \in Threads \ {t} : key'[u] = key[u]
        /\ binLock' \in [Bins -> Threads \union {None}]
    <2>1. BinOf[sweepId] \in Bins
      BY <1>1, <1>3, Fit DEF SweepTyped, MaybeId
    <2> QED
      BY <1>1, <2>1 DEF FindHand, At, SweepTyped, MaybeId
  <1>5. ObjsTyped' /\ Named' /\ \A u \in Threads \ {t} : tile'[u] = tile[u]
    BY <1>1, <1>2, StillTyped DEF Still
  <1>6. CountsTyped' /\ FilesTyped' /\ LookupTyped' /\ SweepTyped' /\ PlacesTyped'
    <2>1. CountsTyped'
      BY <1>1, <1>2 DEF CountsTyped
    <2>2. FilesTyped'
      BY <1>1, <1>2 DEF FilesTyped
    <2>3. LookupTyped'
      BY <1>1, <1>2 DEF LookupTyped
    <2>4. SweepTyped'
      BY <1>1, <1>2, <1>4 DEF SweepTyped
    <2>5. PlacesTyped'
      BY <1>1, <1>3 DEF PlacesTyped, Places, LookupPcs, SweepPcs, InvalidationPcs
    <2> QED
      BY <2>1, <2>2, <2>3, <2>4, <2>5
  <1>7. FitsAfter(t)
    BY <1>1, <1>2, <1>3, <1>4, <1>5, Fit DEF FitsAfter, FitsAt, LookupPcs, TilePcs, SweepPcs, ErasePcs
  <1>8. Moves(t)
    BY <1>1, <1>2, <1>3, <1>4, <1>5 DEF Moves, PlacesTyped, LookupTyped, SweepTyped
  <1> QED
    BY <1>5, <1>6, <1>7, <1>8, KeepShape

\* The head of the loop.
LEMMA SweepHeadShape ==
    ASSUME Shape, NEW t \in Threads, SweepHead(t)
    PROVE  Shape'
  <1> USE Names DEF Set, PerThread
  <1>1. /\ ObjsTyped /\ CountsTyped /\ FilesTyped /\ LookupTyped /\ SweepTyped /\ PlacesTyped
        /\ Fits /\ Named
    BY TypeParts DEF Shape, Typed
  <1>2. UNCHANGED <<tilecache, m_size, binLock, obj, tile, lasttile, purge, sweepMutex,
                     sweepId, input, broken, disk, floor, lookups, invalidations, want,
                     found, need, inp, key, doomed, target, todo, atStart>>
    BY DEF SweepHead, shared, files, lookup, sweep, inval, Goto, To
  <1>3. /\ pc[t] \in {"sweep"} /\ pc' = [pc EXCEPT ![t] = pc'[t]]
        /\ pc'[t] \in {"finish", "begin", "look"}
        /\ alone' \in BOOLEAN
    BY <1>1 DEF SweepHead, Goto, To, PlacesTyped
  <1>4. /\ loops' \in PerThread(0..FullLoops) /\ enter' \in PerThread(0..NBins)
        /\ \A u \in Threads \ {t} : enter'[u] = enter[u]
        /\ pc'[t] = "begin" => enter'[t] = 1 /\ key[t] = None
        /\ pc'[t] = "look" => key[t] # None
    <2> DEFINE on == MemUsed >= MaxMemory /\ loops[t] < FullLoops
    <2>1. loops[t] \in 0..FullLoops
      BY <1>1 DEF SweepTyped
    <2>2. /\ IF on /\ key[t] = None
             THEN loops' = Set(loops, t, loops[t] + 1) /\ enter' = Set(enter, t, 1)
             ELSE UNCHANGED <<loops, enter>>
          /\ pc' = Set(pc, t, IF ~on THEN "finish" ELSE IF key[t] = None THEN "begin" ELSE "look")
      BY DEF SweepHead, To
    <2>3. on => loops[t] + 1 \in 0..FullLoops
      BY <2>1
    <2> HIDE DEF on
    <2>4. pc'[t] = IF ~on THEN "finish" ELSE IF key[t] = None THEN "begin" ELSE "look"
      BY <1>1, <2>2 DEF PlacesTyped
    <2>5. loops' \in PerThread(0..FullLoops)
      BY <1>1, <2>2, <2>3 DEF SweepTyped
    <2> QED
      BY <1>1, <2>2, <2>4, <2>5 DEF SweepTyped
  <1>5. ObjsTyped' /\ Named' /\ \A u \in Threads \ {t} : tile'[u] = tile[u]
    BY <1>1, <1>2, StillTyped DEF Still
  <1>6. CountsTyped' /\ FilesTyped' /\ LookupTyped' /\ SweepTyped' /\ PlacesTyped'
    <2>1. CountsTyped'
      BY <1>1, <1>2 DEF CountsTyped
    <2>2. FilesTyped'
      BY <1>1, <1>2 DEF FilesTyped
    <2>3. LookupTyped'
      BY <1>1, <1>2 DEF LookupTyped
    <2>4. SweepTyped'
      BY <1>1, <1>2, <1>4 DEF SweepTyped
    <2>5. PlacesTyped'
      BY <1>1, <1>3 DEF PlacesTyped, Places, LookupPcs, SweepPcs, InvalidationPcs
    <2> QED
      BY <2>1, <2>2, <2>3, <2>4, <2>5
  <1>7. FitsAfter(t)
    BY <1>1, <1>2, <1>3, <1>4, <1>5, Fit, Fit DEF FitsAfter, FitsAt, LookupPcs, TilePcs, SweepPcs, ErasePcs
  <1>8. Moves(t)
    BY <1>1, <1>2, <1>3, <1>4, <1>5 DEF Moves, PlacesTyped, LookupTyped, SweepTyped
  <1> QED
    BY <1>5, <1>6, <1>7, <1>8, KeepShape

\* The iterator goes on to the next bin, or it stops at an entry of this one,
\* or past the end.
LEMMA EnterBinDoes ==
    ASSUME NEW t \in Threads, EnterBin(t), ObjsTyped
    PROVE  LET b == enter[t] IN
           \/ /\ b < NBins /\ enter' = Set(enter, t, b + 1) /\ To(t, pc[t])
              /\ UNCHANGED <<binLock, key, sweepId>>
           \/ \E k \in MaybeId :
                 /\ StopAt(t, b, k) /\ enter' = Set(enter, t, 0)
                 /\ k # None => k \in InBin(b)
  <1> DEFINE b == enter[t]
  <1>1. CASE InBin(b) # {} /\ StopAt(t, b, Min(InBin(b))) /\ enter' = Set(enter, t, 0)
    <2>1. Min(InBin(b)) \in Ids /\ Min(InBin(b)) \in InBin(b)
      <3>1. InBin(b) \in SUBSET InBin(b)
        OBVIOUS
      <3> QED
        BY <1>1, <3>1, LeastEntry
    <2> QED
      BY <1>1, <2>1 DEF MaybeId
  <1>2. CASE StopAt(t, b, None) /\ enter' = Set(enter, t, 0)
    BY <1>2 DEF MaybeId
  <1> QED
    BY <1>1, <1>2 DEF EnterBin


\* The iterator goes to the next bin, or stops in this one.
LEMMA EnterBinShape ==
    ASSUME Shape, NEW t \in Threads, EnterBin(t)
    PROVE  Shape'
  <1> USE Names DEF Set, PerThread
  <1>1. /\ ObjsTyped /\ CountsTyped /\ FilesTyped /\ LookupTyped /\ SweepTyped /\ PlacesTyped
        /\ Fits /\ Named
    BY TypeParts DEF Shape, Typed
  <1>2. UNCHANGED <<tilecache, m_size, obj, tile, lasttile, purge, sweepMutex, input,
                     broken, disk, floor, lookups, invalidations, want, found, need, inp,
                     loops, doomed, target, todo, atStart>>
    BY DEF EnterBin, shared, files, lookup, sweep, inval, Goto, To
  <1>3. /\ pc[t] \in {"begin", "next"} /\ pc' = [pc EXCEPT ![t] = pc'[t]]
        /\ pc'[t] \in {"begin", "next", "look", "sweep", "finish", "evict"}
        /\ alone' \in BOOLEAN
    <2>1. pc[t] \in {"begin", "next"}
      BY DEF EnterBin
    <2>2. enter[t] \in Bins
      BY <1>1, <2>1, Fit DEF FitsAt
    <2>3. CASE To(t, pc[t])
      <3>1. pc' = [pc EXCEPT ![t] = pc[t]] /\ alone' \in BOOLEAN
        BY <1>1, <2>3 DEF To, PlacesTyped
      <3>2. pc'[t] = pc[t]
        BY <1>1, <3>1 DEF PlacesTyped
      <3> QED
        BY <2>1, <3>1, <3>2
    <2>4. ASSUME NEW k \in MaybeId, StopAt(t, enter[t], k)
          PROVE  /\ pc' = [pc EXCEPT ![t] = pc'[t]] /\ alone' \in BOOLEAN
                 /\ pc'[t] \in {"look", "sweep", "finish", "evict"}
      <3>1. pc[t] \in {"begin", "next", "look"}
        BY <2>1
      <3> HIDE Names
      <3> QED
        BY <1>1, <2>2, <2>4, <3>1, Stops
    <2>5. \/ To(t, pc[t])
          \/ \E k \in MaybeId : StopAt(t, enter[t], k)
      BY <1>1, EnterBinDoes
    <2> HIDE Names
    <2> QED
      BY <2>1, <2>3, <2>4, <2>5
  <1>4. /\ key' \in PerThread(MaybeId) /\ sweepId' \in MaybeId /\ sweepMutex = t
        /\ binLock' \in [Bins -> Threads \union {None}] /\ enter' \in PerThread(0..NBins)
        /\ \A u \in Threads \ {t} : key'[u] = key[u] /\ enter'[u] = enter[u]
        /\ \/ pc'[t] = pc[t] /\ key'[t] = key[t] /\ enter'[t] \in Bins
           \/ doomed[t] # None /\ pc'[t] = "evict" /\ key'[t] = None
           \/ /\ doomed[t] = None
              /\ \/ pc'[t] \in {"finish", "sweep"}
                 \/ pc'[t] = "look" /\ key'[t] # None
    <2>1. enter[t] \in Bins /\ sweepMutex = t /\ (pc[t] = "begin" => doomed[t] = None)
      BY <1>1, <1>3, Fit DEF FitsAt, SweepPcs
    <2>2. doomed' = doomed
      BY <1>2
    <2>3. CASE /\ enter[t] < NBins /\ enter' = Set(enter, t, enter[t] + 1) /\ To(t, pc[t])
               /\ UNCHANGED <<binLock, key, sweepId>>
      <3>1. enter[t] + 1 \in Bins /\ enter[t] + 1 \in 0..NBins
        BY <2>1, <2>3 DEF Bins
      <3> QED
        BY <1>1, <2>1, <2>3, <3>1 DEF SweepTyped, To, PlacesTyped
    <2>4. ASSUME NEW k \in MaybeId, StopAt(t, enter[t], k), enter' = Set(enter, t, 0)
          PROVE  /\ key' \in PerThread(MaybeId) /\ sweepId' \in MaybeId
                 /\ binLock' \in [Bins -> Threads \union {None}]
                 /\ enter' \in PerThread(0..NBins)
                 /\ \A u \in Threads \ {t} : key'[u] = key[u] /\ enter'[u] = enter[u]
                 /\ \/ doomed[t] # None /\ pc'[t] = "evict" /\ key'[t] = None
                    \/ /\ doomed[t] = None
                       /\ \/ pc'[t] \in {"finish", "sweep"}
                          \/ pc'[t] = "look" /\ key'[t] # None
      <3>1. enter' \in PerThread(0..NBins) /\ \A u \in Threads \ {t} : enter'[u] = enter[u]
        BY <1>1, <2>4 DEF SweepTyped
      <3>2. pc[t] \in {"begin", "next", "look"}
        BY <1>3
      <3>3. /\ key' \in PerThread(MaybeId) /\ sweepId' \in MaybeId
            /\ binLock' \in [Bins -> Threads \union {None}]
            /\ \A u \in Threads \ {t} : key'[u] = key[u]
        BY <1>1, <2>1, <2>4, <3>2, Stops
      <3>4. doomed'[t] = None =>
                 /\ key'[t] = k
                 /\ pc'[t] = IF pc[t] = "begin" THEN (IF k = None THEN "finish" ELSE "look")
                             ELSE "sweep"
        BY ONLY <1>1, <2>1, <2>4, <3>2, Stops
      <3>5. doomed'[t] # None => pc'[t] = "evict" /\ key'[t] = None
        BY ONLY <1>1, <2>1, <2>4, <3>2, Stops
      <3> QED
        BY <2>2, <3>1, <3>3, <3>4, <3>5
    <2> QED
      BY <1>1, <2>1, <2>3, <2>4, EnterBinDoes
  <1>5. ObjsTyped' /\ Named' /\ \A u \in Threads \ {t} : tile'[u] = tile[u]
    BY <1>1, <1>2, StillTyped DEF Still
  <1>6. CountsTyped' /\ FilesTyped' /\ LookupTyped' /\ SweepTyped' /\ PlacesTyped'
    <2>1. CountsTyped'
      BY <1>1, <1>2 DEF CountsTyped
    <2>2. FilesTyped'
      BY <1>1, <1>2 DEF FilesTyped
    <2>3. LookupTyped'
      BY <1>1, <1>2 DEF LookupTyped
    <2>4. SweepTyped'
      BY <1>1, <1>2, <1>4 DEF SweepTyped
    <2>5. PlacesTyped'
      BY <1>1, <1>3 DEF PlacesTyped, Places, LookupPcs, SweepPcs, InvalidationPcs
    <2> QED
      BY <2>1, <2>2, <2>3, <2>4, <2>5
  <1>7. FitsAfter(t)
    BY <1>1, <1>2, <1>3, <1>4, <1>5, Fit DEF FitsAfter, FitsAt, LookupPcs, TilePcs, SweepPcs, ErasePcs
  <1>8. Moves(t)
    BY <1>1, <1>2, <1>3, <1>4, <1>5 DEF Moves, PlacesTyped, LookupTyped, SweepTyped
  <1> QED
    BY <1>5, <1>6, <1>7, <1>8, KeepShape
-----------------------------------------------------------------------------
\* The iterator's next stop in the bin it is in, or the next bin.
LEMMA LookDoes ==
    ASSUME NEW t \in Threads, Look(t)
    PROVE  LET b == BinOf[key[t]] IN
           \/ /\ b < NBins /\ enter' = Set(enter, t, b + 1) /\ key' = Set(key, t, None)
              /\ binLock' = Set(binLock, b, None) /\ To(t, "next") /\ UNCHANGED sweepId
           \/ \E k \in MaybeId :
                 /\ StopAt(t, b, k) /\ UNCHANGED enter
                 /\ k # None => k \in InBin(b)
  <1> DEFINE b == BinOf[key[t]]
             rest == {i \in InBin(b) : i > key[t]}
  <1>1. CASE rest # {} /\ StopAt(t, b, Min(rest)) /\ UNCHANGED enter
    <2>1. Min(rest) \in Ids /\ Min(rest) \in InBin(b)
      <3>1. rest \in SUBSET InBin(b)
        OBVIOUS
      <3> QED
        BY <1>1, <3>1, LeastEntry
    <2> QED
      BY <1>1, <2>1 DEF MaybeId
  <1>2. CASE StopAt(t, b, None) /\ UNCHANGED enter
    BY <1>2 DEF MaybeId
  <1> QED
    BY <1>1, <1>2 DEF Look, At


\* A verdict on the entry, and on to the next.
LEMMA LookShape ==
    ASSUME Shape, NEW t \in Threads, Look(t)
    PROVE  Shape'
  <1> USE Names DEF Set, PerThread
  <1>1. /\ ObjsTyped /\ CountsTyped /\ FilesTyped /\ LookupTyped /\ SweepTyped /\ PlacesTyped
        /\ Fits /\ Named
    BY TypeParts DEF Shape, Typed
  <1>2. UNCHANGED <<tilecache, m_size, tile, lasttile, purge, sweepMutex, input, broken,
                     disk, floor, lookups, invalidations, want, found, need, inp, loops,
                     target, todo, atStart>>
    BY DEF Look, shared, files, lookup, sweep, inval, Goto, To
  <1>3. /\ pc[t] \in {"look"} /\ pc' = [pc EXCEPT ![t] = pc'[t]]
        /\ pc'[t] \in {"next", "sweep", "evict"}
        /\ alone' \in BOOLEAN
    <2>1. pc[t] = "look"
      BY DEF Look
    <2>2. BinOf[key[t]] \in Bins
      <3>1. key[t] \in MaybeId
        BY <1>1 DEF SweepTyped
      <3>2. key[t] # None
        BY <1>1, <2>1, Fit DEF FitsAt
      <3> QED
        BY <3>1, <3>2 DEF MaybeId
    <2>3. CASE To(t, "next")
      BY <1>1, <2>1, <2>3 DEF To, PlacesTyped
    <2>4. ASSUME NEW k \in MaybeId, StopAt(t, BinOf[key[t]], k)
          PROVE  /\ pc' = [pc EXCEPT ![t] = pc'[t]] /\ alone' \in BOOLEAN
                 /\ pc'[t] \in {"sweep", "evict"}
      <3>1. pc[t] \in {"begin", "next", "look"}
        BY <2>1
      <3>2. /\ pc' = [pc EXCEPT ![t] = pc'[t]] /\ alone' \in BOOLEAN
            /\ doomed'[t] = None =>
                 pc'[t] = IF pc[t] = "begin" THEN (IF k = None THEN "finish" ELSE "look")
                             ELSE "sweep"
            /\ doomed'[t] # None => pc'[t] = "evict"
        BY ONLY <1>1, <2>2, <2>4, <3>1, Stops
      <3> QED
        BY <2>1, <3>2
    <2> QED
      BY <1>1, <2>1, <2>3, <2>4, LookDoes
  <1>4. /\ key' \in PerThread(MaybeId) /\ sweepId' \in MaybeId /\ sweepMutex = t
        /\ binLock' \in [Bins -> Threads \union {None}] /\ enter' \in PerThread(0..NBins)
        /\ \A u \in Threads \ {t} : key'[u] = key[u] /\ enter'[u] = enter[u]
        /\ doomed' \in PerThread(MaybeId) /\ \A u \in Threads \ {t} : doomed'[u] = doomed[u]
        /\ \/ pc'[t] = "next" /\ key'[t] = None /\ enter'[t] \in Bins
           \/ doomed'[t] # None /\ pc'[t] = "evict" /\ key'[t] = None
           \/ doomed'[t] = None /\ pc'[t] = "sweep" 
    <2>1. BinOf[key[t]] \in Bins /\ sweepMutex = t
      <3>1. key[t] \in MaybeId
        BY <1>1 DEF SweepTyped
      <3>2. key[t] # None /\ sweepMutex = t
        BY <1>1, <1>3, Fit DEF FitsAt, SweepPcs
      <3> QED
        BY <3>1, <3>2 DEF MaybeId
    <2>2. doomed' \in PerThread(MaybeId) /\ \A u \in Threads \ {t} : doomed'[u] = doomed[u]
      BY <1>1 DEF Look, SweepTyped, MaybeId
    <2>3. CASE /\ BinOf[key[t]] < NBins /\ enter' = Set(enter, t, BinOf[key[t]] + 1)
               /\ key' = Set(key, t, None) /\ binLock' = Set(binLock, BinOf[key[t]], None)
               /\ To(t, "next") /\ UNCHANGED sweepId
      <3>1. BinOf[key[t]] + 1 \in Bins /\ BinOf[key[t]] + 1 \in 0..NBins
        BY <2>1, <2>3 DEF Bins
      <3> QED
        BY <1>1, <2>1, <2>2, <2>3, <3>1 DEF SweepTyped, To, PlacesTyped, MaybeId
    <2>4. ASSUME NEW k \in MaybeId, StopAt(t, BinOf[key[t]], k), UNCHANGED enter
          PROVE  /\ key' \in PerThread(MaybeId) /\ sweepId' \in MaybeId
                 /\ binLock' \in [Bins -> Threads \union {None}]
                 /\ enter' \in PerThread(0..NBins)
                 /\ \A u \in Threads \ {t} : key'[u] = key[u] /\ enter'[u] = enter[u]
                 /\ \/ doomed'[t] # None /\ pc'[t] = "evict" /\ key'[t] = None
                    \/ doomed'[t] = None /\ pc'[t] = "sweep"
      <3>1. enter' \in PerThread(0..NBins) /\ \A u \in Threads \ {t} : enter'[u] = enter[u]
        BY <1>1, <2>4 DEF SweepTyped
      <3>2. pc[t] \in {"begin", "next", "look"} /\ pc[t] # "begin"
        BY <1>3
      <3>3. /\ key' \in PerThread(MaybeId) /\ sweepId' \in MaybeId
            /\ binLock' \in [Bins -> Threads \union {None}]
            /\ \A u \in Threads \ {t} : key'[u] = key[u]
        BY <1>1, <2>1, <2>4, <3>2, Stops
      <3>4. doomed'[t] = None => pc'[t] = "sweep"
        BY ONLY <1>1, <2>1, <2>4, <3>2, Stops
      <3>5. doomed'[t] # None => pc'[t] = "evict" /\ key'[t] = None
        BY ONLY <1>1, <2>1, <2>4, <3>2, Stops
      <3> QED
        BY <3>1, <3>3, <3>4, <3>5
    <2> QED
      BY <1>1, <2>1, <2>2, <2>3, <2>4, LookDoes
  <1>5. ObjsTyped' /\ Named' /\ \A u \in Threads \ {t} : tile'[u] = tile[u]
    <2>1. DOMAIN obj' = DOMAIN obj /\ \A x \in Live : obj'[x] \in Tile
      <3>1. \/ obj' = obj
            \/ obj' = [obj EXCEPT ![tilecache[key[t]]].used = FALSE]
        BY Zenon DEF Look
      <3>2. obj' = obj => DOMAIN obj' = DOMAIN obj /\ \A x \in Live : obj'[x] \in Tile
        BY <1>1 DEF ObjsTyped
      <3> QED
        BY <1>1, <3>1, <3>2, Unmarked
    <2> QED
      BY <1>1, <1>2, <2>1, SameRefs DEF Named
  <1>6. CountsTyped' /\ FilesTyped' /\ LookupTyped' /\ SweepTyped' /\ PlacesTyped'
    <2>1. CountsTyped'
      BY <1>1, <1>2 DEF CountsTyped
    <2>2. FilesTyped'
      BY <1>1, <1>2 DEF FilesTyped
    <2>3. LookupTyped'
      BY <1>1, <1>2 DEF LookupTyped
    <2>4. SweepTyped'
      BY <1>1, <1>2, <1>4 DEF SweepTyped
    <2>5. PlacesTyped'
      BY <1>1, <1>3 DEF PlacesTyped, Places, LookupPcs, SweepPcs, InvalidationPcs
    <2> QED
      BY <2>1, <2>2, <2>3, <2>4, <2>5
  <1>7. FitsAfter(t)
    BY <1>1, <1>2, <1>3, <1>4, <1>5, Fit DEF FitsAfter, FitsAt, LookupPcs, TilePcs, SweepPcs, ErasePcs
  <1>8. Moves(t)
    BY <1>1, <1>2, <1>3, <1>4, <1>5 DEF Moves, PlacesTyped, LookupTyped, SweepTyped
  <1> QED
    BY <1>5, <1>6, <1>7, <1>8, KeepShape

\* Erasing an entry, and clearing a bin, take references away and nothing else.
LEMMA LessTyped ==
    ASSUME ObjsTyped, Named, NEW S \in SUBSET Ids,
           Refs([i \in Ids |-> IF i \in S THEN None ELSE tilecache[i]], tile, lasttile, obj)
    PROVE  /\ ObjsTyped' /\ Named' /\ UNCHANGED <<tile, lasttile>>
           /\ \A i \in Ids : tilecache'[i] = IF i \in S THEN None ELSE tilecache[i]
           /\ Live' \subseteq Live /\ \A x \in Live' : obj'[x] = obj[x]
  <1> USE Names
  <1> DEFINE map == [i \in Ids |-> IF i \in S THEN None ELSE tilecache[i]]
  <1>1. Older(map, tile, lasttile)
    BY DEF LiveIn, Live, ObjsTyped, Older
  <1>2. /\ ObjsTyped' /\ tilecache' = map /\ UNCHANGED <<tile, lasttile>>
        /\ Live' \subseteq Live /\ \A x \in Live' : obj'[x] = obj[x]
    BY <1>1, OlderTyped
  <1>3. \A i \in Ids : tilecache'[i] = IF i \in S THEN None ELSE tilecache[i]
    BY <1>2
  <1> QED
    BY <1>2, <1>3 DEF Named

\* Erasing the entry of a TileID: no reference appears, and none but the map's goes.
LEMMA EraseTyped ==
    ASSUME ObjsTyped, CountsTyped, Named, NEW i \in Ids, EraseEntry(i)
    PROVE  /\ ObjsTyped' /\ Named' /\ UNCHANGED <<tile, lasttile>> /\ m_size' = m_size - 1
           /\ m_size' \in Int
           /\ \A j \in Ids : tilecache'[j] = IF j = i THEN None ELSE tilecache[j]
           /\ Live' \subseteq Live /\ \A x \in Live' : obj'[x] = obj[x]
  <1>1. Set(tilecache, i, None) = [j \in Ids |-> IF j \in {i} THEN None ELSE tilecache[j]]
    BY DEF Set, ObjsTyped
  <1>2. Refs([j \in Ids |-> IF j \in {i} THEN None ELSE tilecache[j]], tile, lasttile, obj)
    BY <1>1 DEF EraseEntry
  <1>3. {i} \in SUBSET Ids
    OBVIOUS
  <1>4. /\ ObjsTyped' /\ Named' /\ UNCHANGED <<tile, lasttile>>
        /\ \A j \in Ids : tilecache'[j] = IF j \in {i} THEN None ELSE tilecache[j]
        /\ Live' \subseteq Live /\ \A x \in Live' : obj'[x] = obj[x]
    BY <1>2, <1>3, LessTyped
  <1>5. m_size' = m_size - 1 /\ m_size' \in Int
    BY DEF EraseEntry, CountsTyped
  <1> QED
    BY <1>4, <1>5


\* The doomed entry is erased.
LEMMA EvictShape ==
    ASSUME Shape, NEW t \in Threads, Evict(t)
    PROVE  Shape'
  <1> USE Names DEF Set, PerThread
  <1>1. /\ ObjsTyped /\ CountsTyped /\ FilesTyped /\ LookupTyped /\ SweepTyped /\ PlacesTyped
        /\ Fits /\ Named
    BY TypeParts DEF Shape, Typed
  <1>2. UNCHANGED <<binLock, purge, sweepMutex, sweepId, input, broken, disk, floor,
                     lookups, invalidations, want, found, need, inp, key, enter, loops,
                     target, todo, atStart>>
    BY DEF Evict, shared, files, lookup, sweep, inval, Goto, To
  <1>3. /\ pc[t] \in {"evict"} /\ pc' = [pc EXCEPT ![t] = pc'[t]]
        /\ pc'[t] \in {"sweep", "find"}
        /\ alone' \in BOOLEAN
    BY <1>1 DEF Evict, Goto, To, PlacesTyped
  <1>4. /\ ObjsTyped' /\ Named' /\ UNCHANGED tile /\ m_size' \in Int
        /\ doomed' \in PerThread(MaybeId) /\ doomed'[t] = None
        /\ \A u \in Threads \ {t} : doomed'[u] = doomed[u]
        /\ pc'[t] = IF sweepId = None THEN "sweep" ELSE "find" 
    <2>1. doomed[t] \in Ids
      <3>1. doomed[t] \in MaybeId
        BY <1>1 DEF SweepTyped
      <3>2. doomed[t] # None
        BY <1>1, <1>3, Fit DEF FitsAt
      <3> QED
        BY <3>1, <3>2 DEF MaybeId
    <2>2. EraseEntry(doomed[t])
      BY DEF Evict
    <2>3. ObjsTyped' /\ Named' /\ UNCHANGED tile /\ m_size' \in Int
      BY <1>1, <2>1, <2>2, EraseTyped
    <2>4. pc'[t] = IF sweepId = None THEN "sweep" ELSE "find"
      BY <1>1 DEF Evict, To, PlacesTyped
    <2> QED
      BY <1>1, <2>3, <2>4 DEF Evict, SweepTyped, MaybeId
  <1>5. ObjsTyped' /\ Named' /\ \A u \in Threads \ {t} : tile'[u] = tile[u]
    BY <1>4
  <1>6. CountsTyped' /\ FilesTyped' /\ LookupTyped' /\ SweepTyped' /\ PlacesTyped'
    <2>1. CountsTyped'
      BY <1>1, <1>2, <1>4 DEF CountsTyped
    <2>2. FilesTyped'
      BY <1>1, <1>2 DEF FilesTyped
    <2>3. LookupTyped'
      BY <1>1, <1>2 DEF LookupTyped
    <2>4. SweepTyped'
      BY <1>1, <1>2, <1>4 DEF SweepTyped
    <2>5. PlacesTyped'
      BY <1>1, <1>3 DEF PlacesTyped, Places, LookupPcs, SweepPcs, InvalidationPcs
    <2> QED
      BY <2>1, <2>2, <2>3, <2>4, <2>5
  <1>7. FitsAfter(t)
    BY <1>1, <1>2, <1>3, <1>4, <1>5, Fit DEF FitsAfter, FitsAt, LookupPcs, TilePcs, SweepPcs, ErasePcs
  <1>8. Moves(t)
    BY <1>1, <1>2, <1>3, <1>4, <1>5 DEF Moves, PlacesTyped, LookupTyped, SweepTyped
  <1> QED
    BY <1>5, <1>6, <1>7, <1>8, KeepShape

\* The sweep ends, its iterator is given up.
LEMMA FinishShape ==
    ASSUME Shape, NEW t \in Threads, Finish(t)
    PROVE  Shape'
  <1> USE Names DEF Set, PerThread
  <1>1. /\ ObjsTyped /\ CountsTyped /\ FilesTyped /\ LookupTyped /\ SweepTyped /\ PlacesTyped
        /\ Fits /\ Named
    BY TypeParts DEF Shape, Typed
  <1>2. UNCHANGED <<tilecache, m_size, obj, tile, lasttile, purge, input, broken, disk,
                     floor, lookups, invalidations, want, found, need, inp, enter, doomed,
                     target, todo, atStart>>
    BY DEF Finish, shared, files, lookup, sweep, inval, Goto, To
  <1>3. /\ pc[t] \in {"finish"} /\ pc' = [pc EXCEPT ![t] = pc'[t]]
        /\ pc'[t] \in {"answer"}
        /\ alone' \in BOOLEAN
    BY <1>1 DEF Finish, Goto, To, PlacesTyped
  <1>4. /\ key' \in PerThread(MaybeId) /\ key'[t] = None /\ sweepId' \in MaybeId
        /\ binLock' \in [Bins -> Threads \union {None}] /\ loops' \in PerThread(0..FullLoops)
        /\ sweepMutex = t /\ sweepMutex' = None
        /\ \A u \in Threads \ {t} : key'[u] = key[u]
    <2>1. sweepMutex = t
      BY <1>1, <1>3, Fit DEF FitsAt, SweepPcs
    <2> QED
      BY <1>1, <2>1 DEF Finish, At, SweepTyped, MaybeId
  <1>5. ObjsTyped' /\ Named' /\ \A u \in Threads \ {t} : tile'[u] = tile[u]
    BY <1>1, <1>2, StillTyped DEF Still
  <1>6. CountsTyped' /\ FilesTyped' /\ LookupTyped' /\ SweepTyped' /\ PlacesTyped'
    <2>1. CountsTyped'
      BY <1>1, <1>2 DEF CountsTyped
    <2>2. FilesTyped'
      BY <1>1, <1>2 DEF FilesTyped
    <2>3. LookupTyped'
      BY <1>1, <1>2 DEF LookupTyped
    <2>4. SweepTyped'
      BY <1>1, <1>2, <1>4 DEF SweepTyped
    <2>5. PlacesTyped'
      BY <1>1, <1>3 DEF PlacesTyped, Places, LookupPcs, SweepPcs, InvalidationPcs
    <2> QED
      BY <2>1, <2>2, <2>3, <2>4, <2>5
  <1>7. FitsAfter(t)
    BY <1>1, <1>2, <1>3, <1>4, <1>5, Fit DEF FitsAfter, FitsAt, LookupPcs, TilePcs, SweepPcs, ErasePcs
  <1>8. Moves(t)
    BY <1>1, <1>2, <1>3, <1>4, <1>5 DEF Moves, PlacesTyped, LookupTyped, SweepTyped
  <1> QED
    BY <1>5, <1>6, <1>7, <1>8, KeepShape
-----------------------------------------------------------------------------
\* An invalidation of one file begins.
LEMMA InvalidateShape ==
    ASSUME Shape, NEW t \in Threads, NEW f \in Files, Invalidate(t, f)
    PROVE  Shape'
  <1> USE Names DEF Set, PerThread
  <1>1. /\ ObjsTyped /\ CountsTyped /\ FilesTyped /\ LookupTyped /\ SweepTyped /\ PlacesTyped
        /\ Fits /\ Named
    BY TypeParts DEF Shape, Typed
  <1>2. UNCHANGED <<tilecache, m_size, binLock, obj, tile, lasttile, purge, sweepMutex,
                     sweepId, input, broken, disk, floor, lookups, want, found, need, inp,
                     key, loops, doomed, todo>>
    BY DEF Invalidate, shared, files, lookup, sweep, inval, Goto, To, MayInvalidate
  <1>3. /\ pc[t] \in {"idle"} /\ pc' = [pc EXCEPT ![t] = pc'[t]]
        /\ pc'[t] \in {"collect"}
        /\ alone' \in BOOLEAN
    BY <1>1 DEF Invalidate, Goto, To, PlacesTyped, MayInvalidate
  <1>4. /\ invalidations' \in 0..MaxInvalidations /\ atStart' \in PerThread([Files -> Versions])
        /\ target' \in PerThread(SUBSET Files) /\ enter' \in PerThread(0..NBins)
        /\ enter'[t] = 1
        /\ \A u \in Threads \ {t} : enter'[u] = enter[u] /\ target'[u] = target[u]
    BY <1>1 DEF Invalidate, MayInvalidate, CountsTyped, SweepTyped, FilesTyped
  <1>5. ObjsTyped' /\ Named' /\ \A u \in Threads \ {t} : tile'[u] = tile[u]
    BY <1>1, <1>2, StillTyped DEF Still
  <1>6. CountsTyped' /\ FilesTyped' /\ LookupTyped' /\ SweepTyped' /\ PlacesTyped'
    <2>1. CountsTyped'
      BY <1>1, <1>2, <1>4 DEF CountsTyped
    <2>2. FilesTyped'
      BY <1>1, <1>2, <1>4 DEF FilesTyped
    <2>3. LookupTyped'
      BY <1>1, <1>2 DEF LookupTyped
    <2>4. SweepTyped'
      BY <1>1, <1>2, <1>4 DEF SweepTyped
    <2>5. PlacesTyped'
      BY <1>1, <1>3 DEF PlacesTyped, Places, LookupPcs, SweepPcs, InvalidationPcs
    <2> QED
      BY <2>1, <2>2, <2>3, <2>4, <2>5
  <1>7. FitsAfter(t)
    BY <1>1, <1>2, <1>3, <1>4, <1>5, Fit DEF FitsAfter, FitsAt, LookupPcs, TilePcs, SweepPcs, ErasePcs
  <1>8. Moves(t)
    BY <1>1, <1>2, <1>3, <1>4, <1>5 DEF Moves, PlacesTyped, LookupTyped, SweepTyped
  <1> QED
    BY <1>5, <1>6, <1>7, <1>8, KeepShape

\* Or of all.
LEMMA InvalidateAllShape ==
    ASSUME Shape, NEW t \in Threads, InvalidateAll(t)
    PROVE  Shape'
  <1> USE Names DEF Set, PerThread
  <1>1. /\ ObjsTyped /\ CountsTyped /\ FilesTyped /\ LookupTyped /\ SweepTyped /\ PlacesTyped
        /\ Fits /\ Named
    BY TypeParts DEF Shape, Typed
  <1>2. UNCHANGED <<tilecache, m_size, binLock, obj, tile, lasttile, purge, sweepMutex,
                     sweepId, input, broken, disk, floor, lookups, want, found, need, inp,
                     key, loops, doomed>>
    BY DEF InvalidateAll, shared, files, lookup, sweep, inval, Goto, To, MayInvalidate
  <1>3. /\ pc[t] \in {"idle"} /\ pc' = [pc EXCEPT ![t] = pc'[t]]
        /\ pc'[t] \in {"close files", "clear"}
        /\ alone' \in BOOLEAN
    BY <1>1 DEF InvalidateAll, Goto, To, PlacesTyped, MayInvalidate
  <1>4. /\ invalidations' \in 0..MaxInvalidations /\ atStart' \in PerThread([Files -> Versions])
        /\ target' \in PerThread(SUBSET Files) /\ target'[t] = Files
        /\ enter' \in PerThread(0..NBins) /\ todo' \in PerThread(SUBSET (Ids \union Files))
        /\ pc'[t] = "close files" => todo'[t] = Files
        /\ pc'[t] = "clear" => todo'[t] = {} /\ enter'[t] \in Bins
        /\ \A u \in Threads \ {t} :
              enter'[u] = enter[u] /\ target'[u] = target[u] /\ todo'[u] = todo[u]
    <2>1. todo[t] = {}
      BY <1>1, <1>3, Fit DEF FitsAt
    <2>2. /\ invalidations' \in 0..MaxInvalidations /\ atStart' \in PerThread([Files -> Versions])
          /\ target' \in PerThread(SUBSET Files) /\ target'[t] = Files
          /\ \A u \in Threads \ {t} : target'[u] = target[u]
      <3>1. /\ invalidations < MaxInvalidations /\ invalidations' = invalidations + 1
            /\ atStart' = Set(atStart, t, disk) /\ target' = Set(target, t, Files)
        BY DEF InvalidateAll, MayInvalidate
      <3>2. invalidations' \in 0..MaxInvalidations
        BY <1>1, <3>1 DEF CountsTyped
      <3>3. atStart' \in PerThread([Files -> Versions])
        BY <1>1, <3>1 DEF FilesTyped
      <3>4. target' \in PerThread(SUBSET Files)
        <4>1. Files \in SUBSET Files
          OBVIOUS
        <4> QED
          BY <1>1, <3>1, <4>1 DEF SweepTyped
      <3> QED
        BY <1>1, <3>1, <3>2, <3>3, <3>4 DEF SweepTyped
    <2>3. CASE m_size = 0
      <3>1. /\ pc' = [pc EXCEPT ![t] = "close files"] /\ enter' = enter
            /\ todo' = [todo EXCEPT ![t] = Files]
        BY <2>3 DEF InvalidateAll, To
      <3>2. pc'[t] = "close files"
        BY <1>1, <3>1 DEF PlacesTyped
      <3>3. /\ todo' \in PerThread(SUBSET (Ids \union Files)) /\ todo'[t] = Files
            /\ \A u \in Threads \ {t} : todo'[u] = todo[u]
        BY <1>1, <3>1 DEF SweepTyped
      <3> QED
        BY <1>1, <2>2, <3>1, <3>2, <3>3 DEF SweepTyped
    <2>4. CASE m_size # 0
      <3>1. /\ pc' = [pc EXCEPT ![t] = "clear"] /\ todo' = todo
            /\ enter' = [enter EXCEPT ![t] = 1]
        BY <2>4 DEF InvalidateAll, To
      <3>2. pc'[t] = "clear"
        BY <1>1, <3>1 DEF PlacesTyped
      <3>3. /\ enter' \in PerThread(0..NBins) /\ enter'[t] = 1
            /\ \A u \in Threads \ {t} : enter'[u] = enter[u]
        BY <1>1, <3>1 DEF SweepTyped
      <3> QED
        BY <1>1, <2>1, <2>2, <3>1, <3>2, <3>3 DEF SweepTyped
    <2> QED
      BY <2>3, <2>4
  <1>5. ObjsTyped' /\ Named' /\ \A u \in Threads \ {t} : tile'[u] = tile[u]
    BY <1>1, <1>2, StillTyped DEF Still
  <1>6. CountsTyped' /\ FilesTyped' /\ LookupTyped' /\ SweepTyped' /\ PlacesTyped'
    <2>1. CountsTyped'
      BY <1>1, <1>2, <1>4 DEF CountsTyped
    <2>2. FilesTyped'
      BY <1>1, <1>2, <1>4 DEF FilesTyped
    <2>3. LookupTyped'
      BY <1>1, <1>2 DEF LookupTyped
    <2>4. SweepTyped'
      BY <1>1, <1>2, <1>4 DEF SweepTyped
    <2>5. PlacesTyped'
      BY <1>1, <1>3 DEF PlacesTyped, Places, LookupPcs, SweepPcs, InvalidationPcs
    <2> QED
      BY <2>1, <2>2, <2>3, <2>4, <2>5
  <1>7. FitsAfter(t)
    BY <1>1, <1>2, <1>3, <1>4, <1>5, Fit DEF FitsAfter, FitsAt, LookupPcs, TilePcs, SweepPcs, ErasePcs
  <1>8. Moves(t)
    <2>1. \A u \in Threads \ {t} : pc'[u] = pc[u]
      BY <1>1, <1>3 DEF PlacesTyped
    <2>2. \A u \in Threads \ {t} : /\ enter'[u] = enter[u] /\ target'[u] = target[u]
                                  /\ todo'[u] = todo[u]
      BY <1>4
    <2>3. UNCHANGED <<want, tile, key, doomed, sweepMutex, sweepId>>
      BY <1>2
    <2> QED
      BY <2>1, <2>2, <2>3 DEF Moves
  <1> QED
    BY <1>5, <1>6, <1>7, <1>8, KeepShape

\* One bin more is looked through.
LEMMA CollectShape ==
    ASSUME Shape, NEW t \in Threads, Collect(t)
    PROVE  Shape'
  <1> USE Names DEF Set, PerThread
  <1>1. /\ ObjsTyped /\ CountsTyped /\ FilesTyped /\ LookupTyped /\ SweepTyped /\ PlacesTyped
        /\ Fits /\ Named
    BY TypeParts DEF Shape, Typed
  <1>2. UNCHANGED <<tilecache, m_size, binLock, obj, tile, lasttile, purge, sweepMutex,
                     sweepId, input, broken, disk, floor, lookups, invalidations, want,
                     found, need, inp, key, loops, doomed, target, atStart>>
    BY DEF Collect, shared, files, lookup, sweep, inval, Goto, To
  <1>3. /\ pc[t] \in {"collect"} /\ pc' = [pc EXCEPT ![t] = pc'[t]]
        /\ pc'[t] \in {"collect", "close files", "erase ids"}
        /\ alone' \in BOOLEAN
    BY <1>1 DEF Collect, Goto, To, PlacesTyped
  <1>4. /\ enter' \in PerThread(0..NBins) /\ todo' \in PerThread(SUBSET (Ids \union Files))
        /\ pc'[t] = "collect" => enter'[t] \in Bins /\ todo'[t] \subseteq Ids
        /\ pc'[t] = "erase ids" => todo'[t] \subseteq Ids /\ todo'[t] # {}
        /\ pc'[t] = "close files" => todo'[t] = target[t]
        /\ \A u \in Threads \ {t} : enter'[u] = enter[u] /\ todo'[u] = todo[u]
    <2> DEFINE all == todo[t] \union {i \in InBin(enter[t]) : FileOf[i] \in target[t]}
    <2>1. enter[t] \in Bins /\ todo[t] \subseteq Ids
      BY <1>1, <1>3, Fit DEF FitsAt, ErasePcs
    <2>2. all \subseteq Ids
      BY <2>1 DEF InBin
    <2>3. target[t] \subseteq Files
      BY <1>1 DEF SweepTyped
    <2>4. /\ enter' = Set(enter, t, IF enter[t] = NBins THEN 0 ELSE enter[t] + 1)
          /\ todo' = Set(todo, t, IF enter[t] = NBins /\ all = {} THEN target[t] ELSE all)
          /\ pc' = Set(pc, t, IF ~(enter[t] = NBins) THEN "collect"
                              ELSE IF all = {} THEN "close files" ELSE "erase ids")
      BY DEF Collect, To
    <2>5. enter[t] # NBins => enter[t] + 1 \in Bins /\ enter[t] + 1 \in 0..NBins
      BY <2>1 DEF Bins
    <2> HIDE DEF all
    <2>6. (IF enter[t] = NBins /\ all = {} THEN target[t] ELSE all) \in SUBSET (Ids \union Files)
      BY <2>2, <2>3
    <2>7. todo' \in PerThread(SUBSET (Ids \union Files)) /\ \A u \in Threads \ {t} : todo'[u] = todo[u]
      BY <1>1, <2>4, <2>6 DEF SweepTyped
    <2>8. todo'[t] = IF enter[t] = NBins /\ all = {} THEN target[t] ELSE all
      BY <1>1, <2>4 DEF SweepTyped
    <2>9. enter' \in PerThread(0..NBins) /\ \A u \in Threads \ {t} : enter'[u] = enter[u]
      <3>1. (IF enter[t] = NBins THEN 0 ELSE enter[t] + 1) \in 0..NBins
        <4>1. 0 \in 0..NBins
          OBVIOUS
        <4> QED
          BY <4>1, <2>5, Zenon
      <3> QED
        BY <1>1, <2>4, <3>1 DEF SweepTyped
    <2>10. enter'[t] = IF enter[t] = NBins THEN 0 ELSE enter[t] + 1
      BY <1>1, <2>4 DEF SweepTyped
    <2>11. pc'[t] = IF ~(enter[t] = NBins) THEN "collect"
                    ELSE IF all = {} THEN "close files" ELSE "erase ids"
      BY <1>1, <2>4 DEF PlacesTyped
    <2> QED
      BY <2>1, <2>2, <2>5, <2>7, <2>8, <2>9, <2>10, <2>11
  <1>5. ObjsTyped' /\ Named' /\ \A u \in Threads \ {t} : tile'[u] = tile[u]
    BY <1>1, <1>2, StillTyped DEF Still
  <1>6. CountsTyped' /\ FilesTyped' /\ LookupTyped' /\ SweepTyped' /\ PlacesTyped'
    <2>1. CountsTyped'
      BY <1>1, <1>2 DEF CountsTyped
    <2>2. FilesTyped'
      BY <1>1, <1>2 DEF FilesTyped
    <2>3. LookupTyped'
      BY <1>1, <1>2 DEF LookupTyped
    <2>4. SweepTyped'
      BY <1>1, <1>2, <1>4 DEF SweepTyped
    <2>5. PlacesTyped'
      BY <1>1, <1>3 DEF PlacesTyped, Places, LookupPcs, SweepPcs, InvalidationPcs
    <2> QED
      BY <2>1, <2>2, <2>3, <2>4, <2>5
  <1>7. FitsAfter(t)
    BY <1>1, <1>2, <1>3, <1>4, <1>5, Fit DEF FitsAfter, FitsAt, LookupPcs, TilePcs, SweepPcs, ErasePcs
  <1>8. Moves(t)
    BY <1>1, <1>2, <1>3, <1>4, <1>5 DEF Moves, PlacesTyped, LookupTyped, SweepTyped
  <1> QED
    BY <1>5, <1>6, <1>7, <1>8, KeepShape

\* One tile is erased.
LEMMA EraseIdShape ==
    ASSUME Shape, NEW t \in Threads, EraseId(t)
    PROVE  Shape'
  <1> USE Names DEF Set, PerThread
  <1>1. /\ ObjsTyped /\ CountsTyped /\ FilesTyped /\ LookupTyped /\ SweepTyped /\ PlacesTyped
        /\ Fits /\ Named
    BY TypeParts DEF Shape, Typed
  <1>2. UNCHANGED <<binLock, purge, sweepMutex, sweepId, input, broken, disk, floor,
                     lookups, invalidations, want, found, need, inp, key, enter, loops,
                     doomed, target, atStart>>
    BY DEF EraseId, shared, files, lookup, sweep, inval, Goto, To
  <1>3. /\ pc[t] \in {"erase ids"} /\ pc' = [pc EXCEPT ![t] = pc'[t]]
        /\ pc'[t] \in {"erase ids", "close files"}
        /\ alone' \in BOOLEAN
    BY <1>1 DEF EraseId, Goto, To, PlacesTyped
  <1>4. /\ ObjsTyped' /\ Named' /\ UNCHANGED tile /\ m_size' \in Int
        /\ todo' \in PerThread(SUBSET (Ids \union Files))
        /\ \A u \in Threads \ {t} : todo'[u] = todo[u]
        /\ pc'[t] = "erase ids" => todo'[t] \subseteq Ids /\ todo'[t] # {}
        /\ pc'[t] = "close files" => todo'[t] = target[t]
    <2> DEFINE i == Min(todo[t])
    <2>1. todo[t] \subseteq Ids /\ todo[t] # {}
      BY <1>1, <1>3, Fit DEF FitsAt, ErasePcs
    <2>2. todo[t] \in SUBSET Nat
      BY <2>1
    <2>3. i \in todo[t] /\ i \in Ids
      BY <2>1, <2>2, MinOf
    <2>4. /\ EraseEntry(i)
          /\ todo' = Set(todo, t, IF todo[t] = {i} THEN target[t] ELSE todo[t] \ {i})
          /\ pc' = Set(pc, t, IF todo[t] = {i} THEN "close files" ELSE "erase ids")
      BY DEF EraseId, To
    <2> HIDE DEF i
    <2>5. ObjsTyped' /\ Named' /\ UNCHANGED tile /\ m_size' \in Int
      BY <1>1, <2>3, <2>4, EraseTyped
    <2>6. target[t] \subseteq Files
      BY <1>1 DEF SweepTyped
    <2>7. (IF todo[t] = {i} THEN target[t] ELSE todo[t] \ {i}) \in SUBSET (Ids \union Files)
      BY <2>1, <2>6
    <2>8. todo' \in PerThread(SUBSET (Ids \union Files)) /\ \A u \in Threads \ {t} : todo'[u] = todo[u]
      BY <1>1, <2>4, <2>7 DEF SweepTyped
    <2>9. todo'[t] = IF todo[t] = {i} THEN target[t] ELSE todo[t] \ {i}
      BY <1>1, <2>4 DEF SweepTyped
    <2>10. pc'[t] = IF todo[t] = {i} THEN "close files" ELSE "erase ids"
      BY <1>1, <2>4 DEF PlacesTyped
    <2>11. todo[t] # {i} => todo[t] \ {i} # {}
      BY <2>3
    <2> QED
      BY <2>1, <2>5, <2>8, <2>9, <2>10, <2>11
  <1>5. ObjsTyped' /\ Named' /\ \A u \in Threads \ {t} : tile'[u] = tile[u]
    BY <1>4
  <1>6. CountsTyped' /\ FilesTyped' /\ LookupTyped' /\ SweepTyped' /\ PlacesTyped'
    <2>1. CountsTyped'
      BY <1>1, <1>2, <1>4 DEF CountsTyped
    <2>2. FilesTyped'
      BY <1>1, <1>2 DEF FilesTyped
    <2>3. LookupTyped'
      BY <1>1, <1>2 DEF LookupTyped
    <2>4. SweepTyped'
      BY <1>1, <1>2, <1>4 DEF SweepTyped
    <2>5. PlacesTyped'
      BY <1>1, <1>3 DEF PlacesTyped, Places, LookupPcs, SweepPcs, InvalidationPcs
    <2> QED
      BY <2>1, <2>2, <2>3, <2>4, <2>5
  <1>7. FitsAfter(t)
    BY <1>1, <1>2, <1>3, <1>4, <1>5, Fit DEF FitsAfter, FitsAt, LookupPcs, TilePcs, SweepPcs, ErasePcs
  <1>8. Moves(t)
    BY <1>1, <1>2, <1>3, <1>4, <1>5 DEF Moves, PlacesTyped, LookupTyped, SweepTyped
  <1> QED
    BY <1>5, <1>6, <1>7, <1>8, KeepShape

\* A bin has finitely many entries.
LEMMA BinFinite ==
    ASSUME NEW b
    PROVE  IsFiniteSet(InBin(b)) /\ Cardinality(InBin(b)) \in Nat
  <1>1. IsFiniteSet(Ids) /\ InBin(b) \subseteq Ids
    BY FS_Interval, TileCacheAssumption DEF InBin, Ids
  <1> QED
    BY <1>1, FS_Subset, FS_CardinalityType

\* One bin is cleared.
LEMMA ClearBinShape ==
    ASSUME Shape, NEW t \in Threads, ClearBin(t)
    PROVE  Shape'
  <1> USE Names DEF Set, PerThread
  <1>1. /\ ObjsTyped /\ CountsTyped /\ FilesTyped /\ LookupTyped /\ SweepTyped /\ PlacesTyped
        /\ Fits /\ Named
    BY TypeParts DEF Shape, Typed
  <1>2. UNCHANGED <<binLock, purge, sweepMutex, sweepId, input, broken, disk, floor,
                     lookups, invalidations, want, found, need, inp, key, loops, doomed,
                     target, atStart>>
    BY DEF ClearBin, shared, files, lookup, sweep, inval, Goto, To
  <1>3. /\ pc[t] \in {"clear"} /\ pc' = [pc EXCEPT ![t] = pc'[t]]
        /\ pc'[t] \in {"clear", "close files"}
        /\ alone' \in BOOLEAN
    BY <1>1 DEF ClearBin, Goto, To, PlacesTyped
  <1>4. /\ ObjsTyped' /\ Named' /\ UNCHANGED tile /\ m_size' \in Int
        /\ enter' \in PerThread(0..NBins) /\ todo' \in PerThread(SUBSET (Ids \union Files))
        /\ pc'[t] = "clear" => enter'[t] \in Bins /\ todo'[t] = {}
        /\ pc'[t] = "close files" => todo'[t] = target[t]
        /\ \A u \in Threads \ {t} : enter'[u] = enter[u] /\ todo'[u] = todo[u]
    <2> DEFINE S == {i \in Ids : BinOf[i] = enter[t]}
    <2>1. enter[t] \in Bins
      BY <1>1, <1>3, Fit DEF FitsAt
    <2>2. target[t] \subseteq Files
      BY <1>1 DEF SweepTyped
    <2>3. /\ Refs([i \in Ids |-> IF BinOf[i] = enter[t] THEN None ELSE tilecache[i]],
                  tile, lasttile, obj)
          /\ enter' = Set(enter, t, IF enter[t] = NBins THEN 0 ELSE enter[t] + 1)
          /\ todo' = Set(todo, t, IF enter[t] = NBins THEN target[t] ELSE {})
          /\ pc' = Set(pc, t, IF enter[t] = NBins THEN "close files" ELSE "clear")
          /\ m_size' = m_size - Cardinality(InBin(enter[t]))
      BY DEF ClearBin, To
    <2>4. [i \in Ids |-> IF BinOf[i] = enter[t] THEN None ELSE tilecache[i]]
            = [i \in Ids |-> IF i \in S THEN None ELSE tilecache[i]]
      OBVIOUS
    <2>5. S \in SUBSET Ids
      OBVIOUS
    <2> HIDE DEF S
    <2>6. Refs([i \in Ids |-> IF i \in S THEN None ELSE tilecache[i]], tile, lasttile, obj)
      BY <2>3, <2>4
    <2>7. ObjsTyped' /\ Named' /\ UNCHANGED tile
      BY <1>1, <2>5, <2>6, LessTyped
    <2>8. enter[t] # NBins => enter[t] + 1 \in Bins /\ enter[t] + 1 \in 0..NBins
      BY <2>1 DEF Bins
    <2>9. m_size' \in Int
      <3>1. Cardinality(InBin(enter[t])) \in Nat /\ m_size \in Int
        BY <1>1, BinFinite DEF CountsTyped
      <3>2. PICK c : c = Cardinality(InBin(enter[t]))
        OBVIOUS
      <3>3. m_size' = m_size - c
        BY <3>2 DEF ClearBin
      <3> QED
        BY <3>1, <3>2, <3>3
    <2>10. (IF enter[t] = NBins THEN target[t] ELSE {}) \in SUBSET (Ids \union Files)
      BY <2>2
    <2>11. todo' \in PerThread(SUBSET (Ids \union Files)) /\ \A u \in Threads \ {t} : todo'[u] = todo[u]
      BY <1>1, <2>3, <2>10 DEF SweepTyped
    <2>12. todo'[t] = IF enter[t] = NBins THEN target[t] ELSE {}
      BY <1>1, <2>3 DEF SweepTyped
    <2>13. enter' \in PerThread(0..NBins) /\ \A u \in Threads \ {t} : enter'[u] = enter[u]
      <3>1. (IF enter[t] = NBins THEN 0 ELSE enter[t] + 1) \in 0..NBins
        <4>1. 0 \in 0..NBins
          OBVIOUS
        <4> QED
          BY <4>1, <2>8, Zenon
      <3> QED
        BY <1>1, <2>3, <3>1 DEF SweepTyped
    <2>14. enter'[t] = IF enter[t] = NBins THEN 0 ELSE enter[t] + 1
      BY <1>1, <2>3 DEF SweepTyped
    <2>15. pc'[t] = IF enter[t] = NBins THEN "close files" ELSE "clear"
      BY <1>1, <2>3 DEF PlacesTyped
    <2> QED
      BY <2>7, <2>8, <2>9, <2>11, <2>12, <2>13, <2>14, <2>15
  <1>5. ObjsTyped' /\ Named' /\ \A u \in Threads \ {t} : tile'[u] = tile[u]
    BY <1>4
  <1>6. CountsTyped' /\ FilesTyped' /\ LookupTyped' /\ SweepTyped' /\ PlacesTyped'
    <2>1. CountsTyped'
      BY <1>1, <1>2, <1>4 DEF CountsTyped
    <2>2. FilesTyped'
      BY <1>1, <1>2 DEF FilesTyped
    <2>3. LookupTyped'
      BY <1>1, <1>2 DEF LookupTyped
    <2>4. SweepTyped'
      BY <1>1, <1>2, <1>4 DEF SweepTyped
    <2>5. PlacesTyped'
      BY <1>1, <1>3 DEF PlacesTyped, Places, LookupPcs, SweepPcs, InvalidationPcs
    <2> QED
      BY <2>1, <2>2, <2>3, <2>4, <2>5
  <1>7. FitsAfter(t)
    BY <1>1, <1>2, <1>3, <1>4, <1>5, Fit DEF FitsAfter, FitsAt, LookupPcs, TilePcs, SweepPcs, ErasePcs
  <1>8. Moves(t)
    BY <1>1, <1>2, <1>3, <1>4, <1>5 DEF Moves, PlacesTyped, LookupTyped, SweepTyped
  <1> QED
    BY <1>5, <1>6, <1>7, <1>8, KeepShape

\* One file is closed.
LEMMA CloseFileShape ==
    ASSUME Shape, NEW t \in Threads, NEW f \in Files, CloseFile(t, f)
    PROVE  Shape'
  <1> USE Names DEF Set, PerThread
  <1>1. /\ ObjsTyped /\ CountsTyped /\ FilesTyped /\ LookupTyped /\ SweepTyped /\ PlacesTyped
        /\ Fits /\ Named
    BY TypeParts DEF Shape, Typed
  <1>2. UNCHANGED <<tilecache, m_size, binLock, obj, tile, lasttile, purge, sweepMutex,
                     sweepId, disk, floor, lookups, invalidations, want, found, need, inp,
                     key, enter, loops, doomed, target, atStart>>
    BY DEF CloseFile, shared, files, lookup, sweep, inval, Goto, To
  <1>3. /\ pc[t] \in {"close files"} /\ pc' = [pc EXCEPT ![t] = pc'[t]]
        /\ pc'[t] \in {"close files", "purge"}
        /\ alone' \in BOOLEAN
    BY <1>1 DEF CloseFile, Goto, To, PlacesTyped
  <1>4. /\ input' \in [Files -> Versions \union {Closed}] /\ broken' \in [Files -> BOOLEAN]
        /\ todo' \in PerThread(SUBSET (Ids \union Files))
        /\ todo'[t] = todo[t] \ {f}
        /\ pc'[t] = IF todo[t] = {f} THEN "purge" ELSE "close files"
        /\ \A u \in Threads \ {t} : todo'[u] = todo[u]
    <2>1. input' \in [Files -> Versions \union {Closed}] /\ broken' \in [Files -> BOOLEAN]
      BY <1>1 DEF CloseFile, FilesTyped
    <2> QED
      BY <1>1, <2>1 DEF CloseFile, SweepTyped, PlacesTyped, To
  <1>5. ObjsTyped' /\ Named' /\ \A u \in Threads \ {t} : tile'[u] = tile[u]
    BY <1>1, <1>2, StillTyped DEF Still
  <1>6. CountsTyped' /\ FilesTyped' /\ LookupTyped' /\ SweepTyped' /\ PlacesTyped'
    <2>1. CountsTyped'
      BY <1>1, <1>2 DEF CountsTyped
    <2>2. FilesTyped'
      BY <1>1, <1>2, <1>4 DEF FilesTyped
    <2>3. LookupTyped'
      BY <1>1, <1>2 DEF LookupTyped
    <2>4. SweepTyped'
      BY <1>1, <1>2, <1>4 DEF SweepTyped
    <2>5. PlacesTyped'
      BY <1>1, <1>3 DEF PlacesTyped, Places, LookupPcs, SweepPcs, InvalidationPcs
    <2> QED
      BY <2>1, <2>2, <2>3, <2>4, <2>5
  <1>7. FitsAfter(t)
    BY <1>1, <1>2, <1>3, <1>4, <1>5, Fit DEF FitsAfter, FitsAt, LookupPcs, TilePcs, SweepPcs, ErasePcs
  <1>8. Moves(t)
    BY <1>1, <1>2, <1>3, <1>4, <1>5 DEF Moves, PlacesTyped, LookupTyped, SweepTyped
  <1> QED
    BY <1>5, <1>6, <1>7, <1>8, KeepShape

\* The microcaches are to be purged, and the call returns.
LEMMA PurgeShape ==
    ASSUME Shape, NEW t \in Threads, Purge(t)
    PROVE  Shape'
  <1> USE Names DEF Set, PerThread
  <1>1. /\ ObjsTyped /\ CountsTyped /\ FilesTyped /\ LookupTyped /\ SweepTyped /\ PlacesTyped
        /\ Fits /\ Named
    BY TypeParts DEF Shape, Typed
  <1>2. UNCHANGED <<tilecache, m_size, binLock, obj, tile, lasttile, sweepMutex, sweepId,
                     input, broken, disk, lookups, invalidations, want, found, need, inp,
                     key, enter, loops, doomed, todo>>
    BY DEF Purge, shared, files, lookup, sweep, inval, Goto, To
  <1>3. /\ pc[t] \in {"purge"} /\ pc' = [pc EXCEPT ![t] = pc'[t]]
        /\ pc'[t] \in {"idle"}
        /\ alone' \in BOOLEAN
    BY <1>1 DEF Purge, Goto, To, PlacesTyped
  <1>4. /\ purge' \in PerThread(BOOLEAN) /\ target' \in PerThread(SUBSET Files)
        /\ floor' \in [Files -> Versions] /\ atStart' \in PerThread([Files -> Versions])
        /\ \A u \in Threads \ {t} : target'[u] = target[u]
    <2>1. /\ purge' \in PerThread(BOOLEAN) /\ target' \in PerThread(SUBSET Files)
          /\ \A u \in Threads \ {t} : target'[u] = target[u]
      BY <1>1 DEF Purge, SweepTyped
    <2>2. atStart' \in PerThread([Files -> Versions])
      BY <1>1 DEF Purge, FilesTyped
    <2>3. floor' \in [Files -> Versions]
      BY <1>1 DEF Purge, FilesTyped
    <2> QED
      BY <2>1, <2>2, <2>3
  <1>5. ObjsTyped' /\ Named' /\ \A u \in Threads \ {t} : tile'[u] = tile[u]
    BY <1>1, <1>2, StillTyped DEF Still
  <1>6. CountsTyped' /\ FilesTyped' /\ LookupTyped' /\ SweepTyped' /\ PlacesTyped'
    <2>1. CountsTyped'
      BY <1>1, <1>2, <1>4 DEF CountsTyped
    <2>2. FilesTyped'
      BY <1>1, <1>2, <1>4 DEF FilesTyped
    <2>3. LookupTyped'
      BY <1>1, <1>2 DEF LookupTyped
    <2>4. SweepTyped'
      BY <1>1, <1>2, <1>4 DEF SweepTyped
    <2>5. PlacesTyped'
      BY <1>1, <1>3 DEF PlacesTyped, Places, LookupPcs, SweepPcs, InvalidationPcs
    <2> QED
      BY <2>1, <2>2, <2>3, <2>4, <2>5
  <1>7. FitsAfter(t)
    BY <1>1, <1>2, <1>3, <1>4, <1>5, Fit DEF FitsAfter, FitsAt, LookupPcs, TilePcs, SweepPcs, ErasePcs
  <1>8. Moves(t)
    BY <1>1, <1>2, <1>3, <1>4, <1>5 DEF Moves, PlacesTyped, LookupTyped, SweepTyped
  <1> QED
    BY <1>5, <1>6, <1>7, <1>8, KeepShape
-----------------------------------------------------------------------------
\* Somebody writes a file.
LEMMA ModifyShape ==
    ASSUME Shape, NEW f \in Files, Modify(f)
    PROVE  Shape'
  <1> USE Names DEF PerThread
  <1>1. ObjsTyped /\ CountsTyped /\ FilesTyped /\ LookupTyped /\ SweepTyped /\ PlacesTyped
    BY TypeParts DEF Shape, Typed
  <1>2. /\ UNCHANGED <<tilecache, m_size, binLock, obj, tile, lasttile, purge, sweepMutex,
                       sweepId, input, broken, floor, lookups, invalidations, want, found,
                       need, inp, key, enter, loops, doomed, target, todo, atStart, pc, alone>>
    BY DEF Modify, shared, lookup, sweep, inval
  <1>3. disk' \in [Files -> Versions]
    <2>1. disk[f] + 1 \in Versions
      <3>1. disk[f] \in Versions /\ disk[f] < MaxVersion
        BY <1>1 DEF Modify, FilesTyped
      <3> QED
        BY <3>1 DEF Versions
    <2>2. disk' = [disk EXCEPT ![f] = disk[f] + 1]
      BY DEF Modify
    <2> QED
      BY <1>1, <2>1, <2>2 DEF FilesTyped
  <1>4. TypeOK'
    <2>1. ObjsTyped'
      BY <1>1, <1>2 DEF ObjsTyped, Live, LiveIn
    <2>2. CountsTyped' /\ LookupTyped' /\ PlacesTyped'
      BY <1>1, <1>2 DEF CountsTyped, LookupTyped, PlacesTyped
    <2>3. SweepTyped'
      BY <1>1, <1>2 DEF SweepTyped
    <2>4. FilesTyped'
      BY <1>1, <1>2, <1>3 DEF FilesTyped
    <2> QED
      BY <2>1, <2>2, <2>3, <2>4 DEF TypeOK, ObjsTyped, CountsTyped, FilesTyped, LookupTyped,
         SweepTyped, PlacesTyped, Places, LookupPcs, SweepPcs
  <1> QED
    BY <1>2, <1>4 DEF Shape, Fits, Named
-----------------------------------------------------------------------------
\* Shape holds at the beginning.
LEMMA InitShape == Init => Shape
  <1> SUFFICES ASSUME Init PROVE Shape
    OBVIOUS
  <1> USE Names DEF PerThread
  <1>1. ObjsTyped
    <2>1. Live = {}
      BY DEF Init, Live, LiveIn
    <2>2. DOMAIN obj = {}
      BY DEF Init
    <2> QED
      BY <2>1, <2>2 DEF Init, ObjsTyped
  <1>2. CountsTyped /\ LookupTyped /\ PlacesTyped
    <2>1. CountsTyped
      BY DEF Init, CountsTyped
    <2>2. LookupTyped
      BY DEF Init, LookupTyped, MaybeId
    <2>3. PlacesTyped
      BY DEF Init, PlacesTyped, Places
    <2> QED
      BY <2>1, <2>2, <2>3
  <1>3. FilesTyped
    BY DEF Init, FilesTyped
  <1>4. SweepTyped
    <2>1. 0 \in 0..NBins /\ 0 \in 0..FullLoops
      OBVIOUS
    <2> QED
      BY <2>1 DEF Init, SweepTyped, MaybeId
  <1>5. TypeOK
    BY <1>1, <1>2, <1>3, <1>4, TypeParts DEF Typed
  <1>6. Fits
    BY DEF Init, Fits, FitsAt, LookupPcs, SweepPcs, TilePcs, ErasePcs
  <1> QED
    BY <1>5, <1>6 DEF Init, Shape, Named

\* Shape outlasts steps that change nothing.
LEMMA StutterShape == Shape /\ UNCHANGED vars => Shape'
  <1> SUFFICES ASSUME Shape, UNCHANGED vars PROVE Shape'
    OBVIOUS
  <1>1. /\ UNCHANGED <<tilecache, m_size, binLock, obj, tile, lasttile, purge, sweepMutex,
                       sweepId, input, broken, disk, floor, lookups, invalidations>>
        /\ UNCHANGED <<want, found, need, inp, key, enter, loops, doomed, target, todo,
                       atStart, pc, alone>>
    BY DEF vars, shared, files, lookup, sweep, inval
  <1>2. ObjsTyped /\ CountsTyped /\ FilesTyped /\ LookupTyped /\ SweepTyped /\ PlacesTyped
    BY TypeParts DEF Shape, Typed
  <1>3. ObjsTyped'
    BY <1>1, <1>2 DEF ObjsTyped, Live, LiveIn
  <1>4. CountsTyped' /\ FilesTyped' /\ LookupTyped' /\ PlacesTyped'
    BY <1>1, <1>2 DEF CountsTyped, FilesTyped, LookupTyped, PlacesTyped
  <1>5. SweepTyped'
    BY <1>1, <1>2 DEF SweepTyped
  <1>6. TypeOK'
    BY <1>3, <1>4, <1>5 DEF TypeOK, ObjsTyped, CountsTyped, FilesTyped, LookupTyped,
       SweepTyped, PlacesTyped, Places, LookupPcs, SweepPcs
  <1> QED
    BY <1>1, <1>6 DEF Shape, Fits, Named

\* Every step keeps the shape.
LEMMA NextShape == Shape /\ [Next]_vars => Shape'
  <1> SUFFICES ASSUME Shape, [Next]_vars PROVE Shape'
    OBVIOUS
  <1>1. ASSUME NEW t \in Threads, Step(t) PROVE Shape'
    BY <1>1, MicroShape, RetrieveShape, WaitFoundShape, InsertShape, WaitInsertedShape,
       OpenInputShape, ReadPixelsShape, PublishShape, AnswerShape, CheckMemShape,
       FindHandShape, SweepHeadShape, EnterBinShape, LookShape, EvictShape, FinishShape,
       CollectShape, EraseIdShape, ClearBinShape, PurgeShape, CloseFileShape DEF Step
  <1> QED
    BY <1>1, LookupShape, InvalidateShape, InvalidateAllShape, ModifyShape, StutterShape
    DEF Next

\* Types, for every number of threads, TileIDs, bins and files: in particular
\* a name is left for every new tile, and a wait, a sweep or an erasure finds
\* what it is about in its variables.
THEOREM TypeCorrect == Spec => []TypeOK
  <1>1. Shape => TypeOK
    BY DEF Shape
  <1> QED
    BY <1>1, InitShape, NextShape, PTL DEF Spec
-----------------------------------------------------------------------------
(* IteratorValid: what a sweep's iterator holds.                           *)

\* Iterators stay where they are if nothing is erased in a bin that is locked.
LEMMA HeldKept ==
    ASSUME Shape, IteratorValid, UNCHANGED <<key, binLock>>,
           \A i \in Ids : tilecache[i] # None /\ ~Free(BinOf[i]) => tilecache'[i] # None
    PROVE  IteratorValid'
  <1>1. \A t \in Threads : key[t] \in MaybeId
    BY TypeParts DEF Shape, Typed, SweepTyped, PerThread
  <1>2. None \notin Threads
    BY Names
  <1>3. ASSUME NEW t \in Threads, key[t] # None
        PROVE  tilecache'[key[t]] # None /\ binLock[BinOf[key[t]]] = t
    <2>1. key[t] \in Ids
      BY <1>1, <1>3 DEF MaybeId
    <2>2. tilecache[key[t]] # None /\ binLock[BinOf[key[t]]] = t
      BY <1>3 DEF IteratorValid
    <2> QED
      BY <1>2, <2>1, <2>2 DEF Free
  <1> QED
    BY <1>3 DEF IteratorValid

\* Lookups only add to the cache.
LEMMA LookupsHold ==
    ASSUME Shape, IteratorValid, NEW t \in Threads,
           \/ Micro(t) \/ Retrieve(t) \/ WaitFound(t) \/ Insert(t) \/ WaitInserted(t)
           \/ OpenInput(t) \/ ReadPixels(t) \/ Publish(t) \/ Answer(t)
           \/ CheckMem(t) \/ SweepHead(t) \/ \E id \in Ids : Lookup(t, id)
    PROVE  IteratorValid'
  <1>1. UNCHANGED <<key, binLock>>
    BY DEF Micro, Retrieve, WaitFound, Insert, WaitInserted, OpenInput, ReadPixels, Publish,
       Answer, CheckMem, SweepHead, Lookup, shared, sweep
  <1>2. \A i \in Ids : tilecache[i] # None => tilecache'[i] # None
    <2>1. CASE Insert(t)
      <3>1. want[t] \in Ids /\ tile[t] # None /\ pc[t] = "insert"
        BY <2>1, Fit DEF FitsAt, LookupPcs, TilePcs, Insert, Shape
      <3>2. tilecache' = tilecache \/ tilecache' = [tilecache EXCEPT ![want[t]] = tile[t]]
        BY <2>1 DEF Insert, Refs, Set
      <3>3. tilecache \in [Ids -> Objs \union {None}]
        BY TypeParts DEF Shape, Typed, ObjsTyped
      <3> QED
        BY <3>1, <3>2, <3>3
    <2>2. CASE ~Insert(t)
      <3>1. tilecache' = tilecache
        BY <2>2 DEF Micro, Retrieve, WaitFound, WaitInserted, OpenInput, ReadPixels, Publish,
           Answer, CheckMem, SweepHead, Lookup, shared, Refs
      <3> QED
        BY <3>1
    <2> QED
      BY <2>1, <2>2
  <1> QED
    BY <1>1, <1>2, HeldKept

\* What is erased is in no bin that an iterator holds.
LEMMA ErasureHolds ==
    ASSUME Shape, IteratorValid, NEW t \in Threads,
           \/ Evict(t) \/ EraseId(t) \/ ClearBin(t) \/ Collect(t) \/ Purge(t)
           \/ \E f \in Files : CloseFile(t, f) \/ Invalidate(t, f)
           \/ InvalidateAll(t)
    PROVE  IteratorValid'
  <1>1. UNCHANGED <<key, binLock>>
    BY DEF Evict, EraseId, ClearBin, Collect, Purge, CloseFile, Invalidate, InvalidateAll,
       shared, sweep
  <1>2. tilecache \in [Ids -> Objs \union {None}]
    BY TypeParts DEF Shape, Typed, ObjsTyped
  <1>3. ASSUME NEW i \in Ids, tilecache[i] # None, ~Free(BinOf[i]) PROVE tilecache'[i] # None
    <2>1. ASSUME NEW j, EraseEntry(j) PROVE tilecache'[i] # None
      BY <1>2, <1>3, <2>1 DEF EraseEntry, Refs, Set
    <2>2. CASE ClearBin(t)
      <3>1. /\ Free(enter[t])
            /\ tilecache' = [k \in Ids |-> IF BinOf[k] = enter[t] THEN None ELSE tilecache[k]]
        BY <2>2 DEF ClearBin, Refs
      <3> QED
        BY <1>3, <3>1
    <2>3. CASE Evict(t) \/ EraseId(t)
      BY <2>1, <2>3 DEF Evict, EraseId
    <2>4. CASE tilecache' = tilecache
      BY <1>3, <2>4
    <2> QED
      BY <2>2, <2>3, <2>4 DEF Collect, Purge, CloseFile, Invalidate, InvalidateAll, shared
  <1> QED
    BY <1>1, <1>3, HeldKept

\* One thread moves its iterator: from a bin or none to another or none.
LEMMA OneMoves ==
    ASSUME Shape, IteratorValid, NEW t \in Threads, UNCHANGED tilecache,
           \A u \in Threads \ {t} : key'[u] = key[u],
           NEW b \in Bins, \A c \in Bins \ {b} : binLock'[c] = binLock[c],
           key[t] # None => BinOf[key[t]] = b,
           binLock[b] \in {None, t}, key'[t] \in MaybeId,
           \/ key'[t] = None /\ binLock'[b] = None
           \/ /\ key'[t] # None /\ tilecache[key'[t]] # None
              /\ BinOf[key'[t]] = b /\ binLock'[b] = t
    PROVE  IteratorValid'
  <1> USE Names
  <1>1. key \in PerThread(MaybeId) /\ binLock \in [Bins -> Threads \union {None}]
    BY TypeParts DEF Shape, Typed, SweepTyped
  <1>2. ASSUME NEW u \in Threads, key'[u] # None
        PROVE  tilecache'[key'[u]] # None /\ binLock'[BinOf[key'[u]]] = u
    <2>1. CASE u = t
      BY <1>2, <2>1
    <2>2. CASE u # t
      <3>1. key'[u] = key[u] /\ key[u] \in Ids
        BY <1>1, <1>2, <2>2 DEF MaybeId, PerThread
      <3>2. tilecache[key[u]] # None /\ binLock[BinOf[key[u]]] = u /\ BinOf[key[u]] \in Bins
        BY <1>2, <3>1 DEF IteratorValid
      <3>3. BinOf[key[u]] # b
        BY <2>2, <3>2
      <3> QED
        BY <3>1, <3>2, <3>3
    <2> QED
      BY <2>1, <2>2
  <1>3. ASSUME NEW c \in Bins, binLock'[c] # None
        PROVE  key'[binLock'[c]] # None /\ BinOf[key'[binLock'[c]]] = c
    <2>1. CASE c = b
      BY <1>3, <2>1
    <2>2. CASE c # b
      <3>1. binLock'[c] = binLock[c] /\ binLock[c] \in Threads
        BY <1>1, <1>3, <2>2
      <3>2. key[binLock[c]] # None /\ BinOf[key[binLock[c]]] = c
        BY <1>3, <3>1 DEF IteratorValid
      <3>3. binLock[c] # t
        BY <2>2, <3>2
      <3> QED
        BY <3>1, <3>2, <3>3
    <2> QED
      BY <2>1, <2>2
  <1> QED
    BY <1>2, <1>3 DEF IteratorValid
-----------------------------------------------------------------------------
\* The sweeping thread's steps move its iterator and the lock together.
LEMMA StopMoves ==
    ASSUME Shape, IteratorValid, NEW t \in Threads, UNCHANGED tilecache,
           pc[t] \in {"begin", "next", "look"},
           NEW b \in Bins, NEW k \in MaybeId, StopAt(t, b, k),
           key[t] # None => BinOf[key[t]] = b, binLock[b] \in {None, t},
           k # None => k \in InBin(b)
    PROVE  IteratorValid'
  <1> USE Names
  <1>1. SweepTyped /\ PlacesTyped
    BY TypeParts DEF Shape, Typed
  <1>2. /\ \A u \in Threads \ {t} : key'[u] = key[u]
        /\ \A c \in Bins \ {b} : binLock'[c] = binLock[c]
        /\ key' \in PerThread(MaybeId)
    BY <1>1, Stops
  <1>3. key'[t] \in MaybeId
    BY <1>2 DEF PerThread
  <1>4. CASE doomed'[t] = None
    <2>1. key'[t] = k /\ binLock'[b] = IF k = None THEN None ELSE t
      BY <1>1, <1>4, Stops
    <2>2. k # None => tilecache[k] # None /\ BinOf[k] = b
      BY DEF InBin
    <2> QED
      BY <1>2, <1>3, <2>1, <2>2, OneMoves
  <1>5. CASE doomed'[t] # None
    <2>1. key'[t] = None /\ binLock'[b] = None
      BY <1>1, <1>5, Stops
    <2> QED
      BY <1>2, <1>3, <2>1, OneMoves
  <1> QED
    BY <1>4, <1>5

\* The steps that move an iterator: it locks the bin that its tile is in.
LEMMA IteratorMoves ==
    ASSUME Shape, IteratorValid, NEW t \in Threads,
           FindHand(t) \/ EnterBin(t) \/ Look(t) \/ Finish(t)
    PROVE  IteratorValid'
  <1> USE Names DEF Set, PerThread
  <1>1. SweepTyped /\ PlacesTyped /\ ObjsTyped /\ Fits
    BY TypeParts DEF Shape, Typed
  <1>2. UNCHANGED tilecache
    BY DEF FindHand, EnterBin, Look, Finish
  <1>3. CASE FindHand(t)
    <2>1. pc[t] = "find"
      BY <1>3 DEF FindHand, Goto
    <2>2. sweepId \in Ids /\ key[t] = None
      <3>1. sweepId # None /\ key[t] = None
        BY <1>1, <2>1, Fit DEF FitsAt
      <3> QED
        BY <1>1, <3>1 DEF SweepTyped, MaybeId
    <2>3. BinOf[sweepId] \in Bins /\ binLock[BinOf[sweepId]] = None
      BY <1>3, <2>2 DEF FindHand, Free
    <2>4. /\ key' = [key EXCEPT ![t] = IF tilecache[sweepId] # None THEN sweepId ELSE None]
          /\ binLock' = IF tilecache[sweepId] # None
                        THEN [binLock EXCEPT ![BinOf[sweepId]] = t] ELSE binLock
      BY <1>3 DEF FindHand, At
    <2>5. /\ \A u \in Threads \ {t} : key'[u] = key[u]
          /\ \A c \in Bins \ {BinOf[sweepId]} : binLock'[c] = binLock[c]
      BY <1>1, <2>4 DEF SweepTyped
    <2>6. CASE tilecache[sweepId] # None
      <3>1. key'[t] = sweepId /\ binLock'[BinOf[sweepId]] = t
        BY <1>1, <2>3, <2>4, <2>6 DEF SweepTyped
      <3>2. key'[t] # None /\ key'[t] \in MaybeId
        BY <2>2, <3>1 DEF MaybeId
      <3> QED
        BY <1>2, <2>2, <2>3, <2>5, <2>6, <3>1, <3>2, OneMoves
    <2>7. CASE tilecache[sweepId] = None
      <3>1. key'[t] = None /\ binLock'[BinOf[sweepId]] = None
        BY <1>1, <2>3, <2>4, <2>7 DEF SweepTyped
      <3>2. key'[t] \in MaybeId
        BY <3>1 DEF MaybeId
      <3> QED
        BY <1>2, <2>2, <2>3, <2>5, <3>1, <3>2, OneMoves
    <2> QED
      BY <2>6, <2>7
  <1>4. CASE EnterBin(t)
    <2>1. pc[t] \in {"begin", "next"} /\ Free(enter[t])
      BY <1>4 DEF EnterBin
    <2>2. enter[t] \in Bins /\ key[t] = None
      BY <1>1, <2>1, Fit DEF FitsAt
    <2>3. CASE UNCHANGED <<binLock, key>>
      BY <1>2, <2>3, HeldKept
    <2>4. ASSUME NEW k \in MaybeId, StopAt(t, enter[t], k), k # None => k \in InBin(enter[t])
          PROVE  IteratorValid'
      <3>1. pc[t] \in {"begin", "next", "look"} /\ binLock[enter[t]] \in {None, t}
        BY <2>1 DEF Free
      <3> QED
        BY <1>2, <2>2, <2>4, <3>1, StopMoves
    <2> QED
      BY <1>1, <1>4, <2>3, <2>4, EnterBinDoes
  <1>5. CASE Look(t)
    <2>1. pc[t] = "look"
      BY <1>5 DEF Look
    <2>2. key[t] # None
      BY <1>1, <2>1, Fit DEF FitsAt
    <2>3. BinOf[key[t]] \in Bins /\ binLock[BinOf[key[t]]] = t
      <3>1. key[t] \in Ids
        BY <1>1, <2>2 DEF SweepTyped, MaybeId
      <3> QED
        BY <2>2, <3>1 DEF IteratorValid
    <2>4. CASE key' = Set(key, t, None) /\ binLock' = Set(binLock, BinOf[key[t]], None)
      <3>1. /\ key'[t] = None /\ binLock'[BinOf[key[t]]] = None /\ key'[t] \in MaybeId
            /\ \A u \in Threads \ {t} : key'[u] = key[u]
            /\ \A c \in Bins \ {BinOf[key[t]]} : binLock'[c] = binLock[c]
        BY <1>1, <2>3, <2>4 DEF SweepTyped, MaybeId
      <3> QED
        BY <1>2, <2>3, <3>1, OneMoves
    <2>5. ASSUME NEW k \in MaybeId, StopAt(t, BinOf[key[t]], k),
                 k # None => k \in InBin(BinOf[key[t]])
          PROVE  IteratorValid'
      <3>1. pc[t] \in {"begin", "next", "look"} /\ binLock[BinOf[key[t]]] \in {None, t}
        BY <2>1, <2>3
      <3> QED
        BY <1>2, <2>3, <2>5, <3>1, StopMoves
    <2> QED
      BY <1>5, <2>4, <2>5, LookDoes
  <1>6. CASE Finish(t)
    <2>1. /\ key' = [key EXCEPT ![t] = None]
          /\ binLock' = [b \in Bins |-> IF binLock[b] = t THEN None ELSE binLock[b]]
      BY <1>6 DEF Finish, At
    <2>2. /\ key'[t] = None /\ key'[t] \in MaybeId
          /\ \A u \in Threads \ {t} : key'[u] = key[u]
      BY <1>1, <2>1 DEF SweepTyped, MaybeId
    <2>3. CASE key[t] = None
      <3>1. \A b \in Bins : binLock[b] # t
        BY <2>3 DEF IteratorValid
      <3>2. key' = key /\ binLock' = binLock
        BY <1>1, <2>1, <2>3, <3>1 DEF SweepTyped
      <3> QED
        BY <1>2, <3>2, HeldKept
    <2>4. CASE key[t] # None
      <3>1. BinOf[key[t]] \in Bins /\ binLock[BinOf[key[t]]] = t
        <4>1. key[t] \in Ids
          BY <1>1, <2>4 DEF SweepTyped, MaybeId
        <4> QED
          BY <2>4, <4>1 DEF IteratorValid
      <3>2. \A c \in Bins \ {BinOf[key[t]]} : binLock[c] # t
        BY DEF IteratorValid
      <3>3. /\ binLock'[BinOf[key[t]]] = None
            /\ \A c \in Bins \ {BinOf[key[t]]} : binLock'[c] = binLock[c]
        BY <2>1, <3>1, <3>2
      <3> QED
        BY <1>2, <2>2, <3>1, <3>3, OneMoves
    <2> QED
      BY <2>3, <2>4
  <1> QED
    BY <1>3, <1>4, <1>5, <1>6

\* No step leaves an iterator at an entry that is gone.
LEMMA NextHeld ==
    ASSUME Shape, IteratorValid, [Next]_vars
    PROVE  IteratorValid'
  <1>1. ASSUME NEW t \in Threads, Step(t) PROVE IteratorValid'
    BY <1>1, LookupsHold, ErasureHolds, IteratorMoves DEF Step
  <1>2. ASSUME NEW t \in Threads, NEW id \in Ids, Lookup(t, id) PROVE IteratorValid'
    BY <1>2, LookupsHold
  <1>3. ASSUME NEW t \in Threads, NEW f \in Files, Invalidate(t, f) PROVE IteratorValid'
    BY <1>3, ErasureHolds
  <1>4. ASSUME NEW t \in Threads, InvalidateAll(t) PROVE IteratorValid'
    BY <1>4, ErasureHolds
  <1>5. CASE UNCHANGED vars \/ \E f \in Files : Modify(f)
    <2>1. UNCHANGED <<key, binLock, tilecache>>
      BY <1>5 DEF Modify, vars, shared, sweep
    <2> QED
      BY <2>1, HeldKept
  <1> QED
    BY <1>1, <1>2, <1>3, <1>4, <1>5 DEF Next

\* The iterator of a sweep stays on an entry that exists, in a bin that its
\* thread and nobody else has locked, and nobody holds another bin.
THEOREM IteratorsValid == Spec => []IteratorValid
  <1>1. Init => IteratorValid
    BY DEF Init, IteratorValid
  <1>2. Shape /\ IteratorValid /\ [Next]_vars => IteratorValid'
    BY NextHeld
  <1> QED
    BY <1>1, <1>2, InitShape, NextShape, PTL DEF Spec
-----------------------------------------------------------------------------
(* Made: who makes a tile ready.                                           *)

\* No tile comes into being, and what readers see of the others stays.
KeepsTiles ==
    /\ Live' \subseteq Live
    /\ \A o \in Live' : /\ obj'[o].ready = obj[o].ready /\ obj'[o].valid = obj[o].valid
                        /\ obj'[o].ver = obj[o].ver
\* The cache loses entries, or none.
Loses == \A i \in Ids : tilecache'[i] \in {tilecache[i], None}

\* A step that leaves the tiles alone keeps them.
LEMMA StillKeeps ==
    ASSUME ObjsTyped, Still
    PROVE  KeepsTiles /\ Loses
  BY DEF Still, KeepsTiles, Loses, Live, LiveIn

\* Marking a tile, used or unused, keeps all that Made says of tiles.
LEMMA MarkKeeps ==
    ASSUME ObjsTyped, UNCHANGED <<tilecache, tile, lasttile>>, NEW o,
           obj' = [obj EXCEPT ![o].used = TRUE] \/ obj' = [obj EXCEPT ![o].used = FALSE]
    PROVE  KeepsTiles /\ Loses
  <1>1. Live' = Live
    BY DEF Live, LiveIn
  <1>2. CASE obj' = [obj EXCEPT ![o].used = TRUE]
    BY <1>1, <1>2 DEF ObjsTyped, KeepsTiles, Loses, Tile
  <1>3. CASE obj' = [obj EXCEPT ![o].used = FALSE]
    BY <1>1, <1>3 DEF ObjsTyped, KeepsTiles, Loses, Tile
  <1> QED
    BY <1>2, <1>3

\* The steps that touch neither the cache nor the microcaches.
Bystands(t) ==
    \/ WaitFound(t) \/ WaitInserted(t) \/ OpenInput(t) \/ Answer(t) \/ CheckMem(t)
    \/ FindHand(t) \/ SweepHead(t) \/ EnterBin(t) \/ Look(t) \/ Finish(t)
    \/ Collect(t) \/ Purge(t) \/ InvalidateAll(t)
    \/ \E f \in Files : CloseFile(t, f) \/ Invalidate(t, f)
\* The steps that erase.
Erases(t) == Evict(t) \/ EraseId(t) \/ ClearBin(t)

\* A bystanding step keeps the tiles and moves no reference.
LEMMA BystandsKeeps ==
    ASSUME Shape, NEW t \in Threads, Bystands(t)
    PROVE  KeepsTiles /\ Loses /\ UNCHANGED <<tilecache, tile, lasttile>>
  <1>1. ObjsTyped
    BY TypeParts DEF Shape, Typed
  <1>2. CASE WaitFound(t)
    BY <1>1, <1>2, MarkKeeps DEF WaitFound
  <1>3. CASE Look(t)
    <2>1. UNCHANGED <<tilecache, tile, lasttile>>
      BY <1>3 DEF Look
    <2>2. CASE obj' = obj
      BY <1>1, <2>1, <2>2, StillKeeps DEF Still
    <2>3. CASE obj' = [obj EXCEPT ![tilecache[key[t]]].used = FALSE]
      BY <1>1, <2>1, <2>3, MarkKeeps
    <2> QED
      BY <1>3, <2>1, <2>2, <2>3, Zenon DEF Look
  <1>4. CASE UNCHANGED <<tilecache, tile, lasttile, obj>>
    BY <1>1, <1>4, StillKeeps DEF Still
  <1>5. \/ WaitFound(t) \/ Look(t) \/ UNCHANGED <<tilecache, tile, lasttile, obj>>
    BY DEF Bystands, WaitInserted, OpenInput, Answer, CheckMem, FindHand, SweepHead, EnterBin,
       Finish, Collect, Purge, InvalidateAll, CloseFile, Invalidate, shared
  <1> QED
    BY <1>2, <1>3, <1>4, <1>5

\* What an erasure takes away.
Taken(t) == IF pc[t] = "evict" THEN {doomed[t]}
            ELSE IF pc[t] = "erase ids" THEN {Min(todo[t])}
            ELSE {i \in Ids : BinOf[i] = enter[t]}

\* An erasing step takes the entries in Taken from the map and nothing else.
LEMMA ErasesKeeps ==
    ASSUME Shape, NEW t \in Threads, Erases(t)
    PROVE  /\ KeepsTiles /\ Loses /\ UNCHANGED <<tile, lasttile>>
           /\ \A i \in Ids : tilecache'[i] = IF i \in Taken(t) THEN None ELSE tilecache[i]
           /\ Taken(t) \subseteq Ids
           /\ pc[t] = "evict" => doomed[t] \in Ids /\ m_size' = m_size - 1
           /\ pc[t] = "erase ids" => /\ Min(todo[t]) \in todo[t] /\ m_size' = m_size - 1
                                     /\ todo[t] \subseteq Ids
  <1>1. ObjsTyped /\ CountsTyped /\ SweepTyped /\ Named /\ Fits
    BY TypeParts DEF Shape, Typed
  <1>2. ASSUME Live' \subseteq Live, \A x \in Live' : obj'[x] = obj[x],
               \A i \in Ids : tilecache'[i] = IF i \in Taken(t) THEN None ELSE tilecache[i]
        PROVE  KeepsTiles /\ Loses
    BY <1>2 DEF KeepsTiles, Loses
  <1>3. CASE Evict(t)
    <2>1. pc[t] = "evict" /\ EraseEntry(doomed[t])
      BY <1>3 DEF Evict
    <2>2. doomed[t] \in Ids
      <3>1. doomed[t] \in MaybeId
        BY <1>1 DEF SweepTyped, PerThread
      <3>2. doomed[t] # None
        BY <1>1, <2>1, Fit DEF FitsAt
      <3> QED
        BY <3>1, <3>2 DEF MaybeId
    <2>3. Taken(t) = {doomed[t]}
      BY <2>1 DEF Taken
    <2> QED
      BY <1>1, <1>2, <2>1, <2>2, <2>3, EraseTyped
  <1>4. CASE EraseId(t)
    <2> DEFINE i == Min(todo[t])
    <2>1. pc[t] = "erase ids" /\ EraseEntry(i)
      BY <1>4 DEF EraseId
    <2>2. todo[t] \subseteq Ids /\ todo[t] # {}
      BY <1>1, <2>1, Fit DEF FitsAt, ErasePcs
    <2>3. todo[t] \in SUBSET Nat
      BY <2>2, Names
    <2>4. i \in todo[t] /\ i \in Ids
      BY <2>2, <2>3, MinOf
    <2>5. Taken(t) = {i}
      BY <2>1 DEF Taken
    <2> HIDE DEF i
    <2>6. /\ Live' \subseteq Live /\ \A x \in Live' : obj'[x] = obj[x]
          /\ \A j \in Ids : tilecache'[j] = IF j \in Taken(t) THEN None ELSE tilecache[j]
          /\ UNCHANGED <<tile, lasttile>> /\ m_size' = m_size - 1
      BY <1>1, <2>1, <2>4, <2>5, EraseTyped
    <2> QED
      BY <1>2, <2>1, <2>2, <2>4, <2>5, <2>6 DEF i
  <1>5. CASE ClearBin(t)
    <2>1. /\ pc[t] = "clear"
          /\ Refs([i \in Ids |-> IF BinOf[i] = enter[t] THEN None ELSE tilecache[i]],
                  tile, lasttile, obj)
      BY <1>5 DEF ClearBin
    <2>2. Taken(t) = {i \in Ids : BinOf[i] = enter[t]}
      BY <2>1 DEF Taken
    <2>3. [i \in Ids |-> IF BinOf[i] = enter[t] THEN None ELSE tilecache[i]]
            = [i \in Ids |-> IF i \in Taken(t) THEN None ELSE tilecache[i]]
      BY <2>2
    <2>4. Refs([i \in Ids |-> IF i \in Taken(t) THEN None ELSE tilecache[i]], tile, lasttile, obj)
      BY <2>1, <2>3
    <2>5. Taken(t) \in SUBSET Ids
      BY <2>2
    <2>6. /\ Live' \subseteq Live /\ \A x \in Live' : obj'[x] = obj[x]
          /\ \A j \in Ids : tilecache'[j] = IF j \in Taken(t) THEN None ELSE tilecache[j]
          /\ UNCHANGED <<tile, lasttile>>
      BY <1>1, <2>4, <2>5, LessTyped
    <2> QED
      BY <1>2, <2>1, <2>5, <2>6
  <1> QED
    BY <1>3, <1>4, <1>5 DEF Erases

\* Dropping and swapping the microcache, and taking a tile of the cache.
LEMMA MicroKeeps ==
    ASSUME Shape, NEW t \in Threads, Micro(t)
    PROVE  /\ KeepsTiles /\ Loses /\ UNCHANGED tilecache
           /\ \A u \in Threads \ {t} : tile'[u] = tile[u] /\ lasttile'[u] = lasttile[u]
           /\ \/ tile'[t] = tile[t] /\ lasttile'[t] = lasttile[t]
              \/ /\ tile[t] # None
                 /\ tile'[t] = lasttile[t] /\ lasttile'[t] = tile[t]
           /\ pc[t] = "micro" /\ pc'[t] \in {"answer", "retrieve"}
           /\ pc'[t] = "answer" => /\ tile'[t] # None /\ IdOf(tile'[t]) = want[t]
                                   /\ found'[t]
  <1>1. ObjsTyped /\ PlacesTyped /\ LookupTyped
    BY TypeParts DEF Shape, Typed
  <1> USE DEF PerThread, Set
  <1>2. /\ UNCHANGED tilecache
        /\ \/ UNCHANGED <<tile, lasttile>>
           \/ /\ tile[t] # None
              /\ tile' = [tile EXCEPT ![t] = lasttile[t]]
              /\ lasttile' = [lasttile EXCEPT ![t] = tile[t]]
        /\ \/ obj' = obj
           \/ obj' = [obj EXCEPT ![tile[t]].used = TRUE]
           \/ obj' = [obj EXCEPT ![lasttile[t]].used = TRUE]
    BY Zenon DEF Micro
  <1>3. Live' = Live
    BY <1>1, <1>2 DEF Live, LiveIn, ObjsTyped
  <1>4. KeepsTiles /\ Loses
    <2>1. Loses
      BY <1>2 DEF Loses
    <2>2. CASE obj' = obj
      BY <1>3, <2>1, <2>2 DEF KeepsTiles
    <2>3. CASE obj' = [obj EXCEPT ![tile[t]].used = TRUE]
      BY <1>1, <1>3, <2>1, <2>3 DEF KeepsTiles, ObjsTyped, Tile
    <2>4. CASE obj' = [obj EXCEPT ![lasttile[t]].used = TRUE]
      BY <1>1, <1>3, <2>1, <2>4 DEF KeepsTiles, ObjsTyped, Tile
    <2> QED
      BY <1>2, <2>2, <2>3, <2>4
  <1>5. /\ \A u \in Threads \ {t} : tile'[u] = tile[u] /\ lasttile'[u] = lasttile[u]
        /\ \/ tile'[t] = tile[t] /\ lasttile'[t] = lasttile[t]
           \/ /\ tile[t] # None
              /\ tile'[t] = lasttile[t] /\ lasttile'[t] = tile[t]
    BY <1>1, <1>2 DEF ObjsTyped
  <1>6. /\ pc[t] = "micro"
        /\ \/ pc' = [pc EXCEPT ![t] = "retrieve"]
           \/ /\ pc' = [pc EXCEPT ![t] = "answer"] /\ found' = [found EXCEPT ![t] = TRUE]
              /\ \/ tile' = tile /\ tile[t] # None /\ IdOf(tile[t]) = want[t]
                 \/ /\ tile' = [tile EXCEPT ![t] = lasttile[t]]
                    /\ lasttile[t] # None /\ IdOf(lasttile[t]) = want[t]
    BY DEF Micro, To
  <1> QED
    BY <1>1, <1>2, <1>4, <1>5, <1>6 DEF ObjsTyped, PlacesTyped, LookupTyped

\* The beginning of a lookup keeps the Perthread of the caller, or purges it.
LEMMA LookupKeeps ==
    ASSUME Shape, NEW t \in Threads, NEW id \in Ids, Lookup(t, id)
    PROVE  /\ KeepsTiles /\ Loses /\ UNCHANGED tilecache
           /\ \A u \in Threads \ {t} : /\ tile'[u] = tile[u] /\ lasttile'[u] = lasttile[u]
                                       /\ purge'[u] = purge[u]
           /\ \/ tile'[t] = tile[t] /\ lasttile'[t] = lasttile[t] /\ purge'[t] = purge[t]
                 /\ ~(purge[t] /\ t \notin KeepsPerthread)
              \/ tile'[t] = None /\ lasttile'[t] = None /\ ~purge'[t]
           /\ pc[t] = "idle" /\ pc'[t] \in {"idle", "micro"}
  <1>1. ObjsTyped /\ PlacesTyped /\ CountsTyped
    BY TypeParts DEF Shape, Typed
  <1> USE Names DEF PerThread, Set
  <1>2. pc[t] = "idle" /\ pc'[t] \in {"idle", "micro"}
    BY <1>1 DEF Lookup, To, PlacesTyped
  <1> DEFINE drop == purge[t] /\ t \notin KeepsPerthread
  <1>3. CASE drop
    <2>1. /\ Refs(tilecache, Set(tile, t, None), Set(lasttile, t, None), obj)
          /\ purge' = [purge EXCEPT ![t] = purge[t] /\ ~drop]
      BY <1>3 DEF Lookup
    <2>2. Older(tilecache, Set(tile, t, None), Set(lasttile, t, None))
      BY <1>1 DEF LiveIn, Live, ObjsTyped, Older
    <2>3. /\ Live' \subseteq Live /\ \A x \in Live' : obj'[x] = obj[x]
          /\ tilecache' = tilecache /\ tile' = Set(tile, t, None) /\ lasttile' = Set(lasttile, t, None)
      BY <1>1, <2>1, <2>2, OlderTyped
    <2>4. KeepsTiles /\ Loses
      BY <2>3 DEF KeepsTiles, Loses
    <2>5. ~purge'[t] /\ \A u \in Threads \ {t} : purge'[u] = purge[u]
      BY <1>1, <1>3, <2>1 DEF CountsTyped
    <2> QED
      BY <1>1, <1>2, <2>3, <2>4, <2>5 DEF ObjsTyped
  <1>4. CASE ~drop
    <2>1. /\ UNCHANGED <<tilecache, tile, lasttile, obj>>
          /\ purge' = [purge EXCEPT ![t] = purge[t] /\ ~drop]
      BY <1>4 DEF Lookup
    <2>2. KeepsTiles /\ Loses
      BY <1>1, <2>1, StillKeeps DEF Still
    <2>3. purge'[t] = purge[t] /\ \A u \in Threads \ {t} : purge'[u] = purge[u]
      BY <1>1, <1>4, <2>1 DEF CountsTyped
    <2> QED
      BY <1>2, <1>4, <2>1, <2>2, <2>3
  <1> QED
    BY <1>3, <1>4
-----------------------------------------------------------------------------
\* Where nothing is made, inserted or made ready, the makers stay what they are.
LEMMA MadeKept ==
    ASSUME Shape, Made, ObjsTyped', KeepsTiles, Loses, NEW t \in Threads,
           \A u \in Threads \ {t} : /\ pc'[u] = pc[u] /\ tile'[u] = tile[u]
                                    /\ lasttile'[u] = lasttile[u],
           pc[t] # "insert", pc'[t] # "insert", Makes(pc'[t]) <=> Makes(pc[t]),
           Makes(pc[t]) => tile'[t] = tile[t] /\ lasttile'[t] = lasttile[t],
           lasttile'[t] \in {None, tile[t], lasttile[t]},
           \/ tile'[t] \in {None, tile[t], lasttile[t]}
           \/ \E i \in Ids : tile'[t] = tilecache[i],
           Seen(pc[t], tile[t], lasttile[t])'
    PROVE  Made'
  <1>1. ASSUME NEW u \in Threads, pc'[u] = "insert" PROVE Private(u)'
    <2>1. u # t /\ pc[u] = "insert" /\ tile'[u] = tile[u] /\ Private(u)
      BY <1>1 DEF Made
    <2>2. tile[u] # None
      BY <2>1, Fit DEF FitsAt, TilePcs, Shape
    <2>3. \A i \in Ids : tilecache'[i] # tile[u]
      BY <2>1, <2>2 DEF Private, Loses
    <2>4. tile'[t] # tile[u] /\ lasttile'[t] # tile[u]
      BY <2>1, <2>2 DEF Private
    <2> QED
      BY <2>1, <2>3, <2>4 DEF Private
  <1>2. \A u \in Threads : Makes(pc'[u]) => Makes(pc[u]) /\ tile'[u] = tile[u]
    OBVIOUS
  <1>3. \A u \in Threads : Makes(pc[u]) => Makes(pc'[u]) /\ tile'[u] = tile[u]
    OBVIOUS
  <1>4. ASSUME NEW o \in Live', ~obj'[o].ready
        PROVE  \E u \in Threads : Makes(pc'[u]) /\ tile'[u] = o
    <2>1. o \in Live /\ ~obj[o].ready
      BY <1>4 DEF KeepsTiles
    <2> QED
      BY <1>3, <2>1 DEF Made
  <1>5. ASSUME NEW u \in Threads PROVE Seen(pc[u], tile[u], lasttile[u])'
    <2>1. CASE u = t
      BY <2>1
    <2>2. CASE u # t
      <3>1. Seen(pc[u], tile[u], lasttile[u])
        BY DEF Made
      <3>2. /\ tile'[u] # None => tile'[u] \in Live'
            /\ lasttile'[u] # None => lasttile'[u] \in Live'
        BY DEF Live, LiveIn
      <3> QED
        BY <2>2, <3>1, <3>2 DEF Seen, KeepsTiles
    <2> QED
      BY <2>1, <2>2
  <1>6. \A u, v \in Threads : Makes(pc'[u]) /\ Makes(pc'[v]) /\ tile'[u] = tile'[v] => u = v
    BY <1>2 DEF Made
  <1> QED
    BY <1>1, <1>4, <1>5, <1>6 DEF Made

\* Where bystanding steps go: a maker stays one, and who waited need not.
LEMMA BystandsGoes ==
    ASSUME Shape, NEW t \in Threads, Bystands(t)
    PROVE  /\ \A u \in Threads \ {t} : pc'[u] = pc[u]
           /\ pc[t] # "insert" /\ pc'[t] # "insert" /\ (Makes(pc'[t]) <=> Makes(pc[t]))
           /\ pc'[t] \notin {"wait", "wait inserted"}
           /\ pc[t] \in {"wait", "wait inserted"} => obj[tile[t]].ready
  <1>1. pc \in [Threads -> Places]
    BY TypeParts DEF Shape, Typed, PlacesTyped, PerThread
  <1> USE DEF Set
  <1>2. CASE WaitFound(t) \/ WaitInserted(t)
    BY <1>1, <1>2 DEF WaitFound, WaitInserted, Goto, To, Makes
  <1>3. CASE OpenInput(t) \/ Answer(t) \/ FindHand(t) \/ Finish(t) \/ Purge(t)
    BY <1>1, <1>3 DEF OpenInput, Answer, FindHand, Finish, Purge, Goto, To, Makes
  <1>4. CASE CheckMem(t) \/ SweepHead(t)
    BY <1>1, <1>4 DEF CheckMem, SweepHead, To, Makes
  <1>5. CASE EnterBin(t) \/ Look(t)
    BY <1>1, <1>5 DEF EnterBin, Look, StopAt, To, Makes
  <1>6. CASE Collect(t) \/ InvalidateAll(t) \/ \E f \in Files : CloseFile(t, f) \/ Invalidate(t, f)
    BY <1>1, <1>6 DEF Collect, InvalidateAll, CloseFile, Invalidate, MayInvalidate, To, Makes
  <1> QED
    BY <1>2, <1>3, <1>4, <1>5, <1>6 DEF Bystands

\* Where erasing steps are taken, and where they lead.
LEMMA ErasesGoes ==
    ASSUME Shape, NEW t \in Threads, Erases(t)
    PROVE  /\ \A u \in Threads \ {t} : pc'[u] = pc[u]
           /\ pc[t] \in {"evict", "erase ids", "clear"}
           /\ pc'[t] \in {"sweep", "find", "erase ids", "close files", "clear"}
  <1>1. pc \in [Threads -> Places]
    BY TypeParts DEF Shape, Typed, PlacesTyped, PerThread
  <1> QED
    BY <1>1 DEF Erases, Evict, EraseId, ClearBin, To, Set

\* A thread that is not waiting, and makes nothing, keeps ready tiles.
LEMMA SeenStays ==
    ASSUME Shape, Made, ObjsTyped', KeepsTiles, NEW t \in Threads,
           ~Makes(pc[t]), pc[t] \in {"wait", "wait inserted"} => obj[tile[t]].ready,
           tile'[t] \in {None, tile[t], lasttile[t]},
           lasttile'[t] \in {None, tile[t], lasttile[t]}
    PROVE  Seen(pc[t], tile[t], lasttile[t])'
  <1>1. Seen(pc[t], tile[t], lasttile[t])
    BY DEF Made
  <1>2. /\ tile'[t] # None => tile'[t] \in Live'
        /\ lasttile'[t] # None => lasttile'[t] \in Live'
    BY DEF Live, LiveIn
  <1> QED
    BY <1>1, <1>2 DEF Seen, KeepsTiles

\* Made outlasts the steps of bystanders.
LEMMA BystandsMade ==
    ASSUME Shape, Shape', Made, NEW t \in Threads, Bystands(t)
    PROVE  Made'
  <1>1. ObjsTyped'
    BY TypeParts, Shape' DEF Shape, TypeOK, ObjsTyped
  <1>2. KeepsTiles /\ Loses /\ UNCHANGED <<tilecache, tile, lasttile>>
    BY BystandsKeeps
  <1>3. /\ \A u \in Threads \ {t} : pc'[u] = pc[u]
        /\ pc[t] # "insert" /\ pc'[t] # "insert" /\ (Makes(pc'[t]) <=> Makes(pc[t]))
        /\ pc'[t] \notin {"wait", "wait inserted"}
        /\ pc[t] \in {"wait", "wait inserted"} => obj[tile[t]].ready
    BY BystandsGoes
  <1>4. Seen(pc[t], tile[t], lasttile[t])'
    <2>1. CASE ~Makes(pc[t])
      BY <1>1, <1>2, <1>3, <2>1, SeenStays
    <2>2. CASE Makes(pc[t])
      <3>1. Seen(pc[t], tile[t], lasttile[t])
        BY DEF Made
      <3>2. lasttile'[t] # None => lasttile'[t] \in Live'
        BY DEF Live, LiveIn
      <3> QED
        BY <1>2, <1>3, <2>2, <3>1, <3>2 DEF Seen, KeepsTiles
    <2> QED
      BY <2>1, <2>2
  <1> QED
    BY <1>1, <1>2, <1>3, <1>4, MadeKept

\* Made outlasts erasures.
LEMMA ErasesMade ==
    ASSUME Shape, Shape', Made, NEW t \in Threads, Erases(t)
    PROVE  Made'
  <1>1. ObjsTyped'
    BY TypeParts, Shape' DEF Shape, TypeOK, ObjsTyped
  <1>2. KeepsTiles /\ Loses /\ UNCHANGED <<tile, lasttile>>
    BY ErasesKeeps
  <1>3. /\ \A u \in Threads \ {t} : pc'[u] = pc[u]
        /\ pc[t] \in {"evict", "erase ids", "clear"}
        /\ pc'[t] \in {"sweep", "find", "erase ids", "close files", "clear"}
    BY ErasesGoes
  <1>4. ~Makes(pc[t]) /\ ~Makes(pc'[t])
    BY <1>3 DEF Makes
  <1>5. Seen(pc[t], tile[t], lasttile[t])'
    BY <1>1, <1>2, <1>3, <1>4, SeenStays
  <1> QED
    BY <1>1, <1>2, <1>3, <1>4, <1>5, MadeKept

\* Made outlasts the beginning of a lookup and the look at the microcache.
LEMMA MicroMade ==
    ASSUME Shape, Shape', Made, NEW t \in Threads,
           Micro(t) \/ \E id \in Ids : Lookup(t, id)
    PROVE  Made'
  <1>1. ObjsTyped'
    BY TypeParts, Shape' DEF Shape, TypeOK, ObjsTyped
  <1>2. /\ KeepsTiles /\ Loses
        /\ \A u \in Threads \ {t} : tile'[u] = tile[u] /\ lasttile'[u] = lasttile[u]
        /\ tile'[t] \in {None, tile[t], lasttile[t]}
        /\ lasttile'[t] \in {None, tile[t], lasttile[t]}
        /\ pc[t] \in {"idle", "micro"} /\ pc'[t] \in {"idle", "micro", "answer", "retrieve"}
    <2>1. CASE Micro(t)
      BY <2>1, MicroKeeps
    <2>2. CASE \E id \in Ids : Lookup(t, id)
      BY <2>2, LookupKeeps
    <2> QED
      BY <2>1, <2>2
  <1>3. \A u \in Threads \ {t} : pc'[u] = pc[u]
    BY TypeParts DEF Micro, Lookup, To, Set, Shape, Typed, PlacesTyped, PerThread
  <1>4. ~Makes(pc[t]) /\ ~Makes(pc'[t])
    BY <1>2 DEF Makes
  <1>5. Seen(pc[t], tile[t], lasttile[t])'
    BY <1>1, <1>2, <1>4, SeenStays
  <1> QED
    BY <1>1, <1>2, <1>3, <1>4, <1>5, MadeKept
-----------------------------------------------------------------------------
\* A tile that is found is the cache's; one that is missed is new.
LEMMA RetrieveDoes ==
    ASSUME Shape, NEW t \in Threads, Retrieve(t)
    PROVE  /\ pc[t] = "retrieve" /\ UNCHANGED <<tilecache, lasttile>>
           /\ \A u \in Threads \ {t} : pc'[u] = pc[u] /\ tile'[u] = tile[u]
           /\ want[t] \in Ids
           /\ \/ /\ pc'[t] = "wait"
                 /\ tilecache[want[t]] # None /\ tile'[t] = tilecache[want[t]]
                 /\ Live' \subseteq Live /\ \A x \in Live' : obj'[x] = obj[x]
              \/ /\ pc'[t] = "insert" /\ tilecache[want[t]] = None
                 /\ tile'[t] \in Objs \ Live
                 /\ Live' \subseteq Live \union {tile'[t]} /\ obj'[tile'[t]] = NewTile
                 /\ \A x \in Live' \ {tile'[t]} : obj'[x] = obj[x]
  <1> USE Names DEF Set, PerThread
  <1>1. ObjsTyped /\ LookupTyped /\ PlacesTyped /\ Fits /\ Named
    BY TypeParts DEF Shape, Typed
  <1> DEFINE id == want[t]
             new == <<id, Min({o[2] : o \in {x \in Objs \ Live : IdOf(x) = id}})>>
  <1>2. pc[t] = "retrieve"
    BY DEF Retrieve
  <1>3. id \in Ids
    BY <1>1, <1>2, Fit DEF FitsAt, LookupPcs
  <1>4. \A u \in Threads \ {t} : pc'[u] = pc[u]
    BY <1>1 DEF Retrieve, To, PlacesTyped
  <1>5. CASE tilecache[id] # None
    <2>1. Refs(tilecache, Set(tile, t, tilecache[id]), lasttile, obj)
      BY <1>5 DEF Retrieve
    <2>2. Older(tilecache, Set(tile, t, tilecache[id]), lasttile)
      BY <1>1, <1>3, <1>5 DEF LiveIn, Live, ObjsTyped, Older
    <2>3. /\ UNCHANGED <<tilecache, lasttile>> /\ tile' = Set(tile, t, tilecache[id])
          /\ Live' \subseteq Live /\ \A x \in Live' : obj'[x] = obj[x]
      BY <1>1, <2>1, <2>2, OlderTyped
    <2>4. pc'[t] = "wait"
      BY <1>1, <1>5 DEF Retrieve, To, PlacesTyped
    <2> QED
      BY <1>1, <1>2, <1>3, <1>4, <1>5, <2>3, <2>4 DEF ObjsTyped
  <1>6. CASE tilecache[id] = None
    <2> DEFINE o2 == [o \in Live \union {new} |-> IF o = new THEN NewTile ELSE obj[o]]
    <2>1. Refs(tilecache, Set(tile, t, new), lasttile, o2)
      BY <1>6 DEF Retrieve
    <2>2. new \in Objs \ Live
      BY <1>1, <1>3, <1>6, FreeName
    <2>3. pc'[t] = "insert"
      BY <1>1, <1>6 DEF Retrieve, To, PlacesTyped
    <2> HIDE DEF new
    <2>4. LiveIn(tilecache, Set(tile, t, new), lasttile) \subseteq Live \union {new}
      BY <1>1 DEF LiveIn, Live, ObjsTyped
    <2>5. /\ UNCHANGED <<tilecache, lasttile>> /\ tile' = Set(tile, t, new)
          /\ obj' = [x \in LiveIn(tilecache, Set(tile, t, new), lasttile) |-> o2[x]]
      BY <2>1 DEF Refs
    <2>6. Live' = LiveIn(tilecache, Set(tile, t, new), lasttile)
      BY <2>5 DEF Live
    <2>7. tile'[t] = new /\ \A u \in Threads \ {t} : tile'[u] = tile[u]
      BY <1>1, <2>5 DEF ObjsTyped
    <2>8. new \in Live'
      BY <2>2, <2>7 DEF Live, LiveIn
    <2>9. obj'[new] = NewTile /\ \A x \in Live' \ {new} : obj'[x] = obj[x]
      BY <2>4, <2>5, <2>6, <2>8
    <2> QED
      BY <1>2, <1>3, <1>4, <1>6, <2>2, <2>3, <2>4, <2>5, <2>6, <2>7, <2>9
  <1> QED
    BY <1>5, <1>6

\* The tile goes into the cache, or is given up for the one that is there.
LEMMA InsertDoes ==
    ASSUME Shape, NEW t \in Threads, Insert(t)
    PROVE  /\ pc[t] = "insert" /\ UNCHANGED lasttile
           /\ \A u \in Threads \ {t} : pc'[u] = pc[u] /\ tile'[u] = tile[u]
           /\ want[t] \in Ids /\ tile[t] # None
           /\ Live' \subseteq Live /\ \A x \in Live' : obj'[x] = obj[x]
           /\ \/ /\ pc'[t] = "read" /\ tile'[t] = tile[t]
                 /\ tilecache[want[t]] = None /\ m_size' = m_size + 1
                 /\ \A i \in Ids : tilecache'[i] = IF i = want[t] THEN tile[t] ELSE tilecache[i]
              \/ /\ pc'[t] = "wait inserted" /\ UNCHANGED <<tilecache, m_size>>
                 /\ tilecache[want[t]] # None /\ tile'[t] = tilecache[want[t]]
  <1> USE Names DEF Set, PerThread
  <1>1. ObjsTyped /\ LookupTyped /\ PlacesTyped /\ Fits /\ Named
    BY TypeParts DEF Shape, Typed
  <1> DEFINE id == want[t]
  <1>2. pc[t] = "insert"
    BY DEF Insert
  <1>3. id \in Ids /\ tile[t] # None
    BY <1>1, <1>2, Fit DEF FitsAt, LookupPcs, TilePcs
  <1>4. \A u \in Threads \ {t} : pc'[u] = pc[u]
    BY <1>1 DEF Insert, To, PlacesTyped
  <1>5. CASE tilecache[id] = None
    <2>1. Refs(Set(tilecache, id, tile[t]), tile, lasttile, obj) /\ m_size' = m_size + 1
      BY <1>5 DEF Insert
    <2>2. Older(Set(tilecache, id, tile[t]), tile, lasttile)
      BY <1>1, <1>3 DEF LiveIn, Live, ObjsTyped, Older
    <2>3. /\ UNCHANGED <<tile, lasttile>> /\ tilecache' = Set(tilecache, id, tile[t])
          /\ Live' \subseteq Live /\ \A x \in Live' : obj'[x] = obj[x]
      BY <1>1, <2>1, <2>2, OlderTyped
    <2>4. pc'[t] = "read"
      BY <1>1, <1>5 DEF Insert, To, PlacesTyped
    <2> QED
      BY <1>1, <1>2, <1>3, <1>4, <1>5, <2>1, <2>3, <2>4 DEF ObjsTyped
  <1>6. CASE tilecache[id] # None
    <2>1. Refs(tilecache, Set(tile, t, tilecache[id]), lasttile, obj) /\ UNCHANGED m_size
      BY <1>6 DEF Insert
    <2>2. Older(tilecache, Set(tile, t, tilecache[id]), lasttile)
      BY <1>1, <1>3, <1>6 DEF LiveIn, Live, ObjsTyped, Older
    <2>3. /\ UNCHANGED <<tilecache, lasttile>> /\ tile' = Set(tile, t, tilecache[id])
          /\ Live' \subseteq Live /\ \A x \in Live' : obj'[x] = obj[x]
      BY <1>1, <2>1, <2>2, OlderTyped
    <2>4. pc'[t] = "wait inserted"
      BY <1>1, <1>6 DEF Insert, To, PlacesTyped
    <2> QED
      BY <1>1, <1>2, <1>3, <1>4, <1>6, <2>1, <2>3, <2>4 DEF ObjsTyped
  <1> QED
    BY <1>5, <1>6

\* Reading the pixels says what the tile's version is, or that it is invalid.
LEMMA ReadPixelsDoes ==
    ASSUME Shape, NEW t \in Threads, ReadPixels(t)
    PROVE  /\ pc[t] = "pixels" /\ pc'[t] = "publish"
           /\ UNCHANGED <<tilecache, tile, lasttile, Live>>
           /\ \A u \in Threads \ {t} : pc'[u] = pc[u]
           /\ tile[t] \in Live
           /\ \A x \in Live : obj'[x].ready = obj[x].ready
           /\ \A x \in Live \ {tile[t]} : obj'[x] = obj[x]
           /\ \/ inp[t] # Closed /\ obj'[tile[t]].ver = inp[t]
              \/ ~obj'[tile[t]].valid
  <1> USE DEF Set, PerThread
  <1>1. ObjsTyped /\ PlacesTyped /\ LookupTyped /\ Fits
    BY TypeParts DEF Shape, Typed
  <1>2. pc[t] = "pixels" /\ pc'[t] = "publish" /\ \A u \in Threads \ {t} : pc'[u] = pc[u]
    BY <1>1 DEF ReadPixels, Goto, To, PlacesTyped
  <1>3. UNCHANGED <<tilecache, tile, lasttile>>
    BY DEF ReadPixels
  <1>4. Live' = Live
    BY <1>3 DEF Live, LiveIn
  <1>5. tile[t] \in Live
    BY <1>1, <1>2, Fit DEF FitsAt, TilePcs, Live, LiveIn, ObjsTyped
  <1>6. \/ /\ inp[t] # Closed
           /\ obj' = [obj EXCEPT ![tile[t]].ver = inp[t], ![tile[t]].size = 1]
        \/ obj' = [obj EXCEPT ![tile[t]].valid = FALSE, ![tile[t]].size = 1]
    BY Zenon DEF ReadPixels
  <1>7. CASE /\ inp[t] # Closed
             /\ obj' = [obj EXCEPT ![tile[t]].ver = inp[t], ![tile[t]].size = 1]
    <2>1. \A x \in Live : obj'[x].ready = obj[x].ready
      BY <1>1, <1>5, <1>7 DEF ObjsTyped, Tile
    <2>2. \A x \in Live \ {tile[t]} : obj'[x] = obj[x]
      BY <1>1, <1>5, <1>7 DEF ObjsTyped
    <2>3. obj'[tile[t]].ver = inp[t]
      BY <1>1, <1>5, <1>7 DEF ObjsTyped, Tile
    <2> QED
      BY <1>2, <1>3, <1>4, <1>5, <1>7, <2>1, <2>2, <2>3
  <1>8. CASE obj' = [obj EXCEPT ![tile[t]].valid = FALSE, ![tile[t]].size = 1]
    <2>1. \A x \in Live : obj'[x].ready = obj[x].ready
      BY <1>1, <1>5, <1>8 DEF ObjsTyped, Tile
    <2>2. \A x \in Live \ {tile[t]} : obj'[x] = obj[x]
      BY <1>1, <1>5, <1>8 DEF ObjsTyped
    <2>3. ~obj'[tile[t]].valid
      BY <1>1, <1>5, <1>8 DEF ObjsTyped, Tile
    <2> QED
      BY <1>2, <1>3, <1>4, <1>5, <2>1, <2>2, <2>3
  <1> QED
    BY <1>6, <1>7, <1>8

\* The tile becomes ready, with the version and the validity that it has.
LEMMA PublishDoes ==
    ASSUME Shape, NEW t \in Threads, Publish(t)
    PROVE  /\ pc[t] = "publish" /\ pc'[t] = "check mem"
           /\ UNCHANGED <<tilecache, tile, lasttile, Live>>
           /\ \A u \in Threads \ {t} : pc'[u] = pc[u]
           /\ tile[t] \in Live /\ obj'[tile[t]].ready
           /\ obj'[tile[t]].ver = obj[tile[t]].ver /\ obj'[tile[t]].valid = obj[tile[t]].valid
           /\ \A x \in Live \ {tile[t]} : obj'[x] = obj[x]
  <1> USE DEF Set, PerThread
  <1>1. ObjsTyped /\ PlacesTyped /\ Fits
    BY TypeParts DEF Shape, Typed
  <1>2. pc[t] = "publish" /\ pc'[t] = "check mem" /\ \A u \in Threads \ {t} : pc'[u] = pc[u]
    BY <1>1 DEF Publish, Goto, To, PlacesTyped
  <1>3. UNCHANGED <<tilecache, tile, lasttile>>
    BY DEF Publish
  <1>4. Live' = Live
    BY <1>3 DEF Live, LiveIn
  <1>5. tile[t] \in Live
    BY <1>1, <1>2, Fit DEF FitsAt, TilePcs, Live, LiveIn, ObjsTyped
  <1>6. \E marked : obj' = [obj EXCEPT ![tile[t]].used = marked, ![tile[t]].ready = TRUE]
    BY DEF Publish
  <1>7. PICK marked : obj' = [obj EXCEPT ![tile[t]].used = marked, ![tile[t]].ready = TRUE]
    BY <1>6
  <1>8. /\ obj'[tile[t]].ready
        /\ obj'[tile[t]].ver = obj[tile[t]].ver /\ obj'[tile[t]].valid = obj[tile[t]].valid
    BY <1>1, <1>5, <1>7 DEF ObjsTyped, Tile
  <1>9. \A x \in Live \ {tile[t]} : obj'[x] = obj[x]
    BY <1>1, <1>5, <1>7 DEF ObjsTyped
  <1> QED
    BY <1>2, <1>3, <1>4, <1>5, <1>8, <1>9
-----------------------------------------------------------------------------
\* A new tile is its maker's alone.
LEMMA RetrieveMade ==
    ASSUME Shape, Shape', Made, NEW t \in Threads, Retrieve(t)
    PROVE  Made'
  <1> USE Names
  <1>1. ObjsTyped /\ ObjsTyped' /\ Fits
    BY TypeParts, Shape' DEF Shape, Typed, TypeOK, ObjsTyped
  <1>2. /\ pc[t] = "retrieve" /\ UNCHANGED <<tilecache, lasttile>>
        /\ \A u \in Threads \ {t} : pc'[u] = pc[u] /\ tile'[u] = tile[u]
        /\ want[t] \in Ids
    BY RetrieveDoes
  <1>3. CASE pc'[t] = "wait"
    <2>1. tile'[t] = tilecache[want[t]] /\ Live' \subseteq Live /\ \A x \in Live' : obj'[x] = obj[x]
      BY <1>3, RetrieveDoes
    <2>2. KeepsTiles /\ Loses
      BY <1>2, <2>1 DEF KeepsTiles, Loses
    <2>3. Seen(pc[t], tile[t], lasttile[t])'
      <3>1. lasttile'[t] # None => lasttile'[t] \in Live'
        BY DEF Live, LiveIn
      <3>2. Seen(pc[t], tile[t], lasttile[t])
        BY DEF Made
      <3> QED
        BY <1>2, <1>3, <2>1, <3>1, <3>2 DEF Seen
    <2> QED
      BY <1>1, <1>2, <1>3, <2>1, <2>2, <2>3, MadeKept DEF Makes
  <1>4. CASE pc'[t] = "insert"
    <2>1. /\ tile'[t] \in Objs \ Live
          /\ Live' \subseteq Live \union {tile'[t]} /\ obj'[tile'[t]] = NewTile
          /\ \A x \in Live' \ {tile'[t]} : obj'[x] = obj[x]
      BY <1>4, RetrieveDoes
    <2>2. /\ \A i \in Ids : tilecache[i] # tile'[t]
          /\ \A u \in Threads : tile[u] # tile'[t] /\ lasttile[u] # tile'[t]
      BY <2>1 DEF Live, LiveIn
    <2>3. ASSUME NEW u \in Threads, pc'[u] = "insert" PROVE Private(u)'
      <3>1. CASE u = t
        BY <1>2, <2>2, <3>1 DEF Private
      <3>2. CASE u # t
        <4>1. pc[u] = "insert" /\ Private(u) /\ tile'[u] = tile[u]
          BY <1>2, <2>3, <3>2 DEF Made
        <4> QED
          BY <1>2, <2>2, <4>1 DEF Private
      <3> QED
        BY <3>1, <3>2
    <2>4. \A u, v \in Threads : Makes(pc'[u]) /\ Makes(pc'[v]) /\ tile'[u] = tile'[v] => u = v
      BY <1>2, <2>2 DEF Made
    <2>5. ASSUME NEW o \in Live', ~obj'[o].ready
          PROVE  \E u \in Threads : Makes(pc'[u]) /\ tile'[u] = o
      <3>1. CASE o = tile'[t]
        BY <1>4, <3>1 DEF Makes
      <3>2. CASE o # tile'[t]
        <4>1. o \in Live /\ ~obj[o].ready
          BY <2>1, <2>5, <3>2
        <4>2. PICK u \in Threads : Makes(pc[u]) /\ tile[u] = o
          BY <4>1 DEF Made
        <4>3. u # t
          BY <1>2, <4>2 DEF Makes
        <4> QED
          BY <1>2, <4>2, <4>3
      <3> QED
        BY <3>1, <3>2
    <2>6. ASSUME NEW u \in Threads PROVE Seen(pc[u], tile[u], lasttile[u])'
      <3>1. Seen(pc[u], tile[u], lasttile[u])
        BY DEF Made
      <3>2. /\ tile'[u] # None => tile'[u] \in Live'
            /\ lasttile'[u] # None => lasttile'[u] \in Live'
        BY DEF Live, LiveIn
      <3>3. CASE u = t
        BY <1>2, <1>4, <2>1, <2>2, <3>1, <3>2, <3>3 DEF Seen, Makes
      <3>4. CASE u # t
        BY <1>2, <2>1, <2>2, <3>1, <3>2, <3>4 DEF Seen
      <3> QED
        BY <3>3, <3>4
    <2> QED
      BY <2>3, <2>4, <2>5, <2>6 DEF Made
  <1> QED
    BY <1>3, <1>4, RetrieveDoes

\* A tile is inserted by its maker, and a tile given up was nobody else's.
LEMMA InsertMade ==
    ASSUME Shape, Shape', Made, NEW t \in Threads, Insert(t)
    PROVE  Made'
  <1> USE Names
  <1>1. ObjsTyped /\ ObjsTyped' /\ Fits
    BY TypeParts, Shape' DEF Shape, Typed, TypeOK, ObjsTyped
  <1>2. /\ pc[t] = "insert" /\ UNCHANGED lasttile
        /\ \A u \in Threads \ {t} : pc'[u] = pc[u] /\ tile'[u] = tile[u]
        /\ want[t] \in Ids /\ tile[t] # None
        /\ Live' \subseteq Live /\ \A x \in Live' : obj'[x] = obj[x]
        /\ pc'[t] \in {"read", "wait inserted"}
        /\ tile'[t] = tile[t] \/ \E i \in Ids : tile'[t] = tilecache[i]
        /\ \A i \in Ids : tilecache'[i] \in {tilecache[i], tile[t]}
    BY InsertDoes
  <1>3. Private(t)
    BY <1>2 DEF Made
  <1>4. ASSUME NEW u \in Threads, pc'[u] = "insert" PROVE Private(u)'
    <2>1. u # t /\ pc[u] = "insert" /\ Private(u) /\ tile'[u] = tile[u]
      BY <1>2, <1>4 DEF Made
    <2>2. tile[t] # tile[u] /\ tile'[t] # tile[u]
      BY <1>2, <2>1 DEF Private
    <2> QED
      BY <1>2, <2>1, <2>2 DEF Private
  <1>5. \A u \in Threads : Makes(pc'[u]) => Makes(pc[u]) /\ tile'[u] = tile[u]
    <2>1. pc'[t] = "wait inserted" \/ tile'[t] = tile[t]
      BY InsertDoes
    <2> QED
      BY <1>2, <2>1 DEF Makes
  <1>6. ASSUME NEW o \in Live', ~obj'[o].ready
        PROVE  \E u \in Threads : Makes(pc'[u]) /\ tile'[u] = o
    <2>1. PICK u \in Threads : Makes(pc[u]) /\ tile[u] = o
      BY <1>2, <1>6 DEF Made
    <2>2. CASE u # t
      BY <1>2, <2>1, <2>2
    <2>3. CASE u = t /\ pc'[t] = "read"
      BY <2>1, <2>3, InsertDoes DEF Makes
    <2>4. CASE u = t /\ pc'[t] = "wait inserted"
      <3>1. /\ UNCHANGED <<tilecache, lasttile>>
            /\ \E i \in Ids : tile'[t] = tilecache[i]
        BY <2>4, InsertDoes
      <3>2. /\ \A i \in Ids : tilecache'[i] # o
            /\ \A v \in Threads : tile'[v] # o /\ lasttile'[v] # o
        <4>1. o = tile[t]
          BY <2>1, <2>4
        <4>2. /\ \A i \in Ids : tilecache[i] # o
              /\ \A v \in Threads : lasttile[v] # o /\ (v # t => tile[v] # o)
          BY <1>3, <4>1 DEF Private
        <4> QED
          BY <1>2, <3>1, <4>2
      <3> QED
        BY <1>6, <3>2 DEF Live, LiveIn
    <2> QED
      BY <1>2, <2>2, <2>3, <2>4
  <1>7. ASSUME NEW u \in Threads PROVE Seen(pc[u], tile[u], lasttile[u])'
    <2>1. Seen(pc[u], tile[u], lasttile[u])
      BY DEF Made
    <2>2. /\ tile'[u] # None => tile'[u] \in Live'
          /\ lasttile'[u] # None => lasttile'[u] \in Live'
      BY DEF Live, LiveIn
    <2>3. CASE u = t
      BY <1>2, <2>1, <2>2, <2>3 DEF Seen, Makes
    <2>4. CASE u # t
      <3>1. pc'[u] = pc[u] /\ tile'[u] = tile[u] /\ lasttile'[u] = lasttile[u]
        BY <1>2, <2>4
      <3>2. \A x \in Live' : obj'[x] = obj[x]
        BY <1>2
      <3> HIDE Names
      <3> QED
        BY <2>1, <2>2, <3>1, <3>2 DEF Seen
    <2> QED
      BY <2>3, <2>4
  <1>8. \A u, v \in Threads : Makes(pc'[u]) /\ Makes(pc'[v]) /\ tile'[u] = tile'[v] => u = v
    BY <1>5 DEF Made
  <1> QED
    BY <1>4, <1>6, <1>7, <1>8 DEF Made

\* The maker reads its tile, and makes it ready.
LEMMA ReadMade ==
    ASSUME Shape, Shape', Made, NEW t \in Threads, ReadPixels(t) \/ Publish(t)
    PROVE  Made'
  <1> USE Names
  <1>1. /\ UNCHANGED <<tilecache, tile, lasttile, Live>>
        /\ \A u \in Threads \ {t} : pc'[u] = pc[u]
        /\ Makes(pc[t]) /\ pc[t] # "insert" /\ pc'[t] \in {"publish", "check mem"}
        /\ \A x \in Live : obj[x].ready => obj'[x].ready
        /\ \A x \in Live \ {tile[t]} : obj'[x].ready = obj[x].ready
        /\ pc'[t] = "check mem" => obj'[tile[t]].ready
        /\ tile[t] \in Live
    <2>1. CASE ReadPixels(t)
      BY <2>1, ReadPixelsDoes DEF Makes
    <2>2. CASE Publish(t)
      BY <2>2, PublishDoes DEF Makes
    <2> QED
      BY <2>1, <2>2
  <1>2. \A u \in Threads : pc'[u] = "insert" => Private(u)'
    <2>1. ASSUME NEW u \in Threads, pc'[u] = "insert" PROVE u # t /\ pc[u] = "insert"
      BY <1>1, <2>1
    <2> QED
      BY <1>1, <2>1 DEF Made, Private
  <1>3. \A u \in Threads : Makes(pc'[u]) => Makes(pc[u]) /\ tile'[u] = tile[u]
    BY <1>1
  <1>4. ASSUME NEW o \in Live', ~obj'[o].ready
        PROVE  \E u \in Threads : Makes(pc'[u]) /\ tile'[u] = o
    <2>1. o \in Live /\ ~obj[o].ready
      BY <1>1, <1>4
    <2>2. PICK u \in Threads : Makes(pc[u]) /\ tile[u] = o
      BY <2>1 DEF Made
    <2>3. u = t => pc'[t] = "publish"
      BY <1>1, <1>4, <2>2
    <2> QED
      BY <1>1, <2>2, <2>3 DEF Makes
  <1>5. ASSUME NEW u \in Threads PROVE Seen(pc[u], tile[u], lasttile[u])'
    <2>1. Seen(pc[u], tile[u], lasttile[u])
      BY DEF Made
    <2>2. /\ tile[u] # None => tile[u] \in Live
          /\ lasttile[u] # None => lasttile[u] \in Live
      BY DEF Live, LiveIn
    <2>3. CASE u = t
      BY <1>1, <2>1, <2>2, <2>3 DEF Seen, Makes
    <2>4. CASE u # t
      BY <1>1, <2>1, <2>2, <2>4 DEF Seen
    <2> QED
      BY <2>3, <2>4
  <1>6. \A u, v \in Threads : Makes(pc'[u]) /\ Makes(pc'[v]) /\ tile'[u] = tile'[v] => u = v
    BY <1>3 DEF Made
  <1> QED
    BY <1>2, <1>4, <1>5, <1>6 DEF Made

\* Made outlasts every step.
LEMMA NextMade ==
    ASSUME Shape, Shape', Made, [Next]_vars
    PROVE  Made'
  <1>1. ASSUME NEW t \in Threads, Step(t) PROVE Made'
    <2>1. \/ Bystands(t) \/ Erases(t) \/ Micro(t) \/ Retrieve(t) \/ Insert(t)
          \/ ReadPixels(t) \/ Publish(t)
      BY <1>1 DEF Step, Bystands, Erases
    <2> QED
      BY <2>1, BystandsMade, ErasesMade, MicroMade, RetrieveMade, InsertMade, ReadMade
  <1>2. ASSUME NEW t \in Threads, NEW id \in Ids, Lookup(t, id) PROVE Made'
    BY <1>2, MicroMade
  <1>3. ASSUME NEW t \in Threads, NEW f \in Files, Invalidate(t, f) PROVE Made'
    BY <1>3, BystandsMade DEF Bystands
  <1>4. ASSUME NEW t \in Threads, InvalidateAll(t) PROVE Made'
    BY <1>4, BystandsMade DEF Bystands
  <1>5. CASE UNCHANGED vars \/ \E f \in Files : Modify(f)
    <2>1. UNCHANGED <<tilecache, tile, lasttile, obj, pc>>
      BY <1>5 DEF Modify, vars, shared
    <2>2. Live' = Live
      BY <2>1 DEF Live, LiveIn
    <2>3. (\A t \in Threads : pc[t] = "insert" => Private(t))'
      BY <2>1 DEF Made, Private
    <2>4. (\A t, u \in Threads : Makes(pc[t]) /\ Makes(pc[u]) /\ tile[t] = tile[u] => t = u)'
      BY <2>1 DEF Made
    <2>5. (\A o \in Live : ~obj[o].ready => \E t \in Threads : Makes(pc[t]) /\ tile[t] = o)'
      BY <2>1, <2>2 DEF Made
    <2>6. (\A t \in Threads : Seen(pc[t], tile[t], lasttile[t]))'
      BY <2>1 DEF Made, Seen
    <2> QED
      BY <2>3, <2>4, <2>5, <2>6 DEF Made
  <1> QED
    BY <1>1, <1>2, <1>3, <1>4, <1>5 DEF Next

\* Made holds at the beginning.
LEMMA InitMade == Init => Made
  BY DEF Init, Made, Private, Seen, Makes, Live, LiveIn

\* A tile in the cache, or waited for, that is not ready has one thread that
\* reads it and will make it ready: no wait is for a tile that nobody reads,
\* and no tile is read twice.
THEOREM OneReader == Spec => []UnreadyHasOneReader
  <1>1. ASSUME Shape, Made PROVE UnreadyHasOneReader
    <2> SUFFICES ASSUME NEW o \in Live, ~obj[o].ready,
                        \/ o \in {tilecache[i] : i \in Ids}
                        \/ \E t \in Threads : tile[t] = o /\ pc[t] \in {"wait", "wait inserted"}
                 PROVE  Cardinality({t \in Threads : Reading(t) /\ tile[t] = o}) = 1
      BY DEF UnreadyHasOneReader
    <2>1. PICK t \in Threads : Makes(pc[t]) /\ tile[t] = o
      BY <1>1 DEF Made
    <2>2. pc[t] # "insert"
      <3>1. ASSUME pc[t] = "insert" PROVE FALSE
        <4>1. Private(t)
          BY <1>1, <3>1 DEF Made
        <4>2. ~\E i \in Ids : o = tilecache[i]
          BY <2>1, <4>1 DEF Private
        <4>3. ASSUME NEW u \in Threads, tile[u] = o, pc[u] \in {"wait", "wait inserted"}
              PROVE  FALSE
          BY <2>1, <3>1, <4>1, <4>3 DEF Private
        <4> QED
          BY <4>2, <4>3
      <3> QED
        BY <3>1
    <2>3. Reading(t)
      BY <2>1, <2>2 DEF Makes, Reading
    <2>4. \A u \in Threads : Reading(u) /\ tile[u] = o => u = t
      BY <1>1, <2>1 DEF Made, Makes, Reading
    <2>5. {u \in Threads : Reading(u) /\ tile[u] = o} = {t}
      BY <2>1, <2>3, <2>4
    <2> QED
      BY <2>5, FS_Singleton
  <1>2. Shape /\ Made /\ [Next]_vars => (Shape /\ Made)'
    BY NextShape, NextMade
  <1> QED
    BY <1>1, <1>2, InitShape, InitMade, PTL DEF Spec
-----------------------------------------------------------------------------
(* Verdict: what a sweep erases, when no lookup overlaps an invalidation.  *)

\* A call goes on as what it began as.
LEMMA StepGoes ==
    ASSUME Shape, NEW t \in Threads, Step(t)
    PROVE  /\ \A u \in Threads \ {t} : pc'[u] = pc[u]
           /\ LookingUp(t)' => LookingUp(t)
           /\ Invalidating(t)' => Invalidating(t)
  <1>1. pc \in [Threads -> Places]
    BY TypeParts DEF Shape, Typed, PlacesTyped, PerThread
  <1> USE DEF LookingUp, Invalidating, InvalidationPcs, To, Goto, Set
  <1>2. CASE \/ Micro(t) \/ Retrieve(t) \/ WaitFound(t) \/ Insert(t) \/ WaitInserted(t)
             \/ OpenInput(t)
    BY <1>1, <1>2 DEF Micro, Retrieve, WaitFound, Insert, WaitInserted, OpenInput
  <1>3. CASE ReadPixels(t) \/ Publish(t) \/ Answer(t) \/ CheckMem(t) \/ FindHand(t) \/ SweepHead(t)
    BY <1>1, <1>3 DEF ReadPixels, Publish, Answer, CheckMem, FindHand, SweepHead
  <1>4. CASE EnterBin(t) \/ Look(t)
    BY <1>1, <1>4 DEF EnterBin, Look, StopAt
  <1>5. CASE Evict(t) \/ Finish(t) \/ Purge(t)
    BY <1>1, <1>5 DEF Evict, Finish, Purge
  <1>6. CASE Collect(t) \/ EraseId(t) \/ ClearBin(t) \/ \E f \in Files : CloseFile(t, f)
    BY <1>1, <1>6 DEF Collect, EraseId, ClearBin, CloseFile
  <1> QED
    BY <1>2, <1>3, <1>4, <1>5, <1>6 DEF Step

\* With Quiet, no step makes a lookup and an invalidation overlap.
LEMMA NextCalm ==
    ASSUME Quiet, Shape, Calm, [Next]_vars
    PROVE  Calm'
  <1>1. pc \in [Threads -> Places]
    BY TypeParts DEF Shape, Typed, PlacesTyped, PerThread
  <1>2. ASSUME NEW t \in Threads, Step(t) PROVE Calm'
    <2>1. ASSUME NEW u \in Threads
          PROVE  (LookingUp(u)' => LookingUp(u)) /\ (Invalidating(u)' => Invalidating(u))
      BY <1>2, StepGoes DEF LookingUp, Invalidating
    <2> QED
      BY <2>1 DEF Calm
  <1>3. ASSUME NEW t \in Threads, NEW id \in Ids, Lookup(t, id) PROVE Calm'
    <2>1. /\ \A u \in Threads : ~Invalidating(u)
          /\ \A u \in Threads \ {t} : pc'[u] = pc[u]
          /\ pc'[t] \in {"idle", "micro"}
      BY <1>1, <1>3 DEF Lookup, To, Set
    <2>2. \A u \in Threads : ~Invalidating(u)'
      BY <2>1 DEF Invalidating, InvalidationPcs
    <2> QED
      BY <2>2 DEF Calm
  <1>4. ASSUME NEW t \in Threads, MayInvalidate(t), NEW p \in InvalidationPcs, To(t, p) PROVE Calm'
    <2>1. /\ \A u \in Threads : ~LookingUp(u)
          /\ \A u \in Threads \ {t} : pc'[u] = pc[u]
          /\ pc'[t] \in InvalidationPcs
      BY <1>1, <1>4 DEF MayInvalidate, To, Set
    <2>2. \A u \in Threads : ~LookingUp(u)'
      BY <2>1 DEF LookingUp, Invalidating
    <2> QED
      BY <2>2 DEF Calm
  <1>5. ASSUME NEW t \in Threads, NEW f \in Files, Invalidate(t, f) PROVE Calm'
    BY <1>4, <1>5 DEF Invalidate, InvalidationPcs
  <1>6. ASSUME NEW t \in Threads, InvalidateAll(t) PROVE Calm'
    <2>1. MayInvalidate(t) /\ (To(t, "close files") \/ To(t, "clear"))
      BY <1>6 DEF InvalidateAll
    <2> QED
      BY <1>4, <2>1 DEF InvalidationPcs
  <1>7. CASE UNCHANGED vars \/ \E f \in Files : Modify(f)
    <2>1. UNCHANGED pc
      BY <1>7 DEF Modify, vars
    <2> QED
      BY <2>1 DEF Calm, LookingUp, Invalidating
  <1> QED
    BY <1>2, <1>3, <1>5, <1>6, <1>7 DEF Next

\* What lookups do that neither erases nor bystands.
Finds(t) == \/ Micro(t) \/ Retrieve(t) \/ Insert(t) \/ ReadPixels(t) \/ Publish(t)
            \/ \E id \in Ids : Lookup(t, id)

\* Only erasing takes an entry away, and a tile that is ready stays so.
LEMMA EntriesStay ==
    ASSUME Shape, NEW t \in Threads, Bystands(t) \/ Finds(t),
           NEW i \in Ids, tilecache[i] # None
    PROVE  /\ tilecache'[i] = tilecache[i]
           /\ obj[tilecache[i]].ready => obj'[tilecache[i]].ready
  <1>1. ASSUME tilecache'[i] = tilecache[i] PROVE tilecache[i] \in Live'
    BY <1>1 DEF Live, LiveIn
  <1>2. tilecache[i] \in Live
    BY DEF Live, LiveIn
  <1>3. ASSUME KeepsTiles, UNCHANGED tilecache
        PROVE  /\ tilecache'[i] = tilecache[i]
               /\ obj[tilecache[i]].ready => obj'[tilecache[i]].ready
    BY <1>1, <1>3 DEF KeepsTiles
  <1>4. CASE Bystands(t) \/ Micro(t) \/ \E id \in Ids : Lookup(t, id)
    BY <1>3, <1>4, BystandsKeeps, MicroKeeps, LookupKeeps
  <1>5. CASE Retrieve(t)
    BY <1>1, <1>2, <1>5, RetrieveDoes
  <1>6. CASE Insert(t)
    <2>1. tilecache'[i] = tilecache[i]
      BY <1>6, InsertDoes
    <2> QED
      BY <1>1, <1>6, <2>1, InsertDoes
  <1>7. CASE ReadPixels(t)
    BY <1>2, <1>7, ReadPixelsDoes
  <1>8. CASE Publish(t)
    BY <1>2, <1>8, PublishDoes
  <1> QED
    BY <1>4, <1>5, <1>6, <1>7, <1>8 DEF Finds

\* A sweep's verdict is its own, and is passed on tiles in the cache.
LEMMA DoomedMoves ==
    ASSUME Shape, NEW t \in Threads, Bystands(t) \/ Erases(t) \/ Finds(t)
    PROVE  \A u \in Threads \ {t} : doomed'[u] = doomed[u]
  <1>1. doomed \in [Threads -> MaybeId]
    BY TypeParts DEF Shape, Typed, SweepTyped, PerThread
  <1>2. CASE Look(t) \/ Evict(t)
    BY <1>1, <1>2 DEF Look, Evict, Set
  <1>3. \/ Look(t) \/ Evict(t) \/ UNCHANGED doomed
    BY DEF Bystands, Erases, Finds, Micro, Retrieve, WaitFound, Insert, WaitInserted, OpenInput,
       ReadPixels, Publish, Answer, CheckMem, FindHand, SweepHead, EnterBin, Finish, EraseId,
       Collect, ClearBin, Purge, CloseFile, Invalidate, InvalidateAll, Lookup, sweep, inval
  <1> QED
    BY <1>2, <1>3

\* A thread that steps has, afterwards, doomed only a tile that is there and ready.
LEMMA OwnVerdict ==
    ASSUME Shape, Shape', IteratorValid, Verdict, NEW t \in Threads,
           Bystands(t) \/ Erases(t) \/ Finds(t),
           pc'[t] \in {"next", "evict"}, doomed'[t] # None
    PROVE  tilecache'[doomed'[t]] # None /\ obj'[tilecache'[doomed'[t]]].ready
  <1>1. PlacesTyped /\ SweepTyped /\ ObjsTyped /\ Fits
    BY TypeParts DEF Shape, Typed
  <1> USE DEF Set, PerThread
  <1>2. EnterBin(t) \/ Look(t)
    <2>1. CASE Erases(t)
      BY <2>1, ErasesGoes
    <2>2. CASE Micro(t) \/ \E id \in Ids : Lookup(t, id)
      BY <2>2, MicroKeeps, LookupKeeps
    <2>3. CASE Retrieve(t) \/ Insert(t) \/ ReadPixels(t) \/ Publish(t)
      BY <2>3, RetrieveDoes, InsertDoes, ReadPixelsDoes, PublishDoes
    <2>4. CASE Bystands(t)
      <3>1. CASE WaitFound(t) \/ WaitInserted(t) \/ OpenInput(t) \/ Answer(t) \/ FindHand(t)
                 \/ Finish(t) \/ Purge(t)
        BY <1>1, <3>1 DEF WaitFound, WaitInserted, OpenInput, Answer, FindHand, Finish, Purge,
           Goto, To, PlacesTyped
      <3>2. CASE CheckMem(t) \/ SweepHead(t) \/ Collect(t) \/ InvalidateAll(t)
                 \/ \E f \in Files : CloseFile(t, f) \/ Invalidate(t, f)
        BY <1>1, <3>2 DEF CheckMem, SweepHead, Collect, InvalidateAll, CloseFile, Invalidate,
           To, PlacesTyped
      <3> QED
        BY <2>4, <3>1, <3>2 DEF Bystands
    <2> QED
      BY <2>1, <2>2, <2>3, <2>4 DEF Finds
  <1>3. Bystands(t)
    BY <1>2 DEF Bystands
  <1>4. CASE EnterBin(t)
    <2>1. doomed'[t] = doomed[t] /\ pc[t] \in {"begin", "next"}
      BY <1>4 DEF EnterBin
    <2>2. pc[t] = "next"
      BY <1>1, <2>1, Fit DEF FitsAt
    <2>3. tilecache[doomed[t]] # None /\ obj[tilecache[doomed[t]]].ready
      BY <2>1, <2>2 DEF Verdict
    <2>4. doomed[t] \in Ids
      BY <1>1, <2>1 DEF SweepTyped, MaybeId
    <2> QED
      BY <1>3, <2>1, <2>3, <2>4, EntriesStay
  <1>5. CASE Look(t)
    <2>1. pc[t] = "look"
      BY <1>5 DEF Look
    <2>2. key[t] \in Ids
      BY <1>1, <2>1, Fit DEF FitsAt, SweepTyped, MaybeId
    <2>3. tilecache[key[t]] # None
      BY <2>2, Names DEF IteratorValid
    <2>4. doomed'[t] = key[t] /\ ~Kept(tilecache[key[t]])
      BY <1>1, <1>5 DEF Look, SweepTyped
    <2>5. obj[tilecache[key[t]]].ready
      BY <2>4 DEF Kept
    <2> QED
      BY <1>3, <2>2, <2>3, <2>4, <2>5, EntriesStay
  <1> QED
    BY <1>2, <1>4, <1>5

\* There is one sweep at a time, and no invalidation meanwhile: what is
\* doomed stays in the cache until its sweep erases it.
LEMMA StepVerdict ==
    ASSUME Shape, Shape', IteratorValid, Calm, Verdict, NEW t \in Threads,
           Bystands(t) \/ Erases(t) \/ Finds(t)
    PROVE  Verdict'
  <1> SUFFICES ASSUME NEW u \in Threads, pc'[u] \in {"next", "evict"}, doomed'[u] # None
               PROVE  tilecache'[doomed'[u]] # None /\ obj'[tilecache'[doomed'[u]]].ready
    BY DEF Verdict
  <1>1. CASE u = t
    BY <1>1, OwnVerdict
  <1>2. CASE u # t
    <2>1. PlacesTyped /\ SweepTyped /\ Fits
      BY TypeParts DEF Shape, Typed
    <2>2. pc'[u] = pc[u] /\ doomed'[u] = doomed[u]
      <3>1. pc'[u] = pc[u]
        BY <1>2, BystandsGoes, ErasesGoes, RetrieveDoes, InsertDoes, ReadPixelsDoes,
           PublishDoes, TypeParts DEF Finds, Micro, Lookup, To, Set, PlacesTyped, PerThread,
           Shape, Typed
      <3> QED
        BY <1>2, <3>1, DoomedMoves
    <2>3. tilecache[doomed[u]] # None /\ obj[tilecache[doomed[u]]].ready /\ doomed[u] \in Ids
      BY <2>1, <2>2 DEF Verdict, SweepTyped, MaybeId, PerThread
    <2>4. CASE Erases(t)
      <3>1. LookingUp(u) /\ sweepMutex = u
        BY <2>1, <2>2, Fit DEF LookingUp, Invalidating, InvalidationPcs, FitsAt, SweepPcs
      <3>2. pc[t] = "evict"
        BY <2>4, <3>1, ErasesGoes DEF Calm, Invalidating, InvalidationPcs
      <3>3. sweepMutex = t
        BY <2>1, <3>2, Fit DEF FitsAt, SweepPcs
      <3> QED
        BY <1>2, <3>1, <3>3
    <2>5. CASE Bystands(t) \/ Finds(t)
      BY <2>2, <2>3, <2>5, EntriesStay
    <2> QED
      BY <2>4, <2>5
  <1> QED
    BY <1>1, <1>2

\* What any step is to the tiles.
LEMMA NextDoes ==
    ASSUME [Next]_vars
    PROVE  \/ \E t \in Threads : Bystands(t) \/ Erases(t) \/ Finds(t)
           \/ UNCHANGED vars \/ \E f \in Files : Modify(f)
  BY DEF Next, Step, Bystands, Erases, Finds

\* Nobody else erases a tile that a sweep has doomed, when all is Calm.
LEMMA NextVerdict ==
    ASSUME Shape, Shape', IteratorValid, Calm, Verdict, [Next]_vars
    PROVE  Verdict'
  <1>1. CASE UNCHANGED vars \/ \E f \in Files : Modify(f)
    <2>1. UNCHANGED <<tilecache, obj, pc, doomed>>
      BY <1>1 DEF Modify, vars, shared, sweep
    <2> QED
      BY <2>1 DEF Verdict
  <1> QED
    BY <1>1, NextDoes, StepVerdict

\* Calm and Verdict hold at the beginning.
LEMMA InitVerdict == Init => Calm /\ Verdict
  BY DEF Init, Calm, Verdict, LookingUp

\* When no lookup overlaps an invalidation, what a sweep erases is in the
\* cache and ready, although the bin was free between verdict and erasure.
THEOREM SweepErasesReadTiles ==
    ASSUME Quiet
    PROVE  Spec => EvictsOnlyReadTiles
  <1> DEFINE Inv == Shape /\ IteratorValid /\ Calm /\ Verdict
  <1>1. Init => Inv
    BY InitShape, InitVerdict DEF Init, IteratorValid
  <1>2. Inv /\ [Next]_vars => Inv'
    BY NextShape, NextHeld, NextCalm, NextVerdict
  <1>3. ASSUME Inv
        PROVE  [\A t \in Threads : pc[t] = "evict" /\ pc'[t] # "evict"
                  => tilecache[doomed[t]] # None /\ obj[tilecache[doomed[t]]].ready]_vars
    <2>1. ASSUME NEW t \in Threads, pc[t] = "evict"
          PROVE  tilecache[doomed[t]] # None /\ obj[tilecache[doomed[t]]].ready
      BY <1>3, <2>1, Fit DEF Verdict, FitsAt, Shape
    <2> QED
      BY <2>1
  <1> QED
    BY <1>1, <1>2, <1>3, PTL DEF Spec, EvictsOnlyReadTiles
-----------------------------------------------------------------------------
(* Counted: the entry count, when one thread makes all the calls that      *)
(* invalidate and no lookup overlaps them.                                 *)

\* The cache has finitely many entries.
LEMMA EntriesFinite ==
    IsFiniteSet(Entries) /\ Entries \subseteq Ids /\ Cardinality(Entries) \in Nat
  <1>1. IsFiniteSet(Ids)
    BY Names, FS_Interval DEF Ids
  <1>2. Entries \subseteq Ids
    BY DEF Entries
  <1> QED
    BY <1>1, <1>2, FS_Subset, FS_CardinalityType

\* Whose todo list a step changes, and how it may when tiles are to be erased.
LEMMA TodoMoves ==
    ASSUME Shape, NEW t \in Threads, Bystands(t) \/ Erases(t) \/ Finds(t)
    PROVE  /\ \A u \in Threads \ {t} : pc'[u] = pc[u] /\ todo'[u] = todo[u]
           /\ pc'[t] \in ErasePcs =>
                 \/ pc[t] = "idle" /\ todo'[t] = {}
                 \/ pc[t] = "collect" /\ todo'[t] \subseteq todo[t] \union Entries /\ Bystands(t)
                 \/ pc[t] = "erase ids" /\ todo'[t] = todo[t] \ Taken(t) /\ EraseId(t)
  <1>1. PlacesTyped /\ SweepTyped /\ Fits
    BY TypeParts DEF Shape, Typed
  <1> USE DEF Set, PerThread, ErasePcs
  <1>2. CASE Collect(t)
    <2>1. /\ \A u \in Threads \ {t} : pc'[u] = pc[u] /\ todo'[u] = todo[u]
          /\ pc[t] = "collect" /\ Bystands(t)
      BY <1>1, <1>2 DEF Collect, To, Bystands, PlacesTyped, SweepTyped
    <2>2. InBin(enter[t]) \subseteq Entries
      BY DEF InBin, Entries
    <2> DEFINE all == todo[t] \union {i \in InBin(enter[t]) : FileOf[i] \in target[t]}
               last == enter[t] = NBins
    <2>3. todo' = [todo EXCEPT ![t] = IF last /\ all = {} THEN target[t] ELSE all]
      BY <1>2 DEF Collect
    <2>4. pc' = [pc EXCEPT ![t] = IF ~last THEN "collect"
                                   ELSE IF all = {} THEN "close files" ELSE "erase ids"]
      BY <1>2 DEF Collect, To
    <2> HIDE DEF last
    <2>5. pc'[t] \in ErasePcs => ~(last /\ all = {})
      BY <1>1, <2>4 DEF PlacesTyped
    <2>6. pc'[t] \in ErasePcs => todo'[t] = all
      BY <1>1, <2>3, <2>5 DEF SweepTyped
    <2> QED
      BY <2>1, <2>2, <2>6
  <1>3. CASE EraseId(t)
    <2> DEFINE i == Min(todo[t])
    <2>1. /\ \A u \in Threads \ {t} : pc'[u] = pc[u] /\ todo'[u] = todo[u]
          /\ pc[t] = "erase ids"
      BY <1>1, <1>3 DEF EraseId, To, PlacesTyped, SweepTyped
    <2>2. todo' = [todo EXCEPT ![t] = IF todo[t] = {i} THEN target[t] ELSE todo[t] \ {i}]
      BY <1>3 DEF EraseId
    <2>3. pc' = [pc EXCEPT ![t] = IF todo[t] = {i} THEN "close files" ELSE "erase ids"]
      BY <1>3 DEF EraseId, To
    <2>4. Taken(t) = {i}
      BY <2>1 DEF Taken
    <2> HIDE DEF i
    <2>5. pc'[t] \in ErasePcs => todo[t] # {i}
      BY <1>1, <2>3 DEF PlacesTyped
    <2>6. pc'[t] \in ErasePcs => todo'[t] = todo[t] \ {i}
      BY <1>1, <2>2, <2>5 DEF SweepTyped
    <2> QED
      BY <1>3, <2>1, <2>4, <2>6
  <1>4. CASE \E f \in Files : Invalidate(t, f)
    <2>1. /\ \A u \in Threads \ {t} : pc'[u] = pc[u]
          /\ pc[t] = "idle" /\ todo' = todo
      BY <1>1, <1>4 DEF Invalidate, MayInvalidate, To, PlacesTyped
    <2>2. todo[t] = {}
      BY <1>1, <2>1, Fit DEF FitsAt
    <2> QED
      BY <2>1, <2>2
  <1>5. CASE Evict(t) \/ ClearBin(t)
    <2>1. \A u \in Threads \ {t} : todo'[u] = todo[u]
      BY <1>1, <1>5 DEF Evict, ClearBin, inval, SweepTyped
    <2>2. \A u \in Threads \ {t} : pc'[u] = pc[u]
      BY <1>1, <1>5 DEF Evict, ClearBin, To, PlacesTyped
    <2>3. pc'[t] \notin ErasePcs
      BY <1>1, <1>5 DEF Evict, ClearBin, To, PlacesTyped
    <2> QED
      BY <2>1, <2>2, <2>3
  <1>6. CASE InvalidateAll(t) \/ \E f \in Files : CloseFile(t, f)
    <2>1. \A u \in Threads \ {t} : todo'[u] = todo[u]
      BY <1>1, <1>6 DEF CloseFile, InvalidateAll, SweepTyped
    <2>2. \A u \in Threads \ {t} : pc'[u] = pc[u]
      BY <1>1, <1>6 DEF CloseFile, InvalidateAll, To, PlacesTyped
    <2>3. pc'[t] \notin ErasePcs
      BY <1>1, <1>6 DEF CloseFile, InvalidateAll, To, PlacesTyped
    <2> QED
      BY <2>1, <2>2, <2>3
  <1>7. CASE \/ WaitFound(t) \/ WaitInserted(t) \/ OpenInput(t) \/ Answer(t) \/ CheckMem(t)
             \/ FindHand(t) \/ SweepHead(t) \/ EnterBin(t) \/ Look(t) \/ Finish(t) \/ Purge(t)
    <2>1. UNCHANGED todo
      BY <1>7 DEF WaitFound, WaitInserted, OpenInput, Answer, CheckMem, FindHand, SweepHead,
         EnterBin, Look, Finish, Purge, inval
    <2>2. \A u \in Threads \ {t} : pc'[u] = pc[u]
      BY <1>1, <1>7, BystandsGoes DEF Bystands
    <2>3. pc'[t] \notin ErasePcs
      <3>1. CASE \/ WaitFound(t) \/ WaitInserted(t) \/ OpenInput(t) \/ Answer(t) \/ CheckMem(t)
                 \/ FindHand(t) \/ SweepHead(t) \/ Finish(t) \/ Purge(t)
        BY <1>1, <3>1 DEF WaitFound, WaitInserted, OpenInput, Answer, CheckMem, FindHand,
           SweepHead, Finish, Purge, Goto, To, PlacesTyped
      <3>2. CASE EnterBin(t) \/ Look(t)
        BY <1>1, <3>2 DEF EnterBin, Look, StopAt, To, PlacesTyped
      <3> QED
        BY <1>7, <3>1, <3>2
    <2> QED
      BY <2>1, <2>2, <2>3
  <1>8. CASE Finds(t)
    <2>1. UNCHANGED todo
      BY <1>8 DEF Finds, Micro, Retrieve, Insert, ReadPixels, Publish, Lookup, inval
    <2>2. \A u \in Threads \ {t} : pc'[u] = pc[u]
      BY <1>1, <1>8 DEF Finds, Micro, Retrieve, Insert, ReadPixels, Publish, Lookup, Goto, To,
         PlacesTyped
    <2>3. pc'[t] \notin ErasePcs
      BY <1>8, MicroKeeps, LookupKeeps, RetrieveDoes, InsertDoes, ReadPixelsDoes, PublishDoes
         DEF Finds
    <2> QED
      BY <2>1, <2>2, <2>3
  <1> QED
    BY <1>2, <1>3, <1>4, <1>5, <1>6, <1>7, <1>8 DEF Bystands, Erases

\* Who counts: inserting, and erasing what is there.
LEMMA SizeKept ==
    ASSUME Shape, Shape', IteratorValid, Verdict, Counted, NEW t \in Threads,
           Bystands(t) \/ Erases(t) \/ Finds(t)
    PROVE  SizeIsEntryCount'
  <1>1. m_size = Cardinality(Entries) /\ m_size \in Int
    BY TypeParts DEF Counted, SizeIsEntryCount, Shape, Typed, CountsTyped
  <1>2. CASE UNCHANGED <<tilecache, m_size>>
    BY <1>1, <1>2 DEF SizeIsEntryCount, Entries
  <1>3. CASE Bystands(t)
    <2>1. UNCHANGED m_size
      BY <1>3 DEF Bystands, WaitFound, WaitInserted, OpenInput, Answer, CheckMem, FindHand,
         SweepHead, EnterBin, Look, Finish, Collect, Purge, CloseFile, Invalidate, InvalidateAll,
         shared
    <2> QED
      BY <1>2, <1>3, <2>1, BystandsKeeps
  <1>4. CASE Finds(t) /\ ~Insert(t)
    <2>1. UNCHANGED m_size
      BY <1>4 DEF Finds, Micro, Retrieve, ReadPixels, Publish, Lookup
    <2>2. UNCHANGED tilecache
      BY <1>4, MicroKeeps, LookupKeeps, RetrieveDoes, ReadPixelsDoes, PublishDoes DEF Finds
    <2> QED
      BY <1>2, <2>1, <2>2
  <1>5. CASE Insert(t)
    <2>1. CASE UNCHANGED <<tilecache, m_size>>
      BY <1>2, <2>1
    <2>2. CASE /\ tilecache[want[t]] = None /\ m_size' = m_size + 1
               /\ \A i \in Ids : tilecache'[i] = IF i = want[t] THEN tile[t] ELSE tilecache[i]
      <3>1. want[t] \in Ids /\ tile[t] # None
        BY <1>5, InsertDoes
      <3>2. Entries' = Entries \union {want[t]} /\ want[t] \notin Entries
        BY <2>2, <3>1 DEF Entries
      <3>3. Cardinality(Entries \union {want[t]}) = Cardinality(Entries) + 1
        BY <3>2, EntriesFinite, FS_AddElement
      <3> QED
        BY <1>1, <2>2, <3>2, <3>3 DEF SizeIsEntryCount
    <2> QED
      BY <1>5, <2>1, <2>2, InsertDoes
  <1>6. ASSUME NEW i \in Entries, Taken(t) = {i}, m_size' = m_size - 1, Erases(t)
        PROVE  SizeIsEntryCount'
    <2>1. \A j \in Ids : tilecache'[j] = IF j \in Taken(t) THEN None ELSE tilecache[j]
      BY <1>6, ErasesKeeps
    <2>2. Entries' = Entries \ {i}
      BY <1>6, <2>1 DEF Entries
    <2>3. Cardinality(Entries \ {i}) = Cardinality(Entries) - 1
      BY EntriesFinite, FS_RemoveElement
    <2> QED
      BY <1>1, <1>6, <2>2, <2>3 DEF SizeIsEntryCount
  <1>7. CASE Erases(t) /\ pc[t] = "evict"
    <2>1. doomed[t] \in Ids /\ m_size' = m_size - 1
      BY <1>7, ErasesKeeps
    <2>2. doomed[t] # None
      BY <1>7, Fit DEF FitsAt, Shape
    <2>3. doomed[t] \in Entries
      BY <1>7, <2>1, <2>2 DEF Verdict, Entries
    <2> QED
      BY <1>6, <1>7, <2>1, <2>3 DEF Taken
  <1>8. CASE Erases(t) /\ pc[t] = "erase ids"
    <2>1. Min(todo[t]) \in todo[t] /\ m_size' = m_size - 1
      BY <1>8, ErasesKeeps
    <2>2. Min(todo[t]) \in Entries
      BY <1>8, <2>1 DEF Counted, ErasePcs
    <2>3. Taken(t) = {Min(todo[t])}
      BY <1>8 DEF Taken
    <2> QED
      BY <1>6, <1>8, <2>1, <2>2, <2>3
  <1>9. CASE Erases(t) /\ pc[t] = "clear"
    <2>1. ClearBin(t)
      BY <1>9 DEF Erases, Evict, EraseId
    <2>2. m_size' = m_size - Cardinality(InBin(enter[t]))
      BY <2>1 DEF ClearBin
    <2>3. Taken(t) = {i \in Ids : BinOf[i] = enter[t]}
      BY <1>9 DEF Taken
    <2>4. \A j \in Ids : tilecache'[j] = IF j \in Taken(t) THEN None ELSE tilecache[j]
      BY <1>9, ErasesKeeps
    <2>5. Entries' = Entries \ InBin(enter[t]) /\ Entries \intersect InBin(enter[t]) = InBin(enter[t])
      BY <2>3, <2>4 DEF Entries, InBin
    <2>6. /\ Cardinality(Entries \ InBin(enter[t]))
               = Cardinality(Entries) - Cardinality(Entries \intersect InBin(enter[t]))
      BY EntriesFinite, FS_Difference
    <2> QED
      BY <1>1, <2>2, <2>5, <2>6 DEF SizeIsEntryCount
  <1> QED
    BY <1>3, <1>4, <1>5, <1>7, <1>8, <1>9, ErasesGoes

\* Counted outlasts the steps that end no invalidation.
LEMMA StepCounted ==
    ASSUME OneInvalidates, Shape, Shape', IteratorValid, Calm, Verdict, Counted,
           NEW t \in Threads, Bystands(t) \/ Erases(t) \/ Finds(t)
    PROVE  Counted'
  <1>1. SizeIsEntryCount'
    BY SizeKept
  <1>2. ASSUME NEW u \in Threads, Invalidating(u)' PROVE u \in Invalidators \union Clearers
    <2>1. CASE Invalidating(u)
      BY <2>1 DEF Counted
    <2>2. CASE ~Invalidating(u)
      <3>1. u = t
        BY <1>2, <2>2, TodoMoves DEF Invalidating
      <3>2. ~Step(t)
        BY <1>2, <2>2, <3>1, StepGoes DEF Invalidating
      <3>3. ~\E id \in Ids : Lookup(t, id)
        BY <1>2, <3>1, LookupKeeps DEF Invalidating, InvalidationPcs
      <3>4. InvalidateAll(t) \/ \E f \in Files : Invalidate(t, f)
        BY <3>2, <3>3 DEF Bystands, Erases, Finds, Step
      <3> QED
        BY <3>1, <3>4 DEF InvalidateAll, Invalidate
    <2> QED
      BY <2>1, <2>2
  <1>3. ASSUME NEW u \in Threads, pc'[u] \in ErasePcs PROVE todo'[u] \subseteq Entries'
    <2>1. CASE u = t
      <3>1. CASE pc[t] = "idle" /\ todo'[t] = {}
        BY <2>1, <3>1
      <3>2. CASE pc[t] = "collect" /\ todo'[t] \subseteq todo[t] \union Entries /\ Bystands(t)
        <4>1. Entries' = Entries
          BY <3>2, BystandsKeeps DEF Entries
        <4> QED
          BY <2>1, <3>2, <4>1 DEF Counted, ErasePcs
      <3>3. CASE pc[t] = "erase ids" /\ todo'[t] = todo[t] \ Taken(t) /\ EraseId(t)
        <4>1. \A i \in Ids : tilecache'[i] = IF i \in Taken(t) THEN None ELSE tilecache[i]
          BY <3>3, ErasesKeeps DEF Erases
        <4>2. Entries' = Entries \ Taken(t)
          BY <4>1 DEF Entries
        <4> QED
          BY <2>1, <3>3, <4>2 DEF Counted, ErasePcs
      <3> QED
        BY <1>3, <2>1, <3>1, <3>2, <3>3, TodoMoves
    <2>2. CASE u # t
      <3>1. pc'[u] = pc[u] /\ todo'[u] = todo[u]
        BY <2>2, TodoMoves
      <3>2. todo[u] \subseteq Entries
        BY <1>3, <3>1 DEF Counted
      <3>3. ~Erases(t)
        <4>1. Invalidating(u)
          BY <1>3, <3>1 DEF ErasePcs, Invalidating, InvalidationPcs
        <4>2. ~LookingUp(t)
          BY <4>1 DEF Calm
        <4>3. ASSUME Erases(t) PROVE Invalidating(t)
          BY <4>2, <4>3, ErasesGoes DEF LookingUp
        <4>4. ASSUME Invalidating(t) PROVE t = u
          BY <4>1, <4>4 DEF Counted, OneInvalidates
        <4> QED
          BY <2>2, <4>3, <4>4
      <3>4. Entries \subseteq Entries'
        BY <3>3, EntriesStay DEF Entries
      <3> QED
        BY <3>1, <3>2, <3>4
    <2> QED
      BY <2>1, <2>2
  <1> QED
    BY <1>1, <1>2, <1>3 DEF Counted

\* Counted outlasts every step.
LEMMA NextCounted ==
    ASSUME OneInvalidates, Shape, Shape', IteratorValid, Calm, Verdict, Counted, [Next]_vars
    PROVE  Counted'
  <1>1. CASE UNCHANGED vars \/ \E f \in Files : Modify(f)
    <2>1. UNCHANGED <<tilecache, m_size, pc, todo>>
      BY <1>1 DEF Modify, vars, shared, inval
    <2> QED
      BY <2>1 DEF Counted, SizeIsEntryCount, Entries, Invalidating
  <1> QED
    BY <1>1, NextDoes, StepCounted

\* Counted holds at the beginning.
LEMMA InitCounted == Init => Counted
  <1> SUFFICES ASSUME Init PROVE Counted
    OBVIOUS
  <1>1. Entries = {} /\ m_size = 0
    BY DEF Init, Entries
  <1>2. \A t \in Threads : pc[t] = "idle"
    BY DEF Init
  <1> QED
    BY <1>1, <1>2, FS_EmptySet DEF Counted, SizeIsEntryCount, Invalidating, InvalidationPcs, ErasePcs

\* m_size counts the entries, when one thread makes the calls that
\* invalidate and no lookup overlaps them: neither the eviction of a tile nor
\* the erasure of a file's tiles counts one that is already gone.
THEOREM SizeCounts ==
    ASSUME Quiet, OneInvalidates
    PROVE  Spec => []SizeIsEntryCount
  <1> DEFINE Inv == Shape /\ IteratorValid /\ Calm /\ Verdict /\ Counted
  <1>1. Init => Inv
    BY InitShape, InitVerdict, InitCounted DEF Init, IteratorValid
  <1>2. Inv /\ [Next]_vars => Inv'
    BY NextShape, NextHeld, NextCalm, NextVerdict, NextCounted
  <1>3. Inv => SizeIsEntryCount
    BY DEF Counted
  <1> QED
    BY <1>1, <1>2, <1>3, PTL DEF Spec
-----------------------------------------------------------------------------
(* Fresh: the versions of tiles, when moreover nobody keeps a Perthread*.  *)

\* What a thread has read is no older than the floor of its lookup.
LEMMA ReadLate ==
    ASSUME Shape, Fresh, NEW t \in Threads, ReadPixels(t)
    PROVE  Late(tile[t])'
  <1>1. FilesTyped /\ LookupTyped /\ Fits
    BY TypeParts DEF Shape, Typed
  <1>2. /\ pc[t] = "pixels" /\ UNCHANGED tile
        /\ \/ inp[t] # Closed /\ obj'[tile[t]].ver = inp[t]
           \/ ~obj'[tile[t]].valid
    BY ReadPixelsDoes
  <1>3. LookingUp(t) /\ IdOf(tile[t]) = want[t]
    BY <1>1, <1>2, Fit DEF FitsAt, TilePcs, LookingUp, Invalidating, InvalidationPcs
  <1>4. need[t] = floor[FileOf[want[t]]] /\ (inp[t] # Closed => inp[t] >= need[t])
    BY <1>2, <1>3 DEF Fresh, Asked
  <1>5. UNCHANGED floor
    BY DEF ReadPixels
  <1> QED
    BY <1>2, <1>3, <1>4, <1>5 DEF Late

\* Every step but Purge keeps late tiles late, and makes only late ones ready.
LEMMA TilesStayLate ==
    ASSUME Shape, Fresh, NEW t \in Threads, Bystands(t) \/ Erases(t) \/ Finds(t), ~Purge(t),
           NEW x \in Live, x \in Live'
    PROVE  /\ Late(x) => Late(x)'
           /\ (obj[x].ready => Late(x)) => (obj'[x].ready => Late(x)')
  <1>1. UNCHANGED floor
    BY DEF Bystands, Erases, Finds, WaitFound, WaitInserted, OpenInput, Answer, CheckMem, FindHand,
       SweepHead, EnterBin, Look, Finish, Collect, CloseFile, Invalidate, InvalidateAll, Evict,
       EraseId, ClearBin, Micro, Retrieve, Insert, ReadPixels, Publish, Lookup, files
  <1>2. ASSUME obj'[x].ready = obj[x].ready, obj'[x].valid = obj[x].valid, obj'[x].ver = obj[x].ver
        PROVE  /\ Late(x) => Late(x)'
               /\ (obj[x].ready => Late(x)) => (obj'[x].ready => Late(x)')
    BY <1>1, <1>2 DEF Late
  <1>3. CASE Bystands(t) \/ Erases(t) \/ Micro(t) \/ \E id \in Ids : Lookup(t, id)
    <2>1. KeepsTiles
      BY <1>3, BystandsKeeps, ErasesKeeps, MicroKeeps, LookupKeeps
    <2> QED
      BY <1>2, <2>1 DEF KeepsTiles
  <1>4. CASE Retrieve(t) \/ Insert(t)
    <2>1. obj'[x] = obj[x]
      BY <1>4, RetrieveDoes, InsertDoes
    <2> QED
      BY <1>2, <2>1
  <1>5. CASE ReadPixels(t)
    <2>1. CASE x = tile[t]
      <3>1. Late(tile[t])'
        BY <1>5, ReadLate
      <3>2. tile' = tile
        BY <1>5, ReadPixelsDoes
      <3> QED
        BY <2>1, <3>1, <3>2 DEF Late
    <2>2. CASE x # tile[t]
      <3>1. obj'[x] = obj[x]
        BY <1>5, <2>2, ReadPixelsDoes
      <3> QED
        BY <1>2, <3>1
    <2> QED
      BY <2>1, <2>2
  <1>6. CASE Publish(t)
    <2>1. CASE x = tile[t]
      <3>1. pc[t] = "publish" /\ obj'[x].ver = obj[x].ver /\ obj'[x].valid = obj[x].valid
        BY <1>6, <2>1, PublishDoes
      <3>2. LookingUp(t)
        BY <3>1 DEF LookingUp, Invalidating, InvalidationPcs
      <3>3. Late(x)
        BY <2>1, <3>1, <3>2 DEF Fresh, Asked
      <3> QED
        BY <1>1, <3>1, <3>3 DEF Late
    <2>2. CASE x # tile[t]
      <3>1. obj'[x] = obj[x]
        BY <1>6, <2>2, PublishDoes
      <3> QED
        BY <1>2, <3>1
    <2> QED
      BY <2>1, <2>2
  <1> QED
    BY <1>3, <1>4, <1>5, <1>6 DEF Finds

\* The entries of the cache: those that were there, and what Insert adds.
LEMMA EntriesLateKept ==
    ASSUME Shape, Fresh, NEW t \in Threads, Bystands(t) \/ Erases(t) \/ Finds(t), ~Purge(t)
    PROVE  EntriesLate'
  <1> SUFFICES ASSUME NEW i \in Ids, tilecache'[i] # None, obj'[tilecache'[i]].ready
               PROVE  Late(tilecache[i])'
    BY DEF EntriesLate, Entries
  <1> PICK x : x = tilecache'[i]
    OBVIOUS
  <1>1. x \in Live'
    BY DEF Live, LiveIn
  <1>2. CASE x = tilecache[i]
    <2>1. x \in Live /\ i \in Entries
      BY <1>2 DEF Live, LiveIn, Entries
    <2>2. obj[x].ready => Late(x)
      BY <1>2, <2>1 DEF Fresh, EntriesLate
    <2>3. Late(x)'
      BY <1>1, <1>2, <2>1, <2>2, TilesStayLate
    <2> QED
      BY <1>2, <2>3 DEF Late
  <1>3. CASE x # tilecache[i]
    <2>1. Insert(t) /\ x = tile[t]
      <3>1. CASE Bystands(t) \/ Erases(t) \/ Micro(t) \/ \E id \in Ids : Lookup(t, id)
        <4>1. Loses
          BY <3>1, BystandsKeeps, ErasesKeeps, MicroKeeps, LookupKeeps
        <4> QED
          BY <1>3, <4>1 DEF Loses
      <3>2. CASE Retrieve(t) \/ ReadPixels(t) \/ Publish(t)
        BY <1>3, <3>2, RetrieveDoes, ReadPixelsDoes, PublishDoes
      <3>3. CASE Insert(t)
        BY <1>3, <3>3, InsertDoes
      <3> QED
        BY <3>1, <3>2, <3>3 DEF Finds
    <2>2. pc[t] = "insert" /\ tile[t] # None
      BY <2>1, InsertDoes
    <2>3. ~purge[t]
      BY <2>2 DEF Fresh, Asked, LookingUp, Invalidating, InvalidationPcs
    <2>4. x \in Live /\ (obj[x].ready => Late(x))
      BY <2>1, <2>2, <2>3 DEF Fresh, MicroLate, Live, LiveIn
    <2>5. obj'[x] = obj[x] /\ floor' = floor
      BY <1>1, <2>1, InsertDoes DEF Insert, files
    <2> QED
      BY <2>4, <2>5 DEF Late
  <1> QED
    BY <1>2, <1>3
-----------------------------------------------------------------------------
\* Who changes the purge flags, the files on disk and the floors of lookups.
LEMMA PurgeStays ==
    ASSUME NEW t \in Threads, Bystands(t) \/ Erases(t) \/ Finds(t), ~Purge(t),
           ~\E id \in Ids : Lookup(t, id)
    PROVE  UNCHANGED <<purge, disk, floor, need>> \/ Answer(t)
  BY DEF Bystands, Erases, Finds, WaitFound, WaitInserted, OpenInput, Answer, CheckMem, FindHand,
     SweepHead, EnterBin, Look, Finish, Collect, CloseFile, Invalidate, InvalidateAll, Evict,
     EraseId, ClearBin, Micro, Retrieve, Insert, ReadPixels, Publish, files, lookup, shared

\* A purge flag is cleared by its own thread only, as a lookup begins.
LEMMA PurgesOwn ==
    ASSUME Shape, NEW t \in Threads, Bystands(t) \/ Erases(t) \/ Finds(t), ~Purge(t)
    PROVE  /\ \A u \in Threads \ {t} : purge'[u] = purge[u]
           /\ purge'[t] = purge[t] \/ \E id \in Ids : Lookup(t, id)
  <1>1. CASE \E id \in Ids : Lookup(t, id)
    BY <1>1, LookupKeeps
  <1>2. CASE ~\E id \in Ids : Lookup(t, id)
    <2>1. UNCHANGED purge
      BY <1>2, PurgeStays DEF Answer, shared
    <2> QED
      BY <2>1
  <1> QED
    BY <1>1, <1>2

\* The microcaches: a tile moves within one, or comes from the cache, or is new.
LEMMA MicroLateKept ==
    ASSUME Shape, Made, Fresh, NEW t \in Threads, Bystands(t) \/ Erases(t) \/ Finds(t), ~Purge(t),
           NEW u \in Threads
    PROVE  MicroLate(u)'
  <1> PICK x, y : x = tile'[u] /\ y = lasttile'[u]
    OBVIOUS
  <1>1. (x # None => x \in Live') /\ (y # None => y \in Live')
    BY DEF Live, LiveIn
  <1>2. /\ \A v \in Threads : tile[v] # None => tile[v] \in Live
        /\ \A v \in Threads : lasttile[v] # None => lasttile[v] \in Live
        /\ \A i \in Ids : tilecache[i] # None => tilecache[i] \in Live
    BY DEF Live, LiveIn
  <1>3. \A i \in Ids : tilecache[i] # None /\ obj[tilecache[i]].ready => Late(tilecache[i])
    BY DEF Fresh, EntriesLate, Entries
  <1>4. MicroLate(u)
    BY DEF Fresh
  <1>5. /\ \A v \in Threads \ {t} : tile'[v] = tile[v] /\ lasttile'[v] = lasttile[v]
        /\ \A v \in Threads \ {t} : purge'[v] = purge[v]
        /\ purge'[t] = purge[t] \/ \E id \in Ids : Lookup(t, id)
    <2>1. \A v \in Threads \ {t} : tile'[v] = tile[v] /\ lasttile'[v] = lasttile[v]
      <3>1. CASE Bystands(t) \/ Erases(t)
        BY <3>1, BystandsKeeps, ErasesKeeps
      <3>2. CASE Micro(t) \/ \E id \in Ids : Lookup(t, id)
        BY <3>2, MicroKeeps, LookupKeeps
      <3>3. CASE Retrieve(t)
        BY <3>3, RetrieveDoes
      <3>4. CASE Insert(t)
        BY <3>4, InsertDoes
      <3>5. CASE ReadPixels(t)
        BY <3>5, ReadPixelsDoes
      <3>6. CASE Publish(t)
        BY <3>6, PublishDoes
      <3> QED
        BY <3>1, <3>2, <3>3, <3>4, <3>5, <3>6 DEF Finds
    <2> QED
      BY <2>1, PurgesOwn
  <1>6. /\ ~purge'[u] /\ x # None => (x \in Live /\ (obj[x].ready => Late(x))) \/ ~obj'[x].ready
        /\ ~purge'[u] /\ y # None => y \in Live /\ Late(y)
    <2>1. CASE u # t \/ Bystands(t) \/ Erases(t) \/ ReadPixels(t) \/ Publish(t)
      <3>1. tile'[u] = tile[u] /\ lasttile'[u] = lasttile[u]
        BY <1>5, <2>1, BystandsKeeps, ErasesKeeps, ReadPixelsDoes, PublishDoes
      <3>2. purge'[u] = purge[u]
        <4>1. ASSUME \E id \in Ids : Lookup(t, id) PROVE u # t
          <5>1. pc[t] = "idle" /\ pc'[t] \in {"idle", "micro"} /\ UNCHANGED <<m_size, invalidations>>
            BY <4>1, LookupKeeps DEF Lookup
          <5>2. ~Erases(t) /\ ~ReadPixels(t) /\ ~Publish(t)
            BY <5>1, ErasesGoes, ReadPixelsDoes, PublishDoes
          <5>3. ASSUME Bystands(t) PROVE FALSE
            <6>1. InvalidateAll(t) \/ \E f \in Files : Invalidate(t, f)
              BY <5>1, <5>3 DEF Bystands, WaitFound, WaitInserted, OpenInput, Answer, CheckMem,
                 FindHand, SweepHead, EnterBin, Look, Finish, Collect, Purge, CloseFile, Goto
            <6>2. invalidations' = invalidations + 1
              BY <6>1 DEF InvalidateAll, Invalidate, MayInvalidate
            <6>3. invalidations \in Nat
              BY TypeParts, Names DEF Shape, Typed, CountsTyped
            <6> QED
              BY <5>1, <6>2, <6>3
          <5> QED
            BY <2>1, <5>2, <5>3
        <4> QED
          BY <1>5, <4>1
      <3> QED
        BY <1>2, <1>4, <3>1, <3>2 DEF MicroLate
    <2>2. CASE u = t /\ \E id \in Ids : Lookup(t, id)
      <3>1. \/ tile'[t] = tile[t] /\ lasttile'[t] = lasttile[t] /\ purge'[t] = purge[t]
            \/ tile'[t] = None /\ lasttile'[t] = None
        BY <2>2, LookupKeeps
      <3> QED
        BY <1>2, <1>4, <2>2, <3>1 DEF MicroLate
    <2>3. CASE u = t /\ Micro(t)
      <3>1. /\ \/ tile'[t] = tile[t] /\ lasttile'[t] = lasttile[t]
               \/ tile'[t] = lasttile[t] /\ lasttile'[t] = tile[t]
            /\ pc[t] = "micro"
        BY <2>3, MicroKeeps
      <3>2. purge'[t] = purge[t]
        BY <2>3 DEF Micro
      <3>3. tile[t] # None => obj[tile[t]].ready
        BY <3>1 DEF Made, Seen, Makes
      <3> QED
        BY <1>2, <1>4, <2>3, <3>1, <3>2, <3>3 DEF MicroLate
    <2>4. CASE u = t /\ Retrieve(t)
      <3>1. purge'[t] = purge[t] /\ lasttile'[t] = lasttile[t]
        BY <2>4 DEF Retrieve, Refs
      <3>2. CASE tilecache[want[t]] # None /\ tile'[t] = tilecache[want[t]]
        <4>1. want[t] \in Ids
          BY <2>4, RetrieveDoes
        <4> QED
          BY <1>2, <1>3, <1>4, <2>4, <3>1, <3>2, <4>1 DEF MicroLate
      <3>3. CASE obj'[tile'[t]] = NewTile
        <4>1. ~obj'[x].ready
          BY <2>4, <3>3 DEF NewTile
        <4> QED
          BY <1>2, <1>4, <2>4, <3>1, <4>1 DEF MicroLate
      <3> QED
        BY <2>4, <3>2, <3>3, RetrieveDoes
    <2>5. CASE u = t /\ Insert(t)
      <3>1. purge'[t] = purge[t] /\ lasttile'[t] = lasttile[t]
        BY <2>5 DEF Insert, Refs
      <3>2. CASE tile'[t] = tile[t]
        BY <1>2, <1>4, <2>5, <3>1, <3>2 DEF MicroLate
      <3>3. CASE tilecache[want[t]] # None /\ tile'[t] = tilecache[want[t]]
        <4>1. want[t] \in Ids
          BY <2>5, InsertDoes
        <4> QED
          BY <1>2, <1>3, <1>4, <2>5, <3>1, <3>3, <4>1 DEF MicroLate
      <3> QED
        BY <2>5, <3>2, <3>3, InsertDoes
    <2> QED
      BY <2>1, <2>2, <2>3, <2>4, <2>5 DEF Finds
  <1>7. ~purge'[u] /\ x # None /\ obj'[x].ready => Late(x)'
    BY <1>1, <1>6, TilesStayLate
  <1>8. ~purge'[u] /\ y # None => Late(y)'
    BY <1>1, <1>6, TilesStayLate
  <1> QED
    BY <1>7, <1>8 DEF MicroLate, Late

\* The files' versions only grow, and an input is opened at the current one.
LEMMA FilesFreshKept ==
    ASSUME Shape, Fresh, [Next]_vars
    PROVE  FilesFresh'
  <1>1. FilesTyped /\ LookupTyped /\ Fits
    BY TypeParts DEF Shape, Typed
  <1>2. FilesFresh /\ Versions \subseteq Int /\ Closed \notin Versions
    BY Names DEF Fresh
  <1> USE DEF Set, PerThread
  <1>0. \A f \in Files :
           /\ disk[f] \in Nat /\ floor[f] \in Nat /\ input[f] \in Int
           /\ \A t \in Threads : atStart[t][f] \in Nat
    <2>1. Versions \subseteq Nat /\ Closed \in Int
      BY Names DEF Closed
    <2>2. /\ input \in [Files -> Versions \union {Closed}]
          /\ disk \in [Files -> Versions] /\ floor \in [Files -> Versions]
          /\ atStart \in [Threads -> [Files -> Versions]]
      BY <1>1 DEF FilesTyped
    <2>3. \A f \in Files : /\ disk[f] \in Versions /\ floor[f] \in Versions
                           /\ input[f] \in Versions \union {Closed}
                           /\ \A t \in Threads : atStart[t][f] \in Versions
      BY ONLY <2>2
    <2>4. Versions \union {Closed} \subseteq Int
      BY ONLY <2>1
    <2>5. ASSUME NEW f \in Files PROVE input[f] \in Int
      BY ONLY <2>3, <2>4
    <2>6. ASSUME NEW f \in Files PROVE disk[f] \in Nat /\ floor[f] \in Nat
      BY ONLY <2>1, <2>3
    <2>7. ASSUME NEW f \in Files, NEW t \in Threads PROVE atStart[t][f] \in Nat
      BY ONLY <2>1, <2>3
    <2> QED
      BY <2>5, <2>6, <2>7
  <1>3. ASSUME UNCHANGED <<disk, floor, atStart>>,
               \A f \in Files : input'[f] \in {input[f], disk[f], Closed}
        PROVE  FilesFresh'
    BY <1>1, <1>2, <1>3 DEF FilesFresh, FilesTyped
  <1>4. ASSUME NEW t \in Threads, NEW id \in Ids, Lookup(t, id) PROVE FilesFresh'
    <2>1. UNCHANGED <<disk, floor, atStart>>
      BY <1>4 DEF Lookup, inval
    <2>2. \/ input' = input
          \/ input' = [input EXCEPT ![FileOf[id]] = IF @ = Closed THEN disk[FileOf[id]] ELSE @]
      BY <1>4 DEF Lookup
    <2> QED
      BY <1>1, <1>3, <2>1, <2>2 DEF FilesTyped
  <1>5. ASSUME NEW t \in Threads, OpenInput(t) PROVE FilesFresh'
    <2>1. UNCHANGED <<disk, floor, atStart>>
      BY <1>5 DEF OpenInput, inval
    <2> DEFINE f == FileOf[want[t]]
    <2>2. \/ input' = input
          \/ input' = [input EXCEPT ![f] = IF @ = Closed THEN disk[f] ELSE @]
      BY <1>5, Zenon DEF OpenInput
    <2> QED
      BY <1>1, <1>3, <2>1, <2>2 DEF FilesTyped
  <1>6. ASSUME NEW t \in Threads, NEW f \in Files, CloseFile(t, f) PROVE FilesFresh'
    <2>1. UNCHANGED <<disk, floor, atStart>> /\ input' = [input EXCEPT ![f] = Closed]
      BY <1>6 DEF CloseFile
    <2> QED
      BY <1>1, <1>3, <2>1 DEF FilesTyped
  <1>7. ASSUME NEW t \in Threads, MayInvalidate(t), UNCHANGED <<disk, floor, input>>
        PROVE  FilesFresh'
    <2>1. atStart' = [atStart EXCEPT ![t] = disk]
      BY <1>7 DEF MayInvalidate
    <2>2. \A u \in Threads : atStart'[u] = IF u = t THEN disk ELSE atStart[u]
      BY <1>1, <2>1 DEF FilesTyped
    <2> QED
      BY <1>0, <1>2, <1>7, <2>2 DEF FilesFresh
  <1>8. ASSUME NEW t \in Threads, InvalidateAll(t) \/ \E f \in Files : Invalidate(t, f)
        PROVE  FilesFresh'
    BY <1>7, <1>8 DEF InvalidateAll, Invalidate
  <1>9. ASSUME NEW t \in Threads, Purge(t) PROVE FilesFresh'
    <2>1. /\ pc[t] = "purge" /\ UNCHANGED <<disk, input>>
          /\ floor' = [f \in Files |-> IF f \in target[t] /\ atStart[t][f] > floor[f]
                                       THEN atStart[t][f] ELSE floor[f]]
          /\ atStart' = [atStart EXCEPT ![t] = [f \in Files |-> 0]]
      BY <1>9 DEF Purge, Goto
    <2>2. Erased(t)
      BY DEF Fresh
    <2>3. \A f \in target[t] : input[f] = Closed
      BY <2>1, <2>2 DEF Erased
    <2>4. \A f \in Files : floor'[f] <= disk[f] /\ (input[f] # Closed => floor'[f] = floor[f])
      BY <1>1, <1>2, <2>1, <2>3 DEF FilesFresh, FilesTyped
    <2>5. \A u \in Threads, f \in Files : atStart'[u][f] = IF u = t THEN 0 ELSE atStart[u][f]
      BY <1>1, <2>1 DEF FilesTyped
    <2> QED
      BY <1>0, <1>2, <2>1, <2>4, <2>5 DEF FilesFresh
  <1>10. ASSUME NEW f \in Files, Modify(f) PROVE FilesFresh'
    <2>1. UNCHANGED <<input, floor, atStart>> /\ disk' = [disk EXCEPT ![f] = disk[f] + 1]
      BY <1>10 DEF Modify, inval
    <2>2. \A g \in Files : disk'[g] = IF g = f THEN disk[g] + 1 ELSE disk[g]
      BY <1>1, <2>1 DEF FilesTyped
    <2> QED
      BY <1>0, <1>2, <2>1, <2>2 DEF FilesFresh
  <1>11. ASSUME UNCHANGED <<disk, floor, atStart, input>> PROVE FilesFresh'
    BY <1>3, <1>11
  <1>12. ASSUME NEW t \in Threads, Step(t) PROVE FilesFresh'
    <2>1. \/ OpenInput(t) \/ Purge(t) \/ \E f \in Files : CloseFile(t, f)
          \/ UNCHANGED <<disk, floor, atStart, input>>
      BY <1>12 DEF Step, Micro, Retrieve, WaitFound, Insert, WaitInserted, ReadPixels, Publish,
         Answer, CheckMem, FindHand, SweepHead, EnterBin, Look, Evict, Finish, Collect, EraseId,
         ClearBin, files, inval
    <2> QED
      BY <1>5, <1>6, <1>9, <1>11, <2>1
  <1>13. CASE UNCHANGED vars
    BY <1>11, <1>13 DEF vars, files, inval
  <1> QED
    BY <1>4, <1>8, <1>10, <1>12, <1>13 DEF Next
-----------------------------------------------------------------------------
\* What a lookup knows is its thread's own.
LEMMA OthersAsk ==
    ASSUME Shape, NEW t \in Threads, Bystands(t) \/ Erases(t) \/ Finds(t),
           NEW u \in Threads, u # t
    PROVE  /\ pc'[u] = pc[u] /\ tile'[u] = tile[u]
           /\ want'[u] = want[u] /\ need'[u] = need[u] /\ found'[u] = found[u] /\ inp'[u] = inp[u]
  <1>1. LookupTyped
    BY TypeParts DEF Shape, Typed
  <1>2. pc'[u] = pc[u] /\ tile'[u] = tile[u]
    <2>1. pc'[u] = pc[u]
      BY TodoMoves
    <2>2. \A v \in Threads \ {t} : tile'[v] = tile[v]
      <3>1. CASE Bystands(t) \/ Erases(t)
        BY <3>1, BystandsKeeps, ErasesKeeps
      <3>2. CASE Micro(t) \/ \E id \in Ids : Lookup(t, id)
        BY <3>2, MicroKeeps, LookupKeeps
      <3>3. CASE Retrieve(t) \/ Insert(t) \/ ReadPixels(t) \/ Publish(t)
        BY <3>3, RetrieveDoes, InsertDoes, ReadPixelsDoes, PublishDoes
      <3> QED
        BY <3>1, <3>2, <3>3 DEF Finds
    <2> QED
      BY <2>1, <2>2
  <1> USE DEF Set, PerThread
  <1>3. want'[u] = want[u] /\ need'[u] = need[u]
    <2>1. CASE UNCHANGED <<want, need>>
      BY <2>1
    <2>2. CASE \E id \in Ids : Lookup(t, id)
      BY <1>1, <2>2 DEF Lookup, LookupTyped
    <2>3. CASE Answer(t)
      BY <1>1, <2>3 DEF Answer, LookupTyped
    <2> QED
      BY <2>1, <2>2, <2>3 DEF Bystands, Erases, Finds, WaitFound, WaitInserted, OpenInput,
         CheckMem, FindHand, SweepHead, EnterBin, Look, Finish, Collect, Purge, CloseFile,
         Invalidate, InvalidateAll, Evict, EraseId, ClearBin, Micro, Retrieve, Insert,
         ReadPixels, Publish, lookup
  <1>4. found'[u] = found[u]
    <2>1. CASE UNCHANGED found
      BY <2>1
    <2>2. CASE Micro(t) \/ WaitFound(t) \/ WaitInserted(t) \/ Publish(t) \/ Answer(t)
      BY <1>1, <2>2 DEF Micro, WaitFound, WaitInserted, Publish, Answer, LookupTyped
    <2> QED
      BY <2>1, <2>2 DEF Bystands, Erases, Finds, OpenInput,
         CheckMem, FindHand, SweepHead, EnterBin, Look, Finish, Collect, Purge, CloseFile,
         Invalidate, InvalidateAll, Evict, EraseId, ClearBin, Retrieve, Insert,
         ReadPixels, Lookup, lookup
  <1>5. inp'[u] = inp[u]
    <2>1. CASE UNCHANGED inp
      BY <2>1
    <2>2. CASE OpenInput(t) \/ ReadPixels(t)
      BY <1>1, <2>2 DEF OpenInput, ReadPixels, LookupTyped
    <2> QED
      BY <2>1, <2>2 DEF Bystands, Erases, Finds, WaitFound, WaitInserted, Answer, Micro, Publish,
         CheckMem, FindHand, SweepHead, EnterBin, Look, Finish, Collect, Purge, CloseFile,
         Invalidate, InvalidateAll, Evict, EraseId, ClearBin, Retrieve, Insert, Lookup, lookup
  <1> QED
    BY <1>2, <1>3, <1>4, <1>5

\* An input is at hand from OpenInput to ReadPixels only.
LEMMA InputUsedKept ==
    ASSUME Shape, Fresh, NEW t \in Threads, Bystands(t) \/ Erases(t) \/ Finds(t),
           NEW u \in Threads
    PROVE  InputUsed(u)'
  <1>1. LookupTyped /\ PlacesTyped
    BY TypeParts DEF Shape, Typed
  <1>2. InputUsed(u)
    BY DEF Fresh
  <1>3. CASE u # t
    BY <1>2, <1>3, OthersAsk DEF InputUsed
  <1>4. CASE u = t /\ OpenInput(t)
    BY <1>1, <1>4 DEF OpenInput, Goto, To, Set, PlacesTyped, PerThread, InputUsed
  <1>5. CASE u = t /\ ReadPixels(t)
    BY <1>1, <1>5 DEF ReadPixels, Set, LookupTyped, PerThread, InputUsed
  <1>6. CASE u = t /\ ~OpenInput(t) /\ ~ReadPixels(t)
    <2>1. UNCHANGED inp
      BY <1>6 DEF Bystands, Erases, Finds, WaitFound, WaitInserted, Answer, Micro, Publish,
         CheckMem, FindHand, SweepHead, EnterBin, Look, Finish, Collect, Purge, CloseFile,
         Invalidate, InvalidateAll, Evict, EraseId, ClearBin, Retrieve, Insert, Lookup, lookup
    <2>2. pc[t] # "pixels"
      <3>1. CASE Erases(t)
        BY <3>1, ErasesGoes
      <3>2. CASE Finds(t)
        BY <1>6, <3>2, MicroKeeps, LookupKeeps, RetrieveDoes, InsertDoes, PublishDoes DEF Finds
      <3>3. CASE Bystands(t)
        BY <1>6, <3>3 DEF Bystands, WaitFound, WaitInserted, Answer, CheckMem, FindHand,
           SweepHead, EnterBin, Look, Finish, Collect, Purge, CloseFile, Invalidate,
           InvalidateAll, MayInvalidate, Goto
      <3> QED
        BY <3>1, <3>2, <3>3
    <2> QED
      BY <1>2, <1>6, <2>1, <2>2 DEF InputUsed
  <1> QED
    BY <1>3, <1>4, <1>5, <1>6

\* A lookup that begins asks for what is fresh by then.
LEMMA LookupAsks ==
    ASSUME KeepsPerthread = {}, Shape, NEW t \in Threads, NEW id \in Ids, Lookup(t, id)
    PROVE  Asked(t)'
  <1>1. LookupTyped /\ PlacesTyped /\ CountsTyped
    BY TypeParts DEF Shape, Typed
  <1> USE DEF Set, PerThread
  <1>2. pc' = [pc EXCEPT ![t] = pc'[t]] /\ pc'[t] \in {"idle", "micro"}
    BY <1>1 DEF Lookup, To, PlacesTyped
  <1>3. CASE pc'[t] = "idle"
    BY <1>3 DEF Asked, LookingUp
  <1>4. CASE pc'[t] = "micro"
    <2>1. want' = [want EXCEPT ![t] = id] /\ need' = [need EXCEPT ![t] = floor[FileOf[id]]]
      BY <1>1, <1>4 DEF Lookup, To, PlacesTyped
    <2>2. want'[t] = id /\ need'[t] = floor[FileOf[id]] /\ floor' = floor
      BY <1>1, <2>1 DEF Lookup, LookupTyped
    <2>3. ~purge'[t]
      BY LookupKeeps
    <2> QED
      BY <1>4, <2>2, <2>3 DEF Asked
  <1> QED
    BY <1>2, <1>3, <1>4

\* Each lookup's thread goes its way with what it knows.
LEMMA OwnAsked ==
    ASSUME Shape, Shape', Made, Fresh, NEW t \in Threads, Bystands(t) \/ Erases(t) \/ Finds(t),
           Step(t), ~Purge(t), LookingUp(t)'
    PROVE  Asked(t)'
  <1>1. LookupTyped /\ PlacesTyped /\ FilesTyped /\ ObjsTyped /\ Fits
    BY TypeParts DEF Shape, Typed
  <1> USE DEF Set, PerThread
  <1>2. LookingUp(t) /\ Asked(t) /\ pc'[t] # "idle"
    BY StepGoes DEF Fresh, LookingUp
  <1>3. ~Answer(t) /\ ~\E id \in Ids : Lookup(t, id)
    <2>1. ~Answer(t)
      BY <1>1, <1>2 DEF Answer, Goto, To, PlacesTyped
    <2>2. pc[t] # "idle"
      BY <1>2 DEF LookingUp
    <2> QED
      BY <2>1, <2>2, LookupKeeps
  <1>4. UNCHANGED <<purge, disk, floor, need>>
    BY <1>3, PurgeStays
  <1>5. UNCHANGED want
    BY <1>3 DEF Bystands, Erases, Finds, WaitFound, WaitInserted, OpenInput,
       CheckMem, FindHand, SweepHead, EnterBin, Look, Finish, Collect, Purge, CloseFile,
       Invalidate, InvalidateAll, Evict, EraseId, ClearBin, Micro, Retrieve, Insert,
       ReadPixels, Publish, lookup
  <1>6. ~purge'[t] /\ need'[t] = floor'[FileOf[want'[t]]]
    BY <1>2, <1>4, <1>5 DEF Asked
  <1>7. ASSUME pc'[t] = "pixels", inp'[t] # Closed PROVE inp'[t] >= need'[t]
    <2>1. OpenInput(t)
      <3>1. CASE Erases(t)
        BY <1>7, <3>1, ErasesGoes
      <3>2. CASE Finds(t)
        BY <1>7, <3>2, MicroKeeps, LookupKeeps, RetrieveDoes, InsertDoes, ReadPixelsDoes,
           PublishDoes DEF Finds
      <3>3. CASE WaitFound(t) \/ WaitInserted(t) \/ Answer(t) \/ FindHand(t) \/ Finish(t)
                 \/ Purge(t) \/ CheckMem(t) \/ SweepHead(t)
        BY <1>1, <1>7, <3>3 DEF WaitFound, WaitInserted, Answer, FindHand, Finish, Purge,
           CheckMem, SweepHead, Goto, To, PlacesTyped
      <3>4. CASE EnterBin(t) \/ Look(t)
        BY <1>1, <1>7, <3>4 DEF EnterBin, Look, StopAt, To, PlacesTyped
      <3>5. CASE Collect(t) \/ InvalidateAll(t) \/ \E f \in Files : CloseFile(t, f) \/ Invalidate(t, f)
        BY <1>1, <1>7, <3>5 DEF Collect, InvalidateAll, CloseFile, Invalidate, To, PlacesTyped
      <3> QED
        BY <3>1, <3>2, <3>3, <3>4, <3>5 DEF Bystands
    <2> DEFINE f == FileOf[want[t]]
    <2>2. pc[t] = "read"
      BY <2>1 DEF OpenInput, Goto
    <2>3. f \in Files
      <3>1. want[t] \in Ids
        BY <1>1, <2>2, Fit DEF FitsAt, LookupPcs
      <3> QED
        BY <3>1, Names
    <2>4. inp[t] = Closed
      BY <2>2 DEF Fresh, InputUsed
    <2>5. inp' = [inp EXCEPT ![t] = input'[f]] /\ input' = [input EXCEPT ![f] = IF @ = Closed THEN disk[f] ELSE @]
      BY <1>7, <2>1, <2>4 DEF OpenInput
    <2>6. inp'[t] \in {disk[f], input[f]} /\ inp'[t] # Closed
      BY <1>1, <1>7, <2>3, <2>5 DEF LookupTyped, FilesTyped
    <2>7. floor[f] <= disk[f] /\ (input[f] # Closed => input[f] >= floor[f])
      BY <2>3 DEF Fresh, FilesFresh
    <2>8. need'[t] = floor[f]
      BY <1>4, <1>5, <1>6
    <2>9. disk[f] \in Int /\ floor[f] \in Int
      <3>1. Versions \subseteq Int
        BY Names
      <3>2. disk[f] \in Versions /\ floor[f] \in Versions
        BY <1>1, <2>3 DEF FilesTyped
      <3> QED
        BY <3>1, <3>2
    <2> HIDE DEF f
    <2> QED
      BY <2>6, <2>7, <2>8, <2>9
  <1>8. ASSUME pc'[t] = "publish" PROVE Late(tile[t])'
    <2>1. ReadPixels(t)
      <3>1. CASE Erases(t)
        BY <1>8, <3>1, ErasesGoes
      <3>2. CASE Micro(t) \/ Retrieve(t) \/ Insert(t) \/ Publish(t)
        BY <1>8, <3>2, MicroKeeps, RetrieveDoes, InsertDoes, PublishDoes
      <3>3. CASE WaitFound(t) \/ WaitInserted(t) \/ Answer(t) \/ FindHand(t) \/ Finish(t)
                 \/ Purge(t) \/ CheckMem(t) \/ SweepHead(t) \/ OpenInput(t)
        BY <1>1, <1>8, <3>3 DEF WaitFound, WaitInserted, Answer, FindHand, Finish, Purge,
           CheckMem, SweepHead, OpenInput, Goto, To, PlacesTyped
      <3>4. CASE EnterBin(t) \/ Look(t)
        BY <1>1, <1>8, <3>4 DEF EnterBin, Look, StopAt, To, PlacesTyped
      <3>5. CASE Collect(t) \/ InvalidateAll(t) \/ \E f \in Files : CloseFile(t, f) \/ Invalidate(t, f)
        BY <1>1, <1>8, <3>5 DEF Collect, InvalidateAll, CloseFile, Invalidate, To, PlacesTyped
      <3> QED
        BY <1>3, <3>1, <3>2, <3>3, <3>4, <3>5 DEF Bystands, Finds
    <2> QED
      BY <2>1, ReadLate
  <1>9. ASSUME pc'[t] = "answer" PROVE tile'[t] # None /\ IdOf(tile'[t]) = want'[t]
    <2>1. CASE Micro(t)
      BY <1>5, <1>9, <2>1, MicroKeeps
    <2>2. CASE WaitFound(t) \/ WaitInserted(t) \/ CheckMem(t) \/ Finish(t)
      <3>1. pc[t] \in TilePcs
        BY <2>2 DEF WaitFound, WaitInserted, CheckMem, Finish, Goto, TilePcs, SweepPcs
      <3>2. tile[t] # None /\ IdOf(tile[t]) = want[t]
        BY <1>1, <3>1, Fit DEF FitsAt
      <3>3. UNCHANGED tile
        BY <2>2 DEF WaitFound, WaitInserted, CheckMem, Finish, shared
      <3> QED
        BY <1>5, <3>2, <3>3
    <2>3. Micro(t) \/ WaitFound(t) \/ WaitInserted(t) \/ CheckMem(t) \/ Finish(t)
      <3>1. CASE Erases(t)
        BY <1>9, <3>1, ErasesGoes
      <3>2. CASE Retrieve(t) \/ Insert(t) \/ ReadPixels(t) \/ Publish(t)
        BY <1>9, <3>2, RetrieveDoes, InsertDoes, ReadPixelsDoes, PublishDoes
      <3>3. CASE Answer(t) \/ FindHand(t) \/ Purge(t) \/ SweepHead(t) \/ OpenInput(t)
        BY <1>1, <1>9, <3>3 DEF Answer, FindHand, Purge, SweepHead, OpenInput, Goto, To, PlacesTyped
      <3>4. CASE EnterBin(t) \/ Look(t)
        BY <1>1, <1>9, <3>4 DEF EnterBin, Look, StopAt, To, PlacesTyped
      <3>5. CASE Collect(t) \/ InvalidateAll(t) \/ \E f \in Files : CloseFile(t, f) \/ Invalidate(t, f)
        BY <1>1, <1>9, <3>5 DEF Collect, InvalidateAll, CloseFile, Invalidate, To, PlacesTyped
      <3> QED
        BY <1>3, <3>1, <3>2, <3>3, <3>4, <3>5 DEF Bystands, Finds
    <2> QED
      BY <2>1, <2>2, <2>3
  <1> QED
    BY <1>6, <1>7, <1>8, <1>9 DEF Asked

\* Asked outlasts all steps but the end of an invalidation.
LEMMA AskedKept ==
    ASSUME KeepsPerthread = {}, Shape, Shape', Made, Fresh, NEW t \in Threads,
           Bystands(t) \/ Erases(t) \/ Finds(t), ~Purge(t), NEW u \in Threads
    PROVE  Asked(u)'
  <1>1. CASE u # t
    <2>1. /\ pc'[u] = pc[u] /\ tile'[u] = tile[u] /\ purge'[u] = purge[u]
          /\ want'[u] = want[u] /\ need'[u] = need[u] /\ found'[u] = found[u] /\ inp'[u] = inp[u]
      BY <1>1, OthersAsk, PurgesOwn
    <2>2. UNCHANGED floor
      <3>1. CASE \E id \in Ids : Lookup(t, id)
        BY <3>1 DEF Lookup
      <3>2. CASE ~\E id \in Ids : Lookup(t, id)
        BY <3>2, PurgeStays DEF Answer, files
      <3> QED
        BY <3>1, <3>2
    <2>3. Asked(u)
      BY DEF Fresh
    <2>4. ASSUME pc[u] = "publish", Late(tile[u]) PROVE Late(tile[u])'
      <3>1. tile[u] # None
        BY <2>4, Fit DEF FitsAt, TilePcs, Shape
      <3>2. tile[u] \in Live /\ tile[u] \in Live'
        BY <2>1, <3>1 DEF Live, LiveIn
      <3>3. PICK x : x = tile[u]
        OBVIOUS
      <3>4. Late(x)'
        BY <2>4, <3>2, <3>3, TilesStayLate
      <3> QED
        BY <2>1, <3>3, <3>4 DEF Late
    <2>5. LookingUp(u)' => LookingUp(u)
      BY <2>1 DEF LookingUp, Invalidating
    <2> QED
      BY <2>1, <2>2, <2>3, <2>4, <2>5 DEF Asked
  <1>2. CASE u = t
    <2>1. CASE \E id \in Ids : Lookup(t, id)
      BY <1>2, <2>1, LookupAsks
    <2>2. CASE Step(t)
      <3>1. CASE LookingUp(t)'
        BY <1>2, <2>2, <3>1, OwnAsked
      <3>2. CASE ~LookingUp(t)'
        BY <1>2, <3>2 DEF Asked
      <3> QED
        BY <3>1, <3>2
    <2>3. CASE InvalidateAll(t) \/ \E f \in Files : Invalidate(t, f)
      <3>1. PlacesTyped
        BY TypeParts DEF Shape, Typed
      <3>2. pc'[t] \in InvalidationPcs
        BY <2>3, <3>1 DEF InvalidateAll, Invalidate, To, Set, PlacesTyped, PerThread, InvalidationPcs
      <3> QED
        BY <1>2, <3>2 DEF Asked, LookingUp, Invalidating
    <2> QED
      BY <2>1, <2>2, <2>3 DEF Bystands, Erases, Finds, Step
  <1> QED
    BY <1>1, <1>2
-----------------------------------------------------------------------------
\* A file's tiles stay away while it is being invalidated: only the
\* invalidating thread moves.
LEMMA OthersErase ==
    ASSUME OneInvalidates, Shape, Calm, Counted, NEW t \in Threads, NEW u \in Threads, u # t,
           Step(t) \/ InvalidateAll(t) \/ \E f \in Files : Invalidate(t, f)
    PROVE  Erased(u)'
  <1>1. ~Invalidating(u)
    <2>1. ASSUME Invalidating(u) PROVE FALSE
      <3>1. ~LookingUp(t) /\ u \in Invalidators \union Clearers
        BY <2>1 DEF Calm, Counted
      <3>2. t \notin Invalidators \union Clearers
        BY <3>1 DEF OneInvalidates
      <3>3. pc[t] = "idle"
        BY <3>1, <3>2 DEF Counted, LookingUp
      <3>4. Step(t)
        BY <3>2 DEF InvalidateAll, Invalidate
      <3>5. CASE \/ Micro(t) \/ Retrieve(t) \/ WaitFound(t) \/ Insert(t) \/ WaitInserted(t)
                 \/ OpenInput(t) \/ ReadPixels(t) \/ Publish(t) \/ Answer(t) \/ CheckMem(t)
        BY <3>3, <3>5 DEF Micro, Retrieve, WaitFound, Insert, WaitInserted, OpenInput, ReadPixels,
           Publish, Answer, CheckMem, Goto
      <3>6. CASE \/ FindHand(t) \/ SweepHead(t) \/ EnterBin(t) \/ Look(t) \/ Evict(t) \/ Finish(t)
                 \/ Collect(t) \/ EraseId(t) \/ ClearBin(t) \/ Purge(t)
                 \/ \E f \in Files : CloseFile(t, f)
        BY <3>3, <3>6 DEF FindHand, SweepHead, EnterBin, Look, Evict, Finish, Collect, EraseId,
           ClearBin, Purge, CloseFile, Goto
      <3> QED
        BY <3>4, <3>5, <3>6 DEF Step
    <2> QED
      BY <2>1
  <1>2. pc'[u] = pc[u]
    <2>1. CASE Step(t)
      BY <2>1, StepGoes
    <2>2. CASE InvalidateAll(t) \/ \E f \in Files : Invalidate(t, f)
      BY <2>2, BystandsGoes DEF Bystands
    <2> QED
      BY <2>1, <2>2
  <1> QED
    BY <1>1, <1>2 DEF Erased, Invalidating, InvalidationPcs

\* An invalidation begins at the first bin, or with no entry left to erase.
LEMMA InvalidationBegins ==
    ASSUME Shape, Counted, NEW t \in Threads, InvalidateAll(t) \/ \E f \in Files : Invalidate(t, f)
    PROVE  Erased(t)'
  <1>1. PlacesTyped /\ SweepTyped
    BY TypeParts DEF Shape, Typed
  <1> USE DEF Set, PerThread
  <1>2. \A i \in Ids : BinOf[i] >= 1 /\ ~(BinOf[i] < 1)
    BY Names DEF Bins
  <1>3. UNCHANGED tilecache /\ Entries' = Entries
    BY DEF InvalidateAll, Invalidate, shared, Entries
  <1>4. CASE \E f \in Files : Invalidate(t, f)
    <2>1. pc'[t] = "collect" /\ enter'[t] = 1
      BY <1>1, <1>4 DEF Invalidate, To, PlacesTyped, SweepTyped
    <2> QED
      BY <1>2, <1>3, <2>1 DEF Erased, Entries
  <1>5. CASE InvalidateAll(t) /\ m_size = 0
    <2>1. Entries = {}
      BY <1>5, EntriesFinite, FS_EmptySet DEF Counted, SizeIsEntryCount
    <2>2. pc'[t] = "close files" /\ todo'[t] = Files /\ target'[t] = Files
      BY <1>1, <1>5 DEF InvalidateAll, To, PlacesTyped, SweepTyped
    <2> QED
      BY <1>3, <2>1, <2>2 DEF Erased, Gone
  <1>6. CASE InvalidateAll(t) /\ m_size # 0
    <2>1. pc'[t] = "clear" /\ enter'[t] = 1
      BY <1>1, <1>6 DEF InvalidateAll, To, PlacesTyped, SweepTyped
    <2> QED
      BY <1>2, <1>3, <2>1 DEF Erased, Entries
  <1> QED
    BY <1>4, <1>5, <1>6

\* What an invalidation collects: all that the bins it has been through have of
\* its files.
LEMMA CollectErased ==
    ASSUME Shape, Fresh, NEW t \in Threads, Collect(t)
    PROVE  Erased(t)'
  <1>1. PlacesTyped /\ SweepTyped /\ Fits
    BY TypeParts DEF Shape, Typed
  <1> USE DEF Set, PerThread
  <1>2. pc[t] = "collect" /\ UNCHANGED <<tilecache, target>> /\ Entries' = Entries
    BY DEF Collect, shared, Entries
  <1>3. enter[t] \in Bins
    BY <1>1, <1>2, Fit DEF FitsAt
  <1> DEFINE b == enter[t]
             all == todo[t] \union {i \in InBin(b) : FileOf[i] \in target[t]}
             last == b = NBins
  <1>4. \A i \in Entries : FileOf[i] \in target[t] /\ BinOf[i] < b => i \in todo[t]
    BY <1>2 DEF Fresh, Erased
  <1>5. \A i \in Entries : FileOf[i] \in target[t] /\ BinOf[i] = b => i \in all
    BY DEF Entries, InBin
  <1>6. \A i \in Ids : BinOf[i] \in Int /\ BinOf[i] <= NBins
    BY Names DEF Bins
  <1>7. b \in Int /\ b <= NBins
    BY <1>3, Names DEF Bins
  <1>8. enter' = [enter EXCEPT ![t] = IF last THEN 0 ELSE b + 1]
    BY DEF Collect
  <1>9. todo' = [todo EXCEPT ![t] = IF last /\ all = {} THEN target[t] ELSE all]
    BY DEF Collect
  <1>10. pc' = [pc EXCEPT ![t] = IF ~last THEN "collect"
                                  ELSE IF all = {} THEN "close files" ELSE "erase ids"]
    BY DEF Collect, To
  <1>11. \A i \in Entries : FileOf[i] \in target[t] /\ BinOf[i] <= b => i \in all
    <2>1. \A i \in Entries : i \in Ids
      BY DEF Entries
    <2> QED
      BY <1>4, <1>5, <1>6, <1>7, <2>1
  <1> HIDE DEF all
  <1>12. CASE ~last
    <2>1. pc'[t] = "collect" /\ enter'[t] = b + 1 /\ todo'[t] = all
      BY <1>1, <1>8, <1>9, <1>10, <1>12 DEF PlacesTyped, SweepTyped
    <2>2. \A i \in Entries : FileOf[i] \in target[t] /\ BinOf[i] < b + 1 => i \in all
      BY <1>6, <1>7, <1>11 DEF Entries
    <2> QED
      BY <1>2, <2>1, <2>2 DEF Erased
  <1>13. CASE last
    <2>1. \A i \in Entries : FileOf[i] \in target[t] => i \in all
      BY <1>6, <1>11, <1>13 DEF Entries
    <2>2. CASE all = {}
      <3>1. pc'[t] = "close files" /\ todo'[t] = target[t]
        BY <1>1, <1>9, <1>10, <1>13, <2>2 DEF PlacesTyped, SweepTyped
      <3> QED
        BY <1>2, <2>1, <2>2, <3>1 DEF Erased, Gone
    <2>3. CASE all # {}
      <3>1. pc'[t] = "erase ids" /\ todo'[t] = all
        BY <1>1, <1>9, <1>10, <1>13, <2>3 DEF PlacesTyped, SweepTyped
      <3> QED
        BY <1>2, <2>1, <3>1 DEF Erased
    <2> QED
      BY <2>2, <2>3
  <1> QED
    BY <1>12, <1>13

\* The steps that erase leave nothing of the files before they go on.
LEMMA ErasureErased ==
    ASSUME Shape, Fresh, NEW t \in Threads, EraseId(t) \/ ClearBin(t)
    PROVE  Erased(t)'
  <1>1. PlacesTyped /\ SweepTyped /\ Fits
    BY TypeParts DEF Shape, Typed
  <1> USE DEF Set, PerThread
  <1>2. \A i \in Ids : tilecache'[i] = IF i \in Taken(t) THEN None ELSE tilecache[i]
    BY ErasesKeeps DEF Erases
  <1>3. Entries' = Entries \ Taken(t)
    BY <1>2 DEF Entries
  <1>4. UNCHANGED target /\ Erased(t)
    BY DEF EraseId, ClearBin, Fresh
  <1>5. CASE EraseId(t)
    <2> DEFINE i == Min(todo[t])
    <2>1. pc[t] = "erase ids"
      BY <1>5 DEF EraseId
    <2>2. Taken(t) = {i}
      BY <2>1 DEF Taken
    <2>3. todo' = [todo EXCEPT ![t] = IF todo[t] = {i} THEN target[t] ELSE todo[t] \ {i}]
      BY <1>5 DEF EraseId
    <2>4. pc' = [pc EXCEPT ![t] = IF todo[t] = {i} THEN "close files" ELSE "erase ids"]
      BY <1>5 DEF EraseId, To
    <2> HIDE DEF i
    <2>5. \A j \in Entries' : FileOf[j] \in target[t] => j \in todo[t] \ {i}
      BY <1>3, <1>4, <2>1, <2>2 DEF Erased
    <2>6. CASE todo[t] = {i}
      <3>1. pc'[t] = "close files" /\ todo'[t] = target[t]
        BY <1>1, <2>3, <2>4, <2>6 DEF PlacesTyped, SweepTyped
      <3> QED
        BY <1>4, <2>5, <2>6, <3>1 DEF Erased, Gone
    <2>7. CASE todo[t] # {i}
      <3>1. pc'[t] = "erase ids" /\ todo'[t] = todo[t] \ {i}
        BY <1>1, <2>3, <2>4, <2>7 DEF PlacesTyped, SweepTyped
      <3> QED
        BY <1>4, <2>5, <3>1 DEF Erased
    <2> QED
      BY <2>6, <2>7
  <1>6. CASE ClearBin(t)
    <2> DEFINE b == enter[t]
    <2>1. pc[t] = "clear"
      BY <1>6 DEF ClearBin
    <2>2. b \in Bins
      BY <1>1, <2>1, Fit DEF FitsAt
    <2>3. Taken(t) = {i \in Ids : BinOf[i] = b}
      BY <2>1 DEF Taken
    <2>4. enter' = [enter EXCEPT ![t] = IF b = NBins THEN 0 ELSE b + 1]
      BY <1>6 DEF ClearBin
    <2>5. todo' = [todo EXCEPT ![t] = IF b = NBins THEN target[t] ELSE {}]
      BY <1>6 DEF ClearBin
    <2>6. pc' = [pc EXCEPT ![t] = IF b = NBins THEN "close files" ELSE "clear"]
      BY <1>6 DEF ClearBin, To
    <2>7. \A i \in Ids : BinOf[i] \in Int /\ BinOf[i] <= NBins
      BY Names DEF Bins
    <2>8. b \in Int
      BY <2>2, Names DEF Bins
    <2>9. \A i \in Entries' : i \in Ids /\ BinOf[i] >= b /\ BinOf[i] # b
      BY <1>3, <1>4, <2>1, <2>3 DEF Erased, Entries
    <2>10. CASE b = NBins
      <3>1. pc'[t] = "close files" /\ todo'[t] = target[t]
        BY <1>1, <2>5, <2>6, <2>10 DEF PlacesTyped, SweepTyped
      <3>2. Entries' = {}
        BY <2>7, <2>8, <2>9, <2>10
      <3> QED
        BY <1>4, <3>1, <3>2 DEF Erased, Gone
    <2>11. CASE b # NBins
      <3>1. pc'[t] = "clear" /\ enter'[t] = b + 1
        BY <1>1, <2>4, <2>6, <2>11 DEF PlacesTyped, SweepTyped
      <3>2. \A i \in Entries' : BinOf[i] >= b + 1
        BY <2>7, <2>8, <2>9
      <3> QED
        BY <3>1, <3>2 DEF Erased
    <2> QED
      BY <2>10, <2>11
  <1> QED
    BY <1>5, <1>6

\* An invalidation has closed the files that it has taken off its list.
LEMMA CloseFileErased ==
    ASSUME Shape, Fresh, NEW t \in Threads, NEW f \in Files, CloseFile(t, f)
    PROVE  Erased(t)'
  <1>1. PlacesTyped /\ SweepTyped /\ FilesTyped
    BY TypeParts DEF Shape, Typed
  <1> USE DEF Set, PerThread
  <1>2. /\ pc[t] = "close files" /\ UNCHANGED <<tilecache, target>> /\ Entries' = Entries
        /\ input' = [input EXCEPT ![f] = Closed]
        /\ todo' = [todo EXCEPT ![t] = todo[t] \ {f}]
        /\ pc' = [pc EXCEPT ![t] = IF todo[t] = {f} THEN "purge" ELSE "close files"]
    BY DEF CloseFile, To, shared, Entries
  <1>3. Gone(t) /\ \A g \in target[t] \ todo[t] : input[g] = Closed
    BY <1>2 DEF Fresh, Erased
  <1>4. target[t] \subseteq Files
    BY <1>1 DEF SweepTyped
  <1>5. \A g \in target[t] \ (todo[t] \ {f}) : input'[g] = Closed
    BY <1>1, <1>2, <1>3, <1>4 DEF FilesTyped
  <1>6. todo'[t] = todo[t] \ {f}
    BY <1>1, <1>2 DEF SweepTyped
  <1>7. \/ pc'[t] = "purge" /\ todo[t] \ {f} = {}
        \/ pc'[t] = "close files"
    BY <1>1, <1>2 DEF PlacesTyped
  <1> QED
    BY <1>2, <1>3, <1>5, <1>6, <1>7 DEF Erased, Gone

\* Nothing of the files comes back while an invalidation runs.
LEMMA ErasedKept ==
    ASSUME OneInvalidates, Quiet, Shape, Shape', Calm, Calm', Counted, Fresh, [Next]_vars,
           NEW u \in Threads
    PROVE  Erased(u)'
  <1>1. ASSUME UNCHANGED <<pc, tilecache, todo, target, enter, input>> PROVE Erased(u)'
    <2>1. Erased(u)
      BY DEF Fresh
    <2> QED
      BY <1>1, <2>1 DEF Erased, Gone, Entries
  <1>2. CASE UNCHANGED vars \/ \E f \in Files : Modify(f)
    BY <1>1, <1>2 DEF Modify, vars, shared, files, sweep, inval
  <1>3. ASSUME ~Invalidating(u)' PROVE Erased(u)'
    BY <1>3 DEF Erased, Invalidating, InvalidationPcs
  <1>4. ASSUME NEW t \in Threads, NEW id \in Ids, Lookup(t, id) PROVE Erased(u)'
    <2>1. \A v \in Threads : ~Invalidating(v)
      BY <1>4 DEF Lookup
    <2>2. ~Invalidating(u)'
      <3>1. CASE u = t
        BY <1>4, <3>1, LookupKeeps DEF Invalidating, InvalidationPcs
      <3>2. CASE u # t
        BY <1>4, <2>1, <3>2, OthersAsk DEF Finds, Invalidating
      <3> QED
        BY <3>1, <3>2
    <2> QED
      BY <1>3, <2>2
  <1>5. ASSUME NEW t \in Threads, InvalidateAll(t) \/ \E f \in Files : Invalidate(t, f)
        PROVE  Erased(u)'
    BY <1>5, OthersErase, InvalidationBegins
  <1>6. ASSUME NEW t \in Threads, Step(t) PROVE Erased(u)'
    <2>1. CASE u # t
      BY <1>6, <2>1, OthersErase
    <2>2. CASE u = t /\ (Collect(t) \/ EraseId(t) \/ ClearBin(t) \/ \E f \in Files : CloseFile(t, f))
      BY <2>2, CollectErased, ErasureErased, CloseFileErased
    <2>3. CASE u = t /\ ~(Collect(t) \/ EraseId(t) \/ ClearBin(t) \/ \E f \in Files : CloseFile(t, f))
      <3>1. CASE Purge(t)
        <4>1. pc'[t] = "idle"
          BY <3>1, TypeParts DEF Purge, Goto, To, Set, Shape, Typed, PlacesTyped, PerThread
        <4> QED
          BY <1>3, <2>3, <4>1 DEF Invalidating, InvalidationPcs
      <3>2. CASE ~Purge(t)
        <4>1. ~Invalidating(t)
          BY <1>6, <2>3, <3>2 DEF Step, Micro, Retrieve, WaitFound, Insert, WaitInserted, OpenInput,
             ReadPixels, Publish, Answer, CheckMem, FindHand, SweepHead, EnterBin, Look, Evict,
             Finish, Goto, Invalidating, InvalidationPcs
        <4>2. ~Invalidating(t)'
          BY <1>6, <4>1, StepGoes
        <4> QED
          BY <1>3, <2>3, <4>2
      <3> QED
        BY <3>1, <3>2
    <2> QED
      BY <2>1, <2>2, <2>3
  <1> QED
    BY <1>2, <1>4, <1>5, <1>6 DEF Next

\* An invalidation ends: its files' tiles are gone, and no microcache is good.
LEMMA PurgeFresh ==
    ASSUME Shape, Shape', Calm, Fresh, NEW t \in Threads, Purge(t)
    PROVE  EntriesLate' /\ \A u \in Threads : Asked(u)' /\ MicroLate(u)'
  <1>1. PlacesTyped /\ FilesTyped
    BY TypeParts DEF Shape, Typed
  <1> USE DEF Set, PerThread
  <1>2. /\ pc[t] = "purge" /\ UNCHANGED <<tilecache, obj, tile, lasttile>>
        /\ purge' = [u \in Threads |-> TRUE] /\ pc' = [pc EXCEPT ![t] = "idle"]
        /\ floor' = [f \in Files |-> IF f \in target[t] /\ atStart[t][f] > floor[f]
                                     THEN atStart[t][f] ELSE floor[f]]
    BY DEF Purge, Goto, To
  <1>3. Gone(t)
    BY <1>2 DEF Fresh, Erased
  <1>4. ASSUME NEW i \in Entries, obj[tilecache[i]].ready PROVE Late(tilecache[i])'
    <2>1. i \in Ids /\ IdOf(tilecache[i]) = i /\ FileOf[i] \in Files
      BY Names DEF Entries, Shape, Named
    <2>2. FileOf[i] \notin target[t]
      BY <1>3 DEF Gone
    <2>3. floor'[FileOf[i]] = floor[FileOf[i]]
      BY <1>2, <2>1, <2>2
    <2>4. Late(tilecache[i])
      BY <1>4 DEF Fresh, EntriesLate
    <2> QED
      BY <1>2, <2>1, <2>3, <2>4 DEF Late
  <1>5. EntriesLate'
    BY <1>2, <1>4 DEF EntriesLate, Entries
  <1>6. Invalidating(t)
    BY <1>2 DEF Invalidating, InvalidationPcs
  <1>7. ASSUME NEW u \in Threads PROVE Asked(u)' /\ MicroLate(u)'
    <2>1. ~LookingUp(u)
      BY <1>6 DEF Calm
    <2>2. ~LookingUp(u)'
      <3>1. CASE u = t
        BY <1>1, <1>2, <3>1 DEF LookingUp, PlacesTyped
      <3>2. CASE u # t
        BY <1>1, <1>2, <2>1, <3>2 DEF LookingUp, Invalidating, PlacesTyped
      <3> QED
        BY <3>1, <3>2
    <2>3. purge'[u]
      BY <1>2
    <2> QED
      BY <2>2, <2>3 DEF Asked, MicroLate
  <1> QED
    BY <1>5, <1>7

\* Fresh outlasts every step.
LEMMA NextFresh ==
    ASSUME OneInvalidates, Quiet, KeepsPerthread = {}, Shape, Shape', Made, Calm, Calm', Counted,
           Fresh, [Next]_vars
    PROVE  Fresh'
  <1>1. FilesFresh' /\ \A u \in Threads : Erased(u)'
    BY FilesFreshKept, ErasedKept
  <1>2. CASE UNCHANGED vars \/ \E f \in Files : Modify(f)
    <2>1. UNCHANGED <<tilecache, obj, tile, lasttile, purge, floor, pc, want, found, need, inp>>
      BY <1>2 DEF Modify, vars, shared, files, lookup
    <2>2. EntriesLate'
      BY <2>1 DEF Fresh, EntriesLate, Entries, Late
    <2>3. ASSUME NEW u \in Threads PROVE (Asked(u) /\ InputUsed(u) /\ MicroLate(u))'
      <3>1. Asked(u) /\ InputUsed(u) /\ MicroLate(u)
        BY DEF Fresh
      <3>2. Asked(u)'
        BY <2>1, <3>1 DEF Asked, LookingUp, Invalidating, Late
      <3>3. InputUsed(u)' /\ MicroLate(u)'
        BY <2>1, <3>1 DEF InputUsed, MicroLate, Late
      <3> QED
        BY <3>2, <3>3
    <2> QED
      BY <1>1, <2>2, <2>3 DEF Fresh
  <1>3. ASSUME NEW t \in Threads, Bystands(t) \/ Erases(t) \/ Finds(t) PROVE Fresh'
    <2>1. \A u \in Threads : InputUsed(u)'
      BY <1>3, InputUsedKept
    <2>2. CASE Purge(t)
      BY <1>1, <2>1, <2>2, PurgeFresh DEF Fresh
    <2>3. CASE ~Purge(t)
      <3>1. EntriesLate'
        BY <1>3, <2>3, EntriesLateKept
      <3>2. \A u \in Threads : Asked(u)'
        BY <1>3, <2>3, AskedKept
      <3>3. \A u \in Threads : MicroLate(u)'
        BY <1>3, <2>3, MicroLateKept
      <3> QED
        BY <1>1, <2>1, <3>1, <3>2, <3>3 DEF Fresh
    <2> QED
      BY <2>2, <2>3
  <1> QED
    BY <1>2, <1>3, NextDoes

\* Fresh holds at the beginning.
LEMMA InitFresh == Init => Fresh
  <1> SUFFICES ASSUME Init PROVE Fresh
    OBVIOUS
  <1>1. Entries = {} /\ EntriesLate
    BY DEF Init, Entries, EntriesLate
  <1>2. FilesFresh
    BY DEF Init, FilesFresh
  <1>3. ASSUME NEW t \in Threads PROVE Erased(t) /\ Asked(t) /\ InputUsed(t) /\ MicroLate(t)
    <2>1. pc[t] = "idle" /\ inp[t] = Closed /\ tile[t] = None /\ lasttile[t] = None
      BY DEF Init
    <2> QED
      BY <2>1 DEF Erased, Asked, InputUsed, MicroLate, LookingUp
  <1> QED
    BY <1>1, <1>2, <1>3 DEF Fresh

\* A query is answered with the tile it asked for, ready, and, when the tile
\* is valid, no older than its file was when the last invalidation that ended
\* before the query began.  So it is when one thread makes the calls that
\* invalidate, no lookup overlaps them, and nobody keeps a Perthread*.
THEOREM AnswersFresh ==
    ASSUME Quiet, OneInvalidates, KeepsPerthread = {}
    PROVE  Spec => []AnswersAreFresh
  <1> DEFINE Inv == Shape /\ IteratorValid /\ Made /\ Calm /\ Verdict /\ Counted /\ Fresh
  <1>1. Init => Inv
    BY InitShape, InitMade, InitVerdict, InitCounted, InitFresh DEF Init, IteratorValid
  <1>2. Inv /\ [Next]_vars => Inv'
    BY NextShape, NextHeld, NextMade, NextCalm, NextVerdict, NextCounted, NextFresh
  <1>3. ASSUME Inv PROVE AnswersAreFresh
    <2> SUFFICES ASSUME NEW t \in Threads, pc[t] = "answer", found[t]
                 PROVE  /\ IdOf(tile[t]) = want[t] /\ obj[tile[t]].ready
                        /\ obj[tile[t]].valid => obj[tile[t]].ver >= need[t]
      BY DEF AnswersAreFresh
    <2>1. LookingUp(t)
      BY DEF LookingUp, Invalidating, InvalidationPcs
    <2>2. Asked(t) /\ MicroLate(t)
      BY <1>3 DEF Fresh
    <2>3. /\ ~purge[t] /\ need[t] = floor[FileOf[want[t]]]
          /\ tile[t] # None /\ IdOf(tile[t]) = want[t]
      BY <2>1, <2>2 DEF Asked
    <2>4. obj[tile[t]].ready
      BY <1>3, <2>3 DEF Made, Seen, Makes
    <2>5. Late(tile[t])
      BY <2>2, <2>3, <2>4 DEF MicroLate
    <2> QED
      BY <2>3, <2>4, <2>5 DEF Late
  <1> QED
    BY <1>1, <1>2, <1>3, PTL DEF Spec
-----------------------------------------------------------------------------
(* Laps: what the turns of a sweep do, while nobody else moves.            *)

\* The order of the iteration, the entry a sweep is at or goes on from, and
\* the TileIDs it has passed since its turn began.
Ordered(i, j) == BinOf[i] < BinOf[j] \/ (BinOf[i] = BinOf[j] /\ i < j)
Hand(t) == IF pc[t] \in {"find", "evict"} THEN sweepId ELSE key[t]
Passed(t) ==
    IF pc[t] \in {"begin", "next"} THEN {i \in Ids : BinOf[i] < enter[t]}
    ELSE {i \in Ids : Hand(t) # None => Ordered(i, Hand(t))}
\* The entries that it has not doomed, those it keeps, and those that have no
\* second chance any more.
Left(t) == Entries \ {doomed[t]}
Stays(i) == Kept(tilecache[i])
Spent(i) == Stays(i) \/ ~Reused(tilecache[i])
\* In the first whole turn the entries lose their second chance, in the second
\* they are evicted.
Worn(t) ==
    /\ loops[t] >= 1 => \A i \in Left(t) : i \in Passed(t) => Spent(i)
    /\ loops[t] >= 2 => \A i \in Left(t) : Spent(i) /\ (i \in Passed(t) => Stays(i))
    /\ loops[t] >= 3 => \A i \in Left(t) : Stays(i)
Lap(t) ==
    /\ Worn(t)
    /\ pc[t] = "begin" => \A i \in Entries : i \notin Passed(t)
    /\ doomed[t] # None => doomed[t] \in Passed(t)
    /\ pc[t] \in {"find", "evict"} /\ loops[t] >= 1 /\ sweepId # None => tilecache[sweepId] # None
    /\ pc[t] = "finish" /\ MemUsed >= MaxMemory => \A i \in Entries : Stays(i)
Laps == \A t \in Threads : IF sweepMutex = t THEN alone => Lap(t) ELSE loops[t] = 0

\* The order is one of numbers.
LEMMA BinsOrdered ==
    /\ \A i \in Ids : BinOf[i] \in Nat /\ BinOf[i] >= 1 /\ BinOf[i] <= NBins /\ i \in Nat
    /\ \A b \in Bins : b \in Nat /\ b >= 1 /\ b <= NBins
    /\ NBins \in Nat
  <1>1. NBins \in Nat
    BY Names
  <1>2. \A b \in 1..NBins : b \in Nat /\ b >= 1 /\ b <= NBins
    BY <1>1
  <1> QED
    BY <1>1, <1>2, Names DEF Bins

\* A step that wears the entries it newly passes keeps Worn.
LEMMA WornStays ==
    ASSUME NEW t \in Threads, Worn(t), loops'[t] = loops[t],
           \A i \in Left(t)' :
               /\ i \in Left(t) /\ (Stays(i) => Stays(i)') /\ (Spent(i) => Spent(i)')
               /\ i \in Passed(t)' =>
                      i \in Passed(t) \/ (Spent(i)' /\ (loops[t] >= 2 => Stays(i)'))
    PROVE  Worn(t)'
  <1>1. loops[t] >= 1 => \A i \in Left(t)' : i \in Passed(t)' => Spent(i)'
    BY DEF Worn
  <1>2. loops[t] >= 2 => \A i \in Left(t)' : Spent(i)' /\ (i \in Passed(t)' => Stays(i)')
    BY DEF Worn
  <1>3. loops[t] >= 3 => \A i \in Left(t)' : Stays(i)'
    BY DEF Worn
  <1> QED
    BY <1>1, <1>2, <1>3 DEF Worn

\* Where the tiles stay as they are.
LEMMA TilesSame ==
    ASSUME UNCHANGED <<tilecache, obj>>
    PROVE  /\ Entries' = Entries /\ (MemUsed >= MaxMemory)' = (MemUsed >= MaxMemory)
           /\ \A i : Stays(i)' = Stays(i) /\ Spent(i)' = Spent(i)
  <1>1. Entries' = Entries
    BY DEF Entries
  <1>2. (MemUsed >= MaxMemory)' = (MemUsed >= MaxMemory)
    BY DEF MemUsed
  <1>3. ASSUME NEW i PROVE Stays(i)' = Stays(i) /\ Spent(i)' = Spent(i)
    BY DEF Stays, Spent, Kept, Reused
  <1> QED
    BY <1>1, <1>2, <1>3

\* The sweep finds its place again, when nobody else moves.
LEMMA FindHandLap ==
    ASSUME Shape, NEW t \in Threads, Lap(t), FindHand(t)
    PROVE  Lap(t)'
  <1>1. SweepTyped /\ PlacesTyped /\ Fits
    BY TypeParts DEF Shape, Typed
  <1>2. /\ pc[t] = "find" /\ pc'[t] = "sweep"
        /\ UNCHANGED <<tilecache, obj, sweepId, loops, doomed>>
        /\ key'[t] = IF tilecache[sweepId] # None THEN sweepId ELSE None
    BY <1>1 DEF FindHand, Goto, To, At, Set, SweepTyped, PlacesTyped, PerThread
  <1>3. doomed[t] = None /\ sweepId # None
    BY <1>1, <1>2, Fit DEF FitsAt
  <1>4. Left(t)' = Left(t) /\ doomed'[t] = None /\ loops'[t] = loops[t]
    BY <1>2, <1>3, TilesSame DEF Left
  <1>5. Passed(t)' = Passed(t) \/ ~(loops[t] >= 1)
    BY <1>2, <1>3 DEF Passed, Hand, Lap
  <1>6. Worn(t)'
    <2>1. CASE Passed(t)' = Passed(t)
      BY <1>2, <1>4, <2>1, WornStays, TilesSame DEF Lap
    <2>2. CASE ~(loops[t] >= 1)
      <3>1. loops[t] \in Int
        BY <1>1 DEF SweepTyped, PerThread
      <3>2. ~(loops'[t] >= 1) /\ ~(loops'[t] >= 2) /\ ~(loops'[t] >= 3)
        BY <1>4, <2>2, <3>1
      <3> QED
        BY <3>2 DEF Worn
    <2> QED
      BY <1>5, <2>1, <2>2
  <1> QED
    BY <1>2, <1>4, <1>6 DEF Lap

\* A turn begins: what the last one did holds for all.
LEMMA SweepHeadLap ==
    ASSUME Shape, NEW t \in Threads, Lap(t), SweepHead(t), FullLoops >= 3
    PROVE  Lap(t)'
  <1>1. SweepTyped /\ PlacesTyped /\ Fits
    BY TypeParts DEF Shape, Typed
  <1> DEFINE on == MemUsed >= MaxMemory /\ loops[t] < FullLoops
  <1>2. /\ pc[t] = "sweep" /\ UNCHANGED <<tilecache, obj, sweepId, key, doomed>>
        /\ pc'[t] = IF ~on THEN "finish" ELSE IF key[t] = None THEN "begin" ELSE "look"
        /\ IF on /\ key[t] = None THEN loops'[t] = loops[t] + 1 /\ enter'[t] = 1
           ELSE UNCHANGED <<loops, enter>>
    BY <1>1 DEF SweepHead, To, Set, shared, SweepTyped, PlacesTyped, PerThread
  <1>3. doomed[t] = None /\ doomed'[t] = None
    BY <1>1, <1>2, Fit DEF FitsAt
  <1>4. Left(t) = Entries /\ Left(t)' = Entries /\ Entries' = Entries
    <2>1. None \notin Entries
      BY Names DEF Entries
    <2> QED
      BY <1>2, <1>3, <2>1, TilesSame DEF Left
  <1>5. loops[t] \in Nat /\ loops[t] <= FullLoops /\ FullLoops \in Nat
    BY <1>1, Names DEF SweepTyped, PerThread
  <1>6. CASE on /\ key[t] = None
    <2>1. pc'[t] = "begin" /\ enter'[t] = 1 /\ loops'[t] = loops[t] + 1
      BY <1>2, <1>6
    <2>2. Passed(t) = Ids
      BY <1>2, <1>6 DEF Passed, Hand
    <2>3. \A i \in Ids : i \notin Passed(t)'
      BY <2>1, BinsOrdered DEF Passed
    <2>4. Entries \subseteq Ids
      BY DEF Entries
    <2>5. loops'[t] >= 2 => loops[t] >= 1
      BY <1>5, <2>1
    <2>6. loops'[t] >= 3 => loops[t] >= 2
      BY <1>5, <2>1
    <2>7. loops'[t] >= 2 => \A i \in Left(t)' : Spent(i)'
      BY <1>2, <1>4, <2>2, <2>4, <2>5, TilesSame DEF Lap, Worn
    <2>8. loops'[t] >= 3 => \A i \in Left(t)' : Stays(i)'
      BY <1>2, <1>4, <2>2, <2>4, <2>6, TilesSame DEF Lap, Worn
    <2>9. Worn(t)'
      BY <1>4, <2>3, <2>4, <2>7, <2>8 DEF Worn
    <2> QED
      BY <1>3, <1>4, <2>1, <2>3, <2>4, <2>9 DEF Lap
  <1>7. CASE ~(on /\ key[t] = None)
    <2>1. pc'[t] \in {"finish", "look"} /\ loops'[t] = loops[t] /\ key'[t] = key[t]
      BY <1>2, <1>7
    <2>2. Passed(t)' = Passed(t)
      BY <1>2, <2>1 DEF Passed, Hand
    <2>3. Worn(t)'
      BY <1>2, <1>4, <2>1, <2>2, WornStays, TilesSame DEF Lap
    <2>4. pc'[t] = "finish" /\ (MemUsed >= MaxMemory)' => \A i \in Entries' : Stays(i)'
      <3> SUFFICES ASSUME pc'[t] = "finish", (MemUsed >= MaxMemory)'
                   PROVE  \A i \in Entries' : Stays(i)'
        OBVIOUS
      <3>1. MemUsed >= MaxMemory
        BY <1>2, TilesSame
      <3>2. ~on
        BY <1>2, <1>7
      <3>3. loops[t] >= 3
        BY <1>5, <3>1, <3>2
      <3> QED
        BY <1>2, <1>4, <3>3, TilesSame DEF Lap, Worn
    <2> QED
      BY <1>3, <2>1, <2>3, <2>4 DEF Lap
  <1> QED
    BY <1>6, <1>7

\* What the sweep has passed when its iterator stops at k.
LEMMA StopsLap ==
    ASSUME NEW t \in Threads, NEW b \in Bins, NEW k \in MaybeId, StopAt(t, b, k),
           SweepTyped, PlacesTyped, pc[t] \in {"begin", "next", "look"}
    PROVE  /\ Passed(t)' = {i \in Ids : k # None => Ordered(i, k)}
           /\ pc'[t] \in {"finish", "look", "sweep", "evict"}
           /\ pc'[t] = "finish" => pc[t] = "begin" /\ k = None
           /\ pc'[t] = "evict" => sweepId' = k
  <1>1. CASE doomed'[t] = None
    <2>1. /\ key'[t] = k
          /\ pc'[t] = IF pc[t] = "begin" THEN (IF k = None THEN "finish" ELSE "look") ELSE "sweep"
      BY <1>1, Stops
    <2> QED
      BY <2>1 DEF Passed, Hand, Ordered
  <1>2. CASE doomed'[t] # None
    <2>1. pc'[t] = "evict" /\ sweepId' = k
      BY <1>2, Stops DEF StopAt
    <2> QED
      BY <2>1 DEF Passed, Hand, Ordered
  <1> QED
    BY <1>1, <1>2

\* The bins that the iterator goes through are empty, as far as it went.
LEMMA EnterBinLap ==
    ASSUME Shape, NEW t \in Threads, Lap(t), EnterBin(t)
    PROVE  Lap(t)'
  <1> DEFINE b == enter[t]
  <1>1. SweepTyped /\ PlacesTyped /\ Fits
    BY TypeParts DEF Shape, Typed
  <1>2. /\ pc[t] \in {"begin", "next"} /\ UNCHANGED <<tilecache, obj, loops, doomed>>
        /\ doomed'[t] = doomed[t] /\ loops'[t] = loops[t]
    BY DEF EnterBin
  <1>3. b \in Bins /\ Passed(t) = {i \in Ids : BinOf[i] < b}
    BY <1>1, <1>2, Fit DEF FitsAt, Passed
  <1>4. Entries' = Entries /\ Left(t)' = Left(t) /\ Entries \subseteq Ids /\ Left(t) \subseteq Entries
    BY <1>2, TilesSame DEF Left, Entries
  <1> HIDE DEF b
  <1>5. ASSUME \A i \in Entries : i \in Passed(t)' => i \in Passed(t),
               Passed(t) \subseteq Passed(t)',
               pc'[t] = "begin" => pc[t] = "begin",
               pc'[t] = "find" => FALSE,
               pc'[t] = "evict" /\ sweepId' # None => sweepId' \in Entries,
               pc'[t] = "finish" => Entries = {}
        PROVE  Lap(t)'
    <2>1. Worn(t)'
      BY <1>2, <1>4, <1>5, WornStays, TilesSame DEF Lap
    <2>2. pc'[t] = "begin" => \A i \in Entries' : i \notin Passed(t)'
      BY <1>4, <1>5 DEF Lap
    <2>3. doomed'[t] # None => doomed'[t] \in Passed(t)'
      BY <1>2, <1>5 DEF Lap
    <2>4. pc'[t] \in {"find", "evict"} /\ sweepId' # None => tilecache'[sweepId'] # None
      BY <1>2, <1>5 DEF Entries
    <2> QED
      BY <1>4, <1>5, <2>1, <2>2, <2>3, <2>4 DEF Lap
  <1>6. ASSUME NEW k \in MaybeId, StopAt(t, b, k),
               k # None => k \in InBin(b) /\ \A i \in InBin(b) : k <= i,
               k = None => InBin(b) = {} /\ b = NBins
        PROVE  Lap(t)'
    <2>1. /\ Passed(t)' = {i \in Ids : k # None => Ordered(i, k)}
          /\ pc'[t] \in {"finish", "look", "sweep", "evict"}
          /\ pc'[t] = "finish" => pc[t] = "begin" /\ k = None
          /\ pc'[t] = "evict" => sweepId' = k
      BY <1>1, <1>2, <1>3, <1>6, StopsLap
    <2>2. ASSUME NEW i \in Entries, i \in Passed(t)' PROVE i \in Passed(t)
      <3>1. i \in Ids /\ (BinOf[i] = b => i \in InBin(b))
        BY DEF Entries, InBin
      <3>2. CASE k = None
        BY <1>3, <1>6, <3>1, <3>2, BinsOrdered
      <3>3. CASE k # None
        <4>1. k \in Ids /\ BinOf[k] = b
          BY <1>6, <3>3 DEF InBin
        <4>2. BinOf[i] < b \/ (BinOf[i] = b /\ i < k)
          BY <2>1, <2>2, <3>3, <4>1 DEF Ordered
        <4>3. BinOf[i] = b => k <= i
          BY <1>6, <3>1, <3>3
        <4> QED
          BY <1>3, <3>1, <4>1, <4>2, <4>3, BinsOrdered
      <3> QED
        BY <3>2, <3>3
    <2>3. Passed(t) \subseteq Passed(t)'
      <3>1. k # None => k \in Ids /\ BinOf[k] = b
        BY <1>6 DEF InBin
      <3> QED
        BY <1>3, <2>1, <3>1 DEF Ordered
    <2>4. k # None => k \in Entries
      BY <1>6 DEF InBin, Entries
    <2>5. pc'[t] = "finish" => Entries = {}
      <3>1. k = None => Passed(t)' = Ids
        BY <2>1
      <3> QED
        BY <1>4, <2>1, <2>2, <3>1 DEF Lap
    <2> QED
      BY <1>5, <2>1, <2>2, <2>3, <2>4, <2>5
  <1>7. CASE InBin(b) # {} /\ StopAt(t, b, Min(InBin(b)))
    <2>1. InBin(b) \in SUBSET InBin(b) /\ InBin(b) \in SUBSET Nat
      BY Names DEF InBin
    <2>2. Min(InBin(b)) \in Ids /\ Min(InBin(b)) \in InBin(b)
      BY <1>7, <2>1, LeastEntry
    <2>3. \A i \in InBin(b) : Min(InBin(b)) <= i
      BY <1>7, <2>1, MinOf
    <2>4. Min(InBin(b)) \in MaybeId /\ Min(InBin(b)) # None
      BY <2>2, Names DEF MaybeId
    <2> QED
      BY <1>6, <1>7, <2>2, <2>3, <2>4
  <1>8. CASE InBin(b) = {} /\ b < NBins /\ enter' = Set(enter, t, b + 1) /\ To(t, pc[t])
             /\ UNCHANGED sweepId
    <2>1. pc'[t] = pc[t] /\ enter'[t] = b + 1
      BY <1>1, <1>8 DEF Set, To, SweepTyped, PlacesTyped, PerThread
    <2>2. Passed(t)' = {i \in Ids : BinOf[i] < b + 1}
      BY <1>2, <2>1 DEF Passed
    <2>3. ASSUME NEW i \in Entries, i \in Passed(t)' PROVE i \in Passed(t)
      <3>1. i \in Ids /\ BinOf[i] # b
        BY <1>8 DEF Entries, InBin
      <3> QED
        BY <1>3, <2>2, <2>3, <3>1, BinsOrdered
    <2>4. Passed(t) \subseteq Passed(t)'
      BY <1>3, <2>2, BinsOrdered
    <2> QED
      BY <1>2, <1>5, <2>1, <2>3, <2>4
  <1>9. CASE InBin(b) = {} /\ b = NBins /\ StopAt(t, b, None)
    BY <1>6, <1>9 DEF MaybeId
  <1> QED
    BY <1>7, <1>8, <1>9 DEF EnterBin, b

\* The entry that the sweep looks at loses its second chance, or is doomed.
LEMMA LookLap ==
    ASSUME Shape, IteratorValid, NEW t \in Threads, Lap(t), Look(t)
    PROVE  Lap(t)'
  <1>0. PICK k : k = key[t]
    OBVIOUS
  <1> DEFINE b == BinOf[k]
             o == tilecache[k]
             rest == {i \in InBin(b) : i > k}
  <1>1. SweepTyped /\ PlacesTyped /\ ObjsTyped /\ Fits /\ Named
    BY TypeParts DEF Shape, Typed
  <1>2. /\ pc[t] = "look" /\ UNCHANGED <<tilecache, loops>> /\ loops'[t] = loops[t]
        /\ obj' = IF Kept(o) THEN obj ELSE [obj EXCEPT ![o].used = FALSE]
        /\ doomed' = Set(doomed, t, IF Kept(o) \/ Reused(o) THEN None ELSE k)
    BY <1>0 DEF Look
  <1>3. k # None /\ doomed[t] = None
    BY <1>0, <1>1, <1>2, Fit DEF FitsAt
  <1>4. k \in Ids /\ b \in Bins /\ o # None /\ k \in Entries
    <2>1. k \in Ids
      BY <1>0, <1>1, <1>3 DEF SweepTyped, MaybeId, PerThread
    <2> QED
      BY <1>0, <1>3, <2>1, Names DEF IteratorValid, Entries
  <1>5. doomed'[t] = IF Kept(o) \/ Reused(o) THEN None ELSE k
    BY <1>1, <1>2 DEF Set, SweepTyped, PerThread
  <1>6. Passed(t) = {i \in Ids : Ordered(i, k)}
    BY <1>0, <1>2, <1>3 DEF Passed, Hand
  <1>7. Entries' = Entries /\ Entries \subseteq Ids /\ Left(t) = Entries
    <2>1. None \notin Entries
      BY Names DEF Entries
    <2> QED
      BY <1>2, <1>3, <2>1 DEF Entries, Left
  <1>8. ASSUME NEW i \in Entries, i # k
        PROVE  Stays(i)' = Stays(i) /\ Spent(i)' = Spent(i)
    <2>1. tilecache[i] # o /\ tilecache[i] \in Live /\ tilecache'[i] = tilecache[i]
      <3>1. i \in Ids /\ IdOf(tilecache[i]) = i /\ IdOf(o) = k /\ tilecache[i] # None
        BY <1>1, <1>4, <1>8 DEF Named, Entries
      <3> QED
        BY <1>2, <1>8, <3>1 DEF Live, LiveIn
    <2>2. obj'[tilecache[i]] = obj[tilecache[i]]
      BY <1>1, <1>2, <2>1 DEF ObjsTyped
    <2> QED
      BY <2>1, <2>2 DEF Stays, Spent, Kept, Reused
  <1>9. /\ Stays(k) => Stays(k)'
        /\ Spent(k)' \/ doomed'[t] = k
        /\ Spent(k) => Stays(k)' \/ doomed'[t] = k
    <2>1. o \in Live /\ tilecache'[k] = o /\ obj[o] \in Tile /\ DOMAIN obj = Live
      BY <1>1, <1>2, <1>4 DEF Live, LiveIn, ObjsTyped
    <2>2. CASE Kept(o)
      <3>1. obj' = obj
        BY <1>2, <2>2
      <3> QED
        BY <2>1, <2>2, <3>1 DEF Stays, Spent, Kept, Reused
    <2>3. CASE ~Kept(o)
      <3>1. obj' = [obj EXCEPT ![o].used = FALSE]
        BY <1>2, <2>3
      <3>2. obj'[o].used = FALSE
        BY <2>1, <3>1 DEF Tile
      <3>3. ~Reused(tilecache[k])'
        BY <2>1, <3>2 DEF Reused
      <3>4. ~Reused(o) => doomed'[t] = k
        BY <1>5, <2>3
      <3> QED
        BY <2>3, <3>3, <3>4 DEF Stays, Spent
    <2> QED
      BY <2>2, <2>3
  <1> HIDE DEF b, o, rest
  <1>10. ASSUME \A i \in Entries : i \in Passed(t)' => i \in Passed(t) \/ i = k,
                k \in Passed(t)',
                pc'[t] \in {"next", "sweep", "evict"},
                pc'[t] = "evict" /\ sweepId' # None => sweepId' \in Entries
         PROVE  Lap(t)'
    <2>1. ASSUME NEW i \in Left(t)'
          PROVE  /\ i \in Left(t) /\ (Stays(i) => Stays(i)') /\ (Spent(i) => Spent(i)')
                 /\ i \in Passed(t)' =>
                      i \in Passed(t) \/ (Spent(i)' /\ (loops[t] >= 2 => Stays(i)'))
      <3>1. i \in Entries /\ i # doomed'[t] /\ i \in Left(t)
        BY <1>7, <2>1 DEF Left
      <3>2. CASE i # k
        BY <1>8, <1>10, <3>1, <3>2
      <3>3. CASE i = k
        <4>1. (Stays(k) => Stays(k)') /\ Spent(k)' /\ (Spent(k) => Stays(k)')
          BY <1>9, <3>1, <3>3
        <4>2. loops[t] >= 2 => Spent(k)
          BY <3>1, <3>3 DEF Lap, Worn
        <4> QED
          BY <3>1, <3>3, <4>1, <4>2
      <3> QED
        BY <3>2, <3>3
    <2>2. Worn(t)'
      BY <1>2, <2>1, WornStays DEF Lap
    <2>3. doomed'[t] # None => doomed'[t] \in Passed(t)'
      BY <1>5, <1>10
    <2>4. pc'[t] = "evict" /\ sweepId' # None => tilecache'[sweepId'] # None
      BY <1>2, <1>10 DEF Entries
    <2> QED
      BY <1>10, <2>2, <2>3, <2>4 DEF Lap
  <1>11. ASSUME NEW n \in MaybeId, StopAt(t, b, n),
                n # None => n \in rest /\ \A i \in rest : n <= i,
                n = None => rest = {} /\ b = NBins
         PROVE  Lap(t)'
    <2>1. /\ Passed(t)' = {i \in Ids : n # None => Ordered(i, n)}
          /\ pc'[t] \in {"sweep", "evict"}
          /\ pc'[t] = "evict" => sweepId' = n
      <3>1. /\ Passed(t)' = {i \in Ids : n # None => Ordered(i, n)}
            /\ pc'[t] \in {"finish", "look", "sweep", "evict"}
            /\ pc'[t] = "finish" => pc[t] = "begin" /\ n = None
            /\ pc'[t] = "evict" => sweepId' = n
        BY <1>1, <1>2, <1>4, <1>11, StopsLap
      <3>2. pc'[t] # "look"
        BY <1>1, <1>2, <1>4, <1>11, Stops
      <3> QED
        BY <1>2, <3>1, <3>2
    <2>2. ASSUME NEW i \in Entries, i \in Passed(t)' PROVE i \in Passed(t) \/ i = k
      <3>1. i \in Ids /\ (BinOf[i] = b /\ i > k => i \in rest)
        BY DEF Entries, InBin, rest
      <3>2. CASE n = None
        <4>1. ~(BinOf[i] = b /\ i > k) /\ b = NBins
          BY <1>11, <3>1, <3>2
        <4> QED
          BY <1>4, <1>6, <3>1, <4>1, BinsOrdered DEF Ordered, b
      <3>3. CASE n # None
        <4>1. n \in Ids /\ BinOf[n] = b
          BY <1>11, <3>3 DEF InBin, rest
        <4>2. BinOf[i] < b \/ (BinOf[i] = b /\ i < n)
          BY <2>1, <2>2, <3>3, <4>1 DEF Ordered
        <4>3. i \in rest => n <= i
          BY <1>11, <3>3
        <4> QED
          BY <1>4, <1>6, <3>1, <4>1, <4>2, <4>3, BinsOrdered DEF Ordered, b
      <3> QED
        BY <3>2, <3>3
    <2>3. k \in Passed(t)'
      <3>1. n # None => n \in Ids /\ BinOf[n] = b /\ n > k
        BY <1>11 DEF InBin, rest
      <3> QED
        BY <1>4, <2>1, <3>1, BinsOrdered DEF Ordered, b
    <2>4. n # None => n \in Entries
      BY <1>11 DEF InBin, rest, Entries
    <2> QED
      BY <1>10, <2>1, <2>2, <2>3, <2>4
  <1>12. CASE rest # {} /\ StopAt(t, b, Min(rest))
    <2>1. rest \in SUBSET InBin(b) /\ rest \in SUBSET Nat
      BY Names DEF InBin, rest
    <2>2. Min(rest) \in Ids /\ Min(rest) \in rest
      BY <1>12, <2>1, LeastEntry
    <2>3. \A i \in rest : Min(rest) <= i
      BY <1>12, <2>1, MinOf
    <2>4. Min(rest) \in MaybeId /\ Min(rest) # None
      BY <2>2, Names DEF MaybeId
    <2> QED
      BY <1>11, <1>12, <2>2, <2>3, <2>4
  <1>13. CASE rest = {} /\ b = NBins /\ StopAt(t, b, None)
    BY <1>11, <1>13 DEF MaybeId
  <1>14. CASE rest = {} /\ b < NBins /\ enter' = Set(enter, t, b + 1) /\ To(t, "next")
    <2>1. pc'[t] = "next" /\ enter'[t] = b + 1
      BY <1>1, <1>14 DEF Set, To, SweepTyped, PlacesTyped, PerThread
    <2>2. Passed(t)' = {i \in Ids : BinOf[i] < b + 1}
      BY <2>1 DEF Passed
    <2>3. ASSUME NEW i \in Entries, i \in Passed(t)' PROVE i \in Passed(t) \/ i = k
      <3>1. i \in Ids /\ ~(BinOf[i] = b /\ i > k)
        BY <1>14 DEF Entries, InBin, rest
      <3> QED
        BY <1>4, <1>6, <2>2, <2>3, <3>1, BinsOrdered DEF Ordered, b
    <2>4. k \in Passed(t)'
      BY <1>4, <2>2, BinsOrdered DEF b
    <2> QED
      BY <1>10, <2>1, <2>3, <2>4
  <1> QED
    BY <1>0, <1>12, <1>13, <1>14 DEF Look, b, o, rest

\* The doomed entry is gone; the one after it is still there.
LEMMA EvictLap ==
    ASSUME Shape, NEW t \in Threads, Lap(t), Evict(t)
    PROVE  Lap(t)'
  <1>1. SweepTyped /\ PlacesTyped /\ ObjsTyped /\ CountsTyped /\ Fits /\ Named
    BY TypeParts DEF Shape, Typed
  <1> DEFINE d == doomed[t]
  <1>2. /\ pc[t] = "evict" /\ UNCHANGED <<sweepId, key, loops>> /\ EraseEntry(d)
        /\ pc'[t] = (IF sweepId = None THEN "sweep" ELSE "find") /\ doomed'[t] = None
    BY <1>1 DEF Evict, To, Set, SweepTyped, PlacesTyped, PerThread
  <1>3. d # None /\ key[t] = None /\ loops'[t] = loops[t] /\ key'[t] = None
    BY <1>1, <1>2, Fit DEF FitsAt
  <1>4. d \in Ids
    BY <1>1, <1>3 DEF SweepTyped, MaybeId, PerThread
  <1>5. /\ \A j \in Ids : tilecache'[j] = IF j = d THEN None ELSE tilecache[j]
        /\ \A x \in Live' : obj'[x] = obj[x]
    BY <1>1, <1>2, <1>4, EraseTyped
  <1>6. Passed(t)' = Passed(t)
    BY <1>2, <1>3 DEF Passed, Hand, Ordered
  <1>7. Left(t)' = Left(t) /\ Left(t) \subseteq Ids
    <2>1. Entries' = Entries \ {d}
      BY <1>5 DEF Entries
    <2>2. None \notin Entries'
      BY Names DEF Entries
    <2> QED
      BY <1>2, <2>1, <2>2 DEF Left, Entries
  <1>8. ASSUME NEW i \in Left(t) PROVE Stays(i)' = Stays(i) /\ Spent(i)' = Spent(i)
    <2>1. tilecache'[i] = tilecache[i] /\ tilecache'[i] # None /\ i \in Ids
      BY <1>5, <1>7, <1>8 DEF Left, Entries
    <2>2. tilecache'[i] \in Live'
      BY <2>1 DEF Live, LiveIn
    <2>3. obj'[tilecache[i]] = obj[tilecache[i]]
      BY <1>5, <2>1, <2>2
    <2> QED
      BY <2>1, <2>3 DEF Stays, Spent, Kept, Reused
  <1>9. Worn(t)'
    BY <1>3, <1>6, <1>7, <1>8, WornStays DEF Lap
  <1>10. loops[t] >= 1 /\ sweepId # None => tilecache'[sweepId] # None
    <2> SUFFICES ASSUME loops[t] >= 1, sweepId # None PROVE tilecache'[sweepId] # None
      OBVIOUS
    <2>1. sweepId \in Ids /\ tilecache[sweepId] # None
      BY <1>1, <1>2 DEF SweepTyped, MaybeId, Lap
    <2>2. Ordered(d, sweepId)
      BY <1>2, <1>3, <2>1 DEF Lap, Passed, Hand
    <2>3. d # sweepId
      BY <2>1, <2>2, BinsOrdered DEF Ordered
    <2> QED
      BY <1>5, <2>1, <2>3
  <1> QED
    BY <1>2, <1>3, <1>9, <1>10 DEF Lap

\* What is no step of a sweep is not the sweeping thread's.
LEMMA OthersLap ==
    ASSUME Shape, Laps, NEW t \in Threads,
           \/ Micro(t) \/ Retrieve(t) \/ WaitFound(t) \/ Insert(t) \/ WaitInserted(t)
           \/ OpenInput(t) \/ ReadPixels(t) \/ Publish(t) \/ Answer(t)
           \/ Collect(t) \/ EraseId(t) \/ ClearBin(t) \/ Purge(t) \/ InvalidateAll(t)
           \/ \E f \in Files : CloseFile(t, f) \/ Invalidate(t, f)
           \/ \E id \in Ids : Lookup(t, id)
    PROVE  Laps'
  <1>1. Fits
    BY DEF Shape
  <1>2. pc[t] \notin SweepPcs
    BY DEF Micro, Retrieve, WaitFound, Insert, WaitInserted, OpenInput, ReadPixels, Publish,
       Answer, Collect, EraseId, ClearBin, Purge, CloseFile, InvalidateAll, Invalidate,
       MayInvalidate, Lookup, Goto, SweepPcs
  <1>3. sweepMutex # t
    BY <1>1, <1>2, Fit DEF FitsAt
  <1>4. UNCHANGED <<sweepMutex, loops>>
    BY DEF Micro, Retrieve, WaitFound, Insert, WaitInserted, OpenInput, ReadPixels, Publish,
       Answer, Collect, EraseId, ClearBin, Purge, CloseFile, InvalidateAll, Invalidate,
       Lookup, shared, sweep
  <1>5. \E p : To(t, p)
    <2>1. CASE \/ Micro(t) \/ Retrieve(t) \/ WaitFound(t) \/ Insert(t) \/ WaitInserted(t)
      BY <2>1 DEF Micro, Retrieve, WaitFound, Insert, WaitInserted, Goto
    <2>2. CASE OpenInput(t) \/ ReadPixels(t) \/ Publish(t) \/ Answer(t) \/ \E id \in Ids : Lookup(t, id)
      BY <2>2 DEF OpenInput, ReadPixels, Publish, Answer, Lookup, Goto
    <2>3. CASE Collect(t) \/ EraseId(t) \/ ClearBin(t) \/ Purge(t)
      BY <2>3 DEF Collect, EraseId, ClearBin, Purge, Goto
    <2>4. CASE InvalidateAll(t) \/ \E f \in Files : CloseFile(t, f) \/ Invalidate(t, f)
      BY <2>4 DEF InvalidateAll, CloseFile, Invalidate
    <2> QED
      BY <2>1, <2>2, <2>3, <2>4
  <1>6. ~alone'
    BY <1>3, <1>5 DEF To
  <1> QED
    BY <1>4, <1>6 DEF Laps

\* A sweep begins without a turn behind it.
LEMMA CheckMemLap ==
    ASSUME Shape, Laps, NEW t \in Threads, CheckMem(t)
    PROVE  Laps'
  <1>1. PlacesTyped /\ Fits
    BY TypeParts DEF Shape, Typed
  <1>2. /\ pc[t] = "check mem" /\ UNCHANGED <<loops, doomed>>
        /\ \/ sweepMutex' = sweepMutex /\ To(t, "answer")
           \/ sweepMutex = None /\ sweepMutex' = t /\ pc'[t] \in {"sweep", "find"}
    BY <1>1 DEF CheckMem, sweep, Set, PlacesTyped, PerThread
  <1>3. sweepMutex # t /\ doomed[t] = None
    BY <1>1, <1>2, Fit DEF FitsAt, SweepPcs
  <1>4. CASE sweepMutex' = sweepMutex /\ To(t, "answer")
    BY <1>2, <1>3, <1>4 DEF Laps, To
  <1>5. CASE sweepMutex = None /\ sweepMutex' = t /\ pc'[t] \in {"sweep", "find"}
    <2>1. loops'[t] = 0 /\ doomed'[t] = None
      BY <1>2, <1>3 DEF Laps
    <2>2. Lap(t)'
      BY <1>5, <2>1 DEF Lap, Worn
    <2>3. ASSUME NEW u \in Threads \ {t} PROVE loops'[u] = 0 /\ sweepMutex' # u
      BY <1>2, <1>5, <2>3, Names DEF Laps
    <2> QED
      BY <1>5, <2>2, <2>3 DEF Laps
  <1> QED
    BY <1>2, <1>4, <1>5

\* The sweeping thread goes on, or ends its sweep.
LEMMA SweepLap ==
    ASSUME Shape, IteratorValid, Laps, FullLoops >= 3, NEW t \in Threads,
           FindHand(t) \/ SweepHead(t) \/ EnterBin(t) \/ Look(t) \/ Evict(t) \/ Finish(t)
    PROVE  Laps'
  <1>1. SweepTyped /\ PlacesTyped /\ Fits
    BY TypeParts DEF Shape, Typed
  <1>2. pc[t] \in SweepPcs /\ sweepMutex = t
    <2>1. pc[t] \in SweepPcs
      BY DEF FindHand, SweepHead, EnterBin, Look, Evict, Finish, Goto, SweepPcs
    <2> QED
      BY <1>1, <2>1, Fit DEF FitsAt
  <1>3. \A u \in Threads \ {t} : loops[u] = 0 /\ loops'[u] = loops[u]
    <2>1. \A u \in Threads \ {t} : loops[u] = 0
      BY <1>2 DEF Laps
    <2>2. loops' = loops \/ \E n : loops' = Set(loops, t, n)
      BY DEF FindHand, SweepHead, EnterBin, Look, Evict, Finish, sweep
    <2> QED
      BY <1>1, <2>1, <2>2 DEF Set, SweepTyped, PerThread
  <1>4. CASE Finish(t)
    <2>1. loops'[t] = 0 /\ sweepMutex' = None
      BY <1>1, <1>4 DEF Finish, Set, SweepTyped, PerThread
    <2> QED
      BY <1>3, <2>1, Names DEF Laps
  <1>5. CASE ~Finish(t)
    <2>1. sweepMutex' = t
      BY <1>2, <1>5 DEF FindHand, SweepHead, EnterBin, Look, Evict, shared
    <2>2. alone' => alone
      <3>1. CASE FindHand(t) \/ SweepHead(t) \/ Evict(t)
        BY <3>1 DEF FindHand, SweepHead, Evict, Goto, To
      <3>2. CASE EnterBin(t) \/ Look(t)
        BY <3>2 DEF EnterBin, Look, StopAt, To
      <3> QED
        BY <1>5, <3>1, <3>2
    <2>3. alone' => Lap(t)'
      BY <1>2, <1>5, <2>2, FindHandLap, SweepHeadLap, EnterBinLap, LookLap, EvictLap DEF Laps
    <2> QED
      BY <1>3, <2>1, <2>3 DEF Laps
  <1> QED
    BY <1>4, <1>5

\* Every step keeps Laps.
LEMMA NextLaps ==
    ASSUME Shape, IteratorValid, Laps, FullLoops >= 3, [Next]_vars
    PROVE  Laps'
  <1>1. ASSUME NEW t \in Threads, Step(t) PROVE Laps'
    BY <1>1, OthersLap, CheckMemLap, SweepLap DEF Step
  <1>2. ASSUME NEW t \in Threads, NEW id \in Ids, Lookup(t, id) PROVE Laps'
    BY <1>2, OthersLap
  <1>3. ASSUME NEW t \in Threads, NEW f \in Files, Invalidate(t, f) PROVE Laps'
    BY <1>3, OthersLap
  <1>4. ASSUME NEW t \in Threads, InvalidateAll(t) PROVE Laps'
    BY <1>4, OthersLap
  <1>5. CASE UNCHANGED vars \/ \E f \in Files : Modify(f)
    <2>1. /\ UNCHANGED <<tilecache, obj, sweepMutex, alone, loops, doomed, pc, sweepId, key, enter>>
      BY <1>5 DEF Modify, vars, shared, sweep
    <2>2. ASSUME NEW t PROVE Lap(t)' = Lap(t)
      <3>1. Passed(t)' = Passed(t)
        BY <2>1 DEF Passed, Hand, Ordered
      <3>2. Left(t)' = Left(t) /\ Entries' = Entries
        BY <2>1, TilesSame DEF Left
      <3> QED
        BY <2>1, <3>1, <3>2, TilesSame DEF Lap, Worn
    <2> QED
      BY <2>1, <2>2 DEF Laps
  <1> QED
    BY <1>1, <1>2, <1>3, <1>4, <1>5 DEF Next

\* A sweep of check_max_mem during which nobody else moves, and whose limit
\* of turns is three at least (it is 100), leaves more tiles than the limit
\* allows only if release() keeps them all.
THEOREM SweepEvicts ==
    ASSUME FullLoops >= 3
    PROVE  Spec => []SweepReclaims
  <1>1. Init => Laps
    BY Names DEF Init, Laps
  <1>2. Shape /\ IteratorValid /\ Laps /\ [Next]_vars => Laps'
    BY NextLaps
  <1>3. Shape /\ Laps => SweepReclaims
    <2> SUFFICES ASSUME Shape, Laps, NEW t \in Threads, pc[t] = "finish", alone,
                        MemUsed >= MaxMemory
                 PROVE  \A i \in Entries : Kept(tilecache[i])
      BY DEF SweepReclaims
    <2>1. sweepMutex = t
      BY Fit DEF FitsAt, SweepPcs, Shape
    <2> QED
      BY <2>1 DEF Laps, Lap, Stays
  <1>4. Init => Shape /\ IteratorValid
    BY InitShape DEF Init, IteratorValid
  <1>5. Shape /\ IteratorValid /\ [Next]_vars => Shape' /\ IteratorValid'
    BY NextShape, NextHeld
  <1> QED
    BY <1>1, <1>2, <1>3, <1>4, <1>5, PTL DEF Spec
=============================================================================
