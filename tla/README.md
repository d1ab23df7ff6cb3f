# OpenImageIO: a TLA+ verification project

This directory holds TLA+ models of the concurrent core of OpenImageIO (the locks,
the thread pool, the sharded hash map, the image cache and the string table) and
of its deep images, TLC configurations that check them on small instances, and
TLAPS proofs of the properties that matter most for every instance. All paths are
relative to the repository root; the sources are under `src/` of the repository.

## 1. Inventory of the system

| Component | Source | State | Operations | What is hard |
|---|---|---|---|---|
| Spin locks | `include/OpenImageIO/thread.h` | one atomic word per lock | `lock`, `try_lock`, `read_lock`, `write_lock`, the unlocks | readers touch the word while a writer is inside; weak compare-exchange; starvation |
| Thread pool | `libutil/thread.cpp`, `thread.h` | task queue, per-thread stop flags, `isStop`, `isDone`, `m_size`, worker-id registry, condition variable | `push`, `run_one_task`, `resize`, `stop`, `is_worker`, `task_set::wait` | a push racing a worker that goes to sleep; a stop flag racing a queued task; an early return that skips the deregistration; tasks that wait for tasks |
| Parallel loops | `libutil/thread.cpp`, `parallel.h` | recursion depth of the thread | `parallel_for_chunked`, `parallel_for_chunked_2D`, `paropt::resolve` | every index exactly once, whatever the chunk size; recursion inside pool threads |
| Sharded hash map | `unordered_map_concurrent.h` | bins with a lock each, the global entry count | `retrieve`, `insert_retrieve`, `find`, iteration, `erase`, `clear` | iterators carry a bin's lock; two threads erase the same key; count against content |
| Reference counts | `refcnt.h` | a counter per object | `intrusive_ptr`, `_incref`, `_decref` | last release races a new reference |
| Image cache: tiles | `libtexture/imagecache.cpp`, `imagecache_pvt.h` | the tile map, tile flags (`m_used`, `m_valid`, `m_pixels_ready`), `m_mem_used`, clock hand, per-thread microcaches | `find_tile`, `add_tile_to_cache`, `check_max_mem`, `get_tile`/`release_tile`, `invalidate`, `invalidate_all` | lookup, read and insertion are not atomic; eviction drops the bin lock before it erases; invalidation races readers |
| Image cache: files | same | file map, `m_validspec`, `m_broken`, `m_input`, open-file count, fingerprints and duplicates, file clock hand | `find_file`, `verify_file`, `open`, `release`, `check_max_files`, `invalidate`, `close` | lock order between the file's mutex and the bins of the file map; double-checked opening; duplicates that outlive their original |
| Texture system | `libtexture/texturesys.cpp`, `texture3d.cpp`, `environment.cpp` | per-thread state, options | lookups through the cache | numerical filtering; its concurrency is the cache's |
| String table | `libutil/ustring.cpp` | open-addressed table per bin, reverse map from hashes, list of collisions | `make_unique`, `from_hash`, `lookup`, `insert`, `grow` | two maps under different locks; hash collisions and rehashing; growth while others probe |
| ImageBuf | `libOpenImageIO/imagebuf.cpp` | validity flags, local pixels or cache backing | `init_spec`, `read`, `validate_pixels` | lock-free reads of flags that guard other fields |
| Deep data | `libOpenImageIO/deepdata.cpp`, `imagebufalgo_deep.cpp` | samples, capacities, cumulative capacities, one array | `set_capacity`, `insert_samples`, `erase_samples`, `split`, `sort`, `merge_*`, `occlusion_cull`, `deep_merge`, `deep_holdout` | offsets and capacity bookkeeping over long call sequences; loops that insert and erase under themselves |
| Plugin registry | `libOpenImageIO/imageioplugin.cpp` | format catalogues | `declare_imageio_format`, `catalog_all_plugins`, `create` | lock released and retaken around loading |
| Format readers and writers | `*.imageio` | per file | decode, encode | I/O and byte formats |
| ImageBufAlgo, SIMD, colour, tools | `libOpenImageIO`, `oiiotool`, `iv`, `maketx`, ... | none or per call | numerics, command lines | numerical, not concurrent |

How they interact: every cache lookup goes file map -> file mutex -> tile map;
the tile and file maps are instances of the sharded hash map, whose bins are
spin reader/writer locks. The parallel loops push to the thread pool and wait in
a `task_set`, whose waiting thread runs queued tasks itself unless it is already
a worker.

What makes each correct: the locks exclude each other and somebody gets in; the
pool runs every task once and nobody sleeps through a wakeup; a loop runs every
index once and ends; the map's count is the number of its entries and iterators
stay on entries that exist; a cached tile is read by one thread, a wait for it
ends, eviction frees what it may and nothing that is being read, an answer is
not older than the last invalidation; files opened stay within the limit and no
thread waits for a lock whose holder waits for it; a string has one
representation for good, found by its hash; the samples of a deep pixel are its
own and show what was put in; flags are set after what they guard.

## 2. Plan

Built:

1. `RWLock`, `SpinRWMutex`, `SpinRWMutexProofs`: the lock everything rests on,
   its refinement of an abstract reader/writer lock, and the proofs of both.
2. `TileCache`, `TileCacheProofs`: tile map, clock eviction, microcaches and
   invalidation. It composes with the lock by taking bins for locks that keep
   `RWLock`'s promises.
3. `ThreadPool`, `ThreadPoolProofs`: queue, sleeping and waking workers, resize,
   task sets, loops; `ParallelChunks`, `ParallelChunksProofs`: the arithmetic of
   the chunks that loops hand out.
4. `FileCache`, `FileCacheProofs`: file map, file mutexes, opening, the open-file
   limit and its clock, fingerprints and duplicates, closing and invalidation.
5. `Interning`, `UstringTable`, `UstringTableProofs`: what the string table
   promises, and the hash table with its reverse map that keeps the promise.
6. `DeepImage`, `DeepData`, `DeepDataProofs`: what the operations on deep pixels
   promise, and the one array with capacities and prefix sums that keeps the promise.

`DataLemmas` has the facts on numbers, finite sets and queues that the proofs share.

To come: an abstract read-through cache that `TileCache` implements; lookups of
the image cache that go through `FileCache` and `TileCache` both; the counter of
`refcnt.h`.

## 3. The modules and the code

**RWLock** is what a reader/writer lock promises: sets of readers and writers,
one step to get in, one to leave. **SpinRWMutex** is `spin_rw_mutex`
(`thread.h`): `m_bits` counts readers and has a bit for the writer, `WRITER`.
Every atomic operation on the word is a step of its own: `ReadFetchAdd` and
`ReadUndo` are the optimistic increment of `read_lock` and its withdrawal,
`ReadReload`, `ReadCasSucceeds` and `ReadCasFails` its slow path (compare-exchange
is weak, so it may fail for nothing), `WriteCasSucceeds` the attempt of
`write_lock`, `ReadUnlock` and `WriteUnlock` the releases. Threads that take the
lock are mapped onto `RWLock`'s readers and writers.

**TileCache** has a thread per lookup, each a program counter over the steps of
`find_tile`: its two-tile microcache (`Micro`), the shared map (`Retrieve`), the
making of a tile, opening of the file's input and reading its pixels (`OpenInput`,
`ReadPixels`, `Publish`), the insertion that may find another thread's tile
(`Insert`), and the wait for pixels (`WaitFound`, `WaitInserted`). `CheckMem`,
`FindHand`, `SweepHead`, `Look`, `EraseEntry`, `Evict` and `Finish` are the clock
of `check_max_mem`; `EnterBin` and `StopAt` are the map's iterator, which locks
one bin at a time. `Invalidate`, `InvalidateAll`, `Collect`, `EraseId`, `ClearBin`,
`CloseFile` and `Purge` are invalidation. A tile object is its TileID and a
number; a reference is a variable that names it, so the count is derived and the
object goes with its last reference. Of a file there is only the version of the
pixels its open input sees. `floor` remembers the oldest version that no
invalidation has made illegal.

**ThreadPool** has clients and workers, each with a program counter. A loop is a
set of tasks that its thread hands out in order (`Chunk`): it runs the last one
itself, and any one when the pool is very busy or has no threads. Whether it is
single-threaded, and runs all of them, a loop decides once, as it begins with no
worker in the pool (`LoopPlace`), and sticks to it if the pool grows. Others are
pushed in two steps (`Enqueue`, `Notify`: the queue has its own lock, the wakeup
another). A waiting client helps (`Help`, `Enlist`, `Run`, `Complete`, `Retire`),
a waiting worker blocks. A worker pops, runs, looks at its flag (`Pop`,
`CheckFlag`), and with nothing to do takes the mutex, evaluates the predicate and
sleeps (`Lock`, `Predicate`, `Sleep`), to be woken by a push, by resizing, by
destruction or spuriously. The owner flags workers one by one, wakes and joins
them (`Shrink`, `FlagOne`, `Wake`, `Join`, `SetSize`) or starts more (`Grow`), and
destroys the pool when no client uses it (`Stop`, `StopJoin`). Tasks have at most
one loop inside them; which task runs is data, what it computes is left out.

**ParallelChunks** is pure: `ChunkSize`, `Chunks` and `Chunks2D` are what
`parallel_for_chunked_id` and `parallel_for_chunked_2D_id` make of a range, the
size asked for and the number of threads. `MCThreadPool` extends it, so that the
pool's run checks it, too: `ChunksCoverOnce` looks at every step in which a
client's loop begins, with the threads the pool has at that moment (its workers
and the caller) and whether its queue is very long. A `minitems` of 0 is
excluded: it makes chunks of size 0 and a loop without end, and nothing in the
repository asks for it.

**FileCache** has clients that query (`get_pixels`, by name or handle, and
`get_imagespec`), close and invalidate. A query finds its file (`Find`), goes
through `verify_file` (`Verify` ... `Use`: the second look at `validspec()` under
the file's mutex, opening, the comparison with the file that has the same
fingerprint), and reads what it is redirected to (`Check`, `Pixels`, `Answer`).
`Open`, `OpenLock`, `GiveUp`, `Opening`, `Headers` are `ImageCacheFile::open` with its
double-checked mutex; `Publish` and `Lower` are the halves of `set_imageinput`,
around which the count of open files changes. `Limit` ... `SaveName` are the
clock of `check_max_files`, whose iterator keeps a bin of the map locked while
`Release` tries for a file's mutex, with a time limit. `Visit` ... `ErasePrint` are
`invalidate_all` and `invalidate`. `Modify` is whoever replaces the file on disk.
`floor` and `atStart` remember which versions an answer may still show, and `gaveUp`
how many sweeps found nothing to close. `OpenBounded` allows the limit to be
exceeded by the slack, one file per thread and one per sweep that gave up:
`check_max_files` then returns and its caller opens all the same, call after call,
so without the last term there is no bound (TLC finds that with three files and
`FullLoops` = 1). `AnswersAreCurrent` speaks of answers from the file itself or
from a duplicate that is never replaced; `DuplicatesAreCurrent`, of all answers,
does not hold (section 6). `SoundFilesAnswer` and `SoundHeadersThere` are about files
that are always there: a query of one may fail only because of the duplicate it is
answered from, one that is not sound, or that was invalidated since and not read
again. The proofs allow for both; in the run duplicates go missing, but to
invalidate one after it was found takes a fourth call.

**UstringTable** has threads in `make_unique` (`Lookup`, `LockBin`, `Search`,
`Rehash`, `TableInsert`, `MapInsert`, `UnlockBin`, `Report`) and `from_hash`. A bin
of the table is a function on positions, probed quadratically and doubled by
`Grow`; `mask` and `num_entries` are derived from it. Strings are model values
with a hash, a part before the first NUL, and prefixes. It implements
**Interning**: strings that have one representation and one hash for good.

**DeepData** is `deepdata.cpp` as operators from one image to the next
(`SetCapacity`, `InsertSamples`, `EraseSamples`, `SetSamples`, `CopyPixel`, `SplitAt`,
`SortSamples`, `MergeNeighbours`, `MergePixels`, `OcclusionCull`, `HeldOut`), named for
the functions and composed as these call each other, and one action per call. The
image is `m_nsamples`, `m_capacity`, `m_cumcapacity`, `m_data` and `m_allocated`. A
sample's colours are the set of the things seen that they were mixed from, and
of its alpha only whether it is 1. It implements **DeepImage**, which has a sequence of
samples per pixel and says of each call what it may do: to one pixel only, what
was seen at every depth before a split or merge is seen after it, samples are in
order and do not overlap when they should be, a holdout keeps what is in front.
`last` ties a step to the call. Samples end no nearer than they begin: the loops of
the splits presume it, and so does the counting of `deep_merge` (`Reserved`: a place
for every sample, and for every end of one that lies inside another).

## 4. The runs

| Run | Question | Bounds |
|---|---|---|
| `rwmutex` | Do writers exclude everybody, does the word account for who is inside, does somebody get in, is it an `RWLock`? | 3 threads: two readers and a writer is the least in which an optimistic reader, a reader inside and a writer meet; `WRITER` = 8 leaves room for their count |
| `tiles` | Is the count of tiles exact, do sweeps free what they may and never evict a tile being read, is an answer as new as the last invalidation? | 3 tiles of 2 files in 2 bins, memory for 2, 3 lookups by 2 threads, one change on disk, 2 invalidations or clearings: one bin holds two tiles, the clock goes round, and a tile can be made again after an invalidation |
| `tiles_race` | With lookups, sweeps, invalidations and clearing all at once, and reads that fail: are iterators valid, has every unready tile a reader, do waits and sweeps end? | 2 tiles, 3 lookups, one invalidation; one thread keeps its `Perthread*` |
| `drift_stale` | A statement of the documentation that the code does not keep, see section 6 | the smallest that shows it |
| `pool` | Is every task run once, does the destructor run the queue, do loops, fired tasks and resizing come to their end? Do chunks cover their range? | a loop of two tasks with a loop of two inside, one fired task, 0 to 2 workers at first, one resize to 0 or 2 at any time; ranges up to 8 with sizes that divide them, do not, and exceed them |
| `files` | Is the count of open files exact and bounded, is a file opened by one thread, are answers current (unless from a duplicate that is replaced) and sound files answered, do calls end? | 3 files in 2 bins, two of the same pixels, one that changes, goes missing and returns; one file may be open; 2 threads, 3 calls in all: a query, a sweep it sets off, and a third call into the middle of both |
| `files_standoff`, `files_duplicate`, `files_gone` | Three more of section 6 | 3 to 5 calls each |
| `ustring` | Has every string one representation with its own hash, found ever after; do the two maps agree; are collisions recorded; do calls return? | 5 strings (section 3), 5 calls by 2 threads: two with one hash, one whose hash the rehash takes, one with a NUL, one in another bin; bins of capacity 2, which double twice |
| `deepdata` | Do the pixels keep to their places in the array, is the capacity that `deep_merge` reserves enough, does every call do what it promises? | 2 pixels, depths 0..3, samples that overlap, touch, lie inside each other and hide each other; 4 calls, the first of which may read an image; capacity 5, which two overlapping pairs need (280 thousand states) |
| `deep_holdout` | Does `deep_holdout` return the samples closer than the frontier? See section 6 | a pixel that is read, and held out |

The bounds that only limit TLC are `MaxLookups`, `MaxVersion`,
`MaxInvalidations`, `MaxResizes`, `MaxCalls`, `MaxSamples`, `MaxCapacity`. `FullLoops` is
100, `BusyFactor` 4 and `Slack` 16 in the code, and smaller in the runs so that their
limits are met; `tiles` has `FullLoops` = 3, the least with which a sweep reclaims all
it may (with 2, TLC finds `SweepReclaims` violated), the other runs 2. The table's
bins and capacities are smaller for the same reason.

Deadlock is checked in every run but `deepdata` and `deep_holdout`, whose calls
simply are at their end.

`Quiet` in `TileCache` and `FileCache` keeps queries from overlapping invalidations
(in `FileCache` also changes on disk from falling into the reading of headers): what
an answer may show is only promised then. `tiles_race` and `files_standoff` are
without it, and so is everything that is not about answers.

**Fairness.** In `SpinRWMutex` every step of a thread that is inside `lock` or
`unlock` is weakly fair, and a compare-exchange that could succeed again and
again does so in the end (strong fairness): weak compare-exchange fails
spuriously, but not for ever. Nobody has to ask for the lock. `TileCache`,
`FileCache` and `UstringTable` need weak fairness per thread only: a thread inside
the library is scheduled; with finitely many calls, nobody is overtaken at a lock
for ever. `ThreadPool` has strong fairness per thread: only a thread that waits for the
condition variable's mutex sees its step disabled again and again, by workers
that wake up spuriously, and a mutex is given to it in the end. Clients need not
call, nobody has to wake up spuriously, no file has to change.

## 5. Proofs

What is proved holds for every value of the constants that the module's
assumption admits: any threads, files, tiles, strings, tasks, bins and limits, and
any bound on the number of calls. None of the theorems needs fairness.

| Module | Theorem | Property | Under |
|---|---|---|---|
| `SpinRWMutexProofs` | `TypeCorrect`, `Exclusion`, `Accounting` | `TypeOK`, `MutualExclusion`, `WordAccounts` | |
| | `Refinement` | `ImplementsRWLock` | |
| `ThreadPoolProofs` | `TypeCorrect` | `TypeOK` | |
| | `TasksOnce` | `EachTaskOnce` | |
| | `DestructorDrains` | `DestructorRunsAll` | |
| `ParallelChunksProofs` | `RangeCovered`, `RectangleCovered`, `LoopsCovered` | `ChunksCoverOnce` | |
| `TileCacheProofs` | `TypeCorrect`, `IteratorsValid` | `TypeOK`, `IteratorValid` | |
| | `OneReader` | `UnreadyHasOneReader` | |
| | `SweepErasesReadTiles` | `EvictsOnlyReadTiles` | `Quiet` |
| | `SizeCounts` | `SizeIsEntryCount` | `Quiet`, `OneInvalidates` |
| | `AnswersFresh` | `AnswersAreFresh` | the same, `KeepsPerthread = {}` |
| | `SweepEvicts` | `SweepReclaims` | `FullLoops >= 3` |
| `FileCacheProofs` | `TypeCorrect`, `CountExact` | `TypeOK`, `CountsInputs` | |
| | `OpenedOnce`, `LimitHolds` | `OneOpener`, `OpenBounded` | |
| | `OpenHasHeaders` | (an open file has headers, a sound one is never broken) | |
| | `PixelsAreCurrent` | `AnswersAreCurrent` | `Quiet` |
| | `SoundHaveHeaders`, `SoundAnswer` | `SoundHeadersThere`, `SoundFilesAnswer` | `Quiet` |
| `UstringTableProofs` | `TypeCorrect`, `RepsFound` | `TypeOK`, `EveryRepIsFound` | |
| | `OneRep`, `MapsInStep` | `OneRepEach`, `MapsAgree` | |
| | `CollisionsKnown` | `MovedAreReported` | |
| | `KeepsPromise` | `InternsStrings` | `[]NoPrefixMet` |
| `DeepDataProofs` | `TypesOK`, `SanityHolds` | `TypeOK`, `Sanity` | |
| | `OthersKept` | (a call on a pixel keeps all others) | |
| | `KeepsPromises` | `ImplementsImage` | |
| | `ReservedSuffices` | `ReservedIsEnough` | |

**SpinRWMutex.** The inductive invariant `IInv` is the conjunction of the type
invariant, mutual exclusion and the accounting of the word. Exclusion alone is not
inductive: that a writer's compare-exchange from 0 finds nobody inside follows
only from what the word counts, and that a reader that saw no writer bit is safe
follows from the bit being the writer's presence. Threads that have added
themselves and must withdraw are counted, which is why `Accounting` speaks of
them too. The assumption is `ThreadsAssumption`: the threads are finite and
fewer than `WRITER`, as 2^30 is in the code.

**ThreadPool.** `Flow` adds to the types which places a client, a worker and the
owner can be in, with what task and how often registered; without it `is_worker`,
which decides between blocking and helping, says nothing. `Once` counts the
places of every task (in the queue, left to a loop, with a thread, done) and is
inductive only with what is *not* begun: the loop inside a task has nothing
anywhere before its task begins. `Watch` is why the destructor leaves nothing
behind: while tasks are queued, a pusher is about to wake a worker, or a worker
that stays will look at the queue before it sleeps (`NoLostWakeup`); workers are
flagged from the last one down (`FlagsOK`), hold the mutex between predicate and
sleep (`MutexOK`), and nobody uses a pool that is being destroyed (`StopOK`).
`ThreadPoolAssumption` says that clients are not numbers (workers are), and that a
loop inside a task is that task's alone and has none inside: tasks are names, so
two loops never share them.

**ParallelChunks.** The theorems are about division: every index lies in the
chunk that starts at the greatest multiple of the chunk size below it, and in no
other. `LoopsCovered` puts them into every run of the pool, whose `TypeOK` says
that a loop is divided for at least one thread.

**TileCache.** `Shape` says what each thread's variables are at each place of its
program; `IteratorValid` needs it, since a bin is erased from only by who has it
locked. `Made` names the maker of every tile that is not ready, and says that
before insertion nobody else has it: so there is one reader. With no lookup
overlapping an invalidation (`Calm`, which `Quiet` preserves), what a sweep has
decided about a tile stays true between dropping the bin's lock and erasing
(`Verdict`); `Counted` follows `m_size` through `erase` and `clear`; `Fresh` carries
the oldest version that is legal through cache, microcaches, inputs and tiles
being made. The hypotheses are configurations that runs use (`tiles`), and none can
be dropped: `drift_stale` is the counterexample without `OneInvalidates`, and
section 6 says what happens without `Quiet` or with a thread that keeps its
`Perthread*`.

`Laps` follows the clock of a sweep that is alone. Its first turn may begin in the
middle of the map; in the next one every entry that it may evict loses its second
chance (`m_used`), and in the third it is evicted (`Worn`). A sweep that still finds
too much after three turns has left only tiles that `release` keeps.

**FileCache.** `Shape` is the counterpart of the one above, for all five kinds of
calls. `Locked` has five parts: whoever is between locking and unlocking a file's
mutex has it (`Owned`), what a thread is about to open is closed (`Opens`), a
file that is looked for is in the map, so that a sweep never starts on an empty
one (`Finds`), the count of open files (`CountsInputs`), and that the limit was
seen by every thread on its way to opening, or its sweep gave up
(`PassedBounded`). `CountsInputs` holds although `set_imageinput` changes the
count before or after the pointer, as threads halfway are counted too.
It follows that a file is opened by one thread, though closing takes no mutex.

`Heads` is what holds of headers in any interleaving: an open file has them, a file
without them that is not marked broken has no fingerprint, so nobody is redirected
to it by an old one; each thread knows as much of the file whose mutex it has, and
what the others do meanwhile is `Gentle`: they may close a file, or mark broken one
that is not sound. `Fresh` needs `Quiet`, from which `Alone` follows (an invalidation
has no other and no query beside it). It says how the versions of a file are ordered,
those of its floor, its modification time, its open input and the disk (`FreshOf`);
that a file entered for a fingerprint still has it, unless an invalidation is about
to erase the entry (`Entered`); what a query has found out so far (`QueryFresh`); and
which files an iteration of `invalidate_all` has passed, of which nothing older than
its beginning is known any more (`Behind`, `Handled`). A redirected query is answered
with the pixels of a file of the same fingerprint, which are still its own if
that file is never replaced; `files_duplicate` is the counterexample if it is.

**UstringTable.** The lemma under everything is `AllProbed`: with a capacity that
is a power of 2, the triangular numbers reach every position, so probing stops.
A bin is `Sound` when its capacity is a power of 2, what it holds is found by
probing from its hash (`Findable`) and no two entries have a hash in common
(`Unmixed`); `InsertedInBin` and `GrowSound` show that insertion and growth keep it.
The global part of `Inv` says what a thread in a call knows (`Fits`), that the
reverse map holds only what the table holds (`MapHeld`), and the other way round but
for a thread between the two insertions (`HeldMapped`). That alone does not
exclude a second representation: it must be that a search with the same string
meets the first one. Hence `HeldWalked`: the hash of a representation is reached
from that of its string by rehashes over hashes that belong to others, and two
such walks with one end are one walk (`OneEnd`), all in one bin of the map,
which is locked. `Reported` does the same for collisions. `UstringAssumption` has
what the code asserts (`BASE_CAPACITY` is a power of 2) or its types imply (the
bins divide the hashes, `Trim` cuts once and for all, names are not numbers).

`KeepsPromise` is the refinement: `MakeUnique` is `Ask`, the insertion into the
table is `Intern`, `Report` or a `Lookup` that succeeds is `Answer`, `FromHash` and
`Return` are themselves and all else is invisible. Its hypothesis, `NoPrefixMet`, is
that no search meets under its hash a longer string that begins with its own:
`strncmp` over the shorter length takes that one for its own (section 6). It holds
throughout the run `ustring`, which has prefixes, but none in one walk. The other
five theorems do not need it.

**DeepData.** `IInv` says that the image is `Sane`, and no capacity beyond the
bound. `Sane` has the types, the layout (once the array is allocated, each pixel
begins at the sum of the capacities before it, and the array is as long as all
of them), and that no pixel has more samples than its capacity, allocated or
not. A call is one step, so the argument is about what the operators do to a
sane image. Each gets a lemma of its own, named for it, which says where the
result has the samples of the pixel, and that all others are as before (`Only`,
`Versions`): inserting and growing move them, and the sums of the capacities are
shown to move with them. A loop over samples is a fold, of which `Runs` and
`Stays` make a run of as many steps. Loops that insert under themselves are cut
off after 2 * `MaxCapacity` steps in the model; a call that reaches so far needs
more capacity than the bound admits, so it is not made, and the calls that are
made end their loops as the code does.

For the refinement, what a pixel shows at a depth must follow from what its samples
are pieces of. `SplitFrom` gives every sample after a split the one it was cut from;
`EndsUncut` says how far the splitting has come, and `Apart` that then any two
samples are of one extent or do not overlap. `Merged` follows the merging of
neighbours, of which no two have one extent afterwards (`Distinct`), so they meet at
their ends only (`MeetAtEnds`). `SortSamples` gives each sample the place that is
counted for it; that the places are all different makes it a permutation
(`Shuffled`) in order. For a holdout, `UpTo` is the cut and `SeesSameNear` what it must
keep in front. The calls that set counts and fill pixels are followed pixel by pixel.

`ReservedSuffices` is a matter of counting: of the pairs of a sample and a depth
inside it at which some sample ends (`Spots`), a split uses up one, since its halves
share the rest (`SpotsOfSplit`), and sorting keeps their number; a merge is
`Thrifty` all the way, so it ends with no more samples than there were spots, which
map one to one into what `deep_merge` counted (`SpotsReserved`).

`DeepAssumption` says that there is a pixel, that bounds are numbers, and that what is
written or read are samples.

Every invariant named here was checked by TLC before it was proved, on the
instances of the runs and on larger ones: `Once` and `Watch` also with three
workers and two resizes (1.9 million states), those of `TileCache` with reads that
fail (2.4 million), those of `FileCache` with more calls (2.9 million), those of
`UstringTable` on its run's (77 thousand), and `Laps`, `Heads`, `Fresh` and the
capacities and places of `DeepData` on those of the runs `tiles`, `files` and `deepdata`.

**Induction.** The library's induction theorems cannot be used by the installed
provers, but the well-foundedness of `<` on the naturals can: `DataLemmas` derives
from it that a set of numbers that is not empty has a least one (the next entry
of a bin, the first stop of a probe), and that a set with 0 and every successor is
all of them, on which the probing and the growth of `UstringTable` rest. So
induction over a number is done here, with sets in place of operators.

**Only model-checked.** Liveness and deadlock, which are out of the provers' reach:
`SomebodyGetsIn`, `WaitEnds`, `SweepEnds`, `CallsEnd`, `LoopsEnd`, `FiredTasksRun`,
`OwnerReturns`, `CallsReturn`. Every safety property of the runs that are expected
to pass is proved, under the hypotheses of the table.

## 6. What the runs show about the code

* `drift_stale`: `erase` decrements the map's entry count even if the key is gone
  (two threads that invalidate the same file), and `clear` returns at once when
  the count is 0: `invalidate_all(true)` then leaves tiles in the cache.
* `files_standoff`: `invalidate_all(true)` waits for the mutex of a file with a bin
  of the file map locked, while a thread that holds the mutex, in `verify_file`,
  waits for the bin in `check_max_files`: both wait for ever.
* `files_duplicate`: `invalidate` clears what a file duplicates, not what
  duplicates the file, and `verify_file` redirects to the canonical copy without
  another look at either fingerprint. Once the canonical file was replaced,
  invalidated and read again, its duplicate, which never changed, is answered with
  the other's pixels. Before that one is read again it has neither headers nor
  input, and queries of the duplicate fail.
* `files_gone`: a file that could not be opened again loses its headers and keeps
  its fingerprint, and `verify_file` takes subimage 0 of it for a comparison.
* `deep_holdout`: after the split at the threshold, the second pass cuts the pixel
  at its first sample that ends behind it. The far half of a split sample stands
  before samples that begin inside the near one, and those are lost with it:
  of (0,3) and (1,1), held out at 2, only (0,2) is left. This came out of the attempt
  to prove that what is in front is kept; `DeepImage` promises it only where no
  sample that ends behind the threshold stands before one that begins in front of it.

Also seen while modelling, without runs of their own:

* With lookups overlapping invalidations (`Quiet = FALSE`) an answer may be stale,
  since a lookup that had opened the input before inserts its tile after the
  erasure; and headers are used by one thread while another rebuilds them.
* A thread that passes the `Perthread*` it retrieved once never looks at its purge
  flag, and is answered from its microcache after an invalidation.
* A lookup that finds another thread's tile is told it has it even if its pixels
  could not be read; a tile whose read failed is not released by the sweep
  (`imagecache_pvt.h:816`), against the comment at `imagecache.cpp:1912`.
* A worker that finds its stop flag after a task returns without
  `deregister_worker`, so `is_worker` is true of a thread that is gone
  (`GoneAreNoWorkers` fails in `MCThreadPool` with `Careful = TRUE` and one worker).
* With `paropt::recursive`, a task that nobody waits for and that holds a loop
  blocks the only worker of a pool for ever (`Nested = {4}` in `MCThreadPool.cfg`).
* `all_hash_collisions` grows with every `make_unique` of a string that was moved,
  not only the first (the model keeps a set); and `strncmp` at `ustring.cpp:581`
  takes a string that is a prefix of another with its hash for that one.
* `merge_overlaps` drops the colours of a sample that shares its extent with an
  opaque one: `DeepImage` therefore promises what is seen, not what is there.
* `deep_holdout` keeps a sample that begins exactly at the threshold if no other is
  split there, and drops it if one is.

## 7. Not modelled

Memory ordering: all steps are sequentially consistent, although
`m_pixels_ready` is only `volatile` and several flags are plain. The tile cache
leaves out `add_tile`, tiles held past `get_tile`, automip and untiled emulation,
statistics. The file cache leaves out replaced entries (`add_file`), files that may
not be released (IOProxy), UDIM names and the substitute image; a file whose
headers are refused counts as one that cannot be opened (`Missing`), as both end
with a broken file that has neither headers nor input. The string table
leaves out concatenation, formatting, statistics, the memory pool and the build
without `PREVENT_HASH_COLLISIONS`. Deep data leaves out the arithmetic of colours,
channel types and names, images without `Zback`, alpha or data, `opaque_z`, and
use by several threads; copying, merging and holding out are between pixels of one
image, so that no destination is still without data. The pool leaves out
`wait_for_task` and TBB; the chunks
leave out overflow of 64 bits. `ImageBuf` and the plugin registry are not
modelled: the one guards its fields as a cached file does, the other works under
one recursive mutex. Format readers and writers, image algorithms, colour
management, texture filtering and the command-line tools are I/O or numerics.
