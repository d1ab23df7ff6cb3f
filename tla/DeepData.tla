------------------------------ MODULE DeepData ------------------------------
(***************************************************************************)
(* DeepData (libOpenImageIO/deepdata.cpp): samples of all pixels in one    *)
(* array, with a capacity per pixel that only grows once the array is      *)
(* allocated, and the start of each pixel in it.                           *)
(*                                                                         *)
(* A sample is its depths z and zback, whether its alpha is 1, and, for    *)
(* its colours, the set of things seen that they were mixed from.  Calls   *)
(* are sequential, and their arguments within the pixel's samples.  d is a *)
(* DeepData: the variables, as a record, so that calls can be composed.    *)
(***************************************************************************)
EXTENDS Integers, Sequences, FiniteSets, FiniteSetsExt

CONSTANTS NPixels, MaxDepth,  \* depths are 0..MaxDepth
          Written,            \* the samples that callers write
          Loaded,             \* the pixels of images that are read
          MaxSamples,         \* bound: samples that a caller asks for
          MaxCapacity,        \* bound: of a pixel
          MaxCalls            \* bound: calls, in all

Pixels == 1..NPixels
Depths == 0..MaxDepth
Zero == [z |-> 0, zback |-> 0, opaque |-> FALSE, of |-> {}]
Samples == {v \in [z : Depths, zback : Depths, opaque : BOOLEAN,
                   of : SUBSET UNION {w.of : w \in Written}] : v.z <= v.zback}

ASSUME DeepAssumption ==
    /\ NPixels \in Nat \ {0} /\ MaxDepth \in Nat
    /\ MaxSamples \in Nat /\ MaxCapacity \in Nat /\ MaxCalls \in Nat
    /\ Written \subseteq Samples
    /\ \A s \in Loaded : s \in Seq(Written) /\ Len(s) <= MaxCapacity

VARIABLES dd,           \* the image
          last, calls   \* (history) the last call; how many there were

vars == <<dd, last, calls>>

Init ==
    /\ LET none == [p \in Pixels |-> 0] IN
       dd = [nsamples |-> none, capacity |-> none, cumcapacity |-> none, data |-> <<>>,
             allocated |-> FALSE]
    /\ last = <<"init", 0, 0, 0>> /\ calls = 0
-----------------------------------------------------------------------------
(* The array                                                                 *)

\* x after the steps 1..n of a loop: a fold that can be reasoned about.
Repeat(Step(_, _), n, x) ==
    LET y[k \in 0..n] == IF k = 0 THEN x ELSE Step(y[k - 1], k) IN y[n]

Zeros(n) == [i \in 1..n |-> Zero]
Before(d, p) == Repeat(LAMBDA total, q : total + d.capacity[q], p - 1, 0)   \* p's place in the array

Alloc(d) == IF d.allocated THEN d
            ELSE [d EXCEPT !.allocated = TRUE, !.data = Zeros(Before(d, NPixels + 1)),
                           !.cumcapacity = [p \in Pixels |-> Before(d, p)]]

\* p's samples, the first n positions of its capacity
Part(d, p, n) == IF d.allocated THEN SubSeq(d.data, d.cumcapacity[p] + 1, d.cumcapacity[p] + n)
                                ELSE Zeros(n)
Contents(d, p) == Part(d, p, d.nsamples[p])

\* The positions of p from i on hold the samples s.
Over(d, p, i, s) ==
    LET at == d.cumcapacity[p] + i - 1 IN
    [d EXCEPT !.data = SubSeq(@, 1, at) \o s \o SubSeq(@, at + Len(s) + 1, Len(@))]

\* Mutant: the pixels after p stay where they started.
MutSetCapacity(d, p, n) ==
    LET toadd == n - d.capacity[p]
        at == d.cumcapacity[p] + d.capacity[p]
    IN
    IF d.allocated /\ toadd > 0
    THEN [d EXCEPT !.data = SubSeq(@, 1, at) \o Zeros(toadd) \o SubSeq(@, at + 1, Len(@)),
                   !.capacity[p] = n]
    ELSE [d EXCEPT !.capacity[p] = IF d.allocated THEN @ ELSE n]
\* Mutant: they move down.
MutMoved(d, p, n) ==
    LET toadd == n - d.capacity[p] IN
    IF d.allocated /\ toadd > 0
    THEN [d EXCEPT !.data = @ \o Zeros(toadd), !.capacity[p] = n,
                   !.cumcapacity = [q \in Pixels |-> IF q > p THEN @[q] - toadd ELSE @[q]]]
    ELSE [d EXCEPT !.capacity[p] = IF d.allocated THEN @ ELSE n]
SetCapacity(d, p, n) ==
    LET toadd == n - d.capacity[p]
        at == d.cumcapacity[p] + d.capacity[p]
    IN
    CASE ~d.allocated -> [d EXCEPT !.capacity[p] = n]
      [] d.allocated /\ toadd <= 0 -> d
      [] d.allocated /\ toadd > 0 ->
            [d EXCEPT !.data = SubSeq(@, 1, at) \o Zeros(toadd) \o SubSeq(@, at + 1, Len(@)),
                      !.cumcapacity = [q \in Pixels |-> IF q > p THEN @[q] + toadd ELSE @[q]],
                      !.capacity[p] = n]

\* What was at pos moves up; the old values stay where it was.
InsertSamples(d, p, pos, n) ==
    LET old == d.nsamples[p]
        room == IF old + n > d.capacity[p] THEN SetCapacity(d, p, old + n) ELSE d
        moved == IF room.allocated /\ pos < old
                 THEN Over(room, p, pos + n + 1, SubSeq(Contents(room, p), pos + 1, old))
                 ELSE room
    IN [moved EXCEPT !.nsamples[p] = @ + n]

EraseSamples(d, p, pos, asked) ==
    LET n == IF asked < d.nsamples[p] THEN asked ELSE d.nsamples[p]
        moved == IF d.allocated
                 THEN Over(d, p, pos + 1, SubSeq(Contents(d, p), pos + n + 1, d.nsamples[p]))
                 ELSE d
    IN [moved EXCEPT !.nsamples[p] = @ - n]

SetSamples(d, p, n) ==
    LET old == d.nsamples[p] IN
    IF d.allocated
    THEN CASE n > old -> InsertSamples(d, p, old, n - old)
           [] n < old -> EraseSamples(d, p, n, old - n)
           [] OTHER -> d
    ELSE [d EXCEPT !.nsamples[p] = n, !.capacity[p] = IF n > @ THEN n ELSE @]

SetAllSamples(d, n) ==
    IF d.allocated THEN Repeat(LAMBDA e, p : SetSamples(e, p, n[p]), NPixels, d)
                   ELSE [d EXCEPT !.nsamples = n, !.capacity = n]
-----------------------------------------------------------------------------
(* Operations on the samples of a pixel                                      *)

\* Sample i of p, as deep_value reads its channels.
Value(d, p, i) == Contents(d, p)[i]
Put(d, p, i, v) == Over(Alloc(d), p, i, <<v>>)

CopySample(d, p, i, q, k) == Put(SetSamples(d, p, Max({d.nsamples[p], d.nsamples[q]})), p, i,
                                 Value(d, q, k))
CopyPixel(d, p, q) ==
    LET n == d.nsamples[q]
        room == SetSamples(d, p, n)
    IN IF n = 0 THEN room ELSE Over(Alloc(room), p, 1, Contents(room, q))

\* Body, from x, for as long as Test holds; no loop here needs more steps.
Loop(Test(_), Body(_), x) ==
    Repeat(LAMBDA y, k : IF Test(y) THEN Body(y) ELSE y, 2 * MaxCapacity, x)

\* The state of a loop over the samples of p: the data, and the sample.
SplitOne(l, p, depth) ==
    LET v == Value(l.d, p, l.s)
        two == CopySample(InsertSamples(l.d, p, l.s, 1), p, l.s + 1, p, l.s)
    IN IF v.z < depth /\ v.zback > depth
       THEN [d |-> Put(Put(two, p, l.s, [v EXCEPT !.zback = depth]), p, l.s + 1,
                       [v EXCEPT !.z = depth]),
             s |-> l.s + 1]
       ELSE [l EXCEPT !.s = @ + 1]
SplitAt(d, p, depth) ==
    Loop(LAMBDA l : l.s <= l.d.nsamples[p], LAMBDA l : SplitOne(l, p, depth),
         [d |-> d, s |-> 1]).d

\* By z, then by zback; a stable sort of the indices, then of the samples.
Nearer(v, w) == v.z < w.z \/ (v.z = w.z /\ v.zback < w.zback)
SortSamples(d, p) ==
    LET s == Contents(d, p)
        First(i, j) == Nearer(s[i], s[j]) \/ (~Nearer(s[j], s[i]) /\ i < j)
        Place(i) == Cardinality({j \in DOMAIN s : j = i \/ First(j, i)})
    IN IF d.nsamples[p] < 2 THEN d
       ELSE Over(Alloc(d), p, 1, [k \in DOMAIN s |-> s[CHOOSE i \in DOMAIN s : Place(i) = k]])

\* Two samples of one extent become one: the opaque one's colours, if one is.
Mix(v, w) == [v EXCEPT !.opaque = v.opaque \/ w.opaque,
                       !.of = CASE v.opaque /\ ~w.opaque -> v.of
                                [] w.opaque /\ ~v.opaque -> w.of
                                [] v.opaque <=> w.opaque -> v.of \union w.of]
\* Mutant: the sample that takes the place of the erased one is passed over.
MutOverlapOne(l, p) ==
    LET v == Value(l.d, p, l.s - 1)
        w == Value(l.d, p, l.s)
        same == v.z = w.z /\ v.zback = w.zback
    IN [d |-> IF same THEN EraseSamples(Put(l.d, p, l.s - 1, Mix(v, w)), p, l.s - 1, 1) ELSE l.d,
        s |-> l.s + 1]
OverlapOne(l, p) ==
    LET v == Value(l.d, p, l.s - 1)
        w == Value(l.d, p, l.s)
    IN IF v.z = w.z /\ v.zback = w.zback
       THEN [l EXCEPT !.d = EraseSamples(Put(l.d, p, l.s - 1, Mix(v, w)), p, l.s - 1, 1)]
       ELSE [l EXCEPT !.s = @ + 1]
MergeNeighbours(d, p) ==
    Loop(LAMBDA l : l.s <= l.d.nsamples[p], LAMBDA l : OverlapOne(l, p), [d |-> d, s |-> 2]).d

\* All the samples of both, split at the ends of each of them.
Gathered(d, p, q) ==
    LET n == d.nsamples[p] IN
    Repeat(LAMBDA e, i : CopySample(e, p, n + i, q, i), d.nsamples[q],
           SetSamples(d, p, n + d.nsamples[q]))
SplitAtEnds(l, p) ==
    LET v == Value(l.d, p, l.s) IN
    [d |-> SplitAt(SplitAt(l.d, p, v.z), p, v.zback), s |-> l.s + 1]
MergePixels(d, p, q) ==
    LET all == SortSamples(Gathered(d, p, q), p)
        pieces == Loop(LAMBDA l : l.s <= l.d.nsamples[p], LAMBDA l : SplitAtEnds(l, p),
                       [d |-> all, s |-> 1]).d
    IN CASE d.nsamples[q] = 0 -> d
         [] d.nsamples[q] > 0 /\ d.nsamples[p] = 0 -> CopyPixel(d, p, q)
         [] d.nsamples[q] > 0 /\ d.nsamples[p] > 0 -> MergeNeighbours(SortSamples(pieces, p), p)

OcclusionCull(d, p) ==
    LET opaque == {i \in 1..d.nsamples[p] : Value(d, p, i).opaque} IN
    IF opaque = {} THEN d ELSE SetSamples(d, p, Min(opaque))

\* deep_holdout: the samples of q in front of depth.
Discarded(d, p, far) == IF far = {} THEN d ELSE SetSamples(d, p, Min(far) - 1)
Beyond(d, p, field, depth) == {i \in 1..d.nsamples[p] : Value(d, p, i)[field] > depth}
HeldOut(d, p, q, depth) ==
    LET copy == CopyPixel(SetCapacity(d, p, d.capacity[q]), p, q)
        near == Discarded(copy, p, Beyond(copy, p, "z", depth))
        pieces == SplitAt(near, p, depth)
    IN IF pieces = near THEN near ELSE Discarded(pieces, p, Beyond(pieces, p, "zback", depth))

\* Mutant: samples of one image are taken not to overlap.
MutReserved(s, r) ==
    LET all == s \o r
        Inside(v, e) == v.z < e /\ e < v.zback
    IN Len(all) + Cardinality({c \in (DOMAIN all) \X (DOMAIN all) \X {"z", "zback"} :
                                  /\ (c[1] <= Len(s)) # (c[2] <= Len(s))
                                  /\ Inside(all[c[1]], all[c[2]][c[3]])})
\* The capacity that deep_merge reserves for merging the samples s and r: every
\* end of one sample inside another, of the same image or not, may be a split.
Reserved(s, r) ==
    LET all == s \o r
        Inside(v, e) == v.z < e /\ e < v.zback
    IN Len(all) + Cardinality({c \in (DOMAIN all) \X (DOMAIN all) \X {"z", "zback"} :
                                  Inside(all[c[1]], all[c[2]][c[3]])})
-----------------------------------------------------------------------------
(* The calls                                                                 *)

Call(p, name, a, b, new) ==
    /\ calls < MaxCalls /\ \A q \in Pixels : new.capacity[q] <= MaxCapacity
    /\ dd' = new /\ last' = <<name, p, a, b>> /\ calls' = calls + 1

Insert(p, pos, n) == /\ pos <= dd.nsamples[p]
                     /\ Call(p, "insert", pos, n, InsertSamples(dd, p, pos, n))
Erase(p, pos, n) == /\ pos + n <= dd.nsamples[p]
                    /\ Call(p, "erase", pos, n, EraseSamples(dd, p, pos, n))
Resize(p, n) == Call(p, "resize", n, 0, SetSamples(dd, p, n))
ResizeAll(n) == Call(n, "resize all", 0, 0, SetAllSamples(dd, n))
\* Before it is allocated, nothing keeps a capacity from being set too small.
Reserve(p, n) == /\ dd.allocated \/ n >= dd.nsamples[p]
                 /\ Call(p, "reserve", n, 0, SetCapacity(dd, p, n))
Write(p, i, v) == /\ i \in 1..dd.nsamples[p]
                  /\ Call(p, "write", i, v, Put(dd, p, i, v))
\* all_data and get_pointers
GetPointers == /\ ~dd.allocated /\ calls < MaxCalls
               /\ dd' = Alloc(dd) /\ calls' = calls + 1 /\ UNCHANGED last

\* An image that is read: all counts are set, then the array is filled.
Load(s) ==
    LET counts == [p \in Pixels |-> Len(s[p])]
        room == Alloc(SetAllSamples(dd, counts))
    IN /\ calls = 0
       /\ Call(s, "load", 0, 0, Repeat(LAMBDA d, p : Over(d, p, 1, s[p]), NPixels, room))

\* The source of a copy has data.
Copy(p, q) == dd.allocated /\ p # q /\ Call(p, "copy", q, 0, CopyPixel(dd, p, q))
Merge(p, q) == dd.allocated /\ p # q /\ Call(p, "merge", q, 0, MergePixels(dd, p, q))
Holdout(p, q, depth) ==
    dd.allocated /\ p # q /\ Call(p, "holdout", q, depth, HeldOut(dd, p, q, depth))
Split(p, depth) == Call(p, "split", depth, 0, SplitAt(dd, p, depth))
Sort(p) == Call(p, "sort", 0, 0, SortSamples(dd, p))
MergeOverlaps(p) == Call(p, "merge overlaps", 0, 0, MergeNeighbours(dd, p))
Cull(p) == Call(p, "cull", 0, 0, OcclusionCull(dd, p))

Next ==
    \/ GetPointers
    \/ \E s \in [Pixels -> Loaded] : Load(s)
    \/ \E n \in [Pixels -> 0..MaxSamples] : ResizeAll(n)
    \/ \E p \in Pixels :
          \/ \E a \in 0..MaxCapacity, n \in 1..MaxSamples : Insert(p, a, n) \/ Erase(p, a, n)
          \/ \E n \in 0..MaxSamples : Resize(p, n) \/ Reserve(p, n)
          \/ \E i \in 1..MaxCapacity, v \in Written : Write(p, i, v)
          \/ \E q \in Pixels : Copy(p, q) \/ Merge(p, q)
          \/ \E u \in Depths : Split(p, u) \/ \E q \in Pixels : Holdout(p, q, u)
          \/ Sort(p) \/ MergeOverlaps(p) \/ Cull(p)

Spec == Init /\ [][Next]_vars
-----------------------------------------------------------------------------
\* The type invariant.
TypeOK ==
    /\ {"nsamples", "capacity", "cumcapacity", "data", "allocated"} = DOMAIN dd
    /\ dd.nsamples \in [Pixels -> Nat] /\ dd.capacity \in [Pixels -> 0..MaxCapacity]
    /\ dd.cumcapacity \in [Pixels -> Nat] /\ dd.allocated \in BOOLEAN
    /\ \A i \in DOMAIN dd.data : dd.data[i] \in Samples
    /\ calls \in 0..MaxCalls

\* What sanity() asserts: once allocated, the pixels lie in the array one
\* after the other without gaps, and each holds no more than its capacity.
Sanity ==
    dd.allocated =>
        /\ \A p \in Pixels : /\ dd.cumcapacity[p] = Before(dd, p)
                             /\ dd.capacity[p] >= dd.nsamples[p]
        /\ Len(dd.data) = Before(dd, NPixels + 1)

\* The capacity that deep_merge reserves, before it merges, is enough for the
\* pieces that the samples of both are split into: merging reallocates no more.
ReservedIsEnough ==
    [][\A p, q \in Pixels :
          last' = <<"merge", p, q, 0>> /\ dd'.capacity # dd.capacity =>
              dd'.capacity[p] <= Reserved(Contents(dd, p), Contents(dd, q))]_vars

\* deep_holdout returns "the samples of deep image `src` that are closer than the
\* opaque frontier" (imagebufalgo.h:2825), at least of samples in order of depth.
HoldoutKeepsCloser ==
    [][\A p, q \in Pixels, u \in Depths :
          /\ last' = <<"holdout", p, q, u>>
          /\ \A i, j \in 1..dd.nsamples[q] : i < j => ~Nearer(Value(dd, q, j), Value(dd, q, i))
          => \A i \in 1..dd.nsamples[q] : Value(dd, q, i).zback < u =>
                 \E k \in 1..dd'.nsamples[p] : Value(dd', p, k) = Value(dd, q, i)]_vars

Image == INSTANCE DeepImage WITH pixels <- [p \in Pixels |-> Contents(dd, p)]
\* Whatever is allocated, moved and left stale, each pixel is a sequence of
\* samples of its own, and every call does to it what deepdata.h promises.
ImplementsImage == Image!Spec
=============================================================================
