------------------------------ MODULE DeepImage ------------------------------
(***************************************************************************)
(* What a deep image promises (include/OpenImageIO/deepdata.h): a sequence *)
(* of samples per pixel, of which an operation on one pixel changes that   *)
(* pixel's only.  A sample spans the depths from z to zback, or is at one, *)
(* and of is the set of things seen that it comes from.                    *)
(***************************************************************************)
EXTENDS Integers, Sequences, FiniteSets

CONSTANTS Pixels, Depths, MaxCapacity, Written, Loaded

VARIABLES pixels, last   \* the samples; the call that was made last

vars == <<pixels, last>>
Counts == 0..MaxCapacity

Calls(p, name, a, b) == last' = <<name, p, a, b>>
Changes(p, new) == pixels' = [pixels EXCEPT ![p] = new]

\* "After insertion, the new samples will have uninitialized values."
Inserted(old, new, pos, n) ==
    /\ Len(new) = Len(old) + n
    /\ SubSeq(new, 1, pos) = SubSeq(old, 1, pos)
    /\ SubSeq(new, pos + n + 1, Len(new)) = SubSeq(old, pos + 1, Len(old))
Erased(old, new, pos, n) == new = SubSeq(old, 1, pos) \o SubSeq(old, pos + n + 1, Len(old))
Resized(old, new, n) ==
    IF n < Len(old) THEN Erased(old, new, n, Len(old) - n)
                    ELSE Inserted(old, new, Len(old), n - Len(old))

Insert(p, pos, n) ==
    /\ Calls(p, "insert", pos, n) /\ Inserted(pixels[p], pixels'[p], pos, n)
    /\ Changes(p, pixels'[p])
Erase(p, pos, n) ==
    /\ Calls(p, "erase", pos, n) /\ Erased(pixels[p], pixels'[p], pos, n)
    /\ Changes(p, pixels'[p])
Resize(p, n) ==
    /\ Calls(p, "resize", n, 0) /\ Resized(pixels[p], pixels'[p], n)
    /\ Changes(p, pixels'[p])
ResizeAll(n) ==
    /\ Calls(n, "resize all", 0, 0)
    /\ \A p \in Pixels : Resized(pixels[p], pixels'[p], n[p])
Load(s) == Calls(s, "load", 0, 0) /\ pixels' = s
Reserve(p, n) == Calls(p, "reserve", n, 0) /\ UNCHANGED pixels
Write(p, i, v) == Calls(p, "write", i, v) /\ Changes(p, [pixels[p] EXCEPT ![i] = v])
Copy(p, q) == Calls(p, "copy", q, 0) /\ Changes(p, pixels[q])

Before(v, w) == v.z < w.z \/ (v.z = w.z /\ v.zback < w.zback)
Occurs(s, v) == {i \in DOMAIN s : s[i] = v}

\* What is seen of samples of one extent: opaque ones hide the rest.
Seen(S) == LET hiding == {v \in S : v.opaque} IN
           UNION {v.of : v \in IF hiding = {} THEN S ELSE hiding}
\* What is seen between the depths u and u + 1, and exactly at u.
Between(s, u) == Seen({s[i] : i \in {k \in DOMAIN s : s[k].z <= u /\ u < s[k].zback}})
At(s, u) == Seen({s[i] : i \in {k \in DOMAIN s : s[k].z = u /\ s[k].zback = u}})
SeesSame(s, r) == \A u \in Depths : Between(s, u) = Between(r, u) /\ At(s, u) = At(r, u)

\* No sample spans depth u; all that was seen is, where it was.
Split(p, u) ==
    LET new == pixels'[p] IN
    /\ Calls(p, "split", u, 0) /\ Changes(p, new) /\ SeesSame(new, pixels[p])
    /\ \A i \in DOMAIN new : ~(new[i].z < u /\ u < new[i].zback)

\* Nothing that begins behind depth u, and all that q has in front of it, unless
\* a sample that ends behind u comes before one that begins in front of it.
Holdout(p, q, u) ==
    LET new == pixels'[p]
        old == pixels[q]
    IN
    /\ Calls(p, "holdout", q, u) /\ Changes(p, new)
    /\ \A i \in DOMAIN new : new[i].z <= u /\ ~(new[i].z < u /\ u < new[i].zback)
    /\ (\A i, j \in DOMAIN old : i < j => old[i].zback <= u \/ u <= old[j].z) =>
           \A v \in Depths : v < u => Between(new, v) = Between(old, v) /\ At(new, v) = At(old, v)

\* The same samples, in order of depth.
Sort(p) ==
    LET new == pixels'[p] IN
    /\ Calls(p, "sort", 0, 0) /\ Changes(p, new) /\ Len(new) = Len(pixels[p])
    /\ \A i, j \in DOMAIN new : i < j => ~Before(new[j], new[i])
    /\ \A i \in DOMAIN new :
          Cardinality(Occurs(new, new[i])) = Cardinality(Occurs(pixels[p], new[i]))

\* What both saw, in samples that meet at their ends only.
Merge(p, q) ==
    LET new == pixels'[p] IN
    /\ Calls(p, "merge", q, 0) /\ Changes(p, new) /\ SeesSame(new, pixels[p] \o pixels[q])
    /\ \/ pixels[p] = <<>> \/ pixels[q] = <<>>
       \/ \A i, j \in DOMAIN new :
              i < j => new[i].zback <= new[j].z /\ Before(new[i], new[j])

\* Neighbours of the same extent become one sample.
MergeOverlaps(p) ==
    LET new == pixels'[p] IN
    /\ Calls(p, "merge overlaps", 0, 0) /\ Changes(p, new) /\ SeesSame(new, pixels[p])
    /\ \A i \in DOMAIN new \ {1} :
          new[i].z # new[i - 1].z \/ new[i].zback # new[i - 1].zback

\* Nothing is left behind the first opaque sample.
Cull(p) ==
    LET s == pixels[p]
        opaque == {i \in DOMAIN s : s[i].opaque}
    IN
    /\ Calls(p, "cull", 0, 0)
    /\ \/ opaque = {} /\ UNCHANGED pixels
       \/ \E i \in opaque : (\A j \in opaque : i <= j) /\ Changes(p, SubSeq(s, 1, i))

Init == pixels = [p \in Pixels |-> <<>>] /\ last = <<"init", 0, 0, 0>>

Next ==
    \/ \E n \in [Pixels -> Counts] : ResizeAll(n)
    \/ \E s \in [Pixels -> Loaded] : Load(s)
    \/ \E p \in Pixels :
          \/ \E a, b \in Counts : Insert(p, a, b) \/ Erase(p, a, b)
          \/ \E n \in Counts : Resize(p, n) \/ Reserve(p, n)
          \/ \E i \in Counts, v \in Written : Write(p, i, v)
          \/ \E q \in Pixels : Copy(p, q) \/ Merge(p, q)
          \/ \E u \in Depths : Split(p, u) \/ \E q \in Pixels : Holdout(p, q, u)
          \/ Sort(p) \/ MergeOverlaps(p) \/ Cull(p)

Spec == Init /\ [][Next]_vars
=============================================================================
