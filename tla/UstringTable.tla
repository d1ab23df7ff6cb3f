---------------------------- MODULE UstringTable ----------------------------
(***************************************************************************)
(* ustring::make_unique and ustring::from_hash (libutil/ustring.cpp) on    *)
(* the table of representations, a hash table per bin that is probed       *)
(* quadratically and doubled at half load, and on the reverse map, hash -> *)
(* representation, whose bin a thread that did not find its string keeps   *)
(* locked until it has it, under another hash when its own is taken.       *)
(*                                                                         *)
(* A string is a model value: its 64-bit hash is HashOf, what is before    *)
(* its first NUL is Trim, and two strings of which one begins with the     *)
(* other are a pair of PrefixPairs.  Hashes are 0..NHashes-1; the top bits *)
(* choose the bins.  A call that holds the lock of a bin of the table only *)
(* while it runs is one step; so is a push to all_hash_collisions.         *)
(***************************************************************************)
EXTENDS Integers, Sequences, FiniteSets, FiniteSetsExt

CONSTANTS Threads, Strings,
          NHashes,              \* 2^64
          NTableBins, NMapBins, \* NUM_BINS = 4096, 256
          BaseCapacity,         \* BASE_CAPACITY = 256
          HashOf,               \* Strutil::strhash64
          Fingerprint,          \* farmhash::Fingerprint: its bits below the bin's
          Trim, PrefixPairs,
          MaxCalls,             \* bound: calls, in all
          None

Hashes == 0..NHashes - 1
TableBins == 0..NTableBins - 1
MapBins == 0..NMapBins - 1
NoBin == NHashes \div NMapBins      \* nobin_mask() + 1

\* A power of 2: its only odd divisor is 1.
PowerOfTwo(c) == \A d \in 1..c : c % d = 0 => d = 1 \/ d % 2 = 0

ASSUME UstringAssumption ==
    /\ IsFiniteSet(Threads) /\ IsFiniteSet(Strings) /\ None \notin Strings \union Threads \union Int
    /\ None \notin [str : Strings, hashed : Hashes] /\ \A s \in Strings : s \notin Int
    /\ NTableBins \in Nat \ {0} /\ NMapBins \in Nat \ {0}
    /\ BaseCapacity \in Nat \ {0} /\ PowerOfTwo(BaseCapacity)
    /\ NHashes \in Nat \ {0} /\ NHashes % NTableBins = 0 /\ NTableBins % NMapBins = 0
    /\ HashOf \in [Strings -> Hashes] /\ Fingerprint \in [Hashes -> 0..NoBin - 1]
    /\ Trim \in [Strings -> Strings] /\ \A s \in Strings : Trim[Trim[s]] = Trim[s]
    /\ PrefixPairs \subseteq Strings \X Strings /\ MaxCalls \in Nat

VARIABLES
    entries,          \* per bin: position -> representation
    reverse_map,      \* hash -> representation
    binLock,          \* who locked a bin of the reverse map
    collisions,       \* all_hash_collisions, as a set
    calls,
    pc, asked,        \* the call, its argument
    strref, hash,     \* of make_unique
    result            \* the representation found or made

table == <<entries, reverse_map, collisions>>
vars  == <<table, binLock, calls, pc, asked, strref, hash, result>>

TableRep(s, h) == [str |-> s, hashed |-> h]
Reps == [str : Strings, hashed : Hashes]

Set(f, x, v) == [f EXCEPT ![x] = v]
TableBin(h) == h \div (NHashes \div NTableBins)
MapBin(h) == h \div NoBin

Init ==
    /\ entries = [b \in TableBins |-> [i \in 0..BaseCapacity - 1 |-> None]]
    /\ reverse_map = [h \in Hashes |-> None]
    /\ binLock = [b \in MapBins |-> None] /\ collisions = {} /\ calls = 0
    /\ pc = [t \in Threads |-> "idle"] /\ asked = [t \in Threads |-> None]
    /\ strref = asked /\ result = asked /\ hash = [t \in Threads |-> 0]
-----------------------------------------------------------------------------
(* One bin of the table, TableRepMap                                         *)

\* mask and num_entries follow from the bin's content.
Capacity(e) == Cardinality(DOMAIN e)
Used(e) == {i \in DOMAIN e : e[i] # None}

\* The position looked at after k collisions.
Probed(e, h, k) == (h + (k * (k + 1)) \div 2) % Capacity(e)

\* The first position, in the order of probing, that is empty or has what is
\* looked for; there is one, as half of the positions are empty.
FirstStop(e, h, Stops(_)) ==
    LET stops == {k \in 0..Capacity(e) - 1 :
                     e[Probed(e, h, k)] = None \/ Stops(e[Probed(e, h, k)])}
    IN  Probed(e, h, Min(stops))

\* Mutant: equal hashes are taken for equal strings.
MutFindString(s, h) ==
    LET e == entries[TableBin(h)] IN e[FirstStop(e, h, LAMBDA r : r.hashed = h)]
\* lookup(str, hash) and lookup(hash): a representation, or None.
FindString(s, h) ==
    LET e == entries[TableBin(h)] IN e[FirstStop(e, h, LAMBDA r : r = TableRep(s, h))]
FindHash(h) ==
    LET e == entries[TableBin(h)] IN e[FirstStop(e, h, LAMBDA r : r.hashed = h)]

\* Mutant: the new capacity, not the new mask, is 2 * mask + 1.
MutGrow(e) == [i \in 0..2 * Capacity(e) - 2 |-> IF i \in DOMAIN e THEN e[i] ELSE None]
\* grow(): all entries move to a table twice the size, in order of position.
Grow(e) ==
    LET Place(new, r) == Set(new, FirstStop(new, r.hashed, LAMBDA q : FALSE), r)
        moved[n \in 0..Capacity(e)] ==
            IF n = 0 THEN [i \in 0..2 * Capacity(e) - 1 |-> None]
            ELSE IF e[n - 1] = None THEN moved[n - 1]
            ELSE CHOOSE new \in {Place(old, e[n - 1]) : old \in {moved[n - 1]}} : TRUE
    IN  moved[Capacity(e)]

\* insert(): the same string may be there.
WithRep(e, r) == Set(e, FirstStop(e, r.hashed, LAMBDA q : q = r), r)
\* Mutant: the entries keep their positions.
MutMaintained(e) ==
    IF 2 * Cardinality(Used(e)) > Capacity(e) - 1
    THEN [i \in 0..2 * Capacity(e) - 1 |-> IF i \in DOMAIN e THEN e[i] ELSE None] ELSE e
\* A bin that is half full grows.
Maintained(e) == IF 2 * Cardinality(Used(e)) > Capacity(e) - 1 THEN Grow(e) ELSE e
-----------------------------------------------------------------------------
(* make_unique                                                               *)

Goto(t, from, to) == pc[t] = from /\ pc' = Set(pc, t, to)

MakeUnique(t, s) ==
    /\ Goto(t, "idle", "lookup") /\ calls < MaxCalls /\ calls' = calls + 1
    /\ asked' = Set(asked, t, s) /\ strref' = Set(strref, t, s)
    /\ hash' = Set(hash, t, HashOf[s])
    /\ UNCHANGED <<table, binLock, result>>

\* Without a lock that lasts.  What has a NUL in it is cut there and looked
\* up once more.
Lookup(t) ==
    LET s == strref[t]
        r == FindString(s, hash[t])
    IN
    /\ pc[t] = "lookup"
    /\ pc' = Set(pc, t, IF r # None THEN "answered" ELSE IF Trim[s] # s THEN "lookup" ELSE "lock")
    /\ result' = Set(result, t, r)
    /\ IF r = None THEN strref' = Set(strref, t, Trim[s]) /\ hash' = Set(hash, t, HashOf[Trim[s]])
                   ELSE UNCHANGED <<strref, hash>>
    /\ UNCHANGED <<table, binLock, calls, asked>>

LockBin(t) ==
    /\ Goto(t, "lock", "find") /\ binLock[MapBin(hash[t])] = None
    /\ binLock' = Set(binLock, MapBin(hash[t]), t)
    /\ UNCHANGED <<table, calls, asked, strref, hash, result>>

\* strncmp over the length of the string that is asked for.
SameString(r, s) == r.str = s \/ <<s, r.str>> \in PrefixPairs

\* The hash is free, or it is this string's.
Search(t) ==
    LET r == reverse_map[hash[t]] IN
    /\ pc[t] = "find"
    /\ \/ r = None /\ pc' = Set(pc, t, "insert") /\ UNCHANGED result
       \/ /\ r # None /\ SameString(r, strref[t])
          /\ pc' = Set(pc, t, "unlock") /\ result' = Set(result, t, r)
    /\ UNCHANGED <<table, binLock, calls, asked, strref, hash>>

\* Mutant: the bits of the bin change, too.
MutNextHash(h) == (h + NoBin + 2) % NHashes
\* Mutant: a hash that is its own fingerprint stays.
MutFixedHash(h) == (h - (h % NoBin)) + Fingerprint[h]
\* The next hash of the same bin; Fingerprint may leave a hash as it is.
NextHash(h) ==
    LET low == h % NoBin
        new == Fingerprint[h]
    IN  (h - low) + (IF new = low THEN (new + 7) % NoBin ELSE new)

\* The hash is another string's.
Rehash(t) ==
    LET r == reverse_map[hash[t]] IN
    /\ pc[t] = "find" /\ r # None /\ ~SameString(r, strref[t]) /\ UNCHANGED pc
    /\ hash' = Set(hash, t, NextHash(hash[t]))
    /\ collisions' = collisions \union {<<r.str, hash[t]>>}
    /\ UNCHANGED <<entries, reverse_map, binLock, calls, asked, strref, result>>

TableInsert(t) ==
    LET b == TableBin(hash[t])
        r == TableRep(strref[t], hash[t])
    IN
    /\ Goto(t, "insert", "insert in map") /\ result' = Set(result, t, r)
    /\ \E e \in {WithRep(entries[b], r)} :
          entries' = Set(entries, b, IF e = entries[b] THEN e ELSE Maintained(e))
    /\ UNCHANGED <<reverse_map, collisions, binLock, calls, asked, strref, hash>>

\* Mutant: under the original hash.
MutMapInsert(t) ==
    /\ Goto(t, "insert in map", "unlock")
    /\ reverse_map' = Set(reverse_map, HashOf[strref[t]], result[t])
    /\ UNCHANGED <<entries, collisions, binLock, calls, asked, strref, hash, result>>
MapInsert(t) ==
    /\ Goto(t, "insert in map", "unlock")
    /\ reverse_map' = Set(reverse_map, hash[t], result[t])
    /\ UNCHANGED <<entries, collisions, binLock, calls, asked, strref, hash, result>>

\* bin is that of the original hash.
UnlockBin(t) ==
    /\ Goto(t, "unlock", "report")
    /\ binLock' = Set(binLock, MapBin(HashOf[strref[t]]), None)
    /\ UNCHANGED <<table, calls, asked, strref, hash, result>>

\* Mutant: only what another string was moved by is reported.
MutReport(t) ==
    /\ Goto(t, "report", "answered")
    /\ UNCHANGED <<table, binLock, calls, asked, strref, hash, result>>
\* After rehashes, the string itself is one that collided.
Report(t) ==
    /\ Goto(t, "report", "answered")
    /\ collisions' = IF hash[t] # HashOf[strref[t]]
                     THEN collisions \union {<<result[t].str, HashOf[strref[t]]>>} ELSE collisions
    /\ UNCHANGED <<entries, reverse_map, binLock, calls, asked, strref, hash, result>>

AllReps == UNION {{entries[b][i] : i \in Used(entries[b])} : b \in TableBins}

\* The hash is that of a ustring, or was computed from characters.
FromHash(t, h) ==
    /\ Goto(t, "idle", "answered") /\ calls < MaxCalls /\ calls' = calls + 1
    /\ asked' = Set(asked, t, h) /\ result' = Set(result, t, FindHash(h))
    /\ UNCHANGED <<table, binLock, strref, hash>>

Return(t) ==
    /\ Goto(t, "answered", "idle") /\ asked' = Set(asked, t, None)
    /\ strref' = Set(strref, t, None) /\ hash' = Set(hash, t, 0) /\ result' = Set(result, t, None)
    /\ UNCHANGED <<table, binLock, calls>>

Step(t) ==
    \/ Lookup(t) \/ LockBin(t) \/ Search(t) \/ Rehash(t) \/ TableInsert(t) \/ MapInsert(t)
    \/ UnlockBin(t) \/ Report(t) \/ Return(t)

\* A thread need not call.
Next ==
    \/ \E t \in Threads : Step(t)
    \/ \E t \in Threads, s \in Strings : MakeUnique(t, s)
    \/ \E t \in Threads, h \in {r.hashed : r \in AllReps} \union {HashOf[s] : s \in Strings} :
          FromHash(t, h)
    \/ (\A t \in Threads : pc[t] = "idle") /\ UNCHANGED vars

Spec == Init /\ [][Next]_vars
\* Threads in a call run; whoever finds a bin of the reverse map free takes it.
FairSpec == Spec /\ \A t \in Threads : WF_vars(Step(t))
-----------------------------------------------------------------------------
MaybeString == Strings \union {None}
TypeOK ==
    /\ \A b \in TableBins :
          \E c \in BaseCapacity..BaseCapacity + 4 * Cardinality(Strings) :
              PowerOfTwo(c) /\ entries[b] \in [0..c - 1 -> Reps \union {None}]
    /\ reverse_map \in [Hashes -> Reps \union {None}]
    /\ binLock \in [MapBins -> Threads \union {None}]
    /\ collisions \subseteq Strings \X Hashes /\ calls \in 0..MaxCalls
    /\ pc \in [Threads -> {"idle", "lookup", "lock", "find", "insert", "insert in map", "unlock",
                           "report", "answered"}]
    /\ asked \in [Threads -> MaybeString \union Hashes] /\ strref \in [Threads -> MaybeString]
    /\ hash \in [Threads -> Hashes] /\ result \in [Threads -> Reps \union {None}]

\* Whatever collided with it, and however often the bin grew, a representation
\* is found by its string and hash, and by its hash alone.
EveryRepIsFound ==
    \A r \in AllReps : FindString(r.str, r.hashed) = r /\ FindHash(r.hashed) = r

\* No sequence of characters has two representations, in whatever bins, and
\* no hash belongs to two strings.
OneRepEach ==
    \A a, b \in TableBins : \A i \in Used(entries[a]), j \in Used(entries[b]) :
        \/ a = b /\ i = j
        \/ entries[a][i].str # entries[b][j].str /\ entries[a][i].hashed # entries[b][j].hashed

\* Between them, the table and the reverse map never disagree for anybody who
\* has the bin of the map: a hash is in both or in neither, unless the thread
\* that has locked its bin is between the two insertions.
MapsAgree ==
    \A h \in Hashes :
        LET r == reverse_map[h] IN
        \/ r # None /\ r \in AllReps /\ r.hashed = h
        \/ r = None /\ \A q \in AllReps : q.hashed # h
        \/ \E t \in Threads : binLock[MapBin(h)] = t /\ pc[t] = "insert in map" /\ hash[t] = h

\* hash_collisions() knows of every string that is not kept under its own
\* hash, once the call that made it is over.
MovedAreReported ==
    \A r \in AllReps : r.hashed # HashOf[r.str] =>
        \/ <<r.str, HashOf[r.str]>> \in collisions
        \/ \E t \in Threads : strref[t] = r.str /\ pc[t] \in {"insert in map", "unlock", "report"}

\* The table is one in which every string is made once and found ever after,
\* by its characters and by its hash.
RepOf(s) == CHOOSE r \in AllReps : r.str = s
Ustrings == INSTANCE Interning WITH
    Strings <- {Trim[s] : s \in Strings},
    table  <- [s \in {r.str : r \in AllReps} |-> RepOf(s).hashed],
    asked  <- [t \in Threads |-> IF asked[t] \in Strings THEN Trim[asked[t]] ELSE asked[t]],
    answer <- [t \in Threads |-> IF pc[t] = "answered" /\ result[t] # None
                                 THEN result[t].str ELSE None]
InternsStrings == Ustrings!Spec

\* Every call returns, though many threads want the same bin of the map.
CallsReturn == \A t \in Threads : pc[t] # "idle" ~> pc[t] = "idle"
=============================================================================
