------------------------------ MODULE Interning ------------------------------
(***************************************************************************)
(* What the table of ustrings promises (include/OpenImageIO/ustring.h):    *)
(* every sequence of characters that was ever made unique has one          *)
(* representation, with a hash of its own, for good; asking for it again   *)
(* finds it, and so does asking for its hash.                              *)
(***************************************************************************)
CONSTANTS Threads, Strings, Hashes, None

VARIABLES
    table,   \* the hash of every string there is
    asked,   \* what a thread asked for: a string, or a hash
    answer   \* what it was given: a string, as all strings have one address

vars == <<table, asked, answer>>

Set(f, t, v) == [f EXCEPT ![t] = v]
Idle(t) == asked[t] = None /\ answer[t] = None
Taken == {table[s] : s \in DOMAIN table}

Init ==
    /\ table = [s \in {} |-> None]
    /\ asked = [t \in Threads |-> None] /\ answer = [t \in Threads |-> None]

Ask(t, s) ==
    /\ Idle(t) /\ asked' = Set(asked, t, s)
    /\ UNCHANGED <<table, answer>>

Intern(t) ==
    LET s == asked[t] IN
    /\ s \in Strings \ DOMAIN table /\ DOMAIN table' = DOMAIN table \union {s}
    /\ table'[s] \in Hashes \ Taken
    /\ \A r \in DOMAIN table : table'[r] = table[r]
    /\ UNCHANGED <<asked, answer>>

Answer(t) ==
    /\ asked[t] \in DOMAIN table /\ answer[t] = None /\ UNCHANGED <<table, asked>>
    /\ answer' = Set(answer, t, asked[t])

\* from_hash: answered at once.
FromHash(t, h) ==
    /\ Idle(t) /\ asked' = Set(asked, t, h)
    /\ \/ \E s \in DOMAIN table : table[s] = h /\ answer' = Set(answer, t, s)
       \/ h \notin Taken /\ UNCHANGED answer
    /\ UNCHANGED table

Forget(t) ==
    /\ answer[t] # None \/ asked[t] \in Hashes
    /\ asked' = Set(asked, t, None) /\ answer' = Set(answer, t, None)
    /\ UNCHANGED table

Next ==
    \/ \E t \in Threads : Intern(t) \/ Answer(t) \/ Forget(t)
    \/ \E t \in Threads, s \in Strings : Ask(t, s)
    \/ \E t \in Threads, h \in Hashes : FromHash(t, h)

Spec == Init /\ [][Next]_vars
=============================================================================
