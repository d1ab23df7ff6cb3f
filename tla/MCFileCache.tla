---------------------------- MODULE MCFileCache -----------------------------
(* Instances of FileCache for TLC.  Files 1 and 2 have the same pixels, for  *)
(* good; file 3 has others, goes missing, and comes back with theirs, but    *)
(* not in the same shape.                                                    *)
EXTENDS FileCache, TLC

CONSTANTS c1, c2, red, blue

MCBinOf == [f \in Files |-> 1 + (f % NBins)]
MCContent == [f \in Files |-> IF f = 3 THEN <<blue, Missing, red>> ELSE <<red>>]
MCLayout == [f \in Files |-> IF f = 3 THEN "square" ELSE "wide"]
MCCalls == (c1 :> {<<o, 3>> : o \in {"invalidate", "refresh", "invalidate all", "refresh all"}}
                  \union {<<"read", 1>>})
        @@ (c2 :> {<<"info", 1>>, <<"info", 2>>, <<"read", 3>>, <<"close", 1>>})

\* invalidate_all against queries.
MCStandoffCalls == (c1 :> {<<"invalidate all", 1>>, <<"close all", 1>>})
                @@ (c2 :> {<<"read", f>> : f \in Files})
\* Two files of the same pixels, of which one is replaced and invalidated.
MCDupContent == [f \in Files |-> IF f = 2 THEN <<red, blue>> ELSE <<red>>]
MCDupCalls == [t \in Clients |-> {<<"read", 1>>, <<"read", 2>>, <<"invalidate", 2>>}]
\* A file that has a fingerprint, is closed and goes missing.
MCGoneContent == [f \in Files |-> IF f = 3 THEN <<red, Missing>> ELSE <<red>>]
MCGoneCalls == [t \in Clients |-> {<<"read", 1>>, <<"read", 3>>, <<"close", 3>>}]
=============================================================================
