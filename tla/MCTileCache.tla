---------------------------- MODULE MCTileCache -----------------------------
(* Instances of TileCache for TLC: neighbouring TileIDs are in different     *)
(* bins, and the first TileID alone is of the first file when there are two. *)
EXTENDS TileCache

CONSTANTS f1, f2

MCBinOf == [i \in Ids |-> 1 + (i % NBins)]
MCFileOf == [i \in Ids |-> IF i = 1 \/ f2 \notin Files THEN f1 ELSE f2]
=============================================================================
