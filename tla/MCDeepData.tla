----------------------------- MODULE MCDeepData -----------------------------
(* Samples that overlap, meet, lie within each other, and hide each other.   *)
EXTENDS DeepData

Sample(z, zback, opaque, of) == [z |-> z, zback |-> zback, opaque |-> opaque, of |-> {of}]
Haze == Sample(0, 3, FALSE, "haze")
Pane == Sample(1, 1, FALSE, "pane")
Wall == Sample(0, 1, TRUE, "wall")
WrittenSamples == {Haze, Pane, Wall}
LoadedPixels == {<<>>, <<Haze, Pane>>, <<Haze, Wall>>}
=============================================================================
