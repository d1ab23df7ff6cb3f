--------------------------- MODULE MCSpinRWMutex ----------------------------
(* Model checking SpinRWMutex.  Of the value of WRITER it only matters that *)
(* the readers cannot count up to it, so 8 stands for 2^30.                 *)
EXTENDS SpinRWMutex

=============================================================================
