---------------------------- MODULE MCV8Lifecycle ----------------------------
(***************************************************************************)
(* V8Lifecycle with two isolates of one thread.                            *)
(***************************************************************************)
EXTENDS V8Lifecycle, TLC

CONSTANTS i1, i2

TwoIsolates == {i1, i2}
Symmetry == Permutations(TwoIsolates)
==============================================================================
