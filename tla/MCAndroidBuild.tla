--------------------------- MODULE MCAndroidBuild ---------------------------
(* Two builds of two inputs, a seed of four files at most.                   *)
EXTENDS AndroidBuild, TLC
CONSTANTS b1, b2, f1, f2
TwoBuilds == {b1, b2}
TwoInputs == {f1, f2}
Symmetric == Permutations(TwoBuilds) \cup Permutations(TwoInputs)
=============================================================================
