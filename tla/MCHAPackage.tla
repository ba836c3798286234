----------------------------- MODULE MCHAPackage -----------------------------
(* A package and another one of the same size.                               *)
EXTENDS HAPackage, TLC

CONSTANTS i1, i2, i3, i4, i5

TwoVersions  == {"v1", "v2"}
FiveFiles    == {i1, i2, i3, i4, i5}
Both         == {"restore", "recover"}
Symmetries   == Permutations(FiveFiles)
=============================================================================
