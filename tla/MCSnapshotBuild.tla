----------------------------- MODULE MCSnapshotBuild -----------------------------
(***************************************************************************)
(* SnapshotBuild for TLC.                                                  *)
(***************************************************************************)
EXTENDS SnapshotBuild, TLC

CONSTANTS b1, b2, r1, r2, i1, i2, i3, i4

\* Builders are alike, and so are snapshot ids.
Alike == Permutations({b1, b2}) \cup Permutations({i1, i2, i3, i4})
===============================================================================
