----------------------------- MODULE MCConnectionStatus -----------------------------
(***************************************************************************)
(* ConnectionStatus for TLC.                                               *)
(***************************************************************************)
EXTENDS ConnectionStatus

CONSTANTS o1, o2, v1, b1, n1, n2

\* A branch and a tag that differ in both columns, and a branch between them.
TwoRefs == {[type |-> "branch", name |-> n1], [type |-> "tag", name |-> n2]}
ThreeRefs == TwoRefs \cup {[type |-> "branch", name |-> n2]}
=====================================================================================
