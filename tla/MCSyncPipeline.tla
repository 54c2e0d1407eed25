----------------------------- MODULE MCSyncPipeline -----------------------------
(* Values of the constants of SyncPipeline for TLC. *)
EXTENDS SyncPipeline, TLC

CONSTANTS d1, d2, d3, h1, h2, w1, w2

OneRun == 1 .. 1
TwoRuns == 1 .. 2
ThreeRuns == 1 .. 3

\* Deliveries of successive pushes, and of the same push.
Successive2 == d1 :> 1 @@ d2 :> 2
Successive3 == d1 :> 1 @@ d2 :> 2 @@ d3 :> 3
SameHead3 == d1 :> 1 @@ d2 :> 2 @@ d3 :> 2

Processes == Permutations({w1, w2}) \cup Permutations({h1, h2})
===============================================================================
