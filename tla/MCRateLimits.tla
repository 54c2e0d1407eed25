------------------------------- MODULE MCRateLimits -------------------------------
(***************************************************************************)
(* RateLimits for TLC.                                                     *)
(***************************************************************************)
EXTENDS RateLimits, TLC

CONSTANTS q1, q2, q3, q4, q5, q6, s1, s2, s3, c1, c2

\* Requests, sources and connections are alike.
Alike == Permutations(Requests) \cup Permutations(Sources) \cup Permutations(Connections)
===================================================================================
