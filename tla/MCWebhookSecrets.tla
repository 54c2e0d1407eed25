---------------------------- MODULE MCWebhookSecrets ----------------------------
(***************************************************************************)
(* WebhookSecrets for TLC.                                                 *)
(***************************************************************************)
EXTENDS WebhookSecrets, TLC

CONSTANTS h1, h2, p1, p2, d1

\* Handlers are alike, and so are operators; no liveness is checked with this symmetry.
Alike == Permutations({h1, h2}) \cup Permutations({p1, p2})
===============================================================================
