------------------------------ MODULE BuildOutcome ------------------------------
(***************************************************************************)
(* What a build of a snapshot is to everybody else: a run is started once, *)
(* its snapshot is stored in one step, of something that may be stored at  *)
(* that moment, at most once and never taken back; and a run may be given  *)
(* up at any time, even after it has stored (mark_failed reads the status  *)
(* before it writes it) or before it stores (mark_succeeded does not look  *)
(* at the status).                                                         *)
(*                                                                         *)
(* SnapshotBuild implements this with transactions, locks, directories and *)
(* retries; SyncPipeline, which has a build as two steps, does too.        *)
(***************************************************************************)
CONSTANTS Runs, None

VARIABLES
    outcome,    \* of each run
    product,    \* what each run's snapshot is of, if it has one
    choices     \* what a snapshot that is stored now may be of

outcomes == <<outcome, product>>

Set(r, what) == outcome' = [outcome EXCEPT ![r] = what]

OutcomeInit ==
    /\ outcome = [r \in Runs |-> "open"]
    /\ product = [r \in Runs |-> None]

Start(r) == outcome[r] = "open" /\ Set(r, "building") /\ UNCHANGED product

Store(r) ==
    /\ outcome[r] \in {"building", "failed"} /\ product[r] = None
    /\ Set(r, "stored")
    /\ \E p \in choices : product' = [product EXCEPT ![r] = p]

GiveUp(r) == outcome[r] # "failed" /\ Set(r, "failed") /\ UNCHANGED product

OutcomeNext == \E r \in Runs : Start(r) \/ Store(r) \/ GiveUp(r)

OutcomeSpec == OutcomeInit /\ [][OutcomeNext]_outcomes
===============================================================================
