-------------------------------- MODULE RefSlot --------------------------------
(***************************************************************************)
(* What the sync runs of one ref promise, without webhooks, queue, workers *)
(* or failures: the ref is a slot that one run holds at a time, with room  *)
(* for one run to wait; a waiting run takes the slot only when it is free; *)
(* a run stores at most one snapshot, never replaces it, and stores none   *)
(* before it has held the slot.  SyncPipeline implements this.             *)
(***************************************************************************)
EXTENDS Naturals

CONSTANTS Runs, None,
          Commits     \* what a snapshot can be taken of

VARIABLES
    phase,      \* of each run
    stored      \* the commit each run has stored, if any

slotVars == <<phase, stored>>

In(p) == {r \in Runs : phase[r] = p}
Move(r, p) == phase' = [phase EXCEPT ![r] = p]

SlotTypeOK ==
    /\ phase \in [Runs -> {"new", "waiting", "holding", "left"}]
    /\ stored \in [Runs -> Commits \cup {None}]

SlotInit ==
    /\ phase = [r \in Runs |-> "new"]
    /\ stored = [r \in Runs |-> None]

\* A run of the free slot, or one that waits in a place nobody takes.
Enter(r) == phase[r] = "new" /\ In("holding") = {} /\ Move(r, "holding")
Wait(r) == phase[r] = "new" /\ In("waiting") = {} /\ Move(r, "waiting")
Promote(r) == phase[r] = "waiting" /\ In("holding") = {} /\ Move(r, "holding")
Leave(r) == phase[r] = "holding" /\ Move(r, "left")

Store(r) ==
    /\ stored[r] = None
    /\ \E commit \in Commits : stored' = [stored EXCEPT ![r] = commit]

SlotNext == \E r \in Runs :
    \/ (Enter(r) \/ Wait(r) \/ Promote(r) \/ Leave(r)) /\ UNCHANGED stored
    \/ Leave(r) /\ Store(r)
    \* a run that had been given up turns out to have been built
    \/ phase[r] = "left" /\ Store(r) /\ UNCHANGED phase

SlotSpec == SlotInit /\ [][SlotNext]_slotVars

\* The two promises that readers of the tables rely on.
OneHolder == \A q, r \in In("holding") : q = r
OneWaiting == \A q, r \in In("waiting") : q = r
StoredAfterHolding == \A r \in Runs : stored[r] # None => phase[r] = "left"
===============================================================================
