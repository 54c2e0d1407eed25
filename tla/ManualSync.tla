------------------------------- MODULE ManualSync -------------------------------
(***************************************************************************)
(* POST /repositories/{id}/snapshots: a manual run has no trigger event,   *)
(* is created only when no run of the ref is active, is sent without a     *)
(* dispatch claim, and is deleted again when sending fails.                *)
(***************************************************************************)
EXTENDS SyncTables

CONSTANT MayRequest     \* whether this instance has manual requests

VARIABLE manual         \* the request being served, or its run

IdleManual == [pc |-> "idle", run |-> None]

ManualTypeOK == manual \in [pc : {"idle", "send", "cancel"}, run : Runs \cup {None}]
ManualInit == manual = IdleManual

\* create_initial_snapshot; the request is refused while a run is active.
RequestSnapshot ==
    /\ manual.pc = "idle"
    /\ MayRequest /\ arrivals < MaxArrivals
    /\ arrivals' = arrivals + 1
    /\ IF ActiveRuns = {}
       THEN \E r \in Runs : /\ CreateRun(r, "pending", None)
                            /\ manual' = [pc |-> "send", run |-> r]
       ELSE UNCHANGED <<manual, runVars>>
    /\ UNCHANGED <<remote, events, cursor, snapshot, queue, incidents>>

SendManual ==
    /\ manual.pc = "send"
    /\ Send(manual.run)
    /\ manual' = IdleManual
    /\ UNCHANGED <<remote, dbVars, arrivals, incidents>>

SendManualFails ==
    /\ manual.pc = "send"
    /\ Happens("sendError")
    /\ Send(manual.run) \/ UNCHANGED queue
    /\ manual' = [manual EXCEPT !.pc = "cancel"]
    /\ UNCHANGED <<remote, dbVars, arrivals>>

\* Mutation of Cancel: without the foreign key.
CancelAnyway ==
    /\ manual.pc = "cancel"
    /\ status' = IF status[manual.run] = "pending"
                 THEN [status EXCEPT ![manual.run] = "cancelled"] ELSE status
    /\ manual' = IdleManual
    /\ UNCHANGED <<remote, events, cursor, trigger, dispatch, started, snapshot,
                   queue, arrivals, incidents>>

\* cancel_initial_snapshot: delete_pending refuses a run that has started, and
\* the foreign key of repository_events one that an event has joined.
Cancel ==
    LET r == manual.run
    IN  /\ manual.pc = "cancel"
        /\ status' = IF status[r] = "pending" /\ \A d \in Deliveries : events[d].run # r
                     THEN [status EXCEPT ![r] = "cancelled"] ELSE status
        /\ manual' = IdleManual
        /\ UNCHANGED <<remote, events, cursor, trigger, dispatch, started, snapshot,
                       queue, arrivals, incidents>>

CrashManual ==
    /\ manual.pc # "idle"
    /\ Happens("handlerCrash")
    /\ manual' = IdleManual
    /\ UNCHANGED <<remote, dbVars, queue, arrivals>>

ManualStep == SendManual \/ Cancel
ManualNext == RequestSnapshot \/ ManualStep \/ SendManualFails \/ CrashManual
===============================================================================
