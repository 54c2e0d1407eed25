------------------------------ MODULE SyncTables ------------------------------
(***************************************************************************)
(* The tables through which the webhook handlers, the manual snapshot      *)
(* route and the Celery workers of one repository connection coordinate,   *)
(* narrowed to one ref: repository_events, repository_event_cursors,       *)
(* repository_sync_runs, code_snapshots, and the Celery queue.  The        *)
(* operators below are what the repository classes read; the steps of the  *)
(* processes are in WebhookIntake, ManualSync and SyncWorker.              *)
(*                                                                         *)
(* A commit of the ref is its position in the branch's history, so         *)
(* "snapshot[r] >= HeadOf[d]" says that r's snapshot contains d's push.    *)
(***************************************************************************)
EXTENDS Integers

CONSTANTS
    Deliveries,     \* the provider deliveries, by delivery id
    HeadOf,         \* the head each delivery announces
    Runs,           \* the ids of sync runs
    None,           \* SQL NULL
    MaxHead,        \* bound: pushes to the ref
    MaxArrivals,    \* bound: webhook requests and manual requests
    Incidents,      \* the kinds of incident this instance allows
    MaxIncidents    \* bound: the steps that meet one

Kinds == {"gitError", "sendError", "handlerCrash", "workerCrash", "redelivery",
          "duplicate", "delay", "scopeChange"}

\* What failure transactions of two workers, or of one and a handler, do to each
\* other (SyncWorker); never chosen by the environment, hence not counted.
Collisions == {"overlap", "cursorConflict"}

ASSUME HeadOfAssumption == HeadOf \in [Deliveries -> Nat]
ASSUME RunsAssumption == Runs \subseteq Nat
ASSUME NoneAssumption == None \notin Runs /\ None \notin Deliveries /\ None \notin Nat
ASSUME BoundsAssumption == {MaxHead, MaxArrivals, MaxIncidents} \subseteq Nat
ASSUME IncidentsAssumption == Incidents \subseteq Kinds

VARIABLES
    remote,     \* head of the ref in the provider's repository
    events,     \* repository_events
    cursor,     \* repository_event_cursors: latest_event_id of the ref
    status,     \* repository_sync_runs.status
    trigger,    \* repository_sync_runs.trigger_event_id
    dispatch,   \* dispatch_enqueued_at: NULL, within 15 minutes, or older
    started,    \* started_at of a running run: within 15 minutes, or older
    snapshot,   \* code_snapshots: the commit stored for a run
    queue,      \* messages on the Celery queue, per run
    arrivals,   \* requests received; also the clock of received_at
    incidents   \* how many steps have met one, and of what kinds

runVars == <<status, trigger, dispatch, started>>
dbVars == <<events, cursor, runVars, snapshot>>
tableVars == <<remote, dbVars, queue, arrivals, incidents>>

(***************************************************************************)
(* Values.  A row that does not exist has status "absent"; a manual run    *)
(* deleted by cancel_initial_snapshot is "cancelled", its id never reused. *)
(***************************************************************************)
RunStatus == {"absent", "blocked", "pending", "running", "succeeded", "failed",
              "cancelled"}
Decisions == {"queued", "duplicate_head", "duplicate_delivery", "stale_head"}
EventStatus == {"absent", "validated", "queued", "completed", "failed"}

Event == [decision : Decisions, status : EventStatus,
          run : Runs \cup {None}, at : Nat]
NoEvent == [decision |-> "queued", status |-> "absent", run |-> None, at |-> 0]

TablesTypeOK ==
    /\ remote \in Nat
    /\ events \in [Deliveries -> Event]
    /\ cursor \in Deliveries \cup {None}
    /\ status \in [Runs -> RunStatus]
    /\ trigger \in [Runs -> Deliveries \cup {None}]
    /\ dispatch \in [Runs -> {"none", "fresh", "stale"}]
    /\ started \in [Runs -> {"fresh", "stale"}]
    /\ snapshot \in [Runs -> Nat \cup {None}]
    /\ queue \in [Runs -> Nat]
    /\ arrivals \in Nat
    /\ incidents \in [steps : Nat, kinds : SUBSET (Kinds \cup Collisions)]

TablesInit ==
    /\ remote = 0
    /\ events = [d \in Deliveries |-> NoEvent]
    /\ cursor = None
    /\ status = [r \in Runs |-> "absent"]
    /\ trigger = [r \in Runs |-> None]
    /\ dispatch = [r \in Runs |-> "none"]
    /\ started = [r \in Runs |-> "fresh"]
    /\ snapshot = [r \in Runs |-> None]
    /\ queue = [r \in Runs |-> 0]
    /\ arrivals = 0
    /\ incidents = [steps |-> 0, kinds |-> {}]

\* A message sent to Celery names a run; its event_id is trigger[run], which
\* no longer changes once a run has left "blocked".
Send(r) == queue' = [queue EXCEPT ![r] = @ + 1]

\* The step meets incidents of these kinds, usually none or one.
Meets(kinds) ==
    /\ kinds \subseteq Incidents
    /\ kinds # {} => incidents.steps < MaxIncidents
    /\ incidents' = [steps |-> IF kinds = {} THEN incidents.steps
                               ELSE incidents.steps + 1,
                     kinds |-> incidents.kinds \cup kinds]

Happens(kind) == Meets({kind})

\* The step shows that two transactions have collided.
Collides(kind) == incidents' = [incidents EXCEPT !.kinds = @ \cup {kind}]

\* None of these has happened so far.
Never(kinds) == incidents.kinds \cap kinds = {}

(***************************************************************************)
(* Reads of repository_sync_runs.                                          *)
(***************************************************************************)
Recorded(d) == events[d].status # "absent"

WithStatus(S) == {r \in Runs : status[r] \in S}

\* Mutation of ActiveRuns: the index covers pending runs only.
PendingIsActive == WithStatus({"pending"})

\* ix_sync_run_one_active_per_requested_ref lets one run be in here.
ActiveRuns == WithStatus({"pending", "running"})

\* Mutation of ThePending: a running run is joined, too.
AnActive == IF ActiveRuns = {} THEN None ELSE CHOOSE r \in ActiveRuns : TRUE

\* get_active_for_requested_ref, which looks for PENDING only.
ThePending ==
    IF WithStatus({"pending"}) = {} THEN None
    ELSE CHOOSE r \in WithStatus({"pending"}) : TRUE

\* The next id to be given to a run.
IsNextRun(r) ==
    /\ status[r] = "absent"
    /\ \A q \in Runs : q < r => status[q] # "absent"

\* A new row of repository_sync_runs.
CreateRun(r, newStatus, event) ==
    /\ IsNextRun(r)
    /\ status' = [status EXCEPT ![r] = newStatus]
    /\ trigger' = [trigger EXCEPT ![r] = event]
    /\ UNCHANGED <<dispatch, started>>

\* Mutation of DispatchDue: without the recent dispatch.
DueWhilePending(r) == status[r] = "pending"

\* A pending run may be sent (again) when no recent dispatch is on record.
DispatchDue(r) == status[r] = "pending" /\ dispatch[r] # "fresh"

\* The condition under which another process dispatches a pending run for its
\* trigger event, on the event rows evs.
Dispatchable(r, evs) ==
    /\ trigger[r] # None
    /\ dispatch[r] # "fresh"
    /\ evs[trigger[r]].run = r
    /\ evs[trigger[r]].status = "queued"

\* claim_dispatch_enqueued: UPDATE ... WHERE status = 'pending' AND due.
ClaimDispatch(r) ==
    /\ DispatchDue(r)
    /\ dispatch' = [dispatch EXCEPT ![r] = "fresh"]

(***************************************************************************)
(* Rows of repository_events.                                              *)
(***************************************************************************)
\* Mutations of Settle: the decision is not updated; the run is not.
SettleStatus(evs, d, decision, newStatus, run) ==
    [evs EXCEPT ![d].status = newStatus, ![d].run = run]
SettleUnlinked(evs, d, decision, newStatus, run) ==
    [evs EXCEPT ![d].decision = decision, ![d].status = newStatus]

Settle(evs, d, decision, newStatus, run) ==
    [evs EXCEPT ![d].decision = decision, ![d].status = newStatus, ![d].run = run]

\* An UPDATE of a row that was read as `loaded` writes the columns that are to
\* differ from it, and leaves the others as committed meanwhile.
Column(now, read, new) == IF new = read THEN now ELSE new

WriteBack(evs, d, loaded, newStatus, run) ==
    [evs EXCEPT ![d].decision = Column(@, loaded.decision, "queued"),
                ![d].status = Column(@, loaded.status, newStatus),
                ![d].run = Column(@, loaded.run, run)]

\* The events whose head may be put back into the cursor when failed's sync
\* has failed; what other transactions have not committed is not seen.
Fallbacks(failed) ==
    {d \in Deliveries \ {failed} :
        /\ events[d].decision = "queued"
        /\ events[d].status \notin {"absent", "failed"}
        /\ events[d].run # None}

\* The newest of them.
IsFallback(d, failed) ==
    \/ /\ d \in Fallbacks(failed)
       /\ \A e \in Fallbacks(failed) : events[e].at <= events[d].at
    \/ d = None /\ Fallbacks(failed) = {}

\* Mutation of RestoreCursor: the failed head stays.
KeepCursor(failed, fallback, latest) == UNCHANGED cursor

\* _restore_event_cursor_after_failure, which has found the fallback and has read
\* the cursor as `latest`: upsert the fallback, else delete the cursor by its id if
\* it named the failed event.
RestoreCursor(failed, fallback, latest) ==
    cursor' = IF fallback # None THEN Column(cursor, latest, fallback)
              ELSE IF latest = failed THEN None ELSE cursor

\* The upsert inserts a second cursor, or updates one that has been deleted.
UpsertConflict(fallback, latest) ==
    fallback # None /\ (latest = None) # (cursor = None)
===============================================================================
