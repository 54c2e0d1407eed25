------------------------------- MODULE SyncWorker -------------------------------
(***************************************************************************)
(* The Celery tasks run_webhook_sync and run_manual_snapshot_sync.  Each   *)
(* transaction of the task and of build_code_snapshot is a step.  Where a  *)
(* transaction reads without a lock what it overwrites later, reading and  *)
(* writing are steps of their own, for another one may commit in between:  *)
(* the status of the run in mark_failed, the event that is completed or    *)
(* failed, and the events and the cursor when the cursor is put back.      *)
(* A message is acknowledged when the task ends, however it ends: a worker *)
(* that is lost puts it back (task_acks_late, task_reject_on_worker_lost). *)
(***************************************************************************)
EXTENDS WebhookIntake   \* for the event rows its transactions have locked

IdleWorker == [pc |-> "idle", run |-> None, allow |-> FALSE, again |-> FALSE,
               commit |-> None, seen |-> "absent", next |-> None,
               loaded |-> NoEvent, fallback |-> None, latest |-> None]

Steps == {"idle", "load", "mark", "resolve", "commit", "buildFail", "fail",
          "finish", "dispatch", "send", "sendFail", "restore", "upsert"}

WorkerState ==
    [pc : Steps, run : Runs \cup {None},
     allow : BOOLEAN,           \* the run is taken over from a lost worker
     again : BOOLEAN,           \* the one retry after a scope change is spent
     commit : Nat \cup {None},  \* resolved_ref.commit_sha
     seen : RunStatus,          \* run status read before mark_failed writes
     next : Runs \cup {None},   \* the follow-up run being dispatched
     loaded : Event,            \* the event row as read
     fallback : Deliveries \cup {None},     \* the event to put into the cursor
     latest : Deliveries \cup {None}]       \* latest_event_id as read

\* Whoever works has a run, whoever sends a follow-up has that.
HasRuns(entry) ==
    /\ entry.pc # "idle" => entry.run # None
    /\ entry.pc \in {"send", "sendFail"} => entry.next # None

WorkerTypeOK == /\ worker \in [Workers -> WorkerState]
                /\ \A w \in Workers : HasRuns(worker[w])
WorkerInit == worker = [w \in Workers |-> IdleWorker]

At(w, pc) == worker[w].pc = pc
Step(w, pc) == worker' = [worker EXCEPT ![w].pc = pc]
\* Mutation of Ack: a worker that forgets its run but not its step.
AckHalf(w) == worker' = [worker EXCEPT ![w].run = None]

Ack(w) == worker' = [worker EXCEPT ![w] = IdleWorker]

\* A webhook message carries the trigger event of its run.
IsWebhook(r) == trigger[r] # None
TriggerFree(r) == IsWebhook(r) => ~RowLocked(trigger[r])

\* The event of w's run has been read, and was still that run's.
EventRead(w) == IsWebhook(FailedRun(w)) => worker[w].loaded # NoEvent
Mine(w) == IsWebhook(worker[w].run) /\ worker[w].loaded.run = worker[w].run

\* Does the event of r's message still belong to r?
Linked(r) == IsWebhook(r) /\ events[trigger[r]].run = r

(***************************************************************************)
(* A message is delivered.  The webhook task looks at the run first: while *)
(* it is freshly running the task ends with "in_progress"; a stale running *)
(* run is taken over.                                                      *)
(***************************************************************************)
Take(w, r) ==
    /\ At(w, "idle")
    /\ queue[r] > 0
    /\ queue' = [queue EXCEPT ![r] = @ - 1]
    /\ LET running == IsWebhook(r) /\ status[r] = "running"
       IN  IF running /\ started[r] = "fresh" THEN UNCHANGED worker
           ELSE worker' = [worker EXCEPT ![w] =
                    [IdleWorker EXCEPT !.pc = "load", !.run = r, !.allow = running]]
    /\ UNCHANGED <<remote, dbVars, arrivals, incidents>>

\* _load_snapshot_context and the checks on the status it returns.  A cancelled
\* manual run is gone: LookupError.
Load(w) ==
    LET r == worker[w].run
    IN  /\ At(w, "load")
        /\ Step(w, IF status[r] = "succeeded" THEN "finish"
                   ELSE IF status[r] = "pending" THEN "mark"
                   ELSE IF status[r] = "running" /\ (worker[w].allow \/ worker[w].again)
                        THEN "resolve"
                   ELSE "fail")
        /\ UNCHANGED tableVars

\* Mutation of MarkRunning: without the WHERE.
MarkRunningAlways(w) ==
    /\ At(w, "mark")
    /\ status' = [status EXCEPT ![worker[w].run] = "running"]
    /\ started' = [started EXCEPT ![worker[w].run] = "fresh"]
    /\ Step(w, "resolve")
    /\ UNCHANGED <<remote, events, cursor, trigger, dispatch, snapshot, queue,
                   arrivals, incidents>>

\* mark_running: UPDATE ... WHERE status = 'pending', else ValueError.
MarkRunning(w) ==
    LET r == worker[w].run
    IN  /\ At(w, "mark")
        /\ ~RunLocked(r)
        /\ IF status[r] = "pending"
           THEN /\ status' = [status EXCEPT ![r] = "running"]
                /\ started' = [started EXCEPT ![r] = "fresh"]
                /\ Step(w, "resolve")
           ELSE /\ Step(w, "fail")
                /\ UNCHANGED <<status, started>>
        /\ UNCHANGED <<remote, events, cursor, trigger, dispatch, snapshot, queue,
                       arrivals, incidents>>

\* The ref is resolved at the provider, the mirror fetched, the files read.
Resolve(w) ==
    /\ At(w, "resolve")
    /\ worker' = [worker EXCEPT ![w].pc = "commit", ![w].commit = remote]
    /\ UNCHANGED tableVars

\* The credential is missing, git fails, no file is left, the archive or the
\* metadata cannot be written, or the scope rules have changed again.
BuildFails(w) ==
    /\ worker[w].pc \in {"resolve", "commit"}
    /\ Happens("gitError")
    /\ worker' = [worker EXCEPT ![w].pc = "buildFail", ![w].commit = None]
    /\ UNCHANGED <<remote, dbVars, queue, arrivals>>

\* The scope rules were changed during the build: the final transaction rolls
\* back and build_code_snapshot calls itself, once, with _allow_running_retry.
Rebuild(w) ==
    /\ At(w, "commit")
    /\ ~worker[w].again
    /\ Happens("scopeChange")
    /\ worker' = [worker EXCEPT ![w].pc = "load", ![w].again = TRUE,
                                ![w].commit = None]
    /\ UNCHANGED <<remote, dbVars, queue, arrivals>>

\* Mutation of Commit: a second snapshot replaces the first.
CommitAgain(w) ==
    /\ At(w, "commit")
    /\ snapshot' = [snapshot EXCEPT ![worker[w].run] = worker[w].commit]
    /\ status' = [status EXCEPT ![worker[w].run] = "succeeded"]
    /\ worker' = [worker EXCEPT ![w].pc = "finish", ![w].commit = None]
    /\ UNCHANGED <<remote, events, cursor, trigger, dispatch, started, queue,
                   arrivals, incidents>>

\* The final transaction: code_snapshots has one row per run, and mark_succeeded
\* does not look at the status; a second builder gets the stored snapshot.
Commit(w) ==
    LET r == worker[w].run
    IN  /\ At(w, "commit")
        /\ ~RunLocked(r)
        /\ IF snapshot[r] = None
           THEN /\ snapshot' = [snapshot EXCEPT ![r] = worker[w].commit]
                /\ status' = [status EXCEPT ![r] = "succeeded"]
           ELSE UNCHANGED <<snapshot, status>>
        /\ worker' = [worker EXCEPT ![w].pc = "finish", ![w].commit = None]
        /\ UNCHANGED <<remote, events, cursor, trigger, dispatch, started, queue,
                       arrivals, incidents>>

(***************************************************************************)
(* Reads, without a lock, of a transaction that writes later.              *)
(***************************************************************************)
Failing == {"buildFail", "fail", "sendFail"}
HasRead(w, pc) == At(w, pc) /\ worker[w].seen # "absent"

\* The event: of the task's own run before the run, of a run not sent after it.
ReadEvent(w) ==
    /\ worker[w].pc \in {"finish", "fail"} \/ HasRead(w, "sendFail")
    /\ ~EventRead(w)
    /\ worker' = [worker EXCEPT ![w].loaded = events[trigger[FailedRun(w)]]]
    /\ UNCHANGED tableVars

\* The status of the run.
ReadStatus(w) ==
    /\ worker[w].pc \in Failing /\ worker[w].seen = "absent"
    /\ At(w, "fail") => EventRead(w)
    /\ worker' = [worker EXCEPT ![w].seen = status[FailedRun(w)]]
    /\ UNCHANGED tableVars

(***************************************************************************)
(* Failures.                                                               *)
(***************************************************************************)
\* Mutation of MarkFailed: the run stays as it is.
MarkNothing(w) == UNCHANGED status

\* mark_failed leaves a run alone that it read as succeeded; writing "failed"
\* over "failed" is no UPDATE.
MarkFailed(w) ==
    status' = IF Marks(w) THEN [status EXCEPT ![FailedRun(w)] = "failed"] ELSE status

\* _fail_snapshot_build commits, then raises.
FailBuild(w) ==
    /\ HasRead(w, "buildFail")
    /\ Marks(w) => ~RunLocked(worker[w].run)
    /\ MarkFailed(w)
    /\ worker' = [worker EXCEPT ![w].pc = "fail", ![w].seen = "absent"]
    /\ UNCHANGED <<remote, events, cursor, trigger, dispatch, started, snapshot,
                   queue, arrivals, incidents>>

\* A worker fails the event with the run: that of a run it could not send, and
\* that of its own run, if it was still the run's and the run not yet succeeded.
FailsEvent(w) == At(w, "sendFail") \/ (Mine(w) /\ worker[w].seen # "succeeded")

\* On to the next run of the ref.
HandOff(w) ==
    worker' = [worker EXCEPT ![w] = [IdleWorker EXCEPT !.pc = "dispatch",
                                                      !.run = worker[w].run]]

\* The except branch of the task, when there is no event to fail (or no event at
\* all: _mark_manual_snapshot_sync_failed).
FailTask(w) ==
    /\ HasRead(w, "fail") /\ EventRead(w) /\ ~FailsEvent(w)
    /\ Marks(w) => ~RunLocked(worker[w].run)
    /\ MarkFailed(w)
    /\ HandOff(w)
    /\ UNCHANGED <<remote, events, cursor, trigger, dispatch, started, snapshot,
                   queue, arrivals, incidents>>

\* When there is, or in _mark_pending_sync_dispatch_failed: the run and the event
\* are written, which waits for their rows and locks them, and the events are
\* listed.
FailEvent(w) ==
    LET r == FailedRun(w)
    IN  /\ HasRead(w, "fail") \/ HasRead(w, "sendFail")
        /\ EventRead(w) /\ FailsEvent(w)
        /\ Marks(w) => ~RunLocked(r)
        /\ TriggerFree(r)
        /\ \E d \in Deliveries \cup {None} :
            /\ IsFallback(d, trigger[r])
            /\ worker' = [worker EXCEPT ![w].pc = "restore", ![w].fallback = d]
        /\ IF \E v \in Workers : Restores(v) THEN Collides("overlap")
           ELSE UNCHANGED incidents
        /\ UNCHANGED <<remote, dbVars, queue, arrivals>>

\* The cursor is read.
ReadCursor(w) ==
    /\ At(w, "restore")
    /\ worker' = [worker EXCEPT ![w].pc = "upsert", ![w].latest = cursor]
    /\ UNCHANGED tableVars

\* The cursor is put back and the transaction commits; the task goes on, a worker
\* that was to send the next run is done.
CommitFailure(w) ==
    LET d == trigger[FailedRun(w)]
        loaded == worker[w].loaded
        run == IF worker[w].next = None THEN loaded.run ELSE worker[w].next
    IN  /\ At(w, "upsert")
        /\ ~UpsertConflict(worker[w].fallback, worker[w].latest)
        /\ MarkFailed(w)
        /\ events' = WriteBack(events, d, loaded, "failed", run)
        /\ RestoreCursor(d, worker[w].fallback, worker[w].latest)
        /\ IF worker[w].next = None THEN HandOff(w) ELSE Ack(w)
        /\ UNCHANGED <<remote, trigger, dispatch, started, snapshot, queue,
                       arrivals, incidents>>

\* IntegrityError or StaleDataError: the transaction rolls back, the task ends,
\* and its message is acknowledged all the same.
RollBackFailure(w) ==
    /\ At(w, "upsert")
    /\ UpsertConflict(worker[w].fallback, worker[w].latest)
    /\ Collides("cursorConflict")
    /\ Ack(w)
    /\ UNCHANGED <<remote, dbVars, queue, arrivals>>

\* The build returned a snapshot: the webhook task completes the event it read.
Finish(w) ==
    /\ At(w, "finish") /\ EventRead(w)
    /\ IF Mine(w)
       THEN LET r == worker[w].run
            IN  /\ TriggerFree(r)
                /\ events' = WriteBack(events, trigger[r], worker[w].loaded,
                                       "completed", r)
       ELSE UNCHANGED events
    /\ HandOff(w)
    /\ UNCHANGED <<remote, cursor, runVars, snapshot, queue, arrivals, incidents>>

(***************************************************************************)
(* _dispatch_next_pending_sync_for_ref.                                    *)
(***************************************************************************)
\* The task's event still belongs to its run, and the run is done.
MayHandOff(r) ==
    /\ IsWebhook(r) => Linked(r)
    /\ status[r] \in {"succeeded", "failed"}

\* A pending run that has a trigger event goes first.
PendingToDispatch ==
    {q \in WithStatus({"pending"}) : trigger[q] # None}

\* The blocked run may be released: its trigger event is still waiting in it, no
\* run of the ref is active (release_blocked_if_no_active), and its row is free.
Releasable(q) ==
    /\ status[q] = "blocked"
    /\ trigger[q] # None
    /\ events[trigger[q]].run = q
    /\ events[trigger[q]].status = "validated"
    /\ ActiveRuns = {}

DispatchPending(w) ==
    /\ At(w, "dispatch")
    /\ MayHandOff(worker[w].run)
    /\ \E q \in PendingToDispatch :
        /\ TriggerFree(q)
        /\ Dispatchable(q, events)
        /\ ClaimDispatch(q)
        /\ worker' = [worker EXCEPT ![w].pc = "send", ![w].next = q]
    /\ UNCHANGED <<remote, events, cursor, status, trigger, started, snapshot, queue,
                   arrivals, incidents>>

ReleaseBlocked(w) ==
    /\ At(w, "dispatch")
    /\ MayHandOff(worker[w].run)
    /\ \E q \in Runs :
        /\ Releasable(q)
        /\ TriggerFree(q)
        /\ status' = [status EXCEPT ![q] = "pending"]
        /\ dispatch' = [dispatch EXCEPT ![q] = "fresh"]
        /\ events' = Settle(events, trigger[q], "queued", "queued", q)
        /\ worker' = [worker EXCEPT ![w].pc = "send", ![w].next = q]
    /\ UNCHANGED <<remote, cursor, trigger, started, snapshot, queue, arrivals,
                   incidents>>

NothingToDispatch(w) ==
    /\ At(w, "dispatch")
    /\ \/ ~MayHandOff(worker[w].run)
       \/ \E q \in PendingToDispatch :
            \/ dispatch[q] = "fresh"
            \/ TriggerFree(q) /\ ~Dispatchable(q, events)
       \/ /\ PendingToDispatch = {}
          /\ \/ WithStatus({"running"}) # {}
             \/ \A q \in WithStatus({"blocked"}) : TriggerFree(q) /\ ~Releasable(q)
    /\ Ack(w)
    /\ UNCHANGED tableVars

SendNext(w) ==
    /\ At(w, "send")
    /\ Send(worker[w].next)
    /\ Ack(w)
    /\ UNCHANGED <<remote, dbVars, arrivals, incidents>>

\* send_task raises, before or after the broker has taken the message.
SendNextFails(w) ==
    /\ At(w, "send")
    /\ Happens("sendError")
    /\ Send(worker[w].next) \/ UNCHANGED queue
    /\ Step(w, "sendFail")
    /\ UNCHANGED <<remote, dbVars, arrivals>>

(***************************************************************************)
(* The worker process is lost; or the broker's visibility timeout delivers *)
(* the message of a task that is still running a second time.              *)
(***************************************************************************)
CrashWorker(w) ==
    /\ ~At(w, "idle")
    /\ Happens("workerCrash")
    /\ Send(worker[w].run)
    /\ Ack(w)
    /\ UNCHANGED <<remote, dbVars, arrivals>>

Duplicate(w) ==
    /\ ~At(w, "idle")
    /\ Happens("duplicate")
    /\ Send(worker[w].run)
    /\ UNCHANGED <<worker, remote, dbVars, arrivals>>

WorkerStep(w) ==
    \/ \E r \in Runs : Take(w, r)
    \/ Load(w) \/ MarkRunning(w) \/ Resolve(w) \/ Commit(w)
    \/ ReadEvent(w) \/ ReadStatus(w) \/ FailBuild(w) \/ FailTask(w)
    \/ FailEvent(w) \/ ReadCursor(w) \/ CommitFailure(w) \/ RollBackFailure(w)
    \/ Finish(w)
    \/ DispatchPending(w) \/ ReleaseBlocked(w) \/ NothingToDispatch(w)
    \/ SendNext(w)

WorkerNext ==
    \E w \in Workers :
        \/ WorkerStep(w)
        \/ BuildFails(w) \/ Rebuild(w) \/ SendNextFails(w) \/ CrashWorker(w) \/ Duplicate(w)
===============================================================================
