------------------------------ MODULE SyncPipeline ------------------------------
(***************************************************************************)
(* Webhook handlers, the manual snapshot route and Celery workers over the *)
(* shared tables, for one connection and one ref; plus the developers who  *)
(* push to the ref and the time that passes.                               *)
(***************************************************************************)
EXTENDS SyncWorker, ManualSync, FiniteSets

vars == <<tableVars, handler, worker, manual>>

TypeOK == TablesTypeOK /\ IntakeTypeOK /\ WorkerTypeOK /\ ManualTypeOK

Init == TablesInit /\ IntakeInit /\ WorkerInit /\ ManualInit

Push ==
    /\ remote < MaxHead
    /\ remote' = remote + 1
    /\ UNCHANGED <<dbVars, queue, arrivals, incidents>>

\* Fifteen minutes pass for a dispatched pending run or a running run.
Age(r) ==
    /\ Happens("delay")
    /\ \/ /\ status[r] = "pending" /\ dispatch[r] = "fresh"
          /\ dispatch' = [dispatch EXCEPT ![r] = "stale"]
          /\ UNCHANGED started
       \/ /\ status[r] = "running" /\ started[r] = "fresh"
          /\ started' = [started EXCEPT ![r] = "stale"]
          /\ UNCHANGED dispatch
    /\ UNCHANGED <<remote, events, cursor, status, trigger, snapshot, queue, arrivals>>

Environment == Push \/ \E r \in Runs : Age(r)

Next ==
    \/ IntakeNext /\ UNCHANGED <<worker, manual>>
    \/ WorkerNext /\ UNCHANGED <<handler, manual>>
    \/ ManualNext /\ UNCHANGED <<handler, worker>>
    \/ Environment /\ UNCHANGED <<handler, worker, manual>>

Spec == Init /\ [][Next]_vars

\* A request that has been read is served and a free worker takes a message:
\* uvicorn's threads and Celery's prefork pool both guarantee it.  Nothing is
\* assumed of pushes, deliveries, time and incidents.
Fairness ==
    /\ \A h \in Handlers : WF_vars(HandlerStep(h) /\ UNCHANGED <<worker, manual>>)
    /\ \A w \in Workers : WF_vars(WorkerStep(w) /\ UNCHANGED <<handler, manual>>)
    /\ WF_vars(ManualStep /\ UNCHANGED <<handler, worker>>)

FairSpec == Spec /\ Fairness

(***************************************************************************)
(* Safety.                                                                 *)
(***************************************************************************)
Building(w) == worker[w].pc \in {"resolve", "commit"}

\* An event that was folded into a run is contained in that run's snapshot: the
\* intake may answer "already being synchronised" only for a run that has not
\* yet resolved an older head (process_*_event, build_code_snapshot).
NoHeadLost ==
    \A d \in Deliveries :
        LET r == events[d].run
        IN  r # None => (snapshot[r] # None => snapshot[r] >= HeadOf[d])

\* A redelivery may put an event into another run while a worker is between its read and
\* its UPDATE of the event, which then says of the other run what was true of the first.
\* It takes two messages of the first run, or a run that was not sent or has grown old.
EventsMove == /\ ~Never({"redelivery"})
              /\ ~Never({"sendError", "duplicate", "delay", "workerCrash"})

\* An event reported as synchronised has a snapshot to show for it, whatever
\* duplicates and failure handlers ran, or whatever was redelivered; but not of both, when
\* events may move (_run_webhook_sync_task).
CompletedHasSnapshot == ~EventsMove =>
    \A d \in Deliveries :
        (events[d].status = "completed" /\ events[d].decision = "queued")
            => (events[d].run # None /\ snapshot[events[d].run] # None)

\* Two workers build the same run only if one took it over as stale: mark_running
\* admits one of the copies of a message.
BuildExclusive ==
    \A v, w \in Workers :
        (v # w /\ Building(v) /\ Building(w) /\ worker[v].run = worker[w].run)
            => (worker[v].allow \/ worker[w].allow)

\* The cursor never names an event whose sync has failed: a later delivery of the
\* same head is not dropped as duplicate_head (_restore_event_cursor_after_failure).
\* This holds until the transactions of two failures overlap, of which each lists the
\* other's event as still good.
CursorNotFailed == Never({"overlap"}) /\ cursor # None => events[cursor].status # "failed"

\* Unless a process dies or a failure's transaction meets another cursor than it has
\* read, a pending run that is marked as dispatched has a message in the queue or a
\* process that holds or is about to send one, or to take the mark back
\* (claim_dispatch_enqueued, record_webhook_enqueue_failure).
DispatchBacked == Never({"handlerCrash", "workerCrash", "cursorConflict"}) =>
    \A r \in Runs : (status[r] = "pending" /\ dispatch[r] # "none") =>
        \/ queue[r] > 0
        \/ \E h \in Handlers : handler[h].run = r /\ handler[h].pc \in {"send", "undo"}
        \/ \E w \in Workers : \/ worker[w].run = r
                             \/ worker[w].next = r

\* A stored snapshot is never replaced, even by a second worker that built the
\* same run (uq_code_snapshot_sync_run_id).
SnapshotImmutable ==
    [][\A r \in Runs : snapshot[r] # None => snapshot'[r] = snapshot[r]]_vars

\* The blocked run can be handed over: the event it waits for is still in it and
\* still "validated", so the release in _dispatch_next_pending_sync_for_ref finds it.
BlockedWaits ==
    \A r \in Runs : status[r] = "blocked" =>
        /\ trigger[r] # None
        /\ events[trigger[r]].run = r
        /\ events[trigger[r]].status = "validated"

\* A pending webhook run is on its way to a worker, or the next delivery or the
\* next finished run of the ref will dispatch it (_pending_sync_dispatch_event_id,
\* _dispatch_next_pending_sync_for_ref).
PendingOnItsWay ==
    \A r \in Runs : (status[r] = "pending" /\ trigger[r] # None) =>
        \/ queue[r] > 0
        \/ \E w \in Workers : worker[w].run = r
        \/ /\ events[trigger[r]].run = r
           /\ events[trigger[r]].status = "queued"

\* Both hold until a delivery is redelivered, whatever crashes, failing sends and
\* repeated or delayed messages do (_dispatch_next_pending_sync_for_ref,
\* record_webhook_enqueue_failure, mark_failed).
BlockedReleasable == Never({"redelivery"}) => BlockedWaits
PendingRecoverable == Never({"redelivery"}) => PendingOnItsWay

\* One message of a run is on its way or being worked on at a time, as long as no
\* sending fails, no message is repeated and no dispatch is 15 minutes old:
\* concurrent handlers and finished workers never dispatch the same run twice
\* (claim_dispatch_enqueued).
DispatchedOnce == Never({"sendError", "duplicate", "delay"}) =>
    \A r \in Runs :
        queue[r] + Cardinality({h \in Handlers : /\ handler[h].pc = "send"
                                                  /\ handler[h].run = r})
                 + Cardinality({w \in Workers : worker[w].run = r})
                 + Cardinality({w \in Workers : worker[w].next = r}) <= 1

\* A manual run that is taken back is one that no event has joined: the event
\* would be folded into a run that is never built (cancel_initial_snapshot races
\* with process_*_event; the foreign key of repository_events settles it).
CancelledHasNoEvents ==
    \A d \in Deliveries : events[d].run # None => status[events[d].run] # "cancelled"

\* Unless a worker is lost or its failure's transaction is rolled back, a running run has
\* a worker that has not given it up; and, unless a sending fails or events move too, the
\* event that started a run which is over has been told so, or a worker is still about to
\* tell it (run_webhook_sync has every path end in the transaction that settles the event).
Engaged == {"load", "mark", "resolve", "commit", "buildFail", "fail", "restore", "upsert"}
Engages(w, r) == worker[w].run = r /\ worker[w].next = None /\ worker[w].pc \in Engaged

RunningAttended == Never({"workerCrash", "cursorConflict"}) =>
    \A r \in Runs : status[r] = "running" => \E w \in Workers : Engages(w, r)

NothingAbandoned ==
    /\ RunningAttended
    /\ Never({"workerCrash", "cursorConflict", "sendError"}) /\ ~EventsMove =>
          \A r \in Runs : (Linked(r) /\ status[r] \in {"succeeded", "failed"}) =>
            \/ events[trigger[r]].status \in {"completed", "failed"}
            \/ \E w \in Workers : \/ Engages(w, r)
                                  \/ worker[w].run = r /\ At(w, "finish")

\* A run and the event that started it are given the same verdict, whatever crashes,
\* failures and redeliveries come between the transactions that write them, as long as
\* no sending fails, no message is repeated and nothing is 15 minutes old, and not both
\* crashes and redeliveries (EventsMove).
OutcomesAgree == Never({"sendError", "duplicate", "delay"}) /\ ~EventsMove =>
    \A r \in Runs : Linked(r) =>
        LET event == events[trigger[r]]
        IN  /\ event.status = "failed" => status[r] = "failed"
            /\ (event.status = "completed" /\ event.decision = "queued")
                  => status[r] = "succeeded"

(***************************************************************************)
(* The runs of the ref implement RefSlot: what it calls holding is pending *)
(* or running, what it calls waiting is blocked.                           *)
(***************************************************************************)
PhaseOf(s) == CASE s = "absent" -> "new"
                [] s = "blocked" -> "waiting"
                [] s \in {"pending", "running"} -> "holding"
                [] OTHER -> "left"

Slot == INSTANCE RefSlot WITH Commits <- 0 .. MaxHead,
                              phase <- [r \in Runs |-> PhaseOf(status[r])],
                              stored <- snapshot

\* The unique indexes, mark_running, mark_failed, release_blocked_if_no_active and
\* the unconditional mark_succeeded, together, never let a second run into the
\* slot, a blocked run out of turn, or a second snapshot into a run.
ImplementsSlot == Slot!SlotSpec

\* A build, seen from outside, is as BuildOutcome says, like the detailed one of
\* SnapshotBuild: a run is started, given up, or gets one snapshot, of a pushed commit.
OutcomeOf(s) == CASE s = "running" -> "building" [] s = "succeeded" -> "stored"
                  [] s = "failed" -> "failed" [] OTHER -> "open"

Outcome == INSTANCE BuildOutcome WITH outcome <- [r \in Runs |-> OutcomeOf(status[r])],
                                      product <- snapshot,
                                      choices <- 0 .. remote

ImplementsOutcome == Outcome!OutcomeSpec

(***************************************************************************)
(* Liveness.                                                               *)
(***************************************************************************)
\* A blocked run is handed over after the run it waits for
\* (_dispatch_next_pending_sync_for_ref).
BlockedHandedOver ==
    \A r \in Runs : (status[r] = "blocked") ~> (status[r] = "pending")

\* Unless a worker is lost, a pending run is started or given up (the claim, the
\* send and the task), and so is a running run brought to an end.  No handler crashes
\* and no sending fails in the run that checks this: either may leave a pending run to
\* the next delivery.
PendingStarts ==
    \A r \in Runs : (status[r] = "pending")
                       ~> (status[r] # "pending" \/ ~Never({"workerCrash"}))

\* (A message put back at once is used up by a run that is not yet stale, so that a
\* lost worker may leave it running: _run_webhook_sync_task, "in_progress".)
RunningEndsUnlessLost ==
    \A r \in Runs : (status[r] = "running")
                       ~> (status[r] # "running" \/ ~Never({"workerCrash"}))

\* The event that started a failed run is failed with it and the cursor no longer
\* vouches for its head, even when the worker dies between the two transactions, unless
\* failures' transactions collide.
FailureReachesCursor ==
    \A r \in Runs : (status[r] = "failed" /\ trigger[r] # None)
                       ~> \/ cursor # trigger[r] \/ status[r] # "failed"
                          \/ ~Never({"overlap", "cursorConflict"})

(***************************************************************************)
(* The strengthening of NoHeadLost that every step preserves.              *)
(***************************************************************************)
\* A run that has not been executed has no snapshot; one being built has started.
NotBuilt == {"absent", "blocked", "pending", "running", "cancelled"}
Started == {"running", "succeeded", "failed"}

LifecycleInv ==
    /\ \A r \in Runs : status[r] \in NotBuilt => snapshot[r] = None
    /\ \A w \in Workers : Building(w) =>
          worker[w].run \in Runs /\ status[worker[w].run] \in Started
    /\ \A w \in Workers : worker[w].pc = "commit" => worker[w].commit \in Nat

\* Who is about to send a run, or has failed to, has one with a trigger event.
SendersInv ==
    /\ \A h \in Handlers :
          (handler[h].pc \in {"claim", "send", "undo"} \/ handler[h].offer) =>
              /\ handler[h].run \in Runs
              /\ status[handler[h].run] # "absent"
              /\ trigger[handler[h].run] # None
    /\ \A w \in Workers : worker[w].next # None =>
          /\ worker[w].next \in Runs
          /\ status[worker[w].next] # "absent"
          /\ trigger[worker[w].next] # None

\* What the tables and the requests know of has been pushed.
PushedInv ==
    /\ \A h \in Handlers : handler[h].d # None => HeadOf[handler[h].d] <= remote
    /\ \A d \in Deliveries : events[d].run # None => HeadOf[d] <= remote
    /\ \A r \in Runs : trigger[r] # None => HeadOf[trigger[r]] <= remote

\* Run r, if it has resolved its commit, has resolved one that contains d's push.
Covers(r, d) ==
    /\ snapshot[r] # None => snapshot[r] >= HeadOf[d]
    /\ \A w \in Workers : (worker[w].pc = "commit" /\ worker[w].run = r)
            => worker[w].commit >= HeadOf[d]

CoverageInv ==
    /\ \A d \in Deliveries : events[d].run # None => Covers(events[d].run, d)
    /\ \A r \in Runs : trigger[r] # None => Covers(r, trigger[r])

\* A request about to write covers the run it saw pending, and, when it saw none
\* running, whatever run is running by now.
IntakeInv ==
    \A h \in Handlers :
        /\ handler[h].pc \in {"decide", "record"} => handler[h].d # None
        /\ handler[h].pc = "record" =>
              /\ handler[h].run # None => Covers(handler[h].run, handler[h].d)
              /\ (handler[h].decision = "queued" /\ ~handler[h].running) =>
                    \A r \in Runs : status[r] = "running" => Covers(r, handler[h].d)

IndInv ==
    /\ TypeOK /\ LifecycleInv /\ SendersInv /\ PushedInv /\ CoverageInv
    /\ IntakeInv

(***************************************************************************)
(* What the other safety properties rest on.                               *)
(***************************************************************************)
Done == {"succeeded", "failed", "cancelled"}
Made(r) == status[r] \notin {"absent", "blocked"}

\* Whatever is sent, worked on, joined or sent by hand is a run that has become
\* pending; who hands over, or has read that a run is done, has one that is.
RunsInv ==
    /\ \A r \in Runs : (queue[r] > 0 => Made(r)) /\ (~Made(r) => dispatch[r] = "none")
    /\ \A h \in Handlers : handler[h].run # None => Made(handler[h].run)
    /\ \A w \in Workers :
        /\ worker[w].run # None => Made(worker[w].run) /\ worker[w].pc # "idle"
        /\ worker[w].next # None =>
              Made(worker[w].next) /\ worker[w].pc \in {"send", "sendFail", "restore", "upsert"}
        /\ worker[w].seen # "absent" => worker[w].pc \in Failing \cup {"restore", "upsert"}
        /\ worker[w].seen \in Done => status[FailedRun(w)] \in Done
        /\ worker[w].pc \in {"dispatch", "send", "sendFail"} \/ worker[w].next # None =>
              status[worker[w].run] \in Done
    /\ manual.pc # "idle" => /\ manual.run # None
                             /\ Made(manual.run) /\ trigger[manual.run] = None

\* A run that succeeded has stored a snapshot, and so has one to be finished; it is
\* of a commit that has been pushed.
StoredInv ==
    /\ remote <= MaxHead
    /\ \A r \in Runs : snapshot[r] # None => snapshot[r] <= remote
    /\ \A w \in Workers : worker[w].pc = "commit" => worker[w].commit <= remote
    /\ \A r \in Runs : status[r] = "succeeded" => snapshot[r] # None
    /\ \A w \in Workers : worker[w].pc = "finish" => snapshot[worker[w].run] # None

\* A worker that has started its run itself is the only one to have done so.
Owns(w) == /\ ~worker[w].allow
           /\ Building(w) \/ (worker[w].pc = "load" /\ worker[w].again)

OwnersInv ==
    /\ \A w \in Workers : Owns(w) => status[worker[w].run] \in Started
    /\ \A v, w \in Workers : Owns(v) /\ Owns(w) /\ worker[v].run = worker[w].run => v = w

ManualInv == \A r \in Runs : status[r] = "cancelled" => trigger[r] = None

\* One message of a run at a time: in the queue, about to be sent by a handler or by
\* a finished worker, or worked on.
Sends(h, r) == handler[h].pc = "send" /\ handler[h].run = r
Works(w, r) == worker[w].run = r
Passes(w, r) == worker[w].next = r

Taken(r) == \/ queue[r] > 0
            \/ \E h \in Handlers : Sends(h, r)
            \/ \E w \in Workers : Works(w, r) \/ Passes(w, r)

OneMessage(r) ==
    /\ queue[r] <= 1
    /\ queue[r] > 0 => /\ \A h \in Handlers : ~Sends(h, r)
                       /\ \A w \in Workers : ~Works(w, r) /\ ~Passes(w, r)
    /\ \A g, h \in Handlers : Sends(g, r) /\ Sends(h, r) => g = h
    /\ \A h \in Handlers, w \in Workers : Sends(h, r) => ~Works(w, r) /\ ~Passes(w, r)
    /\ \A v, w \in Workers : /\ Works(v, r) /\ Works(w, r) => v = w
                             /\ Passes(v, r) /\ Passes(w, r) => v = w
                             /\ ~(Works(v, r) /\ Passes(w, r))

MessagesInv == Never({"sendError", "duplicate", "delay"}) =>
    /\ \A h \in Handlers : handler[h].pc # "undo"
    /\ \A w \in Workers : worker[w].pc # "sendFail"
    /\ manual.pc = "send" => ~Taken(manual.run)
    /\ \A r \in Runs : /\ dispatch[r] # "stale"
                       /\ OneMessage(r)
                       /\ Taken(r) /\ trigger[r] # None => dispatch[r] = "fresh"

\* Without redeliveries a delivery is in one request, then in one event, and starts
\* one run, whose trigger it stays until the run is done.
OnceInv ==
    /\ \A h \in Handlers : handler[h].d # None => ~Recorded(handler[h].d)
    /\ \A g, h \in Handlers : handler[g].d # None /\ handler[g].d = handler[h].d => g = h
    /\ \A r \in Runs : trigger[r] # None =>
          events[trigger[r]].run = r /\ events[trigger[r]].decision = "queued"
    /\ \A r \in Runs : status[r] = "pending" /\ trigger[r] # None =>
          events[trigger[r]].status = "queued"
    /\ BlockedWaits

DeliveriesInv == Never({"redelivery"}) => OnceInv

\* The row of a delivery is locked by one request or worker at a time, and a worker
\* that fails an event has locked its row.
Locks(h) == handler[h].pc = "record" /\ handler[h].row
FailedEvent(w) == trigger[FailedRun(w)]

RowsInv ==
    /\ \A d \in Deliveries : ~Recorded(d) => events[d].run = None
    /\ \A r \in Runs : trigger[r] # None => Recorded(trigger[r])
    /\ \A h \in Handlers : Locks(h) =>
          /\ Recorded(handler[h].d)
          /\ \A g \in Handlers : Locks(g) /\ handler[g].d = handler[h].d => g = h
          /\ \A w \in Workers : Restores(w) => FailedEvent(w) # handler[h].d
    /\ \A w \in Workers : Restores(w) =>
          /\ FailedEvent(w) # None
          /\ worker[w].seen # "absent" /\ worker[w].loaded # NoEvent
          /\ worker[w].next = None => Mine(w) /\ worker[w].seen # "succeeded"
          /\ Never({"sendError"}) => worker[w].next = None

\* Without redeliveries an event fails with its run, and what a worker has read of it
\* is what it will write to: an event of its run, that was not told its end unless it is.
LoadedInv == Never({"redelivery"}) =>
    /\ \A d \in Deliveries : events[d].status = "failed" /\ events[d].run # None
          => status[events[d].run] \in Done
    /\ \A w \in Workers : worker[w].loaded # NoEvent =>
          /\ worker[w].pc \in {"finish", "fail", "sendFail", "restore", "upsert"}
          /\ FailedRun(w) \in Runs /\ FailedEvent(w) # None
          /\ worker[w].loaded.run = FailedRun(w)
          /\ worker[w].loaded.decision = "queued"
          /\ Never({"sendError"}) /\ worker[w].loaded.status \in {"completed", "failed"}
                => events[FailedEvent(w)].status \in {"completed", "failed"}

\* A failure transaction that is alone at the cursor knows whether it names the event
\* that it fails, and puts back one that has not failed.
CursorInv == Never({"overlap"}) =>
    /\ cursor # None => events[cursor].status # "failed"
    /\ \A v, w \in Workers : Restores(v) /\ Restores(w) => v = w
    /\ \A w \in Workers : Restores(w) =>
          /\ worker[w].fallback # None => /\ events[worker[w].fallback].status # "failed"
                                          /\ worker[w].fallback # FailedEvent(w)
          /\ At(w, "upsert") /\ cursor = FailedEvent(w)
                => worker[w].latest = FailedEvent(w)

\* Who has brought a run to its end is on the way to its event: at "finish", or failing
\* without having seen that another worker stored the snapshot.
Settling(w, r) ==
    /\ worker[w].run = r
    /\ \/ worker[w].pc = "finish"
       \/ /\ worker[w].pc \in {"fail", "restore", "upsert"} /\ worker[w].next = None
          /\ worker[w].seen # "succeeded" /\ status[r] = "failed"

SettlingInv ==
    /\ RunningAttended
    /\ Never({"sendError"}) =>
          /\ \A h \in Handlers : handler[h].pc # "undo"
          /\ \A w \in Workers : worker[w].pc # "sendFail"
    /\ Never({"workerCrash", "cursorConflict", "sendError", "redelivery"}) =>
          \A r \in Runs : (Linked(r) /\ status[r] \in {"succeeded", "failed"}) =>
            \/ events[trigger[r]].status \in {"completed", "failed"}
            \/ \E w \in Workers : Settling(w, r)

\* The one worker of a run knows its status.
Knows(w) ==
    LET r == worker[w].run
    IN  /\ worker[w].pc \in {"resolve", "commit", "buildFail"} => status[r] = "running"
        /\ worker[w].pc = "finish" => status[r] = "succeeded"
        /\ (/\ worker[w].pc \in {"buildFail", "fail", "restore", "upsert"}
            /\ worker[w].seen # "absent" /\ IsWebhook(r)) => status[r] = worker[w].seen

VerdictsInv == Never({"sendError", "duplicate", "delay"}) =>
    /\ \A w \in Workers : Knows(w)
    /\ Never({"redelivery"}) => OutcomesAgree

\* No step of any process breaks any of this, whatever fails or comes again: the
\* common ground of the safety properties above.
SafeInv ==
    /\ RunsInv /\ StoredInv /\ OwnersInv /\ ManualInv /\ MessagesInv /\ DeliveriesInv
    /\ RowsInv /\ LoadedInv /\ CursorInv /\ SettlingInv /\ VerdictsInv

\* What every state of the pipeline has, and every step keeps.
PipelineInv == IndInv /\ SafeInv
===============================================================================
