# Verification of the repository ingestion pipeline

This directory holds TLA+ specifications of the program in
`src/pilot-git-repo-connection`: a FastAPI application and Celery workers that
connect Git repositories (GitHub, self-managed GitLab), receive their webhooks
and store snapshots of their code.  Everything else in the repository is
planning documents and templates.  Paths below are relative to
`src/pilot-git-repo-connection/src/tci`.

## The system

| component | code | state | operations |
|---|---|---|---|
| webhook intake | `api/routes/*_webhooks.py`, `domain/services/process_{github,gitlab}_event.py`, `repository_event_processing.py` | `repository_events`, `repository_event_cursors`, `repository_sync_runs` | verify, decide, record an event, create or join a sync run, claim and send its dispatch, take it back |
| sync worker | `infrastructure/queue/repository_ingestion_tasks.py`, `workers/celery_app.py` | the Celery queue, `repository_sync_runs`, events, cursor | run a webhook or manual sync, fail it, hand the ref over to the next run |
| snapshot build | `domain/services/build_code_snapshot.py`, `infrastructure/snapshots/*` | `code_snapshots`, archive directories | resolve, fetch, filter, store, commit; retry after a scope change |
| manual snapshots | `domain/services/create_initial_snapshot.py`, `api/routes/repository_snapshots.py` | `repository_sync_runs` | create, send, cancel |
| git mirrors | `infrastructure/git/git_mirror_manager.py` | bare mirrors on disk | create or fetch, read a tree |
| scope rules | `domain/services/save_scope_rules.py`, `scope_filter_engine.py` | rule versions, the active one | save a version, filter entries, warn |
| webhook secrets | `domain/services/rotate_webhook_secret.py`, `infrastructure/webhooks/*signature*, *token*` | secret revisions | rotate, verify with the active and the previous secret |
| connections | `create_/verify_repository_connection.py`, `update_default_ref.py`, `repository_connection_repository.py`, `infrastructure/git/git_{ref_resolver,readonly_validator}.py` | connection status, default ref | create, verify, change the default ref; a build that fails writes the status too |
| rate limiters | `api/routes/*_webhooks.py`, `api/operator_auth.py` | request times in memory or Redis | admit or refuse |
| operator login, web pages, schemas, settings | `api/operator_auth.py`, `web/`, `settings.py` | cookies | — |

The hard part is the ref.  Webhook handlers, the manual snapshot route and the
workers run in different processes and share nothing but PostgreSQL (READ
COMMITTED) and a Celery queue on Redis.  Every one of them reads a few rows,
decides, writes, commits, and only then sends a message; providers redeliver,
brokers deliver twice, workers die and messages come back.  What holds the
whole together are two partial unique indexes (one active and one blocked run
per ref), a few `UPDATE ... WHERE` statements, the row lock on a delivery, and
a timestamp that says a run has been dispatched.  Failure handlers read events
and the cursor without locks and write them back later in the transaction,
which SQLAlchemy does column by column.

## The modules

| module | what it models |
|---|---|
| `SyncTables` | the tables and the queue as one connection and one ref see them; the reads, the conditional updates, the rewriting of events (also from an older reading, `WriteBack`), the cursor restored after a failure |
| `WebhookIntake` | handlers: `Receive` (cursor and head read, git may fail), `Decide` (delivery row locked, runs read), eight outcomes of the recording transaction, `Claim`, `SendTask`, `SendTaskFails`, `ReadUndone` and `Undo`, `CrashHandler` |
| `SyncWorker` | workers: `Take`, then one action per transaction of the task and of `build_code_snapshot`; `ReadEvent`, `ReadStatus`, `FailEvent`, `ReadCursor`, `CommitFailure`, `RollBackFailure` for the statements of a failure's transaction; the hand-over (`DispatchPending`, `ReleaseBlocked`, `NothingToDispatch`, `SendNext`), `CrashWorker` and `Duplicate` |
| `ManualSync` | the manual request: `RequestSnapshot`, `SendManual`, `SendManualFails`, `Cancel`, `CrashManual` |
| `SyncPipeline` | the three together, pushes and time, all properties, fairness |
| `RefSlot` | the abstract specification of the runs of one ref |
| `BuildOutcome` | the abstract specification of what a build is to everybody else: a run is started, given up, or stores one snapshot, at once; `SnapshotBuild` and `SyncPipeline` both implement it |
| `MCSyncPipeline` | values of the constants for TLC |
| `SyncPipelineProofs` | proof that every reachable state is well typed |
| `CoverageProofs` | proof of `NoHeadLost` |
| `SafetyProofs` | proof of `SafeInv`, and of every other safety property of the pipeline and its refinements of `RefSlot` and `BuildOutcome` |
| `SnapshotBuild` | `build_code_snapshot` with the archive directories and the row locks of connection and run: the final and the failing transactions, the retry after a scope change, an operator who saves rules, failing Git, disk and database, lost acknowledgements, crashes |
| `MCSnapshotBuild`, `SnapshotBuildProofs` | its TLC values; proof of `BuildInv`, what follows from it, and the refinement of `BuildOutcome` |
| `GitMirror` | `ensure_synced_mirror` and its readers, several processes on one mirror directory without a lock |
| `GitMirrorProofs` | proof that readers find their commit and that the mirror loses none |
| `WebhookSecrets` | `rotate_webhook_secret` by several operators, the two token checks of a GitLab request (a GitHub request has the second only), the recording of the verified delivery, the refusals |
| `MCWebhookSecrets`, `WebhookSecretsProofs` | its TLC values; proof of its three properties |
| `RateLimits` | the limiters of the webhook routes (`AllowInMemory`, `AllowInRedis`) and the budget of wrong operator tokens (`ConsumeInMemory`, `ConsumeInRedis`), requests that decide with a clock read earlier, expiring Redis keys |
| `MCRateLimits`, `RateLimitsProofs` | its TLC values; proof of `LimitsInv`, `WithinLimits`, `TablesBounded`, `RefusedForCause` |
| `ConnectionStatus` | creation, verification, changes of the default ref and builds of one connection, each asking the remote before it loads and writes the row |
| `MCConnectionStatus`, `ConnectionStatusProofs` | its TLC values; proof of its three properties |

The components after `SafetyProofs` share rows with the pipeline but not
decisions: `SyncWorker` sees a build as `Resolve`, `Commit`, `Rebuild` and the
failing steps, and `WebhookIntake` sees deliveries that have been admitted and
verified.

How state corresponds to the code: `events[d]` is the row of delivery `d`
(`processing_decision`, `processing_status`, `sync_run_id`, `received_at`);
`cursor` is `latest_event_id`; `status`, `trigger`, `dispatch`, `started` are
the columns of a sync run, with the two timestamps abstracted to "none / within
15 minutes / older", which is all the code asks of them; `snapshot[r]` is the
`resolved_commit_sha` of the row of `code_snapshots` that belongs to run `r`;
`queue[r]` counts the messages that name run `r`.  A commit is its position in
the history of the branch, so "contains" is `>=`.  `remote` is the provider's
head.  `handler`, `worker` and `manual` hold the local variables that live
across transactions.  `incidents` is not state of the program: it bounds what
goes wrong and lets a property say "unless a worker is lost".

In `SnapshotBuild`, `row[r]` and `scope[r]` are the `id` and the
`scope_rule_version_id` of the run's row in `code_snapshots`, `conn` and `lock`
say which builder's open transaction has locked the row of the connection or of
a run, and `disk[i]` is the directory named by snapshot id `i`: `"temp"` while
the store writes beside it, `"stored"` when it has been renamed, `"complete"`
with its manifest.  The other functions are the local variables of a builder;
`seen` is what `mark_failed` read, `problem` the error that is being reported.
In `GitMirror` a directory is the set of commits it has objects of, and the
provider's branch is `base .. head`; a push moves `head`, a force push also
`base`.  In `WebhookSecrets` a secret is its number in the order of the
rotations' commits, `created` the `rotated_at` that is taken before the
connection's row is locked (so the order of times may be another one), and
`now` the clock.  `Lag` bounds how long a rotation waits for the row; it may be
as long as the grace period.

In `RateLimits` time is the ages of the requests: `age[q]` says how long ago `q`
read the clock, which the code does before it takes the limiter's lock or
reaches Redis, so the age of a waiting request is the lag it decides with, and
`x` is in its window when `age[x] < Window + age[q]`.  `bySource`, `byPair` and
`failures` are the dictionaries of one process, each bucket a deque that is
pruned from its head only (a request that was late stands behind younger ones);
`zSource`, `zPair` and `zFailures` are Redis' sorted sets, `zSeen` the set of
connections a source has asked for with the time of the last request, `Expire`
the expiry of keys.  In `ConnectionStatus` the row is the default ref (type and
name, two columns) and the status; `task[t]` says where an operation is, which
ref it is about, what git has told it and, after `Load`, the row as SQLAlchemy
has loaded it, for `Flushed` writes those columns only that differ from it.
`undisturbed` is a history variable: the tasks during which nothing else has
changed.

What is atomic and what is not.  A transaction whose reads are re-checked by
its writes (a conditional update, a unique index, a row lock) is one action; a
transaction that decides from an unprotected read is several, with everybody
else in between.  In the intake these are `Decide` and `Record`, and
`ReadUndone` and `Undo`.  In the worker

* the task that completes its event reads it (`ReadEvent`), tests which run it
  is in, and writes the columns that differ from what it has read (`Finish`): an
  UPDATE that waits for a handler's row lock leaves the `sync_run_id` which that
  handler commits;
* a failure reads the event (`ReadEvent`) and the status of the run
  (`ReadStatus`), writes both and lists the events that others have committed
  (`FailEvent`), reads the cursor (`ReadCursor`), writes it and commits
  (`CommitFailure`).  From `FailEvent` on it holds the rows of the event and of
  the run (`Restores`, `RowLocked`, `RunLocked`), what it has written becomes
  visible with the commit, and an upsert that meets a cursor which another
  transaction has inserted or deleted rolls everything back (`RollBackFailure`).
  The follow-up run that could not be sent is failed by the same steps
  (`"sendFail"`), where the code reads the event after it has locked the run; the
  model lets it read before, which only adds behaviours.

Two steps are coarser than the code.  The handler's own upsert of the cursor and
its reading of the blocked run, both inside `Record`, are atomic: where a
concurrent transaction makes them conflict the request is rolled back, which is
`CrashHandler`.  And a cursor has no identity: a failure that has read one which
another failure deletes and a handler inserts again would find its UPDATE or
DELETE without a row; this needs overlapping failures, for which nothing is
claimed of the cursor.  The GitHub and GitLab handlers run the same statements
in the same order for a push; the map names lines of both.

Definitions commented "Mutation of X" are plausible bugs of X.  No behaviour
specification uses them; each run's properties have been seen to fail when X is
replaced by its mutation.

## What the runs show

| run | instance | properties |
|---|---|---|
| `intake_races` | 2 handlers, 1 worker, 3 deliveries of 2 pushes, manual requests, 3 runs, 3 requests, 1 incident of any kind | `TypeOK`, `NoHeadLost`, `PendingRecoverable`, `DispatchBacked`, `DispatchedOnce`, `CancelledHasNoEvents`, `ImplementsSlot` |
| `worker_races` | 1 handler, 2 workers, 2 deliveries, 3 runs, 3 requests, 3 incidents: failing builds, redeliveries, copies of messages, delays | `PipelineInv`, `CompletedHasSnapshot`, `CursorNotFailed`, `BuildExclusive`, `BlockedReleasable`, `NothingAbandoned`, `OutcomesAgree`, `ImplementsOutcome` |
| `liveness` | 1 handler, 2 workers, manual requests, 2 requests, 2 incidents (failing builds, lost workers), fairness | `PendingStarts`, `RunningEndsUnlessLost`, `FailureReachesCursor` |
| `blocked_stranded` | 1 handler, 1 worker, no incident, fairness | `BlockedHandedOver` is violated |
| `build_races` | 2 builders, a webhook run and a manual run, 4 snapshot ids, 3 rule versions of which one keeps nothing, two kinds of incidents | `BuildInv`, `RowHasArchive`, `NoOrphan`, `NothingLeftRunning`, `WaitsEnd`, `EmptyInForce`, `ImplementsOutcome` |
| `build_ends` | 2 builders of one run, 4 ids, 3 versions, one kind of incident, fairness | `BuildEnds` |
| `mirror_races` | 3 users, a mirror that does not exist yet, one push or force push, fairness | `MirrorInv`, `ReadsWhatItResolved`, `MirrorKeepsCommits`, `UseEnds` |
| `secret_races` | 2 handlers of one delivery, 2 operators, 3 secrets, 4 points in time | `SecretsInv`, `EventsNameTheirSecret`, `AcceptedIffInForce` |
| `refusal_unrecorded` | 1 handler, 1 operator | `RefusalRecorded` is violated |
| `limit_races` | 4 requests, 2 sources, 2 connections, `Window` 2, `Lag` 1, both kinds of traffic, memory and Redis | `LimitsInv`, `WithinLimits`, `TablesBounded`, `RefusedForCause` |
| `status_races` | 1 operator, 1 verifier, 1 builder, 2 refs, 2 changes of the remote, both providers and transports | `StatusInv`, `DefaultAsAsked`, `UndisturbedTells` |
| `mixed_default` | 2 operators, 3 refs, a remote that does not change | `DefaultAsAsked` is violated |

The bounds.  Two pushes are the least that lets a head be outdated; three
deliveries of two pushes add a duplicate head.  Three runs are one running, one
blocked and one more.  Two handlers or two workers race with one another; every
interleaving of three parties is covered by one of the two safety runs.  One
incident with two handlers, three with two workers: the failing scenarios the
violation runs find need at most two, and the ones that make an event move or
the cursor name a failed event, at most three.  In `worker_races` no worker is
lost, no send fails and no scope rule changes, for which the states would be too
many: one of each is in `intake_races`, and the theorems cover any number, with
any number of workers.  What the cursor is after a failing send is checked by no
run and follows from `CursorNamesNoFailure`.  `liveness`
leaves out failing sends and crashes of handlers, after which a pending run may
wait for the next delivery.  The constants `MaxHead`, `MaxArrivals`
and `MaxIncidents` are the only bounds of the pipeline; the proofs do not use them,
except that `RefSlot` is told that commits are `0 .. MaxHead`.
A build uses up at most two snapshot ids (one retry), so four are enough for
two builders; in `build_ends` crashes and lost acknowledgements are left out
because they leave ids used for ever.  Three rule versions are the default one
and two saves, one more than a build forgives; the limit on the number of kinds
of incidents (`MaxKinds`) allows each to happen any number of times.  Three
secrets are the least with a revoked one, and `MaxTime` is greater than `Grace`
so that a previous secret expires.  Four requests exceed every limit of
`limit_races`, alone or from both sources, except the bound on the connections
that one source may ask for in Redis, which takes a third connection and many
more states (`RefusalsHaveCause` and `TablesKeepBounds` are proved for any
number); a lag of one makes the order
of decisions another than that of the clocks, and ages are not counted beyond
`Old`, at which nothing counts them any more.  Requests are used again once they
are forgotten, so behaviours are not bounded.  In `status_races` the remote
changes twice, which is a ref or a credential gone and back again during one
task, and one operator is all that `DefaultAsAsked` allows, as `mixed_default`
shows.  Deadlock checking is off because the
systems may stop once the bounds are used up; what must not stop is a liveness
property.  Symmetry is used in runs without liveness only.

Fairness (`Fairness` in `SyncPipeline`).  Weak fairness of each handler's steps,
of each worker's steps and of the manual request: a thread of the web server
goes on with its request, a Celery worker goes on with its task and takes
messages when idle.  Nothing is assumed of pushes, deliveries, the passing of
time or incidents.  `SnapshotBuild` assumes strong fairness of a builder's
steps, because a lock that it waits for may be taken and released again and
again and PostgreSQL queues those who wait; `GitMirror` assumes weak fairness
of a user's steps.  `WebhookSecrets`, `RateLimits` and `ConnectionStatus` have no
liveness properties: a request there is answered within one call, or given up.

The violations are disagreements between code and documents, described with
the lines in question under "findings" in `PROJECT.json`:

* A webhook that saw a run running commits its blocked run after that run's
  worker has looked for one; nobody releases it until another delivery of the
  ref leads to another run (`blocked_stranded`).
* A refused delivery is written and taken back by the exception that reports
  the refusal, so that neither event nor webhook health shows it
  (`refusal_unrecorded`).
* Two operators who change the default ref at the same time, one only the type
  and one only the name of it, leave a ref that neither has chosen
  (`mixed_default`).

Known disagreements without a run:

* Redelivering the delivery that a blocked run waits for marks its event as a
  completed duplicate, after which the run cannot be released; redelivering a
  delivery whose send had failed, after the branch has moved, takes its event
  out of the pending run, which then nobody can dispatch.  `BlockedReleasable`
  and `PendingRecoverable` therefore hold until a delivery is redelivered.
* A worker that has read its event and waits for the event's row may find it in
  another run: a copy of the message fails the event, its redelivery, which
  finds it failed, puts it into a new run and releases the row, and the first
  worker's UPDATE, of the status only, then completes or fails the event of that
  new run, whatever becomes of it (`repository_ingestion_tasks.py:318-326` and
  `:351-383`).  It takes a redelivery together with a copy of a message, a failing
  send, a delay or a lost worker; `CompletedHasSnapshot`, `NothingAbandoned` and
  `OutcomesAgree` exclude that (`EventsMove`), and nothing says that a failed
  event belongs to a run that is over once a delivery has been repeated.
* Two failures whose transactions overlap each list the other's event as still
  good, and the later commit leaves the cursor on an event that has failed
  (`repository_ingestion_tasks.py:815-852`): the next delivery of that head is
  dropped as "duplicate_head".  If one of them deletes the cursor that the other
  has read, or both insert one, a transaction is rolled back and its message is
  acknowledged all the same: the run stays running, or a follow-up run stays
  pending and marked as dispatched for 15 minutes.  The model records the first as
  "overlap" and the second as "cursorConflict"; `CursorNotFailed` and
  `FailureReachesCursor` exclude overlaps, `DispatchBacked` and
  `NothingAbandoned` conflicts.
* `specs/002-gitlab-onprem-connection/data-model.md:129` and `:135` list the
  statuses "active" and "revoked" of a webhook secret and have only the one active
  revision verify; the code keeps the previous one until the grace period ends, as
  `specs/001-git-repo-connection/spec.md:150` asks.  A second rotation revokes the
  older secret at once, also for a request that was received before it and has
  passed its first check: `AcceptedIffInForce` is about the revisions that a check
  reads.
* A message put back at once by a lost worker is used up by "in_progress"; the
  run stays running.  `RunningEndsUnlessLost` excludes it.
* A build that finds no file, under rules that have changed again after its one
  retry, is reported as a failure to write (`build_code_snapshot.py:490`).
* `ssh` says "Could not read from remote repository" of an unreachable host too,
  which `git_ref_resolver.py:151` takes for a failed authentication: the
  connection needs a new credential, where
  `specs/002-gitlab-onprem-connection/research.md:103-105` leaves the status
  alone.  A credential that cannot be handed to git has the same effect.
  (`UndisturbedTells` speaks of a remote that answers.)
* "ref_missing" also follows when the ref an operator asks for, or the branch of
  a pull request, is not there, although the default ref is
  (`update_default_ref.py:109`, `build_code_snapshot.py:516`).
* GitHub's deliveries start syncs whatever the status of the connection
  (`specs/001-git-repo-connection/spec.md:130`), GitLab's do not: `BeginBuild`.
* `mark_succeeded` turns a run that another builder has failed into a succeeded
  one, and `mark_failed`, which reads the status and writes it back, may
  overwrite a success: `RefSlot` counts both as "left" and lets such a run store
  its one snapshot late, and `BuildOutcome` has both steps.  `OutcomesAgree` is
  claimed while nothing is 15 minutes old, as it takes a run that was taken over
  as stale.
* A send that fails after the broker has taken the message is undone
  (`record_webhook_enqueue_failure`), and by then the worker may have built the
  run: the event goes back to "queued" although its run is over.
  `NothingAbandoned` therefore says what events are told only while no send
  fails.
* A lost commit acknowledgement makes the build remove the archive of a stored
  row (`RowHasArchive` excludes it).
* `update_default_ref` writes REAUTH_REQUIRED for a connection without a
  credential and then raises in the same scope.  No code revokes a credential,
  so the branch is not reached.
* The mirror of a connection whose row is refused in the end is left behind.

## What is proved

`SyncPipelineProofs` proves `TypeCorrect`, `Spec => []TypeOK`, with one lemma per
table operation (`CreateRunType`, `SettleType`, ...) and one step per action.

`CoverageProofs` proves `HeadsAreKept`, `Spec => []NoHeadLost`: a delivery
folded into a sync run is contained in that run's snapshot, for any number of
handlers, workers, deliveries, runs and incidents.  `NoHeadLost` is not
inductive, because it says nothing before a snapshot is stored.  `IndInv` adds
what the argument needs:

* `LifecycleInv`: a run that has not been started has no snapshot, and one that
  is being built has been started;
* `PushedInv`: whatever a table or a request knows of has been pushed, so a
  worker that resolves the head now covers it;
* `CoverageInv`: every event covers the run it is in, also where a worker has
  resolved a commit but not stored it;
* `IntakeInv`: a handler between its read and its write covers the run it saw
  pending, and, if it saw none running, any run that runs now;
* `SendersInv`: who sends a run sends one with a trigger event.

The assumptions are the named ones of `SyncTables` (deliveries have heads, runs
have numbers, NULL is none of these and no number).  TLC evaluates them in every run, and checks
`PipelineInv`, that is `IndInv` and `SafeInv`, in `worker_races`.

`SafetyProofs` proves `Safety`, `Spec => []SafeInv`, and from it and `IndInv`
the rest of what the runs check of the pipeline.  None of these properties is
inductive: each says something of the tables that is kept only because of what
processes and messages still know of them.  The parts of `SafeInv`:

* `RunsInv`: a run that is sent, queued, worked on or held by a request has
  become pending (so a blocked run is nobody's), and a worker that hands over
  the ref has a run that is done;
* `StoredInv`: a succeeded run has its snapshot, also between the transaction
  that stores it and the one that finishes the run;
* `OwnersInv`: `mark_running` lets one of the copies of a message through, which
  is `BuildsAreExclusive`;
* `ManualInv`: only a run without a trigger event is taken back.  With the
  foreign key it gives `CancelledRunsHaveNoEvents`: a handler that saw the run
  pending fails to join it after its deletion;
* `MessagesInv`: while nothing is repeated and no send fails, the ways in which a
  run can be under way (a message, a handler or a worker about to send one, a
  worker that works) exclude one another, and the dispatch of a webhook run is on
  record, hence `RunsAreDispatchedOnce`;
* `DeliveriesInv`: while nothing is redelivered, a delivery is in one request,
  then in one event, and is the trigger of one run, whose event stays queued
  until the run starts, hence `BlockedRunsWait` and `PendingRunsRecover`;
* `RowsInv`: the request or worker that has locked a delivery's row is alone with
  it, and a worker at its cursor has read what it needs of its event and run;
* `LoadedInv`: while nothing is redelivered, what a worker has read of an event is
  still so where it matters: the event is in the worker's run, it was queued, and
  it has been told its end if it had been then; and an event that has failed
  belongs to a run that is over;
* `CursorInv`: while failures' transactions do not overlap, the one that is open
  has found an event that has not failed, and knows whether the cursor names its
  own;
* `SettlingInv`: while no worker dies, a running run has a worker that has not
  given it up, and whoever brings a run to its end goes on to its event,
  hence `RunsAreSettled`.  The hard step is the one that gives up: a worker that
  leaves a run alone has seen that another one has ended it, and then that other,
  or the event itself, has to be accounted for;
* `VerdictsInv`: while nothing is repeated, the only worker of a run knows its
  status, although it has read it in an earlier transaction, hence `VerdictsAgree`.
  (`OneWorker` derives from `MessagesInv` that it is the only one.)

What the theorems say of redeliveries is weaker than what the runs check:
`CompletedEventsAreBuilt`, `RunsAreSettled` (its second part) and `VerdictsAgree`
assume that no delivery is repeated, while the properties also allow
redeliveries as long as nothing copies or delays a message, no sending fails and
no worker is lost.

`Refinement` maps every step of a handler, a worker or the manual request to a
step of `RefSlot` or a stutter; `SlotPromises` proves what `RefSlot` promises
from its own steps and carries it over.  `BuildsAreOutcomes` maps every step to a
step of `BuildOutcome`: `MarkRunning` starts, `Commit` stores a commit that has been
pushed, the failing actions give up, and the rest stutters.  `CompletedEventsAreBuilt`,
`CursorNamesNoFailure` and `DispatchesAreBacked` are proved as invariants beside
`IndInv` and `SafeInv`: the cursor moves back in the transaction that fails the
run, from readings that `CursorInv` and `LoadedInv` keep true, and a dispatch is on record only while there is a message or somebody who
sends one or takes the record back.

`SnapshotBuildProofs` proves `BuildInv` for any number of builders, runs and
ids, and from it `RowHasArchive`, `NoOrphan`, `ScopeInForce`,
`EmptyInForce`, `NothingLeftRunning` and `WaitsEnd`.  Neither of the first two is inductive: what keeps them is that
a directory belongs to one builder from its creation until the commit or its
removal (`OwnershipInv`), and the last two need that who is past the check of
the final transaction holds the connection's row, so that neither the rules nor
the run's row have changed (`LockInv`), and that only a version which keeps
nothing leads to the empty branch (`EmptyInv`).  `NothingLeftRunning` needs
`EndingInv`: a running run has a builder that has not given it up.  A builder
gives up a run that has a row or was seen succeeded, which has ended
(`EndedInv`), or as a deadlock victim in its last transaction, and then the
builder that waited for it works on the same run.
`SomebodyGoesOn` is `WaitsEnd`: who holds the connection or a run is in one of four
places, each of which asks for at most one more lock, so a chain of waiting builders
ends at one who goes on or closes after two, which is the deadlock that PostgreSQL
breaks (`Entangled`).  `BuildRefinement` shows that all of this implements
`BuildOutcome` with `choices` the version in force: the commit of the final
transaction is the one step that stores a snapshot, of the rules that are in force at
that moment, which is `ScopeInForce` and more (it is stored once, by a run that has
been started).  The removal of an archive, the retry and the aborts are stutters or
give the run up.

`GitMirrorProofs` proves `MirrorInv`: while the branch only grows, a commit that
has been resolved is still on it when the mirror is fetched, and in the private
directory when that is renamed.

`WebhookSecretsProofs` proves `SecretsInv`, of which `EventsNameTheirSecret` is
a conjunct, and `AcceptedIffInForce`.  (`EventsNameTheirSecret` is about expiry: a
rotation between the check and the writing of the row may have revoked the secret
that the row names.)  A rotation takes its time before it waits for the row, so the
requests under the secret that it replaces are acceptable because it waits no longer
than the grace period.  The heart is `CandidatesInForce`: as the
revisions always read revoked, ..., previous, active, in the order of their
commits, the two branches of `list_verification_candidates` are the newest
secret and the one before it.  The assumptions are that `Grace`, `Lag` and the
bounds are natural numbers and that NULL is none.

`RateLimitsProofs` proves `LimitsInv` and, from it, `WithinLimits`,
`TablesBounded` and `RefusedForCause`, for any window, lag and limits.  `WithinLimits` is about what
has been admitted, of which the tables know nothing; what connects the two is
`Remembered`: whatever has been admitted in the last window is in the bucket or
set that counts it.  It survives because a request prunes with its own clock,
which lags, so it keeps at least what the window keeps; because a bucket that is
pruned from its head loses only entries that stand before an old one and keeps
every fresh one behind the first; and because an expired key holds nothing
recent.  A request is admitted when the bucket with it is within the limit, and
the rest is counting.  `RefusedForCause` needs the converse, `CountsInv`: whatever
a bucket or set counts has been granted (or, in Redis, decided) for that source or
pair, and a bucket has every request once, in the order of the clocks but for the
lag (`InOrder`).  What is left after pruning starts with an entry in the window, so
the rest of it is at most a lag older, and no entry is older than `Old`: a full
bucket or table has as many requests, or buckets with a request, as its limit, all
of which still count.  Requests, sources and connections are finite, time and
limits natural numbers (`FiniteAssumption`, `TimeAssumption`,
`LimitAssumption`).

`ConnectionStatusProofs` proves `StatusInv` and, from it, `UndisturbedTells` and,
assuming `SingleOperator`, `DefaultAsAsked`, for any number of verifications and
builds: a task that is not an operator's writes back the ref it has loaded, and
a column equal to the loaded one is not written.

Only model-checked: the liveness properties, as fairness and leads-to are out of
the prover's reach.  Only proved: `SnapshotImmutable` and `ScopeInForce`, since the
runs check `ImplementsOutcome`, which says the same of the snapshots.  The violations are counterexamples
that TLC finds.

## Not modelled

* Deliveries that move no code, webhook health, the projection that counts
  deliveries under the previous secret.
* Several refs and several connections: runs, cursors and indexes are keyed by
  connection and ref, and no transaction of the pipeline reads across them.
* In the pipeline, row locks other than those on a delivery and on the run that is
  being failed (those of the build are in `SnapshotBuild`).
* What the scope rules match (a version either keeps a file or none), the
  limits on tree entries and blobs, manifests' contents.
* Deadlocks between transactions of the pipeline: a failure writes its run, then
  its event, then the cursor and the connection's row, a handler the event, the run
  and the cursor.  PostgreSQL aborts one of two that wait for each other: for a
  handler this is `CrashHandler`, for a worker's failure it is like
  `RollBackFailure`, which the model takes for cursors only.
* The removal of unreachable objects by the `git gc` that `git fetch` may start:
  after a force push a commit which has been off the branch for two weeks may
  leave the mirror, and a reader of it would fail.  `MirrorKeepsCommits` is about
  the steps of the program.
* Cryptography, parsing, encoding, web pages, queries.
* An unreachable Redis, which the routes answer with 503 before they decide
  anything; `is_operator_auth_allowed` and `record_operator_auth_failure`, which
  nothing calls; cookies and the comparison of tokens.
* A deployment without a queue, where a handler takes the path of
  `SendTaskFails` from `"claim"` on every request.

## Plan

Done, in this order: `SyncTables`, `WebhookIntake`, `SyncWorker`, `ManualSync`,
`SyncPipeline` with `RefSlot`; the type, coverage and safety proofs; `SnapshotBuild`;
`GitMirror`; `WebhookSecrets`; `RateLimits`; `ConnectionStatus`, each with its
proofs.  Next, in order of what they would add:

1. Webhook health and the projection of the grace period, beside
   `WebhookSecrets`.
2. Scope rules: which of several matching rules decides, against a reference.
3. The build steps of `SyncWorker` as an abstraction of `SnapshotBuild`.

Theorems worth proving next: what the violations leave of the properties they
violate, such as that a blocked run is stranded only by a handler which has seen
the run that is over now.
Runs are shared where instances allow it, so that a new component adds at most
one run that passes.
