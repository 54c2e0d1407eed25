------------------------------ MODULE SnapshotBuild ------------------------------
(***************************************************************************)
(* build_code_snapshot in detail: workers that build snapshots for the     *)
(* runs of one connection, the archive directories they leave on disk, the *)
(* row locks of their transactions, and an operator who saves scope rules. *)
(* SyncWorker sees all of this as the steps Resolve, Commit, Rebuild and   *)
(* the failing ones.                                                       *)
(*                                                                         *)
(* An archive is named by its snapshot id; a name that nothing refers to   *)
(* stands for a new uuid.  Scope rule versions are numbered in the order   *)
(* they become active; 0 is no version.                                    *)
(***************************************************************************)
EXTENDS Naturals, FiniteSets

CONSTANTS Builders, Runs, Ids, None,
          Manual,      \* the runs that operators have requested
          Empty,       \* the versions whose rules keep no file of the repository
          MaxVersion,  \* bound on the saved versions
          MayHappen,   \* the incidents of an instance, and how many kinds of them
          MaxKinds     \* happen in a behaviour

Incidents == {"again", "gitError", "diskError", "dbError", "lostAck", "crash"}

ASSUME BuilderAssumption == None \notin Builders \cup Ids
ASSUME RunAssumption == Manual \subseteq Runs /\ None \notin Runs
ASSUME VersionAssumption == Empty \subseteq Nat /\ MaxVersion \in Nat
ASSUME IncidentAssumption == MayHappen \subseteq Incidents

VARIABLES
    status, failure,  \* of a run: status and failure_code
    row, scope,       \* of a run's code_snapshots row: id and scope_rule_version_id
    active,           \* active_scope_rule_version_id of the connection
    conn, lock,       \* who has locked the connection's row, a run's row
    disk,             \* the archive directories
    pc, run, id, version, tries, seen, problem,  \* a builder's local state
    incidents         \* what has gone wrong so far

tables == <<status, failure, row, scope, active>>
locks == <<conn, lock>>
locals == <<run, id, version, tries, seen, problem>>
vars == <<tables, locks, disk, pc, locals, incidents>>

Status == {"pending", "running", "succeeded", "failed"}
Failures == {"none", "noFiles", "sync", "write"}
DiskStates == {"none", "temp", "stored", "complete"}
Steps == {"idle", "mark", "resolve", "read", "store", "publish", "manifest", "final",
          "commit", "changed", "duplicate", "broken", "reload", "empty", "emptyRun",
          "fail", "failRun", "failConn", "raised", "taskRun", "taskConn", "done"}

TypeOK ==
    /\ status \in [Runs -> Status] /\ failure \in [Runs -> Failures]
    /\ row \in [Runs -> Ids \cup {None}] /\ scope \in [Runs -> Nat]
    /\ active \in Nat
    /\ conn \in Builders \cup {None} /\ lock \in [Runs -> Builders \cup {None}]
    /\ disk \in [Ids -> DiskStates]
    /\ pc \in [Builders -> Steps]
    /\ run \in [Builders -> Runs \cup {None}] /\ id \in [Builders -> Ids \cup {None}]
    /\ version \in [Builders -> Nat] /\ tries \in [Builders -> {0, 1}]
    /\ seen \in [Builders -> Status] /\ problem \in [Builders -> Failures]
    /\ incidents \subseteq Incidents

Init ==
    /\ status = [r \in Runs |-> "pending"] /\ failure = [r \in Runs |-> "none"]
    /\ row = [r \in Runs |-> None] /\ scope = [r \in Runs |-> 0]
    /\ active = 0
    /\ conn = None /\ lock = [r \in Runs |-> None]
    /\ disk = [i \in Ids |-> "none"]
    /\ pc = [b \in Builders |-> "idle"]
    /\ run = [b \in Builders |-> None] /\ id = [b \in Builders |-> None]
    /\ version = [b \in Builders |-> 0] /\ tries = [b \in Builders |-> 1]
    /\ seen = [b \in Builders |-> "pending"]
    /\ problem = [b \in Builders |-> "none"]
    /\ incidents = {}

Happens(kind) ==
    /\ kind \in MayHappen
    /\ incidents' = incidents \cup {kind}
    /\ Cardinality(incidents') <= MaxKinds
Never(kinds) == incidents \cap kinds = {}

Goto(b, step) == pc' = [pc EXCEPT ![b] = step]
Raise(b, step, what) == Goto(b, step) /\ problem' = [problem EXCEPT ![b] = what]

\* The end of a transaction, or of the process that runs it.
Release(b) ==
    /\ conn' = IF conn = b THEN None ELSE conn
    /\ lock' = [r \in Runs |-> IF lock[r] = b THEN None ELSE lock[r]]

\* The builder's variables when its task is over or its process dies.
Forget(b) ==
    /\ Goto(b, "idle")
    /\ run' = [run EXCEPT ![b] = None] /\ id' = [id EXCEPT ![b] = None]
    /\ version' = [version EXCEPT ![b] = 0] /\ tries' = [tries EXCEPT ![b] = 1]
    /\ seen' = [seen EXCEPT ![b] = "pending"]
    /\ problem' = [problem EXCEPT ![b] = "none"]

(***************************************************************************)
(* From the message to the list of files.                                  *)
(***************************************************************************)
\* The task starts; with a run that has ended it goes no further.  When a message comes
\* again while the run is running, the webhook task takes the run over after 15 minutes
\* and leaves it alone before; the build of the manual task refuses it, and the task
\* then fails the run.
Begin(b, r) ==
    /\ pc[b] = "idle" /\ status[r] \in {"pending", "running"}
    /\ run' = [run EXCEPT ![b] = r]
    /\ tries' = [tries EXCEPT ![b] = 1]
    /\ \/ status[r] = "pending" /\ Goto(b, "mark") /\ UNCHANGED incidents
       \/ /\ status[r] = "running"
          /\ Goto(b, IF r \in Manual THEN "raised" ELSE "resolve")
          /\ Happens("again")
    /\ UNCHANGED <<tables, locks, disk, id, version, seen, problem>>

MarkRunning(b) ==
    /\ pc[b] = "mark"
    /\ \/ /\ status[run[b]] = "pending"
          /\ status' = [status EXCEPT ![run[b]] = "running"]
          /\ failure' = [failure EXCEPT ![run[b]] = "none"]
          /\ Goto(b, "resolve")
          /\ UNCHANGED problem
       \/ /\ status[run[b]] # "pending"
          /\ Raise(b, "raised", "write")
          /\ UNCHANGED <<status, failure>>
    /\ UNCHANGED <<row, scope, active, locks, disk, run, id, version, tries, seen, incidents>>

\* The ref is resolved and the mirror synchronised, then the rules are read; the
\* first reader creates the default ones.
ReadScope(b) ==
    /\ pc[b] = "resolve"
    /\ conn = None
    /\ active' = IF active = 0 THEN 1 ELSE active
    /\ version' = [version EXCEPT ![b] = active']
    /\ Goto(b, "read")
    /\ UNCHANGED <<status, failure, row, scope, locks, disk, run, id, tries, seen, problem,
                   incidents>>

ReadFiles(b) ==
    /\ pc[b] = "read"
    /\ Goto(b, IF version[b] \in Empty THEN "empty" ELSE "store")
    /\ UNCHANGED <<tables, locks, disk, locals, incidents>>

GitFails(b) ==
    /\ pc[b] \in {"resolve", "read"}
    /\ Happens("gitError")
    /\ Raise(b, "fail", "sync")
    /\ UNCHANGED <<tables, locks, disk, run, id, version, tries, seen>>

(***************************************************************************)
(* The archive: a temporary directory, renamed when its files are written, *)
(* and a manifest in it.                                                   *)
(***************************************************************************)
Fresh(i) ==
    disk[i] = "none" /\ (\A r \in Runs : row[r] # i) /\ (\A b \in Builders : id[b] # i)

StartArchive(b, i) ==
    /\ pc[b] = "store"
    /\ Fresh(i)
    /\ disk' = [disk EXCEPT ![i] = "temp"]
    /\ id' = [id EXCEPT ![b] = i]
    /\ Goto(b, "publish")
    /\ UNCHANGED <<tables, locks, run, version, tries, seen, problem, incidents>>

PublishArchive(b) ==
    /\ pc[b] = "publish"
    /\ disk' = [disk EXCEPT ![id[b]] = "stored"]
    /\ Goto(b, "manifest")
    /\ UNCHANGED <<tables, locks, locals, incidents>>

WriteManifest(b) ==
    /\ pc[b] = "manifest"
    /\ disk' = [disk EXCEPT ![id[b]] = "complete"]
    /\ Goto(b, "final")
    /\ UNCHANGED <<tables, locks, locals, incidents>>

\* Mutation of StoreFails: a failing manifest leaves the archive where it is.
StoreFailsInPlace(b) ==
    /\ pc[b] \in {"publish", "manifest"}
    /\ Happens("diskError")
    /\ disk' = [disk EXCEPT ![id[b]] = IF pc[b] = "publish" THEN "none" ELSE @]
    /\ id' = [id EXCEPT ![b] = None]
    /\ Raise(b, "fail", "write")
    /\ UNCHANGED <<tables, locks, run, version, tries, seen>>

StoreFails(b) ==
    /\ pc[b] \in {"store", "publish", "manifest"}
    /\ Happens("diskError")
    /\ disk' = [i \in Ids |-> IF i = id[b] THEN "none" ELSE disk[i]]
    /\ id' = [id EXCEPT ![b] = None]
    /\ Raise(b, "fail", "write")
    /\ UNCHANGED <<tables, locks, run, version, tries, seen>>

(***************************************************************************)
(* The final transaction.  It locks the connection before it compares the  *)
(* rules and writes the run last.                                          *)
(***************************************************************************)
\* Mutation of LockAndInsert: the connection is read without FOR UPDATE.
InsertUnlocked(b) ==
    /\ pc[b] = "final"
    /\ \/ active # version[b] /\ Goto(b, "changed")
       \/ active = version[b] /\ row[run[b]] # None /\ Goto(b, "duplicate")
       \/ active = version[b] /\ row[run[b]] = None /\ Goto(b, "commit")
    /\ UNCHANGED <<tables, locks, disk, locals, incidents>>

LockAndInsert(b) ==
    /\ pc[b] = "final"
    /\ conn = None
    /\ \/ active # version[b] /\ Goto(b, "changed") /\ UNCHANGED conn
       \/ active = version[b] /\ row[run[b]] # None /\ Goto(b, "duplicate")
             /\ UNCHANGED conn
       \/ active = version[b] /\ row[run[b]] = None /\ Goto(b, "commit") /\ conn' = b
    /\ UNCHANGED <<tables, lock, disk, locals, incidents>>

\* What the transaction leaves behind when it is committed.
Stored(b) ==
    /\ pc[b] = "commit"
    /\ lock[run[b]] = None
    /\ row' = [row EXCEPT ![run[b]] = id[b]]
    /\ scope' = [scope EXCEPT ![run[b]] = version[b]]
    /\ status' = [status EXCEPT ![run[b]] = "succeeded"]
    /\ failure' = [failure EXCEPT ![run[b]] = "none"]
    /\ Release(b)
    /\ UNCHANGED <<active, disk, run, version, tries, seen, problem>>

Commit(b) ==
    /\ Stored(b)
    /\ Goto(b, "done")
    /\ id' = [id EXCEPT ![b] = None]
    /\ UNCHANGED incidents

\* The database commits and the connection breaks before it says so.
AckLost(b) ==
    /\ Stored(b)
    /\ Happens("lostAck")
    /\ Goto(b, "broken")
    /\ UNCHANGED id

\* Mutation of Discard: the handler of the unique index's error removes the archive of
\* the snapshot that it has just loaded.
DiscardLoaded(b) ==
    /\ pc[b] \in {"changed", "duplicate", "broken"}
    /\ disk' = [disk EXCEPT ![IF pc[b] = "duplicate" THEN row[run[b]] ELSE id[b]] = "none"]
    /\ id' = [id EXCEPT ![b] = None]
    /\ \/ pc[b] = "changed" /\ tries[b] > 0 /\ Goto(b, "reload") /\ UNCHANGED problem
       \/ pc[b] = "changed" /\ tries[b] = 0 /\ Raise(b, "fail", "sync")
       \/ pc[b] = "duplicate" /\ Goto(b, "done") /\ UNCHANGED problem
       \/ pc[b] = "broken" /\ Raise(b, "fail", "write")
    /\ UNCHANGED <<tables, locks, run, version, tries, seen, incidents>>

\* The archive is removed before anything else is done about the failure.
Discard(b) ==
    /\ pc[b] \in {"changed", "duplicate", "broken"}
    /\ disk' = [disk EXCEPT ![id[b]] = "none"]
    /\ id' = [id EXCEPT ![b] = None]
    /\ \/ pc[b] = "changed" /\ tries[b] > 0 /\ Goto(b, "reload") /\ UNCHANGED problem
       \/ pc[b] = "changed" /\ tries[b] = 0 /\ Raise(b, "fail", "sync")
       \/ pc[b] = "duplicate" /\ Goto(b, "done") /\ UNCHANGED problem
       \/ pc[b] = "broken" /\ Raise(b, "fail", "write")
    /\ UNCHANGED <<tables, locks, run, version, tries, seen, incidents>>

\* build_code_snapshot calls itself once.
Reload(b) ==
    /\ pc[b] = "reload"
    /\ tries' = [tries EXCEPT ![b] = 0]
    /\ \/ status[run[b]] = "succeeded" /\ Goto(b, "done") /\ UNCHANGED problem
       \/ status[run[b]] = "running" /\ Goto(b, "resolve") /\ UNCHANGED problem
       \/ status[run[b]] = "failed" /\ Raise(b, "raised", "write")
    /\ UNCHANGED <<tables, locks, disk, run, id, version, seen, incidents>>

(***************************************************************************)
(* The failing transactions: mark_failed reads the status, then writes it. *)
(***************************************************************************)
MarkFailed(b, code) ==
    /\ status' = [status EXCEPT ![run[b]] = IF seen[b] = "succeeded" THEN @ ELSE "failed"]
    /\ failure' = [failure EXCEPT ![run[b]] = IF seen[b] = "succeeded" THEN @ ELSE code]

\* Mutation of EmptyCheck: the rules are not compared with those in force.
EmptyUnchecked(b) ==
    /\ pc[b] = "empty"
    /\ conn = None
    /\ conn' = b
    /\ seen' = [seen EXCEPT ![b] = status[run[b]]]
    /\ Goto(b, "emptyRun")
    /\ UNCHANGED <<tables, lock, disk, run, id, version, tries, problem, incidents>>

\* No file is left.  With no attempt left either, and other rules in force by now,
\* the exception is raised and nothing is written.
EmptyCheck(b) ==
    /\ pc[b] = "empty"
    /\ conn = None
    /\ \/ /\ active # version[b] /\ tries[b] > 0
          /\ Goto(b, "reload")
          /\ UNCHANGED <<conn, seen, problem>>
       \/ /\ active # version[b] /\ tries[b] = 0
          /\ Raise(b, "raised", "noFiles")
          /\ UNCHANGED <<conn, seen>>
       \/ /\ active = version[b]
          /\ conn' = b
          /\ seen' = [seen EXCEPT ![b] = status[run[b]]]
          /\ Goto(b, "emptyRun")
          /\ UNCHANGED problem
    /\ UNCHANGED <<tables, lock, disk, run, id, version, tries, incidents>>

EmptyRun(b) ==
    /\ pc[b] = "emptyRun"
    /\ seen[b] = "succeeded" \/ lock[run[b]] = None
    /\ MarkFailed(b, "noFiles")
    /\ Release(b)
    /\ Raise(b, "raised", "noFiles")
    /\ UNCHANGED <<row, scope, active, disk, run, id, version, tries, seen, incidents>>

\* Mutation of FailRead: the task takes it that the build has marked the run.
FailReadOnce(b) ==
    /\ pc[b] \in {"fail", "raised"}
    /\ seen' = [seen EXCEPT ![b] = status[run[b]]]
    /\ Goto(b, IF pc[b] = "fail" THEN "failRun" ELSE "done")
    /\ UNCHANGED <<tables, locks, disk, run, id, version, tries, problem, incidents>>

\* The task's handler leaves a run alone that has ended; what it then writes to the
\* connection alone (last_failed_sync_at) is left out, here and in the other actions.
FailRead(b) ==
    /\ pc[b] \in {"fail", "raised"}
    /\ seen' = [seen EXCEPT ![b] = status[run[b]]]
    /\ \/ pc[b] = "fail" /\ Goto(b, "failRun")
       \/ pc[b] = "raised" /\ status[run[b]] \notin {"succeeded", "failed"}
             /\ Goto(b, "taskRun")
       \/ pc[b] = "raised" /\ status[run[b]] \in {"succeeded", "failed"}
             /\ Goto(b, "done")
    /\ UNCHANGED <<tables, locks, disk, run, id, version, tries, problem, incidents>>

\* The run is written, and locked, before the connection.
FailRun(b) ==
    /\ pc[b] \in {"failRun", "taskRun"}
    /\ \/ seen[b] = "succeeded" /\ UNCHANGED lock
       \/ /\ seen[b] # "succeeded" /\ lock[run[b]] = None
          /\ lock' = [lock EXCEPT ![run[b]] = b]
    /\ Goto(b, IF pc[b] = "failRun" THEN "failConn" ELSE "taskConn")
    /\ UNCHANGED <<tables, conn, disk, locals, incidents>>

\* Mutation of FailConn: the session is not closed, its locks stay.
FailConnOpen(b) ==
    /\ pc[b] \in {"failConn", "taskConn"}
    /\ conn = None
    /\ MarkFailed(b, IF pc[b] = "failConn" THEN problem[b] ELSE "write")
    /\ Goto(b, IF pc[b] = "failConn" THEN "raised" ELSE "done")
    /\ UNCHANGED <<row, scope, active, locks, disk, locals, incidents>>

FailConn(b) ==
    /\ pc[b] \in {"failConn", "taskConn"}
    /\ conn = None
    /\ MarkFailed(b, IF pc[b] = "failConn" THEN problem[b] ELSE "write")
    /\ Release(b)
    /\ Goto(b, IF pc[b] = "failConn" THEN "raised" ELSE "done")
    /\ UNCHANGED <<row, scope, active, disk, locals, incidents>>

(***************************************************************************)
(* Aborted transactions, dead processes, and the operator.                 *)
(***************************************************************************)
Aborts(b) ==
    /\ Release(b)
    /\ \/ /\ pc[b] = "commit"
          /\ Goto(b, "broken")
          /\ UNCHANGED problem
       \/ /\ pc[b] \in {"emptyRun", "failRun", "failConn"}
          /\ Raise(b, "raised", "write")
       \/ /\ pc[b] \in {"taskRun", "taskConn"}
          /\ Goto(b, "done")
          /\ UNCHANGED problem
    /\ UNCHANGED <<tables, disk, run, id, version, tries, seen>>

DbFails(b) == Happens("dbError") /\ Aborts(b)

\* One builder has locked the connection and waits for the run, another has locked
\* the run and waits for the connection.
Entangled(b, c) ==
    /\ pc[b] \in {"commit", "emptyRun"} /\ conn = b
    /\ pc[c] \in {"failConn", "taskConn"} /\ lock[run[b]] = c
    /\ pc[b] = "emptyRun" => seen[b] # "succeeded"

\* PostgreSQL aborts one of the two.
Deadlock(b) ==
    /\ \E c \in Builders : Entangled(b, c) \/ Entangled(c, b)
    /\ Aborts(b)
    /\ UNCHANGED incidents

Crash(b) ==
    /\ pc[b] # "idle"
    /\ Happens("crash")
    /\ Release(b)
    /\ Forget(b)
    /\ UNCHANGED <<tables, disk>>

\* The task returns or passes its exception on; SyncWorker has what it does last.
Return(b) ==
    /\ pc[b] = "done"
    /\ Forget(b)
    /\ UNCHANGED <<tables, locks, disk, incidents>>

SaveScope ==
    /\ conn = None
    /\ active < MaxVersion
    /\ active' = active + 1
    /\ UNCHANGED <<status, failure, row, scope, locks, disk, pc, locals, incidents>>

BuilderStep(b) ==
    \/ MarkRunning(b) \/ ReadScope(b) \/ ReadFiles(b) \/ GitFails(b)
    \/ \E i \in Ids : StartArchive(b, i)
    \/ PublishArchive(b) \/ WriteManifest(b) \/ StoreFails(b)
    \/ LockAndInsert(b) \/ Commit(b) \/ AckLost(b) \/ Discard(b) \/ Reload(b)
    \/ EmptyCheck(b) \/ EmptyRun(b) \/ FailRead(b) \/ FailRun(b) \/ FailConn(b)
    \/ DbFails(b) \/ Deadlock(b)
    \/ Return(b)

Next ==
    \/ \E b \in Builders : BuilderStep(b) \/ Crash(b) \/ \E r \in Runs : Begin(b, r)
    \/ SaveScope

Spec == Init /\ [][Next]_vars
\* Workers go on and the row locks are granted in turn: PostgreSQL queues those who
\* wait, so a lock that is released again and again is not missed for ever.
FairSpec == Spec /\ \A b \in Builders : SF_vars(BuilderStep(b))

(***************************************************************************)
(* Properties.                                                             *)
(***************************************************************************)
\* Every snapshot row has its archive with the manifest on disk, whoever else builds
\* the run, fails or crashes, unless a commit succeeds without saying so
\* (build_code_snapshot: no path removes an archive whose row is stored).
RowHasArchive == Never({"lostAck"}) =>
    \A r \in Runs : row[r] # None => disk[row[r]] = "complete"

\* Unless a process dies, no archive is left without a row that names it or a builder
\* that still works on it (the shutil.rmtree of every failing path).
NoOrphan == Never({"crash"}) =>
    \A i \in Ids : disk[i] # "none" =>
        (\E r \in Runs : row[r] = i) \/ (\E b \in Builders : id[b] = i)

\* When a snapshot is stored, the rules it was filtered with are in force: an operator
\* cannot slip a version in between the check and the commit
\* (ensure_default_scope_rule_version and create_active_version lock one row).
ScopeInForce ==
    [][\A r \in Runs : row'[r] # row[r] => scope'[r] = active /\ active' = active]_vars

\* A run fails for want of files only while the rules in force keep none
\* (_fail_empty_snapshot_build).
EmptyInForce ==
    [][\A r \in Runs : (failure'[r] = "noFiles" /\ failure[r] # "noFiles")
            => active \in Empty]_vars

\* When nobody builds, no run is left running, whatever transactions were aborted as
\* deadlock victims (the failure handlers of the tasks pick up what the build left).
NothingLeftRunning == Never({"crash", "dbError"}) =>
    ((\A b \in Builders : pc[b] = "idle") => \A r \in Runs : status[r] # "running")

\* Whenever a builder waits for a row lock, one who holds one goes on in its
\* transaction, or two wait for each other and PostgreSQL aborts one of them: there is
\* no longer ring of waiting builders and no lock that outlives its transaction
\* (the final transaction locks the connection first, _fail_snapshot_build and
\* _mark_manual_snapshot_sync_failed the run).
InTransaction == {"commit", "emptyRun", "failConn", "taskConn"}
Holds(b) == conn = b \/ \E r \in Runs : lock[r] = b
Waits(b) ==
    \/ pc[b] \in {"resolve", "final", "empty", "failConn", "taskConn"} /\ conn # None
    \/ pc[b] = "commit" /\ lock[run[b]] # None
    \/ /\ pc[b] \in {"emptyRun", "failRun", "taskRun"} /\ seen[b] # "succeeded"
       /\ lock[run[b]] # None

WaitsEnd == (\E b \in Builders : Waits(b)) =>
    \/ \E c \in Builders : Holds(c) /\ pc[c] \in InTransaction /\ ~Waits(c)
    \/ \E c, d \in Builders : Entangled(c, d)

\* To everybody else a build is one step that stores a snapshot under the rules in
\* force, or none: whatever its transactions, retries, failures and aborts do.
OutcomeOf(s) == CASE s = "pending" -> "open" [] s = "running" -> "building"
                  [] s = "succeeded" -> "stored" [] s = "failed" -> "failed"

Outcome == INSTANCE BuildOutcome WITH
    outcome <- [r \in Runs |-> OutcomeOf(status[r])],
    product <- [r \in Runs |-> IF row[r] = None THEN None ELSE scope[r]],
    choices <- {active}

ImplementsOutcome == Outcome!OutcomeSpec

\* Who waits for a row lock gets it, or is aborted as a deadlock victim, and the build
\* ends after at most one retry.
BuildEnds == \A b \in Builders : (pc[b] # "idle") ~> (pc[b] = "idle")

(***************************************************************************)
(* The strengthening that every step preserves.                            *)
(***************************************************************************)
\* A builder has a directory of its own from its creation to the commit or removal.
Owning == {"publish", "manifest", "final", "commit", "changed", "duplicate", "broken"}
Content(step) == CASE step = "publish" -> "temp"
                   [] step = "manifest" -> "stored"
                   [] OTHER -> "complete"

OwnershipInv ==
    /\ \A b \in Builders : id[b] # None <=> pc[b] \in Owning
    /\ \A b \in Builders : pc[b] \in Owning => disk[id[b]] = Content(pc[b])
    /\ \A b, c \in Builders : (id[b] # None /\ id[b] = id[c]) => b = c
    /\ \A b \in Builders, r \in Runs : (id[b] # None /\ row[r] = id[b])
            => (pc[b] = "broken" /\ ~Never({"lostAck"}))

\* Who is past the check of the final transaction has the connection locked: neither
\* the rules nor the run's row have changed since.
LockInv ==
    \A b \in Builders :
        /\ pc[b] # "idle" => run[b] \in Runs
        /\ pc[b] \in {"commit", "emptyRun"} => conn = b /\ active = version[b]
        /\ pc[b] = "commit" => row[run[b]] = None
        /\ conn = b => pc[b] \in {"commit", "emptyRun"}

\* Only rules that keep nothing lead to the transaction that says so.
EmptyInv ==
    \A b \in Builders :
        /\ pc[b] \in {"empty", "emptyRun"} => version[b] \in Empty
        /\ pc[b] \in {"failRun", "failConn", "fail"} => problem[b] \in {"sync", "write"}

\* What a builder goes by when it gives a run up: a run with a row has ended, one that
\* mark_failed saw succeeded has ended, and a run is locked by those who fail it.  A run
\* that succeeded has its row, and nobody past mark_running has a pending run.
Ended(r) == status[r] \in {"succeeded", "failed"}
Failing == {"emptyRun", "failRun", "failConn", "taskRun", "taskConn"}

EndedInv ==
    /\ \A r \in Runs : row[r] # None => Ended(r)
    /\ \A r \in Runs : status[r] = "succeeded" => row[r] # None
    /\ \A b \in Builders :
        /\ pc[b] \notin {"idle", "mark"} => status[run[b]] # "pending"
        /\ pc[b] = "duplicate" => row[run[b]] # None
        /\ pc[b] \in Failing /\ seen[b] = "succeeded" => Ended(run[b])
    /\ \A r \in Runs, b \in Builders :
            lock[r] = b => run[b] = r /\ pc[b] \in {"failConn", "taskConn"}

\* A running run has somebody who has not given it up.
WorkedOn(r) == \E b \in Builders : run[b] = r /\ pc[b] \notin {"idle", "done"}
EndingInv ==
    /\ EndedInv
    /\ Never({"crash", "dbError"}) => \A r \in Runs : status[r] = "running" => WorkedOn(r)

BuildInv ==
    /\ TypeOK /\ OwnershipInv /\ LockInv /\ EmptyInv
    /\ RowHasArchive /\ NoOrphan /\ EndingInv
===============================================================================
