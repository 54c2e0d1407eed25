----------------------------- MODULE ConnectionStatus -----------------------------
(***************************************************************************)
(* The default ref and the status of one repository connection, and those  *)
(* who write them: the request that creates the connection, operators who  *)
(* choose another default ref, verifications, and snapshot builds that     *)
(* fail.  Each of them asks the remote first, without a transaction, and   *)
(* then loads the row and writes back what it found in a transaction of    *)
(* its own.  The ORM writes only the columns that differ from the row it   *)
(* has loaded, and nothing locks the row between the two.                  *)
(***************************************************************************)
EXTENDS Naturals

CONSTANTS Operators, Verifiers, Builders, Names, None,
          Asked,      \* the refs that anybody asks for
          MaxChanges  \* bound on the changes of the environment

Tasks == Operators \cup Verifiers \cup Builders
Refs == [type : {"branch", "tag"}, name : Names]
Statuses == {"active", "reauth_required", "ref_missing"}
Rows == [ref : Refs, status : Statuses]

ASSUME DisjointAssumption ==
    /\ Operators \cap Verifiers = {} /\ Operators \cap Builders = {}
    /\ Verifiers \cap Builders = {}
ASSUME NoneAssumption == None \notin Refs \cup Rows \cup Statuses
ASSUME AskedAssumption == Asked \subseteq Refs
ASSUME MaxChangesAssumption == MaxChanges \in Nat

VARIABLES
    provider, transport,  \* of the connection
    refs,                 \* the remote: what it has,
    credential, up,       \* what it thinks of the credential, whether it answers
    local,                \* the credential can be decrypted and handed to git
    changes,              \* of the four above so far
    row,                  \* default ref and status, None before it is created
    task,                 \* [Tasks -> where it is, the ref it is about, what it found,
                          \*           the row it has loaded]
    undisturbed           \* tasks during which nobody else has changed anything

remote == <<refs, credential, up, local, changes>>
vars == <<provider, transport, remote, row, task, undisturbed>>

Idle == [pc |-> "idle", ref |-> None, found |-> "nothing", seen |-> None]

TypeOK ==
    /\ provider \in {"github", "gitlab"} /\ transport \in {"ssh", "https"}
    /\ refs \subseteq Refs /\ credential \in {"read", "write", "refused"}
    /\ up \in BOOLEAN /\ local \in BOOLEAN /\ changes \in 0..MaxChanges
    /\ row \in Rows \cup {None}
    /\ task \in [Tasks -> [pc : {"idle", "probe", "lookup", "sync", "load", "save"},
                           ref : Refs \cup {None},
                           found : {"nothing", "ref", "missing", "auth", "error"},
                           seen : Rows \cup {None}]]
    /\ undisturbed \subseteq Tasks

Init ==
    /\ provider \in {"github", "gitlab"} /\ transport \in {"ssh", "https"}
    /\ refs = Asked /\ credential = "read" /\ up = TRUE /\ local = TRUE /\ changes = 0
    /\ row = None /\ task = [t \in Tasks |-> Idle] /\ undisturbed = {}

(***************************************************************************)
(* The remote, and what git says of it.                                    *)
(***************************************************************************)
Change ==
    /\ changes < MaxChanges /\ changes' = changes + 1
    /\ \/ \E r \in Asked : /\ refs' \in {refs \cup {r}, refs \ {r}} \ {refs}
                          /\ UNCHANGED <<credential, up, local>>
       \/ /\ credential' \in {"read", "write", "refused"} \ {credential}
          /\ UNCHANGED <<refs, up, local>>
       \/ up' = ~up /\ UNCHANGED <<refs, credential, local>>
       \/ local' = ~local /\ UNCHANGED <<refs, credential, up>>
    /\ undisturbed' = {}
    /\ UNCHANGED <<provider, transport, row, task>>

\* GitRefResolver.resolve.  "Could not read from remote repository", which ssh says
\* of an unreachable host too, counts as a failed authentication.
Resolved(r) ==
    CASE ~up -> IF transport = "ssh" THEN "auth" ELSE "error"
      [] up /\ credential = "refused" -> "auth"
      [] up /\ credential # "refused" -> IF r \in refs THEN "ref" ELSE "missing"

\* Mutation of Probed: a credential that may write is a finding of its own.
Writable == IF ~up THEN "error" ELSE IF credential = "refused" THEN "auth" ELSE credential

\* GitReadonlyValidator.probe: the same words count as read-only here; whatever is
\* not found to be read-only is an error.
Probed ==
    CASE ~up -> IF transport = "ssh" THEN "read" ELSE "error"
      [] up /\ credential = "refused" -> "auth"
      [] up /\ credential # "refused" -> IF credential = "read" THEN "read" ELSE "error"

\* ensure_synced_mirror, after the ref has been resolved.
Synced == IF up /\ credential = "refused" THEN "auth" ELSE IF up THEN "ref" ELSE "error"

(***************************************************************************)
(* What a finding does to the row.                                         *)
(***************************************************************************)
\* Mutation of NewStatus: a ref that is gone is an error like any other.
Unmapped(t) ==
    IF task[t].found = "auth" THEN "reauth_required"
    ELSE IF task[t].found = "ref" /\ t \notin Builders THEN "active" ELSE None

\* _map_ref_update_failure_to_status, _map_verification_failure_to_status and
\* _classify_snapshot_failure; None leaves the status alone.
NewStatus(t) ==
    CASE task[t].found = "auth" -> "reauth_required"
      [] task[t].found = "missing" -> "ref_missing"
      [] task[t].found = "ref" -> IF t \in Builders THEN None ELSE "active"
      [] OTHER -> None

\* The row that a task wants, given the row it has loaded.
Wanted(t, old) ==
    [ref |-> IF t \in Operators /\ task[t].found = "ref" THEN task[t].ref ELSE old.ref,
     status |-> IF NewStatus(t) = None THEN old.status ELSE NewStatus(t)]

\* Mutation of Flushed: all columns are written.
Whole(new, seen, old) == new

\* The row after a flush: columns that are as they were loaded are not written.
Column(new, seen, old) == IF new = seen THEN old ELSE new
Flushed(new, seen, old) ==
    [ref |-> [type |-> Column(new.ref.type, seen.ref.type, old.ref.type),
              name |-> Column(new.ref.name, seen.ref.name, old.ref.name)],
     status |-> Column(new.status, seen.status, old.status)]

(***************************************************************************)
(* The tasks.                                                              *)
(***************************************************************************)
Step(t, from, to) == task[t].pc = from /\ task' = [task EXCEPT ![t] = to]
Begin(t, pc, r) == Step(t, "idle", [Idle EXCEPT !.pc = pc, !.ref = r])

\* What follows on a finding: a task that has nothing to write raises.
After(t, found) ==
    LET next == [task[t] EXCEPT !.pc = "load", !.found = found]
    IN  IF found = "error" THEN Idle ELSE next

Env == UNCHANGED <<provider, transport, remote>>
Joined(t) == undisturbed' = undisturbed \cup {t}

\* create_repository_connection.
BeginCreate(t, r) ==
    /\ t \in Operators /\ row = None
    /\ \A o \in Operators : task[o] = Idle  \* another one creates another connection
    /\ Begin(t, "lookup", r) /\ Joined(t) /\ Env /\ UNCHANGED row

\* update_default_ref.
BeginUpdate(t, r) ==
    /\ t \in Operators /\ row # None
    /\ Begin(t, "lookup", r) /\ Joined(t) /\ Env /\ UNCHANGED row

\* verify_repository_connection, with the default ref as it is now.
BeginVerify(t) ==
    /\ t \in Verifiers /\ row # None
    /\ Begin(t, "probe", row.ref) /\ Joined(t) /\ Env /\ UNCHANGED row

\* A build of the default ref, asked for by an operator, or of any branch, pushed or
\* of a pull request: GitLab's webhooks respect the status, GitHub's do not.
BeginBuild(t, r) ==
    /\ t \in Builders /\ row # None
    /\ \/ r = row.ref /\ row.status = "active"
       \/ r.type = "branch" /\ (provider = "github" \/ row.status = "active")
    /\ Begin(t, "lookup", r) /\ Joined(t) /\ Env /\ UNCHANGED row

Creating(t) == t \in Operators /\ row = None

\* The credential cannot be bound: a verification and a build say so in the status,
\* the requests of an operator do not.
Unbound(t) ==
    /\ ~local
    /\ task[t].pc = IF t \in Verifiers THEN "probe" ELSE "lookup"
    /\ task' = [task EXCEPT ![t] = After(t, IF t \in Operators THEN "error" ELSE "auth")]
    /\ Env /\ UNCHANGED <<row, undisturbed>>

\* The dry-run push: of a verification before the lookup, of a creation after it.
Probe(t) ==
    /\ t \in Verifiers => local
    /\ Step(t, "probe",
            IF Probed = "read"
            THEN [task[t] EXCEPT !.pc = IF t \in Verifiers THEN "lookup" ELSE "sync"]
            ELSE IF Creating(t) THEN Idle ELSE After(t, Probed))
    /\ Env /\ UNCHANGED <<row, undisturbed>>

Lookup(t) ==
    /\ t \in Verifiers \/ local
    /\ Step(t, "lookup",
            CASE Resolved(task[t].ref) = "ref" /\ Creating(t) ->
                   [task[t] EXCEPT !.pc = "probe"]
              [] Resolved(task[t].ref) = "ref" /\ t \in Builders ->
                   [task[t] EXCEPT !.pc = "sync"]
              [] Resolved(task[t].ref) # "ref" /\ Creating(t) -> Idle
              [] OTHER -> After(t, Resolved(task[t].ref)))
    /\ Env /\ UNCHANGED <<row, undisturbed>>

\* A build that gets its mirror changes neither default ref nor status; what else
\* may become of it is SnapshotBuild's subject.
Sync(t) ==
    /\ Step(t, "sync",
            IF Synced = "ref" THEN IF t \in Builders THEN Idle ELSE After(t, "ref")
            ELSE IF t \in Builders THEN After(t, Synced) ELSE Idle)
    /\ Env /\ UNCHANGED <<row, undisturbed>>

Insert(t) ==
    /\ Creating(t)
    /\ Step(t, "load", Idle)
    /\ row' = [ref |-> task[t].ref, status |-> "active"]
    /\ undisturbed' = {} /\ Env

Load(t) ==
    /\ row # None
    /\ Step(t, "load", [task[t] EXCEPT !.pc = "save", !.seen = row])
    /\ Env /\ UNCHANGED <<row, undisturbed>>

Save(t) ==
    /\ Step(t, "save", Idle)
    /\ row' = Flushed(Wanted(t, task[t].seen), task[t].seen, row)
    /\ undisturbed' = {} /\ Env

\* The process dies, or the transaction fails, and nothing is written.
GiveUp(t) ==
    /\ task[t].pc # "idle"
    /\ task' = [task EXCEPT ![t] = Idle]
    /\ Env /\ UNCHANGED <<row, undisturbed>>

TaskStep(t) ==
    \/ \E r \in Asked : BeginCreate(t, r) \/ BeginUpdate(t, r) \/ BeginBuild(t, r)
    \/ BeginVerify(t)
    \/ Unbound(t) \/ Probe(t) \/ Lookup(t) \/ Sync(t)
    \/ Insert(t) \/ Load(t) \/ Save(t) \/ GiveUp(t)

Next == Change \/ \E t \in Tasks : TaskStep(t)

Spec == Init /\ [][Next]_vars

(***************************************************************************)
(* What the writers owe each other.                                        *)
(***************************************************************************)
\* The default ref becomes only what an operator has chosen: a check that has loaded
\* the row before does not bring the old one back.  It holds while operators take
\* turns; two who change both columns and one of them at the same time mix them.
DefaultAsAsked ==
    [][\A t \in Tasks :
        Save(t) /\ row'.ref # row.ref => t \in Operators /\ row'.ref = task[t].ref]_vars

\* A check during which nothing else has changed tells the truth: a verification, and
\* a failed build of the default ref, say what is wrong, or that nothing is; the
\* ref an operator has chosen and the remote has is the default, and active.
Truth == IF credential = "refused" THEN "reauth_required"
         ELSE IF row.ref \in refs THEN "active" ELSE "ref_missing"

UndisturbedTells ==
    [][\A t \in undisturbed :
        Save(t) /\ up /\ local =>
            IF t \in Operators
            THEN task[t].ref \in refs /\ credential # "refused" =>
                    row' = [ref |-> task[t].ref, status |-> "active"]
            ELSE t \in Verifiers \/ task[t].ref = row.ref =>
                    row' = [row EXCEPT !.status = Truth]]_vars

(***************************************************************************)
(* The strengthening that every step preserves.                            *)
(***************************************************************************)
\* A task at work knows its ref, and one that has loaded the row has seen one.
TasksSound ==
    \A t \in Tasks :
        /\ task[t].pc # "idle" => task[t].ref \in Refs
        /\ task[t].pc = "save" => row # None /\ task[t].seen \in Rows

\* What there is to find of a ref, for a check that reaches the remote.
Finding(r) == IF credential = "refused" THEN "auth"
              ELSE IF r \in refs THEN "ref" ELSE "missing"

\* A task during which nobody else has changed anything has found what still is.
FindingsHold ==
    \A t \in undisturbed :
        /\ task[t].pc = "save" => task[t].seen = row
        /\ (task[t].pc \in {"load", "save"} /\ row # None /\ up /\ local)
              => task[t].found = Finding(task[t].ref)
        /\ (t \in Builders /\ task[t].pc \in {"load", "save"}) => task[t].found # "ref"
        /\ (t \in Operators /\ task[t].pc \in {"probe", "sync"}) => row = None
        /\ (t \in Verifiers /\ task[t].pc # "idle")
              => row # None /\ task[t].ref = row.ref /\ task[t].pc # "sync"

\* While operators take turns, nobody changes the ref under one who is about to.
SingleOperator == \A o, p \in Operators : o = p
OperatorSees ==
    \A o \in Operators : task[o].pc = "save" => task[o].seen.ref = row.ref

\* No step breaks any of this, however the writers of the row overlap.
StatusInv ==
    TypeOK /\ TasksSound /\ FindingsHold /\ (SingleOperator => OperatorSees)

====================================================================================
