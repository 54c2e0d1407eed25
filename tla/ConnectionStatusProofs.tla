------------------------ MODULE ConnectionStatusProofs ------------------------
(***************************************************************************)
(* Proofs about ConnectionStatus, for any number of operators,             *)
(* verifications, builds and refs.                                         *)
(***************************************************************************)
EXTENDS ConnectionStatus, TLAPS


(***************************************************************************)
(* Tasks one at a time.                                                    *)
(***************************************************************************)
TaskSet == [pc : {"idle", "probe", "lookup", "sync", "load", "save"},
            ref : Refs \cup {None},
            found : {"nothing", "ref", "missing", "auth", "error"},
            seen : Rows \cup {None}]

\* What StatusInv says of a task in state x, and of one that is undisturbed.
Sound(x) ==
    /\ x \in TaskSet
    /\ x.pc # "idle" => x.ref \in Refs
    /\ x.pc = "save" => row # None /\ x.seen \in Rows

Holds(t, x) ==
    /\ x.pc = "save" => x.seen = row
    /\ (x.pc \in {"load", "save"} /\ row # None /\ up /\ local)
          => x.found = Finding(x.ref)
    /\ (t \in Builders /\ x.pc \in {"load", "save"}) => x.found # "ref"
    /\ (t \in Operators /\ x.pc \in {"probe", "sync"}) => row = None
    /\ (t \in Verifiers /\ x.pc # "idle") => row # None /\ x.ref = row.ref /\ x.pc # "sync"

Sees(t, x) == (SingleOperator /\ t \in Operators /\ x.pc = "save") => x.seen.ref = row.ref

LEMMA IdleSound == /\ Sound(Idle) /\ Idle.pc = "idle"
                   /\ \A t : Holds(t, Idle) /\ Sees(t, Idle)
BY DEF Sound, Holds, Sees, Idle, TaskSet

LEMMA StatusInvTasks ==
    StatusInv <=> /\ TypeOK
                  /\ \A t \in Tasks : Sound(task[t]) /\ Sees(t, task[t])
                  /\ \A t \in undisturbed : Holds(t, task[t])
BY DEF StatusInv, TypeOK, TasksSound, FindingsHold, OperatorSees, Sound, Sees, Holds,
       TaskSet, Tasks

\* A task that moves and leaves everything else as it is keeps the invariant if it is
\* sound, and, while undisturbed, right about what it has found.
LEMMA TaskMoves ==
    ASSUME StatusInv, NEW t \in Tasks, NEW x, task' = [task EXCEPT ![t] = x],
           Env, row' = row, Sound(x), Sees(t, x),
           \/ undisturbed' = undisturbed /\ (t \in undisturbed => Holds(t, x))
           \/ undisturbed' = undisturbed \cup {t} /\ Holds(t, x)
    PROVE  StatusInv'
<1> USE DEF Env, remote
<1>1. task' \in [Tasks -> TaskSet]
  BY StatusInvTasks DEF Sound, TypeOK, TaskSet
<1>2. TypeOK'
  BY <1>1, StatusInvTasks DEF TypeOK, TaskSet
<1>3. ASSUME NEW u \in Tasks PROVE Sound(task[u])' /\ Sees(u, task[u])'
  <2>1. task'[u] = IF u = t THEN x ELSE task[u]
    BY StatusInvTasks DEF TypeOK
  <2>2. Sound(task'[u]) /\ Sees(u, task'[u])
    BY <2>1, StatusInvTasks
  <2> QED
    BY <2>2 DEF Sound, Sees
<1>4. ASSUME NEW u \in undisturbed' PROVE Holds(u, task[u])'
  <2>1. u \in Tasks /\ task'[u] = IF u = t THEN x ELSE task[u]
    BY StatusInvTasks DEF TypeOK
  <2>2. Holds(u, task'[u])
    BY <2>1, StatusInvTasks
  <2> QED
    BY <2>2 DEF Holds, Finding
<1> HIDE DEF Env, remote
<1> QED
  BY <1>2, <1>3, <1>4
  DEF StatusInv, TypeOK, TasksSound, FindingsHold, OperatorSees, Sound, Sees, Holds,
      TaskSet, Tasks

(***************************************************************************)
(* The steps of a task.                                                    *)
(***************************************************************************)
\* The state of a task at work has the parts of one.
LEMMA TaskParts ==
    ASSUME StatusInv, NEW t \in Tasks
    PROVE  /\ task[t] \in TaskSet /\ Sound(task[t])
           /\ row # None => row \in Rows /\ row.ref \in Refs
BY StatusInvTasks DEF TypeOK, Rows, TaskSet

LEMMA BeginKeeps ==
    ASSUME StatusInv, NEW t \in Tasks, NEW r \in Asked,
           BeginCreate(t, r) \/ BeginUpdate(t, r) \/ BeginBuild(t, r)
    PROVE  StatusInv'
<1> DEFINE x == [Idle EXCEPT !.pc = "lookup", !.ref = r]
<1>1. /\ task' = [task EXCEPT ![t] = x] /\ Env /\ row' = row
      /\ undisturbed' = undisturbed \cup {t} /\ t \notin Verifiers
  BY DisjointAssumption DEF BeginCreate, BeginUpdate, BeginBuild, Begin, Step, Joined
<1>2. r \in Refs
  BY AskedAssumption
<1>3. Sound(x) /\ Sees(t, x) /\ Holds(t, x)
  BY <1>1, <1>2 DEF Sound, Sees, Holds, TaskSet, Idle
<1> HIDE DEF x
<1> QED
  BY <1>1, <1>3, TaskMoves

LEMMA VerifyKeeps ==
    ASSUME StatusInv, NEW t \in Tasks, BeginVerify(t)
    PROVE  StatusInv'
<1> DEFINE x == [Idle EXCEPT !.pc = "probe", !.ref = row.ref]
<1>1. /\ task' = [task EXCEPT ![t] = x] /\ Env /\ row' = row
      /\ undisturbed' = undisturbed \cup {t} /\ t \notin Operators /\ row # None
  BY DisjointAssumption DEF BeginVerify, Begin, Step, Joined
<1>2. row.ref \in Refs
  BY <1>1, TaskParts
<1>3. Sound(x) /\ Sees(t, x) /\ Holds(t, x)
  BY <1>1, <1>2 DEF Sound, Sees, Holds, TaskSet, Idle
<1> HIDE DEF x
<1> QED
  BY <1>1, <1>3, TaskMoves

LEMMA UnboundKeeps ==
    ASSUME StatusInv, NEW t \in Tasks, Unbound(t)
    PROVE  StatusInv'
<1> DEFINE x == After(t, IF t \in Operators THEN "error" ELSE "auth")
<1>1. task' = [task EXCEPT ![t] = x] /\ Env /\ row' = row /\ undisturbed' = undisturbed
  BY DEF Unbound
<1>2. Sound(x) /\ Sees(t, x)
  BY TaskParts, IdleSound DEF Unbound, After, Sound, Sees, TaskSet
<1>3. t \in undisturbed => Holds(t, x)
  BY TaskParts, IdleSound, StatusInvTasks DEF Unbound, After, Holds, TaskSet
<1> HIDE DEF x
<1> QED
  BY <1>1, <1>2, <1>3, TaskMoves

LEMMA ProbeKeeps ==
    ASSUME StatusInv, NEW t \in Tasks, Probe(t)
    PROVE  StatusInv'
<1> DEFINE x == IF Probed = "read"
                THEN [task[t] EXCEPT !.pc = IF t \in Verifiers THEN "lookup" ELSE "sync"]
                ELSE IF Creating(t) THEN Idle ELSE After(t, Probed)
<1>1. /\ task[t].pc = "probe" /\ task' = [task EXCEPT ![t] = x]
      /\ Env /\ row' = row /\ undisturbed' = undisturbed
  BY DEF Probe, Step
<1>2. Probed \in {"read", "auth", "error"}
  BY StatusInvTasks DEF Probed, TypeOK
<1>3. Sound(x) /\ Sees(t, x)
  BY <1>1, <1>2, TaskParts, IdleSound DEF After, Sound, Sees, TaskSet
<1>4. t \in undisturbed => Holds(t, x)
  <2> SUFFICES ASSUME t \in undisturbed PROVE Holds(t, x)
    OBVIOUS
  <2>1. Holds(t, task[t])
    BY StatusInvTasks
  <2>2. CASE Probed = "read"
    BY <1>1, <2>1, <2>2, TaskParts DEF Holds, TaskSet
  <2>3. CASE Probed = "error" \/ Creating(t)
    BY <1>1, <2>1, <2>2, <2>3, IdleSound DEF After
  <2>4. CASE Probed = "auth" /\ ~Creating(t)
    <3>1. up => credential = "refused"
      BY <2>4 DEF Probed
    <3> QED
      BY <1>1, <2>1, <2>4, <3>1, TaskParts DEF After, Holds, TaskSet, Finding, Creating
  <2> QED
    BY <1>2, <2>2, <2>3, <2>4
<1> HIDE DEF x
<1> QED
  BY <1>1, <1>3, <1>4, TaskMoves

LEMMA LookupKeeps ==
    ASSUME StatusInv, NEW t \in Tasks, Lookup(t)
    PROVE  StatusInv'
<1> DEFINE result == Resolved(task[t].ref)
           x == CASE result = "ref" /\ Creating(t) -> [task[t] EXCEPT !.pc = "probe"]
                  [] result = "ref" /\ t \in Builders -> [task[t] EXCEPT !.pc = "sync"]
                  [] result # "ref" /\ Creating(t) -> Idle
                  [] OTHER -> After(t, result)
<1>1. /\ task[t].pc = "lookup" /\ task' = [task EXCEPT ![t] = x]
      /\ Env /\ row' = row /\ undisturbed' = undisturbed
  BY DEF Lookup, Step
<1>2. /\ result \in {"ref", "missing", "auth", "error"}
      /\ up => result = Finding(task[t].ref)
  BY StatusInvTasks DEF Resolved, TypeOK, Finding
<1> HIDE DEF result
<1>3. \/ result = "ref" /\ Creating(t) /\ x = [task[t] EXCEPT !.pc = "probe"]
      \/ result = "ref" /\ t \in Builders /\ x = [task[t] EXCEPT !.pc = "sync"]
      \/ x = Idle
      \/ ~Creating(t) /\ (t \in Builders => result # "ref")
         /\ x = [[task[t] EXCEPT !.pc = "load"] EXCEPT !.found = result]
  BY DisjointAssumption DEF After, Creating
<1> HIDE DEF x
<1>4. Sound(x) /\ Sees(t, x)
  BY <1>1, <1>2, <1>3, TaskParts, IdleSound DEF Sound, Sees, TaskSet
<1>5. t \in undisturbed => Holds(t, x)
  <2> SUFFICES ASSUME t \in undisturbed PROVE Holds(t, x)
    OBVIOUS
  <2>1. Holds(t, task[t])
    BY StatusInvTasks
  <2> QED
    BY <1>1, <1>2, <1>3, <2>1, TaskParts, IdleSound, DisjointAssumption
    DEF Holds, TaskSet, Creating
<1> QED
  BY <1>1, <1>4, <1>5, TaskMoves

LEMMA SyncKeeps ==
    ASSUME StatusInv, NEW t \in Tasks, Sync(t)
    PROVE  StatusInv'
<1> DEFINE x == IF Synced = "ref" THEN IF t \in Builders THEN Idle ELSE After(t, "ref")
                ELSE IF t \in Builders THEN After(t, Synced) ELSE Idle
<1>1. /\ task[t].pc = "sync" /\ task' = [task EXCEPT ![t] = x]
      /\ Env /\ row' = row /\ undisturbed' = undisturbed
  BY DEF Sync, Step
<1>2. /\ Synced \in {"ref", "auth", "error"}
      /\ Synced = "auth" => credential = "refused"
  BY DEF Synced
<1>3. Sound(x) /\ Sees(t, x)
  BY <1>1, <1>2, TaskParts, IdleSound DEF After, Sound, Sees, TaskSet
<1>4. t \in undisturbed => Holds(t, x)
  <2> SUFFICES ASSUME t \in undisturbed PROVE Holds(t, x)
    OBVIOUS
  <2>1. Holds(t, task[t])
    BY StatusInvTasks
  <2>2. t \in Builders \/ t \in Operators
    BY <1>1, <2>1 DEF Tasks, Holds
  <2> QED
    BY <1>1, <1>2, <2>1, <2>2, TaskParts, IdleSound, DisjointAssumption
    DEF After, Holds, TaskSet, Finding
<1> HIDE DEF x
<1> QED
  BY <1>1, <1>3, <1>4, TaskMoves

LEMMA LoadKeeps ==
    ASSUME StatusInv, NEW t \in Tasks, Load(t)
    PROVE  StatusInv'
<1> DEFINE x == [task[t] EXCEPT !.pc = "save", !.seen = row]
<1>1. /\ task[t].pc = "load" /\ row # None /\ task' = [task EXCEPT ![t] = x]
      /\ Env /\ row' = row /\ undisturbed' = undisturbed
  BY DEF Load, Step
<1>2. Sound(x) /\ Sees(t, x)
  BY <1>1, TaskParts DEF Sound, Sees, TaskSet
<1>3. t \in undisturbed => Holds(t, x)
  BY <1>1, TaskParts, StatusInvTasks DEF Holds, TaskSet
<1> HIDE DEF x
<1> QED
  BY <1>1, <1>2, <1>3, TaskMoves

LEMMA GiveUpKeeps ==
    ASSUME StatusInv, NEW t \in Tasks, GiveUp(t)
    PROVE  StatusInv'
<1>1. /\ task' = [task EXCEPT ![t] = Idle]
      /\ Env /\ row' = row /\ undisturbed' = undisturbed
  BY DEF GiveUp
<1> QED
  BY <1>1, IdleSound, TaskMoves

(***************************************************************************)
(* Steps that change what others look at: nobody is undisturbed then.      *)
(***************************************************************************)
LEMMA InsertKeeps ==
    ASSUME StatusInv, NEW t \in Tasks, Insert(t)
    PROVE  StatusInv'
<1>1. /\ task' = [task EXCEPT ![t] = Idle] /\ Env /\ undisturbed' = {}
      /\ row = None /\ row' = [ref |-> task[t].ref, status |-> "active"]
      /\ task[t].pc = "load"
  BY DEF Insert, Step, Creating
<1>2. row' \in Rows
  BY <1>1, TaskParts DEF Sound, Rows, Statuses
<1>3. \A u \in Tasks : task[u].pc # "save"
  BY <1>1, StatusInvTasks DEF Sound
<1>4. task' \in [Tasks -> TaskSet] /\ \A u \in Tasks : task'[u] = Idle \/ task'[u] = task[u]
  BY <1>1, StatusInvTasks, IdleSound DEF Sound, TypeOK, TaskSet
<1>5. TypeOK'
  BY <1>1, <1>2, <1>4, StatusInvTasks DEF TypeOK, TaskSet, Env, remote
<1>6. \A u \in Tasks : /\ task'[u].pc # "save"
                       /\ task'[u].pc # "idle" => task'[u].ref \in Refs
  BY <1>3, <1>4, StatusInvTasks, IdleSound DEF Sound
<1> QED
  BY <1>1, <1>5, <1>6
  DEF StatusInv, TasksSound, FindingsHold, OperatorSees, Tasks

\* What a flush makes of a row that may not be the one that was loaded.
LEMMA FlushedRow ==
    ASSUME NEW new \in Rows, NEW seen \in Rows, NEW old \in Rows
    PROVE  /\ Flushed(new, seen, old) \in Rows
           /\ new.ref = seen.ref => Flushed(new, seen, old).ref = old.ref
           /\ seen.ref = old.ref => Flushed(new, seen, old).ref = new.ref
           /\ seen = old => Flushed(new, seen, old) = new
<1>1. /\ new.ref \in Refs /\ seen.ref \in Refs /\ old.ref \in Refs
      /\ new.status \in Statuses /\ seen.status \in Statuses /\ old.status \in Statuses
      /\ new = [ref |-> [type |-> new.ref.type, name |-> new.ref.name],
                status |-> new.status]
      /\ old.ref = [type |-> old.ref.type, name |-> old.ref.name]
  BY DEF Rows, Refs
<1>2. Flushed(new, seen, old) \in Rows
  BY <1>1 DEF Flushed, Column, Rows, Refs
<1> QED
  BY <1>1, <1>2 DEF Flushed, Column

LEMMA WantedRow ==
    ASSUME StatusInv, NEW t \in Tasks, task[t].pc = "save"
    PROVE  /\ task[t].seen \in Rows /\ row \in Rows /\ task[t].ref \in Refs
           /\ Wanted(t, task[t].seen) \in Rows
           /\ Wanted(t, task[t].seen).ref =
                IF t \in Operators /\ task[t].found = "ref" THEN task[t].ref
                ELSE task[t].seen.ref
<1>1. task[t].seen \in Rows /\ row \in Rows /\ task[t].ref \in Refs
  BY TaskParts DEF Sound
<1>2. NewStatus(t) # None => NewStatus(t) \in Statuses
  BY TaskParts DEF NewStatus, TaskSet, Statuses
<1> QED
  BY <1>1, <1>2 DEF Wanted, Rows

LEMMA SaveKeeps ==
    ASSUME StatusInv, NEW t \in Tasks, Save(t)
    PROVE  StatusInv'
<1>1. /\ task' = [task EXCEPT ![t] = Idle] /\ Env /\ undisturbed' = {}
      /\ task[t].pc = "save"
      /\ row' = Flushed(Wanted(t, task[t].seen), task[t].seen, row)
  BY DEF Save, Step
<1>2. row' \in Rows
  BY <1>1, WantedRow, FlushedRow
<1>3. task' \in [Tasks -> TaskSet]
      /\ \A u \in Tasks : task'[u] = IF u = t THEN Idle ELSE task[u]
  BY <1>1, StatusInvTasks, IdleSound DEF Sound, TypeOK, TaskSet
<1>4. TypeOK'
  BY <1>1, <1>2, <1>3, StatusInvTasks DEF TypeOK, TaskSet, Env, remote
<1>5. row # None /\ row' # None
  BY <1>1, <1>2, NoneAssumption, StatusInvTasks DEF Sound
<1>6. ASSUME SingleOperator, NEW o \in Operators, task'[o].pc = "save"
      PROVE  task'[o].seen.ref = row'.ref
  <2>1. o # t /\ task'[o] = task[o] /\ o \in Tasks
    BY <1>3, <1>6, IdleSound DEF Tasks
  <2>2. t \notin Operators
    BY <1>6, <2>1 DEF SingleOperator
  <2>3. row'.ref = row.ref
    BY <1>1, <2>2, WantedRow, FlushedRow
  <2> QED
    BY <1>6, <2>1, <2>3, StatusInvTasks DEF Sees
<1>7. \A u \in Tasks : /\ task'[u].pc # "idle" => task'[u].ref \in Refs
                       /\ task'[u].pc = "save" => task'[u].seen \in Rows
  BY <1>3, StatusInvTasks, IdleSound DEF Sound
<1> QED
  BY <1>1, <1>4, <1>5, <1>6, <1>7
  DEF StatusInv, TasksSound, FindingsHold, OperatorSees, SingleOperator

LEMMA ChangeKeeps ==
    ASSUME StatusInv, Change
    PROVE  StatusInv'
<1>1. TypeOK'
  <2>1. refs' \subseteq Refs
    BY StatusInvTasks, AskedAssumption DEF Change, TypeOK
  <2>2. changes' \in 0..MaxChanges
    BY StatusInvTasks, MaxChangesAssumption DEF Change, TypeOK
  <2> QED
    BY <2>1, <2>2, StatusInvTasks DEF Change, TypeOK
<1> QED
  BY <1>1
  DEF Change, StatusInv, TasksSound, FindingsHold, OperatorSees, SingleOperator

(***************************************************************************)
(* The theorems.                                                           *)
(***************************************************************************)
LEMMA StatusStep == StatusInv /\ [Next]_vars => StatusInv'
<1> SUFFICES ASSUME StatusInv, [Next]_vars PROVE StatusInv'
  OBVIOUS
<1>1. CASE Change
  BY <1>1, ChangeKeeps
<1>2. ASSUME NEW t \in Tasks, TaskStep(t) PROVE StatusInv'
  <2>1. ASSUME NEW r \in Asked,
               BeginCreate(t, r) \/ BeginUpdate(t, r) \/ BeginBuild(t, r)
        PROVE  StatusInv'
    BY <2>1, BeginKeeps
  <2> QED
    BY <1>2, <2>1, VerifyKeeps, UnboundKeeps, ProbeKeeps, LookupKeeps, SyncKeeps,
       InsertKeeps, LoadKeeps, SaveKeeps, GiveUpKeeps
    DEF TaskStep
<1>3. CASE UNCHANGED vars
  BY <1>3
  DEF vars, remote, StatusInv, TypeOK, TasksSound, FindingsHold, Finding, OperatorSees,
      SingleOperator
<1> QED
  BY <1>1, <1>2, <1>3 DEF Next

\* The invariant of the runs, for any number of tasks and refs.
THEOREM StatusInvariant == Spec => []StatusInv
<1>1. Init => StatusInv
  BY AskedAssumption, MaxChangesAssumption
  DEF Init, StatusInv, TypeOK, TasksSound, FindingsHold, OperatorSees, Idle, Tasks
<1> QED
  BY <1>1, StatusStep, PTL DEF Spec

\* As long as operators take turns, a default ref that changes becomes what the
\* operator asked for, whatever verifications and builds write at the same time
\* (update_default_ref, update_verification, record_sync_failure).
THEOREM DefaultFollowsOperator ==
    ASSUME SingleOperator
    PROVE  Spec => DefaultAsAsked
<1>1. StatusInv => [\A t \in Tasks : Save(t) /\ row'.ref # row.ref
                        => t \in Operators /\ row'.ref = task[t].ref]_vars
  <2> SUFFICES ASSUME StatusInv, NEW t \in Tasks, Save(t), row'.ref # row.ref
               PROVE  t \in Operators /\ row'.ref = task[t].ref
    OBVIOUS
  <2>1. /\ task[t].pc = "save"
        /\ row' = Flushed(Wanted(t, task[t].seen), task[t].seen, row)
    BY DEF Save, Step
  <2>2. t \in Operators /\ task[t].found = "ref"
    BY <2>1, WantedRow, FlushedRow
  <2>3. task[t].seen.ref = row.ref
    BY <2>1, <2>2, StatusInvTasks DEF Sees
  <2> QED
    BY <2>1, <2>2, <2>3, WantedRow, FlushedRow
<1> QED
  BY <1>1, StatusInvariant, PTL DEF DefaultAsAsked

\* What a task writes that nobody has disturbed is what there was to be found, for
\* verifications, failed builds of the default ref, and changes of it.
THEOREM UndisturbedTrue == Spec => UndisturbedTells
<1>1. StatusInv =>
        [\A t \in undisturbed :
            Save(t) /\ up /\ local =>
                IF t \in Operators
                THEN task[t].ref \in refs /\ credential # "refused" =>
                        row' = [ref |-> task[t].ref, status |-> "active"]
                ELSE t \in Verifiers \/ task[t].ref = row.ref =>
                        row' = [row EXCEPT !.status = Truth]]_vars
  <2> SUFFICES ASSUME StatusInv, NEW t \in undisturbed, Save(t), up, local
               PROVE  IF t \in Operators
                      THEN task[t].ref \in refs /\ credential # "refused" =>
                              row' = [ref |-> task[t].ref, status |-> "active"]
                      ELSE t \in Verifiers \/ task[t].ref = row.ref =>
                              row' = [row EXCEPT !.status = Truth]
    OBVIOUS
  <2>1. /\ task[t].pc = "save" /\ t \in Tasks
        /\ row' = Flushed(Wanted(t, task[t].seen), task[t].seen, row)
    BY StatusInvTasks DEF Save, Step, TypeOK
  <2>2. /\ task[t].seen = row /\ row # None /\ row \in Rows
        /\ task[t].found = Finding(task[t].ref)
        /\ t \in Verifiers => task[t].ref = row.ref
        /\ t \in Builders => task[t].found # "ref"
    BY <2>1, StatusInvTasks, WantedRow DEF Holds, Sound
  <2>3. row' = Wanted(t, row)
    BY <2>1, <2>2, WantedRow, FlushedRow
  <2>4. CASE t \in Operators
    BY <2>2, <2>3, <2>4, DisjointAssumption, NoneAssumption
    DEF Wanted, NewStatus, Finding, Statuses
  <2>5. CASE t \notin Operators /\ task[t].ref = row.ref
    <3>1. NewStatus(t) = Truth /\ Truth # None
      BY <2>1, <2>2, <2>5, NoneAssumption DEF NewStatus, Finding, Truth, Statuses, Tasks
    <3> QED
      BY <2>2, <2>3, <2>5, <3>1 DEF Wanted, Rows
  <2> QED
    BY <2>2, <2>4, <2>5
<1> QED
  BY <1>1, StatusInvariant, PTL DEF UndisturbedTells
===============================================================================
