------------------------------ MODULE SafetyProofs ------------------------------
(***************************************************************************)
(* Proofs of the other safety properties of the pipeline, from the common  *)
(* invariant SafeInv, and of the refinements of RefSlot and BuildOutcome.  *)
(***************************************************************************)
EXTENDS CoverageProofs, FiniteSetTheorems

(***************************************************************************)
(* How the status of a run moves.                                          *)
(***************************************************************************)
\* A worker releases a blocked run, starts a pending one or brings one to an end.
LEMMA WorkerMoves ==
  ASSUME TypeOK, WorkerNext, NEW r \in Runs, status'[r] # status[r]
  PROVE  \/ status[r] = "blocked" /\ status'[r] = "pending"
         \/ status[r] = "pending" /\ status'[r] = "running"
         \/ status'[r] \in {"succeeded", "failed"}
<1> USE DEF tableVars, dbVars, runVars
<1>1. ASSUME NEW w \in Workers, FailBuild(w) \/ Leaves(w)
      PROVE  status'[r] = "failed"
  <2>1. MarkFailed(w)
    BY <1>1, LeavesEffect DEF FailBuild, Leaves
  <2> QED BY <2>1, MarkFailedEffect DEF TypeOK, TablesTypeOK
<1>2. ASSUME NEW w \in Workers, MarkRunning(w)
      PROVE  status[r] = "pending" /\ status'[r] = "running"
  BY <1>2 DEF MarkRunning, TypeOK, TablesTypeOK
<1>3. ASSUME NEW w \in Workers, Commit(w) PROVE status'[r] = "succeeded"
  BY <1>3 DEF Commit, TypeOK, TablesTypeOK
<1>4. ASSUME NEW w \in Workers, ReleaseBlocked(w)
      PROVE  status[r] = "blocked" /\ status'[r] = "pending"
  BY <1>4 DEF ReleaseBlocked, Releasable, TypeOK, TablesTypeOK
<1>5. ASSUME NEW w \in Workers,
             \/ \E q \in Runs : Take(w, q)
             \/ Load(w) \/ Resolve(w) \/ BuildFails(w) \/ Rebuild(w)
             \/ DispatchPending(w) \/ NothingToDispatch(w)
             \/ SendNext(w) \/ SendNextFails(w) \/ CrashWorker(w) \/ Duplicate(w)
      PROVE  FALSE
  BY <1>5 DEF Take, Load, Resolve, BuildFails, Rebuild,
              DispatchPending, NothingToDispatch, SendNext, SendNextFails, CrashWorker,
              Duplicate
<1>6. ASSUME NEW w \in Workers, Reads(w) PROVE FALSE
  BY <1>6, ReadsEffect
<1> QED BY <1>1, <1>2, <1>3, <1>4, <1>5, <1>6 DEF WorkerNext, WorkerStep, Reads, Leaves

\* What no step of any process undoes.
LEMMA StatusMoves ==
  ASSUME TypeOK, Next, NEW r \in Runs
  PROVE  /\ Made(r) => Made(r)'
         /\ status[r] \in Started => status'[r] \in Started
         /\ status[r] \in Done => status'[r] \in Done
<1>1. CASE IntakeNext
  BY <1>1, IntakeOnRuns DEF Made, Started, Done
<1>2. CASE ManualNext
  BY <1>2, ManualOnRuns DEF Made, Started, Done
<1>3. CASE WorkerNext
  BY <1>3, WorkerMoves DEF Made, Started, Done
<1>4. CASE Environment
  BY <1>4 DEF Environment, Push, Age, dbVars, runVars, Made
<1> QED BY <1>1, <1>2, <1>3, <1>4 DEF Next

\* A request's run is the one it had, one that is pending now, or none.
LEMMA HandlerRun ==
  ASSUME TypeOK, Next, NEW h \in Handlers, handler'[h].run # None
  PROVE  handler'[h].run = handler[h].run \/ status'[handler'[h].run] = "pending"
<1> DEFINE Good == handler'[h].run = handler[h].run \/ status'[handler'[h].run] = "pending"
<1> USE DEF tableVars, dbVars, runVars
<1>1. ASSUME NEW g \in Handlers, NEW d \in Deliveries, Receive(g, d) PROVE Good
  BY <1>1, ReceiveEffect DEF TypeOK, IntakeTypeOK
<1>2. ASSUME NEW g \in Handlers, Decide(g) PROVE Good
  BY <1>2, DecideEffect, ThePendingType DEF TypeOK, IntakeTypeOK
<1>3. ASSUME NEW g \in Handlers, Respond(g) PROVE Good
  BY <1>3 DEF Respond, IdleHandler, TypeOK, IntakeTypeOK
<1>4. ASSUME NEW g \in Handlers, NEW pc, Goto(g, pc) PROVE Good
  BY <1>4 DEF Goto, TypeOK, IntakeTypeOK, HandlerState
<1>5. ASSUME NEW g \in Handlers, JoinPending(g) PROVE Good
  <2>1. CASE Dispatching(g, handler[g].run)
    BY <2>1 DEF Dispatching, IdleHandler, TypeOK, IntakeTypeOK
  <2> QED BY <1>3, <1>5, <2>1 DEF JoinPending
<1>6. ASSUME NEW g \in Handlers, CreatePending(g) PROVE Good
  <2>1. PICK r \in Runs : CreateRun(r, "pending", handler[g].d) /\ Dispatching(g, r)
    BY <1>6 DEF CreatePending
  <2>2. handler' = [handler EXCEPT ![g] = [IdleHandler EXCEPT !.pc = "claim", !.run = r]]
    BY <2>1 DEF Dispatching
  <2>3. status'[r] = "pending"
    BY <2>1 DEF CreateRun, TypeOK, TablesTypeOK
  <2> QED BY <2>2, <2>3 DEF IdleHandler, TypeOK, IntakeTypeOK
<1>7. ASSUME NEW g \in Handlers,
             \/ LoseInsert(g) \/ RecordOnly(g) \/ JoinCancelled(g) \/ CreateBlocked(g)
             \/ ReplaceBlocked(g) \/ JoinConcurrent(g) \/ Claim(g) \/ SendTask(g)
             \/ SendTaskFails(g) \/ Undo(g) \/ CrashHandler(g)
      PROVE  Good
  BY <1>3, <1>4, <1>7
     DEF LoseInsert, RecordOnly, JoinCancelled, CreateBlocked, ReplaceBlocked,
         JoinConcurrent, Claim, SendTask, SendTaskFails, Undo, CrashHandler
<1>8. ASSUME NEW g \in Handlers, ReadUndone(g) PROVE Good
  BY <1>8, ReadUndoneEffect DEF TypeOK, IntakeTypeOK, HandlerState
<1> QED BY <1>1, <1>2, <1>5, <1>6, <1>7, <1>8 DEF Next, IntakeNext, HandlerStep, Record

(***************************************************************************)
(* RunsInv.                                                                *)
(***************************************************************************)
\* What is in the queue was there before, or is being sent by somebody.
LEMMA QueueOrigin ==
  ASSUME TypeOK, Next, NEW r \in Runs, queue'[r] > 0
  PROVE  \/ queue[r] > 0
         \/ \E h \in Handlers : handler[h].run = r
         \/ \E w \in Workers : worker[w].run = r \/ worker[w].next = r
         \/ manual.pc = "send" /\ manual.run = r
<1> USE DEF tableVars, dbVars, runVars
<1>1. ASSUME NEW q, Send(q), q # r PROVE queue'[r] = queue[r]
  BY <1>1 DEF Send, TypeOK, TablesTypeOK
<1>2. ASSUME NEW h \in Handlers, SendTask(h) \/ SendTaskFails(h)
      PROVE  queue'[r] = queue[r] \/ handler[h].run = r
  BY <1>1, <1>2 DEF SendTask, SendTaskFails
<1>3. ASSUME NEW w \in Workers,
             SendNext(w) \/ SendNextFails(w) \/ CrashWorker(w) \/ Duplicate(w)
      PROVE  queue'[r] = queue[r] \/ worker[w].run = r \/ worker[w].next = r
  BY <1>1, <1>3 DEF SendNext, SendNextFails, CrashWorker, Duplicate
<1>4. ASSUME NEW w \in Workers, NEW q \in Runs, Take(w, q)
      PROVE  queue'[r] \in {queue[r], queue[r] - 1} /\ queue[r] \in Nat
  BY <1>4 DEF Take, TypeOK, TablesTypeOK
<1>5. CASE IntakeNext
  <2>1. ASSUME NEW h \in Handlers,
               \/ \E d \in Deliveries : Receive(h, d)
               \/ Decide(h) \/ Record(h) \/ Claim(h) \/ ReadUndone(h) \/ Undo(h)
               \/ CrashHandler(h)
        PROVE  UNCHANGED queue
    BY <2>1 DEF Receive, Decide, Record, LoseInsert, RecordOnly, JoinPending,
                JoinCancelled, CreateBlocked, ReplaceBlocked, CreatePending,
                JoinConcurrent, Recording, Claim, ReadUndone, Undo, CrashHandler
  <2> QED BY <1>2, <1>5, <2>1 DEF IntakeNext, HandlerStep
<1>6. CASE WorkerNext
  <2>1. ASSUME NEW w \in Workers,
               \/ Load(w) \/ MarkRunning(w) \/ Resolve(w) \/ BuildFails(w)
               \/ Rebuild(w) \/ Commit(w) \/ FailBuild(w)
               \/ DispatchPending(w) \/ ReleaseBlocked(w) \/ NothingToDispatch(w)
        PROVE  UNCHANGED queue
    BY <2>1 DEF Load, MarkRunning, Resolve, BuildFails, Rebuild, Commit,
                FailBuild, DispatchPending, ReleaseBlocked, NothingToDispatch
  <2>3. ASSUME NEW w \in Workers, Reads(w) \/ Leaves(w) PROVE UNCHANGED queue
    BY <2>3, ReadsEffect, LeavesEffect
  <2>2. ASSUME NEW w \in Workers, NEW q \in Runs, Take(w, q) PROVE queue[r] > 0
    BY <1>4, <2>2
  <2> QED BY <1>3, <1>6, <2>1, <2>2, <2>3 DEF WorkerNext, WorkerStep, Reads, Leaves
<1>7. CASE ManualNext
  BY <1>1, <1>7 DEF ManualNext, ManualStep, RequestSnapshot, SendManual,
                    SendManualFails, Cancel, CrashManual
<1>8. CASE Environment
  BY <1>8 DEF Environment, Push, Age
<1> QED BY <1>5, <1>6, <1>7, <1>8 DEF Next

\* A dispatch is recorded for a run that is pending now.
LEMMA DispatchOrigin ==
  ASSUME TypeOK, Next, NEW r \in Runs, dispatch'[r] # dispatch[r]
  PROVE  dispatch'[r] = "none" \/ status'[r] = "pending"
<1> USE DEF tableVars, dbVars, runVars
<1>1. CASE IntakeNext
  <2>1. ASSUME NEW h \in Handlers,
               \/ \E d \in Deliveries : Receive(h, d)
               \/ Decide(h) \/ LoseInsert(h) \/ RecordOnly(h) \/ JoinPending(h)
               \/ JoinCancelled(h) \/ CreateBlocked(h) \/ CreatePending(h)
               \/ JoinConcurrent(h) \/ SendTask(h) \/ SendTaskFails(h)
               \/ ReadUndone(h) \/ CrashHandler(h)
        PROVE  UNCHANGED dispatch
    BY <2>1 DEF Receive, Decide, LoseInsert, RecordOnly, JoinPending, JoinCancelled,
                CreateBlocked, CreatePending, CreateRun, JoinConcurrent, SendTask,
                SendTaskFails, ReadUndone, CrashHandler, Recording
  <2>2. ASSUME NEW h \in Handlers, ReplaceBlocked(h) \/ Undo(h)
        PROVE  dispatch'[r] = "none"
    BY <2>2 DEF ReplaceBlocked, Undo, TypeOK, TablesTypeOK
  <2>3. ASSUME NEW h \in Handlers, Claim(h) PROVE status'[r] = "pending"
    BY <2>3 DEF Claim, ClaimDispatch, DispatchDue, TypeOK, TablesTypeOK
  <2> QED BY <1>1, <2>1, <2>2, <2>3 DEF IntakeNext, HandlerStep, Record
<1>2. CASE WorkerNext
  <2>1. ASSUME NEW w \in Workers, DispatchPending(w) PROVE status'[r] = "pending"
    BY <2>1 DEF DispatchPending, ClaimDispatch, DispatchDue, TypeOK, TablesTypeOK
  <2>2. ASSUME NEW w \in Workers, ReleaseBlocked(w) PROVE status'[r] = "pending"
    BY <2>2 DEF ReleaseBlocked, TypeOK, TablesTypeOK
  <2>3. ASSUME NEW w \in Workers,
               \/ \E q \in Runs : Take(w, q)
               \/ Load(w) \/ MarkRunning(w) \/ Resolve(w) \/ BuildFails(w)
               \/ Rebuild(w) \/ Commit(w) \/ FailBuild(w)
               \/ NothingToDispatch(w) \/ SendNext(w) \/ SendNextFails(w)
               \/ CrashWorker(w) \/ Duplicate(w)
        PROVE  UNCHANGED dispatch
    BY <2>3 DEF Take, Load, MarkRunning, Resolve, BuildFails, Rebuild, Commit,
                FailBuild, NothingToDispatch, SendNext,
                SendNextFails, CrashWorker, Duplicate
  <2>4. ASSUME NEW w \in Workers, Reads(w) \/ Leaves(w) PROVE UNCHANGED dispatch
    BY <2>4, ReadsEffect, LeavesEffect
  <2> QED BY <1>2, <2>1, <2>2, <2>3, <2>4 DEF WorkerNext, WorkerStep, Reads, Leaves
<1>3. CASE ManualNext
  BY <1>3 DEF ManualNext, ManualStep, RequestSnapshot, CreateRun, SendManual,
              SendManualFails, Cancel, CrashManual
<1>4. CASE Environment
  BY <1>4 DEF Environment, Push, Age, TypeOK, TablesTypeOK
<1> QED BY <1>1, <1>2, <1>3, <1>4 DEF Next

\* Everything a worker may do.
WorkerAction(w) ==
    \/ WorkerStep(w)
    \/ BuildFails(w) \/ Rebuild(w) \/ SendNextFails(w) \/ CrashWorker(w) \/ Duplicate(w)

\* One worker acts at a time.
LEMMA OneWorkerMoves ==
  ASSUME TypeOK, WorkerNext
  PROVE  \E w \in Workers : /\ WorkerAction(w)
                            /\ \A v \in Workers \ {w} : worker'[v] = worker[v]
<1> USE DEF TypeOK, WorkerTypeOK
<1>1. PICK w \in Workers : WorkerAction(w)
  BY DEF WorkerNext, WorkerAction
<1>2. CASE NothingToDispatch(w) \/ SendNext(w) \/ CrashWorker(w) \/ Duplicate(w)
  BY <1>1, <1>2 DEF NothingToDispatch, SendNext, CrashWorker, Duplicate, Ack
<1>3. CASE Load(w) \/ MarkRunning(w) \/ SendNextFails(w)
  BY <1>1, <1>3 DEF Load, MarkRunning, SendNextFails, Step
<1>4. CASE \/ Resolve(w) \/ BuildFails(w) \/ Rebuild(w) \/ Commit(w)
           \/ FailBuild(w) \/ DispatchPending(w) \/ ReleaseBlocked(w)
  BY <1>1, <1>4 DEF Resolve, BuildFails, Rebuild, Commit, FailBuild,
                    DispatchPending, ReleaseBlocked
<1>5. CASE \E r \in Runs : Take(w, r)
  BY <1>1, <1>5, TakeEffect
<1>6. CASE Reads(w) \/ Leaves(w)
  BY <1>1, <1>6, ReadsEffect, LeavesEffect
<1> QED BY <1>1, <1>2, <1>3, <1>4, <1>5, <1>6 DEF WorkerAction, WorkerStep, Reads, Leaves

\* A worker that does nothing stays as it is.
LEMMA OtherWorker ==
  ASSUME TypeOK, WorkerNext, NEW v \in Workers, ~WorkerAction(v)
  PROVE  worker'[v] = worker[v]
  BY OneWorkerMoves

WorkerRunOK(w) ==
    /\ worker[w].run # None => Made(worker[w].run) /\ worker[w].pc # "idle"
    /\ worker[w].next # None =>
          Made(worker[w].next) /\ worker[w].pc \in {"send", "sendFail", "restore", "upsert"}
    /\ worker[w].seen # "absent" => worker[w].pc \in Failing \cup {"restore", "upsert"}
    /\ worker[w].seen \in Done => status[FailedRun(w)] \in Done
    /\ worker[w].pc \in {"dispatch", "send", "sendFail"} \/ worker[w].next # None =>
          status[worker[w].run] \in Done

\* What a worker knows of its runs stays true while others move.
LEMMA WorkerRunKept ==
  ASSUME TypeOK, Next, NEW w \in Workers, WorkerRunOK(w), worker'[w] = worker[w]
  PROVE  WorkerRunOK(w)'
<1>1. /\ worker[w].run # None => worker[w].run \in Runs
      /\ worker[w].next # None => worker[w].next \in Runs
      /\ worker[w].pc # "idle" => worker[w].run # None
      /\ worker[w].pc \in {"send", "sendFail"} => worker[w].next # None
  BY WorkerData DEF TypeOK, WorkerTypeOK, HasRuns
<1>2. FailedRun(w)' = FailedRun(w)
  BY DEF FailedRun, At
<1>3. worker[w].pc \in Failing \cup {"restore", "upsert"} => FailedRun(w) \in Runs
  BY <1>1 DEF Failing, FailedRun, At
<1> QED BY <1>1, <1>2, <1>3, StatusMoves DEF WorkerRunOK, Done

\* The status that mark_failed leaves behind.
LEMMA FailedIsDone ==
  ASSUME TypeOK, NEW w \in Workers, WorkerRunOK(w), MarkFailed(w),
         FailedRun(w) \in Runs
  PROVE  status'[FailedRun(w)] \in Done
  BY DEF MarkFailed, Marks, WorkerRunOK, Done, TypeOK, TablesTypeOK

LEMMA WorkerRunStep ==
  ASSUME TypeOK, LifecycleInv, RunsInv, StoredInv, Next, NEW w \in Workers
  PROVE  WorkerRunOK(w)'
<1> USE DEF tableVars, dbVars, runVars
<1>1. WorkerRunOK(w)
  BY DEF RunsInv, WorkerRunOK
<1>2. worker \in [Workers -> WorkerState] /\ status \in [Runs -> RunStatus]
  BY DEF TypeOK, WorkerTypeOK, TablesTypeOK
<1>3. worker[w].pc # "idle" =>
        /\ worker[w].run \in Runs /\ worker[w].run # None
        /\ status'[worker[w].run] \notin {"absent", "blocked"}
  BY <1>1, WorkerData, StatusMoves DEF WorkerRunOK, Made, TypeOK, WorkerTypeOK, HasRuns
<1>4. worker[w].next # None =>
        /\ worker[w].next \in Runs
        /\ status'[worker[w].next] \notin {"absent", "blocked"}
  BY <1>1, WorkerData, StatusMoves DEF WorkerRunOK, Made
<1>5. worker[w].pc \notin Failing \cup {"restore", "upsert"} => worker[w].seen = "absent"
  BY <1>1 DEF WorkerRunOK
<1>6. worker[w].pc \notin {"send", "sendFail", "restore", "upsert"} => worker[w].next = None
  BY <1>1 DEF WorkerRunOK
<1>7. ASSUME NEW v \in Workers, NEW r \in Runs, Take(v, r) PROVE WorkerRunOK(w)'
  <2>1. CASE worker' = worker
    BY <1>1, <2>1, WorkerRunKept
  <2>2. CASE v = w /\ worker' # worker
    <3> DEFINE b == IsWebhook(r) /\ status[r] = "running"
    <3>1. /\ worker' = [worker EXCEPT ![w] =
                 [IdleWorker EXCEPT !.pc = "load", !.run = r, !.allow = b]]
          /\ UNCHANGED status /\ queue[r] > 0
      BY <1>7, <2>2 DEF Take
    <3> HIDE DEF b
    <3>2. worker'[w] = [IdleWorker EXCEPT !.pc = "load", !.run = r, !.allow = b]
      BY <1>2, <3>1
    <3>3. Made(r)' /\ r # None
      BY <3>1, NoneAssumption DEF RunsInv, Made
    <3> QED BY <3>2, <3>3 DEF IdleWorker, WorkerRunOK, Done
  <2>3. CASE v # w
    BY <1>1, <1>2, <1>7, <2>3, TakeEffect, WorkerRunKept
  <2> QED BY <2>1, <2>2, <2>3
<1>8. ASSUME Load(w) \/ MarkRunning(w) PROVE WorkerRunOK(w)'
  BY <1>2, <1>3, <1>5, <1>6, <1>8 DEF Load, MarkRunning, At, Step, Made,
              WorkerRunOK, WorkerState, Failing, Done
<1>9. ASSUME Resolve(w) \/ BuildFails(w) \/ Rebuild(w) \/ Commit(w)
      PROVE  WorkerRunOK(w)'
  BY <1>2, <1>3, <1>5, <1>6, <1>9
     DEF Resolve, BuildFails, Rebuild, Commit, At, WorkerRunOK, WorkerState, Made,
         Failing, Done
<1>10. ASSUME Reads(w) PROVE WorkerRunOK(w)'
  <2>1. /\ UNCHANGED status /\ worker'[w].run = worker[w].run
        /\ worker'[w].next = worker[w].next
        /\ worker'[w].seen \in {worker[w].seen, status[FailedRun(w)]}
        /\ worker'[w].pc \in {worker[w].pc, "restore", "upsert"}
        /\ worker'[w].seen # worker[w].seen => worker'[w].pc \in Failing
    BY <1>10, ReadsEffect DEF dbVars, runVars, ReadStatus
  <2>2. FailedRun(w)' = FailedRun(w)
    BY <2>1 DEF FailedRun
  <2>3. worker[w].pc # "idle"
    BY <1>10, ReadsEffect
  <2> QED BY <1>1, <2>1, <2>2, <2>3, ReadsEffect, <1>10 DEF WorkerRunOK, Made, Failing
<1>11. ASSUME FailBuild(w) PROVE WorkerRunOK(w)'
  BY <1>2, <1>3, <1>6, <1>11
     DEF FailBuild, HasRead, At, WorkerRunOK, WorkerState, Made, Failing, Done
<1>12. ASSUME Leaves(w) PROVE WorkerRunOK(w)'
  <2>1. /\ worker'[w].next = None /\ worker'[w].seen = "absent"
        /\ worker'[w].run \in {worker[w].run, None}
        /\ worker'[w].pc = "dispatch" \/ (worker'[w].pc = "idle" /\ worker'[w].run = None)
        /\ worker'[w].pc = "dispatch" => worker'[w].run = worker[w].run /\ ~RollBackFailure(w)
        /\ worker[w].pc # "idle"
    BY <1>12, LeavesEffect
  <2>2. ASSUME worker'[w].pc = "dispatch" PROVE status'[worker[w].run] \in Done
    <3>1. CASE Finish(w)
      <4>1. worker[w].pc = "finish" /\ UNCHANGED status
        BY <3>1 DEF Finish, At, runVars
      <4> QED BY <1>2, <1>3, <4>1 DEF StoredInv, LifecycleInv, NotBuilt, RunStatus, Done
    <3>2. CASE FailTask(w) \/ CommitFailure(w)
      <4>1. worker[w].next = None
        BY <1>6, <1>12, <2>2, <3>2, LeavesEffect DEF FailTask, HasRead, At
      <4>2. MarkFailed(w) /\ FailedRun(w) = worker[w].run
        BY <1>12, <3>2, <4>1, LeavesEffect DEF FailedRun
      <4> QED BY <1>1, <1>3, <2>1, <4>2, FailedIsDone
    <3> QED BY <1>12, <2>1, <2>2, <3>1, <3>2 DEF Leaves
  <2> QED BY <1>3, <2>1, <2>2 DEF WorkerRunOK, Made, Done
<1>14. ASSUME DispatchPending(w) PROVE WorkerRunOK(w)'
  <2>1. PICK q \in Runs :
          /\ status[q] = "pending" /\ worker[w].pc = "dispatch" /\ UNCHANGED status
          /\ worker' = [worker EXCEPT ![w].pc = "send", ![w].next = q]
    BY <1>14 DEF DispatchPending, PendingToDispatch, WithStatus, At
  <2> QED BY <1>1, <1>2, <1>3, <1>5, <2>1 DEF WorkerRunOK, WorkerState, Failing, Done, Made
<1>15. ASSUME ReleaseBlocked(w) PROVE WorkerRunOK(w)'
  <2>1. PICK q \in Runs :
          /\ worker[w].pc = "dispatch" /\ status[q] = "blocked"
          /\ status' = [status EXCEPT ![q] = "pending"]
          /\ worker' = [worker EXCEPT ![w].pc = "send", ![w].next = q]
    BY <1>15 DEF ReleaseBlocked, Releasable, At
  <2>2. status'[q] = "pending" /\ status'[worker[w].run] \in Done
    BY <1>1, <1>2, <1>3, <2>1 DEF WorkerRunOK, Done
  <2> QED BY <1>2, <1>3, <1>5, <2>1, <2>2 DEF WorkerRunOK, WorkerState, Failing, Done, Made
<1>16. ASSUME SendNextFails(w) PROVE WorkerRunOK(w)'
  BY <1>1, <1>2, <1>3, <1>4, <1>5, <1>16
     DEF SendNextFails, At, Step, Made, WorkerRunOK, WorkerState, Failing, Done
<1>17. ASSUME NothingToDispatch(w) \/ SendNext(w) \/ CrashWorker(w)
       PROVE  WorkerRunOK(w)'
  <2>1. worker'[w] = IdleWorker
    BY <1>2, <1>17 DEF NothingToDispatch, SendNext, CrashWorker, Ack
  <2> QED BY <2>1 DEF IdleWorker, WorkerRunOK, Done
<1>18. ASSUME Duplicate(w) \/ UNCHANGED worker PROVE WorkerRunOK(w)'
  BY <1>1, <1>18, WorkerRunKept DEF Duplicate
<1>19. ASSUME WorkerNext, ~WorkerAction(w) PROVE WorkerRunOK(w)'
  BY <1>1, <1>19, OtherWorker, WorkerRunKept
<1> QED BY <1>1, <1>7, <1>8, <1>9, <1>10, <1>11, <1>12, <1>14, <1>15, <1>16, <1>17,
           <1>18, <1>19
        DEF Next, WorkerAction, WorkerStep, Reads, Leaves

\* The run of a manual request exists, has no trigger event and keeps to that.
LEMMA ManualRun ==
  ASSUME TypeOK, RunsInv, Next, manual'.pc # "idle"
  PROVE  /\ manual'.run \in Runs
         /\ Made(manual.run)' /\ trigger'[manual'.run] = None
<1> USE DEF tableVars, dbVars, runVars
<1>1. manual.pc # "idle" => /\ manual.run \in Runs
                            /\ status'[manual.run] \notin {"absent", "blocked"}
                            /\ trigger'[manual.run] = None
  <2>1. ASSUME manual.pc # "idle"
        PROVE  /\ manual.run \in Runs /\ Made(manual.run) /\ trigger[manual.run] = None
    BY <2>1 DEF RunsInv, TypeOK, ManualTypeOK
  <2>2. ASSUME NEW r \in Runs, Made(r) PROVE trigger'[r] = trigger[r]
    BY <2>2, IntakeOnRuns, ManualOnRuns, WorkerOnRuns
       DEF Next, Environment, Push, Age, Made
  <2> QED BY <2>1, <2>2, StatusMoves DEF Made
<1>2. CASE manual'.run = manual.run /\ manual.pc # "idle"
  BY <1>1, <1>2 DEF Made
<1>3. CASE RequestSnapshot
  <2>1. CASE UNCHANGED manual
    BY <1>1, <2>1 DEF Made
  <2>2. CASE ~UNCHANGED manual
    <3>1. PICK r \in Runs : /\ CreateRun(r, "pending", None)
                            /\ manual' = [pc |-> "send", run |-> r]
      BY <1>3, <2>2 DEF RequestSnapshot
    <3>2. status'[r] = "pending" /\ trigger'[r] = None
      BY <3>1 DEF CreateRun, TypeOK, TablesTypeOK
    <3> QED BY <3>1, <3>2 DEF Made
  <2> QED BY <2>1, <2>2
<1>4. CASE SendManual \/ Cancel \/ CrashManual
  BY <1>4 DEF SendManual, Cancel, CrashManual, IdleManual
<1>5. CASE SendManualFails
  BY <1>2, <1>5 DEF SendManualFails, TypeOK, ManualTypeOK
<1>6. CASE UNCHANGED manual
  BY <1>2, <1>6
<1> QED BY <1>3, <1>4, <1>5, <1>6 DEF Next, ManualNext, ManualStep

LEMMA RunsStep ==
  ASSUME TypeOK, LifecycleInv, RunsInv, StoredInv, Next
  PROVE  RunsInv'
<1>1. ASSUME NEW r \in Runs, queue'[r] > 0 PROVE Made(r)'
  <2>1. Made(r)
    BY <1>1, QueueOrigin, NoneAssumption DEF RunsInv
  <2> QED BY <2>1, StatusMoves
<1>2. ASSUME NEW r \in Runs, ~Made(r)' PROVE dispatch'[r] = "none"
  <2>1. dispatch[r] = "none"
    BY <1>2, StatusMoves DEF RunsInv
  <2> QED BY <1>2, <2>1, DispatchOrigin DEF Made
<1>3. ASSUME NEW h \in Handlers, handler'[h].run # None PROVE Made(handler[h].run)'
  <2>1. CASE handler'[h].run = handler[h].run
    <3>1. handler[h].run \in Runs /\ Made(handler[h].run)
      BY <1>3, <2>1, HandlerData DEF RunsInv
    <3>2. status'[handler[h].run] \notin {"absent", "blocked"}
      BY <3>1, StatusMoves DEF Made
    <3> QED BY <2>1, <3>2 DEF Made
  <2>2. CASE status'[handler'[h].run] = "pending"
    BY <2>2 DEF Made
  <2> QED BY <1>3, <2>1, <2>2, HandlerRun
<1>4. \A w \in Workers : WorkerRunOK(w)'
  BY WorkerRunStep
<1>5. manual'.pc # "idle" => /\ manual'.run # None
                             /\ Made(manual.run)' /\ trigger'[manual'.run] = None
  BY ManualRun, NoneAssumption
<1> QED BY <1>1, <1>2, <1>3, <1>4, <1>5 DEF RunsInv, WorkerRunOK

(***************************************************************************)
(* StoredInv: succeeded runs have snapshots, of commits that were pushed.  *)
(***************************************************************************)
\* Only the final transaction of a build stores a snapshot, once.
LEMMA SnapshotStored ==
  ASSUME TypeOK, Next, NEW r \in Runs, snapshot'[r] # snapshot[r]
  PROVE  /\ snapshot[r] = None /\ status'[r] = "succeeded"
         /\ \E w \in Workers : /\ Commit(w)
                               /\ worker[w].run = r /\ snapshot'[r] = worker[w].commit
<1> USE DEF tableVars, dbVars, runVars
<1>1. ASSUME NEW w \in Workers, Commit(w)
      PROVE  /\ snapshot[r] = None /\ status'[r] = "succeeded"
             /\ worker[w].run = r /\ snapshot'[r] = worker[w].commit
  BY <1>1 DEF Commit, TypeOK, TablesTypeOK
<1>2. ASSUME NEW w \in Workers, WorkerAction(w), ~Commit(w) PROVE FALSE
  BY <1>2 DEF WorkerAction, WorkerStep, Take, Load, MarkRunning, Resolve, BuildFails,
              Rebuild, ReadEvent, ReadStatus, FailBuild, FailTask, FailEvent, ReadCursor,
              CommitFailure, RollBackFailure, Finish, DispatchPending,
              ReleaseBlocked, NothingToDispatch, SendNext, SendNextFails,
              CrashWorker, Duplicate
<1>3. CASE Environment
  BY <1>3 DEF Environment, Push, Age
<1> QED BY <1>1, <1>2, <1>3, IntakeOnRuns, ManualOnRuns DEF Next, WorkerNext, WorkerAction

\* A run succeeds with a snapshot stored.
LEMMA SucceededStored ==
  ASSUME TypeOK, LifecycleInv, Next, NEW r \in Runs, status'[r] = "succeeded",
         status[r] # "succeeded"
  PROVE  snapshot'[r] # None
<1> USE DEF tableVars, dbVars, runVars
<1>1. ASSUME NEW w \in Workers, Commit(w) PROVE snapshot'[r] # None
  <2>1. worker[w].commit \in Nat
    BY <1>1 DEF Commit, At, LifecycleInv
  <2> QED BY <1>1, <2>1, NoneAssumption DEF Commit, TypeOK, TablesTypeOK
<1>2. ASSUME NEW w \in Workers, FailBuild(w) \/ Leaves(w) PROVE FALSE
  <2>1. MarkFailed(w)
    BY <1>2, LeavesEffect DEF FailBuild, Leaves
  <2> QED BY <2>1, MarkFailedEffect DEF TypeOK, TablesTypeOK
<1>3. ASSUME NEW w \in Workers, WorkerAction(w), ~Commit(w), ~(FailBuild(w) \/ Leaves(w))
      PROVE  FALSE
  <2>1. CASE MarkRunning(w)
    BY <2>1 DEF MarkRunning, TypeOK, TablesTypeOK
  <2>2. CASE ReleaseBlocked(w)
    BY <2>2 DEF ReleaseBlocked, TypeOK, TablesTypeOK
  <2>3. CASE Reads(w)
    BY <2>3, ReadsEffect
  <2> QED BY <1>3, <2>1, <2>2, <2>3
          DEF WorkerAction, WorkerStep, Take, Load, Resolve, BuildFails, Rebuild,
              Reads, Leaves, DispatchPending, NothingToDispatch, SendNext,
              SendNextFails, CrashWorker, Duplicate
<1>4. CASE Environment
  BY <1>4 DEF Environment, Push, Age
<1> QED BY <1>1, <1>2, <1>3, <1>4, IntakeOnRuns, ManualOnRuns
        DEF Next, WorkerNext, WorkerAction

\* Who has resolved a commit or is done building has just done so, or had before.
LEMMA BuiltOrigin ==
  ASSUME TypeOK, Next, NEW w \in Workers, worker'[w].pc \in {"commit", "finish"}
  PROVE  \/ /\ worker'[w].pc = worker[w].pc /\ worker'[w].run = worker[w].run
            /\ worker'[w].commit = worker[w].commit
         \/ worker'[w].pc = "commit" /\ worker'[w].commit = remote
         \/ worker'[w].pc = "finish" /\ Commit(w)
         \/ /\ worker'[w].pc = "finish" /\ UNCHANGED snapshot
            /\ worker'[w].run = worker[w].run /\ status[worker[w].run] = "succeeded"
            /\ worker[w].pc = "load"
<1> USE DEF tableVars, dbVars, runVars
<1> DEFINE Good == \/ /\ worker'[w].pc = worker[w].pc /\ worker'[w].run = worker[w].run
                      /\ worker'[w].commit = worker[w].commit
                   \/ worker'[w].pc = "commit" /\ worker'[w].commit = remote
                   \/ worker'[w].pc = "finish" /\ Commit(w)
                   \/ /\ worker'[w].pc = "finish" /\ UNCHANGED snapshot
                      /\ worker'[w].run = worker[w].run
                      /\ status[worker[w].run] = "succeeded"
                      /\ worker[w].pc = "load"
<1>1. worker \in [Workers -> WorkerState]
  BY DEF TypeOK, WorkerTypeOK
<1>2. ASSUME Load(w) PROVE Good
  BY <1>1, <1>2 DEF Load, At, Step, WorkerState
<1>3. ASSUME Resolve(w) \/ Commit(w) PROVE Good
  BY <1>1, <1>3 DEF Resolve, Commit, WorkerState
<1>4. ASSUME Reads(w) \/ Leaves(w) PROVE Good
  BY <1>4, ReadsEffect, LeavesEffect
<1>5. ASSUME NEW r \in Runs, Take(w, r) PROVE Good
  BY <1>1, <1>5, TakeEffect
<1>6. ASSUME \/ MarkRunning(w) \/ BuildFails(w) \/ Rebuild(w) \/ FailBuild(w)
             \/ DispatchPending(w) \/ ReleaseBlocked(w) \/ SendNextFails(w)
      PROVE  FALSE
  BY <1>1, <1>6 DEF MarkRunning, BuildFails, Rebuild, FailBuild,
                    DispatchPending, ReleaseBlocked, SendNextFails, Step, WorkerState
<1>7. ASSUME NothingToDispatch(w) \/ SendNext(w) \/ CrashWorker(w)
      PROVE  FALSE
  BY <1>1, <1>7 DEF NothingToDispatch, SendNext, CrashWorker, Ack, IdleWorker
<1>8. ASSUME Duplicate(w) \/ UNCHANGED worker PROVE Good
  BY <1>8 DEF Duplicate
<1> QED BY <1>2, <1>3, <1>4, <1>5, <1>6, <1>7, <1>8, OtherWorker
        DEF Next, WorkerAction, WorkerStep, Reads, Leaves

LEMMA StoredStep ==
  ASSUME TypeOK, LifecycleInv, StoredInv, Next
  PROVE  StoredInv'
<1>1. remote' <= MaxHead /\ remote \in Nat
  BY IntakeOnRuns, ManualOnRuns, WorkerOnRuns, BoundsAssumption
     DEF Next, Environment, Push, Age, StoredInv, TypeOK, TablesTypeOK
<1>6. remote \in Nat /\ remote' \in Nat /\ remote <= remote'
  BY IntakeOnRuns, ManualOnRuns, WorkerOnRuns
     DEF Next, Environment, Push, Age, TypeOK, TablesTypeOK
<1>2. ASSUME NEW r \in Runs, snapshot'[r] # None PROVE snapshot'[r] <= remote'
  <2>1. CASE snapshot'[r] = snapshot[r]
    BY <1>2, <1>6, <2>1 DEF StoredInv, TypeOK, TablesTypeOK
  <2>2. CASE snapshot'[r] # snapshot[r]
    <3>1. PICK w \in Workers : Commit(w) /\ snapshot'[r] = worker[w].commit
      BY <2>2, SnapshotStored
    <3>2. worker[w].pc = "commit"
      BY <3>1 DEF Commit, At
    <3> QED BY <1>6, <3>1, <3>2 DEF StoredInv, LifecycleInv
  <2> QED BY <2>1, <2>2
<1>3. ASSUME NEW w \in Workers, worker'[w].pc = "commit" PROVE worker'[w].commit <= remote'
  BY <1>3, <1>6, BuiltOrigin DEF StoredInv, LifecycleInv
<1>4. ASSUME NEW r \in Runs, status'[r] = "succeeded" PROVE snapshot'[r] # None
  <2>1. CASE status[r] = "succeeded"
    BY <2>1, SnapshotStored DEF StoredInv
  <2> QED BY <1>4, <2>1, SucceededStored
<1>5. ASSUME NEW w \in Workers, worker'[w].pc = "finish"
      PROVE  snapshot'[worker'[w].run] # None
  <2>1. CASE worker'[w].pc = worker[w].pc /\ worker'[w].run = worker[w].run
    <3>1. worker[w].run \in Runs /\ snapshot[worker[w].run] # None
      BY <1>5, <2>1, WorkerData DEF StoredInv, TypeOK, WorkerTypeOK, HasRuns
    <3> QED BY <2>1, <3>1, SnapshotStored
  <2>2. CASE Commit(w)
    <3>1. /\ worker[w].commit \in Nat /\ worker[w].run \in Runs
          /\ worker' = [worker EXCEPT ![w].pc = "finish", ![w].commit = None]
      BY <2>2 DEF Commit, At, LifecycleInv, Building
    <3>2. worker'[w].run = worker[w].run
      BY <3>1 DEF TypeOK, WorkerTypeOK, WorkerState
    <3>3. snapshot'[worker[w].run] # None
      BY <2>2, <3>1, NoneAssumption DEF Commit, TypeOK, TablesTypeOK
    <3> QED BY <3>2, <3>3
  <2>3. CASE /\ UNCHANGED snapshot /\ worker'[w].run = worker[w].run
             /\ status[worker[w].run] = "succeeded" /\ worker[w].pc = "load"
    BY <2>3, WorkerData DEF StoredInv, TypeOK, WorkerTypeOK, HasRuns
  <2> QED BY <1>5, <2>1, <2>2, <2>3, BuiltOrigin
<1> QED BY <1>1, <1>2, <1>3, <1>4, <1>5 DEF StoredInv

(***************************************************************************)
(* OwnersInv: one worker has started a run.                                *)
(***************************************************************************)
\* Who owns a run has owned it, or has just started it while it was pending.
LEMMA OwnerOrigin ==
  ASSUME TypeOK, Next, NEW w \in Workers, Owns(w)'
  PROVE  /\ worker'[w].run = worker[w].run
         /\ \/ Owns(w)
            \/ MarkRunning(w) /\ status[worker[w].run] = "pending"
<1> DEFINE Good == /\ worker'[w].run = worker[w].run
                   /\ \/ Owns(w)
                      \/ MarkRunning(w) /\ status[worker[w].run] = "pending"
<1> USE DEF Owns, Building
<1>1. worker \in [Workers -> WorkerState]
  BY DEF TypeOK, WorkerTypeOK
<1>2. ASSUME NEW r \in Runs, Take(w, r) PROVE Good
  <2>1. CASE worker' = worker
    BY <2>1
  <2>2. CASE worker' # worker
    <3> DEFINE b == IsWebhook(r) /\ status[r] = "running"
    <3>1. worker' = [worker EXCEPT ![w] =
              [IdleWorker EXCEPT !.pc = "load", !.run = r, !.allow = b]]
      BY <1>2, <2>2 DEF Take
    <3> HIDE DEF b
    <3>2. worker'[w] = [IdleWorker EXCEPT !.pc = "load", !.run = r, !.allow = b]
      BY <1>1, <3>1
    <3> QED BY <3>2 DEF IdleWorker
  <2> QED BY <2>1, <2>2
<1>3. ASSUME Load(w) PROVE Good
  BY <1>1, <1>3 DEF Load, At, Step, WorkerState
<1>4. ASSUME MarkRunning(w) PROVE Good
  BY <1>1, <1>4 DEF MarkRunning, At, Step, WorkerState
<1>5. ASSUME Resolve(w) \/ BuildFails(w) \/ Rebuild(w) \/ Commit(w) PROVE Good
  BY <1>1, <1>5 DEF Resolve, BuildFails, Rebuild, Commit, At, WorkerState
<1>6. ASSUME Reads(w) \/ Leaves(w) PROVE FALSE
  BY <1>6, ReadsEffect, LeavesEffect
<1>7. ASSUME FailBuild(w) \/ DispatchPending(w) \/ ReleaseBlocked(w) \/ SendNextFails(w)
      PROVE  FALSE
  BY <1>1, <1>7 DEF FailBuild, DispatchPending, ReleaseBlocked, SendNextFails, Step,
                    WorkerState
<1>8. ASSUME NothingToDispatch(w) \/ SendNext(w) \/ CrashWorker(w)
      PROVE  FALSE
  BY <1>1, <1>8 DEF NothingToDispatch, SendNext, CrashWorker, Ack, IdleWorker
<1>9. ASSUME Duplicate(w) \/ UNCHANGED worker PROVE Good
  BY <1>9 DEF Duplicate
<1>10. ASSUME WorkerNext, ~WorkerAction(w) PROVE Good
  BY <1>10, OtherWorker
<1> QED BY <1>2, <1>3, <1>4, <1>5, <1>6, <1>7, <1>8, <1>9, <1>10
        DEF Next, WorkerAction, WorkerStep, Reads, Leaves

\* While one worker starts a run nobody else has started it.
LEMMA OwnersStep ==
  ASSUME TypeOK, OwnersInv, Next
  PROVE  OwnersInv'
<1>1. ASSUME NEW w \in Workers, Owns(w)'
      PROVE  /\ worker[w].run \in Runs
             /\ status'[worker[w].run] \in Started
             /\ ~Owns(w) => status[worker[w].run] = "pending" /\ MarkRunning(w)
  <2>1. worker[w].run \in Runs
    BY <1>1, OwnerOrigin, WorkerData
       DEF Owns, Building, MarkRunning, At, TypeOK, WorkerTypeOK, HasRuns
  <2>2. CASE Owns(w)
    BY <2>1, <2>2, StatusMoves DEF OwnersInv
  <2>3. CASE MarkRunning(w) /\ status[worker[w].run] = "pending"
    BY <2>1, <2>3 DEF MarkRunning, TypeOK, TablesTypeOK, Started
  <2> QED BY <1>1, <2>1, <2>2, <2>3, OwnerOrigin
<1>2. ASSUME NEW w \in Workers, Owns(w)' PROVE status'[worker'[w].run] \in Started
  BY <1>1, <1>2, OwnerOrigin
<1>3. ASSUME NEW v \in Workers, NEW w \in Workers, Owns(v)', Owns(w)',
             worker'[v].run = worker'[w].run
      PROVE  v = w
  <2>1. worker[v].run = worker[w].run
    BY <1>3, OwnerOrigin
  <2>2. CASE Owns(v) /\ Owns(w)
    BY <2>1, <2>2 DEF OwnersInv
  <2>3. CASE (Owns(v) /\ ~Owns(w)) \/ (~Owns(v) /\ Owns(w))
    BY <1>1, <1>3, <2>1, <2>3 DEF OwnersInv, Started
  <2>4. CASE ~Owns(v) /\ ~Owns(w)
    <3>1. MarkRunning(v) /\ MarkRunning(w)
      BY <1>1, <1>3, <2>4
    <3>2. worker'[v] = [worker[v] EXCEPT !.pc = "resolve"]
          \/ worker'[v] = [worker[v] EXCEPT !.pc = "fail"]
      BY <3>1 DEF MarkRunning, Step, TypeOK, WorkerTypeOK
    <3>3. worker[v].pc = "mark" /\ worker[v] \in WorkerState
      BY <3>1, WorkerData DEF MarkRunning, At
    <3>4. worker'[v] # worker[v]
      BY <3>2, <3>3 DEF WorkerState
    <3>5. v # w => worker'[v] = worker[v]
      BY <3>1 DEF MarkRunning, Step, TypeOK, WorkerTypeOK
    <3> QED BY <3>4, <3>5
  <2> QED BY <2>2, <2>3, <2>4
<1> QED BY <1>2, <1>3 DEF OwnersInv

(***************************************************************************)
(* ManualInv: only a run without a trigger event is taken back.            *)
(***************************************************************************)
LEMMA ManualStepInv ==
  ASSUME TypeOK, RunsInv, ManualInv, Next
  PROVE  ManualInv'
<1> USE DEF dbVars, runVars
<1>1. ASSUME NEW r \in Runs, status'[r] = "cancelled", status[r] # "cancelled"
      PROVE  r = manual.run /\ manual.pc = "cancel"
  <2>1. ManualNext
    BY <1>1, IntakeOnRuns, WorkerMoves DEF Next, Environment, Push, Age
  <2> QED BY <1>1, <2>1 DEF ManualNext, ManualStep, RequestSnapshot, CreateRun, SendManual,
                            SendManualFails, Cancel, CrashManual, TypeOK, TablesTypeOK
<1>2. ASSUME NEW r \in Runs, Made(r) PROVE trigger'[r] = trigger[r]
  BY <1>2, IntakeOnRuns, ManualOnRuns, WorkerOnRuns DEF Next, Environment, Push, Age, Made
<1>3. ASSUME NEW r \in Runs, status'[r] = "cancelled" PROVE Made(r) /\ trigger[r] = None
  <2>1. CASE status[r] = "cancelled"
    BY <2>1 DEF ManualInv, Made
  <2>2. CASE status[r] # "cancelled"
    BY <1>1, <1>3, <2>2 DEF RunsInv
  <2> QED BY <2>1, <2>2
<1> QED BY <1>2, <1>3 DEF ManualInv

(***************************************************************************)
(* MessagesInv: one message of a run at a time.                            *)
(***************************************************************************)
\* Incidents are never forgotten.
LEMMA IncidentsGrow ==
  ASSUME TypeOK, Next
  PROVE  incidents.kinds \subseteq incidents'.kinds
<1> USE DEF tableVars, dbVars, runVars
<1>1. ASSUME NEW kinds, Meets(kinds) PROVE incidents.kinds \subseteq incidents'.kinds
  BY <1>1 DEF Meets
<1>2. ASSUME NEW h \in Handlers, NEW d \in Deliveries, Receive(h, d)
      PROVE  incidents.kinds \subseteq incidents'.kinds
  BY <1>1, <1>2 DEF Receive
<1>3. ASSUME NEW h \in Handlers, SendTaskFails(h) \/ CrashHandler(h)
      PROVE  incidents.kinds \subseteq incidents'.kinds
  BY <1>1, <1>3 DEF SendTaskFails, CrashHandler, Happens
<1>4. ASSUME NEW h \in Handlers,
             \/ Decide(h) \/ Record(h) \/ Claim(h) \/ SendTask(h)
             \/ ReadUndone(h) \/ Undo(h)
      PROVE  UNCHANGED incidents
  BY <1>4 DEF Decide, Record, LoseInsert, RecordOnly, JoinPending, JoinCancelled,
              CreateBlocked, ReplaceBlocked, CreatePending, JoinConcurrent, Recording,
              Claim, SendTask, ReadUndone, Undo
<1>5. ASSUME NEW w \in Workers,
             \/ BuildFails(w) \/ Rebuild(w) \/ SendNextFails(w) \/ CrashWorker(w)
             \/ Duplicate(w)
      PROVE  incidents.kinds \subseteq incidents'.kinds
  BY <1>1, <1>5 DEF BuildFails, Rebuild, SendNextFails, CrashWorker, Duplicate, Happens
<1>6. ASSUME NEW w \in Workers, WorkerStep(w)
      PROVE  incidents.kinds \subseteq incidents'.kinds
  <2>1. CASE Reads(w) \/ Leaves(w)
    BY <2>1, ReadsEffect, LeavesEffect
  <2>2. CASE ~Reads(w) /\ ~Leaves(w)
    BY <1>6, <2>2 DEF WorkerStep, Reads, Leaves, Take, Load, MarkRunning, Resolve, Commit,
                      FailBuild, DispatchPending, ReleaseBlocked, NothingToDispatch, SendNext
  <2> QED BY <2>1, <2>2
<1>7. CASE ManualNext
  BY <1>1, <1>7 DEF ManualNext, ManualStep, RequestSnapshot, SendManual, SendManualFails,
                    Cancel, CrashManual, Happens
<1>8. CASE Environment
  BY <1>1, <1>8 DEF Environment, Push, Age, Happens
<1> QED BY <1>2, <1>3, <1>4, <1>5, <1>6, <1>7, <1>8
        DEF Next, IntakeNext, HandlerStep, WorkerNext

Calm == Never({"sendError", "duplicate", "delay"})

\* In a calm step nothing is sent in vain, twice or late.
LEMMA CalmStep ==
  ASSUME TypeOK, Next, Calm'
  PROVE  /\ Calm
         /\ \A h \in Handlers : ~SendTaskFails(h)
         /\ \A w \in Workers : ~SendNextFails(w) /\ ~Duplicate(w)
         /\ \A r \in Runs : ~Age(r)
         /\ ~SendManualFails
<1>1. Calm
  BY IncidentsGrow DEF Calm, Never
<1>2. ~Happens("sendError") /\ ~Happens("duplicate") /\ ~Happens("delay")
  BY DEF Happens, Meets, Calm, Never
<1> QED BY <1>1, <1>2 DEF SendTaskFails, SendNextFails, Duplicate, Age, SendManualFails

\* Where nothing is added, there is still one message.
LEMMA NoneAdded ==
  ASSUME NEW r \in Runs, OneMessage(r), queue'[r] \in Nat, queue[r] \in Nat,
         queue'[r] <= queue[r],
         \A h \in Handlers : Sends(h, r)' => Sends(h, r),
         \A w \in Workers : (Works(w, r)' => Works(w, r)) /\ (Passes(w, r)' => Passes(w, r))
  PROVE  OneMessage(r)' /\ (Taken(r)' => Taken(r))
<1>1. queue'[r] > 0 => queue[r] > 0
  OBVIOUS
<1>2. Taken(r)' => Taken(r)
  BY <1>1 DEF Taken
<1>3. queue'[r] <= 1
  BY DEF OneMessage
<1>4. OneMessage(r)'
  BY <1>1, <1>3 DEF OneMessage
<1> QED BY <1>2, <1>4

\* A handler that is about to send has been, or has just claimed the dispatch.
LEMMA SendsOrigin ==
  ASSUME TypeOK, Next, Calm', NEW h \in Handlers, NEW r \in Runs, Sends(h, r)'
  PROVE  \/ Sends(h, r) /\ ~SendTask(h)
         \/ Claim(h) /\ handler[h].run = r /\ ClaimDispatch(r)
<1> DEFINE Good == \/ Sends(h, r) /\ ~SendTask(h)
                   \/ Claim(h) /\ handler[h].run = r /\ ClaimDispatch(r)
<1>1. ASSUME NEW g \in Handlers, Respond(g)
      PROVE  g # h /\ handler'[h] = handler[h]
  BY <1>1 DEF Sends, Respond, IdleHandler, TypeOK, IntakeTypeOK
<1>2. ASSUME NEW g \in Handlers, NEW q, Dispatching(g, q)
      PROVE  g # h /\ handler'[h] = handler[h]
  BY <1>2 DEF Sends, Dispatching, IdleHandler, TypeOK, IntakeTypeOK
<1>3. ASSUME NEW g \in Handlers, NEW d \in Deliveries, Receive(g, d)
      PROVE  g # h /\ handler'[h] = handler[h]
  BY <1>3, ReceiveEffect DEF Sends, TypeOK, IntakeTypeOK
<1>4. ASSUME NEW g \in Handlers, Decide(g) PROVE g # h /\ handler'[h] = handler[h]
  BY <1>4, DecideEffect DEF Sends, TypeOK, IntakeTypeOK
<1>5. ASSUME NEW g \in Handlers, Record(g) PROVE g # h /\ handler'[h] = handler[h]
  BY <1>1, <1>2, <1>5
     DEF Record, LoseInsert, RecordOnly, JoinPending, JoinCancelled, CreateBlocked,
         ReplaceBlocked, CreatePending, JoinConcurrent
<1>6. ASSUME NEW g \in Handlers,
             SendTask(g) \/ ReadUndone(g) \/ Undo(g) \/ CrashHandler(g)
      PROVE  g # h /\ handler'[h] = handler[h]
  <2>1. CASE ReadUndone(g)
    BY <2>1, ReadUndoneEffect DEF Sends, TypeOK, IntakeTypeOK, HandlerState
  <2> QED BY <1>1, <1>6, <2>1 DEF SendTask, Undo, CrashHandler
<1>7. ASSUME NEW g \in Handlers, Claim(g)
      PROVE  Good \/ (g # h /\ handler'[h] = handler[h])
  <2>1. CASE Respond(g)
    BY <1>1, <2>1
  <2>2. CASE ClaimDispatch(handler[g].run) /\ Goto(g, "send")
    BY <1>7, <2>2 DEF Goto, Sends, TypeOK, IntakeTypeOK, HandlerState
  <2> QED BY <1>7, <2>1, <2>2 DEF Claim
<1>8. ASSUME SendTask(h) PROVE FALSE
  BY <1>6, <1>8
<1>9. ASSUME UNCHANGED handler PROVE Good
  BY <1>8, <1>9 DEF Sends
<1>10. ASSUME handler'[h] = handler[h] PROVE Good
  BY <1>8, <1>10 DEF Sends
<1> QED BY <1>3, <1>4, <1>5, <1>6, <1>7, <1>9, <1>10, CalmStep
        DEF Next, IntakeNext, HandlerStep

\* The dispatch of a run that has been pending is taken back only after a failure.
LEMMA CalmDispatch ==
  ASSUME TypeOK, MessagesInv, Next, Calm', NEW r \in Runs, dispatch'[r] # dispatch[r]
  PROVE  dispatch'[r] = "fresh" \/ (~Made(r) /\ dispatch'[r] = "none")
<1> USE DEF tableVars, dbVars, runVars
<1>1. \A h \in Handlers : ~Undo(h)
  BY CalmStep DEF MessagesInv, Calm, Undo
<1>2. ASSUME NEW h \in Handlers,
             \/ \E d \in Deliveries : Receive(h, d)
             \/ Decide(h) \/ LoseInsert(h) \/ RecordOnly(h) \/ JoinPending(h)
             \/ JoinCancelled(h) \/ CreateBlocked(h) \/ CreatePending(h)
             \/ JoinConcurrent(h) \/ SendTask(h) \/ ReadUndone(h) \/ CrashHandler(h)
      PROVE  UNCHANGED dispatch
  BY <1>2 DEF Receive, Decide, LoseInsert, RecordOnly, JoinPending, JoinCancelled,
              CreateBlocked, CreatePending, CreateRun, JoinConcurrent, SendTask,
              ReadUndone, CrashHandler, Recording
<1>3. ASSUME NEW h \in Handlers, ReplaceBlocked(h)
      PROVE  ~Made(r) /\ dispatch'[r] = "none"
  BY <1>3 DEF ReplaceBlocked, WithStatus, Made, TypeOK, TablesTypeOK
<1>4. ASSUME NEW h \in Handlers, Claim(h) PROVE dispatch'[r] = "fresh"
  BY <1>4 DEF Claim, ClaimDispatch, TypeOK, TablesTypeOK
<1>5. ASSUME NEW w \in Workers, DispatchPending(w) \/ ReleaseBlocked(w)
      PROVE  dispatch'[r] = "fresh"
  BY <1>5 DEF DispatchPending, ReleaseBlocked, ClaimDispatch, TypeOK, TablesTypeOK
<1>6. ASSUME NEW w \in Workers, WorkerAction(w), ~(DispatchPending(w) \/ ReleaseBlocked(w))
      PROVE  UNCHANGED dispatch
  <2>1. CASE Reads(w) \/ Leaves(w)
    BY <2>1, ReadsEffect, LeavesEffect
  <2>2. CASE ~Reads(w) /\ ~Leaves(w)
    BY <1>6, <2>2
       DEF WorkerAction, WorkerStep, Reads, Leaves, Take, Load, MarkRunning, Resolve,
           BuildFails, Rebuild, Commit, FailBuild, NothingToDispatch, SendNext,
           SendNextFails, CrashWorker, Duplicate
  <2> QED BY <2>1, <2>2
<1>7. CASE ManualNext
  BY <1>7 DEF ManualNext, ManualStep, RequestSnapshot, CreateRun, SendManual,
              SendManualFails, Cancel, CrashManual
<1>8. CASE Environment
  BY <1>8, CalmStep DEF Environment, Push
<1> QED BY <1>1, <1>2, <1>3, <1>4, <1>5, <1>6, <1>7, <1>8, CalmStep
        DEF Next, IntakeNext, HandlerStep, Record, WorkerNext, WorkerAction

\* A run whose message is under way keeps its trigger event.
LEMMA TriggerKept ==
  ASSUME TypeOK, Next, NEW r \in Runs, Made(r)
  PROVE  trigger'[r] = trigger[r]
  BY IntakeOnRuns, ManualOnRuns, WorkerOnRuns
     DEF Next, Environment, Push, Age, Made, dbVars, runVars

\* A message under way is one of a run that has become pending.
LEMMA TakenMade ==
  ASSUME TypeOK, RunsInv, NEW r \in Runs, Taken(r)
  PROVE  Made(r)
  BY NoneAssumption DEF RunsInv, Taken, Sends, Works, Passes

\* What the steps of a calm pipeline do to the messages of a run: they move one, or
\* begin with one where there was none.
Kept(r) ==
  /\ OneMessage(r)'
  /\ Taken(r)' => \/ Taken(r)
                  \/ trigger[r] # None /\ dispatch'[r] = "fresh"
                  \/ trigger[r] = None /\ manual.pc = "send" /\ manual'.pc # "send"

LEMMA MessagesOfIntake ==
  ASSUME TypeOK, SendersInv, RunsInv, MessagesInv, IntakeNext, UNCHANGED <<worker, manual>>,
         Calm', NEW r \in Runs
  PROVE  Kept(r)
<1> USE DEF tableVars, dbVars, runVars
<1>1. Next
  BY DEF Next
<1>2. /\ OneMessage(r) /\ queue \in [Runs -> Nat] /\ queue' \in [Runs -> Nat]
      /\ Taken(r) /\ trigger[r] # None => dispatch[r] = "fresh"
  BY <1>1, CalmStep, TypeStep DEF MessagesInv, Calm, TypeOK, TablesTypeOK
<1>3. \A w \in Workers : (Works(w, r)' => Works(w, r)) /\ (Passes(w, r)' => Passes(w, r))
  BY DEF Works, Passes
<1>4. ASSUME NEW h \in Handlers, SendTask(h) PROVE Kept(r)
  <2>1. Sends(h, handler[h].run) /\ handler[h].run \in Runs
    BY <1>4 DEF SendTask, Sends, SendersInv
  <2>2. \A g \in Handlers : Sends(g, r)' => Sends(g, r) /\ g # h
    <3>1. queue'[handler[h].run] # queue[handler[h].run]
      BY <1>2, <1>4, <2>1 DEF SendTask, Send
    <3>2. \A g \in Handlers : ~Claim(g)
      BY <3>1 DEF Claim
    <3> QED BY <1>1, <1>4, <3>2, SendsOrigin
  <2>3. CASE r # handler[h].run
    <3>1. queue'[r] = queue[r]
      BY <1>2, <1>4, <2>1, <2>3 DEF SendTask, Send
    <3> QED BY <1>2, <1>3, <2>2, <3>1, NoneAdded DEF Kept
  <2>4. CASE r = handler[h].run
    <3>1. queue[r] = 0 /\ queue'[r] = 1
      BY <1>2, <1>4, <2>1, <2>4 DEF SendTask, Send, OneMessage
    <3>2. \A g \in Handlers : ~Sends(g, r)'
      BY <1>2, <2>1, <2>2, <2>4 DEF OneMessage
    <3>3. \A w \in Workers : ~Works(w, r)' /\ ~Passes(w, r)'
      BY <1>2, <1>3, <2>1, <2>4 DEF OneMessage
    <3>4. Taken(r)
      BY <2>1, <2>4 DEF Taken
    <3>5. OneMessage(r)'
      BY <3>1, <3>2, <3>3 DEF OneMessage
    <3> QED BY <3>4, <3>5 DEF Kept
  <2> QED BY <2>3, <2>4
<1>5. ASSUME \A h \in Handlers : ~SendTask(h) PROVE Kept(r)
  <2>1. UNCHANGED queue
    <3>1. ASSUME NEW h \in Handlers, NEW d \in Deliveries, Receive(h, d)
          PROVE  UNCHANGED queue
      BY <3>1 DEF Receive
    <3>2. ASSUME NEW h \in Handlers, Record(h) PROVE UNCHANGED queue
      BY <3>2 DEF Record, LoseInsert, RecordOnly, JoinPending, JoinCancelled,
                  CreateBlocked, ReplaceBlocked, CreatePending, JoinConcurrent, Recording
    <3>3. ASSUME NEW h \in Handlers,
                 Decide(h) \/ Claim(h) \/ ReadUndone(h) \/ Undo(h) \/ CrashHandler(h)
          PROVE  UNCHANGED queue
      BY <3>3 DEF Decide, Claim, ReadUndone, Undo, CrashHandler
    <3> QED BY <1>1, <1>5, <3>1, <3>2, <3>3, CalmStep DEF IntakeNext, HandlerStep
  <2>2. CASE \A h \in Handlers : Sends(h, r)' => Sends(h, r)
    BY <1>2, <1>3, <2>1, <2>2, NoneAdded DEF Kept
  <2>3. CASE \E h \in Handlers : Sends(h, r)' /\ ~Sends(h, r)
    <3>1. PICK h \in Handlers : /\ Claim(h) /\ handler[h].run = r /\ ClaimDispatch(r)
                                /\ Sends(h, r)'
      BY <1>1, <2>3, SendsOrigin
    <3>2. trigger[r] # None
      BY <3>1 DEF Claim, SendersInv
    <3>3. ~Taken(r) /\ dispatch'[r] = "fresh"
      BY <1>2, <3>1, <3>2 DEF ClaimDispatch, DispatchDue, TypeOK, TablesTypeOK
    <3>4. \A g \in Handlers : Sends(g, r)' => g = h
      <4>1. SUFFICES ASSUME NEW g \in Handlers, Sends(g, r)', g # h PROVE FALSE
        OBVIOUS
      <4>2. Claim(g)
        BY <1>1, <3>3, <4>1, SendsOrigin DEF Taken
      <4>3. handler'[g].pc = handler[g].pc
        BY <3>1, <4>1 DEF Claim, Goto, Respond, TypeOK, IntakeTypeOK
      <4> QED BY <4>1, <4>2, <4>3 DEF Claim, Sends
    <3>5. queue'[r] = 0 /\ \A w \in Workers : ~Works(w, r)' /\ ~Passes(w, r)'
      BY <1>2, <1>3, <2>1, <3>3 DEF Taken
    <3>6. OneMessage(r)'
      BY <3>4, <3>5 DEF OneMessage
    <3> QED BY <3>2, <3>3, <3>6 DEF Kept
  <2> QED BY <2>2, <2>3
<1> QED BY <1>4, <1>5

LEMMA MessagesOfManual ==
  ASSUME TypeOK, RunsInv, MessagesInv, ManualNext, UNCHANGED <<handler, worker>>,
         Calm', NEW r \in Runs
  PROVE  Kept(r)
<1> USE DEF tableVars, dbVars, runVars
<1>1. Next
  BY DEF Next
<1>2. /\ OneMessage(r) /\ queue \in [Runs -> Nat] /\ queue' \in [Runs -> Nat]
      /\ manual.pc = "send" => ~Taken(manual.run)
  BY <1>1, CalmStep, TypeStep DEF MessagesInv, Calm, TypeOK, TablesTypeOK
<1>3. /\ \A w \in Workers : (Works(w, r)' <=> Works(w, r)) /\ (Passes(w, r)' <=> Passes(w, r))
      /\ \A h \in Handlers : Sends(h, r)' <=> Sends(h, r)
  BY DEF Works, Passes, Sends
<1>4. CASE queue'[r] = queue[r]
  BY <1>2, <1>3, <1>4, NoneAdded DEF Kept
<1>5. CASE SendManual /\ queue'[r] # queue[r]
  <2>1. r = manual.run /\ manual.pc = "send" /\ queue'[r] = queue[r] + 1
        /\ manual' = IdleManual
    BY <1>2, <1>5 DEF SendManual, Send
  <2>2. ~Taken(r) /\ trigger[r] = None
    BY <1>2, <2>1 DEF RunsInv
  <2>3. queue'[r] = 1
    BY <1>2, <2>1, <2>2 DEF Taken
  <2>4. OneMessage(r)'
    BY <1>3, <2>2, <2>3 DEF OneMessage, Taken
  <2> QED BY <2>1, <2>2, <2>4 DEF Kept, IdleManual
<1> QED BY <1>1, <1>4, <1>5, CalmStep
        DEF ManualNext, ManualStep, RequestSnapshot, Cancel, CrashManual

\* A worker puts back what it has, passes on what it is about to send, or begins to
\* pass on a run of which there was no message.
LEMMA MessagesOfWorker ==
  ASSUME TypeOK, SendersInv, RunsInv, MessagesInv, WorkerNext, UNCHANGED <<handler, manual>>,
         Calm', NEW r \in Runs
  PROVE  Kept(r)
<1> USE DEF tableVars, dbVars, runVars
<1>1. Next
  BY DEF Next
<1>2. /\ OneMessage(r) /\ queue \in [Runs -> Nat] /\ queue' \in [Runs -> Nat]
      /\ Taken(r) /\ trigger[r] # None => dispatch[r] = "fresh"
      /\ worker \in [Workers -> WorkerState]
  BY <1>1, CalmStep, TypeStep DEF MessagesInv, Calm, TypeOK, TablesTypeOK, WorkerTypeOK
<1>3. \A h \in Handlers : Sends(h, r)' <=> Sends(h, r)
  BY DEF Sends
<1>5. ASSUME queue'[r] <= queue[r],
             \A w \in Workers : (Works(w, r)' => Works(w, r)) /\ (Passes(w, r)' => Passes(w, r))
      PROVE  Kept(r)
  BY <1>2, <1>3, <1>5, NoneAdded DEF Kept
<1>6. PICK w \in Workers : /\ WorkerAction(w)
                           /\ \A v \in Workers \ {w} : worker'[v] = worker[v]
  BY OneWorkerMoves
<1>7. \A v \in Workers \ {w} : (Works(v, r)' <=> Works(v, r)) /\ (Passes(v, r)' <=> Passes(v, r))
  BY <1>6 DEF Works, Passes
<1>8. ASSUME worker'[w].run \in {worker[w].run, None}, worker'[w].next \in {worker[w].next, None},
             queue'[r] <= queue[r]
      PROVE  Kept(r)
  BY <1>5, <1>7, <1>8, NoneAssumption DEF Works, Passes
<1>9. CASE \/ Load(w) \/ MarkRunning(w) \/ Resolve(w) \/ BuildFails(w) \/ Rebuild(w)
           \/ Commit(w) \/ FailBuild(w)
  <2>1. UNCHANGED queue /\ worker'[w].run = worker[w].run /\ worker'[w].next = worker[w].next
    BY <1>2, <1>9
       DEF Load, MarkRunning, Resolve, BuildFails, Rebuild, Commit, FailBuild, Step,
           WorkerState
  <2> QED BY <1>2, <1>8, <2>1
<1>10. CASE NothingToDispatch(w)
  <2>1. UNCHANGED queue /\ worker'[w].run = None /\ worker'[w].next = None
    BY <1>2, <1>10 DEF NothingToDispatch, Ack, IdleWorker
  <2> QED BY <1>2, <1>8, <2>1
<1>14. CASE Reads(w) \/ Leaves(w)
  <2>1. /\ UNCHANGED queue
        /\ worker'[w].run \in {worker[w].run, None} /\ worker'[w].next \in {worker[w].next, None}
    BY <1>14, ReadsEffect, LeavesEffect
  <2> QED BY <1>2, <1>8, <2>1
<1>11. CASE \E q \in Runs : Take(w, q)
  <2>1. PICK q \in Runs : Take(w, q)
    BY <1>11
  <2>2. /\ queue[q] > 0 /\ queue' = [queue EXCEPT ![q] = @ - 1]
        /\ worker[w].pc = "idle"
    BY <2>1 DEF Take, At
  <2>3. worker[w].run = None /\ worker[w].next = None
    BY <2>2 DEF RunsInv
  <2>4. /\ worker'[w].run \in {None, q}
        /\ worker'[w].next = None
    <3>1. CASE worker' = worker
      BY <2>3, <3>1
    <3>2. CASE worker' # worker
      <4> DEFINE b == IsWebhook(q) /\ status[q] = "running"
      <4>1. worker' = [worker EXCEPT ![w] =
                [IdleWorker EXCEPT !.pc = "load", !.run = q, !.allow = b]]
        BY <2>1, <3>2 DEF Take
      <4> HIDE DEF b
      <4>2. worker'[w] = [IdleWorker EXCEPT !.pc = "load", !.run = q, !.allow = b]
        BY <1>2, <4>1
      <4> QED BY <4>2 DEF IdleWorker
    <3> QED BY <3>1, <3>2
  <2>5. CASE r # q
    <3>1. queue'[r] = queue[r] /\ ~Works(w, r)' /\ ~Passes(w, r)'
      BY <1>2, <2>2, <2>4, <2>5, NoneAssumption DEF Works, Passes
    <3> QED BY <1>2, <1>5, <1>7, <3>1
  <2>6. CASE r = q
    <3>1. queue'[r] = 0 /\ Taken(r)
      BY <1>2, <2>2, <2>6 DEF OneMessage, Taken
    <3>2. \A v \in Workers : ~Passes(v, r)' /\ (Works(v, r)' => v = w)
      BY <1>2, <1>7, <2>2, <2>4, <2>6, NoneAssumption DEF OneMessage, Passes
    <3>3. \A h \in Handlers : ~Sends(h, r)'
      BY <1>2, <1>3, <2>2, <2>6 DEF OneMessage
    <3> QED BY <3>1, <3>2, <3>3 DEF Kept, OneMessage
  <2> QED BY <2>5, <2>6
<1>12. CASE DispatchPending(w) \/ ReleaseBlocked(w)
  <2>1. PICK q \in Runs :
          /\ \/ status[q] = "pending" /\ trigger[q] # None /\ dispatch[q] # "fresh"
             \/ status[q] = "blocked" /\ trigger[q] # None
          /\ dispatch' = [dispatch EXCEPT ![q] = "fresh"]
          /\ worker' = [worker EXCEPT ![w].pc = "send", ![w].next = q]
          /\ UNCHANGED queue
    <3>1. CASE DispatchPending(w)
      BY <3>1 DEF DispatchPending, PendingToDispatch, WithStatus, ClaimDispatch, DispatchDue
    <3>2. CASE ReleaseBlocked(w)
      BY <3>2 DEF ReleaseBlocked, Releasable
    <3> QED BY <1>12, <3>1, <3>2
  <2>2. worker'[w].run = worker[w].run /\ worker'[w].next = q
    BY <1>2, <2>1 DEF WorkerState
  <2>3. CASE r # q
    <3>1. \A v \in Workers : (Works(v, r)' => Works(v, r)) /\ (Passes(v, r)' => Passes(v, r))
      BY <1>7, <2>2, <2>3 DEF Works, Passes
    <3>2. queue'[r] <= queue[r]
      BY <1>2, <2>1
    <3> QED BY <1>5, <3>1, <3>2
  <2>4. CASE r = q
    <3>1. trigger[r] # None /\ dispatch'[r] = "fresh"
      BY <2>1, <2>4 DEF TypeOK, TablesTypeOK
    <3>2. ~Taken(r)
      BY <1>2, <2>1, <2>4, <3>1, TakenMade DEF Made
    <3>3. \A v \in Workers : ~Works(v, r)' /\ (Passes(v, r)' => v = w)
      BY <1>7, <2>2, <3>2 DEF Works, Passes, Taken
    <3>4. queue'[r] = 0 /\ \A h \in Handlers : ~Sends(h, r)'
      BY <1>2, <1>3, <2>1, <3>2 DEF Taken
    <3> QED BY <3>1, <3>3, <3>4 DEF Kept, OneMessage
  <2> QED BY <2>3, <2>4
<1>13. CASE SendNext(w) \/ CrashWorker(w)
  <2>1. PICK q : /\ Send(q)
                 /\ Works(w, q) \/ Passes(w, q)
                 /\ worker'[w] = IdleWorker
    BY <1>2, <1>13 DEF SendNext, CrashWorker, Ack, Works, Passes
  <2>2. ~Works(w, r)' /\ ~Passes(w, r)'
    BY <2>1, NoneAssumption DEF Works, Passes, IdleWorker
  <2>3. CASE r # q
    <3>1. queue'[r] = queue[r]
      BY <1>2, <2>1, <2>3 DEF Send
    <3> QED BY <1>2, <1>5, <1>7, <2>2, <3>1
  <2>4. CASE r = q
    <3>1. queue[r] = 0 /\ queue'[r] = 1 /\ Taken(r)
      BY <1>2, <2>1, <2>4 DEF Send, OneMessage, Taken
    <3>2. \A v \in Workers : ~Works(v, r)' /\ ~Passes(v, r)'
      BY <1>2, <1>7, <2>1, <2>2, <2>4 DEF OneMessage
    <3>3. \A h \in Handlers : ~Sends(h, r)'
      BY <1>2, <1>3, <2>1, <2>4 DEF OneMessage
    <3> QED BY <3>1, <3>2, <3>3 DEF Kept, OneMessage
  <2> QED BY <2>3, <2>4
<1> QED BY <1>1, <1>6, <1>9, <1>10, <1>11, <1>12, <1>13, <1>14, CalmStep
        DEF WorkerAction, WorkerStep, Reads, Leaves

LEMMA MessagesKept ==
  ASSUME TypeOK, SendersInv, RunsInv, MessagesInv, Next, Calm', NEW r \in Runs
  PROVE  Kept(r)
<1>1. CASE Environment /\ UNCHANGED <<handler, worker, manual>>
  <2>1. UNCHANGED queue
    BY <1>1 DEF Environment, Push, Age
  <2>2. OneMessage(r) /\ queue[r] \in Nat
    BY CalmStep DEF MessagesInv, Calm, TypeOK, TablesTypeOK
  <2>3. OneMessage(r)' /\ (Taken(r)' => Taken(r))
    BY <1>1, <2>1, <2>2, NoneAdded DEF Sends, Works, Passes
  <2> QED BY <2>3 DEF Kept
<1> QED BY <1>1, MessagesOfIntake, MessagesOfWorker, MessagesOfManual DEF Next

\* Where no sending fails, nothing that was sent has to be taken back.
LEMMA NothingTakenBack ==
  ASSUME TypeOK, Next,
         \A h \in Handlers : handler[h].pc # "undo" /\ ~SendTaskFails(h),
         \A w \in Workers : worker[w].pc # "sendFail" /\ ~SendNextFails(w)
  PROVE  /\ \A h \in Handlers : handler'[h].pc # "undo"
         /\ \A w \in Workers : worker'[w].pc # "sendFail"
<1>1. ASSUME NEW h \in Handlers PROVE handler'[h].pc # "undo"
  <2>1. ASSUME NEW g \in Handlers, Respond(g) PROVE handler'[h].pc # "undo"
    BY <2>1 DEF Respond, IdleHandler, TypeOK, IntakeTypeOK
  <2>2. ASSUME NEW g \in Handlers, NEW q, Dispatching(g, q) PROVE handler'[h].pc # "undo"
    BY <2>2 DEF Dispatching, IdleHandler, TypeOK, IntakeTypeOK
  <2>3. ASSUME NEW g \in Handlers, NEW d \in Deliveries, Receive(g, d)
        PROVE  handler'[h].pc # "undo"
    BY <2>3, ReceiveEffect DEF TypeOK, IntakeTypeOK
  <2>4. ASSUME NEW g \in Handlers, Decide(g) PROVE handler'[h].pc # "undo"
    BY <2>4, DecideEffect DEF TypeOK, IntakeTypeOK
  <2>5. ASSUME NEW g \in Handlers, Record(g) PROVE handler'[h].pc # "undo"
    BY <2>1, <2>2, <2>5
       DEF Record, LoseInsert, RecordOnly, JoinPending, JoinCancelled, CreateBlocked,
           ReplaceBlocked, CreatePending, JoinConcurrent
  <2>6. ASSUME NEW g \in Handlers, SendTask(g) \/ Undo(g) \/ CrashHandler(g)
        PROVE  handler'[h].pc # "undo"
    BY <2>1, <2>6 DEF SendTask, Undo, CrashHandler
  <2>8. ASSUME NEW g \in Handlers, ReadUndone(g) PROVE FALSE
    BY <2>8 DEF ReadUndone
  <2>7. ASSUME NEW g \in Handlers, Claim(g) PROVE handler'[h].pc # "undo"
    BY <2>1, <2>7 DEF Claim, Goto, TypeOK, IntakeTypeOK, HandlerState
  <2> QED BY <2>3, <2>4, <2>5, <2>6, <2>7, <2>8 DEF Next, IntakeNext, HandlerStep
<1>2. ASSUME NEW w \in Workers PROVE worker'[w].pc # "sendFail"
  <2>1. worker \in [Workers -> WorkerState]
    BY DEF TypeOK, WorkerTypeOK
  <2>2. CASE WorkerNext /\ WorkerAction(w)
    <3>1. ASSUME NEW r \in Runs, Take(w, r) PROVE worker'[w].pc # "sendFail"
      BY <2>1, <3>1, TakeEffect
    <3>2. ASSUME Load(w) \/ MarkRunning(w) \/ Duplicate(w) PROVE worker'[w].pc # "sendFail"
      BY <2>1, <3>2 DEF Load, MarkRunning, Duplicate, Step, WorkerState
    <3>3. ASSUME \/ Resolve(w) \/ BuildFails(w) \/ Rebuild(w) \/ Commit(w) \/ FailBuild(w)
                 \/ DispatchPending(w) \/ ReleaseBlocked(w)
          PROVE  worker'[w].pc # "sendFail"
      BY <2>1, <3>3 DEF Resolve, BuildFails, Rebuild, Commit, FailBuild,
                        DispatchPending, ReleaseBlocked, WorkerState
    <3>4. ASSUME NothingToDispatch(w) \/ SendNext(w) \/ CrashWorker(w)
          PROVE  worker'[w].pc # "sendFail"
      BY <2>1, <3>4 DEF NothingToDispatch, SendNext, CrashWorker, Ack, IdleWorker
    <3>5. ASSUME Reads(w) \/ Leaves(w) PROVE worker'[w].pc # "sendFail"
      BY <3>5, ReadsEffect, LeavesEffect
    <3> QED BY <2>2, <3>1, <3>2, <3>3, <3>4, <3>5
            DEF WorkerAction, WorkerStep, Reads, Leaves
  <2> QED BY <2>2, OtherWorker DEF Next
<1> QED BY <1>1, <1>2


LEMMA NothingUndone ==
  ASSUME TypeOK, MessagesInv, Next, Calm'
  PROVE  /\ \A h \in Handlers : handler'[h].pc # "undo"
         /\ \A w \in Workers : worker'[w].pc # "sendFail"
  BY CalmStep, NothingTakenBack DEF MessagesInv, Calm

LEMMA MessagesStep ==
  ASSUME TypeOK, SendersInv, RunsInv, RunsInv', MessagesInv, Next
  PROVE  MessagesInv'
<1> SUFFICES ASSUME Calm'
             PROVE  /\ manual'.pc = "send" => ~Taken(manual.run)'
                    /\ \A r \in Runs : /\ dispatch'[r] # "stale"
                                       /\ OneMessage(r)'
                                       /\ Taken(r)' /\ trigger'[r] # None
                                            => dispatch'[r] = "fresh"
  BY NothingUndone DEF MessagesInv, Calm
<1>1. Calm /\ (manual.pc = "send" => ~Taken(manual.run))
           /\ \A r \in Runs : /\ dispatch[r] # "stale"
                              /\ Taken(r) /\ trigger[r] # None => dispatch[r] = "fresh"
  BY CalmStep DEF MessagesInv, Calm
<1>2. \A r \in Runs : dispatch'[r] # "stale"
  BY <1>1, CalmDispatch
<1>3. \A r \in Runs : OneMessage(r)'
  BY MessagesKept DEF Kept
<1>4. ASSUME NEW r \in Runs, Taken(r)', trigger'[r] # None PROVE dispatch'[r] = "fresh"
  <2>1. CASE Taken(r)
    <3>1. Made(r) /\ trigger'[r] = trigger[r]
      BY <2>1, TakenMade, TriggerKept
    <3>2. dispatch[r] = "fresh"
      BY <1>1, <1>4, <2>1, <3>1
    <3> QED BY <3>1, <3>2, CalmDispatch
  <2>2. CASE ~Taken(r) /\ trigger[r] = None
    <3>1. manual.pc = "send" /\ manual'.pc # "send"
      BY <1>4, <2>2, MessagesKept DEF Kept
    <3>2. ManualNext
      BY <3>1 DEF Next
    <3>3. status'[r] \notin {"absent", "blocked"}
      BY <1>4, NoneAssumption DEF RunsInv, Taken, Sends, Works, Passes, Made
    <3> QED BY <1>4, <2>2, <3>2, ManualOnRuns
  <2> QED BY <1>4, <2>1, <2>2, MessagesKept DEF Kept
<1>5. ASSUME manual'.pc = "send" PROVE ~Taken(manual.run)'
  <2>1. manual'.run \in Runs
    BY <1>5, ManualRun
  <2>2. CASE manual' = manual
    <3>1. ~Taken(manual.run) /\ trigger[manual.run] = None
      BY <1>1, <1>5, <2>2 DEF RunsInv
    <3>2. ASSUME NEW r \in Runs, r = manual.run PROVE ~Taken(r)'
      BY <1>5, <2>2, <3>1, <3>2, MessagesKept DEF Kept
    <3>3. manual'.run = manual.run
      BY <2>2
    <3> QED BY <2>1, <3>2, <3>3 DEF Taken, Sends, Works, Passes
  <2>3. CASE manual' # manual
    <3>1. RequestSnapshot /\ UNCHANGED <<handler, worker>>
      <4>1. ManualNext /\ UNCHANGED <<handler, worker>>
        BY <2>3 DEF Next
      <4>2. ~SendManual /\ ~Cancel /\ ~CrashManual
        BY <1>5 DEF SendManual, Cancel, CrashManual, IdleManual
      <4>3. ~SendManualFails
        BY CalmStep
      <4> QED BY <4>1, <4>2, <4>3 DEF ManualNext, ManualStep
    <3>2. PICK r \in Runs : CreateRun(r, "pending", None) /\ manual'.run = r
      BY <2>3, <3>1 DEF RequestSnapshot
    <3>3. ~Made(r) /\ UNCHANGED <<queue, handler, worker>>
      BY <3>1, <3>2 DEF RequestSnapshot, CreateRun, IsNextRun, Made
    <3>4. ~Taken(r)
      BY <3>3, TakenMade
    <3>5. ~Taken(r)'
      BY <3>3, <3>4 DEF Taken, Sends, Works, Passes
    <3> QED BY <3>2, <3>5 DEF Taken, Sends, Works, Passes
  <2> QED BY <2>2, <2>3
<1> QED BY <1>2, <1>3, <1>4, <1>5

(***************************************************************************)
(* DeliveriesInv: without redeliveries every delivery is used once.        *)
(***************************************************************************)
\* What settling writes.
LEMMA SettleEffect ==
  ASSUME NEW evs \in [Deliveries -> Event], NEW d \in Deliveries, NEW dec, NEW s, NEW r
  PROVE  /\ Settle(evs, d, dec, s, r)[d].run = r
         /\ Settle(evs, d, dec, s, r)[d].status = s
         /\ Settle(evs, d, dec, s, r)[d].decision = dec
         /\ \A e \in Deliveries \ {d} : Settle(evs, d, dec, s, r)[e] = evs[e]
  BY DEF Settle, Event

\* Requests go on with the delivery they have, or are done with it.
NoneReceived == \A h \in Handlers : handler'[h].d \in {handler[h].d, None}

\* Nothing is written to the events, and no run with a trigger starts to wait.
LEMMA OnceKept ==
  ASSUME OnceInv, UNCHANGED events, NoneReceived,
         \A r \in Runs : trigger'[r] \in {trigger[r], None},
         \A r \in Runs : status'[r] = "pending" /\ trigger'[r] # None
                           => status[r] = "pending",
         \A r \in Runs : status'[r] = "blocked"
                           => status[r] = "blocked" /\ trigger'[r] = trigger[r]
  PROVE  OnceInv'
<1> USE DEF OnceInv, Recorded
<1>1. /\ \A h \in Handlers : handler'[h].d # None => ~Recorded(handler[h].d)'
      /\ \A g, h \in Handlers : handler'[g].d # None /\ handler'[g].d = handler'[h].d => g = h
  BY DEF NoneReceived
<1>2. /\ \A r \in Runs : trigger'[r] # None =>
           events'[trigger'[r]].run = r /\ events'[trigger'[r]].decision = "queued"
      /\ \A r \in Runs : status'[r] = "pending" /\ trigger'[r] # None =>
           events'[trigger'[r]].status = "queued"
  OBVIOUS
<1>3. BlockedWaits'
  BY DEF BlockedWaits
<1> QED BY <1>1, <1>2, <1>3

\* Every run's trigger event is on record.
TriggersRecorded == \A r \in Runs : trigger[r] # None => Recorded(trigger[r])

\* The trigger event of a run is written, and stays that run's.
LEMMA OnceWritten ==
  ASSUME TypeOK, OnceInv, TriggersRecorded, NoneReceived, UNCHANGED trigger,
         NEW r \in Runs, trigger[r] # None,
         \A e \in Deliveries \ {trigger[r]} : events'[e] = events[e],
         events'[trigger[r]].run = r, events'[trigger[r]].decision = "queued",
         \A q \in Runs \ {r} : status'[q] \in {"pending", "blocked"} => status'[q] = status[q],
         status'[r] = "pending" => events'[trigger[r]].status = "queued",
         status'[r] # "blocked"
  PROVE  OnceInv'
<1> USE DEF OnceInv
<1>1. ASSUME NEW q \in Runs, q # r, trigger[q] # None
      PROVE  events'[trigger[q]] = events[trigger[q]]
  BY <1>1 DEF TypeOK, TablesTypeOK
<1>2. ASSUME NEW h \in Handlers, handler'[h].d # None PROVE ~Recorded(handler[h].d)'
  <2>1. /\ handler'[h].d = handler[h].d /\ handler[h].d \in Deliveries
        /\ ~Recorded(handler[h].d)
    BY <1>2, HandlerData DEF NoneReceived
  <2>2. handler[h].d # trigger[r]
    BY <2>1 DEF TriggersRecorded
  <2> QED BY <2>1, <2>2 DEF Recorded
<1>3. \A g, h \in Handlers : handler'[g].d # None /\ handler'[g].d = handler'[h].d => g = h
  BY DEF NoneReceived
<1>4. \A q \in Runs : trigger'[q] # None =>
           events'[trigger'[q]].run = q /\ events'[trigger'[q]].decision = "queued"
  BY <1>1
<1>5. \A q \in Runs : status'[q] = "pending" /\ trigger'[q] # None =>
           events'[trigger'[q]].status = "queued"
  BY <1>1
<1>6. BlockedWaits'
  BY <1>1 DEF BlockedWaits
<1> QED BY <1>2, <1>3, <1>4, <1>5, <1>6

\* That of a released run is settled ...
LEMMA OnceSettled ==
  ASSUME TypeOK, OnceInv, TriggersRecorded, NoneReceived, UNCHANGED trigger,
         NEW r \in Runs, trigger[r] # None,
         events' = Settle(events, trigger[r], "queued", "queued", r),
         \A q \in Runs \ {r} : status'[q] = status[q], status'[r] # "blocked"
  PROVE  OnceInv'
<1>1. trigger[r] \in Deliveries /\ events \in [Deliveries -> Event]
  BY DEF TypeOK, TablesTypeOK
<1>2. /\ \A e \in Deliveries \ {trigger[r]} : events'[e] = events[e]
      /\ events'[trigger[r]].run = r /\ events'[trigger[r]].decision = "queued"
      /\ events'[trigger[r]].status = "queued"
  BY <1>1, SettleEffect
<1> QED BY <1>2, OnceWritten

\* ... and that of a run whose end or failed sending is recorded written back.
LEMMA OnceWrittenBack ==
  ASSUME TypeOK, OnceInv, TriggersRecorded, NoneReceived, UNCHANGED trigger,
         NEW r \in Runs, trigger[r] # None, NEW loaded \in Event,
         NEW s, NEW q \in {r, loaded.run},
         events' = WriteBack(events, trigger[r], loaded, s, q),
         \A p \in Runs \ {r} : status'[p] = status[p],
         status'[r] = "pending" => s = "queued" /\ status[r] = "pending",
         status'[r] # "blocked"
  PROVE  OnceInv'
<1> DEFINE d == trigger[r]
<1>1. d \in Deliveries /\ events \in [Deliveries -> Event]
  BY DEF TypeOK, TablesTypeOK
<1>2. /\ events[d].run = r /\ events[d].decision = "queued"
      /\ status[r] = "pending" => events[d].status = "queued"
  BY DEF OnceInv
<1> HIDE DEF d
<1>3. /\ \A e \in Deliveries \ {d} : events'[e] = events[e]
      /\ events'[d].decision = Column(events[d].decision, loaded.decision, "queued")
      /\ events'[d].status = Column(events[d].status, loaded.status, s)
      /\ events'[d].run = Column(events[d].run, loaded.run, q)
  BY <1>1, WriteBackFields DEF d
<1>4. /\ events'[d].run = r /\ events'[d].decision = "queued"
      /\ status'[r] = "pending" => events'[d].status = "queued"
  BY <1>2, <1>3 DEF Column
<1> QED BY <1>3, <1>4, OnceWritten DEF d

\* A request records its delivery and is done with it; the runs stay as they are.
LEMMA OnceJoined ==
  ASSUME TypeOK, OnceInv, TriggersRecorded, NoneReceived, NEW h \in Handlers,
         handler[h].d \in Deliveries,
         handler'[h].d = None, UNCHANGED <<trigger, status>>,
         \A e \in Deliveries \ {handler[h].d} : events'[e] = events[e]
  PROVE  OnceInv'
<1> USE DEF OnceInv, Recorded
<1>1. ASSUME NEW r \in Runs, trigger[r] # None
      PROVE  events'[trigger[r]] = events[trigger[r]]
  BY <1>1, NoneAssumption DEF TypeOK, TablesTypeOK, TriggersRecorded
<1>2. ASSUME NEW g \in Handlers, handler'[g].d # None PROVE ~Recorded(handler[g].d)'
  BY <1>2, HandlerData, NoneAssumption DEF NoneReceived
<1>3. \A f, g \in Handlers : handler'[f].d # None /\ handler'[f].d = handler'[g].d => f = g
  BY DEF NoneReceived
<1>4. BlockedWaits'
  BY <1>1 DEF BlockedWaits
<1> QED BY <1>1, <1>2, <1>3, <1>4

\* A request records its delivery as the trigger event of a run.
LEMMA OnceStarted ==
  ASSUME TypeOK, OnceInv, TriggersRecorded, NoneReceived, NEW h \in Handlers,
         handler[h].d \in Deliveries,
         handler'[h].d = None, NEW r \in Runs,
         trigger' = [trigger EXCEPT ![r] = handler[h].d],
         \A q \in Runs \ {r} : status'[q] = status[q],
         \A e \in Deliveries \ {handler[h].d, trigger[r]} : events'[e] = events[e],
         events'[handler[h].d].run = r, events'[handler[h].d].decision = "queued",
         \/ status'[r] = "pending" /\ events'[handler[h].d].status = "queued"
         \/ status'[r] = "blocked" /\ events'[handler[h].d].status = "validated"
  PROVE  OnceInv'
<1> USE DEF OnceInv, Recorded
<1> DEFINE d == handler[h].d
<1>1. d # None /\ trigger'[r] = d /\ \A q \in Runs \ {r} : trigger'[q] = trigger[q]
  BY NoneAssumption DEF TypeOK, TablesTypeOK
<1>2. ASSUME NEW q \in Runs, q # r, trigger[q] # None
      PROVE  events'[trigger[q]] = events[trigger[q]] /\ trigger[q] # d
  BY <1>1, <1>2 DEF TypeOK, TablesTypeOK, TriggersRecorded
<1>3. ASSUME NEW g \in Handlers, handler'[g].d # None PROVE ~Recorded(handler[g].d)'
  <2>1. handler'[g].d = handler[g].d /\ handler[g].d \in Deliveries \ {d} /\ ~Recorded(handler[g].d)
    BY <1>1, <1>3, HandlerData DEF NoneReceived
  <2>2. handler[g].d # trigger[r]
    BY <1>3, <2>1 DEF TriggersRecorded
  <2> QED BY <2>1, <2>2
<1>4. \A f, g \in Handlers : handler'[f].d # None /\ handler'[f].d = handler'[g].d => f = g
  BY DEF NoneReceived
<1>5. \A q \in Runs : trigger'[q] # None =>
           events'[trigger'[q]].run = q /\ events'[trigger'[q]].decision = "queued"
  BY <1>1, <1>2
<1>7. \A q \in Runs : status'[q] = "pending" /\ trigger'[q] # None =>
           events'[trigger'[q]].status = "queued"
  BY <1>1, <1>2
<1>8. BlockedWaits'
  BY <1>1, <1>2 DEF BlockedWaits
<1> QED BY <1>3, <1>4, <1>5, <1>7, <1>8

\* A first delivery is received.
LEMMA OnceReceived ==
  ASSUME TypeOK, OnceInv, NEW h \in Handlers, NEW d \in Deliveries, Receive(h, d),
         Never({"redelivery"})'
  PROVE  OnceInv'
<1> USE DEF OnceInv, Recorded, dbVars, runVars
<1>1. ~Redelivered(d)
  BY DEF Receive, Meets, Never
<1>2. /\ UNCHANGED <<events, trigger, status>>
      /\ handler'[h].d = d /\ \A g \in Handlers \ {h} : handler'[g] = handler[g]
  BY ReceiveEffect DEF TypeOK, IntakeTypeOK
<1>3. ~Recorded(d) /\ \A g \in Handlers : handler[g].d # d
  BY <1>1 DEF Redelivered
<1>4. BlockedWaits'
  BY <1>2 DEF BlockedWaits
<1> QED BY <1>2, <1>3, <1>4

\* Who has recorded its delivery is done with it.
LEMMA RecordLeaves ==
  ASSUME TypeOK, NEW h \in Handlers, Record(h)
  PROVE  /\ handler'[h].d = None
         /\ \A g \in Handlers \ {h} : handler'[g] = handler[g]
<1>1. ASSUME Respond(h)
      PROVE  handler'[h].d = None /\ \A g \in Handlers \ {h} : handler'[g] = handler[g]
  BY <1>1 DEF Respond, IdleHandler, TypeOK, IntakeTypeOK
<1>2. ASSUME NEW r, Dispatching(h, r)
      PROVE  handler'[h].d = None /\ \A g \in Handlers \ {h} : handler'[g] = handler[g]
  BY <1>2 DEF Dispatching, IdleHandler, TypeOK, IntakeTypeOK
<1> QED BY <1>1, <1>2 DEF Record, LoseInsert, RecordOnly, JoinPending, JoinCancelled,
                          CreateBlocked, ReplaceBlocked, CreatePending, JoinConcurrent

LEMMA OnceOfRecord ==
  ASSUME TypeOK, IntakeInv, OnceInv, TriggersRecorded, NEW h \in Handlers, Record(h)
  PROVE  OnceInv'
<1> USE DEF dbVars, runVars, tableVars
<1> DEFINE d == handler[h].d
<1>1. d \in Deliveries /\ handler[h].pc = "record"
  <2>1. handler[h].pc = "record"
    BY DEF Record, Recording, LoseInsert, RecordOnly, JoinPending, JoinCancelled,
           CreateBlocked, ReplaceBlocked, CreatePending, JoinConcurrent
  <2> QED BY <2>1, HandlerData DEF IntakeInv
<1>2. handler'[h].d = None /\ NoneReceived
  BY RecordLeaves DEF NoneReceived
<1>3. MyEvents(h) \in [Deliveries -> Event]
      /\ \A e \in Deliveries \ {d} : MyEvents(h)[e] = events[e]
  BY <1>1, MyEventsType, MyEventsRun
<1>4. ASSUME LoseInsert(h) \/ JoinCancelled(h) PROVE OnceInv'
  BY <1>2, <1>4, OnceKept DEF LoseInsert, JoinCancelled
<1>5. ASSUME RecordOnly(h) \/ JoinPending(h) \/ JoinConcurrent(h) PROVE OnceInv'
  <2>1. \A e \in Deliveries \ {d} : events'[e] = events[e]
    BY <1>1, <1>3, <1>5, SettleEffect DEF RecordOnly, JoinPending, JoinConcurrent
  <2>2. UNCHANGED <<trigger, status>>
    BY <1>5 DEF RecordOnly, JoinPending, JoinConcurrent
  <2> QED BY <1>1, <1>2, <2>1, <2>2, OnceJoined
<1>6. ASSUME CreateBlocked(h) \/ CreatePending(h) PROVE OnceInv'
  <2>1. PICK r \in Runs, s \in {"blocked", "pending"} :
          /\ CreateRun(r, s, d)
          /\ events' = Settle(MyEvents(h), d, "queued",
                              IF s = "blocked" THEN "validated" ELSE "queued", r)
    BY <1>6 DEF CreateBlocked, CreatePending
  <2>2. /\ trigger' = [trigger EXCEPT ![r] = d]
        /\ status'[r] = s /\ \A q \in Runs \ {r} : status'[q] = status[q]
    BY <2>1 DEF CreateRun, TypeOK, TablesTypeOK
  <2>3. /\ events'[d].run = r /\ events'[d].decision = "queued"
        /\ events'[d].status = IF s = "blocked" THEN "validated" ELSE "queued"
        /\ \A e \in Deliveries \ {d} : events'[e] = events[e]
    BY <1>1, <1>3, <2>1, SettleEffect
  <2> HIDE DEF d
  <2> QED BY <1>1, <1>2, <2>2, <2>3, OnceStarted DEF d
<1>7. ASSUME ReplaceBlocked(h) PROVE OnceInv'
  <2>1. PICK r \in Runs : /\ status[r] = "blocked" /\ UNCHANGED status
                          /\ trigger' = [trigger EXCEPT ![r] = d]
                          /\ events' = Settle(IF trigger[r] \in {None, d} THEN MyEvents(h)
                                              ELSE Settle(MyEvents(h), trigger[r],
                                                          "duplicate_head", "completed", r),
                                              d, "queued", "validated", r)
    BY <1>7 DEF ReplaceBlocked, WithStatus
  <2> DEFINE retired == IF trigger[r] \in {None, d} THEN MyEvents(h)
                        ELSE Settle(MyEvents(h), trigger[r], "duplicate_head", "completed", r)
  <2>2. /\ retired \in [Deliveries -> Event]
        /\ \A e \in Deliveries \ {d, trigger[r]} : retired[e] = events[e]
    <3>1. CASE trigger[r] \in {None, d}
      BY <1>3, <3>1
    <3>2. CASE trigger[r] \notin {None, d}
      <4>1. trigger[r] \in Deliveries
        BY <3>2 DEF TypeOK, TablesTypeOK
      <4>2. retired = Settle(MyEvents(h), trigger[r], "duplicate_head", "completed", r)
        BY <3>2
      <4>3. retired \in [Deliveries -> Event]
        BY <1>3, <4>2, SettleType DEF Decisions, EventStatus
      <4> QED BY <1>3, <4>1, <4>2, <4>3, SettleEffect
    <3> QED BY <3>1, <3>2
  <2>3. /\ events'[d].run = r /\ events'[d].status = "validated"
        /\ events'[d].decision = "queued"
        /\ \A e \in Deliveries \ {d, trigger[r]} : events'[e] = events[e]
    <3> HIDE DEF retired
    <3>1. events' = Settle(retired, d, "queued", "validated", r)
      BY <2>1 DEF retired
    <3> QED BY <1>1, <2>2, <3>1, SettleEffect
  <2> QED BY <1>1, <1>2, <2>1, <2>3, OnceStarted
<1> QED BY <1>4, <1>5, <1>6, <1>7 DEF Record

\* The worker's steps that write an event write that of a run that is done, or of
\* the blocked run that they release.
LEMMA OnceOfWorker ==
  ASSUME TypeOK, LifecycleInv, SendersInv, RunsInv, StoredInv, RowsInv, OnceInv,
         NEW w \in Workers, WorkerAction(w), UNCHANGED handler
  PROVE  OnceInv'
<1> USE DEF tableVars, dbVars, runVars
<1>1. NoneReceived /\ TriggersRecorded
  BY DEF NoneReceived, TriggersRecorded, RowsInv
<1>2. WorkerRunOK(w) /\ status \in [Runs -> RunStatus]
  BY DEF RunsInv, WorkerRunOK, TypeOK, TablesTypeOK
<1>3. worker[w].pc # "idle" => worker[w].run \in Runs /\ FailedRun(w) \in Runs
  BY WorkerData DEF TypeOK, WorkerTypeOK, HasRuns, FailedRun
<1>4. ASSUME FailTask(w) \/ CommitFailure(w)
      PROVE  /\ FailedRun(w) \in Runs /\ status'[FailedRun(w)] \in Done
             /\ \A q \in Runs \ {FailedRun(w)} : status'[q] = status[q]
  <2>1. MarkFailed(w) /\ worker[w].pc # "idle"
    BY <1>4, LeavesEffect DEF Leaves
  <2>2. FailedRun(w) \in Runs
    BY <1>3, <2>1
  <2>3. status'[FailedRun(w)] \in Done
    BY <1>2, <2>1, <2>2, FailedIsDone
  <2> QED BY <1>2, <2>1, <2>2, <2>3, MarkFailedEffect
<1>5. ASSUME FailTask(w) PROVE OnceInv'
  <2>1. UNCHANGED <<events, trigger>>
    BY <1>5, LeavesEffect DEF Leaves
  <2>2. \A r \in Runs : status'[r] # status[r] => status'[r] \in Done
    BY <1>4, <1>5
  <2> QED BY <1>1, <2>1, <2>2, OnceKept DEF Done
<1>6. ASSUME CommitFailure(w) PROVE OnceInv'
  <2> DEFINE r == FailedRun(w)
             q == IF worker[w].next = None THEN worker[w].loaded.run ELSE worker[w].next
  <2>1. /\ UNCHANGED trigger /\ trigger[r] # None
        /\ events' = WriteBack(events, trigger[r], worker[w].loaded, "failed", q)
        /\ worker[w].loaded \in Event
    BY <1>6, WorkerData DEF CommitFailure, At, RowsInv, Restores, FailedEvent
  <2>2. q \in {r, worker[w].loaded.run}
    BY DEF FailedRun
  <2>3. r \in Runs /\ status'[r] \in Done /\ \A p \in Runs \ {r} : status'[p] = status[p]
    BY <1>4, <1>6
  <2> HIDE DEF r, q
  <2> QED BY <1>1, <2>1, <2>2, <2>3, OnceWrittenBack DEF Done
<1>7. ASSUME Finish(w) PROVE OnceInv'
  <2> DEFINE r == worker[w].run
  <2>1. worker[w].pc = "finish" /\ r \in Runs /\ UNCHANGED <<status, trigger>>
    BY <1>3, <1>7 DEF Finish, At
  <2>2. status[r] \in Done
    BY <1>2, <2>1 DEF StoredInv, LifecycleInv, NotBuilt, RunStatus, Done
  <2>3. CASE UNCHANGED events
    BY <1>1, <2>1, <2>3, OnceKept
  <2>4. CASE ~UNCHANGED events
    <3>1. /\ trigger[r] \in Deliveries /\ worker[w].loaded \in Event
          /\ events' = WriteBack(events, trigger[r], worker[w].loaded, "completed", r)
      BY <1>7, <2>4, FinishEffect, WorkerData
    <3>2. trigger[r] # None
      BY <3>1, NoneAssumption
    <3> HIDE DEF r
    <3> QED BY <1>1, <2>1, <2>2, <3>1, <3>2, OnceWrittenBack DEF Done
  <2> QED BY <2>3, <2>4
<1>8. ASSUME ReleaseBlocked(w) PROVE OnceInv'
  <2>1. PICK q \in Runs : /\ trigger[q] # None /\ UNCHANGED trigger
                          /\ status' = [status EXCEPT ![q] = "pending"]
                          /\ events' = Settle(events, trigger[q], "queued", "queued", q)
    BY <1>8 DEF ReleaseBlocked, Releasable
  <2>2. status'[q] = "pending" /\ \A p \in Runs \ {q} : status'[p] = status[p]
    BY <1>2, <2>1
  <2> QED BY <1>1, <2>1, <2>2, OnceSettled
<1>9. ASSUME FailBuild(w) PROVE OnceInv'
  <2>1. MarkFailed(w) /\ UNCHANGED <<events, trigger>>
    BY <1>9 DEF FailBuild
  <2>2. \A r \in Runs : status'[r] # status[r] => status'[r] = "failed"
    BY <1>2, <2>1, MarkFailedEffect
  <2> QED BY <1>1, <2>1, <2>2, OnceKept
<1>10. ASSUME MarkRunning(w) \/ Commit(w) PROVE OnceInv'
  <2>1. UNCHANGED <<events, trigger>>
    BY <1>10 DEF MarkRunning, Commit
  <2>2. \A r \in Runs : status'[r] # status[r] => status'[r] \in {"running", "succeeded"}
    BY <1>2, <1>10 DEF MarkRunning, Commit
  <2> QED BY <1>1, <2>1, <2>2, OnceKept
<1>11. ASSUME \/ \E r \in Runs : Take(w, r)
              \/ Load(w) \/ Resolve(w) \/ BuildFails(w) \/ Rebuild(w) \/ Reads(w)
              \/ RollBackFailure(w)
              \/ DispatchPending(w) \/ NothingToDispatch(w) \/ SendNext(w)
              \/ SendNextFails(w) \/ CrashWorker(w) \/ Duplicate(w)
       PROVE  OnceInv'
  <2>1. UNCHANGED <<events, trigger, status>>
    BY <1>11, ReadsEffect
       DEF Take, Load, Resolve, BuildFails, Rebuild, RollBackFailure, DispatchPending,
           NothingToDispatch, SendNext, SendNextFails, CrashWorker, Duplicate
  <2> QED BY <1>1, <2>1, OnceKept
<1> QED BY <1>5, <1>6, <1>7, <1>8, <1>9, <1>10, <1>11 DEF WorkerAction, WorkerStep, Reads

LEMMA OnceOfHandler ==
  ASSUME TypeOK, SendersInv, RunsInv, RowsInv, OnceInv, NEW h \in Handlers,
         \/ Decide(h) \/ Claim(h) \/ SendTask(h) \/ SendTaskFails(h) \/ ReadUndone(h)
         \/ Undo(h) \/ CrashHandler(h)
  PROVE  OnceInv'
<1> USE DEF tableVars, dbVars, runVars
<1>1. NoneReceived
  <2>1. CASE Respond(h)
    BY <2>1 DEF NoneReceived, Respond, IdleHandler, TypeOK, IntakeTypeOK
  <2>2. ASSUME NEW pc, Goto(h, pc) PROVE NoneReceived
    BY <2>2 DEF NoneReceived, Goto, TypeOK, IntakeTypeOK, HandlerState
  <2>3. CASE Decide(h)
    BY <2>3, DecideEffect DEF NoneReceived, TypeOK, IntakeTypeOK
  <2>4. CASE ReadUndone(h)
    BY <2>4, ReadUndoneEffect DEF NoneReceived, TypeOK, IntakeTypeOK, HandlerState
  <2> QED BY <2>1, <2>2, <2>3, <2>4 DEF Claim, SendTask, SendTaskFails, Undo, CrashHandler
<1>2. CASE Undo(h)
  <2> DEFINE r == handler[h].run
  <2>1. /\ r \in Runs /\ trigger[r] # None /\ Made(r) /\ UNCHANGED <<trigger, status>>
        /\ events' = WriteBack(events, trigger[r], handler[h].loaded, "queued", r)
    BY <1>2, NoneAssumption DEF Undo, SendersInv, RunsInv
  <2>3. handler[h].loaded \in Event
    BY HandlerData
  <2>2. TriggersRecorded
    BY DEF TriggersRecorded, RowsInv
  <2> QED BY <1>1, <2>1, <2>2, <2>3, OnceWrittenBack DEF Made
<1>3. CASE Decide(h) \/ Claim(h) \/ SendTask(h) \/ SendTaskFails(h) \/ ReadUndone(h)
           \/ CrashHandler(h)
  <2>1. UNCHANGED <<events, trigger, status>>
    BY <1>3 DEF Decide, Claim, SendTask, SendTaskFails, ReadUndone, CrashHandler
  <2> QED BY <1>1, <2>1, OnceKept
<1> QED BY <1>2, <1>3

LEMMA DeliveriesStep ==
  ASSUME TypeOK, LifecycleInv, SendersInv, IntakeInv, RunsInv, StoredInv, RowsInv,
         DeliveriesInv, Next
  PROVE  DeliveriesInv'
<1> USE DEF tableVars, dbVars, runVars
<1> SUFFICES ASSUME Never({"redelivery"})' PROVE OnceInv'
  BY DEF DeliveriesInv
<1>1. OnceInv /\ TriggersRecorded
  BY IncidentsGrow DEF DeliveriesInv, Never, TriggersRecorded, RowsInv
<1>2. CASE IntakeNext
  BY <1>1, <1>2, OnceReceived, OnceOfRecord, OnceOfHandler DEF IntakeNext, HandlerStep
<1>3. CASE WorkerNext /\ UNCHANGED handler
  BY <1>1, <1>3, OnceOfWorker DEF WorkerNext, WorkerAction
<1>4. CASE ManualNext /\ UNCHANGED handler
  <2>1. NoneReceived
    BY <1>4 DEF NoneReceived
  <2>2. /\ \A r \in Runs : trigger'[r] \in {trigger[r], None}
        /\ \A r \in Runs : status'[r] = "pending" /\ trigger'[r] # None => status[r] = "pending"
        /\ \A r \in Runs : status'[r] = "blocked"
                             => status[r] = "blocked" /\ trigger'[r] = trigger[r]
    BY <1>4 DEF ManualNext, ManualStep, RequestSnapshot, CreateRun, SendManual,
                SendManualFails, Cancel, CrashManual, TypeOK, TablesTypeOK
  <2> QED BY <1>1, <1>4, <2>1, <2>2, ManualOnRuns, OnceKept
<1>5. CASE Environment /\ UNCHANGED handler
  BY <1>1, <1>5, OnceKept DEF Environment, Push, Age, NoneReceived
<1> QED BY <1>2, <1>3, <1>4, <1>5 DEF Next

(***************************************************************************)
(* The rows of the events: who writes them, and who is kept from it.       *)
(***************************************************************************)
\* A delivery that a request is recording, or the trigger event of a run that no
\* worker has been told of yet.
Unclaimed(e) == \/ \E h \in Handlers : handler[h].pc = "record" /\ handler[h].d = e
                \/ \E q \in Runs : ~Made(q) /\ trigger[q] = e

\* A row that a step has written: by a request or a release, with a decision and the
\* status that goes with it; by a failed sending, to be queued; by a finished task; or
\* by a failed one.  The last three write what is to differ from what they have read.
LEMMA RowWritten ==
  ASSUME TypeOK, IntakeInv, SendersInv, RowsInv, Next, NEW e \in Deliveries,
         events'[e] # events[e]
  PROVE  \/ /\ Unclaimed(e)
            /\ events'[e].status \in {"queued", "validated", "completed"}
            /\ events'[e].status = "completed" => events'[e].decision # "queued"
         \/ \E h \in Handlers :
              /\ Undo(h) /\ handler[h].run \in Runs /\ e = trigger[handler[h].run]
              /\ events'[e].status \in {events[e].status, "queued"}
              /\ events'[e].run \in {events[e].run, handler[h].run}
         \/ \E w \in Workers :
              /\ Finish(w) /\ Mine(w) /\ worker[w].run \in Runs /\ e = trigger[worker[w].run]
              /\ events'[e].status = Column(events[e].status, worker[w].loaded.status,
                                            "completed")
              /\ events'[e].run = events[e].run
         \/ \E w \in Workers :
              /\ CommitFailure(w) /\ FailedRun(w) \in Runs /\ e = FailedEvent(w)
              /\ events'[e].status = Column(events[e].status, worker[w].loaded.status,
                                            "failed")
              /\ events'[e].run \in {events[e].run, FailedRun(w)}
              /\ worker[w].next = None => events'[e].run = events[e].run
<1> DEFINE Waiting == /\ events'[e].status \in {"queued", "validated", "completed"}
                      /\ events'[e].status = "completed" => events'[e].decision # "queued"
<1> USE DEF tableVars, dbVars, runVars
<1>1. ASSUME NEW evs \in [Deliveries -> Event], NEW d \in Deliveries, NEW dec, NEW s, NEW r,
             events' = Settle(evs, d, dec, s, r)
      PROVE  \/ e # d /\ events'[e] = evs[e]
             \/ /\ e = d /\ events'[e].decision = dec
                /\ events'[e].status = s /\ events'[e].run = r
  BY <1>1 DEF Settle, Event
<1>2. ASSUME NEW d, d # None, d \in Deliveries \cup {None}, NEW s, NEW r,
             events' = Settle(events, d, "queued", s, r)
      PROVE  e = d /\ events'[e].status = s /\ events'[e].run = r
  BY <1>1, <1>2 DEF TypeOK, TablesTypeOK
<1>3. ASSUME NEW h \in Handlers, Record(h) PROVE Waiting /\ Unclaimed(e)
  <2>1. handler[h].pc = "record"
    BY <1>3 DEF Record, Recording, LoseInsert, RecordOnly, JoinPending, JoinCancelled,
           CreateBlocked, ReplaceBlocked, CreatePending, JoinConcurrent
  <2> DEFINE d == handler[h].d
  <2>2. d \in Deliveries /\ handler[h].decision \in Decisions
    BY <2>1, HandlerData DEF IntakeInv, HandlerState
  <2>3. /\ MyEvents(h) \in [Deliveries -> Event]
        /\ MyEvents(h)[e] # events[e] =>
             /\ e = d
             /\ MyEvents(h)[e].status \in {"queued", "completed"}
             /\ MyEvents(h)[e].status = "completed" => MyEvents(h)[e].decision # "queued"
    BY <2>2, MyEventsType DEF MyEvents, Noted, TypeOK, TablesTypeOK
  <2>8. e = d => Unclaimed(e)
    BY <2>1 DEF Unclaimed
  <2> HIDE DEF d
  <2>4. ASSUME NEW dec, NEW s \in {"queued", "validated", "completed"}, NEW r,
               s = "completed" => dec # "queued",
               events' = Settle(MyEvents(h), d, dec, s, r)
        PROVE  Waiting /\ e = d
    BY <1>1, <2>2, <2>3, <2>4
  <2>5. CASE LoseInsert(h) \/ JoinCancelled(h) \/ RecordOnly(h)
    BY <2>3, <2>5, <2>8 DEF LoseInsert, JoinCancelled, RecordOnly
  <2>6. CASE JoinPending(h) \/ CreateBlocked(h) \/ CreatePending(h) \/ JoinConcurrent(h)
    <3>1. PICK r : \/ events' = Settle(MyEvents(h), d, "queued", "queued", r)
                   \/ events' = Settle(MyEvents(h), d, "queued", "validated", r)
                   \/ events' = Settle(MyEvents(h), d, "duplicate_head", "completed", r)
      <4>1. CASE JoinPending(h)
        BY <4>1 DEF JoinPending, d
      <4>2. CASE CreateBlocked(h) \/ CreatePending(h) \/ JoinConcurrent(h)
        BY <4>2 DEF CreateBlocked, CreatePending, JoinConcurrent, d
      <4> QED BY <2>6, <4>1, <4>2
    <3> QED BY <2>4, <2>8, <3>1
  <2>7. CASE ReplaceBlocked(h)
    <3>1. PICK r \in Runs :
            /\ status[r] = "blocked"
            /\ events' = Settle(IF trigger[r] \in {None, d} THEN MyEvents(h)
                                ELSE Settle(MyEvents(h), trigger[r], "duplicate_head",
                                            "completed", r),
                                d, "queued", "validated", r)
      BY <2>7 DEF ReplaceBlocked, WithStatus, d
    <3>2. CASE trigger[r] \in {None, d}
      BY <2>4, <2>8, <3>1, <3>2
    <3>3. CASE trigger[r] \notin {None, d}
      <4> DEFINE retired == Settle(MyEvents(h), trigger[r], "duplicate_head", "completed", r)
      <4>1. trigger[r] \in Deliveries /\ retired \in [Deliveries -> Event]
        BY <2>3, <3>3, SettleType DEF TypeOK, TablesTypeOK, Decisions, EventStatus
      <4>2. \/ e # trigger[r] /\ retired[e] = MyEvents(h)[e]
            \/ /\ e = trigger[r]
               /\ retired[e].status = "completed" /\ retired[e].decision = "duplicate_head"
        BY <2>3, <4>1 DEF Settle, Event
      <4>3. events' = Settle(retired, d, "queued", "validated", r)
        BY <3>1, <3>3
      <4>4. e = trigger[r] => Unclaimed(e)
        BY <3>1 DEF Unclaimed, Made
      <4> HIDE DEF retired
      <4> QED BY <1>1, <2>2, <2>3, <2>8, <4>1, <4>2, <4>3, <4>4
    <3> QED BY <3>2, <3>3
  <2> QED BY <1>3, <2>5, <2>6, <2>7 DEF Record
<1>4. ASSUME NEW d \in Deliveries, NEW loaded \in Event, NEW s, NEW r,
             events' = WriteBack(events, d, loaded, s, r)
      PROVE  /\ e = d
             /\ events'[e].status = Column(events[e].status, loaded.status, s)
             /\ events'[e].run = Column(events[e].run, loaded.run, r)
  <2>1. events \in [Deliveries -> Event]
    BY DEF TypeOK, TablesTypeOK
  <2> QED BY <1>4, <2>1, WriteBackFields
<1>5. ASSUME NEW h \in Handlers, Undo(h)
      PROVE  /\ handler[h].run \in Runs /\ e = trigger[handler[h].run]
             /\ events'[e].status \in {events[e].status, "queued"}
             /\ events'[e].run \in {events[e].run, handler[h].run}
  <2> DEFINE r == handler[h].run
  <2>1. r \in Runs /\ trigger[r] \in Deliveries /\ handler[h].loaded \in Event
    BY <1>5, HandlerData DEF Undo, SendersInv, TypeOK, TablesTypeOK
  <2>2. events' = WriteBack(events, trigger[r], handler[h].loaded, "queued", r)
    BY <1>5, UndoEffect
  <2> HIDE DEF r
  <2>3. /\ e = trigger[r]
        /\ events'[e].status = Column(events[e].status, handler[h].loaded.status, "queued")
        /\ events'[e].run = Column(events[e].run, handler[h].loaded.run, r)
    BY <1>4, <2>1, <2>2
  <2> QED BY <2>1, <2>3 DEF Column, r
<1>6. ASSUME NEW w \in Workers, CommitFailure(w)
      PROVE  /\ FailedRun(w) \in Runs /\ e = FailedEvent(w)
             /\ events'[e].status = Column(events[e].status, worker[w].loaded.status, "failed")
             /\ events'[e].run \in {events[e].run, FailedRun(w)}
             /\ worker[w].next = None => events'[e].run = events[e].run
  <2> DEFINE q == IF worker[w].next = None THEN worker[w].loaded.run ELSE worker[w].next
  <2>1. /\ worker[w].loaded \in Event /\ FailedRun(w) \in Runs
        /\ FailedEvent(w) # None
    BY <1>6, WorkerData
       DEF CommitFailure, At, RowsInv, Restores, FailedRun, TypeOK, WorkerTypeOK, HasRuns
  <2>2. FailedEvent(w) \in Deliveries
    BY <2>1 DEF FailedEvent, TypeOK, TablesTypeOK
  <2>3. events' = WriteBack(events, FailedEvent(w), worker[w].loaded, "failed", q)
    BY <1>6 DEF CommitFailure, FailedEvent
  <2>4. worker[w].next # None => q = FailedRun(w)
    BY DEF FailedRun
  <2>5. worker[w].next = None => q = worker[w].loaded.run
    OBVIOUS
  <2> HIDE DEF q
  <2>6. /\ e = FailedEvent(w)
        /\ events'[e].status = Column(events[e].status, worker[w].loaded.status, "failed")
        /\ events'[e].run = Column(events[e].run, worker[w].loaded.run, q)
    BY <1>4, <2>1, <2>2, <2>3
  <2> QED BY <2>1, <2>4, <2>5, <2>6 DEF Column
<1>7. ASSUME NEW w \in Workers, Finish(w)
      PROVE  /\ Mine(w) /\ worker[w].run \in Runs /\ e = trigger[worker[w].run]
             /\ events'[e].status = Column(events[e].status, worker[w].loaded.status,
                                           "completed")
             /\ events'[e].run = events[e].run
  <2> DEFINE r == worker[w].run
  <2>1. /\ Mine(w) /\ r \in Runs /\ trigger[r] \in Deliveries
        /\ events' = WriteBack(events, trigger[r], worker[w].loaded, "completed", r)
        /\ worker[w].loaded \in Event /\ worker[w].loaded.run = r
    BY <1>7, FinishEffect, WorkerData DEF Mine
  <2> HIDE DEF r
  <2>2. /\ e = trigger[r]
        /\ events'[e].status = Column(events[e].status, worker[w].loaded.status, "completed")
        /\ events'[e].run = Column(events[e].run, worker[w].loaded.run, r)
    BY <1>4, <2>1
  <2> QED BY <2>1, <2>2 DEF Column, r
<1>8. ASSUME NEW w \in Workers, ReleaseBlocked(w) PROVE Waiting /\ Unclaimed(e)
  <2>1. PICK q \in Runs : /\ trigger[q] # None /\ trigger[q] \in Deliveries \cup {None}
                          /\ status[q] = "blocked"
                          /\ events' = Settle(events, trigger[q], "queued", "queued", q)
    BY <1>8 DEF ReleaseBlocked, Releasable, TypeOK, TablesTypeOK
  <2>2. e = trigger[q] /\ Waiting
    BY <1>2, <2>1
  <2> QED BY <2>1, <2>2 DEF Unclaimed, Made
<1>9. ASSUME NEW w \in Workers, WorkerAction(w),
             ~CommitFailure(w), ~Finish(w), ~ReleaseBlocked(w)
      PROVE  FALSE
  <2>1. CASE Reads(w) \/ FailTask(w) \/ RollBackFailure(w)
    BY <2>1, ReadsEffect, LeavesEffect DEF Leaves
  <2>2. CASE ~Reads(w) /\ ~FailTask(w) /\ ~RollBackFailure(w)
    BY <1>9, <2>2
       DEF WorkerAction, WorkerStep, Reads, Take, Load, MarkRunning, Resolve, BuildFails,
           Rebuild, Commit, FailBuild, DispatchPending, NothingToDispatch,
           SendNext, SendNextFails, CrashWorker, Duplicate
  <2> QED BY <2>1, <2>2
<1>10. CASE IntakeNext
  <2>1. PICK h \in Handlers : Record(h) \/ Undo(h)
    BY <1>10 DEF IntakeNext, HandlerStep, Receive, Decide, Claim, SendTask, SendTaskFails,
                 ReadUndone, CrashHandler
  <2> QED BY <1>3, <1>5, <2>1
<1>11. ~ManualNext /\ ~Environment
  BY ManualOnRuns DEF Environment, Push, Age
<1> QED BY <1>6, <1>7, <1>8, <1>9, <1>10, <1>11 DEF Next, WorkerNext, WorkerAction

\* A recorded row stays one, and an unrecorded one belongs to no run.
LEMMA RecordedKept ==
  ASSUME TypeOK, IntakeInv, SendersInv, RowsInv, Next, NEW d \in Deliveries
  PROVE  /\ Recorded(d) => Recorded(d)'
         /\ ~Recorded(d)' => events'[d].run = None
<1>1. Recorded(d) => Recorded(d)'
  BY RowWritten DEF Recorded, Column
<1>2. ASSUME ~Recorded(d)' PROVE events'[d].run = None
  <2>1. ~Recorded(d) /\ events[d].run = None
    BY <1>1, <1>2 DEF RowsInv
  <2>2. \A r \in Runs : d # trigger[r]
    BY <2>1, NoneAssumption DEF RowsInv
  <2>3. events'[d] = events[d]
    BY <1>2, <2>2, RowWritten DEF Recorded, Mine, FailedEvent
  <2> QED BY <2>1, <2>3
<1> QED BY <1>1, <1>2

\* A run is given a trigger event together with the row that waits in it.
LEMMA TriggerRow ==
  ASSUME TypeOK, IntakeInv, Next, NEW r \in Runs, trigger'[r] # trigger[r],
         trigger'[r] # None
  PROVE  events'[trigger'[r]].status \in {"queued", "validated"}
<1> USE DEF tableVars, dbVars, runVars
<1>0. trigger \in [Runs -> Deliveries \cup {None}]
  BY DEF TypeOK, TablesTypeOK
<1>1. ASSUME NEW h \in Handlers, CreateBlocked(h) \/ CreatePending(h) \/ ReplaceBlocked(h)
      PROVE  events'[trigger'[r]].status \in {"queued", "validated"}
  <2> DEFINE d == handler[h].d
  <2>1. d \in Deliveries /\ MyEvents(h) \in [Deliveries -> Event]
    BY <1>1, HandlerData, MyEventsType
       DEF CreateBlocked, CreatePending, ReplaceBlocked, Recording, IntakeInv
  <2>2. trigger'[r] = d
    BY <1>0, <1>1 DEF CreateBlocked, CreatePending, ReplaceBlocked, CreateRun, WithStatus
  <2>3. ASSUME NEW evs \in [Deliveries -> Event], NEW s \in {"queued", "validated"}, NEW q,
               events' = Settle(evs, d, "queued", s, q)
        PROVE  events'[trigger'[r]].status \in {"queued", "validated"}
    BY <2>1, <2>2, <2>3, SettleEffect
  <2>4. CASE CreateBlocked(h)
    <3>1. PICK q \in Runs : events' = Settle(MyEvents(h), d, "queued", "validated", q)
      BY <2>4 DEF CreateBlocked
    <3> QED BY <2>1, <2>3, <3>1
  <2>5. CASE CreatePending(h)
    <3>1. PICK q \in Runs : events' = Settle(MyEvents(h), d, "queued", "queued", q)
      BY <2>5 DEF CreatePending
    <3> QED BY <2>1, <2>3, <3>1
  <2>6. CASE ReplaceBlocked(h)
    <3>1. PICK q \in Runs :
            events' = Settle(IF trigger[q] \in {None, d} THEN MyEvents(h)
                             ELSE Settle(MyEvents(h), trigger[q], "duplicate_head",
                                         "completed", q),
                             d, "queued", "validated", q)
      BY <2>6 DEF ReplaceBlocked, WithStatus
    <3> DEFINE retired == Settle(MyEvents(h), trigger[q], "duplicate_head", "completed", q)
    <3>2. retired \in [Deliveries -> Event]
      BY <2>1, SettleType DEF Decisions, EventStatus
    <3>3. \/ events' = Settle(MyEvents(h), d, "queued", "validated", q)
          \/ events' = Settle(retired, d, "queued", "validated", q)
      BY <3>1
    <3> HIDE DEF retired
    <3> QED BY <2>1, <2>3, <3>2, <3>3
  <2> QED BY <1>1, <2>4, <2>5, <2>6
<1>2. ASSUME NEW h \in Handlers,
             \/ \E d \in Deliveries : Receive(h, d)
             \/ Decide(h) \/ LoseInsert(h) \/ RecordOnly(h) \/ JoinPending(h)
             \/ JoinCancelled(h) \/ JoinConcurrent(h) \/ Claim(h) \/ SendTask(h)
             \/ SendTaskFails(h) \/ ReadUndone(h) \/ Undo(h) \/ CrashHandler(h)
      PROVE  UNCHANGED trigger
  BY <1>2 DEF Receive, Decide, LoseInsert, RecordOnly, JoinPending, JoinCancelled,
              JoinConcurrent, Claim, SendTask, SendTaskFails, ReadUndone, Undo, CrashHandler
<1>3. ~WorkerNext /\ ~ManualNext /\ ~Environment
  BY WorkerOnRuns, ManualOnRuns DEF Environment, Push, Age
<1> QED BY <1>1, <1>2, <1>3 DEF Next, IntakeNext, HandlerStep, Record

\* A worker that goes on with its runs goes on with the event that it may have to fail.
LEMMA FailedEventKept ==
  ASSUME TypeOK, RunsInv, Next, NEW w \in Workers, worker[w].pc # "idle",
         worker'[w].run = worker[w].run, worker'[w].next = worker[w].next
  PROVE  /\ FailedRun(w) \in Runs /\ Made(FailedRun(w))
         /\ FailedRun(w)' = FailedRun(w)
         /\ FailedEvent(w)' = FailedEvent(w)
         /\ IsWebhook(FailedRun(w)) <=> FailedEvent(w) # None
<1>1. FailedRun(w) \in Runs /\ Made(FailedRun(w))
  BY WorkerData DEF FailedRun, RunsInv, TypeOK, WorkerTypeOK, HasRuns
<1>2. FailedRun(w)' = FailedRun(w)
  BY DEF FailedRun
<1>3. trigger'[FailedRun(w)] = trigger[FailedRun(w)]
  BY <1>1, TriggerKept
<1> QED BY <1>1, <1>2, <1>3 DEF FailedEvent, IsWebhook

\* A worker is in a failure transaction that it was in, or has just begun.
LEMMA RestoresOrigin ==
  ASSUME TypeOK, Next, NEW w \in Workers, Restores(w)'
  PROVE  /\ worker[w].pc # "idle"
         /\ worker'[w].run = worker[w].run /\ worker'[w].next = worker[w].next
         /\ worker'[w].seen = worker[w].seen /\ worker'[w].loaded = worker[w].loaded
         /\ \/ FailEvent(w) /\ worker'[w].pc = "restore"
            \/ /\ Restores(w) /\ worker'[w].fallback = worker[w].fallback
               /\ ReadCursor(w) \/ worker'[w] = worker[w]
<1>0. worker \in [Workers -> WorkerState] /\ worker'[w].pc \in {"restore", "upsert"}
  BY DEF TypeOK, WorkerTypeOK, Restores
<1>1. CASE worker'[w] = worker[w]
  BY <1>0, <1>1 DEF Restores
<1>2. CASE Reads(w)
  <2>1. CASE FailEvent(w)
    <3>1. PICK d \in Deliveries \cup {None} :
            worker' = [worker EXCEPT ![w] = [worker[w] EXCEPT !.pc = "restore", !.fallback = d]]
      BY <2>1, FailEventEffect
    <3> QED BY <1>0, <2>1, <3>1, FailEventEffect DEF WorkerState
  <2>2. CASE ReadCursor(w)
    BY <1>0, <1>2, <2>2, ReadsEffect, ReadCursorEffect DEF Restores, WorkerState
  <2>3. CASE ReadEvent(w) \/ ReadStatus(w)
    BY <1>0, <2>3, ReadEventEffect DEF ReadStatus, Failing, WorkerState
  <2> QED BY <1>2, <2>1, <2>2, <2>3 DEF Reads
<1>3. CASE Leaves(w)
  BY <1>0, <1>3, LeavesEffect
<1>4. ASSUME NEW r \in Runs, Take(w, r) PROVE worker'[w] = worker[w]
  BY <1>0, <1>4, TakeEffect
<1>5. ASSUME \/ Load(w) \/ MarkRunning(w) \/ Resolve(w) \/ BuildFails(w) \/ Rebuild(w)
             \/ Commit(w) \/ FailBuild(w)
             \/ DispatchPending(w) \/ ReleaseBlocked(w) \/ NothingToDispatch(w)
             \/ SendNext(w) \/ SendNextFails(w) \/ CrashWorker(w)
      PROVE  FALSE
  BY <1>0, <1>5 DEF Load, MarkRunning, Resolve, BuildFails, Rebuild, Commit, FailBuild,
                    DispatchPending, ReleaseBlocked, NothingToDispatch, SendNext,
                    SendNextFails, CrashWorker, Step, Ack, IdleWorker, WorkerState
<1>6. CASE WorkerNext /\ WorkerAction(w)
  BY <1>1, <1>2, <1>3, <1>4, <1>5, <1>6
     DEF WorkerAction, WorkerStep, Reads, Leaves, Duplicate
<1> QED BY <1>1, <1>6, OtherWorker DEF Next

\* A request that has decided has locked the row that it has found.
LEMMA DecidedRow ==
  ASSUME TypeOK, NEW h \in Handlers, Decide(h)
  PROVE  /\ Locks(h)' => /\ Recorded(handler[h].d)
                         /\ ~RowLockedByOther(handler[h].d, h)
         /\ handler'[h].d = handler[h].d
         /\ \A g \in Handlers \ {h} : handler'[g] = handler[g]
         /\ UNCHANGED <<events, trigger>>
<1>1. handler'[h].row = Recorded(handler[h].d) /\ UNCHANGED <<events, trigger>>
  BY DEF Decide, IdleHandler, TypeOK, IntakeTypeOK, tableVars, dbVars, runVars
<1>2. handler'[h].d = handler[h].d /\ \A g \in Handlers \ {h} : handler'[g] = handler[g]
  BY DecideEffect DEF TypeOK, IntakeTypeOK
<1>3. Recorded(handler[h].d) => ~RowLockedByOther(handler[h].d, h)
  BY DEF Decide
<1> QED BY <1>1, <1>2, <1>3 DEF Locks

\* A step of a request, a worker or the environment leaves the rows as RowsInv has them.
LEMMA RowsStep ==
  ASSUME TypeOK, IntakeInv, SendersInv, RunsInv, RowsInv, SettlingInv, Next
  PROVE  RowsInv'
<1>1. ASSUME NEW d \in Deliveries, ~Recorded(d)' PROVE events'[d].run = None
  BY <1>1, RecordedKept
<1>2. ASSUME NEW r \in Runs, trigger'[r] # None PROVE events'[trigger'[r]].status # "absent"
  <2>1. CASE trigger'[r] = trigger[r]
    <3>1. trigger[r] \in Deliveries /\ Recorded(trigger[r])
      BY <1>2, <2>1 DEF RowsInv, TypeOK, TablesTypeOK
    <3> QED BY <2>1, <3>1, RecordedKept DEF Recorded
  <2>2. CASE trigger'[r] # trigger[r]
    BY <1>2, <2>2, TriggerRow
  <2> QED BY <2>1, <2>2
<1>3. ASSUME NEW h \in Handlers, Locks(h)'
      PROVE  /\ events'[handler'[h].d].status # "absent"
             /\ \A g \in Handlers : Locks(g)' /\ handler'[g].d = handler'[h].d => g = h
             /\ \A w \in Workers : Restores(w)' => FailedEvent(w)' # handler'[h].d
  <2>0. \A g \in Handlers : Locks(g)' => Decide(g) \/ (handler'[g] = handler[g] /\ Locks(g))
    BY RecordOrigin DEF Locks
  <2>1. handler[h].d \in Deliveries /\ handler'[h].d = handler[h].d /\ Recorded(handler[h].d)
    <3>1. handler[h].pc \in {"decide", "record"}
      BY <1>3, <2>0 DEF Decide, Locks
    <3> QED BY <1>3, <2>0, <3>1, DecidedRow, HandlerData DEF IntakeInv, RowsInv
  <2>2. events'[handler'[h].d].status # "absent"
    BY <2>1, RecordedKept DEF Recorded
  <2>3. ASSUME NEW f \in Handlers, Decide(f), Locks(f)', NEW e \in Handlers, e # f,
               Locks(e)', handler'[e].d = handler'[f].d
        PROVE  FALSE
    <3>1. handler'[e] = handler[e] /\ handler[e].d = handler[f].d
          /\ ~RowLockedByOther(handler[f].d, f)
      BY <2>3, DecidedRow
    <3> QED BY <2>3, <3>1 DEF Locks, RowLockedByOther, LockedBy
  <2>4. ASSUME NEW g \in Handlers, Locks(g)', handler'[g].d = handler'[h].d PROVE g = h
    <3>1. CASE Decide(g) \/ Decide(h)
      BY <1>3, <2>3, <2>4, <3>1
    <3>2. CASE ~Decide(g) /\ ~Decide(h)
      BY <1>3, <2>0, <2>4, <3>2 DEF RowsInv
    <3> QED BY <3>1, <3>2
  <2>5. ASSUME NEW w \in Workers, Restores(w)' PROVE FailedEvent(w)' # handler'[h].d
    <3>1. /\ worker[w].pc # "idle" /\ FailedEvent(w)' = FailedEvent(w)
          /\ FailEvent(w) \/ Restores(w)
          /\ IsWebhook(FailedRun(w)) <=> FailedEvent(w) # None
      BY <2>5, RestoresOrigin, FailedEventKept
    <3>2. CASE FailEvent(w)
      <4>1. Locks(h)
        <5>1. ~Decide(h)
          <6>1. worker'[w].pc # worker[w].pc
            BY <2>5, <3>2, FailEventEffect DEF Restores, TypeOK, WorkerTypeOK
          <6>2. UNCHANGED handler
            BY <6>1 DEF Next
          <6> QED BY <6>2, DecideEffect DEF TypeOK, IntakeTypeOK
        <5> QED BY <1>3, <2>0, <5>1
      <4>2. FailedEvent(w) # None => ~RowLocked(FailedEvent(w))
        BY <3>1, <3>2 DEF FailEvent, TriggerFree, FailedEvent
      <4> QED BY <2>1, <3>1, <4>1, <4>2, NoneAssumption DEF RowLocked, LockedBy, Locks
    <3>3. CASE Restores(w) /\ Decide(h)
      BY <1>3, <2>1, <3>1, <3>3, DecidedRow DEF RowLockedByOther, Restored, FailedEvent
    <3>4. CASE Restores(w) /\ ~Decide(h)
      BY <1>3, <2>0, <2>1, <3>1, <3>4 DEF RowsInv
    <3> QED BY <3>1, <3>2, <3>3, <3>4
  <2> QED BY <2>2, <2>4, <2>5
<1>4. ASSUME NEW w \in Workers, Restores(w)'
      PROVE  /\ FailedEvent(w)' # None
             /\ worker'[w].seen # "absent" /\ worker'[w].loaded # NoEvent
             /\ worker'[w].next = None => Mine(w)' /\ worker'[w].seen # "succeeded"
             /\ Never({"sendError"})' => worker'[w].next = None
  <2>1. /\ worker[w].pc # "idle" /\ FailedEvent(w)' = FailedEvent(w)
        /\ worker'[w].run = worker[w].run /\ worker'[w].next = worker[w].next
        /\ worker'[w].seen = worker[w].seen /\ worker'[w].loaded = worker[w].loaded
        /\ FailEvent(w) \/ Restores(w)
        /\ FailedRun(w)' = FailedRun(w)
        /\ IsWebhook(FailedRun(w)) <=> FailedEvent(w) # None
    BY <1>4, RestoresOrigin, FailedEventKept
  <2>2. Never({"sendError"})' => Never({"sendError"})
    BY IncidentsGrow DEF Never
  <2>3. Mine(w) /\ worker[w].next = None => Mine(w)'
    BY <2>1 DEF Mine, IsWebhook, FailedEvent, FailedRun
  <2>4. CASE Restores(w)
    BY <2>1, <2>2, <2>3, <2>4 DEF RowsInv
  <2>5. CASE FailEvent(w)
    <3>1. /\ worker[w].pc \in {"fail", "sendFail"} /\ worker[w].seen # "absent"
          /\ EventRead(w) /\ FailsEvent(w)
      BY <2>5 DEF FailEvent, HasRead, At
    <3>2. CASE worker[w].pc = "fail"
      <4>1. worker[w].next = None /\ Mine(w) /\ worker[w].seen # "succeeded"
        BY <3>1, <3>2 DEF RunsInv, FailsEvent, At
      <4>2. FailedEvent(w) # None /\ worker[w].loaded # NoEvent
        BY <2>1, <3>1, <4>1 DEF Mine, FailedRun, EventRead
      <4> QED BY <2>1, <2>3, <3>1, <4>1, <4>2
    <3>3. CASE worker[w].pc = "sendFail"
      <4>1. worker[w].next # None /\ trigger[worker[w].next] # None
        BY <3>3 DEF SendersInv, TypeOK, WorkerTypeOK, HasRuns
      <4>2. FailedEvent(w) # None /\ worker[w].loaded # NoEvent
        BY <2>1, <3>1, <4>1 DEF FailedEvent, FailedRun, EventRead
      <4>3. ~Never({"sendError"})
        BY <3>3 DEF SettlingInv
      <4> QED BY <2>1, <2>2, <3>1, <4>1, <4>2, <4>3
    <3> QED BY <3>1, <3>2, <3>3
  <2> QED BY <2>1, <2>4, <2>5
<1> QED BY <1>1, <1>2, <1>3, <1>4 DEF RowsInv, Recorded

(***************************************************************************)
(* LoadedInv: what has been read of an event is still true enough.         *)
(***************************************************************************)
\* The trigger event of a run that has been pending is not recorded again.
LEMMA Claimed ==
  ASSUME TypeOK, RowsInv, OnceInv, NEW r \in Runs, Made(r), trigger[r] # None
  PROVE  ~Unclaimed(trigger[r])
<1>1. ASSUME NEW h \in Handlers, handler[h].d = trigger[r] PROVE FALSE
  BY <1>1 DEF OnceInv, RowsInv
<1>2. ASSUME NEW q \in Runs, ~Made(q), trigger[q] = trigger[r] PROVE FALSE
  BY <1>2 DEF OnceInv
<1> QED BY <1>1, <1>2 DEF Unclaimed

\* An event that has been told its end is told nothing else, except by a failed sending.
LEMMA ToldKept ==
  ASSUME TypeOK, IntakeInv, SendersInv, RowsInv, OnceInv, Next,
         NEW r \in Runs, Made(r), trigger[r] # None,
         \A h \in Handlers : handler[h].pc # "undo",
         events[trigger[r]].status \in {"completed", "failed"}
  PROVE  events'[trigger[r]].status \in {"completed", "failed"}
<1>1. trigger[r] \in Deliveries /\ ~Unclaimed(trigger[r])
  BY Claimed DEF TypeOK, TablesTypeOK
<1>2. \A h \in Handlers : ~Undo(h)
  BY DEF Undo
<1> QED BY <1>1, <1>2, RowWritten DEF Column

\* An event that fails has been failed by the worker that wrote it.
LEMMA FailedByWorker ==
  ASSUME TypeOK, IntakeInv, SendersInv, RowsInv, Next, NEW d \in Deliveries,
         events'[d].status = "failed", events[d].status # "failed"
  PROVE  \E w \in Workers : CommitFailure(w) /\ d = FailedEvent(w)
  BY RowWritten DEF Column

\* Without redeliveries an event fails with its run.
LEMMA FailedRows ==
  ASSUME TypeOK, IntakeInv, SendersInv, RunsInv, RowsInv, OnceInv, Next, NEW d \in Deliveries,
         events[d].status = "failed" /\ events[d].run # None => status[events[d].run] \in Done,
         events'[d].status = "failed", events'[d].run # None
  PROVE  status'[events'[d].run] \in Done
<1>1. ASSUME events'[d].run = events[d].run, events[d].status = "failed"
      PROVE  status'[events'[d].run] \in Done
  <2>1. status[events[d].run] \in Done /\ events[d].run \in Runs
    BY <1>1 DEF TypeOK, TablesTypeOK, Event
  <2> QED BY <1>1, <2>1, StatusMoves
<1>2. ASSUME NEW w \in Workers, CommitFailure(w), FailedRun(w) \in Runs,
             events'[d].run = FailedRun(w)
      PROVE  status'[events'[d].run] \in Done
  <2>1. MarkFailed(w) /\ WorkerRunOK(w)
    BY <1>2 DEF CommitFailure, RunsInv, WorkerRunOK
  <2> QED BY <1>2, <2>1, FailedIsDone
<1>3. \A r \in Runs : d = trigger[r] => events[d].run = r
  BY NoneAssumption DEF OnceInv
<1> QED BY <1>1, <1>2, <1>3, RowWritten DEF Column, FailedEvent

\* What a worker has read, while it does nothing.
LoadedOK(w) == worker[w].loaded # NoEvent =>
    /\ worker[w].pc \in {"finish", "fail", "sendFail", "restore", "upsert"}
    /\ FailedRun(w) \in Runs /\ FailedEvent(w) # None
    /\ worker[w].loaded.run = FailedRun(w)
    /\ worker[w].loaded.decision = "queued"
    /\ Never({"sendError"}) /\ worker[w].loaded.status \in {"completed", "failed"}
          => events[FailedEvent(w)].status \in {"completed", "failed"}

LEMMA LoadedKept ==
  ASSUME TypeOK, IntakeInv, SendersInv, RunsInv, RowsInv, OnceInv, SettlingInv, Next,
         NEW w \in Workers, LoadedOK(w),
         worker'[w].loaded = worker[w].loaded,
         worker'[w].run = worker[w].run, worker'[w].next = worker[w].next,
         worker[w].pc \in {"finish", "fail", "sendFail", "restore", "upsert"}
           => worker'[w].pc \in {"finish", "fail", "sendFail", "restore", "upsert"}
  PROVE  LoadedOK(w)'
<1> SUFFICES ASSUME worker[w].loaded # NoEvent PROVE LoadedOK(w)'
  BY DEF LoadedOK
<1>1. /\ FailedRun(w) \in Runs /\ Made(FailedRun(w))
      /\ FailedRun(w)' = FailedRun(w) /\ FailedEvent(w)' = FailedEvent(w)
  BY FailedEventKept DEF LoadedOK
<1>2. FailedEvent(w) # None /\ FailedEvent(w) = trigger[FailedRun(w)]
  BY DEF LoadedOK, FailedEvent
<1>3. ASSUME Never({"sendError"})', events[FailedEvent(w)].status \in {"completed", "failed"}
      PROVE  events'[FailedEvent(w)].status \in {"completed", "failed"}
  <2>1. \A h \in Handlers : handler[h].pc # "undo"
    BY <1>3, IncidentsGrow DEF Never, SettlingInv
  <2> QED BY <1>1, <1>2, <1>3, <2>1, ToldKept
<1>4. Never({"sendError"})' => Never({"sendError"})
  BY IncidentsGrow DEF Never
<1> QED BY <1>1, <1>3, <1>4 DEF LoadedOK

LEMMA LoadedStep ==
  ASSUME TypeOK, IntakeInv, SendersInv, RunsInv, RowsInv, DeliveriesInv, LoadedInv,
         SettlingInv, Next
  PROVE  LoadedInv'
<1> USE DEF tableVars
<1> SUFFICES ASSUME Never({"redelivery"})'
             PROVE  /\ \A d \in Deliveries : events'[d].status = "failed" /\ events'[d].run # None
                          => status'[events'[d].run] \in Done
                    /\ \A w \in Workers : LoadedOK(w)'
  BY DEF LoadedInv, LoadedOK
<1>1. /\ OnceInv /\ \A w \in Workers : LoadedOK(w)
      /\ \A d \in Deliveries : events[d].status = "failed" /\ events[d].run # None
            => status[events[d].run] \in Done
  BY IncidentsGrow DEF Never, DeliveriesInv, LoadedInv, LoadedOK
<1>2. ASSUME NEW w \in Workers PROVE LoadedOK(w)'
  <2>0. worker \in [Workers -> WorkerState]
    BY DEF TypeOK, WorkerTypeOK
  <2>1. CASE worker'[w] = worker[w]
    BY <1>1, <2>1, LoadedKept
  <2>2. CASE ReadEvent(w)
    <3>1. /\ FailedRun(w) \in Runs /\ trigger[FailedRun(w)] \in Deliveries
          /\ worker[w].pc \in {"finish", "fail", "sendFail"}
          /\ worker'[w] = [worker[w] EXCEPT !.loaded = events[trigger[FailedRun(w)]]]
          /\ UNCHANGED <<events, trigger>>
      BY <2>0, <2>2, ReadEventEffect DEF dbVars, runVars
    <3>2. /\ events[trigger[FailedRun(w)]].run = FailedRun(w)
          /\ events[trigger[FailedRun(w)]].decision = "queued"
      BY <1>1, <3>1, NoneAssumption DEF OnceInv
    <3>3. /\ worker'[w].pc = worker[w].pc /\ FailedRun(w)' = FailedRun(w)
          /\ worker'[w].loaded = events[trigger[FailedRun(w)]]
      BY <2>0, <3>1 DEF FailedRun, WorkerState
    <3>4. FailedEvent(w)' = trigger[FailedRun(w)]
      BY <3>1, <3>3 DEF FailedEvent
    <3> QED BY <3>1, <3>2, <3>3, <3>4, NoneAssumption DEF LoadedOK
  <2>3. CASE ReadStatus(w) \/ FailEvent(w) \/ ReadCursor(w)
    <3>1. CASE FailEvent(w)
      <4>1. PICK d \in Deliveries \cup {None} :
              worker' = [worker EXCEPT ![w] = [worker[w] EXCEPT !.pc = "restore", !.fallback = d]]
        BY <3>1, FailEventEffect
      <4> QED BY <1>1, <2>0, <4>1, LoadedKept DEF WorkerState
    <3>2. CASE ReadCursor(w)
      <4>1. worker' = [worker EXCEPT ![w] = [worker[w] EXCEPT !.pc = "upsert", !.latest = cursor]]
        BY <3>2, ReadCursorEffect
      <4> QED BY <1>1, <2>0, <4>1, LoadedKept DEF WorkerState
    <3>3. CASE ReadStatus(w)
      BY <1>1, <2>0, <3>3, LoadedKept DEF ReadStatus, WorkerState
    <3> QED BY <2>3, <3>1, <3>2, <3>3
  <2>4. CASE Leaves(w)
    BY <2>4, LeavesEffect DEF LoadedOK
  <2>8. ASSUME NEW r \in Runs, Take(w, r)
        PROVE  worker'[w].loaded = NoEvent \/ worker'[w] = worker[w]
    <3> DEFINE b == IsWebhook(r) /\ status[r] = "running"
    <3>1. \/ worker' = worker
          \/ worker' = [worker EXCEPT ![w] =
                 [IdleWorker EXCEPT !.pc = "load", !.run = r, !.allow = b]]
      BY <2>8 DEF Take
    <3> HIDE DEF b
    <3> QED BY <2>0, <3>1 DEF IdleWorker
  <2>5. ASSUME NothingToDispatch(w) \/ SendNext(w) \/ CrashWorker(w)
        PROVE  worker'[w].loaded = NoEvent
    BY <2>0, <2>5 DEF NothingToDispatch, SendNext, CrashWorker, Ack, IdleWorker
  <2>6. ASSUME \/ Load(w) \/ MarkRunning(w) \/ Resolve(w) \/ BuildFails(w) \/ Rebuild(w)
               \/ Commit(w) \/ FailBuild(w)
               \/ DispatchPending(w) \/ ReleaseBlocked(w) \/ SendNextFails(w)
        PROVE  worker'[w].loaded = NoEvent
    <3>1. worker[w].pc \notin {"finish", "fail", "sendFail", "restore", "upsert"}
      BY <2>6 DEF Load, MarkRunning, Resolve, BuildFails, Rebuild, Commit, FailBuild,
                  DispatchPending, ReleaseBlocked, SendNextFails, HasRead, At
    <3>2. worker[w].loaded = NoEvent
      BY <1>1, <3>1 DEF LoadedOK
    <3> QED BY <2>0, <2>6, <3>2
            DEF Load, MarkRunning, Resolve, BuildFails, Rebuild, Commit, FailBuild,
                DispatchPending, ReleaseBlocked, SendNextFails, Step, WorkerState
  <2>7. CASE WorkerNext /\ WorkerAction(w)
    BY <2>1, <2>2, <2>3, <2>4, <2>5, <2>6, <2>7, <2>8
       DEF WorkerAction, WorkerStep, Reads, Leaves, Duplicate, LoadedOK
  <2> QED BY <2>1, <2>7, OtherWorker DEF Next
<1> QED BY <1>1, <1>2, FailedRows

(***************************************************************************)
(* CursorInv: the cursor names no failed event, unless failures overlap.   *)
(***************************************************************************)
\* The cursor is moved by a request, to the event that it has just written, or by a
\* failure transaction.
LEMMA CursorOrigin ==
  ASSUME TypeOK, IntakeInv, Next, cursor' # cursor
  PROVE  \/ \E h \in Handlers : /\ cursor' = handler[h].d /\ cursor' \in Deliveries
                                /\ handler[h].pc = "record"
                                /\ handler[h].row \/ ~Recorded(handler[h].d)
                                /\ events'[cursor'].status # "failed"
         \/ \E w \in Workers : CommitFailure(w)
<1> USE DEF tableVars, dbVars, runVars
<1>1. ASSUME NEW h \in Handlers, Record(h)
      PROVE  /\ cursor' = handler[h].d /\ cursor' \in Deliveries
             /\ handler[h].pc = "record" /\ (handler[h].row \/ ~Recorded(handler[h].d))
             /\ events'[cursor'].status # "failed"
  <2>1. JoinPending(h) \/ CreateBlocked(h) \/ CreatePending(h) \/ ReplaceBlocked(h)
    BY <1>1 DEF Record, LoseInsert, RecordOnly, JoinCancelled, JoinConcurrent
  <2>2. Recording(h) /\ cursor' = handler[h].d
    BY <2>1 DEF JoinPending, CreateBlocked, CreatePending, ReplaceBlocked
  <2>3. handler[h].d \in Deliveries /\ MyEvents(h) \in [Deliveries -> Event]
    BY <2>2, HandlerData, MyEventsType DEF IntakeInv, Recording
  <2>4. ASSUME NEW evs \in [Deliveries -> Event], NEW s \in {"queued", "validated"}, NEW r,
               events' = Settle(evs, handler[h].d, "queued", s, r)
        PROVE  events'[cursor'].status # "failed"
    BY <2>2, <2>3, <2>4, SettleEffect
  <2>5. events'[cursor'].status # "failed"
    <3>1. CASE JoinPending(h)
      <4>1. events' = Settle(MyEvents(h), handler[h].d, "queued", "queued", handler[h].run)
        BY <3>1 DEF JoinPending
      <4> QED BY <2>3, <2>4, <4>1
    <3>2. CASE CreateBlocked(h) \/ CreatePending(h)
      <4>1. PICK r \in Runs :
              \/ events' = Settle(MyEvents(h), handler[h].d, "queued", "validated", r)
              \/ events' = Settle(MyEvents(h), handler[h].d, "queued", "queued", r)
        BY <3>2 DEF CreateBlocked, CreatePending
      <4> QED BY <2>3, <2>4, <4>1
    <3>3. CASE ReplaceBlocked(h)
      <4>1. PICK r \in Runs :
              events' = Settle(IF trigger[r] \in {None, handler[h].d} THEN MyEvents(h)
                               ELSE Settle(MyEvents(h), trigger[r], "duplicate_head",
                                           "completed", r),
                               handler[h].d, "queued", "validated", r)
        BY <3>3 DEF ReplaceBlocked, WithStatus
      <4> DEFINE retired == Settle(MyEvents(h), trigger[r], "duplicate_head", "completed", r)
      <4>2. retired \in [Deliveries -> Event]
        BY <2>3, SettleType DEF Decisions, EventStatus
      <4>3. \/ events' = Settle(MyEvents(h), handler[h].d, "queued", "validated", r)
            \/ events' = Settle(retired, handler[h].d, "queued", "validated", r)
        BY <4>1
      <4> HIDE DEF retired
      <4> QED BY <2>3, <2>4, <4>2, <4>3
    <3> QED BY <2>1, <3>1, <3>2, <3>3
  <2> QED BY <2>2, <2>3, <2>5 DEF Recording
<1>2. ASSUME NEW w \in Workers, WorkerAction(w) PROVE CommitFailure(w)
  <2>1. CASE Reads(w)
    BY <2>1, ReadsEffect
  <2>2. CASE Leaves(w)
    BY <2>2, LeavesEffect
  <2>3. CASE ~Reads(w) /\ ~Leaves(w)
    BY <1>2, <2>3
       DEF WorkerAction, WorkerStep, Reads, Leaves, Take, Load, MarkRunning, Resolve,
           BuildFails, Rebuild, Commit, FailBuild, DispatchPending, ReleaseBlocked,
           NothingToDispatch, SendNext, SendNextFails, CrashWorker, Duplicate
  <2> QED BY <2>1, <2>2, <2>3
<1>3. ASSUME NEW h \in Handlers,
             \/ \E d \in Deliveries : Receive(h, d)
             \/ Decide(h) \/ Claim(h) \/ SendTask(h) \/ SendTaskFails(h) \/ ReadUndone(h)
             \/ Undo(h) \/ CrashHandler(h)
      PROVE  FALSE
  BY <1>3 DEF Receive, Decide, Claim, SendTask, SendTaskFails, ReadUndone, Undo, CrashHandler
<1>4. ~ManualNext /\ ~Environment
  BY DEF ManualNext, ManualStep, RequestSnapshot, SendManual, SendManualFails, Cancel,
         CrashManual, Environment, Push, Age
<1> QED BY <1>1, <1>2, <1>3, <1>4
        DEF Next, IntakeNext, HandlerStep, WorkerNext, WorkerAction

LEMMA CursorStep ==
  ASSUME TypeOK, IntakeInv, SendersInv, RunsInv, RowsInv, CursorInv, Next
  PROVE  CursorInv'
<1> SUFFICES ASSUME Never({"overlap"})' PROVE CursorInv'
  BY DEF CursorInv
<1>1. /\ cursor # None => events[cursor].status # "failed"
      /\ \A v, w \in Workers : Restores(v) /\ Restores(w) => v = w
      /\ \A w \in Workers : Restores(w) =>
            /\ worker[w].fallback # None => /\ events[worker[w].fallback].status # "failed"
                                            /\ worker[w].fallback # FailedEvent(w)
            /\ At(w, "upsert") /\ cursor = FailedEvent(w)
                  => worker[w].latest = FailedEvent(w)
  BY IncidentsGrow DEF Never, CursorInv
<1>2. \A w \in Workers : CommitFailure(w) => Restores(w) /\ At(w, "upsert")
  BY DEF CommitFailure, At, Restores
<1>3. ASSUME NEW v \in Workers, NEW w \in Workers, Restores(v)', Restores(w)', v # w
      PROVE  FALSE
  <2>1. ASSUME NEW x \in Workers, NEW y \in Workers, x # y, FailEvent(x), Restores(y)'
        PROVE  FALSE
    <3>1. worker'[y] = worker[y]
      BY <2>1, ReadsEffect DEF Reads
    <3>2. Restores(y)
      BY <2>1, <3>1 DEF Restores
    <3>3. Collides("overlap")
      BY <2>1, <3>2 DEF FailEvent
    <3> QED BY <3>3 DEF Collides, Never, TypeOK, TablesTypeOK
  <2>2. CASE FailEvent(v) \/ FailEvent(w)
    BY <1>3, <2>1, <2>2
  <2>3. CASE ~FailEvent(v) /\ ~FailEvent(w)
    BY <1>1, <1>3, <2>3, RestoresOrigin
  <2> QED BY <2>2, <2>3
<1>4. ASSUME NEW d \in Deliveries, events[d].status # "failed", events'[d].status = "failed"
      PROVE  \E w \in Workers : CommitFailure(w) /\ d = FailedEvent(w)
  BY <1>4, FailedByWorker
<1>5. ASSUME NEW w \in Workers, CommitFailure(w), cursor' # None
      PROVE  /\ cursor' # FailedEvent(w)
             /\ \/ cursor' = cursor
                \/ cursor' = worker[w].fallback /\ worker[w].fallback \in Deliveries
  <2>1. RestoreCursor(FailedEvent(w), worker[w].fallback, worker[w].latest)
    BY <1>5 DEF CommitFailure, FailedEvent
  <2>2. /\ worker[w].fallback \in Deliveries \cup {None}
        /\ worker[w].fallback # None => worker[w].fallback # FailedEvent(w)
        /\ cursor = FailedEvent(w) => worker[w].latest = FailedEvent(w)
    BY <1>1, <1>2, <1>5, WorkerData
  <2> QED BY <1>5, <2>1, <2>2 DEF RestoreCursor, Column
<1>6. ASSUME cursor' # None, events'[cursor'].status = "failed" PROVE FALSE
  <2>1. CASE cursor' = cursor
    <3>1. cursor \in Deliveries
      BY <1>6, <2>1 DEF TypeOK, TablesTypeOK
    <3> QED BY <1>1, <1>4, <1>5, <1>6, <2>1, <3>1
  <2>2. CASE cursor' # cursor
    <3>1. PICK w \in Workers : CommitFailure(w)
      BY <1>6, <2>2, CursorOrigin
    <3>2. cursor' = worker[w].fallback /\ cursor' \in Deliveries /\ cursor' # FailedEvent(w)
      BY <1>5, <1>6, <2>2, <3>1
    <3>3. events[cursor'].status # "failed"
      BY <1>1, <1>2, <1>6, <3>1, <3>2
    <3>4. PICK v \in Workers : CommitFailure(v) /\ cursor' = FailedEvent(v)
      BY <1>4, <1>6, <3>2, <3>3
    <3> QED BY <1>1, <1>2, <3>1, <3>2, <3>4
  <2> QED BY <2>1, <2>2
<1>7. ASSUME NEW w \in Workers, Restores(w)'
      PROVE  /\ worker'[w].fallback # None =>
                   /\ events'[worker'[w].fallback].status # "failed"
                   /\ worker'[w].fallback # FailedEvent(w)'
             /\ worker'[w].pc = "upsert" /\ cursor' = FailedEvent(w)'
                   => worker'[w].latest = FailedEvent(w)'
  <2>1. FailedEvent(w)' = FailedEvent(w)
    BY <1>7, RestoresOrigin, FailedEventKept
  <2>2. CASE FailEvent(w) /\ worker'[w].pc = "restore"
    <3>1. PICK d \in Deliveries \cup {None} :
            /\ IsFallback(d, FailedEvent(w)) /\ UNCHANGED events
            /\ worker' = [worker EXCEPT ![w] = [worker[w] EXCEPT !.pc = "restore", !.fallback = d]]
      BY <2>2, FailEventEffect DEF FailedEvent, dbVars
    <3>2. worker'[w].fallback = d
      BY <3>1 DEF TypeOK, WorkerTypeOK, WorkerState
    <3> QED BY <2>1, <2>2, <3>1, <3>2 DEF IsFallback, Fallbacks
  <2>3. CASE /\ Restores(w) /\ worker'[w].fallback = worker[w].fallback
             /\ ReadCursor(w) \/ worker'[w] = worker[w]
    <3>1. ~CommitFailure(w)
      <4>1. ASSUME CommitFailure(w) PROVE worker'[w].pc \in {"idle", "dispatch"}
        BY <4>1, LeavesEffect DEF Leaves
      <4> QED BY <1>7, <4>1 DEF Restores
    <3>2. \A v \in Workers : ~CommitFailure(v)
      BY <1>1, <1>2, <2>3, <3>1
    <3>3. ASSUME worker[w].fallback # None
          PROVE  /\ events'[worker[w].fallback].status # "failed"
                 /\ worker[w].fallback # FailedEvent(w)
      BY <1>1, <1>4, <2>3, <3>2, <3>3, WorkerData
    <3>4. ASSUME worker'[w].pc = "upsert", cursor' = FailedEvent(w)
          PROVE  worker'[w].latest = FailedEvent(w)
      <4>1. CASE ReadCursor(w)
        BY <3>4, <4>1, ReadCursorEffect
           DEF TypeOK, WorkerTypeOK, WorkerState, tableVars, dbVars
      <4>2. CASE worker'[w] = worker[w] /\ cursor' = cursor
        BY <1>1, <2>3, <3>4, <4>2 DEF At
      <4>3. CASE cursor' # cursor
        <5>1. PICK h \in Handlers : /\ cursor' = handler[h].d /\ handler[h].pc = "record"
                                    /\ handler[h].row \/ ~Recorded(handler[h].d)
          BY <3>2, <4>3, CursorOrigin
        <5>2. FailedEvent(w) # None /\ FailedRun(w) \in Runs
          BY <1>7, <2>3, RestoresOrigin, FailedEventKept DEF RowsInv
        <5>3. Recorded(handler[h].d)
          BY <3>4, <5>1, <5>2 DEF RowsInv, FailedEvent
        <5> QED BY <2>3, <3>4, <5>1, <5>3 DEF RowsInv, Locks
      <4> QED BY <2>3, <4>1, <4>2, <4>3
    <3> QED BY <2>1, <2>3, <3>3, <3>4
  <2> QED BY <1>7, <2>2, <2>3, RestoresOrigin
<1> QED BY <1>3, <1>6, <1>7 DEF CursorInv, At

(***************************************************************************)
(* SettlingInv: a run that is over has its event told so.                  *)
(***************************************************************************)
\* Whose step gives a run another status, and which.
LEMMA StatusActor ==
  ASSUME TypeOK, Next, NEW r \in Runs, status'[r] # status[r]
  PROVE  \/ ~Made(r) /\ status'[r] \in {"blocked", "pending"}
         \/ status[r] = "pending" /\ status'[r] = "cancelled"
         \/ \E w \in Workers : /\ MarkRunning(w) /\ worker[w].run = r
                               /\ status[r] = "pending" /\ status'[r] = "running"
         \/ \E w \in Workers : /\ Commit(w) /\ worker[w].run = r
                               /\ status'[r] = "succeeded"
         \/ \E w \in Workers : /\ FailBuild(w) \/ FailTask(w) \/ CommitFailure(w)
                               /\ FailedRun(w) = r /\ worker[w].seen \notin Done
                               /\ status'[r] = "failed"
<1> USE DEF tableVars, dbVars, runVars
<1>1. ASSUME NEW w \in Workers, FailBuild(w) \/ FailTask(w) \/ CommitFailure(w)
      PROVE  FailedRun(w) = r /\ worker[w].seen \notin Done /\ status'[r] = "failed"
  <2>1. MarkFailed(w)
    BY <1>1 DEF FailBuild, FailTask, CommitFailure
  <2> QED BY <2>1 DEF MarkFailed, Marks, Done, TypeOK, TablesTypeOK
<1>2. ASSUME NEW w \in Workers, MarkRunning(w)
      PROVE  worker[w].run = r /\ status[r] = "pending" /\ status'[r] = "running"
  BY <1>2 DEF MarkRunning, TypeOK, TablesTypeOK
<1>3. ASSUME NEW w \in Workers, Commit(w)
      PROVE  worker[w].run = r /\ status'[r] = "succeeded"
  BY <1>3 DEF Commit, TypeOK, TablesTypeOK
<1>4. ASSUME NEW w \in Workers, ReleaseBlocked(w)
      PROVE  ~Made(r) /\ status'[r] = "pending"
  BY <1>4 DEF ReleaseBlocked, Releasable, Made, TypeOK, TablesTypeOK
<1>5. ASSUME NEW w \in Workers, Reads(w) \/ Finish(w) \/ RollBackFailure(w) PROVE FALSE
  BY <1>5, ReadsEffect, LeavesEffect DEF Leaves
<1>6. ASSUME NEW w \in Workers, WorkerAction(w),
             ~Reads(w), ~Leaves(w),
             ~(FailBuild(w) \/ MarkRunning(w) \/ Commit(w) \/ ReleaseBlocked(w))
      PROVE  FALSE
  BY <1>6 DEF WorkerAction, WorkerStep, Reads, Leaves, Take, Load, Resolve, BuildFails,
              Rebuild, DispatchPending, NothingToDispatch, SendNext, SendNextFails,
              CrashWorker, Duplicate
<1>7. CASE WorkerNext
  BY <1>1, <1>2, <1>3, <1>4, <1>5, <1>6, <1>7 DEF WorkerNext, WorkerAction, Leaves
<1>8. CASE IntakeNext
  BY <1>8, IntakeOnRuns DEF Made
<1>9. CASE ManualNext
  BY <1>9, ManualOnRuns DEF Made
<1>10. CASE Environment
  BY <1>10 DEF Environment, Push, Age
<1> QED BY <1>7, <1>8, <1>9, <1>10 DEF Next

\* A step without a lost worker, and one without a failed sending.
LEMMA LossStep ==
  ASSUME TypeOK, Next, Never({"workerCrash", "cursorConflict"})'
  PROVE  /\ Never({"workerCrash", "cursorConflict"})
         /\ \A w \in Workers : ~CrashWorker(w) /\ ~RollBackFailure(w)
<1>1. Never({"workerCrash", "cursorConflict"})
  BY IncidentsGrow DEF Never
<1>2. ~Happens("workerCrash") /\ ~Collides("cursorConflict")
  BY DEF Happens, Meets, Collides, Never, TypeOK, TablesTypeOK
<1> QED BY <1>1, <1>2 DEF CrashWorker, RollBackFailure

LEMMA SendStep ==
  ASSUME TypeOK, Next, Never({"sendError"})'
  PROVE  /\ Never({"sendError"})
         /\ \A h \in Handlers : ~SendTaskFails(h)
         /\ \A w \in Workers : ~SendNextFails(w)
<1>1. Never({"sendError"})
  BY IncidentsGrow DEF Never
<1>2. ~Happens("sendError")
  BY DEF Happens, Meets, Never
<1> QED BY <1>1, <1>2 DEF SendTaskFails, SendNextFails

\* A worker that has not given its run up goes on with it, unless it is lost: until it
\* has found or made it succeed, or has failed it.
LEMMA EngagedKept ==
  ASSUME TypeOK, Next, NEW r \in Runs, NEW w \in Workers, Engages(w, r), ~CrashWorker(w),
         ~RollBackFailure(w)
  PROVE  \/ Engages(w, r)'
         \/ Load(w) /\ status[r] = "succeeded"
         \/ Commit(w)
         \/ FailTask(w) \/ CommitFailure(w)
<1> DEFINE Good == \/ Engages(w, r)'
                   \/ Load(w) /\ status[r] = "succeeded"
                   \/ Commit(w)
                   \/ FailTask(w) \/ CommitFailure(w)
<1>0. /\ worker \in [Workers -> WorkerState]
      /\ worker[w].run = r /\ worker[w].next = None /\ worker[w].pc \in Engaged
  BY DEF TypeOK, WorkerTypeOK, Engages
<1>1. CASE worker'[w] = worker[w]
  BY <1>0, <1>1 DEF Engages
<1>2. ASSUME Resolve(w) \/ BuildFails(w) \/ Rebuild(w) \/ FailBuild(w)
      PROVE  Good
  BY <1>0, <1>2 DEF Resolve, BuildFails, Rebuild, FailBuild, WorkerState, Engaged, Engages
<1>3. ASSUME Load(w) \/ MarkRunning(w) PROVE Good
  BY <1>0, <1>3 DEF Load, MarkRunning, Step, WorkerState, Engaged, Engages
<1>4. ASSUME \/ \E q \in Runs : Take(w, q)
             \/ Finish(w) \/ DispatchPending(w) \/ ReleaseBlocked(w) \/ NothingToDispatch(w)
             \/ SendNext(w) \/ SendNextFails(w)
      PROVE  FALSE
  BY <1>0, <1>4 DEF Take, Finish, DispatchPending, ReleaseBlocked, NothingToDispatch,
                    SendNext, SendNextFails, At, Engaged
<1>5. CASE Duplicate(w)
  BY <1>1, <1>5 DEF Duplicate
<1>6. CASE Reads(w)
  BY <1>0, <1>6, ReadsEffect DEF Engages, Engaged
<1>7. CASE WorkerNext /\ WorkerAction(w)
  BY <1>2, <1>3, <1>4, <1>5, <1>6, <1>7 DEF WorkerAction, WorkerStep, Reads
<1> QED BY <1>1, <1>7, OtherWorker DEF Next

\* Unless a worker is lost, a running run has a worker that has not given it up.
LEMMA RunningStep ==
  ASSUME TypeOK, LifecycleInv, RunsInv, SettlingInv, Next,
         Never({"workerCrash", "cursorConflict"})',
         NEW r \in Runs, status'[r] = "running"
  PROVE  \E w \in Workers : Engages(w, r)'
<1>0. worker \in [Workers -> WorkerState] /\ status \in [Runs -> RunStatus]
  BY DEF TypeOK, WorkerTypeOK, TablesTypeOK
<1>1. CASE status[r] = "running"
  <2>1. PICK w \in Workers : Engages(w, r)
    BY <1>1, LossStep DEF SettlingInv, RunningAttended
  <2>2. ~Commit(w)
    <3>1. snapshot[r] = None
      BY <1>1 DEF LifecycleInv, NotBuilt
    <3> QED BY <1>0, <2>1, <3>1 DEF Commit, Engages
  <2>3. ~FailTask(w) /\ ~CommitFailure(w)
    <3>1. SUFFICES ASSUME FailTask(w) \/ CommitFailure(w) PROVE FALSE
      OBVIOUS
    <3>2. FailedRun(w) = r /\ MarkFailed(w)
      BY <2>1, <3>1 DEF FailTask, CommitFailure, FailedRun, Engages
    <3>3. worker[w].seen \notin Done
      BY <1>1, <3>2 DEF RunsInv, Done
    <3> QED BY <1>0, <3>2, <3>3 DEF MarkFailed, Marks, Done
  <2> QED BY <1>1, <2>1, <2>2, <2>3, EngagedKept, LossStep
<1>2. CASE status[r] # "running"
  <2>1. PICK w \in Workers : MarkRunning(w) /\ worker[w].run = r /\ status[r] = "pending"
    BY <1>2, StatusActor
  <2>2. worker'[w].run = r /\ worker'[w].pc = "resolve" /\ worker'[w].next = None
    BY <1>0, <2>1 DEF MarkRunning, At, Step, WorkerState, RunsInv
  <2> QED BY <2>2 DEF Engaged, Engages
<1> QED BY <1>1, <1>2

\* A worker that writes its verdict to the event that it has read leaves the event with
\* one, its own or an earlier one.
LEMMA VerdictWritten ==
  ASSUME TypeOK, RunsInv, RowsInv, LoadedInv, Never({"redelivery"}), Never({"sendError"}),
         NEW r \in Runs, trigger[r] # None, NEW w \in Workers, FailedRun(w) = r,
         Finish(w) \/ CommitFailure(w)
  PROVE  events'[trigger[r]].status \in {"completed", "failed"}
<1>0. trigger[r] \in Deliveries /\ events \in [Deliveries -> Event]
      /\ worker[w].loaded \in Event
  BY WorkerData DEF TypeOK, TablesTypeOK
<1>1. worker[w].loaded # NoEvent
  <2>1. CASE Finish(w)
    BY <2>1 DEF Finish, EventRead, IsWebhook
  <2>2. CASE CommitFailure(w)
    BY <2>2 DEF CommitFailure, At, RowsInv, Restores
  <2> QED BY <2>1, <2>2
<1>2. /\ worker[w].loaded.run = r
      /\ worker[w].loaded.status \in {"completed", "failed"}
            => events[trigger[r]].status \in {"completed", "failed"}
  BY <1>1 DEF LoadedInv, FailedEvent
<1>3. PICK s, q : /\ s \in {"completed", "failed"}
                  /\ events' = WriteBack(events, trigger[r], worker[w].loaded, s, q)
  <2>1. CASE Finish(w)
    <3>1. worker[w].run = r
      BY <2>1 DEF Finish, At, RunsInv, FailedRun
    <3>2. Mine(w)
      BY <1>2, <3>1 DEF Mine, IsWebhook
    <3> QED BY <2>1, <3>1, <3>2 DEF Finish
  <2>2. CASE CommitFailure(w)
    BY <2>2 DEF CommitFailure
  <2> QED BY <2>1, <2>2
<1>4. events'[trigger[r]].status = Column(events[trigger[r]].status, worker[w].loaded.status, s)
  BY <1>0, <1>3, WriteBackFields
<1> QED BY <1>2, <1>3, <1>4 DEF Column

\* A worker that fails its run, and has read its event, does not leave the event out.
LEMMA TaskFailsEvent ==
  ASSUME LoadedInv, Never({"redelivery"}), NEW r \in Runs, trigger[r] # None,
         NEW w \in Workers, FailedRun(w) = r, worker[w].run = r, FailTask(w)
  PROVE  worker[w].seen = "succeeded"
<1>1. worker[w].loaded # NoEvent
  BY DEF FailTask, EventRead, IsWebhook
<1>2. Mine(w)
  BY <1>1 DEF LoadedInv, Mine, IsWebhook
<1> QED BY <1>2 DEF FailTask, FailsEvent

\* Who is on the way to the event of a run that is over gets there, unless it is lost or
\* another worker, who has stored the snapshot after all, is on its way there.
LEMMA SettlingKept ==
  ASSUME TypeOK, RunsInv, RowsInv, LoadedInv, Never({"redelivery"}), Never({"sendError"}),
         Next, NEW r \in Runs, NEW w \in Workers, Settling(w, r), ~CrashWorker(w),
         ~RollBackFailure(w),
         trigger[r] # None, status[r] \in {"succeeded", "failed"}
  PROVE  \/ \E v \in Workers : Settling(v, r)'
         \/ events'[trigger[r]].status \in {"completed", "failed"}
<1> DEFINE Good == \/ \E v \in Workers : Settling(v, r)'
                   \/ events'[trigger[r]].status \in {"completed", "failed"}
<1>0. /\ worker \in [Workers -> WorkerState]
      /\ worker[w].run = r /\ worker[w].next = None /\ FailedRun(w) = r
      /\ worker[w].pc \in {"finish", "fail", "restore", "upsert"}
  BY DEF TypeOK, WorkerTypeOK, Settling, RunsInv, FailedRun
<1>1. CASE status'[r] # status[r]
  <2>1. CASE status'[r] = "succeeded"
    <3>1. PICK v \in Workers : Commit(v) /\ worker[v].run = r
      BY <1>1, <2>1, StatusActor DEF Made
    <3>2. worker'[v].run = r /\ worker'[v].pc = "finish"
      BY <1>0, <3>1 DEF Commit, WorkerState
    <3> QED BY <3>2 DEF Settling
  <2>2. CASE status'[r] # "succeeded"
    <3>1. PICK v \in Workers : /\ FailBuild(v) \/ FailTask(v) \/ CommitFailure(v)
                               /\ FailedRun(v) = r /\ worker[v].seen \notin Done
                               /\ status'[r] = "failed"
      BY <1>1, <2>2, StatusActor, StatusMoves DEF Made, Started, Done
    <3>2. worker[w].pc = "finish"
      BY <1>1, <3>1 DEF Settling
    <3>3. v # w
      BY <3>1, <3>2 DEF FailBuild, FailTask, CommitFailure, HasRead, At
    <3>4. worker'[w] = worker[w]
      BY <1>0, <3>1, <3>3, LeavesEffect DEF FailBuild, Leaves
    <3> QED BY <1>0, <3>2, <3>4 DEF Settling
  <2> QED BY <2>1, <2>2
<1>2. CASE status'[r] = status[r] /\ worker'[w] = worker[w]
  BY <1>2 DEF Settling
<1>3. ASSUME status'[r] = status[r], worker'[w] # worker[w] PROVE Good
  <2>1. WorkerAction(w)
    BY <1>3, OtherWorker DEF Next
  <2>2. Reads(w) \/ FailTask(w) \/ CommitFailure(w) \/ Finish(w)
    BY <1>0, <1>3, <2>1
       DEF WorkerAction, WorkerStep, Reads, Take, Load, MarkRunning, Resolve, Commit,
           FailBuild, DispatchPending, ReleaseBlocked, NothingToDispatch,
           SendNext, BuildFails, Rebuild, SendNextFails, Duplicate, HasRead, At
  <2>3. CASE Finish(w) \/ CommitFailure(w)
    BY <1>0, <2>3, VerdictWritten
  <2>4. ASSUME FailTask(w) PROVE FALSE
    BY <1>0, <2>4, TaskFailsEvent DEF Settling, FailTask, HasRead, At
  <2>5. CASE Reads(w)
    <3>1. /\ worker'[w].run = r /\ worker'[w].next = None
          /\ worker'[w].seen \in {worker[w].seen, status[r]}
          /\ worker'[w].pc = worker[w].pc \/ worker'[w].pc \in {"restore", "upsert"}
          /\ worker'[w].pc # worker[w].pc => worker[w].pc # "finish"
      BY <1>0, <2>5, ReadsEffect
    <3> QED BY <1>0, <1>3, <3>1 DEF Settling
  <2> QED BY <2>2, <2>3, <2>4, <2>5
<1> QED BY <1>1, <1>2, <1>3

\* Who brings a run to its end settles its event or is on the way to it.
LEMMA SettlingBegins ==
  ASSUME TypeOK, RunsInv, RowsInv, LoadedInv, Never({"redelivery"}), Never({"sendError"}),
         Next, NEW r \in Runs, trigger[r] # None, Made(r),
         status[r] \notin {"succeeded", "failed"}, status'[r] \in {"succeeded", "failed"}
  PROVE  \/ \E v \in Workers : Settling(v, r)'
         \/ events'[trigger[r]].status \in {"completed", "failed"}
<1>0. worker \in [Workers -> WorkerState]
  BY DEF TypeOK, WorkerTypeOK
<1>1. ASSUME NEW w \in Workers, Commit(w), worker[w].run = r
      PROVE  Settling(w, r)'
  BY <1>0, <1>1 DEF Commit, WorkerState, Settling
<1>2. ASSUME NEW w \in Workers, FailBuild(w), FailedRun(w) = r, status'[r] = "failed"
      PROVE  Settling(w, r)'
  <2>1. /\ worker'[w] = [worker[w] EXCEPT !.pc = "fail", !.seen = "absent"]
        /\ worker[w].run = r /\ worker[w].next = None
    BY <1>0, <1>2 DEF FailBuild, HasRead, At, FailedRun, RunsInv
  <2> QED BY <1>0, <1>2, <2>1 DEF WorkerState, Settling
<1>3. ASSUME NEW w \in Workers, FailTask(w), FailedRun(w) = r, worker[w].seen \notin Done
      PROVE  FALSE
  <2>1. worker[w].run = r
    BY <1>3 DEF FailTask, HasRead, At, FailedRun, RunsInv
  <2> QED BY <1>3, <2>1, TaskFailsEvent DEF Done
<1>4. ASSUME NEW w \in Workers, CommitFailure(w), FailedRun(w) = r
      PROVE  events'[trigger[r]].status \in {"completed", "failed"}
  BY <1>4, VerdictWritten
<1> QED BY <1>1, <1>2, <1>3, <1>4, StatusActor

\* Unless a worker is lost or a sending fails, the event of a run that is over is told
\* so, or a worker is on the way to tell it.
LEMMA SettledStep ==
  ASSUME TypeOK, IntakeInv, SendersInv, RunsInv, DeliveriesInv, RowsInv, LoadedInv,
         SettlingInv, Next,
         Never({"workerCrash", "cursorConflict", "sendError", "redelivery"})',
         NEW r \in Runs, Linked(r)', status'[r] \in {"succeeded", "failed"}
  PROVE  \/ events'[trigger'[r]].status \in {"completed", "failed"}
         \/ \E w \in Workers : Settling(w, r)'
<1>1. /\ Never({"workerCrash", "cursorConflict"})' /\ Never({"sendError"})'
      /\ Never({"redelivery"})
      /\ Never({"workerCrash", "cursorConflict", "sendError", "redelivery"})
  BY IncidentsGrow DEF Never
<1>2. /\ OnceInv /\ Never({"sendError"})
      /\ \A h \in Handlers : handler[h].pc # "undo"
      /\ \A w \in Workers : ~CrashWorker(w) /\ ~RollBackFailure(w)
      /\ (Linked(r) /\ status[r] \in {"succeeded", "failed"}) =>
            \/ events[trigger[r]].status \in {"completed", "failed"}
            \/ \E w \in Workers : Settling(w, r)
  BY <1>1, LossStep, SendStep DEF SettlingInv, DeliveriesInv
<1>3. Made(r)
  BY StatusActor, NoneAssumption DEF Made, RunsInv, FailedRun
<1>4. trigger'[r] = trigger[r] /\ trigger[r] # None
  BY <1>3, TriggerKept DEF Linked, IsWebhook
<1>5. Linked(r)
  BY <1>2, <1>4 DEF OnceInv, Linked, IsWebhook
<1>6. CASE status[r] \notin {"succeeded", "failed"}
  BY <1>1, <1>2, <1>3, <1>4, <1>6, SettlingBegins
<1>7. CASE status[r] \in {"succeeded", "failed"} /\ \E w \in Workers : Settling(w, r)
  BY <1>1, <1>2, <1>4, <1>7, SettlingKept
<1>8. CASE events[trigger[r]].status \in {"completed", "failed"}
  BY <1>2, <1>3, <1>4, <1>8, ToldKept
<1> QED BY <1>2, <1>5, <1>6, <1>7, <1>8

LEMMA SettlingStep ==
  ASSUME TypeOK, LifecycleInv, IntakeInv, SendersInv, RunsInv, DeliveriesInv, RowsInv,
         LoadedInv, SettlingInv, Next
  PROVE  SettlingInv'
<1>1. RunningAttended'
  BY RunningStep DEF RunningAttended
<1>2. ASSUME Never({"sendError"})'
      PROVE  /\ \A h \in Handlers : handler'[h].pc # "undo"
             /\ \A w \in Workers : worker'[w].pc # "sendFail"
  BY <1>2, SendStep, NothingTakenBack DEF SettlingInv
<1>3. ASSUME Never({"workerCrash", "cursorConflict", "sendError", "redelivery"})',
             NEW r \in Runs, Linked(r)', status'[r] \in {"succeeded", "failed"}
      PROVE  \/ events'[trigger'[r]].status \in {"completed", "failed"}
             \/ \E w \in Workers : Settling(w, r)'
  BY <1>3, SettledStep
<1> QED BY <1>1, <1>2, <1>3 DEF SettlingInv

(***************************************************************************)
(* VerdictsInv: a run and its event are given the same verdict.            *)
(***************************************************************************)
\* In a calm pipeline who fails, fails its own run.
LEMMA OwnFailure ==
  ASSUME TypeOK, RunsInv, MessagesInv, RowsInv, Calm, NEW w \in Workers,
         worker[w].pc \in {"buildFail", "fail", "sendFail", "restore", "upsert"}
  PROVE  /\ worker[w].pc # "sendFail" /\ worker[w].next = None
         /\ worker[w].run \in Runs /\ FailedRun(w) = worker[w].run
<1>1. worker[w].pc # "sendFail" /\ Never({"sendError"})
  BY DEF MessagesInv, Calm, Never
<1>2. worker[w].next = None
  BY <1>1 DEF RunsInv, RowsInv, Restores
<1>3. worker[w].run \in Runs
  BY WorkerData DEF TypeOK, WorkerTypeOK, HasRuns
<1> QED BY <1>1, <1>2, <1>3 DEF FailedRun

\* And a run has one worker.
LEMMA OneWorker ==
  ASSUME TypeOK, MessagesInv, Calm, NEW r \in Runs, NEW v \in Workers, NEW w \in Workers,
         worker[v].run = r, worker[w].run = r
  PROVE  v = w
  BY DEF MessagesInv, Calm, OneMessage, Works

\* The worker of a run knows its status as long as it does nothing, too: only its own
\* steps change that.
LEMMA KnowsKept ==
  ASSUME TypeOK, RunsInv, MessagesInv, RowsInv, ManualInv', VerdictsInv, Next, Calm, Calm',
         NEW w \in Workers, worker'[w] = worker[w]
  PROVE  Knows(w)'
<1> DEFINE r == worker[w].run
<1>0. worker \in [Workers -> WorkerState] /\ Knows(w)
  BY DEF TypeOK, WorkerTypeOK, VerdictsInv, Calm
<1>1. CASE worker[w].pc = "idle"
  BY <1>1 DEF Knows
<1>2. CASE worker[w].pc # "idle"
  <2>1. r \in Runs /\ Made(r) /\ trigger'[r] = trigger[r]
    BY <1>0, <1>2, WorkerData, TriggerKept DEF RunsInv, TypeOK, WorkerTypeOK, HasRuns
  <2>2. CASE status'[r] = status[r]
    BY <1>0, <2>1, <2>2 DEF Knows, IsWebhook
  <2>3. CASE status[r] = "pending" /\ status'[r] = "cancelled"
    <3>1. trigger'[r] = None
      BY <2>1, <2>3 DEF ManualInv
    <3> QED BY <1>0, <2>1, <2>3, <3>1 DEF Knows, IsWebhook
  <2>4. ASSUME NEW v \in Workers, worker[v].run = r,
               MarkRunning(v) \/ Commit(v) \/ FailBuild(v) \/ FailTask(v) \/ CommitFailure(v)
        PROVE  FALSE
    <3>1. v = w
      BY <2>1, <2>4, OneWorker
    <3>2. worker'[w].pc # worker[w].pc
      BY <1>0, <2>4, <3>1, LeavesEffect
         DEF MarkRunning, Commit, FailBuild, Leaves, HasRead, At, Step, WorkerState
    <3> QED BY <3>2
  <2>5. ASSUME NEW v \in Workers, FailBuild(v) \/ FailTask(v) \/ CommitFailure(v)
        PROVE  FailedRun(v) = worker[v].run
    BY <2>5, OwnFailure DEF FailBuild, FailTask, CommitFailure, HasRead, At
  <2> HIDE DEF r
  <2> QED BY <2>1, <2>2, <2>3, <2>4, <2>5, StatusActor
<1> QED BY <1>1, <1>2

LEMMA KnowsStep ==
  ASSUME TypeOK, LifecycleInv, RunsInv, MessagesInv, RowsInv, ManualInv', VerdictsInv, Next,
         Calm', NEW w \in Workers
  PROVE  Knows(w)'
<1> USE DEF tableVars, dbVars, runVars
<1> DEFINE r == worker[w].run
<1>0. /\ worker \in [Workers -> WorkerState] /\ status \in [Runs -> RunStatus]
      /\ Calm /\ Knows(w) /\ worker[w].pc # "sendFail"
      /\ worker[w].seen # "absent" => worker[w].pc \in Failing \cup {"restore", "upsert"}
      /\ worker[w].pc # "idle" => r \in Runs
  BY CalmStep, WorkerData
     DEF TypeOK, WorkerTypeOK, HasRuns, TablesTypeOK, VerdictsInv, MessagesInv, Calm, RunsInv
<1>1. CASE worker'[w] = worker[w]
  BY <1>0, <1>1, KnowsKept
<1>2. ASSUME worker'[w].pc \notin {"resolve", "commit", "buildFail", "fail", "finish",
                                   "restore", "upsert"}
      PROVE  Knows(w)'
  BY <1>2 DEF Knows
<1>3. ASSUME NEW q \in Runs, Take(w, q) PROVE Knows(w)'
  BY <1>0, <1>2, <1>3, TakeEffect, KnowsKept
<1>4. ASSUME \/ Rebuild(w) \/ DispatchPending(w)
             \/ ReleaseBlocked(w) \/ NothingToDispatch(w) \/ SendNext(w) \/ SendNextFails(w)
             \/ CrashWorker(w)
      PROVE  Knows(w)'
  <2>1. worker'[w].pc \in {"load", "send", "idle", "sendFail"}
    BY <1>0, <1>4 DEF Rebuild, DispatchPending, ReleaseBlocked,
          NothingToDispatch, SendNext, SendNextFails, CrashWorker,
          Step, Ack, IdleWorker, WorkerState
  <2> QED BY <1>2, <2>1
<1>5. CASE Load(w)
  <2>1. /\ worker'[w].run = r /\ worker'[w].seen = "absent" /\ UNCHANGED <<status, trigger>>
        /\ worker'[w].pc = "finish" => status[r] = "succeeded"
        /\ worker'[w].pc = "resolve" => status[r] = "running"
        /\ worker'[w].pc \notin {"commit", "buildFail"}
    BY <1>0, <1>5 DEF Load, At, Step, WorkerState, Failing
  <2> QED BY <2>1 DEF Knows
<1>6. CASE MarkRunning(w)
  <2>1. /\ worker'[w].run = r /\ worker'[w].seen = "absent"
        /\ worker'[w].pc \in {"resolve", "fail"}
        /\ worker'[w].pc = "resolve" => status'[r] = "running"
    BY <1>0, <1>6 DEF MarkRunning, At, Step, WorkerState, Failing
  <2> QED BY <2>1 DEF Knows
<1>7. CASE Resolve(w) \/ BuildFails(w)
  <2>1. /\ worker'[w].run = r /\ worker'[w].seen = "absent" /\ UNCHANGED status
        /\ worker'[w].pc \in {"commit", "buildFail"} /\ status[r] = "running"
    BY <1>0, <1>7 DEF Resolve, BuildFails, At, WorkerState, Failing, Knows
  <2> QED BY <2>1 DEF Knows
<1>8. CASE Commit(w)
  <2>1. status[r] = "running" /\ snapshot[r] = None
    BY <1>0, <1>8 DEF Commit, At, Knows, LifecycleInv, NotBuilt
  <2>2. /\ worker'[w].run = r /\ worker'[w].pc = "finish" /\ status'[r] = "succeeded"
    BY <1>0, <1>8, <2>1 DEF Commit, At, WorkerState
  <2> QED BY <2>2 DEF Knows
<1>9. CASE Reads(w)
  <2>1. worker'[w].run = r /\ UNCHANGED <<status, trigger>>
    BY <1>9, ReadsEffect
  <2>2. CASE ReadEvent(w)
    BY <1>0, <1>9, <2>1, <2>2, ReadsEffect, ReadEventEffect DEF Knows, IsWebhook, WorkerState
  <2>3. CASE ReadStatus(w)
    <3>1. worker[w].pc \in {"buildFail", "fail"} /\ FailedRun(w) = r
      BY <1>0, <2>3, OwnFailure DEF ReadStatus, Failing
    <3>2. worker'[w].seen = status[r] /\ worker'[w].pc = worker[w].pc
      BY <1>0, <2>3, <3>1 DEF ReadStatus, WorkerState
    <3> QED BY <1>0, <2>1, <3>1, <3>2 DEF Knows
  <2>4. CASE FailEvent(w)
    <3>1. /\ worker[w].pc = "fail" /\ worker[w].seen # "absent"
      BY <1>0, <2>4, FailEventEffect
    <3>2. PICK d : worker' = [worker EXCEPT ![w] =
                                [worker[w] EXCEPT !.pc = "restore", !.fallback = d]]
      BY <2>4, FailEventEffect
    <3>3. worker'[w].pc = "restore" /\ worker'[w].seen = worker[w].seen
      BY <1>0, <3>2 DEF WorkerState
    <3> QED BY <1>0, <2>1, <3>1, <3>3 DEF Knows, IsWebhook
  <2>5. CASE ReadCursor(w)
    <3>1. worker' = [worker EXCEPT ![w] =
                       [worker[w] EXCEPT !.pc = "upsert", !.latest = cursor]]
      BY <2>5, ReadCursorEffect
    <3>2. /\ worker[w].pc = "restore" /\ worker'[w].pc = "upsert"
          /\ worker'[w].seen = worker[w].seen
      BY <1>0, <2>5, <3>1, ReadCursorEffect DEF WorkerState
    <3> QED BY <1>0, <2>1, <3>2 DEF Knows, IsWebhook
  <2> QED BY <1>9, <2>2, <2>3, <2>4, <2>5 DEF Reads
<1>10. CASE FailBuild(w)
  <2>1. worker'[w].pc = "fail" /\ worker'[w].seen = "absent"
    BY <1>0, <1>10 DEF FailBuild, WorkerState
  <2> QED BY <2>1 DEF Knows
<1>11. CASE Duplicate(w)
  BY <1>1, <1>11 DEF Duplicate
<1>12. CASE Leaves(w)
  BY <1>2, <1>12, LeavesEffect
<1>13. CASE WorkerNext /\ WorkerAction(w)
  BY <1>3, <1>4, <1>5, <1>6, <1>7, <1>8, <1>9, <1>10, <1>11, <1>12, <1>13
     DEF WorkerAction, WorkerStep, Reads, Leaves
<1> QED BY <1>1, <1>13, OtherWorker DEF Next

\* The run of an event that says how it ended has ended so, and stays so.
LEMMA AgreeKept ==
  ASSUME TypeOK, RunsInv, MessagesInv, RowsInv, VerdictsInv, Next, Calm, NEW r \in Runs,
         trigger[r] # None, status[r] \in {"succeeded", "failed"}
  PROVE  status'[r] = status[r]
<1>1. ASSUME NEW w \in Workers, Commit(w), worker[w].run = r PROVE FALSE
  BY <1>1 DEF VerdictsInv, Calm, Knows, Commit, At
<1>2. ASSUME NEW w \in Workers, FailBuild(w) \/ FailTask(w) \/ CommitFailure(w),
             FailedRun(w) = r, worker[w].seen \notin Done
      PROVE  FALSE
  <2>1. /\ worker[w].pc \in {"buildFail", "fail", "upsert"} /\ worker[w].run = r
        /\ worker[w].seen # "absent"
    <3>1. worker[w].pc \in {"buildFail", "fail", "upsert"}
      BY <1>2 DEF FailBuild, FailTask, CommitFailure, HasRead, At
    <3> QED BY <1>2, <3>1, OwnFailure
            DEF FailBuild, FailTask, CommitFailure, HasRead, At, RowsInv, Restores
  <2> QED BY <1>2, <2>1 DEF VerdictsInv, Calm, Knows, IsWebhook, Done
<1> QED BY <1>1, <1>2, StatusActor DEF Made

\* In a calm pipeline without redeliveries a row that is settled is settled as its run
\* has ended.
LEMMA AgreeStep ==
  ASSUME TypeOK, IntakeInv, SendersInv, RunsInv, MessagesInv, ManualInv, RowsInv, OnceInv,
         VerdictsInv, Next, Calm, Never({"redelivery"}), NEW r \in Runs, Linked(r)'
  PROVE  LET event == events'[trigger'[r]]
         IN  /\ event.status = "failed" => status'[r] = "failed"
             /\ (event.status = "completed" /\ event.decision = "queued")
                   => status'[r] = "succeeded"
<1> DEFINE e == trigger'[r]
           Good == /\ events'[e].status = "failed" => status'[r] = "failed"
                   /\ (events'[e].status = "completed" /\ events'[e].decision = "queued")
                         => status'[r] = "succeeded"
<1>0. /\ trigger'[r] # None /\ events'[e].run = r
      /\ status \in [Runs -> RunStatus] /\ trigger \in [Runs -> Deliveries \cup {None}]
  BY DEF Linked, IsWebhook, TypeOK, TablesTypeOK
<1>1. CASE trigger'[r] # trigger[r]
  <2>1. events'[e].status \in {"queued", "validated"}
    BY <1>0, <1>1, TriggerRow
  <2> QED BY <2>1
<1>2. ASSUME trigger'[r] = trigger[r]
      PROVE  /\ events[e].decision = "queued" /\ e \in Deliveries
             /\ events[e].status = "failed" => status[r] = "failed" /\ status'[r] = "failed"
             /\ events[e].status = "completed"
                   => status[r] = "succeeded" /\ status'[r] = "succeeded"
  <2>1. Linked(r) /\ events[e].decision = "queued" /\ e \in Deliveries
    BY <1>0, <1>2 DEF OnceInv, Linked, IsWebhook
  <2>2. ~EventsMove /\ OutcomesAgree
    BY DEF EventsMove, VerdictsInv, Calm
  <2>3. /\ events[e].status = "failed" => status[r] = "failed"
        /\ events[e].status = "completed" => status[r] = "succeeded"
    BY <1>2, <2>1, <2>2 DEF OutcomesAgree, Calm
  <2> QED BY <1>0, <1>2, <2>1, <2>3, AgreeKept
<1>3. CASE trigger'[r] = trigger[r] /\ events'[e] = events[e]
  BY <1>2, <1>3
<1>4. CASE trigger'[r] = trigger[r] /\ events'[e] # events[e]
  <2>1. ASSUME NEW w \in Workers, Finish(w), worker[w].run = r
        PROVE  status'[r] = "succeeded"
    BY <2>1 DEF Finish, At, VerdictsInv, Calm, Knows, runVars
  <2>2. ASSUME NEW w \in Workers, CommitFailure(w), FailedRun(w) = r
        PROVE  status'[r] = "failed"
    <3>1. /\ worker[w].run = r /\ worker[w].next = None /\ MarkFailed(w)
          /\ worker[w].pc = "upsert" /\ worker[w].seen \notin {"absent", "succeeded"}
      <4>1. worker[w].pc = "upsert" /\ MarkFailed(w)
        BY <2>2 DEF CommitFailure, At
      <4> QED BY <2>2, <4>1, OwnFailure DEF RowsInv, Restores
    <3>2. status[r] = worker[w].seen
      BY <1>0, <1>4, <3>1 DEF VerdictsInv, Calm, Knows, IsWebhook
    <3>3. worker[w].seen # "cancelled"
      BY <1>0, <1>4, <3>2 DEF ManualInv
    <3> QED BY <1>0, <2>2, <3>1, <3>2, <3>3 DEF MarkFailed, Marks
  <2>3. ASSUME NEW h \in Handlers, Undo(h) PROVE FALSE
    BY <2>3 DEF MessagesInv, Calm, Undo
  <2>4. ASSUME NEW q \in Runs, e = trigger[q] PROVE q = r
    <3>1. trigger[q] # None /\ trigger[r] # None /\ trigger[q] = trigger[r]
      BY <1>0, <1>4, <2>4
    <3> QED BY <3>1 DEF OnceInv
  <2>5. \/ /\ events'[e].status \in {"queued", "validated", "completed"}
           /\ events'[e].status = "completed" => events'[e].decision # "queued"
        \/ \E w \in Workers : /\ Finish(w) /\ worker[w].run = r
                              /\ events'[e].status \in {events[e].status, "completed"}
        \/ \E w \in Workers : /\ CommitFailure(w) /\ FailedRun(w) = r
                              /\ events'[e].status \in {events[e].status, "failed"}
    BY <1>2, <1>4, <2>3, <2>4, RowWritten DEF Column, FailedEvent
  <2> HIDE DEF e
  <2> QED BY <1>2, <1>4, <2>1, <2>2, <2>5 DEF e
<1> QED BY <1>1, <1>3, <1>4

LEMMA VerdictsStep ==
  ASSUME TypeOK, LifecycleInv, IntakeInv, SendersInv, RunsInv, MessagesInv, DeliveriesInv,
         RowsInv, ManualInv, ManualInv', VerdictsInv, Next
  PROVE  VerdictsInv'
<1> SUFFICES ASSUME Calm' PROVE VerdictsInv'
  BY DEF VerdictsInv, Calm
<1>1. \A w \in Workers : Knows(w)'
  BY KnowsStep
<1>2. Calm
  BY CalmStep
<1>3. ASSUME Never({"redelivery"})' PROVE OutcomesAgree'
  <2>1. Never({"redelivery"}) /\ OnceInv
    BY <1>3, IncidentsGrow DEF Never, DeliveriesInv
  <2> QED BY <1>2, <2>1, AgreeStep DEF OutcomesAgree
<1> QED BY <1>1, <1>3 DEF VerdictsInv

(***************************************************************************)
(* SafeInv holds in every reachable state.                                 *)
(***************************************************************************)
LEMMA SafeInit == Init => SafeInv
<1> SUFFICES ASSUME Init PROVE SafeInv
  OBVIOUS
<1>1. /\ \A h \in Handlers : handler[h] = IdleHandler
      /\ \A w \in Workers : worker[w] = IdleWorker
      /\ manual = IdleManual /\ remote = 0 /\ incidents.kinds = {}
      /\ \A r \in Runs : /\ status[r] = "absent" /\ trigger[r] = None /\ snapshot[r] = None
                         /\ dispatch[r] = "none" /\ queue[r] = 0
  BY DEF Init, TablesInit, IntakeInit, WorkerInit, ManualInit
<1>2. RunsInv /\ StoredInv /\ OwnersInv /\ ManualInv
  BY <1>1, BoundsAssumption
     DEF RunsInv, StoredInv, OwnersInv, ManualInv, Owns, Building, Made, Done,
         IdleHandler, IdleWorker, IdleManual
<1>3. MessagesInv
  <2>1. \A r \in Runs : ~Taken(r) /\ OneMessage(r)
    BY <1>1, NoneAssumption
       DEF Taken, OneMessage, Sends, Works, Passes, IdleHandler, IdleWorker
  <2> QED BY <1>1, <2>1 DEF MessagesInv, IdleHandler, IdleWorker, IdleManual
<1>4. DeliveriesInv
  BY <1>1 DEF DeliveriesInv, OnceInv, BlockedWaits, IdleHandler
<1>5. RowsInv
  BY <1>1 DEF Init, TablesInit, NoEvent, RowsInv, Locks, Recorded, Restores, IdleHandler,
              IdleWorker
<1>6. SettlingInv
  BY <1>1 DEF SettlingInv, RunningAttended, IdleHandler, IdleWorker
<1>7. VerdictsInv
  BY <1>1 DEF VerdictsInv, Knows, OutcomesAgree, Linked, IsWebhook, IdleWorker
<1>8. LoadedInv /\ CursorInv
  BY <1>1 DEF Init, TablesInit, NoEvent, LoadedInv, CursorInv, Restores, IdleWorker
<1> QED BY <1>2, <1>3, <1>4, <1>5, <1>6, <1>7, <1>8 DEF SafeInv

LEMMA SafeStutter ==
  ASSUME SafeInv, UNCHANGED vars
  PROVE  SafeInv'
<1> USE DEF vars, tableVars, dbVars, runVars
<1>1. RunsInv' /\ StoredInv' /\ ManualInv'
  BY DEF SafeInv, RunsInv, StoredInv, ManualInv, Made, FailedRun, At
<1>2. OwnersInv'
  BY DEF SafeInv, OwnersInv, Owns, Building
<1>3. MessagesInv'
  BY DEF SafeInv, MessagesInv, OneMessage, Taken, Sends, Works, Passes, Never
<1>4. DeliveriesInv'
  BY DEF SafeInv, DeliveriesInv, OnceInv, BlockedWaits, Recorded, Never
<1>5. RowsInv'
  BY DEF SafeInv, RowsInv, Locks, Recorded, Restores, FailedEvent, FailedRun, Mine,
         IsWebhook, Never
<1>6. SettlingInv'
  BY DEF SafeInv, SettlingInv, RunningAttended, Engages, Settling, Linked, IsWebhook, Never
<1>7. VerdictsInv'
  BY DEF SafeInv, VerdictsInv, Knows, OutcomesAgree, EventsMove, Linked, IsWebhook, Never
<1>8. LoadedInv' /\ CursorInv'
  BY DEF SafeInv, LoadedInv, CursorInv, Restores, FailedEvent, FailedRun, At, Never
<1> QED BY <1>1, <1>2, <1>3, <1>4, <1>5, <1>6, <1>7, <1>8 DEF SafeInv

\* What a process holds or has read of a run, an event or the cursor, the messages under
\* way and the trigger events stay in step with the tables, whatever fails, is lost or
\* comes again; where SafeInv names a condition, until that happens.
THEOREM Safety == Spec => []SafeInv
<1>1. IndInv /\ SafeInv /\ Next => SafeInv'
  BY RunsStep, StoredStep, OwnersStep, ManualStepInv, MessagesStep, DeliveriesStep,
     RowsStep, LoadedStep, CursorStep, SettlingStep, VerdictsStep
     DEF IndInv, SafeInv
<1>2. IndInv /\ SafeInv /\ [Next]_vars => SafeInv'
  BY <1>1, SafeStutter
<1> QED BY <1>2, SafeInit, Coverage, PTL DEF Spec

\* Both invariants together, which each step of the pipeline keeps.
THEOREM PipelineInvariant == Spec => []PipelineInv
<1>1. IndInv /\ SafeInv => PipelineInv
  BY DEF PipelineInv
<1> QED BY <1>1, Coverage, Safety, PTL

(***************************************************************************)
(* What follows from it.                                                   *)
(***************************************************************************)
\* Of two workers that build the same run one has taken it over as stale: of the
\* copies of a message mark_running lets one through (mark_running).
THEOREM BuildsAreExclusive == Spec => []BuildExclusive
<1>1. SafeInv => BuildExclusive
  BY DEF SafeInv, OwnersInv, Owns, BuildExclusive
<1> QED BY <1>1, Safety, PTL

\* A blocked run keeps the event it waits for until it is released, unless a delivery
\* is repeated (_dispatch_next_pending_sync_for_ref).
THEOREM BlockedRunsWait == Spec => []BlockedReleasable
<1>1. SafeInv => BlockedReleasable
  BY DEF SafeInv, DeliveriesInv, OnceInv, BlockedReleasable
<1> QED BY <1>1, Safety, PTL

\* A pending webhook run is on its way or can be dispatched again, unless a delivery
\* is repeated (_pending_sync_dispatch_event_id).
THEOREM PendingRunsRecover == Spec => []PendingRecoverable
<1>1. SafeInv => PendingRecoverable
  BY DEF SafeInv, DeliveriesInv, OnceInv, PendingRecoverable, PendingOnItsWay
<1> QED BY <1>1, Safety, PTL

\* Unless a worker is lost, a running run has a worker that has not given it up; and,
\* unless a sending fails or a delivery comes again, the event of a run that is over is
\* told so, or a worker is about to tell it: every path through run_webhook_sync ends in
\* the transaction that settles the event, and no other transaction unsettles it.
THEOREM RunsAreSettled ==
  Spec => [](RunningAttended /\ (Never({"redelivery"}) => NothingAbandoned))
<1>1. SafeInv => RunningAttended /\ (Never({"redelivery"}) => NothingAbandoned)
  <2>1. SafeInv => RunningAttended
    BY DEF SafeInv, SettlingInv
  <2>2. ASSUME SafeInv, NEW w \in Workers, NEW r \in Runs, Settling(w, r)
        PROVE  Engages(w, r) \/ (worker[w].run = r /\ At(w, "finish"))
    BY <2>2 DEF Settling, Engages, Engaged, At
  <2>3. ASSUME SafeInv, Never({"redelivery"}),
               Never({"workerCrash", "cursorConflict", "sendError"}),
               NEW r \in Runs, Linked(r), status[r] \in {"succeeded", "failed"}
        PROVE  \/ events[trigger[r]].status \in {"completed", "failed"}
               \/ \E w \in Workers : Settling(w, r)
    BY <2>3 DEF SafeInv, SettlingInv, Never
  <2> QED BY <2>1, <2>2, <2>3 DEF NothingAbandoned
<1> QED BY <1>1, Safety, PTL

\* An event fails only with its run and completes only with it, although they are
\* written in different transactions, as long as no message is sent in vain, twice or
\* late and no delivery comes again (run_webhook_sync, _mark_webhook_sync_failed).
THEOREM VerdictsAgree == Spec => [](Never({"redelivery"}) => OutcomesAgree)
<1>1. SafeInv => (Never({"redelivery"}) => OutcomesAgree)
  BY DEF SafeInv, VerdictsInv, OutcomesAgree
<1> QED BY <1>1, Safety, PTL

\* A stored snapshot is never replaced: the final transaction of a second builder
\* finds the row and keeps it (uq_code_snapshot_sync_run_id).
THEOREM SnapshotsAreImmutable == Spec => SnapshotImmutable
<1>1. ASSUME TypeOK, Next, NEW r \in Runs, snapshot[r] # None
      PROVE  snapshot'[r] = snapshot[r]
  BY <1>1, SnapshotStored
<1>2. IndInv /\ [Next]_vars => [\A r \in Runs : snapshot[r] # None
                                   => snapshot'[r] = snapshot[r]]_vars
  BY <1>1 DEF IndInv
<1> QED BY <1>2, Coverage, PTL DEF Spec, SnapshotImmutable

\* At most one message of a run is sent, queued or worked on, as long as no sending
\* fails, no message is repeated and no dispatch is old (claim_dispatch_enqueued).
THEOREM RunsAreDispatchedOnce == Spec => []DispatchedOnce
<1>1. ASSUME TypeOK, NEW r \in Runs, OneMessage(r)
      PROVE  queue[r] + Cardinality({h \in Handlers : Sends(h, r)})
               + Cardinality({w \in Workers : Works(w, r)})
               + Cardinality({w \in Workers : Passes(w, r)}) <= 1
  <2> DEFINE H == {h \in Handlers : Sends(h, r)}
             W == {w \in Workers : Works(w, r)}
             P == {w \in Workers : Passes(w, r)}
  <2>1. queue[r] \in Nat /\ queue[r] <= 1
    BY <1>1 DEF TypeOK, TablesTypeOK, OneMessage
  <2>2. /\ Cardinality({}) = 0
        /\ \A x : Cardinality({x}) = 1
    BY FS_EmptySet, FS_Singleton
  <2>3. /\ H = {} \/ (\E x : H = {x})
        /\ W = {} \/ (\E x : W = {x})
        /\ P = {} \/ (\E x : P = {x})
    <3>1. /\ \A g, h \in H : g = h
          /\ \A v, w \in W : v = w
          /\ \A v, w \in P : v = w
      BY <1>1 DEF OneMessage
    <3> HIDE DEF H, W, P
    <3> QED BY <3>1
  <2>4. /\ queue[r] > 0 => H = {} /\ W = {} /\ P = {}
        /\ H # {} => W = {} /\ P = {}
        /\ W # {} => P = {}
    <3>1. queue[r] > 0 => H = {} /\ W = {} /\ P = {}
      BY <1>1 DEF OneMessage
    <3>2. H # {} => W = {} /\ P = {}
      BY <1>1 DEF OneMessage
    <3>3. W # {} => P = {}
      BY <1>1 DEF OneMessage
    <3> QED BY <3>1, <3>2, <3>3
  <2>5. /\ Cardinality(H) = IF H = {} THEN 0 ELSE 1
        /\ Cardinality(W) = IF W = {} THEN 0 ELSE 1
        /\ Cardinality(P) = IF P = {} THEN 0 ELSE 1
    BY <2>2, <2>3
  <2> HIDE DEF H, W, P
  <2>6. queue[r] + Cardinality(H) + Cardinality(W) + Cardinality(P) <= 1
    BY <2>1, <2>4, <2>5
  <2> QED BY <2>6 DEF H, W, P
<1>2. IndInv /\ SafeInv => DispatchedOnce
  BY <1>1 DEF IndInv, SafeInv, MessagesInv, DispatchedOnce, Sends, Works, Passes
<1> QED BY <1>2, Coverage, Safety, PTL

\* The events of a run come from requests that found it, created it or replaced its
\* trigger event, and from workers that handle its trigger event.
LEMMA LinkOrigin ==
  ASSUME TypeOK, IntakeInv, SendersInv, ManualInv, RowsInv, Next, NEW d \in Deliveries,
         events'[d].run # None, events'[d].run # events[d].run
  PROVE  status[events'[d].run] # "cancelled" /\ ~ManualNext
<1> DEFINE Good == status[events'[d].run] # "cancelled"
<1> USE DEF tableVars, dbVars, runVars
<1>1. ~ManualNext /\ ~Environment
  BY ManualOnRuns DEF Environment, Push, Age
<1>2. ASSUME NEW r \in Runs, trigger[r] # None, NEW s,
             events' = Settle(events, trigger[r], "queued", s, r)
      PROVE  Good
  <2>1. trigger[r] \in Deliveries /\ events \in [Deliveries -> Event]
    BY <1>2 DEF TypeOK, TablesTypeOK
  <2>2. events'[d].run = r
    BY <1>2, <2>1, SettleEffect
  <2> QED BY <1>2, <2>2 DEF ManualInv
<1>3. ASSUME NEW r \in Runs, trigger[r] # None, NEW s, NEW loaded \in Event,
             events' = WriteBack(events, trigger[r], loaded, s, r)
      PROVE  Good
  <2>1. trigger[r] \in Deliveries /\ events \in [Deliveries -> Event]
    BY <1>3 DEF TypeOK, TablesTypeOK
  <2>2. events'[d].run = r
    BY <1>3, <2>1, WriteBackFields DEF Column
  <2> QED BY <1>3, <2>2 DEF ManualInv
<1>4. ASSUME NEW h \in Handlers, Record(h) PROVE Good
  <2>1. handler[h].pc = "record"
    BY <1>4 DEF Record, Recording, LoseInsert, RecordOnly, JoinPending, JoinCancelled,
           CreateBlocked, ReplaceBlocked, CreatePending, JoinConcurrent
  <2>2. handler[h].d \in Deliveries
    BY <2>1, HandlerData DEF IntakeInv
  <2>3. MyEvents(h) \in [Deliveries -> Event] /\ MyEvents(h)[d].run \in {events[d].run, None}
    BY <2>2, MyEventsType, MyEventsRun
  <2>4. ASSUME NEW evs \in [Deliveries -> Event], evs[d].run \in {events[d].run, None},
               NEW dec, NEW s, NEW r \in Runs, status[r] # "cancelled",
               events' = Settle(evs, handler[h].d, dec, s, r)
        PROVE  Good
    <3>1. events'[d].run \in {evs[d].run, r}
      BY <2>2, <2>4, SettleEffect
    <3> QED BY <2>4, <3>1
  <2>5. CASE LoseInsert(h) \/ JoinCancelled(h) \/ RecordOnly(h)
    BY <2>3, <2>5 DEF LoseInsert, JoinCancelled, RecordOnly
  <2>6. CASE JoinPending(h)
    <3>1. PICK dec, s : events' = Settle(MyEvents(h), handler[h].d, dec, s, handler[h].run)
      BY <2>6 DEF JoinPending
    <3> QED BY <2>3, <2>4, <2>6, <3>1, HandlerData DEF JoinPending
  <2>7. CASE CreateBlocked(h) \/ CreatePending(h)
    <3>1. PICK r \in Runs, s \in EventStatus :
            /\ status[r] = "absent"
            /\ events' = Settle(MyEvents(h), handler[h].d, "queued", s, r)
      BY <2>7 DEF CreateBlocked, CreatePending, CreateRun, IsNextRun, EventStatus
    <3> QED BY <2>3, <2>4, <3>1
  <2>8. CASE JoinConcurrent(h)
    <3>1. PICK r \in ActiveRuns :
            events' = Settle(MyEvents(h), handler[h].d, "duplicate_head", "completed", r)
      BY <2>8 DEF JoinConcurrent
    <3>2. r \in Runs /\ status[r] # "cancelled"
      BY <3>1 DEF ActiveRuns, WithStatus
    <3> QED BY <2>3, <2>4, <3>1, <3>2
  <2>9. CASE ReplaceBlocked(h)
    <3>1. PICK r \in Runs : /\ status[r] = "blocked"
                            /\ events' = Settle(IF trigger[r] \in {None, handler[h].d}
                                                THEN MyEvents(h)
                                                ELSE Settle(MyEvents(h), trigger[r],
                                                            "duplicate_head", "completed", r),
                                                handler[h].d, "queued", "validated", r)
      BY <2>9 DEF ReplaceBlocked, WithStatus
    <3>2. CASE trigger[r] \in {None, handler[h].d}
      BY <2>3, <2>4, <3>1, <3>2
    <3>3. CASE trigger[r] \notin {None, handler[h].d}
      <4> DEFINE retired == Settle(MyEvents(h), trigger[r], "duplicate_head", "completed", r)
      <4>1. trigger[r] \in Deliveries /\ retired \in [Deliveries -> Event]
        BY <2>3, <3>3, SettleType DEF TypeOK, TablesTypeOK, Decisions, EventStatus
      <4>2. retired[d].run \in {events[d].run, None, r}
        BY <2>3, <4>1, SettleEffect
      <4>3. events' = Settle(retired, handler[h].d, "queued", "validated", r)
        BY <3>1, <3>3
      <4> HIDE DEF retired
      <4>4. events'[d].run \in {retired[d].run, r}
        BY <2>2, <4>1, <4>3, SettleEffect
      <4> QED BY <3>1, <4>2, <4>4
    <3> QED BY <3>2, <3>3
  <2> QED BY <1>4, <2>5, <2>6, <2>7, <2>8, <2>9 DEF Record
<1>5. ASSUME NEW h \in Handlers, Undo(h) PROVE Good
  BY <1>5, <1>3, UndoEffect, HandlerData DEF Undo, SendersInv
<1>6. ASSUME NEW h \in Handlers,
             \/ \E e \in Deliveries : Receive(h, e)
             \/ Decide(h) \/ Claim(h) \/ SendTask(h) \/ SendTaskFails(h)
             \/ ReadUndone(h) \/ CrashHandler(h)
      PROVE  FALSE
  BY <1>6 DEF Receive, Decide, Claim, SendTask, SendTaskFails, ReadUndone, CrashHandler
<1>7. CASE IntakeNext
  BY <1>1, <1>4, <1>5, <1>6, <1>7 DEF IntakeNext, HandlerStep
<1>8. ASSUME NEW w \in Workers, Finish(w) PROVE Good
  BY <1>8, <1>3, FinishEffect, WorkerData DEF Mine, IsWebhook
<1>9. ASSUME NEW w \in Workers, CommitFailure(w) PROVE Good
  <2> DEFINE r == FailedRun(w)
  <2>1. worker[w].pc = "upsert" /\ FailedEvent(w) # None /\ worker[w].loaded \in Event
    BY <1>9, WorkerData DEF CommitFailure, At, RowsInv, Restores
  <2>2. r \in Runs /\ trigger[r] # None
    BY <2>1, WorkerData DEF FailedRun, FailedEvent, TypeOK, WorkerTypeOK, HasRuns
  <2>3. events' = WriteBack(events, trigger[r], worker[w].loaded, "failed", r)
    <3>1. worker[w].next = None => worker[w].loaded.run = worker[w].run
      BY <2>1 DEF RowsInv, Restores, Mine
    <3> QED BY <1>9, <3>1 DEF CommitFailure, FailedRun
  <2> HIDE DEF r
  <2> QED BY <1>3, <2>1, <2>2, <2>3
<1>10. ASSUME NEW w \in Workers, ReleaseBlocked(w) PROVE Good
  BY <1>2, <1>10 DEF ReleaseBlocked, Releasable
<1>11. ASSUME NEW w \in Workers, Reads(w) \/ FailTask(w) \/ RollBackFailure(w) PROVE FALSE
  BY <1>11, ReadsEffect, LeavesEffect DEF Leaves
<1>12. ASSUME NEW w \in Workers, WorkerAction(w),
              ~Reads(w), ~Leaves(w), ~ReleaseBlocked(w)
       PROVE  FALSE
  BY <1>12 DEF WorkerAction, WorkerStep, Reads, Leaves, Take, Load, MarkRunning, Resolve,
               BuildFails, Rebuild, Commit, FailBuild, DispatchPending, NothingToDispatch,
               SendNext, SendNextFails, CrashWorker, Duplicate
<1> QED BY <1>1, <1>7, <1>8, <1>9, <1>10, <1>11, <1>12
        DEF Next, WorkerNext, WorkerAction, Leaves

\* No event is folded into a manual run that is taken back: deleting the run and
\* joining it exclude each other (cancel_initial_snapshot, the foreign key of
\* repository_events).
THEOREM CancelledRunsHaveNoEvents == Spec => []CancelledHasNoEvents
<1>1. Init => CancelledHasNoEvents
  BY DEF Init, TablesInit, NoEvent, CancelledHasNoEvents
<1>2. ASSUME IndInv, SafeInv, CancelledHasNoEvents, Next PROVE CancelledHasNoEvents'
  <2>1. TypeOK'
    BY <1>2, TypeStep DEF IndInv
  <2>2. SUFFICES ASSUME NEW d \in Deliveries, events'[d].run # None,
                        status'[events'[d].run] = "cancelled"
                 PROVE  FALSE
    BY DEF CancelledHasNoEvents
  <2> DEFINE r == events'[d].run
  <2>3. r \in Runs
    BY <2>1, <2>2 DEF TypeOK, TablesTypeOK, Event
  <2>4. status[r] # "cancelled"
    BY <1>2, <2>2, LinkOrigin DEF IndInv, SafeInv, CancelledHasNoEvents
  <2>5. ManualNext /\ UNCHANGED events
    BY <1>2, <2>2, <2>3, <2>4, IntakeOnRuns, ManualOnRuns, WorkerMoves
       DEF IndInv, Next, Environment, Push, Age, dbVars, runVars
  <2>6. \A e \in Deliveries : events[e].run # r
    BY <1>2, <2>2, <2>3, <2>4, <2>5
       DEF ManualNext, ManualStep, RequestSnapshot, CreateRun, SendManual, SendManualFails,
           Cancel, CrashManual, IndInv, TypeOK, TablesTypeOK, dbVars, runVars
  <2> QED BY <2>5, <2>6
<1>3. CancelledHasNoEvents /\ UNCHANGED vars => CancelledHasNoEvents'
  BY DEF CancelledHasNoEvents, vars, tableVars, dbVars, runVars
<1> QED BY <1>1, <1>2, <1>3, Coverage, Safety, PTL DEF Spec

(***************************************************************************)
(* The runs of the ref implement RefSlot.                                  *)
(***************************************************************************)
\* A step that moves one run in the slot, or none, and one that stores a snapshot.
LEMMA SlotMove ==
  ASSUME TypeOK, status' \in [Runs -> RunStatus], UNCHANGED snapshot, NEW r \in Runs,
         \A q \in Runs \ {r} : status'[q] = status[q],
         \/ PhaseOf(status'[r]) = PhaseOf(status[r])
         \/ status[r] = "absent" /\ status'[r] = "pending" /\ ActiveRuns = {}
         \/ status[r] = "blocked" /\ status'[r] = "pending" /\ ActiveRuns = {}
         \/ status[r] = "absent" /\ status'[r] = "blocked" /\ WithStatus({"blocked"}) = {}
         \/ status[r] \in {"pending", "running"} /\ status'[r] \in Done
  PROVE  [Slot!SlotNext]_(Slot!slotVars)
<1> DEFINE before == [q \in Runs |-> PhaseOf(status[q])]
           after == [q \in Runs |-> PhaseOf(status'[q])]
<1>1. after = [before EXCEPT ![r] = PhaseOf(status'[r])]
  OBVIOUS
<1>2. CASE PhaseOf(status'[r]) = PhaseOf(status[r])
  <2>1. after = before
    BY <1>1, <1>2
  <2> QED BY <2>1 DEF Slot!slotVars
<1>3. CASE status[r] = "absent" /\ status'[r] = "pending" /\ ActiveRuns = {}
  <2>1. Slot!Enter(r)
    BY <1>1, <1>3 DEF Slot!Enter, Slot!In, Slot!Move, PhaseOf, ActiveRuns, WithStatus,
                      TypeOK, TablesTypeOK, RunStatus
  <2> QED BY <2>1 DEF Slot!SlotNext
<1>4. CASE status[r] = "blocked" /\ status'[r] = "pending" /\ ActiveRuns = {}
  <2>1. Slot!Promote(r)
    BY <1>1, <1>4 DEF Slot!Promote, Slot!In, Slot!Move, PhaseOf, ActiveRuns, WithStatus,
                      TypeOK, TablesTypeOK, RunStatus
  <2> QED BY <2>1 DEF Slot!SlotNext
<1>5. CASE status[r] = "absent" /\ status'[r] = "blocked" /\ WithStatus({"blocked"}) = {}
  <2>1. Slot!Wait(r)
    BY <1>1, <1>5 DEF Slot!Wait, Slot!In, Slot!Move, PhaseOf, WithStatus,
                      TypeOK, TablesTypeOK, RunStatus
  <2> QED BY <2>1 DEF Slot!SlotNext
<1>6. CASE status[r] \in {"pending", "running"} /\ status'[r] \in Done
  <2>1. Slot!Leave(r)
    BY <1>1, <1>6 DEF Slot!Leave, Slot!Move, PhaseOf, Done
  <2> QED BY <2>1 DEF Slot!SlotNext
<1> QED BY <1>2, <1>3, <1>4, <1>5, <1>6

\* The status that a worker's failure handler writes.
LEMMA SlotOfFailure ==
  ASSUME IndInv, SafeInv, NEW w \in Workers, MarkFailed(w), UNCHANGED snapshot,
         worker[w].pc \in Failing \cup {"upsert"}, TypeOK'
  PROVE  [Slot!SlotNext]_(Slot!slotVars)
<1> DEFINE r == FailedRun(w)
<1>1. r \in Runs /\ Made(r) /\ WorkerRunOK(w) /\ TypeOK
  <2>1. TypeOK /\ WorkerRunOK(w)
    BY DEF IndInv, SafeInv, RunsInv, WorkerRunOK
  <2>2. r \in Runs /\ r # None
    BY <2>1, WorkerData DEF FailedRun, Failing, At, TypeOK, WorkerTypeOK, HasRuns
  <2> QED BY <2>1, <2>2 DEF WorkerRunOK, FailedRun, At, Failing
<1>2. status' \in [Runs -> RunStatus] /\ status \in [Runs -> RunStatus]
  BY <1>1 DEF TypeOK, TablesTypeOK
<1>3. status'[r] \in Done /\ \A q \in Runs \ {r} : status'[q] = status[q]
  BY <1>1, <1>2, FailedIsDone, MarkFailedEffect
<1>4. status[r] \in {"pending", "running"} \/ status[r] \in Done
  BY <1>1, <1>2 DEF Made, Done, RunStatus
<1>5. status[r] \in Done => PhaseOf(status'[r]) = PhaseOf(status[r])
  BY <1>3 DEF PhaseOf, Done
<1> HIDE DEF r
<1> QED BY <1>1, <1>2, <1>3, <1>4, <1>5, SlotMove

LEMMA SlotOfCommit ==
  ASSUME IndInv, SafeInv, NEW w \in Workers, Commit(w)
  PROVE  [Slot!SlotNext]_(Slot!slotVars)
<1> DEFINE r == worker[w].run
           before == [q \in Runs |-> PhaseOf(status[q])]
           after == [q \in Runs |-> PhaseOf(status'[q])]
<1>1. /\ r \in Runs /\ status[r] \in Started
      /\ worker[w].commit \in 0 .. MaxHead
      /\ status \in [Runs -> RunStatus]
  BY BoundsAssumption DEF Commit, At, IndInv, LifecycleInv, Building, SafeInv, StoredInv,
                          TypeOK, TablesTypeOK
<1>2. CASE UNCHANGED <<snapshot, status>>
  BY <1>2 DEF Slot!slotVars
<1>3. CASE /\ snapshot[r] = None
           /\ snapshot' = [snapshot EXCEPT ![r] = worker[w].commit]
           /\ status' = [status EXCEPT ![r] = "succeeded"]
  <2>1. Slot!Store(r)
    BY <1>1, <1>3 DEF Slot!Store
  <2>2. after = [before EXCEPT ![r] = "left"]
    BY <1>1, <1>3 DEF PhaseOf
  <2>3. CASE status[r] = "running"
    <3>1. Slot!Leave(r)
      BY <1>1, <2>2, <2>3 DEF Slot!Leave, Slot!Move, PhaseOf
    <3> QED BY <1>1, <2>1, <3>1 DEF Slot!SlotNext
  <2>4. CASE status[r] \in {"succeeded", "failed"}
    <3>1. before[r] = "left" /\ after = before
      BY <1>1, <2>2, <2>4 DEF PhaseOf
    <3> QED BY <1>1, <2>1, <3>1 DEF Slot!SlotNext
  <2> QED BY <1>1, <2>3, <2>4 DEF Started
<1> QED BY <1>2, <1>3 DEF Commit

LEMMA SlotStep ==
  ASSUME IndInv, SafeInv, Next
  PROVE  [Slot!SlotNext]_(Slot!slotVars)
<1> USE DEF tableVars, dbVars, runVars
<1>1. TypeOK /\ TypeOK' /\ status' \in [Runs -> RunStatus]
  BY TypeStep DEF IndInv, TypeOK, TablesTypeOK
<1>2. CASE UNCHANGED <<status, snapshot>>
  BY <1>2 DEF Slot!slotVars
<1>3. ASSUME NEW r \in Runs, NEW s \in {"pending", "blocked"}, NEW d, CreateRun(r, s, d),
             s = "pending" => ActiveRuns = {},
             s = "blocked" => WithStatus({"blocked"}) = {}, UNCHANGED snapshot
      PROVE  [Slot!SlotNext]_(Slot!slotVars)
  <2>1. /\ status[r] = "absent" /\ status'[r] = s
        /\ \A q \in Runs \ {r} : status'[q] = status[q]
    BY <1>1, <1>3 DEF CreateRun, IsNextRun, TypeOK, TablesTypeOK
  <2> QED BY <1>1, <1>3, <2>1, SlotMove
<1>4. CASE IntakeNext
  <2>1. ASSUME NEW h \in Handlers, CreateBlocked(h) \/ CreatePending(h)
        PROVE  [Slot!SlotNext]_(Slot!slotVars)
    BY <1>3, <2>1 DEF CreateBlocked, CreatePending, Recording
  <2>2. ASSUME NEW h \in Handlers,
               \/ \E d \in Deliveries : Receive(h, d)
               \/ Decide(h) \/ LoseInsert(h) \/ RecordOnly(h) \/ JoinPending(h)
               \/ JoinCancelled(h) \/ ReplaceBlocked(h) \/ JoinConcurrent(h)
               \/ Claim(h) \/ SendTask(h) \/ SendTaskFails(h) \/ ReadUndone(h) \/ Undo(h)
               \/ CrashHandler(h)
        PROVE  UNCHANGED <<status, snapshot>>
    BY <2>2 DEF Receive, Decide, LoseInsert, RecordOnly, JoinPending, JoinCancelled,
                ReplaceBlocked, JoinConcurrent, Recording, Claim, SendTask, SendTaskFails,
                ReadUndone, Undo, CrashHandler
  <2> QED BY <1>2, <1>4, <2>1, <2>2 DEF IntakeNext, HandlerStep, Record
<1>5. CASE ManualNext
  <2>1. CASE Cancel
    <3>1. PICK r : /\ manual.pc = "cancel" /\ r = manual.run /\ UNCHANGED snapshot
                   /\ \/ UNCHANGED status
                      \/ /\ status[r] = "pending"
                         /\ status' = [status EXCEPT ![r] = "cancelled"]
      BY <2>1 DEF Cancel
    <3>2. r \in Runs
      BY <1>1, <3>1 DEF SafeInv, RunsInv, TypeOK, ManualTypeOK
    <3>3. CASE status[r] = "pending" /\ status' = [status EXCEPT ![r] = "cancelled"]
      <4>1. status'[r] \in Done /\ \A q \in Runs \ {r} : status'[q] = status[q]
        BY <1>1, <3>2, <3>3 DEF Done, TypeOK, TablesTypeOK
      <4> QED BY <1>1, <3>1, <3>2, <3>3, <4>1, SlotMove
    <3> QED BY <1>2, <3>1, <3>3
  <2>2. CASE RequestSnapshot
    BY <1>2, <1>3, <2>2 DEF RequestSnapshot
  <2>3. CASE SendManual \/ SendManualFails \/ CrashManual
    BY <1>2, <2>3 DEF SendManual, SendManualFails, CrashManual
  <2> QED BY <1>5, <2>1, <2>2, <2>3 DEF ManualNext, ManualStep
<1>6. CASE WorkerNext
  <2>1. ASSUME NEW w \in Workers, FailBuild(w) \/ FailTask(w) \/ CommitFailure(w)
        PROVE  [Slot!SlotNext]_(Slot!slotVars)
    BY <1>1, <2>1, SlotOfFailure
       DEF FailBuild, FailTask, CommitFailure, HasRead, At, Failing
  <2>2. ASSUME NEW w \in Workers, ReleaseBlocked(w)
        PROVE  [Slot!SlotNext]_(Slot!slotVars)
    <3>1. PICK q \in Runs : /\ status[q] = "blocked" /\ ActiveRuns = {}
                            /\ status' = [status EXCEPT ![q] = "pending"]
                            /\ UNCHANGED snapshot
      BY <2>2 DEF ReleaseBlocked, Releasable
    <3>2. status'[q] = "pending" /\ \A p \in Runs \ {q} : status'[p] = status[p]
      BY <1>1, <3>1 DEF TypeOK, TablesTypeOK
    <3> QED BY <1>1, <3>1, <3>2, SlotMove
  <2>3. ASSUME NEW w \in Workers, MarkRunning(w)
        PROVE  [Slot!SlotNext]_(Slot!slotVars)
    <3>1. CASE /\ status[worker[w].run] = "pending"
               /\ status' = [status EXCEPT ![worker[w].run] = "running"]
      <4>1. worker[w].run \in Runs /\ UNCHANGED snapshot
        BY <1>1, <2>3, WorkerData DEF MarkRunning, At, TypeOK, WorkerTypeOK, HasRuns
      <4>2. /\ PhaseOf(status'[worker[w].run]) = PhaseOf(status[worker[w].run])
            /\ \A q \in Runs \ {worker[w].run} : status'[q] = status[q]
        BY <1>1, <3>1, <4>1 DEF PhaseOf, TypeOK, TablesTypeOK
      <4> QED BY <1>1, <4>1, <4>2, SlotMove
    <3> QED BY <1>2, <2>3, <3>1 DEF MarkRunning
  <2>4. ASSUME NEW w \in Workers,
               \/ \E r \in Runs : Take(w, r)
               \/ Load(w) \/ Resolve(w) \/ BuildFails(w) \/ Rebuild(w)
               \/ DispatchPending(w) \/ NothingToDispatch(w) \/ SendNext(w)
               \/ SendNextFails(w) \/ CrashWorker(w) \/ Duplicate(w)
        PROVE  UNCHANGED <<status, snapshot>>
    BY <2>4 DEF Take, Load, Resolve, BuildFails, Rebuild, DispatchPending,
                NothingToDispatch, SendNext, SendNextFails, CrashWorker, Duplicate
  <2>5. ASSUME NEW w \in Workers, Reads(w) \/ Finish(w) \/ RollBackFailure(w)
        PROVE  UNCHANGED <<status, snapshot>>
    BY <1>1, <2>5, ReadsEffect, LeavesEffect DEF Leaves
  <2> QED BY <1>2, <1>6, <2>1, <2>2, <2>3, <2>4, <2>5, SlotOfCommit
         DEF WorkerNext, WorkerStep, Reads
<1>7. CASE Environment
  BY <1>2, <1>7 DEF Environment, Push, Age
<1> QED BY <1>4, <1>5, <1>6, <1>7 DEF Next

\* The unique indexes, mark_running, mark_failed, release_blocked_if_no_active and
\* mark_succeeded keep to RefSlot: one run of the ref is active, one waits, a waiting
\* one is released into a free slot, and a snapshot is stored once.
THEOREM Refinement == Spec => ImplementsSlot
<1>1. Init => Slot!SlotInit
  BY DEF Init, TablesInit, Slot!SlotInit, PhaseOf
<1>2. IndInv /\ SafeInv /\ [Next]_vars => [Slot!SlotNext]_(Slot!slotVars)
  <2>1. UNCHANGED vars => UNCHANGED Slot!slotVars
    BY DEF vars, tableVars, dbVars, runVars, Slot!slotVars
  <2> QED BY <2>1, SlotStep
<1> QED BY <1>1, <1>2, Coverage, Safety, PTL DEF Spec, ImplementsSlot, Slot!SlotSpec

\* What RefSlot promises follows from its steps, so that the runs of the ref keep to it:
\* one is active, one is blocked, and only a run that is done has a snapshot
\* (ix_sync_run_one_active_per_requested_ref, ix_sync_run_one_blocked_per_requested_ref).
THEOREM SlotPromises ==
  Spec => [](Slot!OneHolder /\ Slot!OneWaiting /\ Slot!StoredAfterHolding)
<1> DEFINE phases == [r \in Runs |-> PhaseOf(status[r])]
           Promises == Slot!OneHolder /\ Slot!OneWaiting /\ Slot!StoredAfterHolding
<1>1. Slot!SlotInit => Promises
  BY DEF Slot!SlotInit, Slot!OneHolder, Slot!OneWaiting, Slot!StoredAfterHolding, Slot!In
<1>2. ASSUME TypeOK, TypeOK', Promises, Slot!SlotNext PROVE Promises'
  <2>1. /\ phases \in [Runs -> {"new", "waiting", "holding", "left"}]
        /\ snapshot \in [Runs -> Nat \cup {None}]
    BY <1>2 DEF PhaseOf, TypeOK, TablesTypeOK
  <2> DEFINE after == [r \in Runs |-> PhaseOf(status'[r])]
  <2>2. PICK r \in Runs :
          \/ (Slot!Enter(r) \/ Slot!Wait(r) \/ Slot!Promote(r) \/ Slot!Leave(r))
                /\ UNCHANGED snapshot
          \/ Slot!Leave(r) /\ Slot!Store(r)
          \/ phases[r] = "left" /\ Slot!Store(r) /\ UNCHANGED phases
    BY <1>2 DEF Slot!SlotNext
  <2> USE DEF Slot!OneHolder, Slot!OneWaiting, Slot!StoredAfterHolding, Slot!In
  <2>3. CASE /\ Slot!Store(r)
             /\ Slot!Leave(r) \/ (phases[r] = "left" /\ UNCHANGED phases)
    <3>1. \A q \in Runs \ {r} : snapshot'[q] = snapshot[q]
      BY <2>1, <2>3 DEF Slot!Store
    <3>2. after[r] = "left" /\ \A q \in Runs \ {r} : after[q] = phases[q]
      BY <2>1, <2>3 DEF Slot!Leave, Slot!Move
    <3> QED BY <1>2, <2>1, <3>1, <3>2
  <2>4. CASE /\ Slot!Enter(r) \/ Slot!Wait(r) \/ Slot!Promote(r) \/ Slot!Leave(r)
             /\ UNCHANGED snapshot
    <3>1. \A q \in Runs \ {r} : after[q] = phases[q]
      BY <2>1, <2>4 DEF Slot!Enter, Slot!Wait, Slot!Promote, Slot!Leave, Slot!Move
    <3>2. CASE (Slot!Enter(r) \/ Slot!Promote(r)) /\ UNCHANGED snapshot
      <4>1. after[r] = "holding" /\ phases[r] # "left" /\ \A q \in Runs : phases[q] # "holding"
        BY <2>1, <3>2 DEF Slot!Enter, Slot!Promote, Slot!Move
      <4> QED BY <1>2, <2>1, <3>1, <3>2, <4>1
    <3>3. CASE Slot!Wait(r) /\ UNCHANGED snapshot
      <4>1. after[r] = "waiting" /\ phases[r] # "left" /\ \A q \in Runs : phases[q] # "waiting"
        BY <2>1, <3>3 DEF Slot!Wait, Slot!Move
      <4> QED BY <1>2, <2>1, <3>1, <3>3, <4>1
    <3>4. CASE Slot!Leave(r) /\ UNCHANGED snapshot
      <4>1. after[r] = "left"
        BY <2>1, <3>4 DEF Slot!Leave, Slot!Move
      <4> QED BY <1>2, <2>1, <3>1, <3>4, <4>1
    <3> QED BY <2>4, <3>2, <3>3, <3>4
  <2> QED BY <2>2, <2>3, <2>4
<1>3. Promises /\ UNCHANGED Slot!slotVars => Promises'
  BY DEF Slot!OneHolder, Slot!OneWaiting, Slot!StoredAfterHolding, Slot!In, Slot!slotVars
<1>4. TypeOK /\ TypeOK' /\ Promises /\ [Slot!SlotNext]_(Slot!slotVars) => Promises'
  BY <1>2, <1>3
<1>5. IndInv => TypeOK
  BY DEF IndInv
<1> QED BY <1>1, <1>4, <1>5, Refinement, Coverage, PTL DEF ImplementsSlot, Slot!SlotSpec

(***************************************************************************)
(* The builds of the pipeline are as BuildOutcome says.                    *)
(***************************************************************************)
LEMMA OutcomeValues ==
  /\ OutcomeOf("running") = "building" /\ OutcomeOf("succeeded") = "stored"
  /\ OutcomeOf("failed") = "failed"
  /\ \A s \in {"absent", "blocked", "pending", "cancelled"} : OutcomeOf(s) = "open"
  BY DEF OutcomeOf

\* A step that moves one run, or none, and one that stores a snapshot.
LEMMA OutcomeMove ==
  ASSUME TypeOK, status' \in [Runs -> RunStatus], UNCHANGED snapshot, NEW r \in Runs,
         \A q \in Runs \ {r} : status'[q] = status[q],
         \/ OutcomeOf(status'[r]) = OutcomeOf(status[r])
         \/ status[r] = "pending" /\ status'[r] = "running"
         \/ status'[r] = "failed"
  PROVE  [Outcome!OutcomeNext]_(Outcome!outcomes)
<1> DEFINE before == [q \in Runs |-> OutcomeOf(status[q])]
           after == [q \in Runs |-> OutcomeOf(status'[q])]
<1>1. after = [before EXCEPT ![r] = OutcomeOf(status'[r])]
  OBVIOUS
<1>2. CASE OutcomeOf(status'[r]) = OutcomeOf(status[r])
  <2>1. after = before
    BY <1>1, <1>2
  <2> QED BY <2>1 DEF Outcome!outcomes
<1>3. CASE status[r] = "pending" /\ status'[r] = "running"
  <2>1. before[r] = "open" /\ after = [before EXCEPT ![r] = "building"]
    BY <1>1, <1>3, OutcomeValues
  <2>2. Outcome!Start(r)
    BY <2>1 DEF Outcome!Start, Outcome!Set
  <2> QED BY <2>2 DEF Outcome!OutcomeNext
<1>4. CASE status'[r] = "failed" /\ OutcomeOf(status'[r]) # OutcomeOf(status[r])
  <2>1. before[r] # "failed" /\ after = [before EXCEPT ![r] = "failed"]
    BY <1>1, <1>4, OutcomeValues
  <2>2. Outcome!GiveUp(r)
    BY <2>1 DEF Outcome!GiveUp, Outcome!Set
  <2> QED BY <2>2 DEF Outcome!OutcomeNext
<1> QED BY <1>2, <1>3, <1>4

\* The final transaction of a build stores what is at most the head that was pushed, for
\* a run that is running or has been given up meanwhile.
LEMMA OutcomeOfCommit ==
  ASSUME IndInv, SafeInv, NEW w \in Workers, Commit(w)
  PROVE  [Outcome!OutcomeNext]_(Outcome!outcomes)
<1> DEFINE before == [q \in Runs |-> OutcomeOf(status[q])]
           after == [q \in Runs |-> OutcomeOf(status'[q])]
<1>1. PICK r \in Runs : /\ r = worker[w].run /\ status[r] \in Started
                        /\ worker[w].commit \in 0 .. remote
                        /\ status[r] = "succeeded" => snapshot[r] # None
  BY DEF Commit, At, IndInv, LifecycleInv, Building, SafeInv, StoredInv, TypeOK, TablesTypeOK
<1>2. status \in [Runs -> RunStatus] /\ snapshot \in [Runs -> Nat \cup {None}]
  BY DEF IndInv, TypeOK, TablesTypeOK
<1>3. CASE UNCHANGED <<snapshot, status>>
  BY <1>3 DEF Outcome!outcomes
<1>4. CASE /\ snapshot[r] = None
           /\ snapshot' = [snapshot EXCEPT ![r] = worker[w].commit]
           /\ status' = [status EXCEPT ![r] = "succeeded"]
  <2>1. after = [before EXCEPT ![r] = "stored"]
    BY <1>2, <1>4, OutcomeValues
  <2>2. before[r] \in {"building", "failed"}
    BY <1>1, <1>4, OutcomeValues DEF Started
  <2>3. \E p \in 0 .. remote : snapshot' = [snapshot EXCEPT ![r] = p]
    BY <1>1, <1>4
  <2>4. Outcome!Store(r)
    BY <1>4, <2>1, <2>2, <2>3 DEF Outcome!Store, Outcome!Set
  <2> QED BY <2>4 DEF Outcome!OutcomeNext
<1> QED BY <1>1, <1>3, <1>4 DEF Commit

LEMMA OutcomeStep ==
  ASSUME IndInv, SafeInv, Next
  PROVE  [Outcome!OutcomeNext]_(Outcome!outcomes)
<1> USE DEF tableVars, dbVars, runVars
<1>1. TypeOK /\ status \in [Runs -> RunStatus] /\ status' \in [Runs -> RunStatus]
  BY TypeStep DEF IndInv, TypeOK, TablesTypeOK
<1>2. CASE UNCHANGED <<status, snapshot>>
  BY <1>2 DEF Outcome!outcomes
<1>3. ASSUME NEW r \in Runs, NEW s, status' = [status EXCEPT ![r] = s], UNCHANGED snapshot,
             \/ status[r] \in {"absent", "blocked", "pending"}
                /\ s \in {"pending", "blocked", "cancelled"}
             \/ status[r] = "pending" /\ s = "running"
             \/ s = "failed"
      PROVE  [Outcome!OutcomeNext]_(Outcome!outcomes)
  <2>1. status'[r] = s /\ \A q \in Runs \ {r} : status'[q] = status[q]
    BY <1>1, <1>3
  <2>2. \/ OutcomeOf(s) = OutcomeOf(status[r])
        \/ status[r] = "pending" /\ s = "running"
        \/ s = "failed"
    BY <1>3, OutcomeValues
  <2> QED BY <1>1, <1>3, <2>1, <2>2, OutcomeMove
<1>4. CASE IntakeNext
  <2>1. ASSUME NEW h \in Handlers, CreateBlocked(h) \/ CreatePending(h)
        PROVE  [Outcome!OutcomeNext]_(Outcome!outcomes)
    <3>1. PICK r \in Runs, s \in {"blocked", "pending"} :
            /\ status[r] = "absent" /\ status' = [status EXCEPT ![r] = s]
            /\ UNCHANGED snapshot
      BY <2>1 DEF CreateBlocked, CreatePending, Recording, CreateRun, IsNextRun
    <3> QED BY <1>3, <3>1
  <2>2. ASSUME NEW h \in Handlers,
               \/ \E d \in Deliveries : Receive(h, d)
               \/ Decide(h) \/ LoseInsert(h) \/ RecordOnly(h) \/ JoinPending(h)
               \/ JoinCancelled(h) \/ ReplaceBlocked(h) \/ JoinConcurrent(h)
               \/ Claim(h) \/ SendTask(h) \/ SendTaskFails(h) \/ ReadUndone(h) \/ Undo(h)
               \/ CrashHandler(h)
        PROVE  UNCHANGED <<status, snapshot>>
    BY <2>2 DEF Receive, Decide, LoseInsert, RecordOnly, JoinPending, JoinCancelled,
                ReplaceBlocked, JoinConcurrent, Recording, Claim, SendTask, SendTaskFails,
                ReadUndone, Undo, CrashHandler
  <2> QED BY <1>2, <1>4, <2>1, <2>2 DEF IntakeNext, HandlerStep, Record
<1>5. CASE ManualNext
  <2>1. CASE Cancel
    <3>1. PICK r : /\ manual.pc = "cancel" /\ r = manual.run /\ UNCHANGED snapshot
                   /\ \/ UNCHANGED status
                      \/ /\ status[r] = "pending"
                         /\ status' = [status EXCEPT ![r] = "cancelled"]
      BY <2>1 DEF Cancel
    <3>2. r \in Runs
      BY <1>1, <3>1 DEF SafeInv, RunsInv, TypeOK, ManualTypeOK
    <3> QED BY <1>2, <1>3, <3>1, <3>2
  <2>2. CASE RequestSnapshot
    <3>1. CASE ActiveRuns = {}
      <4>1. PICK r \in Runs : /\ status[r] = "absent" /\ UNCHANGED snapshot
                              /\ status' = [status EXCEPT ![r] = "pending"]
        BY <2>2, <3>1 DEF RequestSnapshot, CreateRun, IsNextRun
      <4> QED BY <1>3, <4>1
    <3> QED BY <1>2, <2>2, <3>1 DEF RequestSnapshot
  <2>3. CASE SendManual \/ SendManualFails \/ CrashManual
    BY <1>2, <2>3 DEF SendManual, SendManualFails, CrashManual
  <2> QED BY <1>5, <2>1, <2>2, <2>3 DEF ManualNext, ManualStep
<1>6. CASE WorkerNext
  <2>1. ASSUME NEW w \in Workers, FailBuild(w) \/ FailTask(w) \/ CommitFailure(w)
        PROVE  [Outcome!OutcomeNext]_(Outcome!outcomes)
    <3>1. MarkFailed(w) /\ UNCHANGED snapshot
      BY <2>1 DEF FailBuild, FailTask, CommitFailure
    <3>2. PICK r : r = FailedRun(w)
      OBVIOUS
    <3>3. r \in Runs
      BY <1>1, <2>1, <3>2, WorkerData
         DEF FailBuild, FailTask, CommitFailure, HasRead, At, FailedRun, TypeOK,
             WorkerTypeOK, HasRuns
    <3>4. UNCHANGED status \/ status' = [status EXCEPT ![r] = "failed"]
      BY <3>1, <3>2 DEF MarkFailed
    <3> QED BY <1>2, <1>3, <3>1, <3>3, <3>4
  <2>2. ASSUME NEW w \in Workers, ReleaseBlocked(w)
        PROVE  [Outcome!OutcomeNext]_(Outcome!outcomes)
    <3>1. PICK q \in Runs : /\ status[q] = "blocked" /\ UNCHANGED snapshot
                            /\ status' = [status EXCEPT ![q] = "pending"]
      BY <2>2 DEF ReleaseBlocked, Releasable
    <3> QED BY <1>3, <3>1
  <2>3. ASSUME NEW w \in Workers, MarkRunning(w)
        PROVE  [Outcome!OutcomeNext]_(Outcome!outcomes)
    <3>1. PICK r : /\ r = worker[w].run /\ UNCHANGED snapshot
                   /\ \/ UNCHANGED status
                      \/ /\ status[r] = "pending"
                         /\ status' = [status EXCEPT ![r] = "running"]
      BY <2>3 DEF MarkRunning
    <3>2. r \in Runs
      BY <1>1, <2>3, <3>1, WorkerData DEF MarkRunning, At, TypeOK, WorkerTypeOK, HasRuns
    <3> QED BY <1>2, <1>3, <3>1, <3>2
  <2>4. ASSUME NEW w \in Workers,
               \/ \E r \in Runs : Take(w, r)
               \/ Load(w) \/ Resolve(w) \/ BuildFails(w) \/ Rebuild(w)
               \/ DispatchPending(w) \/ NothingToDispatch(w) \/ SendNext(w)
               \/ SendNextFails(w) \/ CrashWorker(w) \/ Duplicate(w)
        PROVE  UNCHANGED <<status, snapshot>>
    BY <2>4 DEF Take, Load, Resolve, BuildFails, Rebuild, DispatchPending,
                NothingToDispatch, SendNext, SendNextFails, CrashWorker, Duplicate
  <2>5. ASSUME NEW w \in Workers, Reads(w) \/ Finish(w) \/ RollBackFailure(w)
        PROVE  UNCHANGED <<status, snapshot>>
    BY <1>1, <2>5, ReadsEffect, LeavesEffect DEF Leaves
  <2> QED BY <1>2, <1>6, <2>1, <2>2, <2>3, <2>4, <2>5, OutcomeOfCommit
         DEF WorkerNext, WorkerStep, Reads
<1>7. CASE Environment
  BY <1>2, <1>7 DEF Environment, Push, Age
<1> QED BY <1>4, <1>5, <1>6, <1>7 DEF Next

\* Seen from outside, the builds of the pipeline are as those of SnapshotBuild: a run is
\* started once, gets one snapshot, of a commit that has been pushed, and may be given up
\* before or after it (mark_running, mark_succeeded, mark_failed).
THEOREM BuildsAreOutcomes == Spec => ImplementsOutcome
<1>1. Init => Outcome!OutcomeInit
  BY OutcomeValues DEF Init, TablesInit, Outcome!OutcomeInit
<1>2. IndInv /\ SafeInv /\ [Next]_vars => [Outcome!OutcomeNext]_(Outcome!outcomes)
  <2>1. UNCHANGED vars => UNCHANGED Outcome!outcomes
    BY DEF vars, tableVars, dbVars, runVars, Outcome!outcomes
  <2> QED BY <2>1, OutcomeStep
<1> QED BY <1>1, <1>2, Coverage, Safety, PTL DEF Spec, ImplementsOutcome, Outcome!OutcomeSpec

(***************************************************************************)
(* What the event rows say.                                                *)
(***************************************************************************)
\* Without redeliveries an event that is reported as synchronised belongs to a run that
\* has stored its snapshot, whatever fails, is lost, late or doubled
\* (_run_webhook_sync_task).
THEOREM CompletedEventsAreBuilt == Spec => [](Never({"redelivery"}) => CompletedHasSnapshot)
<1> DEFINE Good == Never({"redelivery"}) => CompletedHasSnapshot
<1>1. Init => Good
  BY DEF Init, TablesInit, NoEvent, CompletedHasSnapshot
<1>2. ASSUME IndInv, SafeInv, Good, Next PROVE Good'
  <2>1. SUFFICES ASSUME Never({"redelivery"})', NEW e \in Deliveries,
                        events'[e].status = "completed", events'[e].decision = "queued"
                 PROVE  events'[e].run # None /\ snapshot'[events'[e].run] # None
    BY DEF CompletedHasSnapshot
  <2>2. /\ TypeOK /\ OnceInv
        /\ (events[e].status = "completed" /\ events[e].decision = "queued")
              => events[e].run \in Runs /\ snapshot[events[e].run] # None
    <3>1. Never({"redelivery"}) /\ TypeOK
      BY <1>2, <2>1, IncidentsGrow DEF IndInv, Never
    <3>2. CompletedHasSnapshot /\ ~EventsMove
      BY <1>2, <3>1 DEF EventsMove
    <3> QED BY <1>2, <3>1, <3>2
            DEF SafeInv, DeliveriesInv, CompletedHasSnapshot, TypeOK, TablesTypeOK, Event
  <2>3. ASSUME NEW r \in Runs, snapshot[r] # None, events'[e].run = r
        PROVE  events'[e].run # None /\ snapshot'[events'[e].run] # None
    BY <1>2, <2>2, <2>3, SnapshotStored, NoneAssumption
  <2>4. ASSUME NEW r \in Runs, e = trigger[r]
        PROVE  events[e].run = r /\ events[e].decision = "queued"
    BY <2>2, <2>4, NoneAssumption DEF OnceInv
  <2>5. CASE events'[e] = events[e]
    BY <2>1, <2>2, <2>3, <2>5
  <2>6. CASE events'[e] # events[e]
    <3>1. ASSUME NEW r \in Runs, e = trigger[r], events'[e].status = events[e].status,
                 events'[e].run \in {events[e].run, r}
          PROVE  events'[e].run # None /\ snapshot'[events'[e].run] # None
      BY <2>1, <2>2, <2>3, <2>4, <3>1
    <3>2. ASSUME NEW w \in Workers, Finish(w), worker[w].run \in Runs,
                 e = trigger[worker[w].run], events'[e].run = events[e].run
          PROVE  events'[e].run # None /\ snapshot'[events'[e].run] # None
      <4>1. snapshot[worker[w].run] # None
        BY <1>2, <3>2 DEF Finish, At, SafeInv, StoredInv
      <4> QED BY <2>3, <2>4, <3>2, <4>1
    <3> QED BY <1>2, <2>1, <2>6, <3>1, <3>2, RowWritten
            DEF IndInv, SafeInv, Column, FailedEvent
  <2> QED BY <2>5, <2>6
<1>3. Good /\ UNCHANGED vars => Good'
  BY DEF CompletedHasSnapshot, EventsMove, Never, vars, tableVars, dbVars, runVars
<1> QED BY <1>1, <1>2, <1>3, Coverage, Safety, PTL DEF Spec

\* The cursor never vouches for a head whose sync has failed, so that its redelivery is
\* not taken for a duplicate, as long as no two failure transactions are open at once
\* (_restore_event_cursor_after_failure).
THEOREM CursorNamesNoFailure == Spec => []CursorNotFailed
<1>1. SafeInv => CursorNotFailed
  BY DEF SafeInv, CursorInv, CursorNotFailed
<1> QED BY <1>1, Safety, PTL

(***************************************************************************)
(* A dispatch on record has somebody or something behind it.               *)
(***************************************************************************)
NoCrash == Never({"handlerCrash", "workerCrash", "cursorConflict"})

Backed(r) ==
    \/ queue[r] > 0
    \/ \E h \in Handlers : handler[h].run = r /\ handler[h].pc \in {"send", "undo"}
    \/ \E w \in Workers : worker[w].run = r \/ worker[w].next = r

\* The queued message of a pending run stays or is taken by a worker.
LEMMA QueueKept ==
  ASSUME TypeOK, Next, NEW r \in Runs, queue[r] > 0, status[r] = "pending"
  PROVE  Backed(r)'
<1> USE DEF tableVars, dbVars, runVars
<1>1. queue \in [Runs -> Nat]
  BY DEF TypeOK, TablesTypeOK
<1>2. ASSUME NEW q, Send(q) PROVE queue'[r] > 0
  BY <1>1, <1>2 DEF Send
<1>3. ASSUME UNCHANGED queue PROVE queue'[r] > 0
  BY <1>3
<1>4. ASSUME NEW w \in Workers, NEW q \in Runs, Take(w, q) PROVE Backed(r)'
  <2>1. CASE q # r
    BY <1>1, <1>4, <2>1 DEF Take, Backed
  <2>2. CASE q = r
    <3>1. PICK b : worker' = [worker EXCEPT ![w] =
                       [IdleWorker EXCEPT !.pc = "load", !.run = r, !.allow = b]]
      BY <1>4, <2>2 DEF Take
    <3>2. worker'[w].run = r
      BY <3>1 DEF IdleWorker, TypeOK, WorkerTypeOK
    <3> QED BY <3>2 DEF Backed
  <2> QED BY <2>1, <2>2
<1>5. CASE IntakeNext
  <2>1. ASSUME NEW h \in Handlers,
               \/ \E d \in Deliveries : Receive(h, d)
               \/ Decide(h) \/ Record(h) \/ Claim(h) \/ ReadUndone(h) \/ Undo(h)
               \/ CrashHandler(h)
        PROVE  UNCHANGED queue
    BY <2>1 DEF Receive, Decide, Record, LoseInsert, RecordOnly, JoinPending,
                JoinCancelled, CreateBlocked, ReplaceBlocked, CreatePending,
                JoinConcurrent, Recording, Claim, ReadUndone, Undo, CrashHandler
  <2>2. ASSUME NEW h \in Handlers, SendTask(h) \/ SendTaskFails(h) PROVE queue'[r] > 0
    BY <1>2, <1>3, <2>2 DEF SendTask, SendTaskFails
  <2> QED BY <1>3, <1>5, <2>1, <2>2 DEF IntakeNext, HandlerStep, Backed
<1>6. CASE WorkerNext
  <2>1. ASSUME NEW w \in Workers,
               \/ Load(w) \/ MarkRunning(w) \/ Resolve(w) \/ BuildFails(w)
               \/ Rebuild(w) \/ Commit(w) \/ FailBuild(w)
               \/ DispatchPending(w) \/ ReleaseBlocked(w) \/ NothingToDispatch(w)
        PROVE  UNCHANGED queue
    BY <2>1 DEF Load, MarkRunning, Resolve, BuildFails, Rebuild, Commit,
                FailBuild, DispatchPending, ReleaseBlocked, NothingToDispatch
  <2>2. ASSUME NEW w \in Workers,
               SendNext(w) \/ SendNextFails(w) \/ CrashWorker(w) \/ Duplicate(w)
        PROVE  queue'[r] > 0
    BY <1>2, <1>3, <2>2 DEF SendNext, SendNextFails, CrashWorker, Duplicate
  <2>3. ASSUME NEW w \in Workers, Reads(w) \/ Leaves(w) PROVE UNCHANGED queue
    BY <2>3, ReadsEffect, LeavesEffect
  <2> QED BY <1>3, <1>4, <1>6, <2>1, <2>2, <2>3
          DEF WorkerNext, WorkerStep, Reads, Leaves, Backed
<1>7. CASE ManualNext
  BY <1>2, <1>3, <1>7 DEF ManualNext, ManualStep, RequestSnapshot, SendManual,
                          SendManualFails, Cancel, CrashManual, Backed
<1>8. CASE Environment
  BY <1>3, <1>8 DEF Environment, Push, Age, Backed
<1> QED BY <1>5, <1>6, <1>7, <1>8 DEF Next

\* A request that is to send a run sends it, or fails to and takes the dispatch back.
LEMMA SenderKept ==
  ASSUME TypeOK, Next, NoCrash', NEW r \in Runs, NEW h \in Handlers, handler[h].run = r,
         handler[h].pc \in {"send", "undo"}
  PROVE  Backed(r)' \/ dispatch'[r] = "none"
<1> USE DEF tableVars, dbVars, runVars
<1> DEFINE Good == Backed(r)' \/ dispatch'[r] = "none"
<1>1. ASSUME handler'[h] = handler[h] PROVE Good
  BY <1>1 DEF Backed
<1>2. ASSUME NEW g \in Handlers, CrashHandler(g) PROVE FALSE
  BY <1>2 DEF CrashHandler, Happens, Meets, NoCrash, Never
<1>3. CASE SendTask(h)
  BY <1>3 DEF SendTask, Send, Backed, TypeOK, TablesTypeOK
<1>4. CASE SendTaskFails(h)
  <2>1. handler' = [handler EXCEPT ![h].pc = "undo"]
    BY <1>4 DEF SendTaskFails, Goto
  <2>2. handler'[h].pc = "undo" /\ handler'[h].run = r
    BY <2>1 DEF TypeOK, IntakeTypeOK, HandlerState
  <2> QED BY <2>2 DEF Backed
<1>5. CASE Undo(h)
  BY <1>5 DEF Undo, TypeOK, TablesTypeOK
<1>6. ASSUME NEW g \in Handlers, NEW d \in Deliveries, Receive(g, d)
      PROVE  handler'[h] = handler[h]
  <2>1. handler[g].pc = "idle"
    BY <1>6 DEF Receive
  <2> QED BY <1>6, <2>1, ReceiveEffect DEF TypeOK, IntakeTypeOK
<1>7. ASSUME NEW g \in Handlers, Decide(g) PROVE handler'[h] = handler[h]
  BY <1>7, DecideEffect DEF TypeOK, IntakeTypeOK
<1>8. ASSUME NEW g \in Handlers, Record(g) PROVE handler'[h] = handler[h]
  <2>1. handler[g].pc = "record"
    BY <1>8 DEF Record, Recording, LoseInsert, RecordOnly, JoinPending, JoinCancelled,
           CreateBlocked, ReplaceBlocked, CreatePending, JoinConcurrent
  <2> QED BY <1>8, <2>1, RecordLeaves
<1>9. ASSUME NEW g \in Handlers, Claim(g) PROVE handler'[h] = handler[h]
  BY <1>9 DEF Claim, Goto, Respond, TypeOK, IntakeTypeOK
<1>10. ASSUME NEW g \in Handlers, g # h, SendTask(g) \/ SendTaskFails(g) \/ Undo(g)
       PROVE  handler'[h] = handler[h]
  BY <1>10 DEF SendTask, SendTaskFails, Undo, Goto, Respond, TypeOK, IntakeTypeOK
<1>11. ASSUME NEW g \in Handlers, ReadUndone(g) PROVE Good
  <2>1. CASE g = h
    <3>1. handler'[h].run = r /\ handler'[h].pc = "undo"
      BY <1>11, <2>1, ReadUndoneEffect DEF ReadUndone, TypeOK, IntakeTypeOK, HandlerState
    <3> QED BY <3>1 DEF Backed
  <2>2. CASE g # h
    BY <1>1, <1>11, <2>2 DEF ReadUndone, TypeOK, IntakeTypeOK
  <2> QED BY <2>1, <2>2
<1>12. CASE IntakeNext
  BY <1>1, <1>2, <1>3, <1>4, <1>5, <1>6, <1>7, <1>8, <1>9, <1>10, <1>11, <1>12
     DEF IntakeNext, HandlerStep
<1> QED BY <1>1, <1>12 DEF Next

\* A worker that has a pending run keeps it, or sends it on.
LEMMA WorkerKept ==
  ASSUME TypeOK, RunsInv, Next, NoCrash', NEW r \in Runs, NEW w \in Workers,
         worker[w].run = r \/ worker[w].next = r, status[r] = "pending",
         status'[r] = "pending"
  PROVE  Backed(r)'
<1> USE DEF tableVars, dbVars, runVars
<1>1. ASSUME worker'[w].run = worker[w].run, worker'[w].next = worker[w].next
      PROVE  Backed(r)'
  BY <1>1 DEF Backed
<1>2. /\ WorkerRunOK(w) /\ worker \in [Workers -> WorkerState] /\ r # None
      /\ status \in [Runs -> RunStatus]
  BY NoneAssumption DEF RunsInv, WorkerRunOK, TypeOK, TablesTypeOK, WorkerTypeOK
<1>3. worker[w].pc # "idle"
  BY <1>2 DEF WorkerRunOK
<1>4. worker[w].pc \in {"dispatch", "send", "sendFail"} \/ worker[w].next # None
         => worker[w].run # r
  BY <1>2 DEF WorkerRunOK, Done
<1>5. worker[w].pc \notin {"send", "sendFail", "restore", "upsert"}
         => worker[w].run = r /\ worker[w].next = None
  BY <1>2 DEF WorkerRunOK
<1>6. CASE \/ Load(w) \/ MarkRunning(w) \/ Resolve(w) \/ BuildFails(w) \/ Rebuild(w)
           \/ Commit(w) \/ FailBuild(w) \/ SendNextFails(w)
  BY <1>1, <1>2, <1>6
     DEF Load, MarkRunning, Resolve, BuildFails, Rebuild, Commit, FailBuild,
         SendNextFails, Step, WorkerState
<1>7. CASE DispatchPending(w) \/ ReleaseBlocked(w) \/ NothingToDispatch(w)
  <2>1. worker[w].pc = "dispatch"
    BY <1>7 DEF DispatchPending, ReleaseBlocked, NothingToDispatch, At
  <2> QED BY <1>4, <1>5, <2>1
<1>8. CASE SendNext(w)
  <2>1. worker[w].next = r /\ Send(r)
    BY <1>4, <1>8 DEF SendNext, At
  <2>2. queue'[r] > 0
    BY <2>1 DEF Send, TypeOK, TablesTypeOK
  <2> QED BY <2>2 DEF Backed
<1>9. CASE Reads(w)
  BY <1>1, <1>9, ReadsEffect
<1>10. CASE Leaves(w)
  <2>1. ~RollBackFailure(w)
    BY <1>2 DEF RollBackFailure, Collides, NoCrash, Never, TypeOK, TablesTypeOK
  <2>2. ASSUME worker'[w].run = worker[w].run, worker[w].run = r PROVE Backed(r)'
    BY <2>2 DEF Backed
  <2>3. CASE FailTask(w) \/ Finish(w)
    <3>1. worker[w].run = r /\ worker[w].pc # "upsert"
      BY <1>5, <2>3 DEF FailTask, Finish, HasRead, At
    <3>2. worker'[w].run = worker[w].run
      BY <1>10, <2>1, <3>1, LeavesEffect DEF CommitFailure, At
    <3> QED BY <2>2, <3>1, <3>2
  <2>4. CASE CommitFailure(w) /\ worker[w].next = None
    <3>1. worker[w].run = r /\ worker'[w].run = worker[w].run
      BY <1>2, <1>10, <2>4, LeavesEffect DEF RollBackFailure
    <3> QED BY <2>2, <3>1
  <2>5. CASE CommitFailure(w) /\ worker[w].next # None
    <3>1. CASE worker[w].next = r
      <4>1. FailedRun(w) = r /\ MarkFailed(w)
        BY <1>2, <2>5, <3>1 DEF CommitFailure, FailedRun
      <4>2. status'[r] \in Done
        BY <1>2, <4>1, FailedIsDone
      <4> QED BY <4>2 DEF Done
    <3>2. CASE worker[w].next # r
      BY <1>4, <2>5, <3>2
    <3> QED BY <3>1, <3>2
  <2> QED BY <1>10, <2>1, <2>3, <2>4, <2>5 DEF Leaves
<1>11. ~CrashWorker(w)
  BY DEF CrashWorker, Happens, Meets, NoCrash, Never
<1>12. ASSUME NEW q \in Runs, Take(w, q) PROVE FALSE
  BY <1>3, <1>12 DEF Take, At
<1>13. CASE Duplicate(w) \/ UNCHANGED worker
  BY <1>1, <1>13 DEF Duplicate
<1>14. CASE WorkerNext /\ ~WorkerAction(w)
  BY <1>1, <1>14, OtherWorker
<1> QED BY <1>6, <1>7, <1>8, <1>9, <1>10, <1>11, <1>12, <1>13, <1>14
        DEF Next, WorkerAction, WorkerStep, Reads, Leaves

\* A dispatch that is put on record is put there by who is going to send.
LEMMA NewDispatch ==
  ASSUME TypeOK, Next, NEW r \in Runs, dispatch[r] = "none", dispatch'[r] # "none"
  PROVE  Backed(r)'
<1> USE DEF tableVars, dbVars, runVars
<1>1. ASSUME NEW h \in Handlers,
             \/ \E d \in Deliveries : Receive(h, d)
             \/ Decide(h) \/ Record(h) \/ SendTask(h) \/ SendTaskFails(h)
             \/ ReadUndone(h) \/ Undo(h) \/ CrashHandler(h)
      PROVE  FALSE
  BY <1>1 DEF Receive, Decide, Record, LoseInsert, RecordOnly, JoinPending, JoinCancelled,
              CreateBlocked, CreatePending, CreateRun, ReplaceBlocked, JoinConcurrent,
              SendTask, SendTaskFails, ReadUndone, Undo, CrashHandler, Recording, TypeOK,
              TablesTypeOK
<1>2. ASSUME NEW h \in Handlers, Claim(h) PROVE Backed(r)'
  <2>1. handler[h].run = r /\ handler' = [handler EXCEPT ![h].pc = "send"]
    BY <1>2 DEF Claim, ClaimDispatch, Goto, TypeOK, TablesTypeOK
  <2>2. handler'[h].run = r /\ handler'[h].pc = "send"
    BY <2>1 DEF TypeOK, IntakeTypeOK, HandlerState
  <2> QED BY <2>2 DEF Backed
<1>3. ASSUME NEW w \in Workers, DispatchPending(w) \/ ReleaseBlocked(w) PROVE Backed(r)'
  <2>1. PICK q \in Runs : /\ dispatch' = [dispatch EXCEPT ![q] = "fresh"]
                          /\ worker' = [worker EXCEPT ![w].pc = "send", ![w].next = q]
    BY <1>3 DEF DispatchPending, ReleaseBlocked, PendingToDispatch, WithStatus,
                ClaimDispatch
  <2>2. worker'[w].next = q /\ q = r
    BY <2>1 DEF TypeOK, WorkerTypeOK, WorkerState, TablesTypeOK
  <2> QED BY <2>2 DEF Backed
<1>4. ASSUME NEW w \in Workers, WorkerAction(w), ~(DispatchPending(w) \/ ReleaseBlocked(w))
      PROVE  UNCHANGED dispatch
  <2>1. CASE Reads(w) \/ Leaves(w)
    BY <2>1, ReadsEffect, LeavesEffect
  <2>2. CASE ~Reads(w) /\ ~Leaves(w)
    BY <1>4, <2>2 DEF WorkerAction, WorkerStep, Reads, Leaves, Take, Load, MarkRunning,
        Resolve, BuildFails, Rebuild, Commit, FailBuild, NothingToDispatch, SendNext,
        SendNextFails, CrashWorker, Duplicate
  <2> QED BY <2>1, <2>2
<1>5. ~ManualNext
  BY DEF ManualNext, ManualStep, RequestSnapshot, CreateRun, SendManual, SendManualFails,
         Cancel, CrashManual
<1>6. ~Environment
  BY DEF Environment, Push, Age, TypeOK, TablesTypeOK
<1> QED BY <1>1, <1>2, <1>3, <1>4, <1>5, <1>6
        DEF Next, IntakeNext, HandlerStep, WorkerNext, WorkerAction

\* Unless a process dies, the dispatch of a pending run that is on record is backed by
\* a message or by somebody who is about to send one or to take it back
\* (claim_dispatch_enqueued, record_webhook_enqueue_failure).
THEOREM DispatchesAreBacked == Spec => []DispatchBacked
<1>1. Init => DispatchBacked
  BY DEF Init, TablesInit, DispatchBacked
<1>2. ASSUME IndInv, SafeInv, DispatchBacked, Next PROVE DispatchBacked'
  <2>1. SUFFICES ASSUME NoCrash', NEW r \in Runs, status'[r] = "pending",
                        dispatch'[r] # "none"
                 PROVE  Backed(r)'
    BY DEF DispatchBacked, NoCrash, Backed
  <2>2. TypeOK /\ RunsInv
    BY <1>2 DEF IndInv, SafeInv
  <2>3. NoCrash
    BY <1>2, <2>1, <2>2, IncidentsGrow DEF NoCrash, Never
  <2>4. CASE dispatch[r] = "none"
    BY <1>2, <2>1, <2>2, <2>4, NewDispatch
  <2>5. CASE dispatch[r] # "none" /\ status[r] = "pending"
    <3>1. Backed(r)
      BY <1>2, <2>3, <2>5 DEF DispatchBacked, NoCrash, Backed
    <3> QED BY <1>2, <2>1, <2>2, <2>5, <3>1, QueueKept, SenderKept, WorkerKept DEF Backed
  <2>6. CASE dispatch[r] # "none" /\ status[r] # "pending"
    <3>1. Made(r)
      BY <2>2, <2>6 DEF RunsInv
    <3> QED BY <1>2, <2>1, <2>2, <2>6, <3>1, IntakeOnRuns, ManualOnRuns, WorkerMoves
            DEF Made, Next, Environment, Push, Age, dbVars, runVars
  <2> QED BY <2>4, <2>5, <2>6
<1>3. DispatchBacked /\ UNCHANGED vars => DispatchBacked'
  BY DEF DispatchBacked, Never, vars, tableVars, dbVars, runVars
<1> QED BY <1>1, <1>2, <1>3, Coverage, Safety, PTL DEF Spec
===============================================================================
