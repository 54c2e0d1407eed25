----------------------------- MODULE CoverageProofs -----------------------------
(***************************************************************************)
(* Proof that no head is lost: NoHeadLost, by the inductive invariant      *)
(* IndInv of SyncPipeline, one part of it at a time.                       *)
(***************************************************************************)
EXTENDS SyncPipelineProofs

(***************************************************************************)
(* What the requests may do to runs.                                       *)
(***************************************************************************)
\* A webhook request stores no snapshot and changes the status of a run only by
\* creating it.
LEMMA IntakeOnRuns ==
  ASSUME TypeOK, IntakeNext
  PROVE  /\ UNCHANGED <<remote, snapshot>>
         /\ \A r \in Runs : status'[r] # status[r] =>
               status[r] = "absent" /\ status'[r] \in {"blocked", "pending"}
         /\ \A r \in Runs : trigger'[r] # trigger[r] =>
               /\ status[r] \in {"absent", "blocked"}
               /\ \E h \in Handlers : /\ handler[h].pc = "record"
                                      /\ trigger'[r] = handler[h].d
<1> USE DEF tableVars, dbVars, runVars
<1>1. ASSUME NEW h \in Handlers, NEW d \in Deliveries, Receive(h, d)
      PROVE  UNCHANGED <<remote, snapshot, status, trigger>>
  BY <1>1 DEF Receive
<1>2. ASSUME NEW h \in Handlers,
             \/ Decide(h) \/ LoseInsert(h) \/ RecordOnly(h) \/ JoinPending(h)
             \/ JoinCancelled(h) \/ JoinConcurrent(h) \/ Claim(h) \/ SendTask(h)
             \/ SendTaskFails(h) \/ ReadUndone(h) \/ Undo(h) \/ CrashHandler(h)
      PROVE  UNCHANGED <<remote, snapshot, status, trigger>>
  BY <1>2 DEF Decide, LoseInsert, RecordOnly, JoinPending, JoinCancelled,
              JoinConcurrent, Claim, ClaimDispatch, SendTask, SendTaskFails,
              ReadUndone, Undo, CrashHandler, Recording
<1>3. ASSUME NEW h \in Handlers, CreateBlocked(h) \/ CreatePending(h)
      PROVE  /\ UNCHANGED <<remote, snapshot>>
             /\ \E r \in Runs, s \in {"blocked", "pending"} :
                  /\ status[r] = "absent"
                  /\ status' = [status EXCEPT ![r] = s]
                  /\ trigger' = [trigger EXCEPT ![r] = handler[h].d]
  BY <1>3 DEF CreateBlocked, CreatePending, Recording, CreateRun, IsNextRun
<1>4. ASSUME NEW h \in Handlers, ReplaceBlocked(h)
      PROVE  /\ UNCHANGED <<remote, snapshot, status>>
             /\ \E r \in Runs :
                  /\ status[r] = "blocked"
                  /\ trigger' = [trigger EXCEPT ![r] = handler[h].d]
  BY <1>4 DEF ReplaceBlocked, Recording, WithStatus
<1>6. ASSUME NEW h \in Handlers, CreateBlocked(h) \/ CreatePending(h)
      PROVE  /\ \A r \in Runs : status'[r] # status[r] =>
                   status[r] = "absent" /\ status'[r] \in {"blocked", "pending"}
             /\ \A r \in Runs : trigger'[r] # trigger[r] =>
                   status[r] \in {"absent", "blocked"} /\ trigger'[r] = handler[h].d
  BY <1>3, <1>6 DEF TypeOK, TablesTypeOK
<1>7. ASSUME NEW h \in Handlers, ReplaceBlocked(h)
      PROVE  \A r \in Runs : trigger'[r] # trigger[r] =>
                   status[r] \in {"absent", "blocked"} /\ trigger'[r] = handler[h].d
  BY <1>4, <1>7 DEF TypeOK, TablesTypeOK
<1>8. ASSUME NEW h \in Handlers,
             CreateBlocked(h) \/ CreatePending(h) \/ ReplaceBlocked(h)
      PROVE  handler[h].pc = "record"
  BY <1>8 DEF CreateBlocked, CreatePending, ReplaceBlocked, Recording
<1> QED BY <1>1, <1>2, <1>3, <1>4, <1>6, <1>7, <1>8
        DEF IntakeNext, HandlerStep, Record

\* A manual request does the same, and may cancel a pending run.
LEMMA ManualOnRuns ==
  ASSUME TypeOK, ManualNext
  PROVE  /\ UNCHANGED <<remote, events, snapshot>>
         /\ \A r \in Runs : status'[r] # status[r] =>
               \/ status[r] = "absent" /\ status'[r] = "pending"
               \/ status[r] = "pending" /\ status'[r] = "cancelled"
         /\ \A r \in Runs : trigger'[r] # trigger[r] =>
               status[r] = "absent" /\ trigger'[r] = None
  BY DEF ManualNext, ManualStep, RequestSnapshot, SendManual, SendManualFails, Cancel,
         CrashManual, CreateRun, IsNextRun, TypeOK, TablesTypeOK, dbVars, runVars

\* A worker moves a run along its life cycle and rewrites no trigger.
LEMMA WorkerOnRuns ==
  ASSUME TypeOK, WorkerNext
  PROVE  /\ UNCHANGED <<remote, trigger>>
         /\ \A r \in Runs : status'[r] # status[r] =>
               \/ status'[r] \in {"pending", "succeeded", "failed"}
               \/ status[r] = "pending" /\ status'[r] = "running"
<1> USE DEF tableVars, dbVars, runVars
<1>1. ASSUME NEW w \in Workers, FailBuild(w) \/ FailTask(w) \/ CommitFailure(w)
      PROVE  UNCHANGED <<remote, trigger>> /\ MarkFailed(w)
  BY <1>1 DEF FailBuild, FailTask, CommitFailure
<1>2. ASSUME NEW w \in Workers, MarkFailed(w)
      PROVE  \A r \in Runs : status'[r] # status[r] => status'[r] = "failed"
  BY <1>2, MarkFailedEffect DEF TypeOK, TablesTypeOK
<1>3. ASSUME NEW w \in Workers,
             \/ \E r \in Runs : Take(w, r)
             \/ Load(w) \/ Resolve(w) \/ BuildFails(w) \/ Rebuild(w)
             \/ ReadEvent(w) \/ ReadStatus(w) \/ FailEvent(w) \/ ReadCursor(w)
             \/ RollBackFailure(w) \/ Finish(w) \/ DispatchPending(w)
             \/ NothingToDispatch(w)
             \/ SendNext(w) \/ SendNextFails(w) \/ CrashWorker(w) \/ Duplicate(w)
      PROVE  UNCHANGED <<remote, trigger, status>>
  BY <1>3 DEF Take, Load, Resolve, BuildFails, Rebuild, ReadEvent, ReadStatus, FailEvent,
              ReadCursor, RollBackFailure, Finish, DispatchPending, NothingToDispatch, SendNext, SendNextFails, CrashWorker, Duplicate
<1>4. ASSUME NEW w \in Workers, MarkRunning(w) \/ Commit(w) \/ ReleaseBlocked(w)
      PROVE  /\ UNCHANGED <<remote, trigger>>
             /\ \A r \in Runs : status'[r] # status[r] =>
                   \/ status'[r] \in {"pending", "succeeded"}
                   \/ status[r] = "pending" /\ status'[r] = "running"
  BY <1>4 DEF MarkRunning, Commit, ReleaseBlocked, TypeOK, TablesTypeOK
<1> QED BY <1>1, <1>2, <1>3, <1>4 DEF WorkerNext, WorkerStep

\* A run, once there, stays, and so does the fact that it has a trigger event.
LEMMA RunsKept ==
  ASSUME TypeOK, IntakeInv, Next, NEW r \in Runs, status[r] # "absent"
  PROVE  /\ status'[r] # "absent"
         /\ trigger[r] # None => trigger'[r] # None
<1>1. CASE IntakeNext
  BY <1>1, IntakeOnRuns DEF IntakeInv
<1>2. CASE ManualNext
  BY <1>2, ManualOnRuns
<1>3. CASE WorkerNext
  BY <1>3, WorkerOnRuns
<1>4. CASE Environment
  BY <1>4 DEF Environment, Push, Age, dbVars, runVars
<1> QED BY <1>1, <1>2, <1>3, <1>4 DEF Next

(***************************************************************************)
(* LifecycleInv.                                                           *)
(***************************************************************************)
LEMMA LifecycleStep ==
  ASSUME TypeOK, LifecycleInv, Next
  PROVE  LifecycleInv'
<1> USE DEF LifecycleInv, Building, NotBuilt, Started
<1> USE DEF tableVars, dbVars, runVars
<1>1. ASSUME IntakeNext, UNCHANGED worker PROVE LifecycleInv'
  BY <1>1, IntakeOnRuns DEF TypeOK, TablesTypeOK
<1>2. ASSUME ManualNext, UNCHANGED worker PROVE LifecycleInv'
  BY <1>2, ManualOnRuns DEF TypeOK, TablesTypeOK
<1>3. ASSUME Environment, UNCHANGED worker PROVE LifecycleInv'
  BY <1>3 DEF Environment, Push, Age
<1>4. ASSUME NEW w \in Workers, NEW r \in Runs, Take(w, r) PROVE LifecycleInv'
  BY <1>4, TakeEffect DEF TypeOK, WorkerTypeOK
<1>5. ASSUME NEW w \in Workers, Load(w) PROVE LifecycleInv'
  <2>1. PICK pc \in {"finish", "mark", "resolve", "fail"} :
          /\ worker' = [worker EXCEPT ![w].pc = pc]
          /\ pc = "resolve" => status[worker[w].run] = "running"
    BY <1>5, LoadEffect
  <2>2. UNCHANGED <<status, snapshot>> /\ worker[w].run \in Runs
    BY <1>5, LoadEffect, WorkerData DEF TypeOK, WorkerTypeOK, HasRuns
  <2> QED BY <2>1, <2>2 DEF TypeOK, WorkerTypeOK, WorkerState
<1>6. ASSUME NEW w \in Workers, MarkRunning(w) PROVE LifecycleInv'
  <2>1. worker[w].run \in Runs
    BY <1>6, WorkerData DEF TypeOK, WorkerTypeOK, HasRuns, MarkRunning, At
  <2>2. CASE status[worker[w].run] = "pending"
    <3>1. /\ status' = [status EXCEPT ![worker[w].run] = "running"]
          /\ worker' = [worker EXCEPT ![w].pc = "resolve"]
          /\ UNCHANGED snapshot
      BY <1>6, <2>2 DEF MarkRunning, Step
    <3>2. status \in [Runs -> RunStatus] /\ worker \in [Workers -> WorkerState]
      BY DEF TypeOK, TablesTypeOK, WorkerTypeOK
    <3> QED BY <2>1, <2>2, <3>1, <3>2 DEF WorkerState
  <2>3. CASE status[worker[w].run] # "pending"
    BY <1>6, <2>3 DEF MarkRunning, Step, TypeOK, WorkerTypeOK, WorkerState
  <2> QED BY <2>2, <2>3
<1>7. ASSUME NEW w \in Workers, Resolve(w) \/ BuildFails(w) \/ Rebuild(w)
      PROVE  LifecycleInv'
  BY <1>7 DEF Resolve, BuildFails, Rebuild, At, Step, TypeOK, TablesTypeOK, WorkerTypeOK,
              WorkerState
<1>8. ASSUME NEW w \in Workers, Commit(w) PROVE LifecycleInv'
  BY <1>8 DEF Commit, At, TypeOK, TablesTypeOK, WorkerTypeOK, WorkerState
<1>9. ASSUME NEW w \in Workers, Reads(w) PROVE LifecycleInv'
  BY <1>9, ReadsEffect
<1>10. ASSUME NEW w \in Workers, FailBuild(w) \/ Leaves(w) PROVE LifecycleInv'
  <2>1. UNCHANGED snapshot /\ (MarkFailed(w) \/ UNCHANGED status)
    BY <1>10, LeavesEffect DEF FailBuild, Leaves
  <2>2. ~Building(w)' /\ worker'[w].pc # "commit"
    BY <1>10, LeavesEffect DEF FailBuild, TypeOK, WorkerTypeOK, WorkerState
  <2>3. \A v \in Workers \ {w} : worker'[v] = worker[v]
    BY <1>10, LeavesEffect DEF FailBuild, TypeOK, WorkerTypeOK
  <2> QED BY <2>1, <2>2, <2>3, MarkFailedEffect DEF TypeOK, TablesTypeOK
<1>11. ASSUME NEW w \in Workers, SendNextFails(w) PROVE LifecycleInv'
  BY <1>11 DEF SendNextFails, Step, TypeOK, WorkerTypeOK, WorkerState
<1>12. ASSUME NEW w \in Workers, DispatchPending(w) \/ ReleaseBlocked(w)
       PROVE  LifecycleInv'
  <2>1. /\ UNCHANGED snapshot
        /\ \/ status' = status
           \/ \E q \in Runs : /\ status[q] = "blocked"
                              /\ status' = [status EXCEPT ![q] = "pending"]
    BY <1>12 DEF DispatchPending, ReleaseBlocked, Releasable
  <2>2. worker'[w].pc = "send" /\ \A v \in Workers \ {w} : worker'[v] = worker[v]
    BY <1>12 DEF DispatchPending, ReleaseBlocked, TypeOK, WorkerTypeOK, WorkerState
  <2> QED BY <2>1, <2>2 DEF TypeOK, TablesTypeOK
<1>13. ASSUME NEW w \in Workers, NothingToDispatch(w) \/ SendNext(w) \/ CrashWorker(w)
       PROVE  LifecycleInv'
  BY <1>13 DEF NothingToDispatch, SendNext, CrashWorker, Ack, IdleWorker, TypeOK,
               WorkerTypeOK
<1>14. ASSUME NEW w \in Workers, Duplicate(w) PROVE LifecycleInv'
  BY <1>14 DEF Duplicate
<1> QED BY <1>1, <1>2, <1>3, <1>4, <1>5, <1>6, <1>7, <1>8, <1>9, <1>10, <1>11,
           <1>12, <1>13, <1>14
        DEF Next, WorkerNext, WorkerStep, Reads, Leaves

(***************************************************************************)
(* SendersInv.                                                             *)
(***************************************************************************)
LEMMA SendersStep ==
  ASSUME TypeOK, IntakeInv, SendersInv, Next
  PROVE  SendersInv'
<1> DEFINE HandlerOK(h) ==
             (handler[h].pc \in {"claim", "send", "undo"} \/ handler[h].offer) =>
                /\ handler[h].run \in Runs
                /\ status[handler[h].run] # "absent"
                /\ trigger[handler[h].run] # None
           WorkerOK(w) ==
             worker[w].next # None =>
                /\ worker[w].next \in Runs
                /\ status[worker[w].next] # "absent"
                /\ trigger[worker[w].next] # None
<1>1. ASSUME NEW h \in Handlers, handler'[h] = handler[h] PROVE HandlerOK(h)'
  BY <1>1, RunsKept DEF SendersInv
<1>2. ASSUME NEW w \in Workers, worker'[w] = worker[w] PROVE WorkerOK(w)'
  BY <1>2, RunsKept DEF SendersInv
<1>3. ASSUME NEW h \in Handlers, Respond(h), NEW g \in Handlers PROVE HandlerOK(g)'
  BY <1>1, <1>3 DEF Respond, IdleHandler, TypeOK, IntakeTypeOK
<1>4. ASSUME NEW h \in Handlers, NEW r \in Runs, Dispatching(h, r),
             status'[r] # "absent", trigger'[r] # None, NEW g \in Handlers
      PROVE  HandlerOK(g)'
  BY <1>1, <1>4 DEF Dispatching, IdleHandler, TypeOK, IntakeTypeOK
<1>5. ASSUME NEW h \in Handlers, NEW pc, Goto(h, pc),
             handler[h].pc \in {"claim", "send"}, NEW g \in Handlers
      PROVE  HandlerOK(g)'
  BY <1>1, <1>5, RunsKept DEF Goto, SendersInv, TypeOK, IntakeTypeOK, HandlerState
<1>6. ASSUME NEW h \in Handlers, NEW d \in Deliveries, Receive(h, d),
             NEW g \in Handlers
      PROVE  HandlerOK(g)'
  BY <1>1, <1>6, ReceiveEffect DEF TypeOK, IntakeTypeOK
<1>7. ASSUME NEW h \in Handlers, Decide(h), NEW g \in Handlers PROVE HandlerOK(g)'
  <2>1. PICK entry \in HandlerState :
          /\ handler' = [handler EXCEPT ![h] = entry]
          /\ entry.pc = "record"
          /\ entry.run \in {ThePending, None}
          /\ entry.offer => entry.run # None /\ trigger[entry.run] # None
    BY <1>7, DecideEffect
  <2>2. UNCHANGED <<status, trigger>>
    BY <1>7, DecideEffect DEF tableVars, dbVars, runVars
  <2> QED BY <1>1, <2>1, <2>2, ThePendingType DEF TypeOK, IntakeTypeOK
<1>15. ASSUME NEW h \in Handlers, ReadUndone(h), NEW g \in Handlers PROVE HandlerOK(g)'
  <2>1. PICK row \in Event :
          handler' = [handler EXCEPT ![h] = [handler[h] EXCEPT !.loaded = row]]
    <3> DEFINE row == events[trigger[handler[h].run]]
    <3>1. row \in Event
      BY <1>15, ReadUndoneEffect DEF TypeOK, TablesTypeOK
    <3>2. handler' = [handler EXCEPT ![h] = [handler[h] EXCEPT !.loaded = row]]
      BY <1>15, ReadUndoneEffect
    <3> QED BY <3>1, <3>2
  <2> QED BY <1>1, <1>15, <2>1, ReadUndoneEffect, RunsKept
          DEF SendersInv, TypeOK, IntakeTypeOK, HandlerState
<1>8. ASSUME NEW h \in Handlers, NEW g \in Handlers,
             \/ LoseInsert(h) \/ RecordOnly(h) \/ JoinCancelled(h)
             \/ CreateBlocked(h) \/ ReplaceBlocked(h) \/ JoinConcurrent(h)
             \/ SendTask(h) \/ Undo(h) \/ CrashHandler(h)
      PROVE  HandlerOK(g)'
  BY <1>3, <1>8
     DEF LoseInsert, RecordOnly, JoinCancelled, CreateBlocked, ReplaceBlocked,
         JoinConcurrent, SendTask, Undo, CrashHandler
<1>9. ASSUME NEW h \in Handlers, JoinPending(h), NEW g \in Handlers
      PROVE  HandlerOK(g)'
  <2>1. CASE handler[h].offer
    <3>1. handler[h].run \in Runs /\ Dispatching(h, handler[h].run)
      BY <1>9, <2>1 DEF JoinPending, SendersInv
    <3>2. status'[handler[h].run] # "absent" /\ trigger'[handler[h].run] # None
      BY <2>1, RunsKept DEF SendersInv
    <3> QED BY <1>4, <3>1, <3>2
  <2>2. CASE ~handler[h].offer
    BY <1>3, <1>9, <2>2 DEF JoinPending
  <2> QED BY <2>1, <2>2
<1>10. ASSUME NEW h \in Handlers, CreatePending(h), NEW g \in Handlers
       PROVE  HandlerOK(g)'
  <2>1. PICK r \in Runs : /\ CreateRun(r, "pending", handler[h].d)
                          /\ Dispatching(h, r)
    BY <1>10 DEF CreatePending
  <2>2. handler[h].d # None
    BY <1>10 DEF CreatePending, Recording, IntakeInv
  <2>3. status'[r] = "pending" /\ trigger'[r] = handler[h].d
    BY <2>1 DEF CreateRun, TypeOK, TablesTypeOK
  <2> QED BY <1>4, <2>1, <2>2, <2>3
<1>11. ASSUME NEW h \in Handlers, Claim(h) \/ SendTaskFails(h), NEW g \in Handlers
       PROVE  HandlerOK(g)'
  BY <1>3, <1>5, <1>11 DEF Claim, SendTaskFails
<1>12. \A h \in Handlers : HandlerOK(h)'
  BY <1>1, <1>6, <1>7, <1>8, <1>9, <1>10, <1>11, <1>15
     DEF Next, IntakeNext, HandlerStep, Record
<1>16. ASSUME NEW w \in Workers, worker'[w].next = worker[w].next PROVE WorkerOK(w)'
  BY <1>16, RunsKept DEF SendersInv
<1>13. ASSUME NEW w \in Workers, WorkerNext, worker'[w].next # None
       PROVE  WorkerOK(w)'
  <2>1. ASSUME DispatchPending(w) PROVE WorkerOK(w)'
    BY <2>1 DEF DispatchPending, PendingToDispatch, WithStatus, TypeOK, WorkerTypeOK,
                WorkerState
  <2>2. ASSUME ReleaseBlocked(w) PROVE WorkerOK(w)'
    BY <2>2 DEF ReleaseBlocked, Releasable, TypeOK, TablesTypeOK, WorkerTypeOK,
                WorkerState
  <2>4. ASSUME NEW v \in Workers, Reads(v) \/ Leaves(v)
        PROVE  worker'[w].next = worker[w].next
    BY <1>13, <2>4, ReadsEffect, LeavesEffect
  <2>5. ASSUME NEW v \in Workers, Ack(v) PROVE worker'[w] = worker[w]
    BY <1>13, <2>5 DEF Ack, IdleWorker, TypeOK, WorkerTypeOK
  <2>6. ASSUME NEW v \in Workers, NEW r \in Runs, Take(v, r)
        PROVE  worker'[w] = worker[w]
    BY <1>13, <2>6 DEF Take, IdleWorker, TypeOK, WorkerTypeOK
  <2>7. ASSUME NEW v \in Workers,
               \/ Load(v) \/ MarkRunning(v) \/ Resolve(v) \/ BuildFails(v)
               \/ Rebuild(v) \/ Commit(v) \/ FailBuild(v) \/ SendNextFails(v)
        PROVE  worker'[w].next = worker[w].next
    BY <2>7 DEF Load, MarkRunning, Resolve, BuildFails, Rebuild, Commit, FailBuild,
                SendNextFails, Step, TypeOK, WorkerTypeOK, WorkerState
  <2>8. ASSUME NEW v \in Workers, v # w, DispatchPending(v) \/ ReleaseBlocked(v)
        PROVE  worker'[w] = worker[w]
    BY <2>8 DEF DispatchPending, ReleaseBlocked, TypeOK, WorkerTypeOK
  <2>9. ASSUME NEW v \in Workers,
               NothingToDispatch(v) \/ SendNext(v) \/ CrashWorker(v) \/ Duplicate(v)
        PROVE  worker'[w] = worker[w]
    BY <2>5, <2>9 DEF NothingToDispatch, SendNext, CrashWorker, Duplicate
  <2> QED BY <1>13, <1>16, <2>1, <2>2, <2>4, <2>6, <2>7, <2>8, <2>9
          DEF WorkerNext, WorkerStep, Reads, Leaves
<1>14. \A w \in Workers : WorkerOK(w)'
  BY <1>2, <1>13 DEF Next
<1> QED BY <1>12, <1>14 DEF SendersInv

(***************************************************************************)
(* PushedInv.                                                              *)
(***************************************************************************)
\* A new link from an event to a run is made for the run's trigger event, or by
\* a request for its own event: to the pending run it has read, to a run that
\* is not being executed, or to one that became active after it found none.
LEMMA NewLink ==
  ASSUME TypeOK, IntakeInv, SendersInv, Next, NEW d \in Deliveries,
         events'[d].run # None, events'[d].run # events[d].run
  PROVE  LET r == events'[d].run IN
         /\ r \in Runs
         /\ \/ trigger[r] = d
            \/ \E h \in Handlers :
                 /\ handler[h].pc = "record" /\ handler[h].d = d
                 /\ \/ r = handler[h].run
                    \/ status[r] \in {"absent", "blocked"}
                    \/ /\ status[r] \in {"pending", "running"}
                       /\ handler[h].decision = "queued" /\ ~handler[h].running
<1> DEFINE r == events'[d].run
           Explained == \/ trigger[r] = d
                        \/ \E h \in Handlers :
                             /\ handler[h].pc = "record" /\ handler[h].d = d
                             /\ \/ r = handler[h].run
                                \/ status[r] \in {"absent", "blocked"}
                                \/ /\ status[r] \in {"pending", "running"}
                                   /\ handler[h].decision = "queued"
                                   /\ ~handler[h].running
<1> USE DEF tableVars, dbVars, runVars
<1>1. r \in Runs
  BY TablesTypeStep DEF TablesTypeOK, Event
<1>2. ASSUME NEW q \in Runs, NEW dec, NEW st, trigger[q] # None,
             events' = Settle(events, trigger[q], dec, st, q)
      PROVE  Explained
  BY <1>2, SettleRun DEF TypeOK, TablesTypeOK
<1>3. ASSUME NEW h \in Handlers, NEW q \in Runs, NEW dec, NEW st,
             handler[h].pc = "record",
             events' = Settle(MyEvents(h), handler[h].d, dec, st, q)
      PROVE  /\ handler[h].d = d /\ r = q
  <2>1. handler[h].d \in Deliveries
    BY <1>3, HandlerData DEF IntakeInv
  <2> QED BY <1>3, <2>1, SettleRun, MyEventsType, MyEventsRun
<1>4. ASSUME NEW h \in Handlers, RecordOnly(h) PROVE FALSE
  <2>1. handler[h].d \in Deliveries
    BY <1>4, HandlerData DEF RecordOnly, Recording, IntakeInv
  <2> QED BY <1>4, <2>1, MyEventsRun DEF RecordOnly
<1>5. ASSUME NEW h \in Handlers, JoinPending(h) PROVE Explained
  <2>1. handler[h].run \in Runs /\ handler[h].pc = "record"
    BY <1>5, HandlerData DEF JoinPending, Recording
  <2> QED BY <1>3, <1>5, <2>1 DEF JoinPending
<1>6. ASSUME NEW h \in Handlers, CreateBlocked(h) \/ CreatePending(h)
      PROVE  Explained
  BY <1>3, <1>6 DEF CreateBlocked, CreatePending, Recording, CreateRun, IsNextRun
<1>7. ASSUME NEW h \in Handlers, ReplaceBlocked(h) PROVE Explained
  <2>1. handler[h].d \in Deliveries /\ handler[h].pc = "record"
    BY <1>7, HandlerData DEF ReplaceBlocked, Recording, IntakeInv
  <2>2. PICK q \in Runs :
          /\ status[q] = "blocked"
          /\ LET previous == trigger[q]
                 retired == IF previous \in {None, handler[h].d} THEN MyEvents(h)
                            ELSE Settle(MyEvents(h), previous, "duplicate_head",
                                        "completed", q)
             IN  events' = Settle(retired, handler[h].d, "queued", "validated", q)
    BY <1>7 DEF ReplaceBlocked, WithStatus
  <2>3. CASE trigger[q] \in {None, handler[h].d}
    BY <1>3, <2>1, <2>2, <2>3
  <2>4. CASE trigger[q] \notin {None, handler[h].d}
    <3> DEFINE retired == Settle(MyEvents(h), trigger[q], "duplicate_head",
                                 "completed", q)
    <3>1. trigger[q] \in Deliveries
      BY <2>4 DEF TypeOK, TablesTypeOK
    <3>2. retired \in [Deliveries -> Event]
      BY MyEventsType, SettleType DEF Decisions, EventStatus
    <3>3. events' = Settle(retired, handler[h].d, "queued", "validated", q)
      BY <2>2, <2>4
    <3>4. r = IF d = handler[h].d THEN q ELSE retired[d].run
      BY <2>1, <3>2, <3>3, SettleRun
    <3>5. retired[d].run = IF d = trigger[q] THEN q ELSE MyEvents(h)[d].run
      BY <3>1, MyEventsType, SettleRun
    <3>6. MyEvents(h)[d].run \in {events[d].run, None}
      BY <2>1, MyEventsRun
    <3>7. CASE d = handler[h].d
      <4>1. r = q /\ status[r] = "blocked"
        BY <2>2, <3>4, <3>7
      <4> QED BY <2>1, <3>7, <4>1
    <3>8. CASE d # handler[h].d /\ d = trigger[q]
      <4>1. r = q
        BY <3>4, <3>5, <3>8
      <4> QED BY <3>8, <4>1
    <3>9. CASE d # handler[h].d /\ d # trigger[q]
      <4>1. r = MyEvents(h)[d].run
        BY <3>4, <3>5, <3>9
      <4> QED BY <3>6, <4>1
    <3> QED BY <3>7, <3>8, <3>9
  <2> QED BY <2>3, <2>4
<1>8. ASSUME NEW h \in Handlers, JoinConcurrent(h) PROVE Explained
  BY <1>3, <1>8 DEF JoinConcurrent, Recording, ActiveRuns, WithStatus
<1>19. ASSUME NEW q \in Runs \cup {None}, NEW loaded \in Event, NEW st, NEW e \in Deliveries,
              events' = WriteBack(events, e, loaded, st, q),
              loaded.run = q \/ trigger[q] = e
       PROVE  Explained
  BY <1>19, WriteBackFields DEF Column, TypeOK, TablesTypeOK
<1>9. ASSUME NEW h \in Handlers, Undo(h) PROVE Explained
  <2>1. handler[h].run \in Runs /\ trigger[handler[h].run] \in Deliveries
    BY <1>9 DEF Undo, SendersInv, TypeOK, TablesTypeOK
  <2> QED BY <1>9, <1>19, <2>1, HandlerData, UndoEffect
<1>10. ASSUME NEW w \in Workers, Finish(w) PROVE Explained
  BY <1>10, <1>19, FinishEffect, WorkerData DEF Mine
<1>11. ASSUME NEW w \in Workers, ReleaseBlocked(w) PROVE Explained
  BY <1>2, <1>11 DEF ReleaseBlocked, Releasable
<1>12. ASSUME NEW w \in Workers, CommitFailure(w) PROVE Explained
  <2> DEFINE e == trigger[FailedRun(w)]
             q == IF worker[w].next = None THEN worker[w].loaded.run ELSE worker[w].next
  <2>1. events' = WriteBack(events, e, worker[w].loaded, "failed", q)
    BY <1>12 DEF CommitFailure
  <2>2. q \in Runs \cup {None}
    BY WorkerData DEF Event
  <2>3. worker[w].loaded.run = q \/ trigger[q] = e
    BY DEF FailedRun
  <2>4. CASE e \in Deliveries
    <3> HIDE DEF e, q
    <3> QED BY <1>19, <2>1, <2>2, <2>3, <2>4, WorkerData
  <2>5. CASE e \notin Deliveries
    <3> HIDE DEF e, q
    <3>1. events'[d] = events[d]
      BY <2>1, <2>5 DEF WriteBack, TypeOK, TablesTypeOK
    <3> QED BY <3>1
  <2> QED BY <2>4, <2>5
<1>13. ASSUME NEW h \in Handlers,
              \/ \E e \in Deliveries : Receive(h, e)
              \/ Decide(h) \/ LoseInsert(h) \/ JoinCancelled(h) \/ Claim(h)
              \/ SendTask(h) \/ SendTaskFails(h) \/ ReadUndone(h) \/ CrashHandler(h)
       PROVE  UNCHANGED events
  BY <1>13 DEF Receive, Decide, LoseInsert, JoinCancelled, Claim, SendTask,
               SendTaskFails, ReadUndone, CrashHandler, Recording
<1>14. ASSUME NEW w \in Workers,
              \/ \E q \in Runs : Take(w, q)
              \/ Load(w) \/ MarkRunning(w) \/ Resolve(w) \/ BuildFails(w)
              \/ Rebuild(w) \/ Commit(w) \/ ReadEvent(w) \/ ReadStatus(w) \/ FailBuild(w)
              \/ FailTask(w) \/ FailEvent(w) \/ ReadCursor(w) \/ RollBackFailure(w)
              \/ DispatchPending(w)
              \/ NothingToDispatch(w) \/ SendNext(w) \/ SendNextFails(w)
              \/ CrashWorker(w) \/ Duplicate(w)
       PROVE  UNCHANGED events
  BY <1>14 DEF Take, Load, MarkRunning, Resolve, BuildFails, Rebuild, Commit,
               ReadEvent, ReadStatus, FailBuild, FailTask, FailEvent, ReadCursor,
               RollBackFailure, DispatchPending, NothingToDispatch, SendNext,
               SendNextFails, CrashWorker, Duplicate
<1>15. CASE ManualNext
  BY <1>15, ManualOnRuns
<1>16. CASE Environment
  BY <1>16 DEF Environment, Push, Age
<1>17. CASE IntakeNext
  BY <1>17, <1>1, <1>4, <1>5, <1>6, <1>7, <1>8, <1>9, <1>13
     DEF IntakeNext, HandlerStep, Record
<1>18. CASE WorkerNext
  BY <1>18, <1>1, <1>10, <1>11, <1>12, <1>14 DEF WorkerNext, WorkerStep
<1> QED BY <1>15, <1>16, <1>17, <1>18 DEF Next

\* The remote only grows.
LEMMA RemoteGrows ==
  ASSUME TypeOK, Next
  PROVE  remote' >= remote /\ remote \in Nat /\ remote' \in Nat
<1>1. CASE Environment
  BY <1>1 DEF Environment, Push, Age, TypeOK, TablesTypeOK
<1> QED BY <1>1, IntakeOnRuns, ManualOnRuns, WorkerOnRuns
        DEF Next, TypeOK, TablesTypeOK

\* Where the delivery of a request comes from.
LEMMA HandlerDelivery ==
  ASSUME TypeOK, Next, NEW h \in Handlers
  PROVE  \/ handler'[h].d = handler[h].d
            /\ (handler'[h].pc \in {"decide", "record"}
                   => handler[h].pc \in {"decide", "record"})
         \/ handler'[h].d = None /\ handler'[h].pc \notin {"decide", "record"}
         \/ /\ handler'[h].d \in Deliveries /\ HeadOf[handler'[h].d] <= remote
            /\ handler'[h].pc = "decide"
<1> DEFINE Accounted ==
             \/ handler'[h].d = handler[h].d
                /\ (handler'[h].pc \in {"decide", "record"}
                   => handler[h].pc \in {"decide", "record"})
             \/ handler'[h].d = None /\ handler'[h].pc \notin {"decide", "record"}
             \/ /\ handler'[h].d \in Deliveries /\ HeadOf[handler'[h].d] <= remote
                /\ handler'[h].pc = "decide"
<1>1. ASSUME NEW g \in Handlers, NEW d \in Deliveries, Receive(g, d) PROVE Accounted
  BY <1>1, ReceiveEffect DEF TypeOK, IntakeTypeOK
<1>2. ASSUME NEW g \in Handlers, Decide(g) PROVE Accounted
  BY <1>2, DecideEffect DEF TypeOK, IntakeTypeOK
<1>3. ASSUME NEW g \in Handlers, Respond(g) PROVE Accounted
  BY <1>3 DEF Respond, IdleHandler, TypeOK, IntakeTypeOK
<1>4. ASSUME NEW g \in Handlers, NEW r, Dispatching(g, r) PROVE Accounted
  BY <1>4 DEF Dispatching, IdleHandler, TypeOK, IntakeTypeOK
<1>5. ASSUME NEW g \in Handlers, NEW pc \in {"send", "undo"}, Goto(g, pc)
      PROVE  Accounted
  BY <1>5 DEF Goto, TypeOK, IntakeTypeOK, HandlerState
<1>6. ASSUME NEW g \in Handlers, Record(g) PROVE Accounted
  BY <1>3, <1>4, <1>6
     DEF Record, LoseInsert, RecordOnly, JoinPending, JoinCancelled, CreateBlocked,
         ReplaceBlocked, CreatePending, JoinConcurrent
<1>7. ASSUME NEW g \in Handlers, \/ Claim(g) \/ SendTask(g) \/ Undo(g)
                                 \/ SendTaskFails(g) \/ CrashHandler(g)
      PROVE  Accounted
  BY <1>3, <1>5, <1>7 DEF Claim, SendTask, Undo, SendTaskFails, CrashHandler
<1>8. ASSUME NEW g \in Handlers, ReadUndone(g) PROVE Accounted
  BY <1>8, ReadUndoneEffect DEF ReadUndone, TypeOK, IntakeTypeOK, HandlerState
<1> QED BY <1>1, <1>2, <1>6, <1>7, <1>8 DEF Next, IntakeNext, HandlerStep

LEMMA PushedStep ==
  ASSUME TypeOK, IntakeInv, SendersInv, PushedInv, Next
  PROVE  PushedInv'
<1>1. \A d \in Deliveries : HeadOf[d] <= remote => HeadOf[d] <= remote'
  BY RemoteGrows, HeadOfAssumption
<1>2. ASSUME NEW h \in Handlers, handler'[h].d # None
      PROVE  HeadOf[handler'[h].d] <= remote'
  BY <1>1, <1>2, HandlerDelivery, HandlerData DEF PushedInv
<1>3. ASSUME NEW d \in Deliveries, events'[d].run # None PROVE HeadOf[d] <= remote'
  <2>1. CASE events'[d].run = events[d].run
    BY <1>1, <1>3, <2>1 DEF PushedInv
  <2>2. CASE events'[d].run # events[d].run
    BY <1>1, <1>3, <2>2, NewLink, NoneAssumption DEF PushedInv
  <2> QED BY <2>1, <2>2
<1>4. ASSUME NEW r \in Runs, trigger'[r] # None PROVE HeadOf[trigger'[r]] <= remote'
  <2>1. CASE trigger'[r] = trigger[r]
    BY <1>1, <1>4, <2>1 DEF PushedInv, TypeOK, TablesTypeOK
  <2>2. CASE trigger'[r] # trigger[r]
    <3>1. PICK h \in Handlers : trigger'[r] = handler[h].d
      BY <1>4, <2>2, IntakeOnRuns, ManualOnRuns, WorkerOnRuns
         DEF Next, Environment, Push, Age, dbVars, runVars
    <3> QED BY <1>1, <1>4, <3>1, HandlerData DEF PushedInv
  <2> QED BY <2>1, <2>2
<1> QED BY <1>2, <1>3, <1>4 DEF PushedInv

(***************************************************************************)
(* CoverageInv.                                                            *)
(***************************************************************************)
\* A run that has not been executed covers whatever it is given.
LEMMA UnbuiltCovers ==
  ASSUME LifecycleInv, NEW r \in Runs,
         status[r] \in {"absent", "blocked", "pending"},
         NEW d \in Deliveries
  PROVE  Covers(r, d)
  BY DEF LifecycleInv, Covers, Building, NotBuilt, Started

\* Covers, in the next state.
CoversNext(r, d) ==
    /\ snapshot'[r] # None => snapshot'[r] >= HeadOf[d]
    /\ \A w \in Workers : (worker'[w].pc = "commit" /\ worker'[w].run = r)
            => worker'[w].commit >= HeadOf[d]

\* A run that covers a pushed head goes on covering it: it resolves its commit
\* at the provider, where the head already is, and stores what it resolved.
LEMMA CoversKept ==
  ASSUME TypeOK, LifecycleInv, Next, NEW r \in Runs, NEW d \in Deliveries,
         HeadOf[d] <= remote, Covers(r, d)
  PROVE  CoversNext(r, d)
<1> USE DEF Covers, CoversNext
<1> USE DEF tableVars, dbVars, runVars
<1>1. CASE UNCHANGED <<snapshot, worker>>
  BY <1>1
<1>2. ASSUME NEW w \in Workers, Resolve(w) PROVE CoversNext(r, d)
  BY <1>2 DEF Resolve, TypeOK, WorkerTypeOK, WorkerState
<1>3. ASSUME NEW w \in Workers, Commit(w) PROVE CoversNext(r, d)
  BY <1>3 DEF Commit, At, TypeOK, TablesTypeOK, WorkerTypeOK, WorkerState
<1>4. ASSUME NEW w \in Workers, UNCHANGED snapshot,
             worker'[w].pc # "commit",
             \A v \in Workers \ {w} : worker'[v] = worker[v]
      PROVE  CoversNext(r, d)
  BY <1>4
<1>5. ASSUME NEW w \in Workers, NEW q \in Runs, Take(w, q) PROVE CoversNext(r, d)
  BY <1>5, <1>4, TakeEffect DEF TypeOK, WorkerTypeOK
<1>6. ASSUME NEW w \in Workers, \/ Load(w) \/ MarkRunning(w) \/ BuildFails(w)
                                \/ Rebuild(w) \/ SendNextFails(w)
      PROVE  CoversNext(r, d)
  BY <1>4, <1>6 DEF Load, MarkRunning, BuildFails, Rebuild, SendNextFails, Step,
                    TypeOK, WorkerTypeOK, WorkerState
<1>7. ASSUME NEW w \in Workers, Reads(w) \/ Leaves(w) PROVE CoversNext(r, d)
  BY <1>4, <1>7, ReadsEffect, LeavesEffect
<1>8. ASSUME NEW w \in Workers, \/ FailBuild(w)
                                \/ DispatchPending(w) \/ ReleaseBlocked(w)
      PROVE  CoversNext(r, d)
  BY <1>4, <1>8 DEF FailBuild, DispatchPending, ReleaseBlocked,
                    TypeOK, WorkerTypeOK, WorkerState
<1>9. ASSUME NEW w \in Workers, NothingToDispatch(w) \/ SendNext(w) \/ CrashWorker(w)
      PROVE  CoversNext(r, d)
  BY <1>4, <1>9 DEF NothingToDispatch, SendNext, CrashWorker, Ack,
                    IdleWorker, TypeOK, WorkerTypeOK
<1>10. CASE IntakeNext /\ UNCHANGED worker
  BY <1>1, <1>10, IntakeOnRuns
<1>11. CASE ManualNext /\ UNCHANGED worker
  BY <1>1, <1>11, ManualOnRuns
<1>12. CASE Environment /\ UNCHANGED worker
  BY <1>1, <1>12 DEF Environment, Push, Age
<1>13. CASE WorkerNext
  BY <1>1, <1>2, <1>3, <1>5, <1>6, <1>7, <1>8, <1>9, <1>13
     DEF WorkerNext, WorkerStep, Duplicate, Reads, Leaves
<1> QED BY <1>10, <1>11, <1>12, <1>13 DEF Next

LEMMA CoverageStep ==
  ASSUME IndInv, Next
  PROVE  CoverageInv'
<1> USE DEF IndInv
<1>1. ASSUME NEW d \in Deliveries, events'[d].run # None
      PROVE  CoversNext(events'[d].run, d)
  <2> DEFINE r == events'[d].run
  <2>1. r \in Runs
    BY <1>1, TablesTypeStep DEF TablesTypeOK, Event
  <2>2. HeadOf[d] <= remote /\ Covers(r, d)
    <3>1. CASE r = events[d].run
      BY <1>1, <3>1 DEF CoverageInv, PushedInv
    <3>2. CASE r # events[d].run /\ trigger[r] = d
      BY <2>1, <3>2, NoneAssumption DEF CoverageInv, PushedInv
    <3>3. CASE r # events[d].run /\ trigger[r] # d
      <4>1. PICK h \in Handlers :
              /\ handler[h].pc = "record" /\ handler[h].d = d
              /\ \/ r = handler[h].run
                 \/ status[r] \in {"absent", "blocked"}
                 \/ /\ status[r] \in {"pending", "running"}
                    /\ handler[h].decision = "queued" /\ ~handler[h].running
        BY <1>1, <3>3, NewLink
      <4>2. HeadOf[d] <= remote
        BY <4>1, NoneAssumption DEF PushedInv
      <4>3. CASE r = handler[h].run
        BY <1>1, <4>1, <4>2, <4>3 DEF IntakeInv
      <4>4. CASE status[r] \in {"absent", "blocked", "pending"}
        BY <2>1, <4>2, <4>4, UnbuiltCovers
      <4>5. CASE /\ status[r] = "running" /\ handler[h].decision = "queued"
                 /\ ~handler[h].running
        BY <2>1, <4>1, <4>2, <4>5 DEF IntakeInv
      <4> QED BY <4>1, <4>2, <4>3, <4>4, <4>5
    <3> QED BY <3>1, <3>2, <3>3
  <2> QED BY <2>1, <2>2, CoversKept
<1>2. ASSUME NEW r \in Runs, trigger'[r] # None
      PROVE  CoversNext(r, trigger'[r])
  <2>1. trigger'[r] \in Deliveries
    BY <1>2, TablesTypeStep DEF TablesTypeOK
  <2>2. HeadOf[trigger'[r]] <= remote /\ Covers(r, trigger'[r])
    <3>1. CASE trigger'[r] = trigger[r]
      BY <1>2, <3>1 DEF CoverageInv, PushedInv
    <3>2. CASE trigger'[r] # trigger[r]
      <4>1. /\ status[r] \in {"absent", "blocked"}
            /\ \E h \in Handlers : trigger'[r] = handler[h].d
        BY <1>2, <3>2, IntakeOnRuns, ManualOnRuns, WorkerOnRuns
           DEF Next, Environment, Push, Age, dbVars, runVars
      <4> QED BY <1>2, <2>1, <4>1, UnbuiltCovers DEF PushedInv
    <3> QED BY <3>1, <3>2
  <2> QED BY <2>1, <2>2, CoversKept
<1> QED BY <1>1, <1>2 DEF CoverageInv, Covers, CoversNext

(***************************************************************************)
(* IntakeInv.                                                              *)
(***************************************************************************)
\* A run that is running and was not had been pending.
LEMMA RunningBefore ==
  ASSUME TypeOK, Next, NEW r \in Runs, status'[r] = "running"
  PROVE  status[r] \in {"pending", "running"}
  BY IntakeOnRuns, ManualOnRuns, WorkerOnRuns
     DEF Next, Environment, Push, Age, dbVars, runVars

\* A request about to write has just read the runs, or was about to write before.
LEMMA RecordOrigin ==
  ASSUME TypeOK, Next, NEW h \in Handlers, handler'[h].pc = "record"
  PROVE  \/ handler'[h] = handler[h]
         \/ Decide(h)
<1>1. ASSUME NEW g \in Handlers, NEW d \in Deliveries, Receive(g, d)
      PROVE  handler'[h] = handler[h]
  BY <1>1, ReceiveEffect DEF TypeOK, IntakeTypeOK
<1>2. ASSUME NEW g \in Handlers, g # h, Decide(g) PROVE handler'[h] = handler[h]
  BY <1>2, DecideEffect DEF TypeOK, IntakeTypeOK
<1>3. ASSUME NEW g \in Handlers, Respond(g) PROVE handler'[h] = handler[h]
  BY <1>3 DEF Respond, IdleHandler, TypeOK, IntakeTypeOK
<1>4. ASSUME NEW g \in Handlers, NEW r, Dispatching(g, r)
      PROVE  handler'[h] = handler[h]
  BY <1>4 DEF Dispatching, IdleHandler, TypeOK, IntakeTypeOK
<1>5. ASSUME NEW g \in Handlers, NEW pc \in {"send", "undo"}, Goto(g, pc)
      PROVE  handler'[h] = handler[h]
  BY <1>5 DEF Goto, TypeOK, IntakeTypeOK, HandlerState
<1>6. ASSUME NEW g \in Handlers, Record(g) PROVE handler'[h] = handler[h]
  BY <1>3, <1>4, <1>6
     DEF Record, LoseInsert, RecordOnly, JoinPending, JoinCancelled, CreateBlocked,
         ReplaceBlocked, CreatePending, JoinConcurrent
<1>7. ASSUME NEW g \in Handlers, \/ Claim(g) \/ SendTask(g) \/ Undo(g)
                                 \/ SendTaskFails(g) \/ CrashHandler(g)
      PROVE  handler'[h] = handler[h]
  BY <1>3, <1>5, <1>7 DEF Claim, SendTask, Undo, SendTaskFails, CrashHandler
<1>8. ASSUME NEW g \in Handlers, ReadUndone(g) PROVE handler'[h] = handler[h]
  BY <1>8, ReadUndoneEffect DEF ReadUndone, TypeOK, IntakeTypeOK, HandlerState
<1> QED BY <1>1, <1>2, <1>6, <1>7, <1>8 DEF Next, IntakeNext, HandlerStep

LEMMA IntakeStep ==
  ASSUME IndInv, Next
  PROVE  IntakeInv'
<1> USE DEF IndInv
<1>1. ASSUME NEW h \in Handlers, handler'[h].pc \in {"decide", "record"}
      PROVE  handler'[h].d # None
  BY <1>1, HandlerDelivery, NoneAssumption DEF IntakeInv
<1>2. ASSUME NEW h \in Handlers, handler'[h].pc = "record"
      PROVE  /\ handler'[h].run # None =>
                   CoversNext(handler'[h].run, handler'[h].d)
             /\ (handler'[h].decision = "queued" /\ ~handler'[h].running) =>
                   \A r \in Runs : status'[r] = "running"
                                      => CoversNext(r, handler'[h].d)
  <2> DEFINE d == handler'[h].d
  <2>1. d = handler[h].d /\ d \in Deliveries /\ HeadOf[d] <= remote
    <3>1. d # None /\ d \in Deliveries \cup {None}
      BY <1>1, <1>2, IntakeTypeStep DEF IntakeTypeOK, HandlerState
    <3>2. d = handler[h].d
      BY <1>2, <3>1, HandlerDelivery
    <3> QED BY <3>1, <3>2 DEF PushedInv
  <2>2. ASSUME NEW r \in Runs, status[r] = "pending" PROVE CoversNext(r, d)
    BY <2>1, <2>2, UnbuiltCovers, CoversKept
  <2>3. CASE handler'[h] = handler[h]
    <3>1. handler[h].run # None => CoversNext(handler[h].run, d)
      BY <1>2, <2>1, <2>3, CoversKept, HandlerData DEF IntakeInv
    <3>2. ASSUME handler[h].decision = "queued", ~handler[h].running,
                 NEW r \in Runs, status'[r] = "running"
          PROVE  CoversNext(r, d)
      <4>1. CASE status[r] = "running"
        BY <1>2, <2>1, <2>3, <3>2, <4>1, CoversKept DEF IntakeInv
      <4> QED BY <2>2, <3>2, <4>1, RunningBefore
    <3> QED BY <2>3, <3>1, <3>2
  <2>4. CASE Decide(h)
    <3>1. PICK entry \in HandlerState :
            /\ handler' = [handler EXCEPT ![h] = entry]
            /\ entry.run \in {ThePending, None}
            /\ (entry.decision = "queued" /\ ~entry.running)
                    => WithStatus({"running"}) = {}
      BY <2>4, DecideEffect
    <3>2. handler'[h] = entry
      BY <3>1 DEF TypeOK, IntakeTypeOK
    <3>3. UNCHANGED status
      BY <2>4, DecideEffect DEF tableVars, dbVars, runVars
    <3>4. entry.run # None => CoversNext(entry.run, d)
      BY <2>2, <3>1, ThePendingType
    <3>5. (entry.decision = "queued" /\ ~entry.running) =>
             \A r \in Runs : status'[r] # "running"
      BY <3>1, <3>3 DEF WithStatus
    <3> QED BY <3>2, <3>4, <3>5
  <2> QED BY <1>2, <2>3, <2>4, RecordOrigin
<1> QED BY <1>1, <1>2 DEF IntakeInv, Covers, CoversNext

(***************************************************************************)
(* The theorem.                                                            *)
(***************************************************************************)
LEMMA CoverageInit == Init => IndInv
<1> SUFFICES ASSUME Init PROVE IndInv
  OBVIOUS
<1>1. TypeOK
  BY TypeInit
<1>2. /\ \A h \in Handlers : handler[h] = IdleHandler
      /\ \A w \in Workers : worker[w] = IdleWorker
      /\ \A d \in Deliveries : events[d].run = None
      /\ \A r \in Runs : trigger[r] = None /\ snapshot[r] = None
  BY DEF Init, TablesInit, IntakeInit, WorkerInit, NoEvent
<1>3. LifecycleInv /\ SendersInv /\ PushedInv /\ CoverageInv /\ IntakeInv
  BY <1>2 DEF LifecycleInv, SendersInv, PushedInv, CoverageInv, IntakeInv, Building,
              IdleHandler, IdleWorker
<1> QED BY <1>1, <1>3 DEF IndInv

LEMMA CoverageStutter ==
  ASSUME IndInv, UNCHANGED vars
  PROVE  IndInv'
<1> USE DEF vars, tableVars, dbVars, runVars
<1>1. TypeOK'
  BY TypeStep DEF IndInv
<1>2. LifecycleInv' /\ SendersInv' /\ PushedInv'
  BY DEF IndInv, LifecycleInv, SendersInv, PushedInv, Building
<1>3. CoverageInv' /\ IntakeInv'
  BY DEF IndInv, CoverageInv, IntakeInv, Covers
<1> QED BY <1>1, <1>2, <1>3 DEF IndInv

\* IndInv holds in every reachable state, whatever the number of deliveries, runs,
\* requests and workers and however often sending fails, processes die, messages
\* are duplicated or deliveries repeated.
THEOREM Coverage == Spec => []IndInv
<1>1. IndInv /\ Next => IndInv'
  BY TypeStep, LifecycleStep, SendersStep, PushedStep, CoverageStep, IntakeStep
     DEF IndInv
<1>2. IndInv /\ [Next]_vars => IndInv'
  BY <1>1, CoverageStutter
<1> QED BY <1>2, CoverageInit, PTL DEF Spec

\* No head is lost: an event that the intake has folded into a run is contained in
\* the snapshot which that run stores (process_*_event, build_code_snapshot).
THEOREM HeadsAreKept == Spec => []NoHeadLost
<1>1. IndInv => NoHeadLost
  BY DEF IndInv, CoverageInv, Covers, NoHeadLost
<1> QED BY <1>1, Coverage, PTL
===============================================================================
