--------------------------- MODULE SyncPipelineProofs ---------------------------
(***************************************************************************)
(* Proof that the pipeline keeps its types, and the lemmas on the          *)
(* operators of SyncTables, WebhookIntake and SyncWorker that the other    *)
(* proofs cite.                                                            *)
(***************************************************************************)
EXTENDS SyncPipeline, TLAPS

USE HeadOfAssumption, RunsAssumption, NoneAssumption

(***************************************************************************)
(* Operators.                                                              *)
(***************************************************************************)
\* get_active_for_requested_ref returns a pending run or NULL.
LEMMA ThePendingType ==
  /\ ThePending \in Runs \cup {None}
  /\ ThePending # None => status[ThePending] = "pending"
  BY DEF ThePending, WithStatus

\* Settling an event row yields event rows.
LEMMA SettleType ==
  ASSUME NEW evs \in [Deliveries -> Event], NEW d, NEW dec \in Decisions,
         NEW st \in EventStatus, NEW r \in Runs \cup {None}
  PROVE  Settle(evs, d, dec, st, r) \in [Deliveries -> Event]
<1>1. ASSUME NEW e \in Deliveries
      PROVE  Settle(evs, d, dec, st, r)[e] \in Event
  <2>1. Settle(evs, d, dec, st, r)[e] =
          IF e = d THEN [evs[e] EXCEPT !.decision = dec, !.status = st, !.run = r]
          ELSE evs[e]
    BY DEF Settle
  <2> QED BY <2>1 DEF Event
<1> QED BY <1>1 DEF Settle

\* Settling d's row changes the run of no other row.
LEMMA SettleRun ==
  ASSUME NEW evs \in [Deliveries -> Event], NEW d \in Deliveries, NEW dec, NEW st,
         NEW r, NEW e \in Deliveries
  PROVE  Settle(evs, d, dec, st, r)[e].run = IF e = d THEN r ELSE evs[e].run
  BY DEF Settle, Event

\* Writing a row back writes what is to differ from the row as it was read.
LEMMA WriteBackFields ==
  ASSUME NEW evs \in [Deliveries -> Event], NEW d \in Deliveries,
         NEW loaded \in Event, NEW st, NEW r, NEW e \in Deliveries
  PROVE  LET row == WriteBack(evs, d, loaded, st, r)[e]
         IN  IF e = d
             THEN /\ row.decision = Column(evs[e].decision, loaded.decision, "queued")
                  /\ row.status = Column(evs[e].status, loaded.status, st)
                  /\ row.run = Column(evs[e].run, loaded.run, r)
             ELSE row = evs[e]
  BY DEF WriteBack, Event

LEMMA WriteBackType ==
  ASSUME NEW evs \in [Deliveries -> Event], NEW d, NEW loaded \in Event,
         NEW st \in EventStatus, NEW r \in Runs \cup {None}
  PROVE  WriteBack(evs, d, loaded, st, r) \in [Deliveries -> Event]
<1>1. ASSUME NEW e \in Deliveries
      PROVE  WriteBack(evs, d, loaded, st, r)[e] \in Event
  <2> DEFINE a == Column(evs[e].decision, loaded.decision, "queued")
             b == Column(evs[e].status, loaded.status, st)
             c == Column(evs[e].run, loaded.run, r)
  <2>1. WriteBack(evs, d, loaded, st, r)[e] =
          IF e = d THEN [evs[e] EXCEPT !.decision = a, !.status = b, !.run = c] ELSE evs[e]
    BY DEF WriteBack
  <2>2. evs[e] \in Event
    OBVIOUS
  <2>3. a \in Decisions /\ b \in EventStatus /\ c \in Runs \cup {None}
    BY <2>2 DEF Event, Column, Decisions
  <2> HIDE DEF a, b, c
  <2>4. [evs[e] EXCEPT !.decision = a, !.status = b, !.run = c] \in Event
    BY <2>2, <2>3 DEF Event
  <2> QED BY <2>1, <2>2, <2>4
<1> QED BY <1>1 DEF WriteBack

\* The rows as a recording request first writes them are event rows.
LEMMA MyEventsType ==
  ASSUME TypeOK, NEW h \in Handlers
  PROVE  MyEvents(h) \in [Deliveries -> Event]
<1>1. ASSUME handler[h].d \in Deliveries
      PROVE  Noted(handler[h].d, handler[h].decision, handler[h].retry,
                   handler[h].at) \in Event
  BY <1>1 DEF Noted, TypeOK, TablesTypeOK, IntakeTypeOK, HandlerState, Event,
              EventStatus, Decisions
<1>2. events \in [Deliveries -> Event]
  BY DEF TypeOK, TablesTypeOK
<1> QED BY <1>1, <1>2 DEF MyEvents

\* That first write can only cut the link of the request's own event to a run.
LEMMA MyEventsRun ==
  ASSUME TypeOK, NEW h \in Handlers, handler[h].d \in Deliveries,
         NEW e \in Deliveries
  PROVE  /\ MyEvents(h)[e].run \in {events[e].run, None}
         /\ e # handler[h].d => MyEvents(h)[e] = events[e]
  BY DEF MyEvents, Noted, TypeOK, TablesTypeOK, Event

\* Sending adds a message to a queue of messages.
LEMMA SendType ==
  ASSUME TablesTypeOK, NEW r, Send(r)
  PROVE  queue' \in [Runs -> Nat]
<1>1. \A q \in Runs : queue[q] + 1 \in Nat
  BY DEF TablesTypeOK
<1>2. \A q \in Runs : queue'[q] \in Nat
  BY <1>1 DEF TablesTypeOK, Send
<1> QED BY <1>2 DEF TablesTypeOK, Send

\* A created run has a status and a trigger event or none.
LEMMA CreateRunType ==
  ASSUME TablesTypeOK, NEW r \in Runs, NEW s \in RunStatus,
         NEW d \in Deliveries \cup {None}, CreateRun(r, s, d)
  PROVE  /\ status' \in [Runs -> RunStatus]
         /\ trigger' \in [Runs -> Deliveries \cup {None}]
         /\ dispatch' = dispatch /\ started' = started
  BY DEF TablesTypeOK, CreateRun

\* The cursor is put back to an event or dropped.
LEMMA RestoreCursorType ==
  ASSUME TablesTypeOK, NEW d, NEW f \in Deliveries \cup {None}, NEW c,
         RestoreCursor(d, f, c)
  PROVE  cursor' \in Deliveries \cup {None}
  BY DEF TablesTypeOK, RestoreCursor, Column

\* mark_failed writes "failed" or nothing, to one run.
LEMMA MarkFailedEffect ==
  ASSUME NEW w \in Workers, MarkFailed(w)
  PROVE  status' \in {status, [status EXCEPT ![FailedRun(w)] = "failed"]}
  BY DEF MarkFailed

LEMMA MarkFailedType ==
  ASSUME TablesTypeOK, NEW w \in Workers, MarkFailed(w)
  PROVE  status' \in [Runs -> RunStatus]
  BY DEF TablesTypeOK, MarkFailed, RunStatus

\* The fields of a request and of a worker.
LEMMA HandlerData ==
  ASSUME TypeOK, NEW h \in Handlers
  PROVE  /\ handler[h] \in HandlerState
         /\ handler[h].d \in Deliveries \cup {None}
         /\ handler[h].run \in Runs \cup {None}
         /\ handler[h].at \in Nat
         /\ handler[h].loaded \in Event
  BY DEF TypeOK, IntakeTypeOK, HandlerState

LEMMA WorkerData ==
  ASSUME TypeOK, NEW w \in Workers
  PROVE  /\ worker[w] \in WorkerState
         /\ worker[w].run \in Runs \cup {None}
         /\ worker[w].next \in Runs \cup {None}
         /\ worker[w].commit \in Nat \cup {None}
         /\ worker[w].loaded \in Event
         /\ worker[w].fallback \in Deliveries \cup {None}
         /\ worker[w].latest \in Deliveries \cup {None}
  BY DEF TypeOK, WorkerTypeOK, WorkerState

(***************************************************************************)
(* What the longer actions do, in the form the proofs use.                 *)
(***************************************************************************)
\* Incidents are of the allowed kinds.
LEMMA MeetsType ==
  ASSUME TypeOK, NEW kinds, Meets(kinds)
  PROVE  incidents' \in [steps : Nat, kinds : SUBSET (Kinds \cup Collisions)]
BY IncidentsAssumption DEF TypeOK, TablesTypeOK, Meets

LEMMA CollidesType ==
  ASSUME TypeOK, NEW kind \in Collisions, Collides(kind)
  PROVE  incidents' \in [steps : Nat, kinds : SUBSET (Kinds \cup Collisions)]
<1>1. incidents.kinds \cup {kind} \in SUBSET (Kinds \cup Collisions)
  BY DEF TypeOK, TablesTypeOK
<1> QED BY <1>1 DEF TypeOK, TablesTypeOK, Collides

LEMMA HappensType ==
  ASSUME TypeOK, NEW kind, Happens(kind)
  PROVE  incidents' \in [steps : Nat, kinds : SUBSET (Kinds \cup Collisions)]
BY MeetsType DEF Happens

\* A received delivery is put into a request that is yet to decide.
LEMMA ReceiveEffect ==
  ASSUME TypeOK, NEW h \in Handlers, NEW d \in Deliveries, Receive(h, d)
  PROVE  /\ arrivals' \in Nat /\ incidents' \in [steps : Nat, kinds : SUBSET (Kinds \cup Collisions)]
         /\ HeadOf[d] <= remote
         /\ UNCHANGED <<remote, dbVars, queue>>
         /\ \E entry \in HandlerState :
              /\ handler' = [handler EXCEPT ![h] = entry]
              /\ entry.pc = "decide" /\ entry.d = d
              /\ entry.run = None /\ ~entry.offer
<1>1. PICK gitError \in BOOLEAN :
        handler' = [handler EXCEPT ![h] =
             [IdleHandler EXCEPT !.pc = "decide", !.d = d, !.at = arrivals',
                !.sameHead = (cursor # None /\ HeadOf[cursor] = HeadOf[d]),
                !.moved = (~gitError /\ remote # HeadOf[d])]]
  BY DEF Receive
<1>2. /\ arrivals' \in Nat /\ incidents' \in [steps : Nat, kinds : SUBSET (Kinds \cup Collisions)] /\ HeadOf[d] <= remote
      /\ UNCHANGED <<remote, dbVars, queue>>
  BY MeetsType DEF Receive, TypeOK, TablesTypeOK
<1> DEFINE sh == (cursor # None /\ HeadOf[cursor] = HeadOf[d])
           mv == (~gitError /\ remote # HeadOf[d])
           entry == [IdleHandler EXCEPT !.pc = "decide", !.d = d, !.at = arrivals',
                                        !.sameHead = sh, !.moved = mv]
<1>3. sh \in BOOLEAN /\ mv \in BOOLEAN
  OBVIOUS
<1>4. handler' = [handler EXCEPT ![h] = entry]
  BY <1>1
<1> HIDE DEF sh, mv
<1>5. entry \in HandlerState
  BY <1>2, <1>3 DEF IdleHandler, HandlerState, Decisions, NoEvent, Event, EventStatus
<1>6. entry.pc = "decide" /\ entry.d = d /\ entry.run = None /\ ~entry.offer
  BY DEF IdleHandler
<1> QED BY <1>2, <1>4, <1>5, <1>6

\* A decided request knows the pending run, and offers to dispatch it only for
\* a trigger event it has.
LEMMA DecideEffect ==
  ASSUME TypeOK, NEW h \in Handlers, Decide(h)
  PROVE  /\ UNCHANGED tableVars
         /\ handler[h].pc = "decide"
         /\ \E entry \in HandlerState :
              /\ handler' = [handler EXCEPT ![h] = entry]
              /\ entry.pc = "record" /\ entry.d = handler[h].d
              /\ entry.run \in {ThePending, None}
              /\ entry.offer => /\ entry.run # None
                                /\ trigger[entry.run] # None
              /\ (entry.decision = "queued" /\ ~entry.running)
                    => WithStatus({"running"}) = {}
<1> DEFINE d == handler[h].d
           row == Recorded(d)
           retry == row /\ Retryable(d)
           decision == Decision(row, retry, handler[h].sameHead, handler[h].moved)
           noted == [events EXCEPT ![d] = Noted(d, decision, retry, handler[h].at)]
           syncs == decision \in {"queued", "duplicate_head"}
           running == syncs /\ WithStatus({"running"}) # {}
           run == IF syncs THEN ThePending ELSE None
           offer == /\ syncs
                    /\ ThePending # None
                    /\ Dispatchable(ThePending, noted)
           entry == [IdleHandler EXCEPT !.pc = "record", !.d = d,
                       !.at = handler[h].at, !.row = row, !.retry = retry,
                       !.decision = decision, !.running = running,
                       !.run = run, !.offer = offer]
<1>1. /\ UNCHANGED tableVars /\ handler[h].pc = "decide"
      /\ handler' = [handler EXCEPT ![h] = entry]
  BY DEF Decide
<1>2. /\ row \in BOOLEAN /\ retry \in BOOLEAN /\ running \in BOOLEAN
      /\ offer \in BOOLEAN
  BY DEF Recorded
<1>3. decision \in Decisions
  BY DEF Decision, Decisions
<1>4. run \in Runs \cup {None} /\ run \in {ThePending, None}
  BY ThePendingType
<1>5. offer => run # None /\ trigger[run] # None
  BY DEF Dispatchable
<1>6. (decision = "queued" /\ ~running) => WithStatus({"running"}) = {}
  OBVIOUS
<1> HIDE DEF row, retry, decision, running, run, offer
<1>7. entry \in HandlerState
  BY <1>2, <1>3, <1>4, HandlerData
     DEF IdleHandler, HandlerState, NoEvent, Event, Decisions, EventStatus
<1>8. /\ entry.pc = "record" /\ entry.d = handler[h].d /\ entry.run = run
      /\ entry.offer = offer /\ entry.decision = decision
      /\ entry.running = running
  BY DEF IdleHandler
<1> QED BY <1>1, <1>4, <1>5, <1>6, <1>7, <1>8

\* A taken message leaves the worker alone or gives it a run to load.
LEMMA TakeEffect ==
  ASSUME TypeOK, NEW w \in Workers, NEW r \in Runs, Take(w, r)
  PROVE  /\ UNCHANGED <<remote, dbVars, arrivals, incidents>>
         /\ queue' \in [Runs -> Nat]
         /\ worker[w].pc = "idle"
         /\ \/ worker' = worker
            \/ \E entry \in WorkerState :
                 /\ worker' = [worker EXCEPT ![w] = entry]
                 /\ entry.pc = "load" /\ entry.run = r
<1>1. queue' \in [Runs -> Nat]
  <2>1. queue[r] - 1 \in Nat
    BY DEF Take, TypeOK, TablesTypeOK
  <2> QED BY <2>1 DEF Take, TypeOK, TablesTypeOK
<1>2. /\ UNCHANGED <<remote, dbVars, arrivals, incidents>>
      /\ worker[w].pc = "idle"
  BY DEF Take, At
<1>3. CASE IsWebhook(r) /\ status[r] = "running" /\ started[r] = "fresh"
  BY <1>1, <1>2, <1>3 DEF Take
<1>4. CASE ~(IsWebhook(r) /\ status[r] = "running" /\ started[r] = "fresh")
  <2> DEFINE b == IsWebhook(r) /\ status[r] = "running"
  <2>1. b \in BOOLEAN
    OBVIOUS
  <2>2. worker' = [worker EXCEPT ![w] =
                    [IdleWorker EXCEPT !.pc = "load", !.run = r, !.allow = b]]
    BY <1>4 DEF Take
  <2> HIDE DEF b
  <2> DEFINE entry == [IdleWorker EXCEPT !.pc = "load", !.run = r, !.allow = b]
  <2>3. entry \in WorkerState
    BY <2>1 DEF IdleWorker, WorkerState, Steps, RunStatus, NoEvent, Event, Decisions,
                  EventStatus
  <2>4. entry.pc = "load" /\ entry.run = r
    BY DEF IdleWorker
  <2> QED BY <1>1, <1>2, <2>2, <2>3, <2>4
<1> QED BY <1>3, <1>4

\* A loaded run is resolved at once only when it is running.
LEMMA LoadEffect ==
  ASSUME TypeOK, NEW w \in Workers, Load(w)
  PROVE  /\ UNCHANGED tableVars /\ worker[w].pc = "load"
         /\ \E pc \in {"finish", "mark", "resolve", "fail"} :
              /\ worker' = [worker EXCEPT ![w].pc = pc]
              /\ pc = "resolve" => status[worker[w].run] = "running"
  BY DEF Load, Step, At

\* A worker that reads an event reads that of a run, as it is.
LEMMA ReadEventEffect ==
  ASSUME TypeOK, NEW w \in Workers, ReadEvent(w)
  PROVE  /\ UNCHANGED tableVars
         /\ worker[w].pc \in {"finish", "fail", "sendFail"}
         /\ FailedRun(w) \in Runs /\ trigger[FailedRun(w)] \in Deliveries
         /\ worker[w].loaded = NoEvent
         /\ LET row == events[trigger[FailedRun(w)]]
            IN  /\ row \in Event
                /\ worker' = [worker EXCEPT ![w] = [worker[w] EXCEPT !.loaded = row]]
<1>1. FailedRun(w) \in Runs
  BY WorkerData DEF ReadEvent, HasRead, At, FailedRun, TypeOK, WorkerTypeOK, HasRuns
<1>2. trigger[FailedRun(w)] \in Deliveries /\ worker[w].loaded = NoEvent
  BY <1>1 DEF ReadEvent, EventRead, IsWebhook, TypeOK, TablesTypeOK
<1> DEFINE row == events[trigger[FailedRun(w)]]
<1>3. row \in Event
  BY <1>2 DEF TypeOK, TablesTypeOK
<1>4. worker' = [worker EXCEPT ![w].loaded = row]
  BY DEF ReadEvent
<1> HIDE DEF row
<1>5. worker' = [worker EXCEPT ![w] = [worker[w] EXCEPT !.loaded = row]]
  BY <1>4, Zenon
<1> QED BY <1>1, <1>2, <1>3, <1>5 DEF ReadEvent, HasRead, At, row

\* A worker that has written a failed run and event has found what to put into the
\* cursor, and has yet to commit.
LEMMA FailEventEffect ==
  ASSUME TypeOK, NEW w \in Workers, FailEvent(w)
  PROVE  /\ UNCHANGED <<remote, dbVars, queue, arrivals>>
         /\ incidents' \in [steps : Nat, kinds : SUBSET (Kinds \cup Collisions)]
         /\ worker[w].pc \in {"fail", "sendFail"} /\ worker[w].seen # "absent"
         /\ \E entry \in WorkerState, d \in Deliveries \cup {None} :
              /\ IsFallback(d, trigger[FailedRun(w)])
              /\ entry = [worker[w] EXCEPT !.pc = "restore", !.fallback = d]
              /\ worker' = [worker EXCEPT ![w] = entry]
<1>1. PICK d \in Deliveries \cup {None} :
        /\ IsFallback(d, trigger[FailedRun(w)])
        /\ worker' = [worker EXCEPT ![w].pc = "restore", ![w].fallback = d]
  BY DEF FailEvent
<1> DEFINE entry == [worker[w] EXCEPT !.pc = "restore", !.fallback = d]
<1>3. entry \in WorkerState
  BY WorkerData DEF WorkerState, Steps
<1>4. worker' = [worker EXCEPT ![w] = entry]
  BY <1>1, Zenon DEF entry
<1>5. incidents' \in [steps : Nat, kinds : SUBSET (Kinds \cup Collisions)]
  BY CollidesType DEF FailEvent, Collisions, TypeOK, TablesTypeOK
<1> QED BY <1>1, <1>3, <1>4, <1>5 DEF FailEvent, HasRead, At

\* Then it reads the cursor.
LEMMA ReadCursorEffect ==
  ASSUME TypeOK, NEW w \in Workers, ReadCursor(w)
  PROVE  /\ UNCHANGED tableVars /\ worker[w].pc = "restore"
         /\ \E entry \in WorkerState :
              /\ entry = [worker[w] EXCEPT !.pc = "upsert", !.latest = cursor]
              /\ worker' = [worker EXCEPT ![w] = entry]
<1> DEFINE entry == [worker[w] EXCEPT !.pc = "upsert", !.latest = cursor]
<1>1. cursor \in Deliveries \cup {None}
  BY DEF TypeOK, TablesTypeOK
<1>2. entry \in WorkerState
  BY <1>1, WorkerData DEF WorkerState, Steps
<1>3. worker' = [worker EXCEPT ![w] = entry]
  BY Zenon DEF ReadCursor, entry
<1> QED BY <1>2, <1>3 DEF ReadCursor, At

\* The rows that a worker writes when it commits a failure, or completes an event.
LEMMA CommitFailureEffect ==
  ASSUME TypeOK, NEW w \in Workers, CommitFailure(w)
  PROVE  /\ events' \in [Deliveries -> Event]
         /\ cursor' \in Deliveries \cup {None}
         /\ status' \in [Runs -> RunStatus]
<1> DEFINE run == IF worker[w].next = None THEN worker[w].loaded.run ELSE worker[w].next
<1>1. run \in Runs \cup {None}
  BY WorkerData DEF Event
<1>2. events' = WriteBack(events, trigger[FailedRun(w)], worker[w].loaded, "failed", run)
  BY DEF CommitFailure
<1> HIDE DEF run
<1>3. events' \in [Deliveries -> Event]
  BY <1>1, <1>2, WriteBackType, WorkerData DEF TypeOK, TablesTypeOK, EventStatus
<1>4. cursor' \in Deliveries \cup {None}
  BY RestoreCursorType, WorkerData DEF CommitFailure, TypeOK
<1>5. status' \in [Runs -> RunStatus]
  BY MarkFailedType DEF CommitFailure, TypeOK
<1> QED BY <1>3, <1>4, <1>5

LEMMA FinishEffect ==
  ASSUME TypeOK, NEW w \in Workers, Finish(w)
  PROVE  /\ events' \in [Deliveries -> Event]
         /\ \/ ~Mine(w) /\ events' = events
            \/ /\ Mine(w) /\ worker[w].run \in Runs
               /\ trigger[worker[w].run] \in Deliveries
               /\ events' = WriteBack(events, trigger[worker[w].run], worker[w].loaded,
                                      "completed", worker[w].run)
<1>1. CASE ~Mine(w)
  BY <1>1 DEF Finish, TypeOK, TablesTypeOK
<1>2. CASE Mine(w)
  <2>1. events' = WriteBack(events, trigger[worker[w].run], worker[w].loaded,
                            "completed", worker[w].run)
    BY <1>2 DEF Finish
  <2>2. worker[w].run \in Runs
    BY WorkerData DEF Finish, At, TypeOK, WorkerTypeOK, HasRuns
  <2>3. trigger[worker[w].run] \in Deliveries
    BY <1>2, <2>2 DEF Mine, IsWebhook, TypeOK, TablesTypeOK
  <2>4. events' \in [Deliveries -> Event]
    BY <2>1, <2>2, WriteBackType, WorkerData DEF TypeOK, TablesTypeOK, EventStatus
  <2> QED BY <1>2, <2>1, <2>2, <2>3, <2>4
<1> QED BY <1>1, <1>2

LEMMA UndoEffect ==
  ASSUME TypeOK, NEW h \in Handlers, Undo(h)
  PROVE  /\ events' \in [Deliveries -> Event]
         /\ events' = WriteBack(events, trigger[handler[h].run], handler[h].loaded,
                                "queued", handler[h].run)
<1>1. events' = WriteBack(events, trigger[handler[h].run], handler[h].loaded,
                          "queued", handler[h].run)
  BY DEF Undo
<1>2. events' \in [Deliveries -> Event]
  BY <1>1, WriteBackType, HandlerData DEF TypeOK, TablesTypeOK, EventStatus
<1> QED BY <1>1, <1>2

LEMMA ReadUndoneEffect ==
  ASSUME TypeOK, NEW h \in Handlers, ReadUndone(h)
  PROVE  /\ UNCHANGED tableVars
         /\ handler[h].pc = "undo" /\ trigger[handler[h].run] \in Deliveries
         /\ \E entry \in HandlerState :
              /\ handler' = [handler EXCEPT ![h] = entry]
              /\ entry = [handler[h] EXCEPT !.loaded = events[trigger[handler[h].run]]]
<1>1. PICK d \in Deliveries : /\ d = trigger[handler[h].run]
                              /\ handler' = [handler EXCEPT ![h].loaded = events[d]]
  BY DEF ReadUndone
<1> DEFINE row == events[d]
           entry == [handler[h] EXCEPT !.loaded = row]
<1>2. row \in Event
  BY DEF TypeOK, TablesTypeOK
<1> HIDE DEF row
<1>3. entry \in HandlerState
  BY <1>2, HandlerData DEF HandlerState
<1>4. handler' = [handler EXCEPT ![h] = entry]
  BY <1>1, Zenon DEF entry, row
<1> QED BY <1>1, <1>3, <1>4 DEF ReadUndone, row

\* Going on to the next run keeps the run that is over, and nothing else.
LEMMA HandOffEffect ==
  ASSUME TypeOK, NEW w \in Workers, HandOff(w)
  PROVE  \E entry \in WorkerState :
           /\ worker' = [worker EXCEPT ![w] = entry]
           /\ entry = [IdleWorker EXCEPT !.pc = "dispatch", !.run = worker[w].run]
           /\ entry.pc = "dispatch" /\ entry.run = worker[w].run /\ entry.next = None
           /\ entry.seen = "absent" /\ entry.loaded = NoEvent
           /\ entry.fallback = None /\ entry.latest = None
           /\ ~entry.allow /\ ~entry.again /\ entry.commit = None
<1> DEFINE entry == [IdleWorker EXCEPT !.pc = "dispatch", !.run = worker[w].run]
<1>1. entry \in WorkerState
  BY WorkerData DEF IdleWorker, WorkerState, Steps, RunStatus, NoEvent, Event,
                    Decisions, EventStatus
<1> QED BY <1>1 DEF HandOff, IdleWorker

\* A worker that reads, or writes without committing, keeps what it is working on;
\* nobody else sees it.
Reads(w) == ReadEvent(w) \/ ReadStatus(w) \/ FailEvent(w) \/ ReadCursor(w)

LEMMA ReadsEffect ==
  ASSUME TypeOK, NEW w \in Workers, Reads(w)
  PROVE  /\ UNCHANGED <<remote, dbVars, queue, arrivals>>
         /\ \A v \in Workers \ {w} : worker'[v] = worker[v]
         /\ worker[w].pc \in {"buildFail", "fail", "sendFail", "finish", "restore"}
         /\ worker'[w].run = worker[w].run /\ worker'[w].next = worker[w].next
         /\ worker'[w].allow = worker[w].allow /\ worker'[w].again = worker[w].again
         /\ worker'[w].commit = worker[w].commit
         /\ \/ /\ ReadEvent(w) /\ worker'[w].pc = worker[w].pc
               /\ worker'[w].seen = worker[w].seen
            \/ /\ ReadStatus(w) /\ worker'[w].pc = worker[w].pc
               /\ worker'[w].loaded = worker[w].loaded
               /\ worker[w].seen = "absent"
               /\ worker'[w].seen = status[FailedRun(w)]
            \/ /\ FailEvent(w) /\ worker'[w].pc = "restore"
               /\ worker[w].pc \in {"fail", "sendFail"}
               /\ worker'[w].seen = worker[w].seen /\ worker[w].seen # "absent"
               /\ worker'[w].loaded = worker[w].loaded
            \/ /\ ReadCursor(w) /\ worker'[w].pc = "upsert" /\ worker[w].pc = "restore"
               /\ worker'[w].seen = worker[w].seen
               /\ worker'[w].loaded = worker[w].loaded
               /\ worker'[w].fallback = worker[w].fallback
         /\ ~FailEvent(w) => UNCHANGED incidents
         /\ incidents.kinds \subseteq incidents'.kinds
<1> USE DEF TypeOK, WorkerTypeOK, tableVars
<1>1. CASE ReadEvent(w)
  <2> DEFINE row == events[trigger[FailedRun(w)]]
  <2>1. worker' = [worker EXCEPT ![w] = [worker[w] EXCEPT !.loaded = row]]
    BY <1>1, ReadEventEffect
  <2> HIDE DEF row
  <2>2. /\ \A v \in Workers \ {w} : worker'[v] = worker[v]
        /\ worker'[w] = [worker[w] EXCEPT !.loaded = row]
    BY <2>1
  <2>3. /\ UNCHANGED tableVars /\ worker[w].pc \in {"finish", "fail", "sendFail"}
        /\ worker[w] \in WorkerState
    BY <1>1, ReadEventEffect
  <2> QED BY <1>1, <2>2, <2>3 DEF WorkerState
<1>2. CASE ReadStatus(w)
  BY <1>2 DEF ReadStatus, Failing, WorkerState
<1>3. CASE FailEvent(w)
  <2>1. incidents.kinds \subseteq incidents'.kinds
    BY <1>3 DEF FailEvent, Collides, TablesTypeOK
  <2>2. PICK entry \in WorkerState, d \in Deliveries \cup {None} :
          /\ entry = [worker[w] EXCEPT !.pc = "restore", !.fallback = d]
          /\ worker' = [worker EXCEPT ![w] = entry]
    BY <1>3, FailEventEffect
  <2> QED BY <1>3, <2>1, <2>2, FailEventEffect DEF WorkerState
<1>4. CASE ReadCursor(w)
  <2>1. PICK entry \in WorkerState :
          /\ entry = [worker[w] EXCEPT !.pc = "upsert", !.latest = cursor]
          /\ worker' = [worker EXCEPT ![w] = entry]
    BY <1>4, ReadCursorEffect
  <2> QED BY <1>4, <2>1, ReadCursorEffect DEF WorkerState
<1> QED BY <1>1, <1>2, <1>3, <1>4 DEF Reads

\* A worker that is through with its run, in whatever way, goes on to the next one of
\* the ref or waits for a message.
Leaves(w) == FailTask(w) \/ CommitFailure(w) \/ Finish(w) \/ RollBackFailure(w)

LEMMA LeavesEffect ==
  ASSUME TypeOK, NEW w \in Workers, Leaves(w)
  PROVE  /\ UNCHANGED <<remote, trigger, dispatch, started, snapshot, queue, arrivals>>
         /\ \A v \in Workers \ {w} : worker'[v] = worker[v]
         /\ worker[w].pc \in {"fail", "finish", "upsert"}
         /\ worker'[w].next = None /\ worker'[w].seen = "absent"
         /\ worker'[w].loaded = NoEvent
         /\ worker'[w].commit = None /\ ~worker'[w].again /\ ~worker'[w].allow
         /\ \/ /\ worker'[w].pc = "idle" /\ worker'[w].run = None
               /\ CommitFailure(w) => worker[w].next # None
               /\ CommitFailure(w) \/ RollBackFailure(w)
            \/ /\ worker'[w].pc = "dispatch" /\ worker'[w].run = worker[w].run
               /\ ~RollBackFailure(w)
               /\ CommitFailure(w) => worker[w].next = None
         /\ FailTask(w) \/ CommitFailure(w) => MarkFailed(w)
         /\ Finish(w) \/ RollBackFailure(w) => UNCHANGED status
         /\ FailTask(w) \/ RollBackFailure(w) => UNCHANGED events
         /\ ~CommitFailure(w) => UNCHANGED cursor
         /\ ~RollBackFailure(w) => UNCHANGED incidents
         /\ incidents.kinds \subseteq incidents'.kinds
<1> USE DEF TypeOK, WorkerTypeOK, dbVars, runVars
<1>1. /\ HandOff(w) \/ Ack(w)
      /\ Ack(w) => RollBackFailure(w) \/ (CommitFailure(w) /\ worker[w].next # None)
                   \/ HandOff(w)
      /\ RollBackFailure(w) => Ack(w)
      /\ CommitFailure(w) => IF worker[w].next = None THEN HandOff(w) ELSE Ack(w)
      /\ FailTask(w) \/ Finish(w) => HandOff(w)
  BY DEF Leaves, FailTask, CommitFailure, Finish, RollBackFailure
<1>2. HandOff(w) => /\ \A v \in Workers \ {w} : worker'[v] = worker[v]
                    /\ worker'[w].pc = "dispatch" /\ worker'[w].run = worker[w].run
                    /\ worker'[w].next = None /\ worker'[w].seen = "absent"
                    /\ worker'[w].loaded = NoEvent
                    /\ worker'[w].commit = None /\ ~worker'[w].again /\ ~worker'[w].allow
  BY HandOffEffect
<1>3. Ack(w) => /\ \A v \in Workers \ {w} : worker'[v] = worker[v]
                /\ worker'[w].pc = "idle" /\ worker'[w].run = None
                /\ worker'[w].next = None /\ worker'[w].seen = "absent"
                /\ worker'[w].loaded = NoEvent
                /\ worker'[w].commit = None /\ ~worker'[w].again /\ ~worker'[w].allow
  BY DEF Ack, IdleWorker
<1>4. /\ UNCHANGED <<remote, trigger, dispatch, started, snapshot, queue, arrivals>>
      /\ worker[w].pc \in {"fail", "finish", "upsert"}
      /\ FailTask(w) \/ CommitFailure(w) => MarkFailed(w)
      /\ Finish(w) \/ RollBackFailure(w) => UNCHANGED status
      /\ FailTask(w) \/ RollBackFailure(w) => UNCHANGED events
      /\ ~CommitFailure(w) => UNCHANGED cursor
      /\ ~RollBackFailure(w) => UNCHANGED incidents
  BY DEF Leaves, FailTask, CommitFailure, Finish, RollBackFailure, HasRead, At
<1>5. incidents.kinds \subseteq incidents'.kinds
  BY <1>4 DEF RollBackFailure, Collides, TablesTypeOK
<1>6. ~(HandOff(w) /\ Ack(w))
  BY <1>2, <1>3
<1> QED BY <1>1, <1>2, <1>3, <1>4, <1>5, <1>6 DEF Leaves

(***************************************************************************)
(* Types.                                                                  *)
(***************************************************************************)
LEMMA TablesTypeStep ==
  ASSUME TypeOK, Next
  PROVE  TablesTypeOK'
<1> USE DEF TypeOK, TablesTypeOK, tableVars, dbVars, runVars
<1>1. ASSUME NEW h \in Handlers, NEW d \in Deliveries, Receive(h, d)
      PROVE  TablesTypeOK'
  BY <1>1, ReceiveEffect
<1>2. ASSUME NEW h \in Handlers, Decide(h) \/ LoseInsert(h) PROVE TablesTypeOK'
  BY <1>2 DEF Decide, LoseInsert
<1>3. ASSUME NEW h \in Handlers, RecordOnly(h) \/ JoinCancelled(h)
      PROVE  TablesTypeOK'
  BY <1>3, MyEventsType DEF RecordOnly, JoinCancelled, Recording
<1>4. ASSUME NEW h \in Handlers, JoinPending(h) PROVE TablesTypeOK'
  BY <1>4, MyEventsType, SettleType, HandlerData
     DEF JoinPending, Recording, Decisions, EventStatus
<1>5. ASSUME NEW h \in Handlers, CreateBlocked(h) PROVE TablesTypeOK'
  <2>1. PICK r \in Runs : /\ CreateRun(r, "blocked", handler[h].d)
                          /\ events' = Settle(MyEvents(h), handler[h].d, "queued",
                                              "validated", r)
    BY <1>5 DEF CreateBlocked
  <2>2. events' \in [Deliveries -> Event]
    BY <2>1, MyEventsType, SettleType DEF Decisions, EventStatus
  <2> QED BY <1>5, <2>1, <2>2, CreateRunType, HandlerData
          DEF CreateBlocked, Recording, RunStatus
<1>6. ASSUME NEW h \in Handlers, ReplaceBlocked(h) PROVE TablesTypeOK'
  <2>1. PICK r \in Runs :
          LET previous == trigger[r]
              retired == IF previous \in {None, handler[h].d} THEN MyEvents(h)
                         ELSE Settle(MyEvents(h), previous, "duplicate_head",
                                     "completed", r)
          IN  /\ trigger' = [trigger EXCEPT ![r] = handler[h].d]
              /\ dispatch' = [dispatch EXCEPT ![r] = "none"]
              /\ events' = Settle(retired, handler[h].d, "queued", "validated", r)
    BY <1>6 DEF ReplaceBlocked, WithStatus
  <2>2. Settle(MyEvents(h), trigger[r], "duplicate_head", "completed", r)
           \in [Deliveries -> Event]
    BY MyEventsType, SettleType DEF Decisions, EventStatus
  <2>3. events' \in [Deliveries -> Event]
    BY <2>1, <2>2, MyEventsType, SettleType DEF Decisions, EventStatus
  <2> QED BY <1>6, <2>1, <2>3, HandlerData DEF ReplaceBlocked, Recording
<1>7. ASSUME NEW h \in Handlers, CreatePending(h) PROVE TablesTypeOK'
  <2>1. PICK r \in Runs : /\ CreateRun(r, "pending", handler[h].d)
                          /\ events' = Settle(MyEvents(h), handler[h].d, "queued",
                                              "queued", r)
    BY <1>7 DEF CreatePending
  <2>2. events' \in [Deliveries -> Event]
    BY <2>1, MyEventsType, SettleType DEF Decisions, EventStatus
  <2> QED BY <1>7, <2>1, <2>2, CreateRunType, HandlerData
          DEF CreatePending, Recording, RunStatus
<1>8. ASSUME NEW h \in Handlers, JoinConcurrent(h) PROVE TablesTypeOK'
  <2>1. PICK r \in Runs : events' = Settle(MyEvents(h), handler[h].d,
                                           "duplicate_head", "completed", r)
    BY <1>8 DEF JoinConcurrent, ActiveRuns, WithStatus
  <2> QED BY <1>8, <2>1, MyEventsType, SettleType
          DEF JoinConcurrent, Recording, Decisions, EventStatus
<1>9. ASSUME NEW h \in Handlers, Claim(h) PROVE TablesTypeOK'
  BY <1>9 DEF Claim, ClaimDispatch
<1>10. ASSUME NEW h \in Handlers,
              SendTask(h) \/ SendTaskFails(h) \/ CrashHandler(h)
       PROVE  TablesTypeOK'
  BY <1>10, SendType, HappensType DEF SendTask, SendTaskFails, CrashHandler
<1>11. ASSUME NEW h \in Handlers, ReadUndone(h) \/ Undo(h) PROVE TablesTypeOK'
  BY <1>11, ReadUndoneEffect, UndoEffect DEF Undo
<1>12. ASSUME NEW w \in Workers, NEW r \in Runs, Take(w, r) PROVE TablesTypeOK'
  BY <1>12, TakeEffect
<1>13. ASSUME NEW w \in Workers, Load(w) \/ Resolve(w) \/ BuildFails(w)
                                 \/ Rebuild(w) \/ ReadEvent(w) \/ ReadStatus(w)
                                 \/ ReadCursor(w)
                                 \/ NothingToDispatch(w)
       PROVE  TablesTypeOK'
  BY <1>13, HappensType DEF Load, Resolve, BuildFails, Rebuild, ReadEvent, ReadStatus,
               ReadCursor, NothingToDispatch
<1>14. ASSUME NEW w \in Workers, MarkRunning(w) PROVE TablesTypeOK'
  BY <1>14 DEF MarkRunning, RunStatus
<1>15. ASSUME NEW w \in Workers, Commit(w) PROVE TablesTypeOK'
  BY <1>15, WorkerData DEF Commit, RunStatus
<1>16. ASSUME NEW w \in Workers, FailBuild(w) \/ FailTask(w) PROVE TablesTypeOK'
  BY <1>16, MarkFailedType DEF FailBuild, FailTask
<1>17. ASSUME NEW w \in Workers, FailEvent(w) \/ RollBackFailure(w)
       PROVE  TablesTypeOK'
  BY <1>17, FailEventEffect, CollidesType DEF RollBackFailure, Collisions
<1>18. ASSUME NEW w \in Workers, Finish(w) PROVE TablesTypeOK'
  BY <1>18, FinishEffect DEF Finish
<1>19. ASSUME NEW w \in Workers, DispatchPending(w) PROVE TablesTypeOK'
  BY <1>19 DEF DispatchPending, ClaimDispatch
<1>20. ASSUME NEW w \in Workers, ReleaseBlocked(w) PROVE TablesTypeOK'
  <2>1. PICK q \in Runs :
          /\ status' = [status EXCEPT ![q] = "pending"]
          /\ dispatch' = [dispatch EXCEPT ![q] = "fresh"]
          /\ events' = Settle(events, trigger[q], "queued", "queued", q)
    BY <1>20 DEF ReleaseBlocked
  <2> QED BY <1>20, <2>1, SettleType
          DEF ReleaseBlocked, Decisions, EventStatus, RunStatus
<1>21. ASSUME NEW w \in Workers,
              SendNext(w) \/ SendNextFails(w) \/ CrashWorker(w) \/ Duplicate(w)
       PROVE  TablesTypeOK'
  BY <1>21, SendType, HappensType DEF SendNext, SendNextFails, CrashWorker, Duplicate
<1>22. ASSUME NEW w \in Workers, CommitFailure(w) PROVE TablesTypeOK'
  BY <1>22, CommitFailureEffect DEF CommitFailure
<1>23. ASSUME RequestSnapshot PROVE TablesTypeOK'
  BY <1>23, CreateRunType DEF RequestSnapshot, RunStatus
<1>24. ASSUME SendManual \/ SendManualFails \/ CrashManual PROVE TablesTypeOK'
  BY <1>24, SendType, HappensType DEF SendManual, SendManualFails, CrashManual
<1>25. ASSUME Cancel PROVE TablesTypeOK'
  BY <1>25 DEF Cancel, RunStatus
<1>26. ASSUME Environment PROVE TablesTypeOK'
  BY <1>26, HappensType DEF Environment, Push, Age
<1> QED BY <1>1, <1>2, <1>3, <1>4, <1>5, <1>6, <1>7, <1>8, <1>9, <1>10, <1>11,
           <1>12, <1>13, <1>14, <1>15, <1>16, <1>17, <1>18, <1>19, <1>20, <1>21,
           <1>22, <1>23, <1>24, <1>25, <1>26
        DEF Next, IntakeNext, HandlerStep, Record, WorkerNext, WorkerStep,
            ManualNext, ManualStep

\* Ways in which a request moves on.
LEMMA RespondType ==
  ASSUME TypeOK, NEW h \in Handlers, Respond(h)
  PROVE  IntakeTypeOK'
<1>1. IdleHandler \in HandlerState
  BY DEF IdleHandler, HandlerState, Decisions, NoEvent, Event, EventStatus
<1> QED BY <1>1 DEF Respond, TypeOK, IntakeTypeOK

LEMMA GotoType ==
  ASSUME TypeOK, NEW h \in Handlers, NEW pc \in {"send", "undo"}, Goto(h, pc)
  PROVE  IntakeTypeOK'
<1>1. [handler[h] EXCEPT !.pc = pc] \in HandlerState
  BY HandlerData DEF HandlerState
<1>2. handler' = [handler EXCEPT ![h] = [handler[h] EXCEPT !.pc = pc]]
  BY DEF Goto, TypeOK, IntakeTypeOK
<1> QED BY <1>1, <1>2 DEF TypeOK, IntakeTypeOK

LEMMA DispatchingType ==
  ASSUME TypeOK, NEW h \in Handlers, NEW r \in Runs, Dispatching(h, r)
  PROVE  IntakeTypeOK'
<1>1. [IdleHandler EXCEPT !.pc = "claim", !.run = r] \in HandlerState
  BY DEF IdleHandler, HandlerState, Decisions, NoEvent, Event, EventStatus
<1> QED BY <1>1 DEF Dispatching, TypeOK, IntakeTypeOK

LEMMA IntakeTypeStep ==
  ASSUME TypeOK, Next
  PROVE  IntakeTypeOK'
<1>1. ASSUME NEW h \in Handlers, NEW d \in Deliveries, Receive(h, d)
      PROVE  IntakeTypeOK'
  BY <1>1, ReceiveEffect DEF TypeOK, IntakeTypeOK
<1>2. ASSUME NEW h \in Handlers, Decide(h) PROVE IntakeTypeOK'
  BY <1>2, DecideEffect DEF TypeOK, IntakeTypeOK
<1>8. ASSUME NEW h \in Handlers, ReadUndone(h) PROVE IntakeTypeOK'
  BY <1>8, ReadUndoneEffect DEF TypeOK, IntakeTypeOK
<1>3. ASSUME NEW h \in Handlers,
             \/ LoseInsert(h) \/ RecordOnly(h) \/ JoinCancelled(h)
             \/ CreateBlocked(h) \/ ReplaceBlocked(h) \/ JoinConcurrent(h)
             \/ SendTask(h) \/ Undo(h) \/ CrashHandler(h)
      PROVE  IntakeTypeOK'
  BY <1>3, RespondType
     DEF LoseInsert, RecordOnly, JoinCancelled, CreateBlocked, ReplaceBlocked,
         JoinConcurrent, SendTask, Undo, CrashHandler
<1>4. ASSUME NEW h \in Handlers, JoinPending(h) PROVE IntakeTypeOK'
  <2>1. handler[h].run \in Runs
    BY <1>4, HandlerData DEF JoinPending
  <2> QED BY <1>4, <2>1, RespondType, DispatchingType DEF JoinPending
<1>5. ASSUME NEW h \in Handlers, CreatePending(h) PROVE IntakeTypeOK'
  BY <1>5, DispatchingType DEF CreatePending
<1>6. ASSUME NEW h \in Handlers, Claim(h) \/ SendTaskFails(h) PROVE IntakeTypeOK'
  BY <1>6, RespondType, GotoType DEF Claim, SendTaskFails
<1>7. ASSUME UNCHANGED handler PROVE IntakeTypeOK'
  BY <1>7 DEF TypeOK, IntakeTypeOK
<1> QED BY <1>1, <1>2, <1>3, <1>4, <1>5, <1>6, <1>7, <1>8
        DEF Next, IntakeNext, HandlerStep, Record

\* Ways in which a worker moves on.
LEMMA EntryType ==
  ASSUME TypeOK, NEW w \in Workers, NEW entry \in WorkerState, HasRuns(entry),
         worker' = [worker EXCEPT ![w] = entry]
  PROVE  WorkerTypeOK'
  BY DEF TypeOK, WorkerTypeOK

LEMMA StepType ==
  ASSUME TypeOK, NEW w \in Workers, NEW pc \in Steps, Step(w, pc),
         worker[w].pc # "idle",
         pc \in {"send", "sendFail"} => worker[w].next # None
  PROVE  WorkerTypeOK'
<1>1. [worker[w] EXCEPT !.pc = pc] \in WorkerState
  BY WorkerData DEF WorkerState
<1>2. worker' = [worker EXCEPT ![w] = [worker[w] EXCEPT !.pc = pc]]
  BY DEF Step, TypeOK, WorkerTypeOK
<1>3. HasRuns([worker[w] EXCEPT !.pc = pc])
  BY WorkerData DEF HasRuns, WorkerState, TypeOK, WorkerTypeOK
<1> QED BY <1>1, <1>2, <1>3, EntryType

LEMMA AckType ==
  ASSUME TypeOK, NEW w \in Workers, Ack(w)
  PROVE  WorkerTypeOK'
<1>1. IdleWorker \in WorkerState /\ HasRuns(IdleWorker)
  BY DEF IdleWorker, WorkerState, Steps, RunStatus, HasRuns, NoEvent, Event, Decisions,
         EventStatus
<1> QED BY <1>1, EntryType DEF Ack

\* Two fields of one worker change: the form of the assignments of Resolve, Commit
\* and BuildFails, and the entry that they write.
LEMMA EntryChange ==
  ASSUME NEW e \in WorkerState, NEW pc \in Steps, NEW c \in Nat \cup {None}
  PROVE  [e EXCEPT !.pc = pc, !.commit = c] \in WorkerState
<1>1. [e EXCEPT !.pc = pc] \in WorkerState
  BY DEF WorkerState
<1>2. ASSUME NEW x \in WorkerState PROVE [x EXCEPT !.commit = c] \in WorkerState
  BY DEF WorkerState
<1> QED BY <1>1, <1>2

LEMMA WorkerChange ==
  ASSUME NEW f \in [Workers -> WorkerState], NEW w \in Workers, NEW pc, NEW c
  PROVE  [f EXCEPT ![w].pc = pc, ![w].commit = c]
           = [f EXCEPT ![w] = [f[w] EXCEPT !.pc = pc, !.commit = c]]
  BY DEF WorkerState

LEMMA WorkerTypeStep ==
  ASSUME TypeOK, Next
  PROVE  WorkerTypeOK'
<1> USE DEF HasRuns, Steps
<1>1. ASSUME NEW w \in Workers, NEW r \in Runs, Take(w, r) PROVE WorkerTypeOK'
  <2>1. CASE worker' = worker
    BY <2>1 DEF TypeOK, WorkerTypeOK
  <2>2. CASE worker' # worker
    <3>1. PICK entry \in WorkerState : /\ worker' = [worker EXCEPT ![w] = entry]
                                       /\ entry.pc = "load" /\ entry.run = r
      BY <1>1, <2>2, TakeEffect
    <3> QED BY <3>1, EntryType
  <2> QED BY <2>1, <2>2
<1>2. ASSUME NEW w \in Workers, Load(w) \/ MarkRunning(w) \/ SendNextFails(w)
      PROVE  WorkerTypeOK'
  BY <1>2, StepType
     DEF Load, MarkRunning, SendNextFails, At, TypeOK, WorkerTypeOK
<1>3. ASSUME NEW w \in Workers, Resolve(w) PROVE WorkerTypeOK'
  <2> DEFINE entry == [worker[w] EXCEPT !.pc = "commit", !.commit = remote]
  <2>1. worker' = [worker EXCEPT ![w].pc = "commit", ![w].commit = remote]
    BY <1>3 DEF Resolve
  <2>2. entry \in WorkerState /\ worker' = [worker EXCEPT ![w] = entry]
    <3>1. worker \in [Workers -> WorkerState] /\ worker[w] \in WorkerState
      BY WorkerData DEF TypeOK, WorkerTypeOK
    <3>2. remote \in Nat \cup {None} /\ "commit" \in Steps
      BY DEF TypeOK, TablesTypeOK
    <3>3. entry \in WorkerState
      BY <3>1, <3>2, EntryChange
    <3>4. worker' = [worker EXCEPT ![w] = entry]
      BY <2>1, <3>1, WorkerChange
    <3> QED BY <3>3, <3>4
  <2>3. HasRuns(entry)
    BY <1>3, WorkerData DEF WorkerState, TypeOK, WorkerTypeOK, Resolve, At
  <2> QED BY <2>2, <2>3, EntryType
<1>4. ASSUME NEW w \in Workers, Commit(w) \/ BuildFails(w) PROVE WorkerTypeOK'
  <2>1. PICK pc \in {"finish", "buildFail"} :
          worker' = [worker EXCEPT ![w].pc = pc, ![w].commit = None]
    BY <1>4 DEF Commit, BuildFails
  <2> DEFINE entry == [worker[w] EXCEPT !.pc = pc, !.commit = None]
  <2>2. entry \in WorkerState /\ worker' = [worker EXCEPT ![w] = entry]
    <3>1. worker \in [Workers -> WorkerState] /\ worker[w] \in WorkerState
      BY WorkerData DEF TypeOK, WorkerTypeOK
    <3>2. pc \in Steps
      OBVIOUS
    <3>3. entry \in WorkerState
      BY <3>1, <3>2, EntryChange
    <3>4. worker' = [worker EXCEPT ![w] = entry]
      BY <2>1, <3>1, WorkerChange
    <3> QED BY <3>3, <3>4
  <2>3. HasRuns(entry)
    BY <1>4, WorkerData DEF WorkerState, TypeOK, WorkerTypeOK, Commit, BuildFails, At
  <2> QED BY <2>2, <2>3, EntryType
<1>5. ASSUME NEW w \in Workers, ReadStatus(w) PROVE WorkerTypeOK'
  <2> DEFINE entry == [worker[w] EXCEPT !.seen = status[FailedRun(w)]]
  <2>1. FailedRun(w) \in Runs
    BY <1>5, WorkerData
       DEF ReadStatus, FailedRun, Failing, At, TypeOK, WorkerTypeOK
  <2>2. entry \in WorkerState /\ worker' = [worker EXCEPT ![w] = entry]
    <3>1. status[FailedRun(w)] \in RunStatus
      BY <2>1 DEF TypeOK, TablesTypeOK
    <3>2. entry \in WorkerState
      BY <3>1, WorkerData DEF WorkerState, TypeOK, WorkerTypeOK
    <3>3. worker' = [worker EXCEPT ![w] = entry]
      BY <1>5 DEF TypeOK, WorkerTypeOK, ReadStatus
    <3> QED BY <3>2, <3>3
  <2>3. HasRuns(entry)
    BY <1>5, WorkerData DEF WorkerState, TypeOK, WorkerTypeOK
  <2> QED BY <2>2, <2>3, EntryType
<1>6. ASSUME NEW w \in Workers, HandOff(w), worker[w].pc # "idle" PROVE WorkerTypeOK'
  <2>1. worker[w].run # None
    BY <1>6 DEF TypeOK, WorkerTypeOK
  <2> QED BY <1>6, <2>1, HandOffEffect, EntryType
<1>7. ASSUME NEW w \in Workers, FailBuild(w) PROVE WorkerTypeOK'
  <2> DEFINE entry == [worker[w] EXCEPT !.pc = "fail", !.seen = "absent"]
  <2>1. entry \in WorkerState /\ worker' = [worker EXCEPT ![w] = entry]
    <3>1. entry \in WorkerState
      BY WorkerData DEF WorkerState, RunStatus
    <3>2. worker' = [worker EXCEPT ![w] = entry]
      BY <1>7, Zenon DEF FailBuild
    <3> QED BY <3>1, <3>2
  <2>2. HasRuns(entry)
    BY <1>7, WorkerData DEF WorkerState, TypeOK, WorkerTypeOK, FailBuild, HasRead, At
  <2> QED BY <2>1, <2>2, EntryType
<1>12. ASSUME NEW w \in Workers, FailTask(w) \/ Finish(w) \/ CommitFailure(w)
       PROVE  WorkerTypeOK'
  BY <1>6, <1>12, AckType DEF FailTask, Finish, CommitFailure, HasRead, At
<1>13. ASSUME NEW w \in Workers, FailEvent(w) PROVE WorkerTypeOK'
  <2>1. PICK entry \in WorkerState, d \in Deliveries \cup {None} :
          /\ entry = [worker[w] EXCEPT !.pc = "restore", !.fallback = d]
          /\ worker' = [worker EXCEPT ![w] = entry]
    BY <1>13, FailEventEffect
  <2>2. HasRuns(entry)
    BY <1>13, <2>1, FailEventEffect, WorkerData DEF WorkerState, TypeOK, WorkerTypeOK
  <2> QED BY <2>1, <2>2, EntryType
<1>15. ASSUME NEW w \in Workers, ReadCursor(w) PROVE WorkerTypeOK'
  <2>1. PICK entry \in WorkerState :
          /\ entry = [worker[w] EXCEPT !.pc = "upsert", !.latest = cursor]
          /\ worker' = [worker EXCEPT ![w] = entry]
    BY <1>15, ReadCursorEffect
  <2>2. HasRuns(entry)
    BY <1>15, <2>1, ReadCursorEffect, WorkerData DEF WorkerState, TypeOK, WorkerTypeOK
  <2> QED BY <2>1, <2>2, EntryType
<1>14. ASSUME NEW w \in Workers, ReadEvent(w) PROVE WorkerTypeOK'
  <2> DEFINE row == events[trigger[FailedRun(w)]]
             entry == [worker[w] EXCEPT !.loaded = row]
  <2>1. row \in Event /\ worker' = [worker EXCEPT ![w] = entry]
    BY <1>14, ReadEventEffect
  <2> HIDE DEF row
  <2>2. entry \in WorkerState /\ HasRuns(entry)
    BY <1>14, <2>1, ReadEventEffect, WorkerData DEF WorkerState, TypeOK, WorkerTypeOK
  <2> QED BY <2>1, <2>2, EntryType
<1>8. ASSUME NEW w \in Workers, DispatchPending(w) \/ ReleaseBlocked(w)
      PROVE  WorkerTypeOK'
  <2>1. PICK q \in Runs :
          worker' = [worker EXCEPT ![w].pc = "send", ![w].next = q]
    BY <1>8 DEF DispatchPending, ReleaseBlocked, PendingToDispatch, WithStatus
  <2> DEFINE entry == [worker[w] EXCEPT !.pc = "send", !.next = q]
  <2>2. entry \in WorkerState /\ worker' = [worker EXCEPT ![w] = entry]
    <3>1. entry \in WorkerState
      BY <2>1, WorkerData DEF WorkerState
    <3>2. worker' = [worker EXCEPT ![w] = entry]
      BY <2>1, WorkerData DEF WorkerState
    <3> QED BY <3>1, <3>2
  <2>3. HasRuns(entry)
    BY <1>8, WorkerData
       DEF WorkerState, TypeOK, WorkerTypeOK, DispatchPending, ReleaseBlocked, At
  <2> QED BY <2>2, <2>3, EntryType
<1>9. ASSUME NEW w \in Workers, NothingToDispatch(w) \/ SendNext(w)
                                \/ RollBackFailure(w) \/ CrashWorker(w)
      PROVE  WorkerTypeOK'
  BY <1>9, AckType DEF NothingToDispatch, SendNext, RollBackFailure, CrashWorker
<1>10. ASSUME UNCHANGED worker PROVE WorkerTypeOK'
  BY <1>10 DEF TypeOK, WorkerTypeOK
<1>11. ASSUME NEW w \in Workers, Rebuild(w) PROVE WorkerTypeOK'
  <2> DEFINE entry == [worker[w] EXCEPT !.pc = "load", !.again = TRUE, !.commit = None]
  <2>1. entry \in WorkerState /\ worker' = [worker EXCEPT ![w] = entry]
    BY <1>11, WorkerData DEF WorkerState, TypeOK, WorkerTypeOK, Rebuild
  <2>2. HasRuns(entry)
    BY <1>11, WorkerData DEF WorkerState, TypeOK, WorkerTypeOK, Rebuild, At
  <2> QED BY <2>1, <2>2, EntryType
<1> QED BY <1>1, <1>2, <1>3, <1>4, <1>5, <1>7, <1>8, <1>9, <1>10, <1>11, <1>12,
           <1>13, <1>14, <1>15
        DEF Next, WorkerNext, WorkerStep, Duplicate

LEMMA ManualTypeStep ==
  ASSUME TypeOK, Next
  PROVE  ManualTypeOK'
<1>1. ASSUME ManualNext PROVE ManualTypeOK'
  BY <1>1 DEF ManualNext, ManualStep, RequestSnapshot, SendManual, SendManualFails,
              Cancel, CrashManual, TypeOK, ManualTypeOK, IdleManual
<1>2. ASSUME UNCHANGED manual PROVE ManualTypeOK'
  BY <1>2 DEF TypeOK, ManualTypeOK
<1> QED BY <1>1, <1>2 DEF Next

\* Tables, requests and workers start with values of their types, and every step,
\* of whatever process, and however it interleaves, keeps them.
LEMMA TypeInit == Init => TypeOK
<1>1. IdleHandler \in HandlerState
  BY DEF IdleHandler, HandlerState, Decisions, NoEvent, Event, EventStatus
<1>2. IdleWorker \in WorkerState /\ HasRuns(IdleWorker)
  BY DEF IdleWorker, WorkerState, Steps, RunStatus, HasRuns, NoEvent, Event, Decisions,
         EventStatus
<1>3. NoEvent \in Event
  BY DEF NoEvent, Event, Decisions, EventStatus
<1> QED BY <1>1, <1>2, <1>3
        DEF Init, TablesInit, IntakeInit, WorkerInit, ManualInit, IdleManual,
            TypeOK, TablesTypeOK, IntakeTypeOK, WorkerTypeOK, ManualTypeOK,
            RunStatus

LEMMA TypeStep == TypeOK /\ [Next]_vars => TypeOK'
<1>1. ASSUME TypeOK, Next PROVE TypeOK'
  BY <1>1, TablesTypeStep, IntakeTypeStep, WorkerTypeStep, ManualTypeStep DEF TypeOK
<1>2. ASSUME TypeOK, UNCHANGED vars PROVE TypeOK'
  BY <1>2 DEF vars, tableVars, dbVars, runVars, TypeOK, TablesTypeOK, IntakeTypeOK,
              WorkerTypeOK, ManualTypeOK
<1> QED BY <1>1, <1>2

\* Every reachable state of the pipeline is well typed, for any number of
\* deliveries, runs, requests and workers.
THEOREM TypeCorrect == Spec => []TypeOK
  BY TypeInit, TypeStep, PTL DEF Spec
===============================================================================
