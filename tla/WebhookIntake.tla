----------------------------- MODULE WebhookIntake -----------------------------
(***************************************************************************)
(* The webhook routes and process_github_event / process_gitlab_event for  *)
(* pushes to the ref.  A handler reads the cursor and asks the provider    *)
(* for the current head (Receive), locks the delivery's row and reads the  *)
(* running and pending runs (Decide), and only then writes and commits     *)
(* (the Record actions); the queue is reached after the commit (Claim,     *)
(* SendTask), with a compensating transaction when sending fails (Undo).   *)
(***************************************************************************)
EXTENDS SyncTables

CONSTANTS
    Handlers,   \* requests being served at the same time
    Workers     \* worker processes

VARIABLES
    handler,    \* the state of each request
    worker      \* the state of each worker (SyncWorker), for the rows it locks

IdleHandler ==
    [pc |-> "idle", d |-> None, at |-> 0, sameHead |-> FALSE, moved |-> FALSE,
     row |-> FALSE, retry |-> FALSE, decision |-> "queued",
     running |-> FALSE, run |-> None, offer |-> FALSE, loaded |-> NoEvent]

HandlerState ==
    [pc : {"idle", "decide", "record", "claim", "send", "undo"},
     d : Deliveries \cup {None}, at : Nat, sameHead : BOOLEAN, moved : BOOLEAN,
     row : BOOLEAN, retry : BOOLEAN, decision : Decisions,
     running : BOOLEAN, run : Runs \cup {None}, offer : BOOLEAN,
     loaded : Event]    \* the event row as Undo has read it

IntakeTypeOK == handler \in [Handlers -> HandlerState]
IntakeInit == handler = [h \in Handlers |-> IdleHandler]

Goto(h, pc) == handler' = [handler EXCEPT ![h].pc = pc]
Respond(h) == handler' = [handler EXCEPT ![h] = IdleHandler]

\* Mutation of Dispatching: the request ends without a dispatch.
EndUndispatched(h, r) == Respond(h)

\* The request goes on to claim and send run r.
Dispatching(h, r) ==
    handler' = [handler EXCEPT ![h] = [IdleHandler EXCEPT !.pc = "claim", !.run = r]]

\* The run whose failure a worker records: that which it was to send, or its own.
\* From the UPDATEs to the commit it holds the rows that it has written: that of
\* the event, and of the run, unless it has read that the run is over.
FailedRun(w) == IF worker[w].next # None THEN worker[w].next ELSE worker[w].run
Restores(w) == worker[w].pc \in {"restore", "upsert"}
Marks(w) == worker[w].seen \notin {"succeeded", "failed", "cancelled"}
RunLocked(r) == \E w \in Workers : Restores(w) /\ Marks(w) /\ FailedRun(w) = r
Restored(d) == \E w \in Workers : Restores(w) /\ trigger[FailedRun(w)] = d

\* Another open transaction holds the row of delivery d: a handler has found the
\* row and taken it FOR UPDATE, or a worker has written it.
LockedBy(g, d) == handler[g].pc = "record" /\ handler[g].d = d /\ handler[g].row
RowLocked(d) == Restored(d) \/ \E h \in Handlers : LockedBy(h, d)
RowLockedByOther(d, h) == Restored(d) \/ \E g \in Handlers \ {h} : LockedBy(g, d)

Redelivered(d) == Recorded(d) \/ \E g \in Handlers : handler[g].d = d

(***************************************************************************)
(* A delivery arrives: cursor and current head are read.  A git error      *)
(* leaves the head unknown, and the delivery is then taken at its word.    *)
(***************************************************************************)
Receive(h, d) ==
    /\ handler[h].pc = "idle"
    /\ arrivals < MaxArrivals
    /\ HeadOf[d] <= remote
    /\ arrivals' = arrivals + 1
    /\ \E gitError \in BOOLEAN :
        /\ Meets((IF gitError THEN {"gitError"} ELSE {}) \cup
                 (IF Redelivered(d) THEN {"redelivery"} ELSE {}))
        /\ handler' = [handler EXCEPT ![h] =
             [IdleHandler EXCEPT !.pc = "decide", !.d = d, !.at = arrivals',
                !.sameHead = (cursor # None /\ HeadOf[cursor] = HeadOf[d]),
                !.moved = (~gitError /\ remote # HeadOf[d])]]
    /\ UNCHANGED <<remote, dbVars, queue>>

\* _is_retryable_delivery
Retryable(d) ==
    /\ events[d].decision = "queued"
    /\ \/ events[d].status = "failed"
       \/ /\ events[d].status = "queued"
          /\ events[d].run # None
          /\ DispatchDue(events[d].run)

\* decide_provider_event_processing, for a push that carries a head.
Decision(row, retry, sameHead, moved) ==
    IF row /\ ~retry THEN "duplicate_delivery"
    ELSE IF ~retry /\ sameHead THEN "duplicate_head"
    ELSE IF moved THEN "stale_head"
    ELSE "queued"

\* The event row as created, or as update_processing leaves it when the
\* delivery was seen before.
Noted(d, decision, retry, at) ==
    [decision |-> decision,
     status |-> IF decision = "queued" THEN "queued" ELSE "completed",
     run |-> IF retry /\ decision # "queued" THEN None ELSE events[d].run,
     at |-> IF retry \/ ~Recorded(d) THEN at ELSE events[d].at]

Decide(h) ==
    LET d == handler[h].d
        row == Recorded(d)
        retry == row /\ Retryable(d)
        decision == Decision(row, retry, handler[h].sameHead, handler[h].moved)
        noted == [events EXCEPT ![d] = Noted(d, decision, retry, handler[h].at)]
        syncs == decision \in {"queued", "duplicate_head"}
    IN  /\ handler[h].pc = "decide"
        /\ row => ~RowLockedByOther(d, h)
        /\ handler' = [handler EXCEPT ![h] =
             [IdleHandler EXCEPT !.pc = "record", !.d = d, !.at = handler[h].at,
                !.row = row, !.retry = retry, !.decision = decision,
                !.running = (syncs /\ WithStatus({"running"}) # {}),
                !.run = (IF syncs THEN ThePending ELSE None),
                !.offer = (/\ syncs
                           /\ ThePending # None
                           /\ Dispatchable(ThePending, noted))]]
        /\ UNCHANGED tableVars

(***************************************************************************)
(* The write part of the transaction, with its commit.  Recording says     *)
(* that h is there, and that its insert does not meet a concurrent one.    *)
(***************************************************************************)
Recording(h) ==
    /\ handler[h].pc = "record"
    /\ handler[h].row \/ ~Recorded(handler[h].d)
    /\ UNCHANGED <<remote, snapshot, queue, arrivals, incidents>>

MyEvents(h) == [events EXCEPT ![handler[h].d] =
    Noted(handler[h].d, handler[h].decision, handler[h].retry, handler[h].at)]

\* _create_event_or_get_concurrent_delivery: the same delivery was inserted by
\* another request meanwhile; nothing is written.
LoseInsert(h) ==
    /\ handler[h].pc = "record"
    /\ ~handler[h].row /\ Recorded(handler[h].d)
    /\ Respond(h)
    /\ UNCHANGED tableVars

\* No sync run is involved: duplicate delivery, stale head, or a duplicate head
\* with nothing pending.
RecordOnly(h) ==
    /\ Recording(h)
    /\ handler[h].decision # "queued" /\ handler[h].run = None
    /\ events' = MyEvents(h)
    /\ Respond(h)
    /\ UNCHANGED <<cursor, runVars>>

\* A pending run was found: this event joins it, and dispatches it for its
\* trigger event when no dispatch is under way.
JoinPending(h) ==
    LET d == handler[h].d
        r == handler[h].run
        own == handler[h].offer /\ trigger[r] = d
    IN  /\ Recording(h)
        /\ r # None
        /\ status[r] # "cancelled"
        /\ events' = IF own THEN Settle(MyEvents(h), d, "queued", "queued", r)
                     ELSE Settle(MyEvents(h), d, "duplicate_head", "completed", r)
        /\ cursor' = IF own THEN d ELSE cursor
        /\ IF handler[h].offer THEN Dispatching(h, r) ELSE Respond(h)
        /\ UNCHANGED runVars

\* The pending manual run was cancelled meanwhile: the foreign key of the event
\* fails and the transaction rolls back.
JoinCancelled(h) ==
    /\ Recording(h)
    /\ handler[h].run # None /\ status[handler[h].run] = "cancelled"
    /\ Respond(h)
    /\ UNCHANGED <<events, cursor, runVars>>

\* _create_or_replace_blocked_sync_run when no run is blocked yet.
CreateBlocked(h) ==
    LET d == handler[h].d
    IN  /\ Recording(h)
        /\ handler[h].decision = "queued" /\ handler[h].run = None
        /\ handler[h].running
        /\ WithStatus({"blocked"}) = {}
        /\ \E r \in Runs :
            /\ CreateRun(r, "blocked", d)
            /\ events' = Settle(MyEvents(h), d, "queued", "validated", r)
        /\ cursor' = d
        /\ Respond(h)

\* _create_or_replace_blocked_sync_run when one is: its trigger event is retired
\* and this one takes its place.
ReplaceBlocked(h) ==
    LET d == handler[h].d
    IN  /\ Recording(h)
        /\ handler[h].decision = "queued" /\ handler[h].run = None
        /\ handler[h].running
        /\ \E r \in WithStatus({"blocked"}) :
            LET previous == trigger[r]
                retired == IF previous \in {None, d} THEN MyEvents(h)
                           ELSE Settle(MyEvents(h), previous, "duplicate_head",
                                       "completed", r)
            IN  /\ previous \notin {None, d} => ~RowLockedByOther(previous, h)
                /\ trigger' = [trigger EXCEPT ![r] = d]
                /\ dispatch' = [dispatch EXCEPT ![r] = "none"]
                /\ events' = Settle(retired, d, "queued", "validated", r)
        /\ cursor' = d
        /\ Respond(h)
        /\ UNCHANGED <<status, started>>

\* _create_sync_run_or_get_active, when the unique index lets the insert pass.
CreatePending(h) ==
    LET d == handler[h].d
    IN  /\ Recording(h)
        /\ handler[h].decision = "queued" /\ handler[h].run = None
        /\ ~handler[h].running
        /\ ActiveRuns = {}
        /\ \E r \in Runs :
            /\ CreateRun(r, "pending", d)
            /\ events' = Settle(MyEvents(h), d, "queued", "queued", r)
            /\ Dispatching(h, r)
        /\ cursor' = d

\* ... and when it does not: the event joins the run that is there.
JoinConcurrent(h) ==
    LET d == handler[h].d
    IN  /\ Recording(h)
        /\ handler[h].decision = "queued" /\ handler[h].run = None
        /\ ~handler[h].running
        /\ \E r \in ActiveRuns :
            events' = Settle(MyEvents(h), d, "duplicate_head", "completed", r)
        /\ Respond(h)
        /\ UNCHANGED <<cursor, runVars>>

Record(h) ==
    \/ LoseInsert(h) \/ RecordOnly(h) \/ JoinPending(h) \/ JoinCancelled(h)
    \/ CreateBlocked(h) \/ ReplaceBlocked(h) \/ CreatePending(h)
    \/ JoinConcurrent(h)

(***************************************************************************)
(* After the commit.                                                       *)
(***************************************************************************)
Claim(h) ==
    /\ handler[h].pc = "claim"
    /\ ~RunLocked(handler[h].run)
    /\ \/ /\ ClaimDispatch(handler[h].run)
          /\ Goto(h, "send")
       \/ /\ ~DispatchDue(handler[h].run)
          /\ Respond(h)
          /\ UNCHANGED dispatch
    /\ UNCHANGED <<remote, events, cursor, status, trigger, started, snapshot,
                   queue, arrivals, incidents>>

SendTask(h) ==
    /\ handler[h].pc = "send"
    /\ Send(handler[h].run)
    /\ Respond(h)
    /\ UNCHANGED <<remote, dbVars, arrivals, incidents>>

\* send_task raises, before or after the broker has taken the message; or the
\* claim raises, or no queue is configured, before there was a claim.
SendTaskFails(h) ==
    /\ \/ /\ handler[h].pc = "send"
          /\ Send(handler[h].run) \/ UNCHANGED queue
       \/ /\ handler[h].pc = "claim"
          /\ UNCHANGED queue
    /\ Happens("sendError")
    /\ Goto(h, "undo")
    /\ UNCHANGED <<remote, dbVars, arrivals>>

\* Mutation of Undo: the event is failed instead of made ready for a retry.
UndoGivesUp(h) ==
    /\ handler[h].pc = "undo"
    /\ events' = Settle(events, trigger[handler[h].run], "queued", "failed",
                        handler[h].run)
    /\ Respond(h)
    /\ UNCHANGED <<remote, cursor, runVars, snapshot, queue, arrivals, incidents>>

\* record_webhook_enqueue_failure reads the event, ...
ReadUndone(h) ==
    /\ handler[h].pc = "undo" /\ handler[h].loaded = NoEvent
    /\ \E d \in Deliveries :
        /\ d = trigger[handler[h].run]
        /\ handler' = [handler EXCEPT ![h].loaded = events[d]]
    /\ UNCHANGED tableVars

\* ... and writes it back when its row and the run's are free.
Undo(h) ==
    LET r == handler[h].run
    IN  /\ handler[h].pc = "undo" /\ handler[h].loaded # NoEvent
        /\ ~RunLocked(r) /\ ~RowLocked(trigger[r])
        /\ dispatch' = [dispatch EXCEPT ![r] = "none"]
        /\ events' = WriteBack(events, trigger[r], handler[h].loaded, "queued", r)
        /\ Respond(h)
        /\ UNCHANGED <<remote, cursor, status, trigger, started, snapshot, queue,
                       arrivals, incidents>>

\* The API process dies, or the request's transaction is rolled back: nothing
\* uncommitted survives and nobody resumes the request.
CrashHandler(h) ==
    /\ handler[h].pc # "idle"
    /\ Happens("handlerCrash")
    /\ Respond(h)
    /\ UNCHANGED <<remote, dbVars, queue, arrivals>>

HandlerStep(h) ==
    \/ Decide(h) \/ Record(h) \/ Claim(h) \/ SendTask(h)
    \/ ReadUndone(h) \/ Undo(h)

IntakeNext ==
    \E h \in Handlers :
        \/ \E d \in Deliveries : Receive(h, d)
        \/ HandlerStep(h)
        \/ SendTaskFails(h)
        \/ CrashHandler(h)
===============================================================================
