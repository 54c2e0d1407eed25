----------------------------- MODULE WebhookSecrets -----------------------------
(***************************************************************************)
(* The webhook secrets of one GitLab connection: operators who rotate them *)
(* and handlers that check a delivery's token twice, before and after its  *)
(* body is read (a GitHub handler checks once).  A secret is its number in *)
(* the order in which the rotations committed; NoSecret is any other text. *)
(* Time is counted in fractions of the grace period.                       *)
(***************************************************************************)
EXTENDS Integers

CONSTANTS Handlers, Operators, Deliveries,
          Grace,      \* WEBHOOK_SECRET_GRACE_PERIOD
          Lag,        \* how long a rotation may wait for the connection's row
          MaxSecrets, MaxTime,
          None

ASSUME GraceAssumption == Grace \in Nat /\ Lag \in Nat /\ Lag <= Grace
ASSUME BoundAssumption == MaxSecrets \in Nat /\ MaxTime \in Nat
ASSUME NoneAssumption == None \notin Nat

VARIABLES
    now,
    issued,   \* how many revisions there are
    secret,   \* the revisions
    pointer,  \* active_webhook_secret_revision_id
    events,   \* what repository_events says of the verification of a delivery
    rotation, \* when an operator's request started, None without one
    handler

vars == <<now, issued, secret, pointer, events, rotation, handler>>

Secrets == 1 .. MaxSecrets
NoSecret == 0
Times == 0 .. MaxTime

SecretStatus == {"none", "active", "previous_grace", "revoked"}
Revision == [status : SecretStatus, until : Nat \cup {None}, created : Nat]
Event == [secret : Nat, status : SecretStatus, received : Nat]
NoEvent == [secret |-> NoSecret, status |-> "none", received |-> 0]

Steps == {"idle", "preflight", "body", "verify", "lock", "write", "refused"}
Handler == [pc : Steps, d : Deliveries \cup {None}, token : Nat, at : Nat,
            match : SecretStatus, found : BOOLEAN]
Idle == [pc |-> "idle", d |-> None, token |-> NoSecret, at |-> 0,
         match |-> "none", found |-> FALSE]

TypeOK ==
    /\ now \in Times
    /\ issued \in 0 .. MaxSecrets
    /\ secret \in [Secrets -> Revision]
    /\ pointer \in Secrets \cup {None}
    /\ events \in [Deliveries -> Event]
    /\ rotation \in [Operators -> Times \cup {None}]
    /\ handler \in [Handlers -> Handler]

\* A connection starts without a secret.
Init ==
    /\ now = 0
    /\ issued = 0
    /\ secret = [s \in Secrets |-> [status |-> "none", until |-> None, created |-> 0]]
    /\ pointer = None
    /\ events = [d \in Deliveries |-> NoEvent]
    /\ rotation = [p \in Operators |-> None]
    /\ handler = [h \in Handlers |-> Idle]

Goto(h, step) == handler' = [handler EXCEPT ![h].pc = step]

(***************************************************************************)
(* Rotation.                                                               *)
(***************************************************************************)
\* The time of a rotation is taken before the connection's row is locked.
StartRotation(p) ==
    /\ rotation[p] = None
    /\ issued < MaxSecrets
    /\ rotation' = [rotation EXCEPT ![p] = now]
    /\ UNCHANGED <<now, issued, secret, pointer, events, handler>>

\* Mutation of Demoted: the previous secret is left to expire.
DemotedOnly(revision, at) ==
    IF revision.status = "active"
    THEN [revision EXCEPT !.status = "previous_grace", !.until = at + Grace]
    ELSE revision

\* What becomes of an older revision: the previous one is revoked, then the active one
\* takes its place.
Demoted(revision, at) ==
    CASE revision.status = "previous_grace" ->
            [revision EXCEPT !.status = "revoked", !.until = None]
      [] revision.status = "active" ->
            [revision EXCEPT !.status = "previous_grace", !.until = at + Grace]
      [] OTHER -> revision

\* One transaction, from get_for_update to the commit.
Rotate(p) ==
    /\ rotation[p] # None
    /\ issued < MaxSecrets
    /\ issued' = issued + 1
    /\ secret' = [s \in Secrets |->
            IF s = issued + 1
            THEN [status |-> "active", until |-> None, created |-> rotation[p]]
            ELSE Demoted(secret[s], rotation[p])]
    /\ pointer' = issued + 1
    /\ rotation' = [rotation EXCEPT ![p] = None]
    /\ UNCHANGED <<now, events, handler>>

(***************************************************************************)
(* Deliveries.                                                             *)
(***************************************************************************)
\* Mutation of Candidates: whatever has not been revoked.
CandidatesUnexpired(as_of) ==
    {s \in Secrets : secret[s].status \in {"active", "previous_grace"}}

\* The revisions that a token is compared with.
Candidates(as_of) ==
    {s \in Secrets : \/ secret[s].status = "active"
                     \/ secret[s].status = "previous_grace" /\ secret[s].until >= as_of}

\* A delivery, new or seen before, with the token that the provider is configured with
\* or another one.
Arrive(h, d, token) ==
    /\ handler[h].pc = "idle"
    /\ token <= issued
    /\ handler' = [handler EXCEPT ![h] =
            [pc |-> "preflight", d |-> d, token |-> token, at |-> now,
             match |-> "none", found |-> FALSE]]
    /\ UNCHANGED <<now, issued, secret, pointer, events, rotation>>

\* A delivery that is refused has been recorded as rejected, but the exception that
\* reports it leaves the session's scope, which takes the record back.
Checked(h, next, match) ==
    IF handler[h].token \in Candidates(handler[h].at)
    THEN handler' = [handler EXCEPT ![h].pc = next, ![h].match = match]
    ELSE Goto(h, "refused")

Preflight(h) ==
    /\ handler[h].pc = "preflight"
    /\ Checked(h, "body", "none")
    /\ UNCHANGED <<now, issued, secret, pointer, events, rotation>>

\* The body is read, which takes time; a malformed one ends the request.
ReadBody(h) ==
    /\ handler[h].pc = "body"
    /\ \/ handler' = [handler EXCEPT ![h].pc = "verify", ![h].at = now]
       \/ handler' = [handler EXCEPT ![h] = Idle]
    /\ UNCHANGED <<now, issued, secret, pointer, events, rotation>>

Verify(h) ==
    /\ handler[h].pc = "verify"
    /\ Checked(h, "lock", secret[handler[h].token].status)
    /\ UNCHANGED <<now, issued, secret, pointer, events, rotation>>

Refuse(h) ==
    /\ handler[h].pc = "refused"
    /\ handler' = [handler EXCEPT ![h] = Idle]
    /\ UNCHANGED <<now, issued, secret, pointer, events, rotation>>

\* A payload that cannot be parsed or is another repository's ends the request; the row
\* that is created for the latter is taken back in the same way.
RejectPayload(h) ==
    /\ handler[h].pc = "lock"
    /\ handler' = [handler EXCEPT ![h] = Idle]
    /\ UNCHANGED <<now, issued, secret, pointer, events, rotation>>

\* The provider's head is resolved, then the delivery's row is locked if there is one.
LockDelivery(h) ==
    /\ handler[h].pc = "lock"
    /\ ~\E k \in Handlers : /\ handler[k].pc = "write"
                            /\ handler[k].found
                            /\ handler[k].d = handler[h].d
    /\ handler' = [handler EXCEPT ![h].pc = "write",
                                  ![h].found = events[handler[h].d] # NoEvent]
    /\ UNCHANGED <<now, issued, secret, pointer, events, rotation>>

Verified(h) == [secret |-> handler[h].token, status |-> handler[h].match,
                received |-> handler[h].at]

\* Mutation of Recorded: a retried delivery keeps the secret of its first attempt.
RecordedOnce(h, event, retryable) ==
    IF handler[h].found /\ retryable
    THEN [event EXCEPT !.received = handler[h].at]
    ELSE IF event = NoEvent THEN Verified(h) ELSE event

\* A row is created if there is none yet, also when another handler has been faster
\* since the row was looked for, and rewritten only for a retryable delivery (which
\* depends on its sync run: SyncTables).
Recorded(h, event, retryable) ==
    IF event = NoEvent \/ (handler[h].found /\ retryable) THEN Verified(h) ELSE event

Record(h) ==
    /\ handler[h].pc = "write"
    /\ \E retryable \in BOOLEAN :
          events' = [events EXCEPT ![handler[h].d] = Recorded(h, @, retryable)]
    /\ handler' = [handler EXCEPT ![h] = Idle]
    /\ UNCHANGED <<now, issued, secret, pointer, rotation>>

\* A rotation does not wait longer than Lag.
Tick ==
    /\ now < MaxTime
    /\ \A p \in Operators : rotation[p] # None => now < rotation[p] + Lag
    /\ now' = now + 1
    /\ UNCHANGED <<issued, secret, pointer, events, rotation, handler>>

OperatorStep(p) == StartRotation(p) \/ Rotate(p)

HandlerStep(h) ==
    \/ \E d \in Deliveries, token \in 0 .. MaxSecrets : Arrive(h, d, token)
    \/ Preflight(h) \/ ReadBody(h) \/ Verify(h) \/ Refuse(h)
    \/ RejectPayload(h) \/ LockDelivery(h) \/ Record(h)

Next == Tick \/ (\E p \in Operators : OperatorStep(p)) \/ (\E h \in Handlers : HandlerStep(h))

Spec == Init /\ [][Next]_vars

(***************************************************************************)
(* Properties.                                                             *)
(***************************************************************************)
\* The newest secret, and the one before it until a grace period after the rotation.
InForce(s, t) ==
    \/ s # NoSecret /\ s = issued
    \/ s # NoSecret /\ s = issued - 1 /\ t <= secret[issued].created + Grace

Checking(h) == handler[h].pc \in {"preflight", "verify"} /\ handler'[h] # handler[h]

\* A rotation that commits while the request is being received.
Overtaken(h) ==
    handler[h].pc # "idle" /\ handler[h].token = issued /\ issued # 0 /\ issued' # issued

\* A check accepts exactly the newest secret and, for requests received within a grace
\* period of the rotation, the one before it.  It goes by the revisions that it reads and
\* not by those at the reception: a rotation in between leaves the requests under the
\* secret that it replaces acceptable, however long it has waited for the row, and revokes
\* the one before for all (rotate_webhook_secret, list_verification_candidates).
AcceptedIffInForce ==
    [][\A h \in Handlers :
          /\ Checking(h) =>
                ((handler'[h].pc # "refused") <=> InForce(handler[h].token, handler[h].at))
          /\ Overtaken(h) => InForce(handler[h].token, handler[h].at)']_vars

\* An event names a secret that had not expired when the delivery that it describes was
\* received, whatever was redelivered or retried since, and says "previous_grace" only of
\* a secret that had been replaced (process_gitlab_event's two ways to write the row).
\* The secret may have been revoked since the check, by a rotation before the row is
\* written: the row then still says what the check has found.
EventsNameTheirSecret ==
    \A d \in Deliveries : LET e == events[d] IN e # NoEvent =>
        /\ e.secret \in 1 .. issued
        /\ e.secret < issued => e.received <= secret[e.secret + 1].created + Grace
        /\ e.status = "previous_grace" => e.secret < issued

\* A delivery that is refused is in the event history (_record_rejected_event).
RefusalRecorded ==
    \A h \in Handlers : handler[h].pc = "refused" => events[handler[h].d] # NoEvent

\* What the revisions look like after any sequence of rotations, and what a handler and
\* the events may rely on.
SecretsInv ==
    /\ TypeOK
    /\ \A s \in Secrets : secret[s].status =
            CASE s > issued -> "none"
              [] s = issued -> "active"
              [] s = issued - 1 -> "previous_grace"
              [] OTHER -> "revoked"
    /\ issued > 1 => secret[issued - 1].until = secret[issued].created + Grace
    /\ pointer = IF issued = 0 THEN None ELSE issued
    /\ \A s \in Secrets : s <= issued => secret[s].created <= now
    /\ \A p \in Operators : rotation[p] # None =>
            rotation[p] <= now /\ now <= rotation[p] + Lag
    /\ \A h \in Handlers : LET l == handler[h] IN
            /\ l.token <= issued /\ l.at <= now
            /\ l.pc # "idle" => l.d \in Deliveries
            /\ l.pc \in {"lock", "write"} =>
                  /\ l.token # NoSecret
                  /\ l.token < issued => l.at <= secret[l.token + 1].created + Grace
                  /\ l.match = "previous_grace" => l.token < issued
    /\ \A d \in Deliveries : events[d].received <= now
    /\ EventsNameTheirSecret
===============================================================================
