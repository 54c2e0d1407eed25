-------------------------- MODULE WebhookSecretsProofs --------------------------
(***************************************************************************)
(* Rotations keep one active and one previous secret, and a check accepts  *)
(* exactly the secrets in force, for any number of handlers, operators and *)
(* rotations.                                                              *)
(***************************************************************************)
EXTENDS WebhookSecrets, TLAPS

\* A check compares the token with the secrets in force.
LEMMA CandidatesInForce ==
    ASSUME SecretsInv, NEW t \in Nat, NEW at \in Nat
    PROVE  t \in Candidates(at) <=> InForce(t, at)
<1>. USE BoundAssumption, GraceAssumption, NoneAssumption
<1>1. CASE t \in Secrets
  BY <1>1 DEF SecretsInv, TypeOK, Secrets, Revision, Candidates, InForce, NoSecret
<1>2. CASE t \notin Secrets
  BY <1>2 DEF SecretsInv, TypeOK, Secrets, Candidates, InForce, NoSecret
<1>. QED BY <1>1, <1>2

\* What a rotation makes of an older revision.
LEMMA Demotion ==
    ASSUME NEW r \in Revision, NEW at \in Nat
    PROVE  /\ Demoted(r, at) \in Revision
           /\ Demoted(r, at).created = r.created
           /\ r.status = "none" => Demoted(r, at).status = "none"
           /\ r.status = "active" => /\ Demoted(r, at).status = "previous_grace"
                                     /\ Demoted(r, at).until = at + Grace
           /\ r.status \in {"previous_grace", "revoked"} =>
                 Demoted(r, at).status = "revoked"
<1>. USE GraceAssumption
<1>1. CASE r.status = "active"
  <2>1. Demoted(r, at) = [r EXCEPT !.status = "previous_grace", !.until = at + Grace]
    BY <1>1 DEF Demoted
  <2>2. at + Grace \in Nat
    OBVIOUS
  <2>3. Demoted(r, at) = [status |-> "previous_grace", until |-> at + Grace,
                          created |-> r.created]
    BY <2>1 DEF Revision
  <2>4. r.created \in Nat
    BY DEF Revision
  <2>5. Demoted(r, at) \in Revision
    BY <2>2, <2>3, <2>4 DEF Revision, SecretStatus
  <2>. QED BY <1>1, <2>3, <2>5
<1>2. CASE r.status = "previous_grace"
  <2>1. Demoted(r, at) = [r EXCEPT !.status = "revoked", !.until = None]
    BY <1>2 DEF Demoted
  <2>. QED BY <1>2, <2>1 DEF Revision, SecretStatus
<1>3. CASE r.status \in {"none", "revoked"}
  <2>1. Demoted(r, at) = r
    BY <1>3 DEF Demoted
  <2>. QED BY <1>3, <2>1
<1>. QED BY <1>1, <1>2, <1>3 DEF Revision, SecretStatus

\* Everything starts without secrets.
LEMMA SecretsInit == Init => SecretsInv
<1>. USE BoundAssumption, GraceAssumption, NoneAssumption
<1>. SUFFICES ASSUME Init PROVE SecretsInv
  OBVIOUS
<1>1. TypeOK
  BY DEF Init, TypeOK, Times, Secrets, Revision, SecretStatus, Event, NoEvent, NoSecret,
         Handler, Idle, Steps
<1>2. EventsNameTheirSecret
  BY DEF Init, EventsNameTheirSecret
<1>. QED BY <1>1, <1>2 DEF Init, SecretsInv, Secrets, Idle, NoEvent, NoSecret

\* A rotation moves every revision one place on: each of the later conjuncts is about
\* the revision after a secret, which for the newest one appears now.
LEMMA RotateKeeps ==
    ASSUME SecretsInv, NEW p \in Operators, Rotate(p)
    PROVE  SecretsInv'
<1>. USE BoundAssumption, GraceAssumption, NoneAssumption
<1>. DEFINE new == issued + 1
<1>1. /\ TypeOK /\ issued \in Nat /\ new \in Secrets /\ now \in Nat
      /\ rotation[p] \in Nat /\ rotation[p] <= now /\ now <= rotation[p] + Lag
      /\ issued' = new /\ now' = now /\ handler' = handler /\ events' = events
  BY DEF SecretsInv, TypeOK, Rotate, Secrets, Times
<1>2. \A s \in Secrets : secret'[s] =
          IF s = new
          THEN [status |-> "active", until |-> None, created |-> rotation[p]]
          ELSE Demoted(secret[s], rotation[p])
  BY DEF Rotate
<1>3. \A s \in Secrets \ {new} :
          /\ Demoted(secret[s], rotation[p]) \in Revision
          /\ Demoted(secret[s], rotation[p]).created = secret[s].created
  BY <1>1, Demotion DEF TypeOK
<1>4. TypeOK'
  <2>1. secret' \in [Secrets -> Revision]
    BY <1>1, <1>2, <1>3 DEF Rotate, Revision, SecretStatus
  <2>. QED BY <1>1, <2>1 DEF TypeOK, Rotate, Secrets
<1>5. \A s \in Secrets : secret'[s].status =
          CASE s > new -> "none"
            [] s = new -> "active"
            [] s = new - 1 -> "previous_grace"
            [] OTHER -> "revoked"
  <2>. SUFFICES ASSUME NEW s \in Secrets
                PROVE  secret'[s].status = CASE s > new -> "none"
                                             [] s = new -> "active"
                                             [] s = new - 1 -> "previous_grace"
                                             [] OTHER -> "revoked"
    OBVIOUS
  <2>0. secret[s] \in Revision
    BY <1>1 DEF TypeOK
  <2>1. CASE s = new
    BY <1>1, <1>2, <2>1
  <2>2. CASE s > new
    <3>1. secret[s].status = "none"
      BY <1>1, <2>2 DEF SecretsInv, Secrets
    <3>2. Demoted(secret[s], rotation[p]).status = "none"
      BY <1>1, <2>0, <3>1, Demotion
    <3>. QED BY <1>1, <1>2, <2>2, <3>2 DEF Secrets
  <2>3. CASE s = issued
    <3>1. secret[s].status = "active"
      BY <1>1, <2>3 DEF SecretsInv, Secrets
    <3>2. Demoted(secret[s], rotation[p]).status = "previous_grace"
      BY <1>1, <2>0, <3>1, Demotion
    <3>. QED BY <1>1, <1>2, <2>3, <3>2 DEF Secrets
  <2>4. CASE s < issued
    <3>1. secret[s].status \in {"previous_grace", "revoked"}
      BY <1>1, <2>4 DEF SecretsInv, Secrets
    <3>2. Demoted(secret[s], rotation[p]).status = "revoked"
      BY <1>1, <2>0, <3>1, Demotion
    <3>. QED BY <1>1, <1>2, <2>4, <3>2 DEF Secrets
  <2>. QED BY <1>1, <2>1, <2>2, <2>3, <2>4 DEF Secrets
<1>6. new > 1 => secret'[new - 1].until = secret'[new].created + Grace
  <2>. SUFFICES ASSUME new > 1
                PROVE  secret'[new - 1].until = secret'[new].created + Grace
    OBVIOUS
  <2>1. issued \in Secrets /\ new - 1 = issued /\ issued # new
    BY <1>1 DEF Secrets
  <2>2. secret[issued] \in Revision /\ secret[issued].status = "active"
    BY <1>1, <2>1 DEF SecretsInv, TypeOK, Secrets
  <2>3. Demoted(secret[issued], rotation[p]).until = rotation[p] + Grace
    BY <1>1, <2>2, Demotion
  <2>4. secret'[new].created = rotation[p]
    BY <1>1, <1>2
  <2>5. secret'[issued] = Demoted(secret[issued], rotation[p])
    BY <1>2, <2>1
  <2>. QED BY <2>1, <2>3, <2>4, <2>5
<1>7. \A s \in Secrets : s <= issued => secret'[s].created = secret[s].created
  BY <1>1, <1>2, <1>3 DEF Secrets
<1>8. secret'[new].created = rotation[p]
  BY <1>1, <1>2
<1>9. \A s, t \in Nat : (0 < s /\ s < new /\ t <= now
                           /\ (s < issued => t <= secret[s + 1].created + Grace))
                        => t <= secret'[s + 1].created + Grace
  <2>. SUFFICES ASSUME NEW s \in Nat, NEW t \in Nat, 0 < s, s < new, t <= now,
                       s < issued => t <= secret[s + 1].created + Grace
                PROVE  t <= secret'[s + 1].created + Grace
    OBVIOUS
  <2>1. CASE s = issued
    BY <1>1, <1>8, <2>1
  <2>2. CASE s < issued
    <3>1. s + 1 \in Secrets /\ s + 1 <= issued
      BY <1>1, <2>2 DEF Secrets
    <3>. QED BY <1>7, <2>2, <3>1
  <2>. QED BY <1>1, <2>1, <2>2
<1>10. \A s \in Secrets : s <= new => secret'[s].created <= now
  <2>1. \A s \in Secrets : s <= new => (s = new \/ s <= issued)
    BY <1>1 DEF Secrets
  <2>. QED BY <1>1, <1>7, <1>8, <2>1 DEF SecretsInv
<1>11. \A q \in Operators : rotation'[q] # None =>
            rotation'[q] <= now /\ now <= rotation'[q] + Lag
  BY <1>1 DEF SecretsInv, TypeOK, Rotate
<1>12. EventsNameTheirSecret'
  <2>. SUFFICES ASSUME NEW d \in Deliveries, events[d] # NoEvent
                PROVE  /\ events[d].secret \in 1 .. new
                       /\ events[d].secret < new =>
                             events[d].received <= secret'[events[d].secret + 1].created + Grace
                       /\ events[d].status = "previous_grace" => events[d].secret < new
    BY <1>1 DEF EventsNameTheirSecret
  <2>1. /\ events[d].secret \in 1 .. issued
        /\ events[d].secret < issued =>
              events[d].received <= secret[events[d].secret + 1].created + Grace
        /\ events[d].received \in Nat /\ events[d].received <= now
    BY <1>1 DEF SecretsInv, EventsNameTheirSecret, TypeOK, Event
  <2>2. events[d].received <= secret'[events[d].secret + 1].created + Grace
    BY <1>1, <1>9, <2>1
  <2>. QED BY <1>1, <2>1, <2>2
<1>13. \A h \in Handlers : LET l == handler[h] IN
            /\ l.token <= new /\ l.at <= now
            /\ l.pc # "idle" => l.d \in Deliveries
            /\ l.pc \in {"lock", "write"} =>
                  /\ l.token # NoSecret
                  /\ l.token < new => l.at <= secret'[l.token + 1].created + Grace
                  /\ l.match = "previous_grace" => l.token < new
  <2>. SUFFICES ASSUME NEW h \in Handlers
                PROVE  /\ handler[h].token <= new /\ handler[h].at <= now
                       /\ handler[h].pc # "idle" => handler[h].d \in Deliveries
                       /\ handler[h].pc \in {"lock", "write"} =>
                            /\ handler[h].token # NoSecret
                            /\ handler[h].token < new =>
                                 handler[h].at <= secret'[handler[h].token + 1].created + Grace
                            /\ handler[h].match = "previous_grace" => handler[h].token < new
    OBVIOUS
  <2>1. /\ handler[h].token \in Nat /\ handler[h].at \in Nat
        /\ handler[h].token <= issued /\ handler[h].at <= now
        /\ handler[h].pc # "idle" => handler[h].d \in Deliveries
    BY <1>1 DEF SecretsInv, TypeOK, Handler
  <2>2. handler[h].pc \in {"lock", "write"} =>
            /\ handler[h].token # NoSecret
            /\ handler[h].token < issued =>
                  handler[h].at <= secret[handler[h].token + 1].created + Grace
    BY DEF SecretsInv
  <2>3. handler[h].pc \in {"lock", "write"} =>
            handler[h].at <= secret'[handler[h].token + 1].created + Grace
    BY <1>1, <1>9, <2>1, <2>2 DEF NoSecret
  <2>. QED BY <1>1, <2>1, <2>2, <2>3
<1>14. pointer' = new /\ new # 0
  BY <1>1 DEF Rotate
<1>15. \A d \in Deliveries : events[d].received <= now
  BY DEF SecretsInv
<1>. QED
  BY <1>1, <1>4, <1>5, <1>6, <1>10, <1>11, <1>12, <1>13, <1>14, <1>15 DEF SecretsInv

\* A step of a handler leaves the revisions alone; what it learns about its own token is
\* what a check has found.
LEMMA CheckKeeps ==
    ASSUME SecretsInv, NEW h \in Handlers, Preflight(h) \/ Verify(h)
    PROVE  SecretsInv'
<1>. USE BoundAssumption, GraceAssumption, NoneAssumption
<1>1. /\ TypeOK /\ handler[h] \in Handler
      /\ UNCHANGED <<now, issued, secret, pointer, events, rotation>>
  BY DEF SecretsInv, TypeOK, Preflight, Verify
<1>. DEFINE l == handler[h]
<1>2. /\ l.token \in Nat /\ l.at \in Nat /\ l.token <= issued /\ l.at <= now
      /\ l.d \in Deliveries
  BY <1>1 DEF SecretsInv, Handler, Preflight, Verify
<1>3. l.token \in Candidates(l.at) =>
          /\ l.token \in Secrets
          /\ l.token # NoSecret
          /\ l.token < issued => l.at <= secret[l.token + 1].created + Grace
          /\ secret[l.token].status \in SecretStatus
          /\ secret[l.token].status = "previous_grace" => l.token < issued
  <2>. SUFFICES ASSUME l.token \in Candidates(l.at)
                PROVE  /\ l.token \in Secrets
                       /\ l.token # NoSecret
                       /\ l.token < issued => l.at <= secret[l.token + 1].created + Grace
                       /\ secret[l.token].status \in SecretStatus
                       /\ secret[l.token].status = "previous_grace" => l.token < issued
    OBVIOUS
  <2>1. InForce(l.token, l.at) /\ l.token \in Secrets
    BY <1>2, CandidatesInForce DEF Candidates
  <2>2. l.token < issued => l.at <= secret[l.token + 1].created + Grace
    BY <1>1, <1>2, <2>1 DEF InForce, TypeOK
  <2>3. secret[l.token].status \in SecretStatus
    BY <1>1, <2>1 DEF TypeOK, Revision
  <2>4. secret[l.token].status = "previous_grace" => l.token < issued
    BY <1>1, <1>2, <2>1 DEF SecretsInv, TypeOK, Secrets
  <2>. QED BY <2>1, <2>2, <2>3, <2>4 DEF InForce
<1>4. /\ handler' \in [Handlers -> Handler]
      /\ \A k \in Handlers \ {h} : handler'[k] = handler[k]
      /\ handler'[h].token = l.token /\ handler'[h].at = l.at /\ handler'[h].d = l.d
      /\ handler'[h].pc \in {"lock", "write"} =>
            l.token \in Candidates(l.at) /\ handler'[h].match = secret[l.token].status
  BY <1>1, <1>3 DEF TypeOK, Preflight, Verify, Checked, Goto, Handler, Steps, SecretStatus
<1>5. \A k \in Handlers : LET m == handler'[k] IN
            /\ m.token <= issued /\ m.at <= now
            /\ m.pc # "idle" => m.d \in Deliveries
            /\ m.pc \in {"lock", "write"} =>
                  /\ m.token # NoSecret
                  /\ m.token < issued => m.at <= secret[m.token + 1].created + Grace
                  /\ m.match = "previous_grace" => m.token < issued
  BY <1>2, <1>3, <1>4 DEF SecretsInv
<1>6. TypeOK' /\ EventsNameTheirSecret'
  BY <1>1, <1>4 DEF SecretsInv, TypeOK, EventsNameTheirSecret
<1>. QED BY <1>1, <1>5, <1>6 DEF SecretsInv

\* The row that is written describes the request that writes it, or the one before.
LEMMA RecordKeeps ==
    ASSUME SecretsInv, NEW h \in Handlers, Record(h)
    PROVE  SecretsInv'
<1>. USE BoundAssumption, GraceAssumption, NoneAssumption
<1>1. /\ TypeOK /\ handler[h] \in Handler
      /\ UNCHANGED <<now, issued, secret, pointer, rotation>>
  BY DEF SecretsInv, TypeOK, Record
<1>2. /\ Verified(h) \in Event /\ Verified(h).received <= now
      /\ Verified(h).secret \in 1 .. issued
      /\ Verified(h).secret < issued =>
            Verified(h).received <= secret[Verified(h).secret + 1].created + Grace
      /\ Verified(h).status = "previous_grace" => Verified(h).secret < issued
  BY <1>1 DEF SecretsInv, TypeOK, Record, Verified, Event, Handler, NoSecret
<1>3. \A d \in Deliveries : events'[d] \in {events[d], Verified(h)}
  BY <1>1 DEF TypeOK, Record, Recorded
<1>4. events' \in [Deliveries -> Event]
  BY <1>1, <1>2, <1>3 DEF TypeOK, Record
<1>5. EventsNameTheirSecret'
  BY <1>1, <1>2, <1>3 DEF SecretsInv, EventsNameTheirSecret
<1>6. \A d \in Deliveries : events'[d].received <= now
  BY <1>2, <1>3 DEF SecretsInv
<1>7. /\ handler' \in [Handlers -> Handler]
      /\ \A k \in Handlers : handler'[k] \in {handler[k], Idle}
  BY <1>1 DEF TypeOK, Record, Handler, Idle, Steps, SecretStatus, NoSecret
<1>8. \A k \in Handlers : LET m == handler'[k] IN
            /\ m.token <= issued /\ m.at <= now
            /\ m.pc # "idle" => m.d \in Deliveries
            /\ m.pc \in {"lock", "write"} =>
                  /\ m.token # NoSecret
                  /\ m.token < issued => m.at <= secret[m.token + 1].created + Grace
                  /\ m.match = "previous_grace" => m.token < issued
  BY <1>1, <1>7 DEF SecretsInv, TypeOK, Idle, NoSecret, Times
<1>9. TypeOK'
  BY <1>1, <1>4, <1>7 DEF TypeOK
<1>. QED BY <1>1, <1>5, <1>6, <1>8, <1>9 DEF SecretsInv

\* The other steps of a handler.
LEMMA RequestKeeps ==
    ASSUME SecretsInv, NEW h \in Handlers,
           \/ \E d \in Deliveries, token \in 0 .. MaxSecrets : Arrive(h, d, token)
           \/ ReadBody(h) \/ Refuse(h) \/ RejectPayload(h) \/ LockDelivery(h)
    PROVE  SecretsInv'
<1>. USE BoundAssumption, GraceAssumption, NoneAssumption
<1>1. /\ TypeOK /\ handler[h] \in Handler /\ now \in Nat /\ issued \in Nat
      /\ UNCHANGED <<now, issued, secret, pointer, events, rotation>>
  <2>1. TypeOK /\ handler[h] \in Handler /\ now \in Nat /\ issued \in Nat
    BY DEF SecretsInv, TypeOK, Times
  <2>. QED BY <2>1 DEF Arrive, ReadBody, Refuse, RejectPayload, LockDelivery
<1>2. /\ handler' \in [Handlers -> Handler]
      /\ \A k \in Handlers \ {h} : handler'[k] = handler[k]
      /\ \/ handler'[h] = Idle
         \/ /\ handler'[h].pc \notin {"idle", "lock", "write"}
            /\ handler'[h].d \in Deliveries
            /\ handler'[h].token <= issued /\ handler'[h].at = now
         \/ /\ handler[h].pc = "lock"
            /\ handler'[h].d = handler[h].d
            /\ handler'[h].token = handler[h].token /\ handler'[h].at = handler[h].at
            /\ handler'[h].match = handler[h].match
  <2>1. CASE \E d \in Deliveries, token \in 0 .. MaxSecrets : Arrive(h, d, token)
    <3>1. PICK d \in Deliveries, token \in 0 .. MaxSecrets : Arrive(h, d, token)
      BY <2>1
    <3>. DEFINE new == [pc |-> "preflight", d |-> d, token |-> token, at |-> now,
                        match |-> "none", found |-> FALSE]
    <3>2. /\ new.pc = "preflight" /\ new.d = d /\ new.token = token /\ new.at = now
          /\ d \in Deliveries /\ token \in Nat
      OBVIOUS
    <3>3. new \in Handler /\ token <= issued
      BY <1>1, <3>1, <3>2 DEF Handler, Steps, SecretStatus, Arrive
    <3>4. handler' = [handler EXCEPT ![h] = new]
      BY <3>1 DEF Arrive
    <3>. HIDE DEF new
    <3>5. handler'[h] = new /\ handler' \in [Handlers -> Handler]
          /\ \A k \in Handlers \ {h} : handler'[k] = handler[k]
      BY <1>1, <3>3, <3>4 DEF TypeOK
    <3>. QED BY <3>2, <3>3, <3>5
  <2>2. CASE ReadBody(h)
    <3>1. CASE handler' = [handler EXCEPT ![h] = Idle]
      <4>1. Idle \in Handler
        BY DEF Handler, Idle, Steps, SecretStatus, NoSecret
      <4>. QED BY <1>1, <3>1, <4>1 DEF TypeOK
    <3>2. CASE handler' = [handler EXCEPT ![h].pc = "verify", ![h].at = now]
      <4>1. handler[h].pc = "body" /\ handler[h].token <= issued /\ handler[h].d \in Deliveries
        BY <1>1, <2>2 DEF SecretsInv, ReadBody
      <4>2. handler'[h] = [handler[h] EXCEPT !.pc = "verify", !.at = now]
        BY <1>1, <3>2 DEF TypeOK
      <4>3. handler'[h] \in Handler
        BY <1>1, <4>2 DEF Handler, Steps
      <4>4. handler' \in [Handlers -> Handler]
            /\ \A k \in Handlers \ {h} : handler'[k] = handler[k]
        BY <1>1, <3>2, <4>2, <4>3 DEF TypeOK
      <4>. QED BY <1>1, <4>1, <4>2, <4>4 DEF Handler
    <3>. QED BY <2>2, <3>1, <3>2 DEF ReadBody
  <2>3. CASE Refuse(h) \/ RejectPayload(h)
    <3>1. handler' = [handler EXCEPT ![h] = Idle]
      BY <2>3 DEF Refuse, RejectPayload
    <3>2. Idle \in Handler
      BY DEF Handler, Idle, Steps, SecretStatus, NoSecret
    <3>. QED BY <1>1, <3>1, <3>2 DEF TypeOK
  <2>4. CASE LockDelivery(h)
    BY <1>1, <2>4 DEF TypeOK, LockDelivery, Handler, Steps
  <2>. QED BY <2>1, <2>2, <2>3, <2>4
<1>3. \A k \in Handlers : LET m == handler'[k] IN
            /\ m.token <= issued /\ m.at <= now
            /\ m.pc # "idle" => m.d \in Deliveries
            /\ m.pc \in {"lock", "write"} =>
                  /\ m.token # NoSecret
                  /\ m.token < issued => m.at <= secret[m.token + 1].created + Grace
                  /\ m.match = "previous_grace" => m.token < issued
  BY <1>1, <1>2 DEF SecretsInv, Idle, NoSecret
<1>4. TypeOK' /\ EventsNameTheirSecret'
  BY <1>1, <1>2 DEF SecretsInv, TypeOK, EventsNameTheirSecret
<1>. QED BY <1>1, <1>3, <1>4 DEF SecretsInv

\* Time passes, and an operator's request starts.
LEMMA TimeKeeps ==
    ASSUME SecretsInv, Tick \/ \E p \in Operators : StartRotation(p)
    PROVE  SecretsInv'
<1>. USE BoundAssumption, GraceAssumption, NoneAssumption
<1>1. /\ TypeOK /\ now \in Nat /\ now' \in Times /\ now <= now'
      /\ UNCHANGED <<issued, secret, pointer, events, handler>>
  BY DEF SecretsInv, TypeOK, Times, Tick, StartRotation
<1>2. /\ rotation' \in [Operators -> Times \cup {None}]
      /\ \A p \in Operators : rotation'[p] # None =>
            rotation'[p] <= now' /\ now' <= rotation'[p] + Lag
  <2>1. CASE Tick
    BY <1>1, <2>1 DEF SecretsInv, TypeOK, Tick, Times
  <2>2. CASE \E p \in Operators : StartRotation(p)
    BY <1>1, <2>2 DEF SecretsInv, TypeOK, StartRotation, Times
  <2>. QED BY <2>1, <2>2
<1>3. \A s \in Secrets : s <= issued => secret[s].created <= now'
  BY <1>1 DEF SecretsInv, TypeOK, Revision, Times
<1>4. \A h \in Handlers : handler[h].at <= now'
  BY <1>1 DEF SecretsInv, TypeOK, Handler, Times
<1>5. \A d \in Deliveries : events[d].received <= now'
  BY <1>1 DEF SecretsInv, TypeOK, Event, Times
<1>6. TypeOK' /\ EventsNameTheirSecret'
  BY <1>1, <1>2 DEF SecretsInv, TypeOK, EventsNameTheirSecret
<1>. QED BY <1>1, <1>2, <1>3, <1>4, <1>5, <1>6 DEF SecretsInv

\* Every step preserves the invariant.
LEMMA SecretsStep == SecretsInv /\ [Next]_vars => SecretsInv'
<1>. SUFFICES ASSUME SecretsInv, [Next]_vars PROVE SecretsInv'
  OBVIOUS
<1>1. CASE Tick \/ \E p \in Operators : StartRotation(p)
  BY <1>1, TimeKeeps
<1>2. ASSUME NEW p \in Operators, Rotate(p) PROVE SecretsInv'
  BY <1>2, RotateKeeps
<1>3. ASSUME NEW h \in Handlers, HandlerStep(h) PROVE SecretsInv'
  BY <1>3, CheckKeeps, RecordKeeps, RequestKeeps DEF HandlerStep
<1>4. CASE UNCHANGED vars
  BY <1>4 DEF vars, SecretsInv, TypeOK, EventsNameTheirSecret
<1>. QED BY <1>1, <1>2, <1>3, <1>4 DEF Next, OperatorStep

\* Whatever rotations overlap, there is one active secret, which the connection points to,
\* and one previous secret, accepted until a grace period after its rotation
\* (rotate_webhook_secret).
THEOREM SecretsInvariant == Spec => []SecretsInv
<1>. QED BY SecretsInit, SecretsStep, PTL DEF Spec

\* Events name a secret in force when they were received (process_gitlab_event).
THEOREM EventsHonest == Spec => []EventsNameTheirSecret
<1>1. SecretsInv => EventsNameTheirSecret
  BY DEF SecretsInv
<1>. QED BY <1>1, SecretsInvariant, PTL

\* Both checks of a token accept exactly the secrets in force, and a rotation leaves the
\* secret that it replaces in force for the requests that are being received
\* (rotate_webhook_secret, list_verification_candidates).
THEOREM AcceptanceExact == Spec => AcceptedIffInForce
<1>. DEFINE Exact ==
        \A h \in Handlers :
          /\ Checking(h) =>
                ((handler'[h].pc # "refused") <=> InForce(handler[h].token, handler[h].at))
          /\ Overtaken(h) => InForce(handler[h].token, handler[h].at)'
<1>1. SecretsInv /\ [Next]_vars => [Exact]_vars
  <2>. SUFFICES ASSUME SecretsInv, Next, NEW h \in Handlers
                PROVE  /\ Checking(h) => ((handler'[h].pc # "refused")
                              <=> InForce(handler[h].token, handler[h].at))
                       /\ Overtaken(h) => InForce(handler[h].token, handler[h].at)'
    OBVIOUS
  <2>1. handler \in [Handlers -> Handler] /\ handler[h] \in Handler
    BY DEF SecretsInv, TypeOK
  <2>2. handler[h].token \in Nat /\ handler[h].at \in Nat
    BY <2>1 DEF Handler
  <2>3. ASSUME Checking(h)
        PROVE  (handler'[h].pc # "refused") <=> InForce(handler[h].token, handler[h].at)
    <3>1. Preflight(h) \/ Verify(h)
      <4>1. PICK k \in Handlers : HandlerStep(k)
        BY <2>3 DEF Next, OperatorStep, Tick, StartRotation, Rotate, Checking
      <4>2. k = h
        BY <2>1, <2>3, <4>1 DEF HandlerStep, Arrive, Preflight, ReadBody, Verify, Refuse,
           RejectPayload, LockDelivery, Record, Checked, Goto, Checking
      <4>. QED BY <2>3, <4>1, <4>2 DEF HandlerStep, Arrive, ReadBody, Refuse,
                                       RejectPayload, LockDelivery, Record, Checking
    <3>2. (handler'[h].pc # "refused") <=> handler[h].token \in Candidates(handler[h].at)
      <4>1. PICK next, match : Checked(h, next, match) /\ next # "refused"
        BY <3>1 DEF Preflight, Verify
      <4>2. CASE handler[h].token \in Candidates(handler[h].at)
        BY <2>1, <4>1, <4>2 DEF Checked, Handler
      <4>3. CASE handler[h].token \notin Candidates(handler[h].at)
        BY <2>1, <4>1, <4>3 DEF Checked, Goto, Handler
      <4>. QED BY <4>2, <4>3
    <3>. QED BY <2>2, <3>2, CandidatesInForce
  <2>4. ASSUME Overtaken(h)
        PROVE  InForce(handler[h].token, handler[h].at)'
    <3>. USE BoundAssumption, GraceAssumption, NoneAssumption
    <3>1. PICK p \in Operators : Rotate(p)
      <4>1. issued' # issued
        BY <2>4 DEF Overtaken
      <4>. QED BY <4>1 DEF Next, OperatorStep, HandlerStep, Tick, StartRotation, Arrive,
                           Preflight, ReadBody, Verify, Refuse, RejectPayload,
                           LockDelivery, Record
    <3>2. /\ issued \in Nat /\ issued + 1 \in Secrets /\ now \in Nat
          /\ rotation[p] \in Nat /\ now <= rotation[p] + Lag /\ handler[h].at <= now
      BY <3>1 DEF SecretsInv, TypeOK, Rotate, Secrets, Times
    <3>3. issued' = issued + 1 /\ handler' = handler
          /\ secret'[issued + 1].created = rotation[p]
      BY <3>1, <3>2 DEF Rotate
    <3>. QED BY <2>2, <2>4, <3>2, <3>3 DEF Overtaken, InForce, NoSecret
  <2>. QED BY <2>3, <2>4
<1>. QED BY <1>1, SecretsInvariant, PTL DEF Spec, AcceptedIffInForce
===============================================================================
