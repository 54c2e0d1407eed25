------------------------------- MODULE RateLimits -------------------------------
(***************************************************************************)
(* The sliding-window limiters in front of the handlers: the webhook       *)
(* routes' limit per source and per connection of a source, and the budget *)
(* of wrong operator tokens per source; each kept in the memory of one     *)
(* process (settings of a development environment) or in Redis.            *)
(*                                                                         *)
(* Time is the ages of the requests: how long ago each read its clock.     *)
(* A request reads the clock before it gets the limiter's lock, or before  *)
(* Redis runs its commands, so that it decides with a clock that lags; the *)
(* ages of the waiting requests are their lags.  A request that nothing    *)
(* refers to any more stands for a new one.                                *)
(***************************************************************************)
EXTENDS Naturals, Sequences, FiniteSets

CONSTANTS Requests, Sources, Connections, None,
          Window,                \* the window's length
          Lag,                   \* bound on how late a request decides
          MaxRequests,           \* of a source to a connection, in a window
          MaxSourceRequests,     \* of a source, in a window
          MaxConnectionBuckets,  \* of the memory's table; in Redis, connections
                                 \* a source asks for in a window
          MaxFailures,           \* wrong operator tokens of a source, in a window
          MaxFailureBuckets      \* of the memory's table of failures

ASSUME NoneAssumption == None \notin Requests \cup Sources \cup Connections
                         /\ None \notin Seq(Requests)
ASSUME TimeAssumption == Window \in Nat /\ Lag \in Nat
ASSUME FiniteAssumption ==
    IsFiniteSet(Requests) /\ IsFiniteSet(Sources) /\ IsFiniteSet(Connections)
ASSUME LimitAssumption ==
    /\ MaxRequests \in Nat \ {0} /\ MaxSourceRequests \in Nat \ {0}
    /\ MaxConnectionBuckets \in Nat \ {0} /\ MaxFailures \in Nat \ {0}
    /\ MaxFailureBuckets \in Nat \ {0}

VARIABLES
    traffic, backend,            \* what is asked for, and where the limiter is kept
    verdict, from, to, age,      \* of a request
    bySource, byPair, failures,  \* the tables of one process: None is no bucket
    zSource, zPair, zFailures,   \* Redis: sorted sets of requests, the score is
    zSeen                        \* the time; zSeen has the last one per connection

requests == <<verdict, from, to, age>>
memory == <<bySource, byPair, failures>>
redis == <<zSource, zPair, zFailures, zSeen>>
vars == <<traffic, backend, requests, memory, redis>>

Pairs == Sources \X Connections
Buckets == Seq(Requests) \cup {None}
Old == Window + 2 * Lag          \* older than whatever a bucket still counts

TypeOK ==
    /\ traffic \in {"webhook", "operator"} /\ backend \in {"memory", "redis"}
    /\ verdict \in [Requests -> {"none", "waiting", "admitted", "refused"}]
    /\ from \in [Requests -> Sources \cup {None}]
    /\ to \in [Requests -> Connections \cup {None}]
    /\ age \in [Requests -> Nat]
    /\ bySource \in [Sources -> Buckets] /\ byPair \in [Pairs -> Buckets]
    /\ failures \in [Sources -> Buckets]
    /\ zSource \in [Sources -> SUBSET Requests] /\ zPair \in [Pairs -> SUBSET Requests]
    /\ zFailures \in [Sources -> SUBSET Requests]
    /\ zSeen \in [Pairs -> Requests \cup {None}]

Init ==
    /\ traffic \in {"webhook", "operator"} /\ backend \in {"memory", "redis"}
    /\ verdict = [q \in Requests |-> "none"]
    /\ from = [q \in Requests |-> None] /\ to = [q \in Requests |-> None]
    /\ age = [q \in Requests |-> 0]
    /\ bySource = [s \in Sources |-> None] /\ byPair = [p \in Pairs |-> None]
    /\ failures = [s \in Sources |-> None]
    /\ zSource = [s \in Sources |-> {}] /\ zPair = [p \in Pairs |-> {}]
    /\ zFailures = [s \in Sources |-> {}] /\ zSeen = [p \in Pairs |-> None]

PairOf(q) == <<from[q], to[q]>>

(***************************************************************************)
(* Requests and time.                                                      *)
(***************************************************************************)
In(t, k, q) == t[k] # None /\ \E i \in DOMAIN t[k] : t[k][i] = q

Referred(q) ==
    \/ \E t \in {bySource, byPair, failures} : \E k \in DOMAIN t : In(t, k, q)
    \/ \E z \in {zSource, zPair, zFailures} : \E k \in DOMAIN z : q \in z[k]
    \/ \E p \in Pairs : zSeen[p] = q

\* A request comes in and reads the clock.  An operator's request is one without
\* a valid token or session: the others never touch the budget.
Arrive(q, s, c) ==
    /\ verdict[q] = "none"
    /\ (c = None) = (traffic = "operator")
    /\ verdict' = [verdict EXCEPT ![q] = "waiting"]
    /\ from' = [from EXCEPT ![q] = s] /\ to' = [to EXCEPT ![q] = c]
    /\ age' = [age EXCEPT ![q] = 0]
    /\ UNCHANGED <<traffic, backend, memory, redis>>

\* Time passes.  Requests that no longer matter are forgotten.
Forgotten(q) == verdict[q] \in {"admitted", "refused"} /\ age[q] = Old /\ ~Referred(q)

Tick ==
    /\ \A q \in Requests : verdict[q] = "waiting" => age[q] < Lag
    /\ verdict' = [q \in Requests |-> IF Forgotten(q) THEN "none" ELSE verdict[q]]
    /\ from' = [q \in Requests |-> IF Forgotten(q) THEN None ELSE from[q]]
    /\ to' = [q \in Requests |-> IF Forgotten(q) THEN None ELSE to[q]]
    /\ age' = [q \in Requests |->
                IF verdict[q] = "none" \/ Forgotten(q) THEN 0
                ELSE IF age[q] = Old THEN Old ELSE age[q] + 1]
    /\ UNCHANGED <<traffic, backend, memory, redis>>

Decide(q, admit) ==
    verdict' = [verdict EXCEPT ![q] = IF admit THEN "admitted" ELSE "refused"]

\* For a request whose clock lags: the requests that are still in its window.
Fresh(q, lag) == age[q] < Window + lag

(***************************************************************************)
(* The tables in memory.  A bucket is a queue, pruned from its head.       *)
(***************************************************************************)
\* Mutation of Pruned: a bucket starts anew when its oldest entry has expired.
Restarted(b, lag) == IF b # <<>> /\ ~Fresh(b[1], lag) THEN <<>> ELSE b

\* Mutation of Pruned: the bucket is kept while its newest entry is in the window.
KeptWhole(b, lag) == IF b # <<>> /\ Fresh(b[Len(b)], lag) THEN b ELSE <<>>

Pruned(b, lag) ==
    LET fresh == {i \in 1..Len(b) : Fresh(b[i], lag)}
    IN  IF fresh = {} THEN <<>>
        ELSE SubSeq(b, CHOOSE i \in fresh : \A j \in fresh : i <= j, Len(b))

\* All buckets are pruned, the empty ones dropped.
PrunedTable(t, lag) ==
    [k \in DOMAIN t |-> IF t[k] = None \/ Pruned(t[k], lag) = <<>> THEN None
                        ELSE Pruned(t[k], lag)]

Size(t) == Cardinality({k \in DOMAIN t : t[k] # None})

\* Mutation of Full: the bucket to come is not counted.
OneMore(t, k, max) == t[k] = None /\ Size(t) > max

\* A new bucket has no room in the table.
Full(t, k, max) == t[k] = None /\ Size(t) >= max

\* The table once bucket k has been looked for; a new one is not made here.
Touched(t, k, lag) ==
    IF t[k] = None THEN PrunedTable(t, lag) ELSE [t EXCEPT ![k] = Pruned(@, lag)]

\* Mutation of Put: the bucket is put into the new one, not copied.
Nested(t, k, q) == [t EXCEPT ![k] = <<IF @ = None THEN <<>> ELSE @, q>>]

Bucket(t, k) == IF t[k] = None THEN <<>> ELSE t[k]
Put(t, k, q) == [t EXCEPT ![k] = Append(Bucket(t, k), q)]

\* _allow_github_webhook_request and _allow_gitlab_webhook_request.
AllowInMemory(q) ==
    LET s == from[q]
        p == PairOf(q)
        sources == [Touched(bySource, s, age[q]) EXCEPT
                        ![s] = Bucket(Touched(bySource, s, age[q]), s)]
        pairs == Touched(byPair, p, age[q])
        sourceFull == Len(sources[s]) >= MaxSourceRequests
        tableFull == Full(pairs, p, MaxConnectionBuckets)
        pairFull == Len(Bucket(pairs, p)) >= MaxRequests
        admit == ~sourceFull /\ ~tableFull /\ ~pairFull
    IN  /\ verdict[q] = "waiting" /\ traffic = "webhook" /\ backend = "memory"
        /\ bySource' = IF admit THEN Put(sources, s, q) ELSE sources
        /\ byPair' = IF sourceFull THEN byPair ELSE IF admit THEN Put(pairs, p, q)
                     ELSE pairs
        /\ Decide(q, admit)
        /\ UNCHANGED <<traffic, backend, from, to, age, failures, redis>>

\* consume_operator_auth_failure_budget: FALSE is answered with 429.
ConsumeInMemory(q) ==
    LET s == from[q]
        table == Touched(failures, s, age[q])
        tableFull == Full(table, s, MaxFailureBuckets)
        spent == Len(Bucket(table, s)) >= MaxFailures
    IN  /\ verdict[q] = "waiting" /\ traffic = "operator" /\ backend = "memory"
        /\ failures' = IF tableFull \/ spent THEN table ELSE Put(table, s, q)
        /\ Decide(q, ~tableFull /\ ~spent)
        /\ UNCHANGED <<traffic, backend, from, to, age, bySource, byPair, redis>>

(***************************************************************************)
(* The sets in Redis, each decision one transaction or one script.         *)
(***************************************************************************)
InWindow(z, lag) == {q \in z : Fresh(q, lag)}

\* _allow_..._request_in_redis: what is refused is counted too.
AllowInRedis(q) ==
    LET s == from[q]
        p == PairOf(q)
        ofSource == InWindow(zSource[s], age[q]) \cup {q}
        ofPair == InWindow(zPair[p], age[q]) \cup {q}
        stale(o) == o[1] = s /\ zSeen[o] # None /\ ~Fresh(zSeen[o], age[q])
        seen == [o \in Pairs |-> IF o = p THEN q
                                 ELSE IF stale(o) THEN None ELSE zSeen[o]]
    IN  /\ verdict[q] = "waiting" /\ traffic = "webhook" /\ backend = "redis"
        /\ zSource' = [zSource EXCEPT ![s] = ofSource]
        /\ zPair' = [zPair EXCEPT ![p] = ofPair]
        /\ zSeen' = seen
        /\ Decide(q, /\ Cardinality(ofSource) <= MaxSourceRequests
                     /\ Cardinality({o \in Pairs : o[1] = s /\ seen[o] # None})
                          <= MaxConnectionBuckets
                     /\ Cardinality(ofPair) <= MaxRequests)
        /\ UNCHANGED <<traffic, backend, from, to, age, memory, zFailures>>

\* _consume_operator_auth_failure_budget_in_redis: only what is admitted is counted.
ConsumeInRedis(q) ==
    LET s == from[q]
        current == InWindow(zFailures[s], age[q])
        admit == Cardinality(current) < MaxFailures
    IN  /\ verdict[q] = "waiting" /\ traffic = "operator" /\ backend = "redis"
        /\ zFailures' = [zFailures EXCEPT ![s] = IF admit THEN current \cup {q}
                                                 ELSE current]
        /\ Decide(q, admit)
        /\ UNCHANGED <<traffic, backend, from, to, age, memory, zSource, zPair, zSeen>>

\* A key that nobody has touched for a window expires; whatever is in it is at
\* least that old.
Outdated(z) == z # {} /\ \A q \in z : age[q] >= Window

Expire ==
    /\ \/ \E s \in Sources : /\ Outdated(zSource[s])
                             /\ zSource' = [zSource EXCEPT ![s] = {}]
                             /\ UNCHANGED <<zPair, zFailures, zSeen>>
       \/ \E p \in Pairs : /\ Outdated(zPair[p])
                           /\ zPair' = [zPair EXCEPT ![p] = {}]
                           /\ UNCHANGED <<zSource, zFailures, zSeen>>
       \/ \E s \in Sources : /\ Outdated(zFailures[s])
                             /\ zFailures' = [zFailures EXCEPT ![s] = {}]
                             /\ UNCHANGED <<zSource, zPair, zSeen>>
       \/ \E s \in Sources :
            LET mine == {p \in Pairs : p[1] = s /\ zSeen[p] # None}
            IN  /\ Outdated({zSeen[p] : p \in mine})
                /\ zSeen' = [p \in Pairs |-> IF p \in mine THEN None ELSE zSeen[p]]
                /\ UNCHANGED <<zSource, zPair, zFailures>>
    /\ UNCHANGED <<traffic, backend, requests, memory>>

Next ==
    \/ \E q \in Requests :
        \/ \E s \in Sources, c \in Connections \cup {None} : Arrive(q, s, c)
        \/ AllowInMemory(q) \/ ConsumeInMemory(q)
        \/ AllowInRedis(q) \/ ConsumeInRedis(q)
    \/ Tick
    \/ Expire

Spec == Init /\ [][Next]_vars

(***************************************************************************)
(* What the limiters promise.                                              *)
(***************************************************************************)
Admitted(span) == {q \in Requests : verdict[q] = "admitted" /\ age[q] < span}

\* However requests race for the lock with clocks they read before: in the last
\* window no source has passed more often than it may, neither to one connection
\* nor in all, and no source has had more wrong tokens answered.
WithinLimits ==
    LET recent == Admitted(Window)
        ofSource(s) == Cardinality({q \in recent : from[q] = s})
    IN  IF traffic = "operator"
        THEN \A s \in Sources : ofSource(s) <= MaxFailures
        ELSE /\ \A s \in Sources : ofSource(s) <= MaxSourceRequests
             /\ \A p \in Pairs : Cardinality({q \in recent : PairOf(q) = p})
                                  <= MaxRequests

\* However many sources ask, the tables of a process that have a limit keep to it.
\* (The table of sources has none: it holds whoever asked since it was pruned.)
TablesBounded ==
    /\ Size(byPair) <= MaxConnectionBuckets
    /\ Size(failures) <= MaxFailureBuckets

\* What a limiter counts against others: what it admitted; Redis counts what it
\* refused to a webhook as well.
Counted(q) ==
    {x \in Requests \ {q} :
        /\ age[x] < Old
        /\ \/ verdict[x] = "admitted"
           \/ verdict[x] = "refused" /\ backend = "redis" /\ traffic = "webhook"}

\* A request is refused only for a limit that is used up: by what its own source
\* has been granted, or by a table full of buckets that are in use.
Cause(q) ==
    LET counted == Counted(q)
        mine == {x \in counted : from[x] = from[q]}
    IN  IF traffic = "operator"
        THEN \/ Cardinality(mine) >= MaxFailures
             \/ /\ backend = "memory"
                /\ Cardinality({from[x] : x \in counted \ mine}) >= MaxFailureBuckets
        ELSE \/ Cardinality(mine) >= MaxSourceRequests
             \/ Cardinality({x \in mine : to[x] = to[q]}) >= MaxRequests
             \/ LET others == IF backend = "memory" THEN counted ELSE mine
                 IN  Cardinality({PairOf(x) : x \in others} \ {PairOf(q)})
                       >= MaxConnectionBuckets

RefusedForCause ==
    [][\A q \in Requests :
        verdict[q] = "waiting" /\ verdict'[q] = "refused" => Cause(q)]_vars

(***************************************************************************)
(* The strengthening that every step preserves.                            *)
(***************************************************************************)
\* A request that has come in has a source, and a webhook's a connection.
Addressed ==
    \A q \in Requests : verdict[q] # "none" =>
        /\ from[q] \in Sources
        /\ traffic = "webhook" => to[q] \in Connections

\* What has been admitted in the last window is in the buckets that count it, whatever
\* has been pruned, dropped or expired since.
Remembered ==
    \A q \in Admitted(Window) :
        CASE traffic = "operator" /\ backend = "memory" -> In(failures, from[q], q)
          [] traffic = "operator" /\ backend = "redis" -> q \in zFailures[from[q]]
          [] traffic = "webhook" /\ backend = "memory" ->
               In(bySource, from[q], q) /\ In(byPair, PairOf(q), q)
          [] traffic = "webhook" /\ backend = "redis" ->
               q \in zSource[from[q]] /\ q \in zPair[PairOf(q)]

GrantsInv == TypeOK /\ Addressed /\ Remembered /\ WithinLimits /\ TablesBounded

\* A bucket has every request once, in the order in which they read their clocks, but
\* for the lag.
InOrder(t) ==
    \A k \in DOMAIN t : t[k] # None =>
        \A i, j \in 1..Len(t[k]) : i < j =>
            /\ t[k][i] # t[k][j]
            /\ age[t[k][j]] <= age[t[k][i]] + Lag

\* What a bucket or a set counts has been granted to its source or pair; what the sets
\* of the webhooks count has been granted or refused.
Granted(q) == verdict[q] = "admitted"
Decided(q) == verdict[q] \in {"admitted", "refused"}

CountsInv ==
    /\ \A q \in Requests : age[q] <= Old /\ (verdict[q] = "waiting" => age[q] <= Lag)
    /\ InOrder(bySource) /\ InOrder(byPair) /\ InOrder(failures)
    /\ \A q \in Requests :
        /\ \A s \in Sources :
            /\ (In(bySource, s, q) \/ In(failures, s, q) \/ q \in zFailures[s])
                  => Granted(q) /\ from[q] = s
            /\ q \in zSource[s] => Decided(q) /\ from[q] = s
        /\ \A p \in Pairs :
            /\ In(byPair, p, q) => Granted(q) /\ PairOf(q) = p
            /\ (q \in zPair[p] \/ zSeen[p] = q) => Decided(q) /\ PairOf(q) = p

\* No step breaks any of this: what was granted of late is counted, and what is counted
\* was granted.
LimitsInv == GrantsInv /\ CountsInv

=================================================================================
