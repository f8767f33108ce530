--------------------------- MODULE WebhookIntake ---------------------------
(* What happens to a webhook delivery between its signature and its answer: *)
(* the nonce, the rate, the digest of what was seen, parsing, and the jobs  *)
(* of its messages (server_routes/webhook_guard.py, webhook_routes.py,      *)
(* security/webhook_security.py, PostgresWebhookSecurity).                  *)
(*                                                                          *)
(* Every check is a commit of its own in a database that several gateways   *)
(* share; a platform sends an event again, with the same or another nonce,  *)
(* when it was not answered 200.  All deliveries are of one channel and     *)
(* source.  A delivery is handled in less time than a digest is kept.       *)
EXTENDS Integers, FiniteSets

CONSTANTS
    Deliveries,
    Event,          \* Event[d]: the event, by its digest, that d delivers
    Nonce, NoNonce, \* Nonce[d]: the signed nonce of d, for the channels that have one
    Messages,       \* Messages[e]: how many messages the event holds
    Limit,          \* deliveries of a source in one bucket of time
    MaxBuckets      \* bound: buckets

Events == {Event[d] : d \in Deliveries}

ConstantsOK ==
    /\ IsFiniteSet(Deliveries) /\ DOMAIN Event = Deliveries /\ DOMAIN Nonce = Deliveries
    /\ DOMAIN Messages = Events /\ \A e \in Events : Messages[e] \in Nat
    /\ Limit \in Nat /\ MaxBuckets \in Nat \ {0}

VARIABLES
    postgres,   \* the store is the JSON-state store
    nonces,     \* rows of webhook_nonce
    clock,      \* the current bucket
    count,      \* rows of webhook_rate: the count of each bucket
    seen,       \* rows of webhook_seen
    jobs,       \* the messages the job queue holds, by their dedupe key
    place,      \* where each delivery is
    slot,       \* the bucket it was counted in
    left,       \* the messages it has still to enqueue
    spoiled     \* history: events of which a delivery died or raised after its mark

vars == <<postgres, nonces, clock, count, seen, jobs, place, slot, left, spoiled>>

Checking == {"claimed", "first", "counted"}     \* before the digest is marked
Taken == {"marked", "queueing"}                 \* after it
Refused == {"replayed", "stale", "limited", "duplicate"}
Ended == Refused \cup {"ok", "raised", "gone"}

Jobs(e) == {<<e, i>> : i \in 1..Messages[e]}
Queued(e) == Jobs(e) \subseteq jobs
Goto(d, s) == place' = [place EXCEPT ![d] = s]

TypeOK ==
    /\ postgres \in BOOLEAN
    /\ nonces \subseteq {Nonce[d] : d \in Deliveries} \ {NoNonce}
    /\ clock \in 1..MaxBuckets /\ count \in [1..MaxBuckets -> 0..Cardinality(Deliveries)]
    /\ seen \subseteq Events /\ spoiled \subseteq Events
    /\ jobs \subseteq UNION {Jobs(e) : e \in Events}
    /\ place \in [Deliveries -> Checking \cup Taken \cup Ended \cup {"new"}]
    /\ slot \in [Deliveries -> 1..MaxBuckets]
    /\ left \in [Deliveries -> Nat] /\ \A d \in Deliveries : left[d] <= Messages[Event[d]]

Init ==
    /\ postgres \in BOOLEAN
    /\ nonces = {} /\ clock = 1 /\ count = [b \in 1..MaxBuckets |-> 0]
    /\ seen = {} /\ jobs = {} /\ spoiled = {}
    /\ place = [d \in Deliveries |-> "new"]
    /\ slot = [d \in Deliveries |-> 1]
    /\ left = [d \in Deliveries |-> 0]

----------------------------------------------------------------------------
\* The nonce of a verified signature is consumed first.
ClaimNonce(d) ==
    /\ place[d] = "new"
    /\ IF Nonce[d] \in nonces
       THEN Goto(d, "replayed") /\ UNCHANGED nonces
       ELSE Goto(d, "claimed") /\ nonces' = nonces \cup ({Nonce[d]} \ {NoNonce})
    /\ UNCHANGED <<clock, count, seen, jobs, slot, left, spoiled>>

\* Mutant of TooOld: the digest is marked before the timestamp is checked.
TooOldMarked(d) ==
    /\ place[d] = "claimed"
    /\ Goto(d, "stale")
    /\ seen' = seen \cup {Event[d]}
    /\ UNCHANGED <<nonces, clock, count, jobs, slot, left, spoiled>>

\* _check_timestamp: the delivery is too old, or from the future.
TooOld(d) ==
    /\ place[d] = "claimed"
    /\ Goto(d, "stale")
    /\ UNCHANGED <<nonces, clock, count, seen, jobs, slot, left, spoiled>>

\* Mutant of CountSQLite: the check comes before the increment.
CountBefore(d) ==
    IF count[clock] <= Limit
    THEN count' = [count EXCEPT ![clock] = @ + 1] /\ Goto(d, "counted")
    ELSE Goto(d, "limited") /\ UNCHANGED count

\* SQLite counts and checks in one transaction, which a refusal rolls back.
CountSQLite(d) ==
    IF count[clock] < Limit
    THEN count' = [count EXCEPT ![clock] = @ + 1] /\ Goto(d, "counted")
    ELSE Goto(d, "limited") /\ UNCHANGED count

\* Over JSON state the delivery that inserts the row reads it later; the others
\* count under a row lock, the refused ones too.
CountPostgres(d) ==
    /\ count' = [count EXCEPT ![clock] = @ + 1]
    /\ Goto(d, CASE count[clock] = 0 -> "first"
                 [] count[clock] + 1 > Limit /\ count[clock] > 0 -> "limited"
                 [] OTHER -> "counted")

Count(d) ==
    /\ place[d] = "claimed"
    /\ slot' = [slot EXCEPT ![d] = clock]
    /\ IF postgres THEN CountPostgres(d) ELSE CountSQLite(d)
    /\ UNCHANGED <<nonces, clock, seen, jobs, left, spoiled>>
ReadCount(d) ==
    /\ place[d] = "first"
    /\ Goto(d, IF count[slot[d]] > Limit THEN "limited" ELSE "counted")
    /\ UNCHANGED <<nonces, clock, count, seen, jobs, slot, left, spoiled>>

\* The digest is marked by an insert that one of several deliveries wins.
Mark(d) ==
    /\ place[d] = "counted"
    /\ Goto(d, IF Event[d] \in seen THEN "duplicate" ELSE "marked")
    /\ seen' = seen \cup {Event[d]}
    /\ UNCHANGED <<nonces, clock, count, jobs, slot, left, spoiled>>

----------------------------------------------------------------------------
\* The adapter parses the body into messages, or there is nothing to queue.
Parse(d) ==
    /\ place[d] = "marked"
    /\ left' = [left EXCEPT ![d] = Messages[Event[d]]]
    /\ Goto(d, "queueing")
    /\ UNCHANGED <<nonces, clock, count, seen, jobs, slot, spoiled>>

\* One message after the other, each in a transaction of its own.
Enqueue(d) ==
    /\ place[d] = "queueing" /\ left[d] > 0
    /\ jobs' = jobs \cup {<<Event[d], left[d]>>}
    /\ left' = [left EXCEPT ![d] = @ - 1]
    /\ UNCHANGED <<nonces, clock, count, seen, place, slot, spoiled>>
Answer(d) ==
    /\ place[d] = "queueing" /\ left[d] = 0
    /\ Goto(d, "ok")
    /\ UNCHANGED <<nonces, clock, count, seen, jobs, slot, left, spoiled>>

\* The parser, or the store of the job queue, raises; the process dies.
Lose(d, s) ==
    /\ place[d] \in Checking \cup Taken
    /\ s = "raised" => place[d] \in Taken
    /\ Goto(d, s)
    /\ spoiled' = IF place[d] \in Taken THEN spoiled \cup {Event[d]} ELSE spoiled
    /\ UNCHANGED <<nonces, clock, count, seen, jobs, slot, left>>

NextBucket ==
    /\ clock < MaxBuckets
    /\ clock' = clock + 1
    /\ UNCHANGED <<nonces, count, seen, jobs, place, slot, left, spoiled>>

\* A digest is older than the retention.
Forget(e) ==
    /\ e \in seen /\ \A d \in Deliveries : Event[d] = e => place[d] \notin Checking \cup Taken
    /\ seen' = seen \ {e}
    /\ UNCHANGED <<nonces, clock, count, jobs, place, slot, left, spoiled>>

Next ==
    /\ UNCHANGED postgres
    /\ \/ \E d \in Deliveries :
            \/ ClaimNonce(d) \/ TooOld(d) \/ Count(d) \/ ReadCount(d) \/ Mark(d)
            \/ Parse(d) \/ Enqueue(d) \/ Answer(d)
            \/ \E s \in {"raised", "gone"} : Lose(d, s)
       \/ NextBucket
       \/ \E e \in Events : Forget(e)

Spec == Init /\ [][Next]_vars

----------------------------------------------------------------------------
\* A delivery that is answered 200, or refused as a duplicate, does not lose its
\* event: all of its messages are in the job queue, or another delivery has them in
\* hand, or one died or raised after it marked the digest (the one way to lose them:
\* the platform may send the event again, it stays a duplicate).
TakenIsQueued ==
    \A d \in Deliveries :
        /\ place[d] = "ok" => Queued(Event[d])
        /\ place[d] = "duplicate" =>
            \/ Queued(Event[d]) \/ Event[d] \in spoiled
            \/ \E t \in Deliveries : Event[t] = Event[d] /\ place[t] \in Taken

\* In no bucket do more deliveries pass than the limit allows, and over SQLite a
\* refused one is not counted.
Passed(b) == {d \in Deliveries : slot[d] = b /\ place[d] \in Taken \cup {"counted", "duplicate", "ok", "raised"}}
RateHolds ==
    \A b \in 1..MaxBuckets :
        /\ Cardinality(Passed(b)) <= Limit
        /\ ~postgres => count[b] <= Limit
=============================================================================
