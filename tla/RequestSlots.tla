---------------------------- MODULE RequestSlots ----------------------------
(* The API resource guard (security/resource_guard.py with the route        *)
(* classes of chat_resource_guard.py) and the middleware that takes a slot  *)
(* for every request and gives it back (server.py), for the requests of one *)
(* client to one path.  Up to its first await before_request runs alone.    *)
EXTENDS Integers, FiniteSets

CONSTANTS
    Requests,
    Class,        \* Class[r]: the route class of r
    GlobalLimit,  \* max_inflight_requests
    ClassLimit,   \* ClassLimit[k]: max_inflight_... of class k
    RateLimit,    \* RateLimit[b]: requests per window of bucket b
    WindowTicks   \* window_seconds, in ticks

Classes == DOMAIN ClassLimit
Buckets == {"ip", "path", "actor"}

ConstantsOK ==
    /\ IsFiniteSet(Requests)
    /\ Class \in [Requests -> Classes] /\ ClassLimit \in [Classes -> Nat]
    /\ RateLimit \in [Buckets -> Nat \ {0}] /\ GlobalLimit \in Nat
    /\ WindowTicks \in Nat \ {0}

VARIABLES
    postgres,  \* the limiter is that of Postgres, which counts refusals too
    total,     \* _inflight_total
    byClass,   \* _inflight_by_class
    bucket,    \* count of each rate bucket
    window,    \* ticks left of its window
    place      \* where each request is

vars == <<postgres, total, byClass, bucket, window, place>>

Holding == {"reading", "handling", "answering"}
Move(r, p) == place' = [place EXCEPT ![r] = p]

----------------------------------------------------------------------------
Init ==
    /\ postgres \in BOOLEAN
    /\ total = 0 /\ byClass = [k \in Classes |-> 0]
    /\ bucket = [b \in Buckets |-> 0] /\ window = [b \in Buckets |-> 0]
    /\ place = [r \in Requests |-> "arriving"]

\* The count of a bucket; it restarts with the first request after its window.
Counted(b) == IF window[b] = 0 THEN 0 ELSE bucket[b]
Allowed(b) == Counted(b) < RateLimit[b]

\* allow, for the buckets bs in turn: one that refuses ends the turn, and only the
\* limiter of Postgres has counted the refused request by then.
Touch(bs) ==
    /\ bucket' = [b \in Buckets |->
         IF b \in bs /\ (Allowed(b) \/ postgres) THEN Counted(b) + 1 ELSE bucket[b]]
    /\ window' = [b \in Buckets |->
         IF b \in bs /\ window[b] = 0 /\ (Allowed(b) \/ postgres) THEN WindowTicks ELSE window[b]]

HasSlot(r) == total < GlobalLimit /\ byClass[Class[r]] < ClassLimit[Class[r]]

Acquire(r) ==
    /\ total' = total + 1
    /\ byClass' = [byClass EXCEPT ![Class[r]] = @ + 1]
Release(r) ==
    /\ total' = IF total > 0 THEN total - 1 ELSE 0
    /\ byClass' = [byClass EXCEPT ![Class[r]] = IF @ > 0 THEN @ - 1 ELSE 0]

\* before_request up to its await: two buckets, a slot, or a 429.
Admit(r) ==
    /\ place[r] = "arriving"
    /\ Touch(IF Allowed("ip") THEN {"ip", "path"} ELSE {"ip"})
    /\ IF Allowed("ip") /\ Allowed("path") /\ HasSlot(r)
       THEN Acquire(r) /\ Move(r, "reading")
       ELSE UNCHANGED <<total, byClass>> /\ Move(r, "ended")

\* _ingest_admitted: the body is there, in time and within its limit.
BodyRead(r) ==
    /\ place[r] = "reading" /\ Move(r, "handling")
    /\ UNCHANGED <<total, byClass, bucket, window>>

\* Mutant of BodyFails: the slot is given back by the middleware alone.
BodyFailsKeeping(r) ==
    /\ place[r] = "reading" /\ Move(r, "ended")
    /\ UNCHANGED <<total, byClass, bucket, window>>

\* Too large, too slow, malformed, or the client has gone (BaseException).
BodyFails(r) ==
    /\ place[r] = "reading" /\ Release(r) /\ Move(r, "ended")
    /\ UNCHANGED <<bucket, window>>

\* check_authenticated, once the route knows who asks; a 429 is a response as well.
Authenticate(r) ==
    /\ place[r] = "handling" /\ Touch({"actor"}) /\ Move(r, "answering")
    /\ UNCHANGED <<total, byClass>>

\* The middleware's finally: a response, an exception or a cancelled request.  The
\* body of a streamed response is sent after it.
Finish(r) ==
    /\ place[r] \in {"handling", "answering"} /\ Release(r) /\ Move(r, "ended")
    /\ UNCHANGED <<bucket, window>>

Tick ==
    /\ \E b \in Buckets : window[b] > 0
    /\ window' = [b \in Buckets |-> IF window[b] > 0 THEN window[b] - 1 ELSE 0]
    /\ UNCHANGED <<total, byClass, bucket, place>>

Next ==
    /\ UNCHANGED postgres
    /\ \/ \E r \in Requests :
           Admit(r) \/ BodyRead(r) \/ BodyFails(r) \/ Authenticate(r) \/ Finish(r)
       \/ Tick

Spec == Init /\ [][Next]_vars

----------------------------------------------------------------------------
TypeOK ==
    /\ postgres \in BOOLEAN
    /\ total \in Nat /\ byClass \in [Classes -> Nat]
    /\ bucket \in [Buckets -> Nat] /\ window \in [Buckets -> 0..WindowTicks]
    /\ place \in [Requests -> Holding \cup {"arriving", "ended"}]

\* The two counters are the requests that hold a slot, in all and of each class:
\* none is lost or given back twice, on whatever path a request ends.
SlotsAccounted ==
    LET holders(k) == {r \in Requests : place[r] \in Holding /\ Class[r] = k} IN
    /\ total = Cardinality({r \in Requests : place[r] \in Holding})
    /\ \A k \in Classes : byClass[k] = Cardinality(holders(k))
=============================================================================
