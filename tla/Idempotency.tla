---------------------------- MODULE Idempotency ----------------------------
(* One idempotency key of a side effect or of /agent/run: the SQLite stores *)
(* and the JSON-state stores that Postgres uses                             *)
(* (security/idempotency.py, security/agent_run_idempotency.py), and the    *)
(* routes that call them around the effect (server_routes/agent_routes.py). *)
(*                                                                          *)
(* A SQLite begin is one transaction; over JSON state it is a listing, a    *)
(* delete, an insert, a read and a put, each with its own commit.  A call   *)
(* that raises is taken to have had no effect.  A begin is shorter than a   *)
(* tick (the record lives 1800 s).                                          *)
EXTENDS Integers, FiniteSets

CONSTANTS
    Callers,    \* requests that carry the key
    NoCaller,
    Payload,    \* Payload[c]: the hash of what c asks for
    TTL         \* life of a record, in ticks

ConstantsOK ==
    /\ NoCaller \notin Callers /\ IsFiniteSet(Callers)
    /\ DOMAIN Payload = Callers /\ TTL \in Nat \ {0}

VARIABLES
    postgres,   \* the stores are the JSON-state ones
    record,     \* status of the row, "none" when there is none
    hash,       \* its payload_hash
    response,   \* whose response it stores
    left,       \* ticks until expires_at
    stage,      \* where each request is
    answer,     \* whose response it was given
    ran,        \* history: requests whose effect took place
    causes      \* history: rows removed or written over by a begin

vars == <<postgres, record, hash, response, left, stage, answer, ran, causes>>
row == <<record, hash, response, left>>

Goto(c, s) == stage' = [stage EXCEPT ![c] = s]
InBegin == {"cleaning", "listed", "reading", "putting"}
Ended == {"refused", "replayed", "failed", "answered", "gone"}

----------------------------------------------------------------------------
Init ==
    /\ postgres \in BOOLEAN
    /\ record = "none" /\ hash = NoCaller /\ response = NoCaller /\ left = 0
    /\ stage = [c \in Callers |-> "idle"]
    /\ answer = [c \in Callers |-> NoCaller]
    /\ ran = {} /\ causes = 0

Expired == record # "none" /\ left = 0

\* Mutant of Held: a row without a response holds nobody back.
HeldCompleted == record = "completed" /\ left > 0

Held == record # "none" /\ left > 0

\* A row that gives way to a begin: expired, or put over without another look.
GivesWay(c) == record # "none" /\ (left = 0 \/ stage[c] = "putting")

\* The row that begin writes, and the return to the route that makes the call.
Claim(c) ==
    /\ record' = "running" /\ hash' = Payload[c] /\ response' = NoCaller /\ left' = TTL
    /\ causes' = causes + (IF GivesWay(c) THEN 1 ELSE 0)
    /\ Goto(c, "calling")
    /\ UNCHANGED <<answer, ran>>

\* A row that is there: the stored response, or one of the two 409.
AnswerFromRow(c) ==
    /\ IF record = "completed" /\ hash = Payload[c]
       THEN Goto(c, "replayed") /\ answer' = [answer EXCEPT ![c] = response]
       ELSE Goto(c, "refused") /\ UNCHANGED answer
    /\ UNCHANGED <<row, ran, causes>>

\* begin of the SQLite stores, in BEGIN IMMEDIATE.
Begin(c) ==
    /\ ~postgres /\ stage[c] = "idle"
    /\ IF Held THEN AnswerFromRow(c) ELSE Claim(c)

\* stats of the SQLite store removes expired rows too.
Stats ==
    /\ ~postgres /\ Expired
    /\ record' = "none" /\ causes' = causes + 1
    /\ UNCHANGED <<hash, response, left, stage, answer, ran>>

\* _cleanup lists the rows and deletes the expired ones by key; stats stops there.
List(c) ==
    /\ postgres /\ stage[c] = "idle"
    /\ Goto(c, IF Expired THEN "cleaning" ELSE "listed")
    /\ UNCHANGED <<row, answer, ran, causes>>
Delete(c) ==
    /\ stage[c] = "cleaning"
    /\ record' = "none"
    /\ causes' = causes + (IF record = "none" THEN 0 ELSE 1)
    /\ Goto(c, "listed")
    /\ UNCHANGED <<hash, response, left, answer, ran>>
Leave(c) ==
    /\ stage[c] = "listed"
    /\ Goto(c, "refused")
    /\ UNCHANGED <<row, answer, ran, causes>>

\* insert_once, and the read of the row that was there first.
InsertOnce(c) ==
    /\ stage[c] = "listed"
    /\ \/ record = "none" /\ Claim(c)
       \/ record # "none" /\ Goto(c, "reading") /\ UNCHANGED <<row, answer, ran, causes>>
Read(c) ==
    /\ stage[c] = "reading"
    /\ \/ Held /\ AnswerFromRow(c)
       \/ ~Held /\ Goto(c, "putting") /\ UNCHANGED <<row, answer, ran, causes>>
\* put writes over whatever is there by now.
Put(c) == stage[c] = "putting" /\ Claim(c)

----------------------------------------------------------------------------
Effect(c) ==
    /\ stage[c] = "calling"
    /\ ran' = ran \cup {c}
    /\ Goto(c, "acted")
    /\ UNCHANGED <<row, answer, causes>>

\* complete: SQLite writes a running row only, whoever's it is; update_locked any.
Complete(c) ==
    /\ stage[c] = "acted"
    /\ IF record = "running" \/ (postgres /\ record = "completed")
       THEN record' = "completed" /\ response' = c /\ left' = TTL
       ELSE UNCHANGED <<record, response, left>>
    /\ Goto(c, "answered")
    /\ answer' = [answer EXCEPT ![c] = c]
    /\ UNCHANGED <<hash, ran, causes>>

\* The call raised: fail deletes a running row, or any row over JSON state.
Fail(c) ==
    /\ stage[c] = "calling"
    /\ record' = IF record = "running" \/ postgres THEN "none" ELSE record
    /\ Goto(c, "failed")
    /\ UNCHANGED <<hash, response, left, answer, ran, causes>>

\* The process dies, or the task is cancelled: the routes catch Exception only.
Vanish(c) ==
    /\ stage[c] \notin Ended \cup {"idle"}
    /\ Goto(c, "gone")
    /\ UNCHANGED <<row, answer, ran, causes>>

Tick ==
    /\ left > 0 /\ \A c \in Callers : stage[c] \notin InBegin
    /\ left' = left - 1
    /\ UNCHANGED <<record, hash, response, stage, answer, ran, causes>>

Next ==
    /\ UNCHANGED postgres
    /\ \/ \E c \in Callers :
            \/ Begin(c) \/ List(c) \/ Delete(c) \/ Leave(c) \/ InsertOnce(c) \/ Read(c) \/ Put(c)
            \/ Effect(c) \/ Complete(c) \/ Fail(c) \/ Vanish(c)
       \/ Stats \/ Tick

Spec == Init /\ [][Next]_vars

----------------------------------------------------------------------------
TypeOK ==
    /\ postgres \in BOOLEAN
    /\ record \in {"none", "running", "completed"}
    /\ hash \in {Payload[c] : c \in Callers} \cup {NoCaller}
    /\ response \in Callers \cup {NoCaller}
    /\ left \in 0..TTL
    /\ stage \in [Callers -> InBegin \cup Ended \cup {"idle", "calling", "acted"}]
    /\ answer \in [Callers -> Callers \cup {NoCaller}]
    /\ ran \subseteq Callers /\ causes \in Nat

\* Requests with one key have one effect, and one more for every row that a begin
\* found expired - or, over JSON state, wrote over after it had read it.  A retry in
\* the middle of the first call, after it, or after it failed has none of its own.
EffectNeedsCause == Cardinality(ran) <= 1 + causes

\* Until such a cause, whoever gets a response gets that of the one effect, and
\* asked for the same thing.
ReplayIsFirst ==
    causes = 0 => \A c \in Callers :
        answer[c] # NoCaller => ran = {answer[c]} /\ Payload[c] = Payload[answer[c]]
=============================================================================
