------------------------------ MODULE ChatLease ------------------------------
(***************************************************************************)
(* A chat request under its database lease: the Postgres repository        *)
(* (appsync/chat_repository.py, appsync/lease_safe_chat_repository.py), on *)
(* any number of replicas, and the HTTP turns that use it, as one answer   *)
(* (ask) or as an event stream (stream): appsync/industrial_chat_service.py,*)
(* appsync/chat_service.py and the producer task of appsync/chat_routes.py. *)
(*                                                                         *)
(* Every repository call is one transaction, hence one step, except that   *)
(* reserve commits and then loads the row in another.  A key stands for    *)
(* actor, endpoint, idempotency key and payload hash; calls that raise     *)
(* without writing (key reused with another payload, request in progress,  *)
(* resume of an unknown stream) change nothing and are left out, as is the *)
(* user message, which reserve inserts with the row.  Time is relative.    *)
(***************************************************************************)
EXTENDS Integers

CONSTANTS
    Keys,       \* chat requests, as clients identify them
    Turns,      \* HTTP requests being served, by any replica
    NoKey, NoTurn,
    Lease,      \* lease_seconds, in ticks
    MaxDeltas,  \* bound: deltas the model streams
    MaxLosses   \* bound: turns that vanish, and commits whose reply is lost

ConstantsOK ==
    /\ NoKey \notin Keys /\ NoTurn \notin Turns
    /\ Lease \in Nat \ {0} /\ MaxDeltas \in Nat /\ MaxLosses \in Nat

Active == {"reserved", "running", "finalizing"}
Settled == {"completed", "failed", "interrupted"}
EventTypes == {"chat.started", "chat.delta", "chat.usage", "chat.completed", "chat.failed"}

VARIABLES
    status,   \* status of each request, "none" before it is reserved
    owner,    \* lease_owner; the turn stands for the identifier it drew
    lease,    \* ticks until lease_expires_at, 0 when it is over
    events,   \* the stored events: event_type by sequence number
    answers,  \* assistant messages inserted for the request
    pc, key, mode,   \* of each turn: where it is, its request, ask or stream
    token,    \* reservation.lease_owner, as the turn loaded it
    seq,      \* the next sequence number of the turn
    beat,     \* its heartbeat: "off", "on", or "late": cancelled in mid-call
    losses    \* what MaxLosses counts

table == <<status, owner, lease, events, answers>>
turn == <<pc, key, mode, token, seq, beat>>
vars == <<table, turn, losses>>

Numbers(k) == DOMAIN events[k]
Last(log) ==   \* COALESCE(MAX(sequence), 0)
    CHOOSE n \in DOMAIN log \cup {0} : \A i \in DOMAIN log : i <= n

Insert(log, n, e) ==
    [i \in DOMAIN log \cup {n} |-> IF i \in DOMAIN log THEN log[i] ELSE e]

Goto(t, l) == pc' = [pc EXCEPT ![t] = l]

\* Mutant of Return: the heartbeat is not cancelled.
ReturnBeating(t) ==
    /\ Goto(t, "idle")
    /\ seq' = [seq EXCEPT ![t] = 0]
    /\ UNCHANGED <<key, mode, token, beat>>

\* The turn is over.  A heartbeat cancelled while its renewal runs in a thread
\* renews once more.
Return(t) ==
    /\ Goto(t, "idle")
    /\ seq' = [seq EXCEPT ![t] = 0]
    /\ \E b \in {"off", "late"} :
         /\ b = "late" => beat[t] = "on"
         /\ beat' = [beat EXCEPT ![t] = b]
         /\ token' = [token EXCEPT ![t] = IF b = "late" THEN @ ELSE NoTurn]
    /\ UNCHANGED <<key, mode>>

\* Mutant of Owned: the writes are not fenced.
Unfenced(t) == token[t] # NoTurn

\* _lock_owned_request finds the row; otherwise it raises ChatLeaseLost.
Owned(t) ==
    /\ status[key[t]] \in Active
    /\ owner[key[t]] = token[t]
    /\ lease[key[t]] > 0

\* The columns a fenced write sets: a settled row has no owner and no lease.
SetRow(k, s) ==
    /\ status' = [status EXCEPT ![k] = s]
    /\ owner' = [owner EXCEPT ![k] = IF s \in Settled THEN NoTurn ELSE @]
    /\ lease' = [lease EXCEPT ![k] = IF s \in Settled THEN 0 ELSE Lease]

\* append_event stores the event, or finds the very same one at its number.
Appended(t, e, s) ==
    LET k == key[t]
    IN  /\ Owned(t)
        /\ seq[t] \in Numbers(k) => events[k][seq[t]] = e
        /\ events' = [events EXCEPT ![k] = Insert(@, seq[t], e)]
        /\ SetRow(k, s)
        /\ UNCHANGED answers

\* complete inserts an assistant message, whatever the status was.
Answered(t, s) ==
    /\ Owned(t)
    /\ answers' = [answers EXCEPT ![key[t]] = @ + 1]
    /\ SetRow(key[t], s)
    /\ UNCHANGED events

----------------------------------------------------------------------------
Init ==
    /\ status = [k \in Keys |-> "none"]
    /\ owner = [k \in Keys |-> NoTurn]
    /\ lease = [k \in Keys |-> 0]
    /\ events = [k \in Keys |-> [i \in {} |-> "chat.started"]]
    /\ answers = [k \in Keys |-> 0]
    /\ pc = [t \in Turns |-> "idle"]
    /\ key = [t \in Turns |-> NoKey]
    /\ mode = [t \in Turns |-> "ask"]
    /\ token = [t \in Turns |-> NoTurn]
    /\ seq = [t \in Turns |-> 0]
    /\ beat = [t \in Turns |-> "off"]
    /\ losses = 0

(* reserve *)

Arrive(t, k, m) ==
    /\ pc[t] = "idle" /\ beat[t] = "off"
    /\ Goto(t, "loading")
    /\ key' = [key EXCEPT ![t] = k]
    /\ mode' = [mode EXCEPT ![t] = m]
    /\ UNCHANGED <<token, seq, beat, losses>>

ReserveNew(t, k, m) ==
    /\ Arrive(t, k, m)
    /\ status[k] = "none"
    /\ status' = [status EXCEPT ![k] = "reserved"]
    /\ owner' = [owner EXCEPT ![k] = t]
    /\ lease' = [lease EXCEPT ![k] = Lease]
    /\ UNCHANGED <<events, answers>>

\* Mutants of ReserveStale: the retry takes the request over and starts it
\* again; the interruption is not logged.
ReserveTakesOver(t, k, m) ==
    /\ Arrive(t, k, m)
    /\ status[k] \in Active /\ lease[k] = 0
    /\ owner' = [owner EXCEPT ![k] = t]
    /\ lease' = [lease EXCEPT ![k] = Lease]
    /\ UNCHANGED <<status, events, answers>>

ReserveStaleUnlogged(t, k, m) ==
    /\ Arrive(t, k, m)
    /\ status[k] \in Active /\ lease[k] = 0
    /\ SetRow(k, "interrupted")
    /\ UNCHANGED <<events, answers>>

\* A retry that finds the lease over interrupts the request (_interrupt_locked)
\* and is answered with that; nobody takes the request over.
ReserveStale(t, k, m) ==
    /\ Arrive(t, k, m)
    /\ status[k] \in Active /\ lease[k] = 0
    /\ events' = [events EXCEPT ![k] = Insert(@, Last(@) + 1, "chat.failed")]
    /\ SetRow(k, "interrupted")
    /\ UNCHANGED answers

ReserveSettled(t, k, m) ==
    /\ Arrive(t, k, m)
    /\ status[k] \in Settled
    /\ UNCHANGED table

\* _load: a settled row is replayed to the client.  Otherwise the turn goes to
\* work with the owner it reads, and the heartbeat starts.
Load(t) ==
    /\ pc[t] = "loading"
    /\ IF status[key[t]] \in Settled
       THEN Return(t)
       ELSE /\ Goto(t, IF mode[t] = "ask" THEN "asking" ELSE "starting")
            /\ token' = [token EXCEPT ![t] = owner[key[t]]]
            /\ seq' = [seq EXCEPT ![t] = 1]
            /\ beat' = [beat EXCEPT ![t] = "on"]
            /\ UNCHANGED <<key, mode>>
    /\ UNCHANGED <<table, losses>>

\* _lease_heartbeat; it ends when the lease is lost, a database error is retried.
Renew(t) ==
    /\ beat[t] # "off"
    /\ lease' = IF Owned(t) THEN [lease EXCEPT ![key[t]] = Lease] ELSE lease
    /\ beat' = [beat EXCEPT ![t] = IF Owned(t) /\ @ = "on" THEN "on" ELSE "off"]
    /\ UNCHANGED <<status, owner, events, answers, pc, key, mode, token, seq, losses>>

(* complete(): one answer *)

ModelAnswers(t) ==
    /\ pc[t] = "asking"
    /\ Goto(t, "answering")
    /\ UNCHANGED <<table, key, mode, token, seq, beat, losses>>

ModelRaises(t) ==
    /\ pc[t] = "asking"
    /\ Goto(t, "failing")
    /\ UNCHANGED <<table, key, mode, token, seq, beat, losses>>

\* Its ChatLeaseLost, like that of complete, leaves the row alone.
Fail(t) ==
    /\ pc[t] = "failing" /\ mode[t] = "ask"
    /\ IF Owned(t)
       THEN SetRow(key[t], "failed") /\ UNCHANGED <<events, answers>>
       ELSE UNCHANGED table
    /\ Return(t)
    /\ UNCHANGED losses

Complete(t) ==
    /\ pc[t] = "answering"
    /\ Answered(t, "completed") \/ (~Owned(t) /\ UNCHANGED table)
    /\ Return(t)
    /\ UNCHANGED losses

(* stream_prepared(): started, deltas, answer, usage, completed *)

\* An event is stored and the stream goes on.
Advance(t, e, s, l) ==
    /\ Appended(t, e, s)
    /\ Goto(t, l)
    /\ seq' = [seq EXCEPT ![t] = @ + 1]
    /\ UNCHANGED <<key, mode, token, beat, losses>>

Started(t) ==
    pc[t] = "starting" /\ Advance(t, "chat.started", "running", "streaming")

Delta(t) ==
    /\ pc[t] = "streaming" /\ seq[t] <= MaxDeltas + 1
    /\ Advance(t, "chat.delta", "running", "streaming")

\* The delta is committed, but its call raises: the sequence number is not
\* advanced, and chat.failed will find it taken.
DeltaReplyLost(t) ==
    /\ pc[t] = "streaming" /\ seq[t] <= MaxDeltas + 1
    /\ losses < MaxLosses
    /\ losses' = losses + 1
    /\ Appended(t, "chat.delta", "running")
    /\ Goto(t, "failing")
    /\ UNCHANGED <<key, mode, token, seq, beat>>

\* The model has finished, or has raised as a delta without a lease does, or
\* the client is gone.
StreamEnds(t, l) ==
    /\ pc[t] = "streaming"
    /\ Goto(t, l)
    /\ UNCHANGED <<table, key, mode, token, seq, beat, losses>>

\* Mutant of StreamFailed: the event does not settle the request.
StreamFailedOpen(t) ==
    /\ pc[t] \in {"failing", "interrupting"} /\ mode[t] = "stream"
    /\ Appended(t, "chat.failed", "running")
    /\ Return(t)
    /\ UNCHANGED losses

StreamFailed(t) ==
    /\ pc[t] \in {"failing", "interrupting"} /\ mode[t] = "stream"
    /\ Appended(t, "chat.failed", IF pc[t] = "failing" THEN "failed" ELSE "interrupted")
    /\ Return(t)
    /\ UNCHANGED losses

\* Mutant of Persist: the answer settles the request before its last events.
PersistCompleted(t) ==
    /\ pc[t] = "persisting"
    /\ Answered(t, "completed")
    /\ Goto(t, "usage")
    /\ UNCHANGED <<key, mode, token, seq, beat, losses>>

Persist(t) ==
    /\ pc[t] = "persisting"
    /\ Answered(t, "finalizing")
    /\ Goto(t, "usage")
    /\ UNCHANGED <<key, mode, token, seq, beat, losses>>

Usage(t) ==
    pc[t] = "usage" /\ Advance(t, "chat.usage", "finalizing", "finishing")

Completed(t) ==
    /\ pc[t] = "finishing"
    /\ Appended(t, "chat.completed", "completed")
    /\ Return(t)
    /\ UNCHANGED losses

\* The event, or the answer, a turn is about to store.
Event(t) ==
    IF pc[t] = "starting" THEN "chat.started"
    ELSE IF pc[t] = "usage" THEN "chat.usage"
    ELSE IF pc[t] = "finishing" THEN "chat.completed"
    ELSE "chat.failed"

\* ChatLeaseLost and ChatEventSequenceConflict leave the generator.
Refused(t) ==
    /\ pc[t] \in {"starting", "failing", "interrupting", "persisting", "usage", "finishing"}
    /\ mode[t] = "stream"
    /\ \/ ~Owned(t)
       \/ /\ pc[t] # "persisting" /\ seq[t] \in Numbers(key[t])
          /\ events[key[t]][seq[t]] # Event(t)
    /\ Return(t)
    /\ UNCHANGED <<table, losses>>

\* The turn vanishes and writes nothing more: its process dies, its handler is
\* cancelled, the producer is cancelled while it waits for the queue (and its
\* generator is closed), a store call raises.
Vanish(t) ==
    /\ pc[t] # "idle" /\ losses < MaxLosses
    /\ losses' = losses + 1
    /\ Return(t)
    /\ UNCHANGED table

\* Nothing ties the clock to a turn: its process may be stopped for any time.
Tick ==
    /\ \E k \in Keys : lease[k] > 0
    /\ lease' = [k \in Keys |-> IF lease[k] > 0 THEN lease[k] - 1 ELSE 0]
    /\ UNCHANGED <<status, owner, events, answers, turn, losses>>

----------------------------------------------------------------------------
Reserve(t, k, m) ==
    ReserveNew(t, k, m) \/ ReserveStale(t, k, m) \/ ReserveSettled(t, k, m)

Step(t) ==
    \/ Load(t)
    \/ ModelAnswers(t) \/ ModelRaises(t) \/ Fail(t) \/ Complete(t)
    \/ Started(t) \/ Delta(t)
    \/ \E l \in {"persisting", "failing", "interrupting"} : StreamEnds(t, l)
    \/ StreamFailed(t) \/ Persist(t) \/ Usage(t) \/ Completed(t) \/ Refused(t)

Next ==
    \/ \E t \in Turns, k \in Keys, m \in {"ask", "stream"} : Reserve(t, k, m)
    \/ \E t \in Turns : Step(t) \/ Renew(t) \/ DeltaReplyLost(t) \/ Vanish(t)
    \/ Tick

Spec == Init /\ [][Next]_vars

\* The event loop runs every turn, the model and the heartbeat's call end, the
\* clock moves, and a client sends its request again.
Fairness ==
    /\ \A t \in Turns : WF_vars(Step(t)) /\ WF_vars(beat[t] = "late" /\ Renew(t))
    /\ \A k \in Keys : WF_vars(\E t \in Turns : Reserve(t, k, "stream"))
    /\ WF_vars(Tick)

LiveSpec == Spec /\ Fairness

----------------------------------------------------------------------------
(* Properties *)

TypeOK ==
    /\ status \in [Keys -> {"none"} \cup Active \cup Settled]
    /\ owner \in [Keys -> Turns \cup {NoTurn}]
    /\ lease \in [Keys -> 0..Lease]
    /\ \A k \in Keys : Numbers(k) \subseteq Nat /\ events[k] \in [Numbers(k) -> EventTypes]
    /\ answers \in [Keys -> Nat]
    /\ pc \in [Turns -> {"idle", "loading", "asking", "answering", "failing", "starting",
                          "streaming", "interrupting", "persisting", "usage", "finishing"}]
    /\ key \in [Turns -> Keys \cup {NoKey}]
    /\ mode \in [Turns -> {"ask", "stream"}]
    /\ token \in [Turns -> Turns \cup {NoTurn}]
    /\ seq \in [Turns -> Nat]
    /\ beat \in [Turns -> {"off", "on", "late"}]
    /\ losses \in 0..MaxLosses

Working(t, k) == pc[t] \notin {"idle", "loading"} /\ key[t] = k

\* The model is asked for one answer per request: no two turns ever work on
\* the same one, on any replica, not even after a lease is lost; and while the
\* request is active, a turn that works on it is its owner.
OneWorker ==
    \A k \in Keys, t \in Turns : Working(t, k) =>
        /\ \A u \in Turns \ {t} : ~Working(u, k)
        /\ status[k] \in Active => owner[k] = t

\* No duplicate assistant messages (docs/INDUSTRIAL_L4_OPERATOR_RUNBOOK.md), and
\* a completed request has its answer.
OneAnswer ==
    \A k \in Keys :
        /\ answers[k] <= 1
        /\ status[k] = "completed" => answers[k] = 1

\* The stored stream is numbered without a gap, begins with chat.started, and
\* ends, if it ends, with one chat.completed behind chat.usage or one
\* chat.failed: exactly when the request has settled.
LogWellFormed ==
    \A k \in Keys :
        LET n == Last(events[k])
            At(i) == events[k][i]
        IN  /\ Numbers(k) = 1..n
            /\ \A i \in 1..n : i < n => At(i) \notin {"chat.completed", "chat.failed"}
            /\ n > 0 /\ At(n) = "chat.completed"
                 => status[k] = "completed" /\ At(n - 1) = "chat.usage"
            /\ n > 0 /\ At(n) = "chat.failed" => status[k] \in {"failed", "interrupted"}
            /\ n > 0 /\ status[k] \in Settled => At(n) \in {"chat.completed", "chat.failed"}
            /\ n > 1 => At(1) = "chat.started"

\* What a client has been told never changes: a settled request keeps its
\* status, its events and its answer, whatever its late turn still tries.
SettledFinal ==
    [][\A k \in Keys : status[k] \in Settled =>
         UNCHANGED <<status[k], events[k], answers[k]>>]_vars

\* What clients may rely on, ChatTurn, is what the repository and its turns do.
phase == [k \in Keys |->
            IF status[k] = "none" THEN "absent"
            ELSE IF status[k] \in Active THEN "open"
            ELSE IF status[k] = "completed" THEN "completed"
            ELSE "failed"]

Promise == INSTANCE ChatTurn WITH Requests <- Keys, log <- events

ImplementsPromise == Promise!Spec

\* A request that has begun settles, if its client keeps asking.
Settles == \A k \in Keys : status[k] # "none" ~> status[k] \in Settled
=============================================================================
