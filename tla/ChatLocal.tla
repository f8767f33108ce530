------------------------------ MODULE ChatLocal ------------------------------
(***************************************************************************)
(* Chat requests without a database: ChatTurnService over the JSON store   *)
(* (appsync/chat_service.py, appsync/chat_routes.py, appsync/store.py),    *)
(* where the idempotency record is all that ties two turns of one request. *)
(* Everything runs on one event loop, so a turn moves from one await to    *)
(* the next in a single step; a stored file counts as written (SharedStore *)
(* is about files that are not).  The user message that begins every turn  *)
(* is left out.                                                            *)
(***************************************************************************)
EXTENDS Naturals, Sequences, FiniteSets

CONSTANTS
    Keys, NoKey,  \* chat requests: actor, endpoint, idempotency key and payload
    Turns,        \* HTTP requests being served by the process
    MaxDeltas,    \* bound: deltas the model streams
    MaxOverlaps,  \* bound: turns let in beside another, for each request
    MaxCrashes    \* bound: deaths of the process

ConstantsOK ==
    /\ NoKey \notin Keys /\ IsFiniteSet(Turns)
    /\ MaxDeltas \in Nat /\ MaxOverlaps \in Nat /\ MaxCrashes \in Nat

InProgress == {"reserved", "streaming"}
Ended == {"completed", "failed", "interrupted"}
EventTypes == {"chat.started", "chat.delta", "chat.usage", "chat.completed", "chat.failed"}

VARIABLES
    record,   \* of each request: "none", "answered" (by an ask), or its stream_status
    log,      \* stream_events of the record
    answers,  \* assistant messages stored for the request
    causes,   \* history: what may lead to one more answer
    pc, key,  \* of each turn
    overlaps, crashes   \* what MaxOverlaps and MaxCrashes count

stored == <<record, log, answers>>
vars == <<stored, causes, pc, key, overlaps, crashes>>

Working(t, k) == pc[t] # "idle" /\ key[t] = k
Goto(t, l) == pc' = [pc EXCEPT ![t] = l]
Excuse(k) == causes' = [causes EXCEPT ![k] = @ + 1]

\* _append_stream_event.
Appended(t, e, s) ==
    /\ log' = [log EXCEPT ![key[t]] = Append(@, e)]
    /\ record' = [record EXCEPT ![key[t]] = s]

----------------------------------------------------------------------------
Init ==
    /\ record = [k \in Keys |-> "none"]
    /\ log = [k \in Keys |-> <<>>]
    /\ answers = [k \in Keys |-> 0]
    /\ causes = [k \in Keys |-> 0]
    /\ pc = [t \in Turns |-> "idle"]
    /\ key = [t \in Turns |-> NoKey]
    /\ overlaps = [k \in Keys |-> 0] /\ crashes = 0

\* A turn goes to work on a request that has no record.  Nothing tells it that
\* another one already does.
Begin(t, k, l) ==
    /\ pc[t] = "idle"
    /\ record[k] = "none"
    /\ Goto(t, l)
    /\ key' = [key EXCEPT ![t] = k]
    /\ IF \E u \in Turns : Working(u, k)
       THEN /\ overlaps[k] < MaxOverlaps
            /\ overlaps' = [overlaps EXCEPT ![k] = @ + 1]
            /\ Excuse(k)
       ELSE UNCHANGED <<overlaps, causes>>
    /\ UNCHANGED <<log, answers, crashes>>

\* _cached: a request that has a record is answered from it, or with 409 while
\* its stream is in progress.
Cached(k) == record[k] # "none" /\ UNCHANGED vars

\* complete, until it awaits the model: the request gets no record yet.
Ask(t, k) == Begin(t, k, "asking") /\ UNCHANGED record

\* Mutant of Reserve: the stream is not recorded before it starts.
ReserveUnrecorded(t, k) == Begin(t, k, "starting") /\ UNCHANGED record

\* prepare_stream.
Reserve(t, k) ==
    /\ Begin(t, k, "starting")
    /\ record' = [record EXCEPT ![k] = "reserved"]

\* Mutant of PersistResult: the record forgets the stream it had.
PersistForgets(t) ==
    LET k == key[t]
    IN  /\ answers' = [answers EXCEPT ![k] = @ + 1]
        /\ record' = [record EXCEPT ![k] = "answered"]
        /\ log' = [log EXCEPT ![k] = <<>>]

\* _persist_result: the answer, and then its record, which keeps the stream's
\* events and status if the request has a stream.
PersistResult(t) ==
    LET k == key[t]
    IN  /\ answers' = [answers EXCEPT ![k] = @ + 1]
        /\ record' = [record EXCEPT ![k] = IF @ = "none" THEN "answered" ELSE @]
        /\ UNCHANGED log

\* complete, when the model has answered or raised.
Complete(t) ==
    /\ pc[t] = "asking"
    /\ PersistResult(t) \/ UNCHANGED stored
    /\ Goto(t, "idle")
    /\ UNCHANGED <<causes, key, overlaps, crashes>>

\* An event is stored and put into the queue of events().
Emit(t, e, s, l) ==
    /\ Appended(t, e, s)
    /\ Goto(t, l)
    /\ UNCHANGED <<answers, causes, key, overlaps, crashes>>

Started(t) == pc[t] = "starting" /\ Emit(t, "chat.started", "streaming", "streaming")

Delta(t) ==
    /\ pc[t] = "streaming" /\ Len(log[key[t]]) <= MaxDeltas
    /\ Emit(t, "chat.delta", "streaming", "streaming")

\* The model raises, or the turn is cancelled while it awaits the model.
StreamFails(t) ==
    /\ pc[t] = "streaming"
    /\ \E s \in {"failed", "interrupted"} : Emit(t, "chat.failed", s, "idle")

\* The model is done.
Persist(t) ==
    /\ pc[t] = "streaming"
    /\ PersistResult(t)
    /\ Goto(t, "answered")
    /\ UNCHANGED <<causes, key, overlaps, crashes>>

Usage(t) == pc[t] = "answered" /\ Emit(t, "chat.usage", "streaming", "finishing")

Completed(t) == pc[t] = "finishing" /\ Emit(t, "chat.completed", "completed", "idle")

\* A turn is given up where it stands: the handler of an ask is cancelled, or
\* the producer while it waits for the queue, whose generator is then closed.
\* The record of a stream goes on saying that it is in progress.
GiveUp(t) ==
    /\ pc[t] \in {"asking", "starting", "streaming", "finishing"}
    /\ Goto(t, "idle")
    /\ UNCHANGED <<stored, causes, key, overlaps, crashes>>

\* The process dies, perhaps with an answer stored that is not yet recorded.
Crash ==
    /\ crashes < MaxCrashes
    /\ crashes' = crashes + 1
    /\ pc' = [t \in Turns |-> "idle"]
    /\ \/ UNCHANGED <<answers, causes>>
       \/ \E t \in Turns :
            /\ pc[t] \in {"asking", "streaming"}
            /\ answers' = [answers EXCEPT ![key[t]] = @ + 1]
            /\ Excuse(key[t])
    /\ UNCHANGED <<record, log, key, overlaps>>

----------------------------------------------------------------------------
Step(t) ==
    \/ Complete(t) \/ Started(t) \/ Delta(t) \/ StreamFails(t)
    \/ Persist(t) \/ Usage(t) \/ Completed(t)

\* There is no await between an answer and its chat.usage.
MayRun(t) == \A u \in Turns \ {t} : pc[u] # "answered"

Next ==
    \/ \E t \in Turns :
         /\ MayRun(t)
         /\ Step(t) \/ GiveUp(t) \/ \E k \in Keys : Ask(t, k) \/ Reserve(t, k)
    \/ \E k \in Keys : Cached(k)
    \/ Crash

Spec == Init /\ [][Next]_vars

----------------------------------------------------------------------------
(* Properties *)

TypeOK ==
    /\ record \in [Keys -> {"none", "answered"} \cup InProgress \cup Ended]
    /\ log \in [Keys -> Seq(EventTypes)]
    /\ answers \in [Keys -> Nat]
    /\ causes \in [Keys -> Nat]
    /\ pc \in [Turns -> {"idle", "asking", "starting", "streaming", "answered", "finishing"}]
    /\ key \in [Turns -> Keys \cup {NoKey}]
    /\ overlaps \in [Keys -> 0..MaxOverlaps] /\ crashes \in 0..MaxCrashes

\* A request is answered once, and once more at most for each turn that was let
\* in beside another (each runs the model and stores its own answer) and for
\* each death between an answer and its record.
AnswerNeedsCause ==
    \A k \in Keys : answers[k] <= 1 + causes[k]

\* However many turns the request gets, it has one stream: one turn at a time
\* writes it, it begins with chat.started and is ended by one chat.completed
\* behind chat.usage, or one chat.failed, exactly when its record says so.
OneStream ==
    \A k \in Keys :
        LET n == Len(log[k])
        IN  /\ \A t, u \in Turns :
                 /\ Working(t, k) /\ pc[t] # "asking"
                 /\ Working(u, k) /\ pc[u] # "asking"
                 => t = u
            /\ n > 0 => log[k][1] = "chat.started"
            /\ \A i \in 1..n : log[k][i] \in {"chat.completed", "chat.failed"} => i = n
            /\ record[k] \in {"failed", "interrupted"}
                 <=> n > 0 /\ log[k][n] = "chat.failed"
            /\ record[k] = "completed" <=> n > 0 /\ log[k][n] = "chat.completed"
            /\ record[k] = "completed" => log[k][n - 1] = "chat.usage" /\ answers[k] > 0

\* A stream that has ended stays as it was, whatever asks end later, and an
\* answered request is never taken for a new one.
EndedFinal ==
    [][\A k \in Keys :
        /\ record[k] \in Ended => UNCHANGED <<record[k], log[k]>>
        /\ record[k] # "none" => record'[k] # "none"]_vars
=============================================================================
