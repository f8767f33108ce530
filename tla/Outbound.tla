------------------------------ MODULE Outbound ------------------------------
(***************************************************************************)
(* Outbound channel messages: the durable queue (PostgresOutboundMessage-  *)
(* Store in repositories/postgres_state.py, whose SQLite original is       *)
(* core/outbound_messages.py), the dispatchers that send its rows to a     *)
(* provider (core/outbound_dispatcher.py) and the operator's retry and     *)
(* cancel (server_routes/admin_routes.py).                                 *)
(*                                                                         *)
(* What matters is how often the provider accepts a message, which no      *)
(* column records: delivered counts it, causes counts what may excuse a    *)
(* second delivery.  Time is relative, as in JobQueue.  delivery_deadline  *)
(* is left out: no caller of create passes one.                            *)
(***************************************************************************)
EXTENDS Integers, FiniteSets

CONSTANTS
    MaxMessages,  \* bound: rows created
    Dispatchers,  \* replicas, each running one OutboundDispatcher
    MaxRetries, Base, Lease, Overrun, RestartDelay,   \* as in JobQueue
    MaxCrashes,   \* bound: crashes and stops
    MaxErrors,    \* bound: store calls that raise
    MaxCancels,   \* bound: operator cancels
    MaxRequeues   \* bound: operator retries

Backoff(n) == Base * 2^(n - 1)

ConstantsOK ==
    /\ IsFiniteSet(Dispatchers)
    /\ MaxMessages \in Nat /\ MaxRetries \in Nat /\ Lease \in Nat \ {0}
    /\ RestartDelay \in Nat /\ MaxCrashes \in Nat /\ MaxErrors \in Nat
    /\ MaxCancels \in Nat /\ MaxRequeues \in Nat /\ Overrun \in BOOLEAN
    /\ \A n \in 1..MaxRetries : Backoff(n) \in Nat \ {0}

Messages == 1..MaxMessages   \* in the order of created_at
NoMessage == 0
Terminal == {"sent", "dead_letter", "cancelled"}   \* TERMINAL_OUTBOUND_STATUSES
Status == Terminal \cup {"none", "pending", "retry", "running", "ambiguous"}

\* How send_text may end, and what classify_channel_error makes of it: the
\* dispatcher is sure, unsure (timeout, network_error, provider_5xx), may try
\* again (rate_limit, unknown) or must not (auth, bad request, policy, config).
Reply == {"accepted", "unsure", "refused", "rejected"}

VARIABLES
    created,    \* rows created so far
    status, retryCount, wait, age,   \* the columns of each row
    delivered,  \* history: how often the provider has accepted the message
    causes,     \* history: events that may lead to one more delivery
    pc, msg, todo, downFor,          \* the dispatcher loops, as in JobQueue
    crashes, errors, cancels, requeues

rows == <<created, status, retryCount, wait, age>>
loop == <<pc, msg, todo, downFor>>
bounds == <<crashes, errors, cancels, requeues>>
vars == <<rows, delivered, causes, loop, bounds>>

Ready(m) == status[m] \in {"pending", "retry"} /\ wait[m] = 0
Oldest(m) == Ready(m) /\ \A i \in Messages : Ready(i) => m <= i
Stale(m) == status[m] = "running" /\ age[m] = Lease
Holds(d, m) == pc[d] \in {"sending"} \cup Reply /\ msg[d] = m

Goto(d, l) == pc' = [pc EXCEPT ![d] = l]
Excuse(m) == causes' = [causes EXCEPT ![m] = @ + 1]

\* A row leaves "running" (or wherever it is) with its lock cleared.
SetStatus(m, s, n, t) ==
    /\ status' = [status EXCEPT ![m] = s]
    /\ retryCount' = [retryCount EXCEPT ![m] = n]
    /\ wait' = [wait EXCEPT ![m] = t]
    /\ age' = [age EXCEPT ![m] = 0]
    /\ UNCHANGED created

\* Mutant of SetFailed: a failed send is retried for ever.
SetFailedForever(m, dead) ==
    LET n == IF retryCount[m] < MaxRetries THEN retryCount[m] + 1 ELSE retryCount[m]
    IN  IF dead THEN SetStatus(m, "dead_letter", n, 0)
        ELSE SetStatus(m, "retry", n, Backoff(1))

\* mark_failed, which has no condition on the status it overwrites.
SetFailed(m, dead) ==
    LET n == retryCount[m] + 1
    IN  IF dead \/ n > MaxRetries
        THEN SetStatus(m, "dead_letter", n, 0)
        ELSE SetStatus(m, "retry", n, Backoff(n))

----------------------------------------------------------------------------
Init ==
    /\ created = 0
    /\ status = [m \in Messages |-> "none"]
    /\ retryCount = [m \in Messages |-> 0]
    /\ wait = [m \in Messages |-> 0]
    /\ age = [m \in Messages |-> 0]
    /\ delivered = [m \in Messages |-> 0]
    /\ causes = [m \in Messages |-> 0]
    /\ pc = [d \in Dispatchers |-> "down"]
    /\ msg = [d \in Dispatchers |-> NoMessage]
    /\ todo = [d \in Dispatchers |-> {}]
    /\ downFor = [d \in Dispatchers |-> RestartDelay]
    /\ crashes = 0 /\ errors = 0 /\ cancels = 0 /\ requeues = 0

\* channels.send_text queues a message under a fresh idempotency key.
Create ==
    /\ created < MaxMessages
    /\ created' = created + 1
    /\ status' = [status EXCEPT ![created + 1] = "pending"]
    /\ UNCHANGED <<retryCount, wait, age, delivered, causes, loop, bounds>>

\* start: list the rows whose lease is over ...
Start(d) ==
    /\ pc[d] = "down" /\ downFor[d] = RestartDelay
    /\ Goto(d, "recovering")
    /\ todo' = [todo EXCEPT ![d] = {m \in Messages : Stale(m)}]
    /\ downFor' = [downFor EXCEPT ![d] = 0]
    /\ UNCHANGED <<rows, delivered, causes, msg, bounds>>

\* ... and mark each failed, whatever has become of it since.  If its
\* dispatcher still lives, or has just settled it, it may be delivered again.
RecoverRow(d) ==
    /\ pc[d] = "recovering"
    /\ \E m \in todo[d] :
        /\ SetFailed(m, FALSE)
        /\ todo' = [todo EXCEPT ![d] = @ \ {m}]
        /\ IF status[m] \in {"sent", "ambiguous", "cancelled"} \/ \E e \in Dispatchers : Holds(e, m)
           THEN Excuse(m) ELSE UNCHANGED causes
    /\ UNCHANGED <<delivered, pc, msg, downFor, bounds>>

RunForever(d) ==
    /\ pc[d] = "recovering" /\ todo[d] = {}
    /\ Goto(d, "idle")
    /\ UNCHANGED <<rows, delivered, causes, msg, todo, downFor, bounds>>

ClaimNext(d) ==
    /\ pc[d] = "idle"
    /\ \E m \in Messages :
        /\ Oldest(m)
        /\ status' = [status EXCEPT ![m] = "running"]
        /\ age' = [age EXCEPT ![m] = 0]
        /\ msg' = [msg EXCEPT ![d] = m]
    /\ Goto(d, "sending")
    /\ UNCHANGED <<created, retryCount, wait, delivered, causes, todo, downFor, bounds>>

\* adapter.send_text returns or raises.  A reply that leaves the dispatcher
\* unsure may hide a delivery; one it is sure of does not.
SendText(d, r) ==
    /\ pc[d] = "sending"
    /\ Goto(d, r)
    /\ \/ r # "accepted" /\ UNCHANGED delivered
       \/ /\ r \in {"accepted", "unsure"}
          /\ delivered' = [delivered EXCEPT ![msg[d]] = @ + 1]
    /\ UNCHANGED <<rows, causes, msg, todo, downFor, bounds>>

\* The row a dispatcher is done with, and the loop's next turn.
Settle(d) ==
    /\ Goto(d, "idle")
    /\ msg' = [msg EXCEPT ![d] = NoMessage]
    /\ UNCHANGED <<delivered, causes, todo, downFor, bounds>>

\* Mutant of MarkSent: whatever the provider said, the send is recorded.
MarkSentAnyReply(d) ==
    /\ pc[d] \in {"accepted", "refused"}
    /\ SetStatus(msg[d], "sent", retryCount[msg[d]], wait[msg[d]])
    /\ Settle(d)

MarkSent(d) ==
    /\ pc[d] = "accepted"
    /\ SetStatus(msg[d], "sent", retryCount[msg[d]], wait[msg[d]])
    /\ Settle(d)

\* Mutant of MarkAmbiguous: an unsure send is retried like a refused one.
MarkAmbiguousRetried(d) ==
    /\ pc[d] = "unsure"
    /\ SetFailed(msg[d], FALSE)
    /\ Settle(d)

\* No provider is "native" in PROVIDER_IDEMPOTENCY: every unsure send waits
\* for the operator.
MarkAmbiguous(d) ==
    /\ pc[d] = "unsure"
    /\ SetStatus(msg[d], "ambiguous", retryCount[msg[d]], 0)
    /\ Settle(d)

MarkFailed(d) ==
    /\ pc[d] \in {"refused", "rejected"}
    /\ SetFailed(msg[d], pc[d] = "rejected")
    /\ Settle(d)

\* A store call raises.  mark_sent runs inside the try around the send, so its
\* error is classified as if the provider had failed; any other ends the loop.
StoreRaises(d) ==
    /\ errors < MaxErrors
    /\ errors' = errors + 1
    /\ \/ /\ pc[d] = "accepted"
          /\ \E r \in {"unsure", "refused"} : Goto(d, r)
          /\ Excuse(msg[d])
          /\ UNCHANGED msg
       \/ /\ pc[d] \in {"idle", "unsure", "refused", "rejected"}
          /\ Goto(d, "dead")
          /\ msg' = [msg EXCEPT ![d] = NoMessage]
          /\ IF pc[d] = "unsure" THEN Excuse(msg[d]) ELSE UNCHANGED causes
    /\ UNCHANGED <<rows, delivered, todo, downFor, crashes, cancels, requeues>>

\* The process dies, or stop() cancels the send.
Crash(d) ==
    /\ pc[d] # "down" /\ crashes < MaxCrashes
    /\ crashes' = crashes + 1
    /\ Goto(d, "down")
    /\ msg' = [msg EXCEPT ![d] = NoMessage]
    /\ todo' = [todo EXCEPT ![d] = {}]
    /\ IF pc[d] \in Reply THEN Excuse(msg[d]) ELSE UNCHANGED causes
    /\ UNCHANGED <<rows, delivered, downFor, errors, cancels, requeues>>

(* The operator *)

\* cancel: also from running, whose dispatcher does not notice.
Cancel(m) ==
    /\ status[m] \notin {"none", "sent", "cancelled"} /\ cancels < MaxCancels
    /\ cancels' = cancels + 1
    /\ SetStatus(m, "cancelled", retryCount[m], wait[m])
    /\ UNCHANGED <<delivered, causes, loop, crashes, errors, requeues>>

\* Mutant of Requeue: a sent message may be sent again.
RequeueAny(m) ==
    /\ status[m] \notin {"none", "running"} /\ requeues < MaxRequeues
    /\ requeues' = requeues + 1
    /\ SetStatus(m, "pending", 0, 0)
    /\ Excuse(m)
    /\ UNCHANGED <<delivered, loop, crashes, errors, cancels>>

\* requeue: not from running or sent.
Requeue(m) ==
    /\ status[m] \in {"pending", "retry", "dead_letter", "ambiguous", "cancelled"}
    /\ requeues < MaxRequeues
    /\ requeues' = requeues + 1
    /\ SetStatus(m, "pending", 0, 0)
    /\ Excuse(m)
    /\ UNCHANGED <<delivered, loop, crashes, errors, cancels>>

\* Mutant of Tick: the wait has no floor.
TickBelowZero ==
    /\ \A d \in Dispatchers : pc[d] # "recovering"
    /\ wait' = [m \in Messages |-> wait[m] - 1]
    /\ UNCHANGED <<created, status, retryCount, age, delivered, causes, loop, bounds>>

Tick ==
    /\ \A d \in Dispatchers : pc[d] # "recovering"
    /\ ~Overrun => \A d \in Dispatchers, m \in Messages : Holds(d, m) => age[m] + 1 < Lease
    /\ age' = [m \in Messages |->
                 IF status[m] = "running" /\ age[m] < Lease THEN age[m] + 1 ELSE age[m]]
    /\ wait' = [m \in Messages |-> IF wait[m] > 0 THEN wait[m] - 1 ELSE 0]
    /\ downFor' = [d \in Dispatchers |->
                     IF pc[d] = "down" /\ downFor[d] < RestartDelay
                     THEN downFor[d] + 1 ELSE downFor[d]]
    /\ UNCHANGED <<created, status, retryCount, delivered, causes, pc, msg, todo, bounds>>

----------------------------------------------------------------------------
Step(d) ==
    \/ Start(d) \/ RecoverRow(d) \/ RunForever(d) \/ ClaimNext(d)
    \/ \E r \in Reply : SendText(d, r)
    \/ MarkSent(d) \/ MarkAmbiguous(d) \/ MarkFailed(d)

Next ==
    \/ Create
    \/ \E d \in Dispatchers : Step(d) \/ StoreRaises(d) \/ Crash(d)
    \/ \E m \in Messages : Cancel(m) \/ Requeue(m)
    \/ Tick

Spec == Init /\ [][Next]_vars

\* As in JobQueue: the loops run, a send ends, time passes, replicas restart.
Fairness == (\A d \in Dispatchers : WF_vars(Step(d))) /\ WF_vars(Tick)

----------------------------------------------------------------------------
(* Properties *)

TypeOK ==
    /\ created \in 0..MaxMessages
    /\ status \in [Messages -> Status]
    /\ retryCount \in [Messages -> Nat]
    /\ wait \in [Messages -> Nat]
    /\ age \in [Messages -> 0..Lease]
    /\ delivered \in [Messages -> Nat]
    /\ causes \in [Messages -> Nat]
    /\ pc \in [Dispatchers -> {"down", "recovering", "idle", "sending", "dead"} \cup Reply]
    /\ msg \in [Dispatchers -> Messages \cup {NoMessage}]
    /\ todo \in [Dispatchers -> SUBSET Messages]
    /\ downFor \in [Dispatchers -> 0..RestartDelay]
    /\ crashes \in 0..MaxCrashes /\ errors \in 0..MaxErrors
    /\ cancels \in 0..MaxCancels /\ requeues \in 0..MaxRequeues

\* The provider accepts a message once, and once more at most for each crash or
\* store error behind an attempted send, each recovery of a row that is still
\* being sent or just was, and each retry by the operator.  The loop itself never sends twice.
DuplicateNeedsCause ==
    \A m \in Messages : delivered[m] <= 1 + causes[m]

\* A message recorded as sent has been accepted by the provider.
SentWasDelivered ==
    \A m \in Messages : status[m] = "sent" => delivered[m] > 0

\* With one replica, a sent message stays sent and an ambiguous one waits for
\* the operator, whatever the operator does while the row is being sent.
Reconciled ==
    [][\A m \in Messages :
        /\ status[m] = "sent" => status'[m] = "sent"
        /\ status[m] = "ambiguous" /\ status'[m] # "ambiguous"
             => cancels' # cancels \/ requeues' # requeues]_vars

\* A cancelled message stays cancelled unless the operator retries it.
CancelledFinal ==
    [][\A m \in Messages : status[m] = "cancelled" /\ status'[m] # "cancelled"
         => requeues' # requeues]_vars

\* Every message comes to rest.
Settles ==
    \A m \in Messages : status[m] # "none" ~> status[m] \in Terminal \cup {"ambiguous"}
=============================================================================
