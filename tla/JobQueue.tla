------------------------------ MODULE JobQueue ------------------------------
(***************************************************************************)
(* The webhook job queue (omnidesk_agent/core/job_queue.py, and its        *)
(* Postgres twin in repositories/postgres_state.py) and the worker loops   *)
(* that drain it (core/worker.py), one loop per replica.                   *)
(*                                                                         *)
(* A store call of several statements that the code does not put in one    *)
(* transaction is several steps here.  Which calls those are depends on    *)
(* the backend: SQLite runs in autocommit outside claim_next, Postgres     *)
(* locks the row in fail and requeue but lists and purges without a lock.  *)
(*                                                                         *)
(* Time is relative, so that it needs no bound: age counts the ticks since *)
(* a job was claimed, saturating at Lease, wait counts down to             *)
(* next_retry_at.  A tick is longer than a store call of a worker.         *)
(***************************************************************************)
EXTENDS Integers, FiniteSets

CONSTANTS
    Keys,         \* dedupe keys of the messages the channels deliver
    MaxJobs,      \* bound: how many rows are ever inserted
    Workers,      \* replicas, each running one WebhookWorker
    Postgres,     \* TRUE: PostgresJobQueue, FALSE: the SQLite JobQueue
    MaxRetries,   \* max_retries
    Base,         \* base_retry_seconds, in ticks
    Lease,        \* lease_seconds, in ticks
    Overrun,      \* TRUE: a handler may still run when its lease is over
    RestartDelay, \* ticks a replica is down before it is started again
    MaxCrashes,   \* bound: crashes and stops
    MaxErrors,    \* bound: store calls that raise
    MaxAdmin      \* bound: administrator requeues and purges

ASSUME ConstantsAssumption ==
    /\ Keys # {} /\ MaxJobs \in Nat /\ MaxRetries \in Nat /\ Lease \in Nat \ {0}
    /\ RestartDelay \in Nat
    /\ MaxCrashes \in Nat /\ MaxErrors \in Nat /\ MaxAdmin \in Nat
    /\ Postgres \in BOOLEAN /\ Overrun \in BOOLEAN

\* now + base_retry_seconds * 2 ** (n - 1), as the ticks still to wait.
Backoff(n) == Base * 2^(n - 1)

\* A retry waits at least one tick: base_retry_seconds is 30 in the code.
ASSUME BackoffAssumption ==
    \A n \in 1..MaxRetries : Backoff(n) \in Nat \ {0}

Jobs == 1..MaxJobs      \* row ids, in the order of created_at
NoJob == 0
Status == {"none", "pending", "retry", "running", "completed", "dead_letter"}

VARIABLES
    created,     \* rows inserted so far
    key,         \* dedupe_key of each row
    status,      \* status of each row, "none" when there is no such row
    retryCount,  \* retry_count of each row
    wait,        \* ticks until next_retry_at
    age,         \* ticks since locked_at, saturating at Lease
    claims,      \* history: claims since the row was enqueued or requeued
    pc,          \* where each worker loop is
    job,         \* the row each worker has claimed
    count,       \* the retry_count fail() is about to write
    todo,        \* rows recover_stale_running() has selected, with its count
    downFor,     \* ticks a replica has been down, saturating at RestartDelay
    admin,       \* administrator calls past their check, before their write
    crashes, errors, adminCalls   \* what the bounds above count

rows == <<created, key, status, retryCount, wait, age, claims>>
loop == <<pc, job, count, todo, downFor>>
bounds == <<crashes, errors, adminCalls>>
vars == <<rows, loop, admin, bounds>>

----------------------------------------------------------------------------
(* The table *)

Exists(j) == status[j] # "none"
Ready(j) == status[j] \in {"pending", "retry"} /\ wait[j] = 0
Stale(j) == status[j] = "running" /\ age[j] = Lease

\* Mutant of SetFailed: one attempt too few.
SetFailedEarly(j, n) ==
    /\ retryCount' = [retryCount EXCEPT ![j] = n]
    /\ status' = [status EXCEPT ![j] = IF n >= MaxRetries THEN "dead_letter" ELSE "retry"]
    /\ wait' = [wait EXCEPT ![j] = IF n >= MaxRetries THEN 0 ELSE Backoff(n)]
    /\ age' = [age EXCEPT ![j] = 0]
    /\ UNCHANGED <<created, key, claims>>

\* The columns a failed attempt writes: retry with a backoff, or dead_letter.
SetFailed(j, n) ==
    /\ retryCount' = [retryCount EXCEPT ![j] = n]
    /\ status' = [status EXCEPT ![j] = IF n > MaxRetries THEN "dead_letter" ELSE "retry"]
    /\ wait' = [wait EXCEPT ![j] = IF n > MaxRetries THEN 0 ELSE Backoff(n)]
    /\ age' = [age EXCEPT ![j] = 0]
    /\ UNCHANGED <<created, key, claims>>

\* UPDATE ... WHERE id=? of a row that may have been purged in the meantime.
SetFailedIfThere(j, n) ==
    IF Exists(j) THEN SetFailed(j, n) ELSE UNCHANGED rows

SetClaimed(j) ==
    /\ status' = [status EXCEPT ![j] = "running"]
    /\ age' = [age EXCEPT ![j] = 0]
    /\ claims' = [claims EXCEPT ![j] = @ + 1]
    /\ UNCHANGED <<created, key, retryCount, wait>>

\* claim_next takes the oldest row that is due.
Oldest(j) == Ready(j) /\ \A i \in Jobs : Ready(i) => j <= i

Goto(w, l) == pc' = [pc EXCEPT ![w] = l]

----------------------------------------------------------------------------
Init ==
    /\ created = 0
    /\ key = [j \in Jobs |-> CHOOSE k \in Keys : TRUE]
    /\ status = [j \in Jobs |-> "none"]
    /\ retryCount = [j \in Jobs |-> 0]
    /\ wait = [j \in Jobs |-> 0]
    /\ age = [j \in Jobs |-> 0]
    /\ claims = [j \in Jobs |-> 0]
    /\ pc = [w \in Workers |-> "down"]
    /\ job = [w \in Workers |-> NoJob]
    /\ count = [w \in Workers |-> 0]
    /\ todo = [w \in Workers |-> {}]
    /\ downFor = [w \in Workers |-> RestartDelay]
    /\ admin = {}
    /\ crashes = 0 /\ errors = 0 /\ adminCalls = 0

\* A webhook enqueues a message; a key that is already there changes nothing.
Enqueue(k) ==
    /\ created < MaxJobs
    /\ \A j \in Jobs : Exists(j) => key[j] # k
    /\ created' = created + 1
    /\ key' = [key EXCEPT ![created + 1] = k]
    /\ status' = [status EXCEPT ![created + 1] = "pending"]
    /\ UNCHANGED <<retryCount, wait, age, claims, loop, admin, bounds>>

(* The worker loop *)

\* Mutants of Start: the lease is not looked at; nothing is recovered.
StartIgnoringLease(w) ==
    /\ pc[w] = "down" /\ downFor[w] = RestartDelay
    /\ Goto(w, "recovering")
    /\ todo' = [todo EXCEPT ![w] = {<<j, retryCount[j] + 1>> : j \in {i \in Jobs : status[i] = "running"}}]
    /\ downFor' = [downFor EXCEPT ![w] = 0]
    /\ UNCHANGED <<rows, job, count, admin, bounds>>

StartWithoutRecovery(w) ==
    /\ pc[w] = "down" /\ downFor[w] = RestartDelay
    /\ Goto(w, "recovering")
    /\ downFor' = [downFor EXCEPT ![w] = 0]
    /\ UNCHANGED <<rows, job, count, todo, admin, bounds>>

\* WebhookWorker.start: select the rows whose lease is over ...
Start(w) ==
    /\ pc[w] = "down" /\ downFor[w] = RestartDelay
    /\ Goto(w, "recovering")
    /\ todo' = [todo EXCEPT ![w] = {<<j, retryCount[j] + 1>> : j \in {i \in Jobs : Stale(i)}}]
    /\ downFor' = [downFor EXCEPT ![w] = 0]
    /\ UNCHANGED <<rows, job, count, admin, bounds>>

\* ... and fail them one by one, whatever has become of them since.  SQLite
\* writes the count it selected, Postgres locks the row and adds one to it; a
\* row that is gone is skipped by the one and ends the call of the other.
RecoverRow(w) ==
    /\ pc[w] = "recovering"
    /\ \E t \in todo[w] :
        /\ Postgres => Exists(t[1])
        /\ SetFailedIfThere(t[1], IF Postgres THEN retryCount[t[1]] + 1 ELSE t[2])
        /\ todo' = [todo EXCEPT ![w] = @ \ {t}]
    /\ UNCHANGED <<pc, job, count, downFor, admin, bounds>>

RecoverRaises(w) ==
    /\ pc[w] = "recovering" /\ Postgres
    /\ \E t \in todo[w] : ~Exists(t[1])
    /\ Goto(w, "down")
    /\ todo' = [todo EXCEPT ![w] = {}]
    /\ UNCHANGED <<rows, job, count, downFor, admin, bounds>>

\* The loop runs once every row is recovered.
RunForever(w) ==
    /\ pc[w] = "recovering" /\ todo[w] = {}
    /\ Goto(w, "idle")
    /\ UNCHANGED <<rows, job, count, todo, downFor, admin, bounds>>

ClaimNext(w) ==
    /\ pc[w] = "idle"
    /\ \E j \in Jobs :
        /\ Oldest(j)
        /\ SetClaimed(j)
        /\ job' = [job EXCEPT ![w] = j]
    /\ Goto(w, "handling")
    /\ UNCHANGED <<count, todo, downFor, admin, bounds>>

\* orchestrator.handle_message returns, or raises.
Handled(w) ==
    /\ pc[w] = "handling"
    /\ Goto(w, "completing")
    /\ UNCHANGED <<rows, job, count, todo, downFor, admin, bounds>>

HandlerRaises(w) ==
    /\ pc[w] = "handling"
    /\ Goto(w, "failing")
    /\ UNCHANGED <<rows, job, count, todo, downFor, admin, bounds>>

\* complete: WHERE id=? is its only condition.
Complete(w) ==
    /\ pc[w] = "completing"
    /\ IF Exists(job[w])
       THEN /\ status' = [status EXCEPT ![job[w]] = "completed"]
            /\ age' = [age EXCEPT ![job[w]] = 0]
            /\ Goto(w, "idle")
            /\ job' = [job EXCEPT ![w] = NoJob]
       ELSE /\ UNCHANGED <<status, age>>
            /\ Goto(w, IF Postgres THEN "failing" ELSE "idle")   \* KeyError
            /\ job' = [job EXCEPT ![w] = IF Postgres THEN @ ELSE NoJob]
    /\ UNCHANGED <<created, key, retryCount, wait, claims, count, todo, downFor, admin, bounds>>

\* fail: Postgres reads and writes the row under one lock ...
FailLocked(w) ==
    /\ pc[w] = "failing" /\ Postgres /\ Exists(job[w])
    /\ SetFailed(job[w], retryCount[job[w]] + 1)
    /\ Goto(w, "idle")
    /\ job' = [job EXCEPT ![w] = NoJob]
    /\ UNCHANGED <<count, todo, downFor, admin, bounds>>

\* Mutant of FailRead: the attempt is counted twice.
FailReadTwice(w) ==
    /\ pc[w] = "failing" /\ ~Postgres /\ Exists(job[w])
    /\ count' = [count EXCEPT ![w] = retryCount[job[w]] + 2]
    /\ Goto(w, "writing")
    /\ UNCHANGED <<rows, job, todo, downFor, admin, bounds>>

\* ... SQLite reads it, and writes later what it computed from that.
FailRead(w) ==
    /\ pc[w] = "failing" /\ ~Postgres /\ Exists(job[w])
    /\ count' = [count EXCEPT ![w] = retryCount[job[w]] + 1]
    /\ Goto(w, "writing")
    /\ UNCHANGED <<rows, job, todo, downFor, admin, bounds>>

FailWrite(w) ==
    /\ pc[w] = "writing"
    /\ SetFailedIfThere(job[w], count[w])
    /\ Goto(w, "idle")
    /\ job' = [job EXCEPT ![w] = NoJob]
    /\ count' = [count EXCEPT ![w] = 0]
    /\ UNCHANGED <<todo, downFor, admin, bounds>>

\* The row is gone: fail raises KeyError, out of run_once and of run_forever.
FailRaises(w) ==
    /\ pc[w] = "failing" /\ ~Exists(job[w])
    /\ Goto(w, "dead")
    /\ job' = [job EXCEPT ![w] = NoJob]
    /\ UNCHANGED <<rows, count, todo, downFor, admin, bounds>>

\* Any store call may raise: complete's error is a failed attempt, fail's and
\* claim_next's end the loop, recover_stale_running's ends the start.
StoreRaises(w) ==
    /\ errors < MaxErrors
    /\ errors' = errors + 1
    /\ \/ pc[w] = "completing" /\ Goto(w, "failing") /\ UNCHANGED <<job, count, todo>>
       \/ /\ pc[w] \in {"idle", "failing", "writing"}
          /\ Goto(w, "dead")
          /\ job' = [job EXCEPT ![w] = NoJob]
          /\ count' = [count EXCEPT ![w] = 0]
          /\ UNCHANGED todo
       \/ /\ pc[w] = "recovering"
          /\ Goto(w, "down")
          /\ todo' = [todo EXCEPT ![w] = {}]
          /\ UNCHANGED <<job, count>>
    /\ UNCHANGED <<rows, downFor, admin, crashes, adminCalls>>

\* The process dies, or stop() cancels a handler: the row stays "running".
Crash(w) ==
    /\ pc[w] # "down" /\ crashes < MaxCrashes
    /\ crashes' = crashes + 1
    /\ Goto(w, "down")
    /\ job' = [job EXCEPT ![w] = NoJob]
    /\ count' = [count EXCEPT ![w] = 0]
    /\ todo' = [todo EXCEPT ![w] = {}]
    /\ UNCHANGED <<rows, downFor, admin, errors, adminCalls>>

\* stop() cancels the await of claim_next, whose thread still claims a row.
StopDuringClaim(w) ==
    /\ pc[w] = "idle" /\ crashes < MaxCrashes
    /\ crashes' = crashes + 1
    /\ \E j \in Jobs : Oldest(j) /\ SetClaimed(j)
    /\ Goto(w, "down")
    /\ UNCHANGED <<job, count, todo, downFor, admin, errors, adminCalls>>

(* The administrator *)

\* requeue_dead_letter and purge_dead_letter check the status first.
AdminCall(op, j) ==
    /\ status[j] = "dead_letter" /\ adminCalls < MaxAdmin
    /\ adminCalls' = adminCalls + 1
    /\ admin' = admin \cup {<<op, j>>}
    /\ UNCHANGED <<rows, loop, crashes, errors>>

\* Whether the status is still checked when the call writes: Postgres locks
\* the row to requeue it, SQLite repeats the check in its DELETE.
Guarded(op) == op = (IF Postgres THEN "requeue" ELSE "purge")

AdminWrite(op, j) ==
    /\ <<op, j>> \in admin
    /\ admin' = admin \ {<<op, j>>}
    /\ IF Exists(j) /\ (Guarded(op) => status[j] = "dead_letter")
       THEN /\ status' = [status EXCEPT ![j] = IF op = "requeue" THEN "pending" ELSE "none"]
            /\ retryCount' = [retryCount EXCEPT ![j] = 0]
            /\ wait' = [wait EXCEPT ![j] = 0]
            /\ age' = [age EXCEPT ![j] = 0]
            /\ claims' = [claims EXCEPT ![j] = 0]
            /\ UNCHANGED <<created, key>>
       ELSE UNCHANGED rows
    /\ UNCHANGED <<loop, bounds>>

(* Time *)

Holds(w, j) ==
    pc[w] \in {"handling", "completing", "failing", "writing"} /\ job[w] = j

Tick ==
    /\ \A w \in Workers : pc[w] \notin {"recovering", "writing"}
    /\ ~Overrun => \A w \in Workers, j \in Jobs : Holds(w, j) => age[j] + 1 < Lease
    /\ age' = [j \in Jobs |->
                 IF status[j] = "running" /\ age[j] < Lease THEN age[j] + 1 ELSE age[j]]
    /\ wait' = [j \in Jobs |-> IF wait[j] > 0 THEN wait[j] - 1 ELSE 0]
    /\ downFor' = [w \in Workers |->
                     IF pc[w] = "down" /\ downFor[w] < RestartDelay
                     THEN downFor[w] + 1 ELSE downFor[w]]
    /\ UNCHANGED <<created, key, status, retryCount, claims, pc, job, count, todo, admin, bounds>>

----------------------------------------------------------------------------
Step(w) ==
    \/ Start(w) \/ RecoverRow(w) \/ RecoverRaises(w) \/ RunForever(w) \/ ClaimNext(w)
    \/ Handled(w) \/ HandlerRaises(w) \/ Complete(w)
    \/ FailLocked(w) \/ FailRead(w) \/ FailWrite(w) \/ FailRaises(w)

Next ==
    \/ \E k \in Keys : Enqueue(k)
    \/ \E w \in Workers : Step(w)
    \/ \E w \in Workers : StoreRaises(w) \/ Crash(w) \/ StopDuringClaim(w)
    \/ \E op \in {"requeue", "purge"}, j \in Jobs : AdminCall(op, j) \/ AdminWrite(op, j)
    \/ Tick

Spec == Init /\ [][Next]_vars

\* The event loop runs every task, a handler ends, the clock moves and a
\* replica that is down is started again; crashes and errors are nobody's duty.
Fairness == (\A w \in Workers : WF_vars(Step(w))) /\ WF_vars(Tick)

LiveSpec == Spec /\ Fairness

----------------------------------------------------------------------------
(* Properties *)

TypeOK ==
    /\ created \in 0..MaxJobs
    /\ key \in [Jobs -> Keys]
    /\ status \in [Jobs -> Status]
    /\ retryCount \in [Jobs -> Nat]
    /\ wait \in [Jobs -> Nat]
    /\ age \in [Jobs -> 0..Lease]
    /\ claims \in [Jobs -> Nat]
    /\ pc \in [Workers -> {"down", "recovering", "idle", "handling", "completing",
                            "failing", "writing", "dead"}]
    /\ job \in [Workers -> Jobs \cup {NoJob}]
    /\ count \in [Workers -> Nat]
    /\ todo \in [Workers -> SUBSET (Jobs \X (Nat \ {0}))]
    /\ downFor \in [Workers -> 0..RestartDelay]
    /\ admin \subseteq {"requeue", "purge"} \X Jobs
    /\ crashes \in 0..MaxCrashes /\ errors \in 0..MaxErrors /\ adminCalls \in 0..MaxAdmin

\* Status and retry_count agree whatever races have written them: a row that can
\* still run has attempts left, a dead letter has none.  fail() and
\* recover_stale_running() write both columns from one, maybe old, count.
StatusMatchesRetries ==
    \A j \in Jobs :
        /\ status[j] = "pending" => retryCount[j] = 0
        /\ status[j] = "retry" => retryCount[j] \in 1..MaxRetries
        /\ status[j] = "running" => retryCount[j] \in 0..MaxRetries
        /\ status[j] = "dead_letter" => retryCount[j] > MaxRetries

\* While handlers keep within their lease, at most one replica handles a job,
\* and the table says so: the row is running and its lease is not over.
OneHandlerPerJob ==
    \A w \in Workers, j \in Jobs : Holds(w, j) =>
        /\ status[j] = "running" /\ age[j] < Lease
        /\ \A v \in Workers \ {w} : ~Holds(v, j)

\* While handlers keep within their lease, every claim is paid for by exactly
\* one retry, whether it failed, was lost in a crash or was never handled; so
\* no job is started more than max_retries + 1 times.
AttemptAccounting ==
    \A j \in Jobs : Exists(j) =>
        claims[j] = retryCount[j] + (IF status[j] \in {"running", "completed"} THEN 1 ELSE 0)

\* A dead letter has used up its attempts: max_retries + 1 claims.
DeadLetterAfterAllAttempts ==
    \A j \in Jobs : status[j] = "dead_letter" => claims[j] > MaxRetries

\* A completed job stays completed: nothing runs it again.
CompletedFinal ==
    [][\A j \in Jobs : status[j] = "completed" => status'[j] = "completed"]_vars

\* A failure is persisted and never ends the loop (the comment in run_once).
LoopSurvives == \A w \in Workers : pc[w] # "dead"

\* As long as no store call raises, every accepted job comes to an end:
\* completed, or left to the administrator.
Settles ==
    [](errors = 0) =>
        \A j \in Jobs : Exists(j) ~> status[j] \in {"none", "completed", "dead_letter"}
=============================================================================
