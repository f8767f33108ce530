# OmniDesk AI in TLA+

Models, model checking and proofs for the parts of OmniDesk AI in which several
processes, requests, devices or people work on the same durable state: queues
and dispatchers, chat requests and the client that sends them, agent runs that
wait for approvals, desktop tasks and device identity, offline
synchronisation, and the guards, files and upkeep around them. Paths below are
relative to `src/omnidesk_agent/` unless they start with `src/`.

`PROJECT.json` lists, for every definition, the source lines it stands for, and
every run, mutant, finding, hazard and theorem.

## 1. The system

OmniDesk AI is an assistant service. Messages come in through channels
(Telegram, Slack, Feishu, Gmail, ...) or from desktop, mobile and web clients;
a planner turns a message into steps; tools carry the steps out, some only
after people have approved them; replies go back out through the channels. One
process (`daemon.py`) runs the HTTP server, one webhook worker, one outbound
dispatcher and a reconnect loop. Deployed on Kubernetes it runs as three
replicas over one Postgres; on a desktop it is one process over SQLite and JSON
files.

### 1.1 Components

| Component | State it keeps | Operations | What is hard | Module |
|---|---|---|---|---|
| Webhook job queue and worker (`core/job_queue.py`, `core/worker.py`) | rows with status, retry count, next retry, lock | enqueue, claim, complete, fail, recover, requeue, purge; the worker's loop | leases, crashes, several replicas, SQLite autocommit against Postgres row locks | `JobQueue` |
| Outbound store and dispatcher (`core/outbound_*.py`) | rows as above, plus `ambiguous` and `cancelled` | create, claim, mark, recover, retry, cancel | a send whose outcome is unknown; an operator acting on a row in flight | `Outbound` |
| Chat under a database lease (`appsync/*chat*`) | chat requests, stream events, messages | reserve, renew, append, answer, settle | duplicate requests, lost turns, late writes, replayed streams | `ChatLease`, `ChatTurn` |
| Chat without a database (`appsync/chat_service.py`) | JSON idempotency records | ask, stream | check, then await, then act | `ChatLocal` |
| Web client (`src/apps/web-admin-next/`) | last event id, one resumption, what it shows | send, resume, fall back, stop | its turns go on without it; event numbers that are stored nowhere | `ChatClient` |
| Runs and approvals (`core/orchestrator.py`, `core/run_store.py`, `security/`) | runs with a resume token, approvals, dual approvals, grants in memory | handle, resume, approve, deny, recovery script | state read before the token is taken; several people and replicas | `ApprovalRun` |
| Desktop tasks (`appsync/store.py`) | tasks, approvals, leases | add, decide, claim, renew, report, edit | a desktop past its lease; lost replies | `RuntimeTask` |
| Device identity (`appsync/store.py`, routes) | keys, enrolments, challenges, nonces | register, enrol, challenge, sign, revoke | replays, skewed clocks, revocation beside open challenges | `DeviceTrust` |
| Offline sync (`offline/connectivity.py`, `appsync/offline_sync_apply.py`) | outbox, inbox, conflicts | queue, upload, file, apply, pull, resolve | deaths between filing and applying; echoes and clashes | `OfflineSync` |
| AppSync store shared by gateways (`appsync/migrated_postgres_store.py`) | rows, and a copy in each gateway's memory; a pool | locked calls that reload and write everything back; chat and project writes beside them | lost updates | `SharedStore`, `AppSyncPool` |
| Project registry and state file (`appsync/projects.py`, `strict_json_store.py`) | files, backups, a corruption marker, answers by key | create, change, recover by script | dying in a rotation or quarantine; damaged files | `ProjectStore` |
| Idempotency (`security/*idempotency.py`) | records with a time to live | begin, complete, fail | records that expire under a slow owner; several commits per begin on Postgres | `Idempotency` |
| Break-glass (`security/break_glass.py`) | sessions, approvers, expiry | open, request, approve, revoke | the order of the calls | `BreakGlass` |
| Resource guard (`security/resource_guard.py`) | windows, slots | admit, release | every path gives its slot back once | `RequestSlots` |
| Model router (`models/`) | circuits, spending | plan, call, retry, fall back, record | checked before a call, recorded after it | `ModelCalls` |
| BigSeller connector (`integrations/bigseller/`) | claims, error queue | claim, call, complete, release, retry | death between claim and effect | `ConnectorClaims` |
| Webhook intake (`server_routes/webhook_guard.py`) | nonces, rate rows, digests | verify, count, mark, parse, queue | what fails after the digest is marked | `WebhookIntake` |
| Postgres pools (`repositories/postgres_pool.py`) | connections | acquire, release, close | waiters that must be woken | `RepositoryPool` |
| Audit log (`security/permissions.py`) | a hash chain in a file, a cache | append | last hash read, entry appended later, no lock | `AuditChain` |
| Self-upgrade (`self_upgrade/`) | release links, proposals in directories | stage, switch, check, switch back; evaluate, review | death between switch and check; late writes of an evaluation | `ReleaseSlots`, `Proposals` |
| Structured memories (`memory/experience.py`) | rows with status and counts | add, review, purge, retrieve | reviews beside purges; get and put on Postgres | `ExperienceMemory` |
| Planner, providers, tools, OAuth, privacy, configuration, deployment | text, measurements, records of one statement | | no protocol between processes | section 8 |

### 1.2 How they meet

    channel route --WebhookIntake--> job queue <--claim/complete/fail-- worker
                                                                    | handler
                                                                    v
                     approvals <--create/consume-- orchestrator --runs--> tools
                         ^                             ^   |
               approvers |              /agent/resume  |   | create
                                                           v
                        provider <--send_text-- dispatcher <--claim-- outbound store

    client --POST /app/chat[/stream]--> chat service --fenced calls--> chat_requests, events
    offline gateway --POST /app/sync--> AppSync store <--claim/report-- desktops
                                            ^ several gateways, one advisory lock

Every HTTP request passes the resource guard; side effects pass an idempotency
record; administrators may be elevated by a break-glass session; every
permission decision is written to the audit log. The stores are the only state
that processes share. What a store call does in one transaction is atomic;
everything else interleaves.

### 1.3 What makes each component correct

* **Queue**: a job has one handler; it is tried `max_retries + 1` times, not
  more and not fewer; a completed job is never run again; every accepted job
  ends completed or in the dead letter box.
* **Outbound**: `sent` means delivered; every second delivery has a cause the
  operator could name; an ambiguous row waits for the operator.
* **Chat**: one turn works on a request, it has one answer, its stored stream
  is gap-free and ends once, what a client was told does not change, and what
  the client shows as complete is the whole answer.
* **Approvals**: no gated step takes effect without its own consumed approval;
  two people stand behind a step under dual approval; steps run once and in
  order across waits; the resume token exists while the run waits and only then.
* **Desktops and devices**: a task has one desktop and an outcome that stays; a
  device proves its key, its requests are accepted once, and a revoked one
  stays out.
* **AppSync**: what a sender marks synced was applied; no gateway undoes
  another; a damaged file is not taken for an empty one and can be recovered.
* **Guards**: an effect is repeated only for a cause that can be named; an
  acknowledged event is not lost; spending, failures, slots and connections
  stay within what calls in flight explain; elevation needs its people.
* **Upkeep**: what overlapping calls read and write back late shows, and only
  there; what is put in charge was checked.

## 2. The modules

A component's module holds its state, actions, specification and properties. A
compound module puts components side by side; `<Name>Proofs` holds the theorems
about a module, `MC<Name>` its instance for TLC.

| Module | What it puts together | Proofs | For TLC |
|---|---|---|---|
| `JobQueue` | | `JobQueueProofs` | `MCJobQueue`, over SQLite |
| `ApprovalRun` | | `ApprovalRunProofs` | `MCApprovalRun` |
| `Dialogue` | `ChatClient` over `ChatLease` (with `ChatTurn`), two deployments of `Outbound`, `ChatLocal` | `DialogueProofs`, with `ChatLeaseProofs` and `OutboundProofs` | `MCMessages` |
| `AppSync` | `RuntimeTask`, `DeviceTrust`, `OfflineSync`, `SharedStore` | `AppSyncProofs` | `MCAppSync` |
| `Upkeep` | `ProjectStore`, `AuditChain`, `ReleaseSlots`, `Proposals`, `ExperienceMemory`, `WebhookIntake` | `UpkeepProofs` | `MCGuards` |
| `Guards` | `Upkeep`, and `Idempotency`, `ConnectorClaims`, `BreakGlass`, `ModelCalls`, `RequestSlots`, `RepositoryPool`, `AppSyncPool`, `JobQueue` over Postgres | `GuardsProofs` | `MCGuards` |

In a compound module, components that share no state stand side by side: a
variable (`deployment`, `component`) says which one moves in a behaviour, and
the others stay in their initial states. Where a component comes in variants,
the variant is a variable that no step changes: `postgres` for the backend,
`deployment` of `SharedStore` for who serves which call. A property of a compound
module is the conjunction of the named properties of its components, each
stated with the code it is about in the component's module.

**Conventions.** An action is a store call, or the code between two of them;
where the code makes several statements that are not in one transaction, there
are several actions, and what was read before is kept in a variable of the
caller (`todo`, `count`, `token`, `copy`, `held`, `glimpse`, ...). Code on one
event loop moves from one await to the next in a step. Time is relative: ages
and remaining lives count ticks and saturate, so the state space is finite
without a bound on the clock. `Max...` constants bound crashes, errors, rows
and operator calls in the guards; everything else is finite by itself.
*History variables* (`claims`, `delivered`, `causes`, `grants`, `accidents`,
`overran`, `raced`, ...) record what no column records; no guard of the
program's steps reads them, apart from the bounds. An operator commented
"Mutant of X" is a plausible mistake in the code behind X; it appears in no
specification and is what a property is tested against.

### 2.1 JobQueue

A row is `status, retryCount, wait, age` per row id; ids are in the order of
`created_at`, which is the order claims use. `Enqueue` refuses a dedupe key
that a row has. A worker is `down`, `recovering` (inside `start`), `idle`,
`handling`, `completing`, `failing`, `writing` or `dead`.

* `Start`, `RecoverRow`, `RecoverRaises`: `recover_stale_running` lists the
  stale rows and then updates each by id; `todo` holds the rows listed and the
  retry count that was read with them.
* `ClaimNext`: one transaction on either backend. `StopDuringClaim`: `stop()`
  cancels the task, the claim's thread commits, nobody handles the row.
* `Complete` names only the id. `FailLocked` is the Postgres `fail` (row lock),
  `FailRead` and `FailWrite` the two autocommit statements of SQLite.
* `StoreRaises`, `FailRaises`: a store call raises. In `claim_next` and in
  `fail` that ends the loop (`dead`), in `complete` it leads to `fail`.
* `AdminCall`, `AdminWrite`: requeue and purge; `Guarded` says which of them
  look at the status again when they write.
* `Tick`: with `Overrun = FALSE` the clock does not pass the end of the lease
  of a row that is being handled: handlers keep within `lease_seconds` (300).

### 2.2 Outbound

The same loop, with `SendText` in the middle: the provider accepts the message
or not (`delivered` counts what no column records) and the dispatcher learns
one of four replies, the classes `classify_channel_error` makes. An `unsure`
reply may hide a delivery. `causes` counts what may excuse one more delivery: a
crash or store error behind an attempted send, a recovery of a row that was not
dead, a retry by the operator. `Cancel` and `Requeue` are the two operator
routes, with the status checks they make.

### 2.3 ChatTurn, ChatLease, ChatClient, ChatLocal

`ChatTurn` is abstract; it says what a client relies on: a request is begun
once, its stream only grows, it is answered at most once and settles once with
the event that ends its stream. `ChatLease` has the table (`status, owner,
lease, events, answers`) and the turns: `Reserve` and `Load` (reserve commits,
then loads in another transaction), the `ask` path (`ModelAnswers`, `Complete`,
`Fail`), the `stream` path (`Started`, `Delta`, `Persist`, `Usage`, `Completed`,
`StreamFailed`), the fencing of every write by owner and unexpired lease
(`Refused` when it fails), the heartbeat `Renew`, which may come once more
after its turn is over, `Vanish` (a process dies or its producer is cancelled)
and `DeltaReplyLost` (a commit whose call raises). Refinement: `phase` is the
status of the request folded to absent / open / completed / failed, `log` is
the table of events as a sequence; `ImplementsPromise` is `ChatTurn!Spec` under
that mapping.

`ChatClient` extends `ChatLease` with the one who sends: `client` is the place
in `send()`, `cursor` the last event id, `arriving` what the turn it listens to
has yielded and it has not read, `seen` what it shows. `OpenStream`,
`AskInstead` and `Busy` (409) are its requests, each a turn of `ChatLease`;
`ReadEvent` to `ReadAnswer` consume the stream; `AttemptFails` decides between
the one resumption, the fallback to an ask and giving up; `Break` and `Stop`
may come at any time, and the turn goes on without it. `ReadError` is the
`chat.failed` that the route makes up for an exception.

`ChatLocal` is the same service over the JSON store, where nothing but the
record ties two turns of a request: `Ask` and `Reserve` look at the record and
work past an await, `PersistResult` and `Complete` are the two writes of an
answer, `GiveUp` a cancelled handler or producer, `Crash` the end of the process.

### 2.4 ApprovalRun

One run, because grants and approvals name the run in their `scope_hash` and
resume tokens are per run. A call is one HTTP request served by a replica; its
local state (`approval`, `step`, `held`) is what the handler read. `Handle` to
`Complete` execute the plan, `Get` to `Refused` resume it in the order of
`Orchestrator.resume`: read the row, take the token, look at the dual approval,
consume the approval, grant, write `running`. Approvers act through
`DualApprove` and `Decide`; `Expire` is the clock; `Crash` loses a replica's
calls and grants; `List` and `Mark` are `scripts/recover_resumes.py`, which takes
age for death: `overran` records that it listed a run some call still resumes.
Which steps are gated and which need dual approval are constants; a step may be
skipped, fail or succeed. Left out: calls that change nothing (wrong token, run
not waiting), the interactive and auto modes of permissions.

### 2.5 RuntimeTask, DeviceTrust, OfflineSync, SharedStore, AppSyncPool

* `RuntimeTask`: `AddTask` and `DecideApproval`, `Claim` of the oldest claimable
  task, `RenewTaskLease`, `Finish`; `ClaimLost` and `FinishLost` are calls whose
  answer does not reach the desktop; `Edit` is the operator's status route.
  `left` is the lease the desktop counts on, `lease` what the store grants;
  a desktop may go on past either (`overran`).
* `DeviceTrust`: one device with its key, enrolment, challenges and approval
  key; requests are signed with a clock that is `offset` from the store's, pass
  the freshness check, leave a nonce and are handled in a later step (`todo`).
  `Restart` forgets the nonces unless `Durable`.
* `OfflineSync`: the outbox and its worker (`Reconnect`, `MarkFailed`,
  `MarkSynced`, `CheckConflicts`, `PullEcho`, `PullClash`), and the receiver,
  which files (`Receive`) and applies (`Apply`) in two commits. A crash, a lost
  answer or a failed upload is a fault.
* `SharedStore`: a deployment says at which gateway a call arrives (`home`), which
  row it changes (`target`) and which calls are project writes (`project`). A call goes `Enter` (lock of the process), `Lock` (advisory
  lock), `Refresh` (read every table), `Change`, `Persist` (write every row,
  except rows that are only inserted), `Unlock`; `ChatInsert` and `ProjectWrite`
  come from the side. A row is the set of updates it shows. `LoseLock` is a
  connection that breaks while it holds the advisory lock.
* `AppSyncPool`: the pool behind it, a queue and a counter that change in
  separate steps.

### 2.6 The guards (`Guards`)

* `Idempotency`: callers of one key with their payloads; over SQLite `Begin` is
  one transaction, over JSON state `List`, `Delete`, `InsertOnce`, `Read`, `Put`
  commit one by one. `Effect` may outlive the record (`Tick`); `Complete` and
  `Fail` write whatever row is there; `Vanish` is a caller that never returns.
* `ConnectorClaims`: deliveries and an operator's retry of one BigSeller event,
  with a record for the event and one for the update. `RaiseAfterEffect` and
  `ReleaseUpdate` are the failures behind the effect, `Crash` the ones no
  handler sees.
* `BreakGlass`: `Open` with the owner token, `RequestDelegated` and `Approve`
  by others, `Revoke`, `Tick`; `Usable` and `Elevated` are the checks of the
  admin routes. `Init` admits rows of the older schema.
* `ModelCalls`: concurrent calls over a plan of profiles with `failures`,
  `since` and `spent`; `CircuitOpen` and `OverBudget` are asked in `Choose`,
  `RecordFailure` and `Succeed` come after the await.
* `RequestSlots`: `Admit` counts the rate buckets and takes the slots of the
  class, `BodyRead` may wait, `BodyFails`, `Authenticate` and `Finish` are the
  ways out that give them back.
* `RepositoryPool`: threads under one condition variable; opening a connection
  happens outside it and may fail.

### 2.7 Files, intake and upkeep (`Upkeep`)

* `ProjectStore`: a write takes the file lock, rotates the backups one by one
  (`Shift`, `Copy`), replaces the file, and then saves the answer in the AppSync
  state (`SaveState`, `Tell`); `Detect`, `Mark`, `Move` quarantine a damaged
  file; `Recover`, `Verified`, `Unmark` are the recovery script. A process may
  die or raise anywhere (`Die`, `Fail`), a disk may damage a file (`Damage`).
* `WebhookIntake`: the checks of a delivery in order, each with its commit
  (`ClaimNonce`, `Count`, `ReadCount`, `Mark`), then `Parse`, `Enqueue` per
  message and `Answer`; `Lose` is a death or exception in between.
* `AuditChain`: `Start`, `ReadTail`, `Store`, `StoreSize`, `Append`,
  `CacheHash`, `CacheSize` are the steps of one `_audit`; threads of a process
  share its cache.
* `ReleaseSlots`: `Clear`, `Unpack`, `LinkCandidate`, `SaveTarget`,
  `SavePrevious`, `Switch`, `Healthy`, `Unhealthy`, `SwitchBack`, and a `Restart`
  between any two of them.
* `Proposals`: evaluations, artifact generations and reviews of one proposal;
  each reads a file (`Get`), works (`Test`, `Decide`) and writes it back.
* `ExperienceMemory`: `Add`, `Age`, `Expire`; curators `List` and then `Review`
  one by one (`GetRow`, `PutRow` on Postgres), the purge lists and deletes,
  planners `Retrieve` and `Touch`. `beside` records the listing over which the
  last verdict on a memory was reached: two memories that contradict each other
  may both be shown once each was reviewed again without the other (when one had
  left the window of days, or the limit cut it off), so `RivalsApart` speaks of
  the last reviews.

## 3. The runs

| Run | Instance | Question |
|---|---|---|
| `jq_within_lease` | `JobQueue` over SQLite: 2 replicas started again after the lease, 2 jobs of 2 keys, 2 crashes, 1 store error | Do leases that are long enough make every claim count once, give every job one handler, and settle every job? |
| `jq_quick_restart` | 1 replica started again at once | Violated: a job stays `running` for ever. |
| `jq_loop_dies` | 1 replica, 1 store error | Violated: the loop ends although the code says it must not. |
| `messages` | all of `Dialogue` | Has every duplicate a cause, is what is recorded or shown true, do chat requests implement `ChatTurn`, and does everything come to rest? |
| `ob_cancel` | 1 dispatcher | Violated: a cancelled message is overwritten. |
| `approval_safety` | 3 calls, 2 replicas, 3 owners, 3 steps (gated, free, dual), 1 crash | All the properties of section 1.3 for approvals. |
| `approval_dual` | 1 call, 1 dual step | Violated: the token is spent before the dual approval is looked at. |
| `appsync` | all of `AppSync`, without project routes beside several gateways | One desktop per task, requests accepted once, revocation, synced means applied, no lost update, approved tasks end. |
| `appsync_conflict` | the sync protocol | Violated: a conflict is applied. |
| `appsync_projects` | 2 gateways, one of which serves a project route | Violated: it writes stale rows back. |
| `guards` | all of `Guards` and `Upkeep` | Causes, bounds and order, component by component. |
| `state_restart` | the project and state files | Violated: the second start after the damage runs on an empty state. |

**Instances inside the compound runs.** `messages`: two dispatchers whose sends
may outlive the lease, with a crash, an error, a cancel and a retry for one
message; one dispatcher, started again after its lease, with two messages, a
cancel, two retries and a crash; three turns for one chat request, a delta, a
lease of two ticks and two losses; the same turns with the web client before
them; three turns of one JSON request, two of them beside others, one crash.
`appsync`: two tasks, two desktops, one operator's edit, one lost reply; a
device with two keys, two challenges and a request that is replayed, skew 1 and
nonces of 3 ticks; two operations, one of which the receiver refuses, two
faults; three calls of two gateways, or of one that also serves projects, over
four rows, one crash. `guards`: three callers
of one key, one with another payload; two deliveries and a retry; three people
(two owners), two sessions; two model calls over two profiles and a budget of
one; four requests in two classes; four threads on two connections; two jobs of
one key on Postgres with two workers that may overrun and two administrator
calls; two gateways with two requests, one of which is made once, and the script,
one fault and one damage; two processes that append to the audit log (two
threads of one process are left to the theorem); three
published versions and four runs; one evaluation, one generation and two
opposite reviews; three deliveries of an event of two messages; two memories
that contradict each other, two curators, a planner.

**Why the bounds are enough.** Each hazard needs few actors: a stale writer
and the one that replaced it, so two replicas, turns, desktops or threads; a
row that races with a recovery, so one key suffices and two jobs add the order
of claims. With `MaxRetries = 1` a job passes pending, retry and dead letter. A
lease of two ticks is the smallest that can be half over. Two crashes let a
replica crash in the recovery of its first crash. A third chat turn is one that
comes after a retry has interrupted the first; for the client it is the ask, or
the stream it resumes with while an abandoned turn still works. Three plan
steps let a run wait twice, with a free step in between that must not run
again; three calls let two resumes race while a third holds an old token; three
owners are a requester and two others. Two requests to the project
file, one of which may be made again, fill two backups and push one out. Four threads on two connections leave two to be
woken by one step. Bounds are in the guards of the crash, error, loss and
operator actions, so reaching one stops only what it bounds.

**The SQLite relation.** With `Postgres = FALSE` and `MaxAdmin = 0` the actions
`RecoverRaises`, `FailLocked`, `FailRaises`, `AdminCall` and `AdminWrite` of
`JobQueue` are never enabled. `MCJobQueue!SQLiteNext` leaves them out; the
component "jobs" of `guards` runs the whole `Next` with all of them.

**Deadlock** is checked in the queue and message runs, where the clock ticks on
or the client rests. It is off where systems really stop: an approval run that
is over, and the components of `appsync`, `guards` and `state_restart`, whose
callers, requests and versions are finitely many.

**Symmetry** is used in `jq_loop_dies` (workers, keys) and `approval_safety`
(calls, replicas, and owners other than the requester), which check no liveness
and only compare these values for equality.

## 4. Fairness

* `JobQueue` and `Outbound`: weak fairness of each loop's `Step` and of `Tick`.
  The event loop runs every task, a handler or send ends (they run under
  timeouts), the clock moves and the supervisor starts a dead replica again
  (`Start` is a step). Crashes, store errors, stops and operator calls are never
  forced, and a loop that died is not revived.
* `ChatLease`: also that a late heartbeat ends its call, and that a client sends
  its request again (`Reserve` of each key): without a retry nobody looks at an
  abandoned request, since the code has no sweeper for `omnidesk_appsync_chat_requests`.
* `ChatClient`: the steps of its turns and its own (`Acts`): what arrives is
  read, a failed attempt is followed by the next. No clock is assumed, and no
  retry either: the client ends by itself. Breaks, stops and lost turns are
  never forced.
* `RuntimeTask`: `Tick`, `Claim` by each desktop and `Finish`: desktops poll,
  and what they execute ends.
* `ApprovalRun`, and the components of `guards`, have no liveness property:
  people may never decide, and the code has nothing that settles a run left
  planned or running by a crash.

In a compound module each of these holds for the component that moves.

## 5. What is proved

Eight modules of proofs hold for every value of the constants that satisfies
the assumption of the module (`ConstantsOK` of each component, or the `ASSUME`s
of `JobQueue` and `ApprovalRun`): any number of workers, turns, people,
requests, versions, memories or desktops, any lease, any number of crashes and
losses. Every safety property that a passing run checks is stated by a theorem.

| Theorem | States |
|---|---|
| `JobQueueProofs!TypeCorrect`, `StatusRetriesAgree` | types, and `StatusMatchesRetries`, over both backends, with or without overruns |
| `JobQueueProofs!LeaseProtects`, `CompletedIsFinal` | `OneHandlerPerJob` and `CompletedFinal`, assuming `WithinLease` |
| `JobQueueProofs!AttemptsAccounted`, `DeadLettersUsedUp` | `AttemptAccounting` and `DeadLetterAfterAllAttempts`, assuming `ExactCounts` |
| `ApprovalRunProofs!TypeCorrect`, `EffectsAreApproved`, `EffectsHaveTwoPeople`, `StepsRunOnce`, `TokenIsForTheWait`, `NoStepAsksTwice`, `SettledStaysSo` | types, and the six properties of `approval_safety` |
| `OutboundProofs!TypesHold`, `SentWasDeliveredHolds`, `DuplicateNeedsCauseHolds`, `ReconciledHolds` | types and the safety of `Outbound`, with sends that may overrun; for one dispatcher, that sent and ambiguous rows stay put |
| `ChatLeaseProofs!TypesHold`, `OneWorkerHolds`, `OneAnswerHolds`, `LogWellFormedHolds`, `SettledFinalHolds` | the safety properties of `ChatLease` |
| `ChatLeaseProofs!ImplementsPromiseHolds` | `ChatLease` implements `ChatTurn` |
| `DialogueProofs!ClientUsesTurns` | the client and its turns implement `ChatLease`, so the theorems above hold of them |
| `DialogueProofs!TypesOKHolds`, `DuplicateNeedsCauseHolds`, `RecordedIsTrueHolds`, `ReconciledHolds` | the safety properties of `messages`, over both deployments, both chats and the client |
| `AppSyncProofs!TypesHold`, `ExecutedWasApprovedHolds`, `OneDesktopPerTaskHolds`, `LeaseCoversHolds`, `OutcomeNeedsCauseHolds` | types, and the safety of desktop tasks |
| `AppSyncProofs!KeyProvedHolds`, `RevokedStaysOutHolds`, `AcceptedOnceHolds` | devices; `AcceptedOnce` assuming `Durable` |
| `AppSyncProofs!SyncedWasAppliedHolds`, `NoLostUpdateHolds` | synchronisation; shared tables, assuming `SharedWritersAgree` |
| `UpkeepProofs!FailsClosedHolds`, `LateWritesShowHolds`, `ActiveWasCheckedHolds`, `MemoryStandsHolds` | files, audit log, proposals, releases and memories |
| `GuardsProofs!TypesHold`, `EffectNeedsCauseHolds`, `AcknowledgedIsNotLostHolds`, `UsableWasGrantedHolds`, `CallsBoundedHolds`, `SlotsAccountedHolds`, `StatusMatchesRetriesHolds` | types of all components of `Guards` and `Upkeep`, and the properties of the guards |

Three theorems have a premise on the constants, and their properties are false
without it: `WithinLease` (no handler outlives its lease, no administrator
requeues), `Durable` (nonces survive a restart), and `SharedWritersAgree` (every
write takes the advisory lock, or one gateway serves all calls, and no
connection is lost with the lock; `appsync_projects` shows the rest). `ExactCounts`
is `WithinLease` over SQLite or with a single replica: two Postgres replicas that
recover at the same time each add one to the row they both selected.

**How a compound module is proved.** Each component is proved from its own
`Init`, `Next` and invariant, in definitions and lemmas that carry the name of
the instance (`KeyIInv`, `FilesIInv`, `MemoryIInv`, ...). `Components` and
`UpkeepComponents` say that every behaviour of the compound implements every
component: its steps are steps of one of them and leave the variables of the
others alone. A property follows from the conjunction of the invariants. Two
components were proved in modules of their own before they were put into a
compound: the job queue of `Guards` and the deployments of `Outbound` in
`Dialogue` are shown to be, definition by definition, the instances that
`JobQueueProofs` and `OutboundProofs` are about (`JobsSame` and its kin).

**Job queue.** `StatusMatchesRetries` is inductive once one knows that a loop
past its claim has a row, that the count it is about to write is positive
(`LoopOK`) and that ids not yet inserted are blank (`FreshIds`). It needs
nothing about who wins a race: each writer writes both columns from one count.
`OneHandlerPerJob` is not inductive: a recovery selects rows in one statement
and writes them later. `TodoOK` says why it is harmless: what it selected was
stale, and no handler comes back to such a row before the write, because a
failed row is not due in the tick of its failure. The count of claims needs
`TodoCounts` and `CountCurrent` besides: what a recovery or a handler is about
to write is one more than what the row says, or another recovery has already
written that very number.

**Outbound.** Deliveries cannot be bounded by what the rows say, so the
invariant `Budget` counts what may still be delivered: the deliveries there
were, the dispatchers that are going to deliver the message or send it back,
and one for a row that may be claimed, are together at most one more than the
causes. Every step that adds to the left side takes from it elsewhere or is a
cause. `Reconciled` needs that with one dispatcher the row in hand is never at
rest (`InHandNotAtRest`); with two it is false.

**Chat.** `RowOK` relates the status of a request, its events and its answer,
`InStep` says what a turn that owns its row finds there, and `Alone` that no two
turns work on one request. An expired owner is no longer in step, and need not
be: fencing refuses it. Every step is then one of two kinds, it leaves the
table alone or changes one row as `RowStep` says; `SettledFinal` and the
refinement follow from that alone, each `RowStep` being a step of `ChatTurn`
under the mapping.

**Client.** Its invariant `CInv` is proved beside that of `ChatLease`. The point
is event numbers: a number the client counts may be stored nowhere (a
`chat.failed` that the route makes up). `SeenOK` says that the client shows
exactly the events up to its cursor, or that there is nothing left to read that
it could take for the end (`NothingBehind`). `ArrivingOK` says what is on its
way: the next numbers and at most one last word, by a turn that sends nothing
more; `PlaceOK`, that as long as the request is active only the turn the client
listens to works on it. From these `WholeOK`: what it presents as complete ends
where the stored stream ends.

**Chat without a database.** `LocalCausesOK` is a budget like that of
`Outbound`: answers stored, and turns that have yet to store one, are at most
one more than the causes. `LocalStreamOK` says that at most one turn streams a
request, and what the record then is.

**Runs and approvals.** The inductive invariant is nine conjuncts. The heart is
`OneActive` (one call resumes or executes, none while the run waits) and the
part of `CallOK` that says a call which presents the current token read the
current wait: an approval is never issued twice, because the approval a call
is about to save is not in `issued`. From them `PositionOK` follows: what has
taken effect is exactly the steps before the one at hand. `GrantsOK` traces
grants and effects to consumed approvals, `ApproversOK` the consumed approvals
of dual steps to two people, `LoopOK` says that no approval is for a step
ahead and that one for the step at hand is granted where it runs, `SettledOK`
that the status tells what calls do as long as the script has taken no live
call. `SettledFinal` is the one property with a premise, `~overran`: the script
waits 300 s before it takes a resuming run for dead, and a slower resume does
overwrite the script's verdict.

**Desktops, devices, synchronisation.** `TaskLeaseOK`: a desktop that counts on a
lease has it in the store, unless one that overran has ended the task; so a
task that may be claimed is on no desktop with a lease. `DeviceNonceOK`: the
nonce of an accepted request outlives the window in which the request is fresh;
it holds for every skew because `ConstantsOK` demands what the configuration's
defaults give, a life of more than twice the skew. `SyncAnsweredThere`: what the
receiver has answered for is applied or refused for good, and only such a batch
is marked synced.

**Shared tables.** `NoLostUpdate` is not inductive: the memory a call writes back
must show what the tables show. `SharedMemOK` says it does from the reload to
the write, row by row, except for rows that chat turns insert from the side and
that the mirror never overwrites; `SharedLocksOK` says who holds the two locks.
Where projects are served, the one gateway that serves all calls is up to date
at any time.

**Guards.** `KeyCountOK`, `ClaimCountOK`, `ModelBudgetOK` and `ModelBreakerOK` are
budgets as well: who has had the effect or is about to have it is paid for by a
cause, and none is unpaid while there is no record; what calls in flight may
still spend or fail is added to what was spent and failed. `ClaimAckOK` follows
an event from hand to hand. `SlotsCountOK` and the accounts of the two pools
equate counters with the sets they count; `PoolWaitOK` is what keeps a wakeup
from being lost. `SessionGrantsOK`, `SessionNewOK` and `SessionOverOK` trace a usable
one to its people.

**Files.** `FilesControlOK` is the discipline of the file lock: who writes,
rotates or quarantines holds it, and what a writer has in hand is newer than
the file. That a backup is left needs a count over prefixes (`FilesBackupsOK`):
of the first *k* backups, for every *k*, as many can be read as there were
rotations, up to *k*, less those that are lost, and one fewer from the gap on
while a rotation is under way. Each shift moves the gap by one; each fault or
damage adds one to `losses`, and `FilesLossOK` bounds these.

**Audit, releases, proposals, webhooks.** `AuditAloneOK`: a call that met no other
holds the last hash, so a fork has an overlap behind it; `AuditCacheOK` says when
a cached hash fits its size, and the process is *doubtful* where it may not.
`ReleasesChargeOK`: while an update is in charge of `current` it can go back to a
good release. `UpgradeAloneOK`: while calls do not overlap there is one file,
which says what was decided; `UpgradeCanaryOK` says that a canary in a file, in a
copy or in the channel is behind passed tests. `HookSeenOK` and `HookCountOK`:
a digest that was seen is queued, in hand, or spoiled by a named loss; those
that passed a bucket, and those that may, are at most what it counted.

**Memories.** `MemoryRowsOK`: the count a review on Postgres got is that of the
row, unless the row was deleted or reviewed meanwhile, which makes it `raced`;
so a purged memory that is back, and a lost count, are told from the rest.
`MemoryWordsOK`: what is stored is the last verdict, and the policy allows it
over the listing it was reached over. A verdict over a listing that holds a
rival is never one that planners are shown.

**Only model-checked.** Liveness (`Settles` of the queue, `AllSettle` with the rest
of the client, `ApprovedEnds`): reasoning about fairness and ENABLED is outside
the prover. Nothing that is proved is about recursive definitions. The properties
of the runs that are expected to fail are false, and a run shows it.

## 6. Findings

1. **A quick restart strands a job** (`jq_quick_restart`). Only `start()`
   recovers stale rows (`core/worker.py:31`); a replica that is back before
   `lease_seconds` finds the row fresh and never looks again.
   `core/job_queue.py:140` says recovery keeps such rows from remaining stuck.
2. **A store error ends the worker loop** (`jq_loop_dies`). `claim_next` and
   `fail` are awaited outside the `try` (`core/worker.py:55`), although the
   comment at line 63 says the worker must not crash the loop.
3. **A cancelled message is overwritten** (`ob_cancel`). `cancel` accepts a
   running row and the marks have no condition on the status, although
   `cancelled` is listed as terminal (`core/outbound_messages.py:13`).
4. **The token is spent before the dual approval is checked**
   (`approval_dual`), against `docs/ENTERPRISE_GA15_CLOSURE.md:15`. A resume
   that comes before the second approver ends the run.
5. **A conflict is applied** (`appsync_conflict`). The receiver files a clash
   and applies the operation all the same (`appsync/offline_sync_apply.py:36`),
   against `docs/OFFLINE_FIRST_RECONNECT_UPDATE.md:77`.
6. **A project write undoes other gateways** (`appsync_projects`). It takes no
   advisory lock and stores every row from memory (`appsync/projects.py:605`),
   against the docstrings at `appsync/projects.py:156` and
   `appsync/migrated_postgres_store.py:123`.
7. **A damaged state file stops one start only** (`state_restart`).
   `appsync/strict_json_store.py:38` leaves nothing behind, so the next start
   runs on an empty state, against
   `docs/INDUSTRIAL_P0_P1_P2_REMEDIATION.md:14`.

Seen while reading, and not turned into a run, because no line of the
repository says otherwise or the models allow it and the properties name it as
a cause:

* *Job queue.* The Postgres purge checks and deletes in two transactions. Two
  Postgres replicas that start together may charge two retries.
* *Runs.* Runs left planned or running by a crash are never settled;
  `recover_resumes.py` reads the SQLite store only.
* *Chat.* A reconnect right after a broken connection is refused with 409 while
  the abandoned turn holds its lease, and the client reconnects at once and
  once only: resuming works only if the turn had ended. When the call that
  commits `chat.completed` raises, or the connection breaks after the event was
  read, the client reports the failure of a completed request. A stream of a
  request that was completed through ask replays no events. Over JSON, two
  overlapping asks with one key both answer, and an abandoned stream refuses
  every retry for ever.
* *Idempotency.* Over JSON state a `begin` that found an expired row puts its
  own over one that another inserted meanwhile; `complete` and `fail` do not
  check the owner.
* *BigSeller.* Two Postgres claims both succeed when there is no row to lock; an
  exception behind the effect releases the record of an applied update; after a
  death between claim and complete, redeliveries are acknowledged as duplicates
  until the record expires.
* *Pools.* A waiter of `PsycopgConnectionPool` is not woken when a connection is
  discarded, and a connection put back after `close()` stays open.
* *Models.* Retries ask neither circuit nor budget; schema repairs are not
  charged; failed calls do not count against the cap of a task.
* *Offline.* An expired approval leaves its task blocked; `mark_local_operation_synced`
  overwrites a conflict.
* *Projects.* The change, its event and its answer are three writes: a death in
  between makes a retry fail with "project already exists". The recovery script
  loads the AppSync state leniently and stores it over the file.
* *Webhooks.* A death between the mark and the last enqueue loses the event; the
  Postgres rate counter counts refused requests, the SQLite one does not.
* *Audit.* Concurrent calls fork the chain, and a cached hash stored with a later
  size makes the next call fork too; nothing in the repository verifies it.
* *Releases.* A first activation that fails its health check stays in `current`
  and is reported as rolled back; a death between switch and check leaves an
  unchecked release that is never checked again.
* *Proposals.* A proposal in review or blocked gets a live canary before the
  evaluation raises; a late save recreates the pending file beside the decided one.
* *Memories.* On Postgres a review that overlaps a purge brings the memory back;
  a purge lists the newest 1000 rows only. Two memories that contradict each
  other may both be shown once each was reviewed again in a listing without the
  other.

## 7. Plan

Done: the modules of section 2, and theorems for the safety they promise. Left,
in this order:

1. The composition of `WebhookIntake` with `JobQueue` and of `ApprovalRun` with
   the idempotency record of `/agent/run`, and that each still keeps its promise.
2. An abstract specification of what the stores promise their callers (a claim
   with a lease, an effect with causes), which queue, messages, desktops and
   connector claims implement.
3. The remaining AppSync routes (conversations, push tokens, connector
   accounts), the token guardrail of the router, the skill and prompt stores of
   self-learning.
4. The mobile client's local store and the desktop worker's own recovery.

## 8. Not modelled, and why

* Text, prompts, plans' contents, pricing, redaction, encryption, wording:
  functions of data, with no protocol.
* Tools, providers, browsers, sandboxes: the outside world; the models say when
  they may be called and let them answer anything.
* Authentication, roles and request parsing: stateless checks before the calls
  that are modelled. OAuth's one-time state and the repositories of one
  statement per method have no interleaving beyond the database's.
* Database failure beyond an error of one call or a lost connection: Postgres
  and SQLite are trusted to commit or not commit a transaction.
* The other screens of the clients, deployment manifests, release checks and
  code-writing scripts: they keep no state that two actors share.
* Recursion over data and liveness cannot be proved with the provers used; the
  modules that carry theorems therefore declare no recursive operator.

## 9. Running it

    tlc -workers 2 -config MCJobQueue_within_lease.cfg MCJobQueue
    tlc -workers 2 -config MCMessages_all.cfg MCMessages
    tlc -workers 2 -config MCApprovalRun_safety.cfg MCApprovalRun
    tlc -workers 2 -config MCAppSync_all.cfg MCAppSync
    tlc -workers 2 -config MCGuards_all.cfg MCGuards
    tlapm JobQueueProofs.tla          # and the seven other *Proofs.tla

The runs that look for a violation are the other configurations; each names
its module before the underscore. On two workers `guards` has about 606 000
distinct states and takes about two and a half minutes, `messages` about
269 000 and a minute and a half (most of it liveness), `approval_safety` about
103 000. From nothing, `UpkeepProofs` takes about nine minutes, `GuardsProofs`
about six, and all eight proof modules together about half an hour.
