------------------------------- MODULE Guards -------------------------------
(***************************************************************************)
(* The guards around side effects and shared resources, together with the  *)
(* components of Upkeep.  They share no state, so one of them moves in a   *)
(* behaviour and the others stay where they start; a guard that comes in   *)
(* two variants, over SQLite and over Postgres, is either of them.  The    *)
(* job queue is part of it for its type and its status alone: what         *)
(* overlapping handlers write is the subject of JobQueue.                  *)
(***************************************************************************)
EXTENDS Upkeep

CONSTANTS
    Active,     \* the components that may move
    Callers, NoCaller, Payload, KeyTTL,                                 \* of Idempotency
    Deliveries, Retries, ClaimTTL, StoreErrors,                         \* of ConnectorClaims
    People, Nobody, Owners, Sessions, SessionTTL, Window,               \* of BreakGlass
    ModelRequests, Profiles, Threshold, ResetTicks, CallRetries, DailyLimit,    \* of ModelCalls
    FallbackLocal,
    Requests, Class, GlobalLimit, ClassLimit, RateLimit, WindowTicks,   \* of RequestSlots
    Threads, MaxSize,                                                   \* of RepositoryPool
    Users, Size,                                                        \* of AppSyncPool
    Keys, MaxJobs, Workers, MaxRetries, Base, Lease, Overrun,           \* of JobQueue
    RestartDelay, MaxCrashes, MaxErrors, MaxAdmin

VARIABLES
    record, hash, response, left, stage, answer, ran, causes,
    claim, life, queued, step, applied, excuses, errors,
    status, actor, by, second, sessionLeft, revoked, grants, over,
    failures, since, spent, phase, next, profile, attempt,
    total, byClass, bucket, window, place,
    idle, dead, created, inUse, shut, thread,
    pooled, broken, made, ending, user,
    rows, dedupe, jobStatus, retryCount, wait, age, claims,
    pc, job, count, todo, downFor, admin, crashes, jobErrors, adminCalls

Key == INSTANCE Idempotency WITH TTL <- KeyTTL
Claim == INSTANCE ConnectorClaims WITH TTL <- ClaimTTL, MaxErrors <- StoreErrors
Session == INSTANCE BreakGlass WITH TTL <- SessionTTL, left <- sessionLeft
Model == INSTANCE ModelCalls WITH
    Requests <- ModelRequests, MaxRetries <- CallRetries, Limit <- DailyLimit
Slots == INSTANCE RequestSlots
Pool == INSTANCE RepositoryPool
AppPool == INSTANCE AppSyncPool
Jobs == INSTANCE JobQueue WITH
    Postgres <- TRUE, created <- rows, key <- dedupe, status <- jobStatus, errors <- jobErrors

ASSUME GuardsAssumption ==
    /\ Key!ConstantsOK /\ Claim!ConstantsOK /\ Session!ConstantsOK /\ Model!ConstantsOK
    /\ Slots!ConstantsOK /\ Pool!ConstantsOK /\ AppPool!ConstantsOK

\* What JobQueue assumes of its constants.
ASSUME JobsAssumption ==
    /\ Keys # {} /\ MaxJobs \in Nat /\ MaxRetries \in Nat /\ Lease \in Nat \ {0}
    /\ RestartDelay \in Nat
    /\ MaxCrashes \in Nat /\ MaxErrors \in Nat /\ MaxAdmin \in Nat /\ Overrun \in BOOLEAN
    /\ \A n \in 1..MaxRetries : Jobs!Backoff(n) \in Nat \ {0}

keyVars == <<record, hash, response, left, stage, answer, ran, causes>>
claimVars == <<claim, life, queued, step, applied, excuses, errors>>
sessionVars == <<status, actor, by, second, sessionLeft, revoked, grants, over>>
modelVars == <<failures, since, spent, phase, next, profile, attempt>>
slotVars == <<total, byClass, bucket, window, place>>
poolVars == <<idle, dead, created, inUse, shut, thread>>
appPoolVars == <<pooled, broken, made, ending, user>>
jobVars == <<rows, dedupe, jobStatus, retryCount, wait, age, claims,
             pc, job, count, todo, downFor, admin, crashes, jobErrors, adminCalls>>
guardVars == <<keyVars, claimVars, sessionVars, modelVars, slotVars, poolVars, appPoolVars, jobVars>>
vars == <<component, postgres, guardVars, upkeepVars>>

\* A component that does not move starts in one state.
AtRest ==
    /\ postgres => component \in {"key", "claim", "slots", "memory", "webhooks"}
    /\ component # "session" =>
        /\ \A s \in Sessions : status[s] = "none"
        /\ by = (CHOOSE owner \in [Sessions -> Owners] : TRUE) /\ actor = by

Init ==
    /\ component \in Active
    /\ Key!Init /\ Claim!Init /\ Session!Init /\ AtRest
    /\ Model!Init /\ Slots!Init /\ Pool!Init /\ AppPool!Init /\ Jobs!Init
    /\ UpkeepInit

KeyStep ==
    /\ component = "key" /\ Key!Next
    /\ UNCHANGED <<claimVars, sessionVars, modelVars, slotVars, poolVars, appPoolVars, jobVars>>
ClaimStep ==
    /\ component = "claim" /\ Claim!Next
    /\ UNCHANGED <<keyVars, sessionVars, modelVars, slotVars, poolVars, appPoolVars, jobVars>>
SessionStep ==
    /\ component = "session" /\ Session!Next
    /\ UNCHANGED <<keyVars, claimVars, modelVars, slotVars, poolVars, appPoolVars, jobVars>>
ModelStep ==
    /\ component = "model" /\ Model!Next
    /\ UNCHANGED <<keyVars, claimVars, sessionVars, slotVars, poolVars, appPoolVars, jobVars>>
SlotStep ==
    /\ component = "slots" /\ Slots!Next
    /\ UNCHANGED <<keyVars, claimVars, sessionVars, modelVars, poolVars, appPoolVars, jobVars>>
PoolStep ==
    /\ component = "pool" /\ Pool!Next
    /\ UNCHANGED <<keyVars, claimVars, sessionVars, modelVars, slotVars, appPoolVars, jobVars>>
AppPoolStep ==
    /\ component = "app pool" /\ AppPool!Next
    /\ UNCHANGED <<keyVars, claimVars, sessionVars, modelVars, slotVars, poolVars, jobVars>>
JobStep ==
    /\ component = "jobs" /\ Jobs!Next
    /\ UNCHANGED <<keyVars, claimVars, sessionVars, modelVars, slotVars, poolVars, appPoolVars>>

GuardStep ==
    \/ KeyStep \/ ClaimStep \/ SessionStep \/ ModelStep
    \/ SlotStep \/ PoolStep \/ AppPoolStep \/ JobStep

Next ==
    /\ UNCHANGED <<component, postgres>>
    /\ \/ GuardStep /\ UNCHANGED upkeepVars
       \/ UpkeepStep /\ UNCHANGED guardVars

Spec == Init /\ [][Next]_vars

----------------------------------------------------------------------------
\* The type invariants of the components.
TypeOK ==
    /\ Key!TypeOK /\ Claim!TypeOK /\ Session!TypeOK /\ Model!TypeOK
    /\ Slots!TypeOK /\ Pool!TypeOK /\ AppPool!TypeOK /\ Jobs!TypeOK
    /\ UpkeepTypeOK

\* Each property is stated, with the code it is about, in its module.

\* Nothing is done twice without a cause: a side effect by the requests of one key,
\* an update of BigSeller by the deliveries of one event.
EffectNeedsCause ==
    /\ Key!EffectNeedsCause /\ Key!ReplayIsFirst
    /\ Claim!EffectNeedsCause
\* What is acknowledged is not lost: an event of BigSeller, a write of a project, a
\* webhook delivery.
AcknowledgedIsNotLost ==
    Claim!AcknowledgedIsNotLost /\ Files!AnsweredIsKept /\ Hook!TakenIsQueued
\* A session elevates only whom the right people let it, and while it lasts.
UsableWasGranted == Session!UsableWasGranted
\* Model calls that run together pass budget and breaker by a bounded amount.
CallsBounded == Model!OverspendBounded /\ Model!FailuresBounded
\* What is limited is counted: the slots of requests, the connections of two pools,
\* the deliveries of a source; and nobody waits for a connection that is there.
SlotsAccounted ==
    /\ Slots!SlotsAccounted /\ Pool!PoolAccounted /\ AppPool!PoolAccounted
    /\ Pool!NoLostWakeup /\ Hook!RateHolds
\* Whatever calls of handlers that outlived their lease write, the status of a job
\* and its retry count agree.
StatusMatchesRetries == Jobs!StatusMatchesRetries
=============================================================================
