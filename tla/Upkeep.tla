------------------------------- MODULE Upkeep -------------------------------
(***************************************************************************)
(* What the gateway keeps and takes in from outside: the project file and  *)
(* the recovery script, the audit log, the release slots, an upgrade       *)
(* proposal, structured memories, and webhook deliveries.  They share no   *)
(* state; Guards adds the guards to them, and one component moves in a     *)
(* behaviour.                                                              *)
(***************************************************************************)
EXTENDS Integers

CONSTANTS
    Gateways, Script, NoProc, Writes, Once, NoRequest, Backups,     \* of ProjectStore
    MaxFaults, MaxDamages,
    Loggers, Process, MaxEntries,                                   \* of AuditChain
    Newest, MaxRuns,                                                \* of ReleaseSlots
    Evaluations, Generations, Reviews, Decision,                    \* of Proposals
    Memories, Purpose, Advice, NoAdvice, Successes, Critical, Expiring,    \* of ExperienceMemory
    Curators, Planners, ReviewLimit, Scan, MaxReviews,
    Webhooks, Event, Nonce, NoNonce, Messages, SourceLimit, MaxBuckets   \* of WebhookIntake

VARIABLES
    component,      \* the one that moves in this behaviour
    postgres,       \* it runs over Postgres, where it comes in two variants
    primary, bak, marker, state, lock, doing, request, slot, data, keys,
    answered, truth, rolledBack, saved, rotations, losses, faults, damages,
    size, names, cachedHash, cachedSize, call, held, seenSize, mine, met, doubtful, excused,
    dir, current, previous, candidate, running, runStage, target, before, checked, accidents, runs,
    files, content, canary, operation, copy, tests, decided, answers, overlapped,
    order, ever, aged, expired, standing, validations, plan, group, fetched, doomed, glimpse,
    reviews, word, votes, beside, purged, raced,
    nonces, clock, counts, seen, enqueued, delivery, countedIn, unqueued, spoiled

Files == INSTANCE ProjectStore WITH Requests <- Writes, pc <- doing
Audit == INSTANCE AuditChain WITH Callers <- Loggers, previous <- names, pc <- call
Releases == INSTANCE ReleaseSlots WITH stage <- runStage
Upgrade == INSTANCE Proposals WITH pc <- operation
Memory == INSTANCE ExperienceMemory WITH
    Goal <- Purpose, Good <- Successes, Limit <- ReviewLimit, old <- aged, row <- fetched
Hook == INSTANCE WebhookIntake WITH
    Deliveries <- Webhooks, Limit <- SourceLimit,
    count <- counts, jobs <- enqueued, place <- delivery, slot <- countedIn, left <- unqueued

ASSUME UpkeepAssumption ==
    /\ Files!ConstantsOK /\ Audit!ConstantsOK /\ Releases!ConstantsOK
    /\ Upgrade!ConstantsOK /\ Memory!ConstantsOK /\ Hook!ConstantsOK

fileVars == <<primary, bak, marker, state, lock, doing, request, slot, data, keys,
              answered, truth, rolledBack, saved, rotations, losses, faults, damages>>
auditVars == <<size, names, cachedHash, cachedSize, call, held, seenSize, mine, met, doubtful, excused>>
releaseVars == <<dir, current, previous, candidate, running, runStage, target, before, checked, accidents, runs>>
proposalVars == <<files, content, canary, operation, copy, tests, decided, answers, overlapped>>
memoryVars == <<order, ever, aged, expired, standing, validations, plan, group, fetched, doomed,
                glimpse, reviews, word, votes, beside, purged, raced>>
hookVars == <<nonces, clock, counts, seen, enqueued, delivery, countedIn, unqueued, spoiled>>
upkeepVars == <<fileVars, auditVars, releaseVars, proposalVars, memoryVars, hookVars>>

\* The release slots start in one state when they do not move.
UpkeepInit ==
    /\ Files!Init /\ Audit!Init /\ Upgrade!Init /\ Memory!Init /\ Hook!Init
    /\ Releases!Init /\ (component # "releases" => current = 0)

FileStep ==
    /\ component = "files" /\ Files!Next
    /\ UNCHANGED <<auditVars, releaseVars, proposalVars, memoryVars, hookVars>>
AuditStep ==
    /\ component = "audit" /\ Audit!Next
    /\ UNCHANGED <<fileVars, releaseVars, proposalVars, memoryVars, hookVars>>
ReleaseStep ==
    /\ component = "releases" /\ Releases!Next
    /\ UNCHANGED <<fileVars, auditVars, proposalVars, memoryVars, hookVars>>
ProposalStep ==
    /\ component = "proposal" /\ Upgrade!Next
    /\ UNCHANGED <<fileVars, auditVars, releaseVars, memoryVars, hookVars>>
MemoryStep ==
    /\ component = "memory" /\ Memory!Next
    /\ UNCHANGED <<fileVars, auditVars, releaseVars, proposalVars, hookVars>>
HookStep ==
    /\ component = "webhooks" /\ Hook!Next
    /\ UNCHANGED <<fileVars, auditVars, releaseVars, proposalVars, memoryVars>>

UpkeepStep == FileStep \/ AuditStep \/ ReleaseStep \/ ProposalStep \/ MemoryStep \/ HookStep

UpkeepTypeOK ==
    /\ Files!TypeOK /\ Audit!TypeOK /\ Releases!TypeOK
    /\ Upgrade!TypeOK /\ Memory!TypeOK /\ Hook!TypeOK

----------------------------------------------------------------------------
\* Each property is stated, with the code it is about, in its module.

\* A damaged project file is never taken for an empty one, and the backups are enough
\* to recover it.
FailsClosed == Files!FailsClosed /\ Files!BackupsSuffice
\* What the documentation promises of the AppSync state file.
StateFailsClosed == Files!StateFailsClosed
\* What overlapping calls read and write back shows, and only there: the audit chain
\* forks only where calls overlap; a proposal is in one place, and what was decided
\* about it stays.
LateWritesShow ==
    /\ Audit!ForkNeedsOverlap /\ Audit!NamesEarlier
    /\ Upgrade!DecisionKept /\ Upgrade!OneFile
\* What is put in charge was checked: a release in current, a canary.
ActiveWasChecked ==
    /\ Releases!CurrentIsChecked /\ Releases!NeverOlder
    /\ Upgrade!CanaryWasTested
\* What was decided about a memory stays, a purged one stays away, and rivals are shown
\* together only as far as no review saw both.
MemoryStands == Memory!PurgedStays /\ Memory!ReviewStands /\ Memory!RivalsApart
=============================================================================
