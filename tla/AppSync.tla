------------------------------ MODULE AppSync ------------------------------
(***************************************************************************)
(* Four protocols of the AppSync store: desktop tasks, the trust in a      *)
(* device, offline synchronisation, and the tables that several gateways   *)
(* share.  They meet only in those tables, which SharedStore is about, so  *)
(* one of them moves in a behaviour and the others stay where they start.  *)
(***************************************************************************)
EXTENDS Integers

CONSTANTS
    Active,     \* the protocols that may move
    Tasks, Devices, NoDevice, NoTask, Lease, Window, MaxEdits, MaxLosses,   \* of RuntimeTask
    Keys, NoKey, Challenges, Requests, Skew, TTL, Life, Durable,            \* of DeviceTrust
    Ops, Refused, Limit, RetryDelay, MaxFaults,                             \* of OfflineSync
    Gateways, Calls, NoCall, Chat, Deployments,                             \* of SharedStore
    Rows, ChatRows, InsertOnly, MaxCrashes, MaxLockLosses

VARIABLES
    component,
    created, born, status, approval, window, holder, lease, doing, left,
    edited, overran, edits, losses,
    key, cred, revokedAt, approvalKey, enrollment, enrollKey, enrollLeft,
    challenge, challengeLeft, signedBy, offset, nonce, accepted, todo, proved,
    opStatus, wait, review, net, worker, batch, inbox, applied, faults,
    deployment, db, mem, local, advisory, at, crashes, lockLosses

Task == INSTANCE RuntimeTask
Device == INSTANCE DeviceTrust
Sync == INSTANCE OfflineSync WITH status <- opStatus
Shared == INSTANCE SharedStore

ASSUME ConstantsAssumption ==
    Task!ConstantsOK /\ Device!ConstantsOK /\ Sync!ConstantsOK /\ Shared!ConstantsOK

taskVars == <<created, born, status, approval, window, holder, lease, doing, left,
              edited, overran, edits, losses>>
deviceVars == <<key, cred, revokedAt, approvalKey, enrollment, enrollKey, enrollLeft,
                challenge, challengeLeft, signedBy, offset, nonce, accepted, todo, proved>>
syncVars == <<opStatus, wait, review, net, worker, batch, inbox, applied, faults>>
sharedVars == <<deployment, db, mem, local, advisory, at, crashes, lockLosses>>
vars == <<component, taskVars, deviceVars, syncVars, sharedVars>>

Init ==
    /\ component \in Active
    /\ Task!Init /\ Device!Init /\ Sync!Init /\ Shared!Init

TaskStep ==
    /\ component = "task" /\ Task!Next
    /\ UNCHANGED <<component, deviceVars, syncVars, sharedVars>>
DeviceStep ==
    /\ component = "device" /\ Device!Next
    /\ UNCHANGED <<component, taskVars, syncVars, sharedVars>>
SyncStep ==
    /\ component = "sync" /\ Sync!Next
    /\ UNCHANGED <<component, taskVars, deviceVars, sharedVars>>
SharedStep ==
    /\ component = "shared" /\ Shared!Next
    /\ UNCHANGED <<component, taskVars, deviceVars, syncVars>>

Next == TaskStep \/ DeviceStep \/ SyncStep \/ SharedStep

Spec == Init /\ [][Next]_vars /\ Task!Fairness

----------------------------------------------------------------------------
\* The type invariants of the four modules.
TypeOK == Task!TypeOK /\ Device!TypeOK /\ Sync!TypeOK /\ Shared!TypeOK

\* Each property is stated, with the code it is about, in its module.
OneDesktopPerTask == Task!OneDesktopPerTask
OutcomeNeedsCause == Task!OutcomeNeedsCause
ApprovedEnds == Task!ApprovedEnds
RevokedStaysOut == Device!RevokedStaysOut
AcceptedOnce == Device!AcceptedOnce
SyncedWasApplied == Sync!SyncedWasApplied
ConflictNotApplied == Sync!ConflictNotApplied
NoLostUpdate == Shared!NoLostUpdate
\* What the projects' docstring promises of several gateways (appsync/projects.py): the
\* same property, also when one of them serves a project route.
OneSourceOfTruth == Shared!NoLostUpdate
=============================================================================
