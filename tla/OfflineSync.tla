---------------------------- MODULE OfflineSync ----------------------------
(***************************************************************************)
(* The local outbox of an offline gateway, the reconnect worker that       *)
(* uploads it (offline/connectivity.py), and the gateway that receives it  *)
(* with POST /app/sync (appsync/store.py, appsync/offline_sync_apply.py).  *)
(*                                                                         *)
(* The outbox and the inbox are two stores.  Payloads are left out: an     *)
(* operation has one entity, applied or not; Refused are those that        *)
(* apply_uploaded_operations skips whatever happens (server-authored       *)
(* records, another actor's conversation, desktop tasks).                  *)
(***************************************************************************)
EXTENDS Integers, FiniteSets

CONSTANTS
    Ops,        \* operations queued offline
    Refused,    \* those the receiver never applies
    Limit,      \* operations uploaded at a time (100)
    RetryDelay, \* retry_delay_seconds after a failed upload, in ticks
    MaxFaults   \* bound: uploads that raise, and crashes

ConstantsOK ==
    /\ Refused \subseteq Ops
    /\ Limit \in Nat /\ RetryDelay \in Nat /\ MaxFaults \in Nat

VARIABLES
    status,     \* LocalOutboxRecord.status
    wait,       \* ticks until next_retry_at
    review,     \* operations with an open SyncConflictRecord
    net,        \* network_state
    worker,     \* what run_once does
    batch,      \* the operations it read and has not marked
    inbox,      \* receiver: LocalInboxRecord.status
    applied,    \* receiver: operations whose entity exists
    faults

outbox == <<status, wait, review>>
loop == <<net, worker, batch>>
receiver == <<inbox, applied>>
vars == <<outbox, loop, receiver, faults>>

Due == {o \in Ops : status[o] \in {"pending", "failed"} /\ wait[o] = 0}
Least(a, b) == IF a < b THEN a ELSE b

----------------------------------------------------------------------------
Init ==
    /\ status = [o \in Ops |-> "none"] /\ wait = [o \in Ops |-> 0] /\ review = {}
    /\ net = "local_only" /\ worker = "idle" /\ batch = {}
    /\ inbox = [o \in Ops |-> "none"] /\ applied = {}
    /\ faults = 0

\* enqueue_local_operation, or an event that is queued by itself.
Enqueue(o) ==
    /\ status[o] = "none"
    /\ status' = [status EXCEPT ![o] = "pending"]
    /\ UNCHANGED <<wait, review, loop, receiver, faults>>

\* run_once: the probes fail.
StayLocal ==
    /\ worker = "idle"
    /\ net' = "local_only"
    /\ UNCHANGED <<outbox, worker, batch, receiver, faults>>

\* run_once: the probes pass, and pending_local_outbox is read.
Reconnect ==
    /\ worker = "idle"
    /\ net' = "syncing"
    /\ \E b \in SUBSET Due :
        /\ Cardinality(b) = Least(Limit, Cardinality(Due))
        /\ batch' = b
        /\ worker' = IF b = {} THEN "checking" ELSE "uploading"
    /\ UNCHANGED <<outbox, receiver, faults>>

\* record_remote_events at the receiver, one commit: what it knows is a
\* duplicate, what meets an operation of its own with the same key and another
\* payload is a conflict.
Receive(clashing) ==
    /\ worker = "uploading"
    /\ inbox' = [o \in Ops |->
         IF o \notin batch THEN inbox[o]
         ELSE IF inbox[o] # "none" THEN "duplicate"
         ELSE IF o \in clashing THEN "conflict" ELSE "applied"]
    /\ worker' = "applying"
    /\ UNCHANGED <<outbox, net, batch, applied, faults>>

\* Mutant of ToApply: what the inbox knows already needs no second look.
ToApplyNew == {o \in batch \ Refused : inbox[o] = "applied"}
\* Mutant of ToApply: an upload may create what only the server may.
ToApplyAny == batch
\* What apply_uploaded_operations applies: entities that are not there yet.
ToApply == batch \ Refused

\* apply_uploaded_operations, a second commit.
Apply ==
    /\ worker = "applying"
    /\ applied' = applied \cup ToApply
    /\ worker' = "answering"
    /\ UNCHANGED <<outbox, net, batch, inbox, faults>>

\* The answer of the receiver arrives.
Answer ==
    /\ worker = "answering"
    /\ worker' = "synced"
    /\ UNCHANGED <<outbox, net, batch, receiver, faults>>

\* The upload raises: before it arrives, between the two commits of the
\* receiver, or because the answer is lost.
UploadFails ==
    /\ faults < MaxFaults
    /\ worker \in {"uploading", "applying", "answering"}
    /\ worker' = "failing"
    /\ faults' = faults + 1
    /\ UNCHANGED <<outbox, net, batch, receiver>>

\* mark_local_operation_failed, one commit each.
MarkFailed(o) ==
    /\ worker = "failing" /\ o \in batch
    /\ status' = [status EXCEPT ![o] = "failed"]
    /\ wait' = [wait EXCEPT ![o] = RetryDelay]
    /\ batch' = batch \ {o}
    /\ UNCHANGED <<review, net, worker, receiver, faults>>

GiveUp ==
    /\ worker = "failing" /\ batch = {}
    /\ worker' = "idle" /\ net' = "failed"
    /\ UNCHANGED <<outbox, batch, receiver, faults>>

\* mark_local_operation_synced, whatever became of the row during the upload
\* and whatever conflicts the receiver reported.
MarkSynced(o) ==
    /\ worker = "synced" /\ o \in batch
    /\ status' = [status EXCEPT ![o] = "synced"]
    /\ batch' = batch \ {o}
    /\ UNCHANGED <<wait, review, net, worker, receiver, faults>>

\* sync_state: an open conflict ends the pass, otherwise the update checker runs.
CheckConflicts ==
    /\ worker = "checking" \/ (worker = "synced" /\ batch = {})
    /\ IF review # {} THEN worker' = "idle" /\ net' = "failed"
       ELSE worker' = "updating" /\ net' = "update_checking"
    /\ UNCHANGED <<outbox, batch, receiver, faults>>

UpdateChecked ==
    /\ worker = "updating"
    /\ worker' = "idle" /\ net' = "healthy"
    /\ UNCHANGED <<outbox, batch, receiver, faults>>

\* record_remote_events at the sender, for an event that names the key of an
\* operation: the echo of what the receiver applied, or another payload.
PullEcho(o) ==
    /\ status[o] \in {"pending", "failed"} /\ o \in applied
    /\ status' = [status EXCEPT ![o] = "synced"]
    /\ UNCHANGED <<wait, review, loop, receiver, faults>>
PullClash(o) ==
    /\ status[o] \in {"pending", "failed"}
    /\ status' = [status EXCEPT ![o] = "conflict"]
    /\ review' = review \cup {o}
    /\ UNCHANGED <<wait, loop, receiver, faults>>

\* The sender dies; the network state it last wrote stays.
Crash ==
    /\ faults < MaxFaults
    /\ worker # "idle"
    /\ worker' = "idle" /\ batch' = {}
    /\ faults' = faults + 1
    /\ UNCHANGED <<outbox, net, receiver>>

Tick ==
    /\ wait' = [o \in Ops |-> IF wait[o] = 0 THEN 0 ELSE wait[o] - 1]
    /\ UNCHANGED <<status, review, loop, receiver, faults>>

Next ==
    \/ \E o \in Ops :
        Enqueue(o) \/ MarkFailed(o) \/ MarkSynced(o) \/ PullEcho(o) \/ PullClash(o)
    \/ \E c \in SUBSET batch : Receive(c)
    \/ StayLocal \/ Reconnect \/ Apply \/ Answer \/ UploadFails \/ GiveUp
    \/ CheckConflicts \/ UpdateChecked \/ Crash \/ Tick

Spec == Init /\ [][Next]_vars

----------------------------------------------------------------------------
TypeOK ==
    /\ status \in [Ops -> {"none", "pending", "failed", "synced", "conflict"}]
    /\ wait \in [Ops -> 0..RetryDelay]
    /\ review \subseteq Ops
    /\ net \in {"local_only", "syncing", "failed", "update_checking", "healthy"}
    /\ worker \in {"idle", "uploading", "applying", "answering", "failing", "synced", "checking", "updating"}
    /\ batch \subseteq Ops
    /\ inbox \in [Ops -> {"none", "applied", "duplicate", "conflict"}]
    /\ applied \subseteq Ops \ Refused
    /\ faults \in 0..MaxFaults

\* What the sender counts as synced exists at the receiver, although its inbox
\* entry and its effect are two commits and a failed upload is repeated.
SyncedWasApplied == \A o \in Ops : status[o] = "synced" => o \in applied \cup Refused

\* A conflict waits for a review: what the receiver found to clash with an
\* operation of its own is not applied ("opens conflicts for idempotency payload
\* mismatches. Conflicts require manual review").
ConflictNotApplied == \A o \in Ops : inbox[o] = "conflict" => o \notin applied
=============================================================================
