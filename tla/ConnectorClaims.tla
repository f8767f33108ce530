-------------------------- MODULE ConnectorClaims --------------------------
(* One BigSeller webhook event about the fulfilment of one order, delivered *)
(* and redelivered, and the operator who retries the queued failure         *)
(* (integrations/bigseller: worker.py, fulfillment.py, idempotency.py,      *)
(* errors.py).  The event and the update have an idempotency record each.   *)
(*                                                                          *)
(* claim purges and then claims, each in a transaction; with Postgres the   *)
(* SELECT FOR UPDATE locks nothing when there is no row.  A tick is longer  *)
(* than a claim.  A client call that raises is taken to have had no effect. *)
EXTENDS Integers, FiniteSets

CONSTANTS
    Deliveries,   \* posts of the event
    Retries,      \* retry calls of an operator
    TTL,          \* life of a record, in ticks
    MaxErrors     \* bound: store and audit calls that raise after the effect

ConstantsOK ==
    /\ Deliveries \cap Retries = {} /\ IsFiniteSet(Deliveries \cup Retries)
    /\ TTL \in Nat \ {0} /\ MaxErrors \in Nat

Actors == Deliveries \cup Retries
Records == {"event", "update"}

VARIABLES
    postgres,  \* the guard is PostgresBigSellerIdempotencyGuard
    claim,     \* claim["event"], claim["update"]: status of the two records
    life,      \* ticks until their expires_at
    queued,    \* the row of the error queue
    step,      \* where each actor is
    applied,   \* history: actors whose update reached BigSeller
    excuses,   \* history: records expired or written over, effects taken for failures
    errors     \* what MaxErrors counts

vars == <<postgres, claim, life, queued, step, applied, excuses, errors>>
records == <<claim, life>>
ghosts == <<applied, excuses, errors>>

To(a, s) == step' = [step EXCEPT ![a] = s]
InClaim == {"inserting event", "inserting update"}
Working == {"received", "claimed", "applied", "completed", "done", "raising", "enqueue"}
Acked == {"ok", "duplicate"}

----------------------------------------------------------------------------
Init ==
    /\ postgres \in BOOLEAN
    /\ claim = [k \in Records |-> "none"]
    /\ life = [k \in Records |-> 0]
    /\ queued = "none"
    /\ step = [a \in Actors |-> "idle"]
    /\ applied = {} /\ excuses = 0 /\ errors = 0

\* Mutant of Free: only a completed record is a duplicate.
FreeIfOpen(k) == claim[k] # "completed" \/ life[k] = 0

\* No record, or one that the purge in front of the claim removes.
Free(k) == claim[k] = "none" \/ life[k] = 0

Mark(k, st) ==
    /\ claim' = [claim EXCEPT ![k] = st]
    /\ life' = [life EXCEPT ![k] = IF st = "none" THEN 0 ELSE TTL]

Purged == [k \in Records |-> IF life[k] = 0 THEN "none" ELSE claim[k]]
Excuse(st) == IF st = "none" THEN 0 ELSE 1

\* claim: purge, then look and claim at once; with Postgres the row that the look
\* did not find is inserted in another step, over whatever has come to be there.
Take(a, k, mine, inserting, taken) ==
    /\ excuses' = excuses + (IF life["update"] = 0 THEN Excuse(claim["update"]) ELSE 0)
    /\ \/ /\ ~Free(k)
          /\ To(a, taken) /\ claim' = Purged /\ UNCHANGED life
       \/ /\ Free(k) /\ postgres
          /\ To(a, inserting) /\ claim' = Purged /\ UNCHANGED life
       \/ /\ Free(k) /\ ~postgres
          /\ To(a, mine)
          /\ claim' = [Purged EXCEPT ![k] = "in_progress"] /\ life' = [life EXCEPT ![k] = TTL]
    /\ UNCHANGED <<queued, applied, errors>>
Insert(a, k, mine) ==
    /\ Mark(k, "in_progress") /\ To(a, mine)
    /\ excuses' = excuses + (IF k = "update" THEN Excuse(claim[k]) ELSE 0)
    /\ UNCHANGED <<queued, applied, errors>>

\* handle_webhook claims the event, or answers ok, duplicate.
ClaimEvent(a) ==
    /\ a \in Deliveries /\ step[a] = "idle"
    /\ Take(a, "event", "received", "inserting event", "duplicate")
InsertEvent(a) == step[a] = "inserting event" /\ Insert(a, "event", "received")

\* sync_status claims the update, or skips it as done or under way.  retry_error
\* comes here without an event, for a failure that is in the queue.
ClaimUpdate(a) ==
    /\ \/ step[a] = "received"
       \/ a \in Retries /\ step[a] = "idle" /\ queued # "none"
    /\ Take(a, "update", "claimed", "inserting update", "done")
InsertUpdate(a) == step[a] = "inserting update" /\ Insert(a, "update", "claimed")

\* client.sync_fulfillment_status.
Call(a) ==
    /\ step[a] = "claimed"
    /\ \/ To(a, "applied") /\ applied' = applied \cup {a}
       \/ To(a, "raising") /\ UNCHANGED applied
    /\ UNCHANGED <<records, queued, excuses, errors>>

CompleteUpdate(a) ==
    /\ step[a] = "applied"
    /\ Mark("update", "completed") /\ To(a, "completed")
    /\ UNCHANGED <<queued, ghosts>>

\* The audit line of a success.
Audit(a) ==
    /\ step[a] = "completed" /\ To(a, "done")
    /\ UNCHANGED <<records, queued, ghosts>>

\* complete or the audit raises: the handler takes it for a failed call.
RaiseAfterEffect(a) ==
    /\ step[a] \in {"applied", "completed"} /\ errors < MaxErrors
    /\ To(a, "raising")
    /\ errors' = errors + 1 /\ excuses' = excuses + 1
    /\ UNCHANGED <<records, queued, applied>>

\* Mutant of ReleaseUpdate: the failure is not queued.
ReleaseUpdateOnly(a) ==
    /\ step[a] = "raising"
    /\ Mark("update", "none") /\ To(a, "failed")
    /\ UNCHANGED <<queued, ghosts>>

\* except Exception: release whatever record there is, then queue the failure.
ReleaseUpdate(a) ==
    /\ step[a] = "raising"
    /\ Mark("update", "none") /\ To(a, "enqueue")
    /\ UNCHANGED <<queued, ghosts>>
Enqueue(a) ==
    /\ step[a] = "enqueue"
    /\ queued' = "open" /\ To(a, "failed")
    /\ UNCHANGED <<records, ghosts>>

\* handle_webhook completes the event, or releases it and raises.
CompleteEvent(a) ==
    /\ step[a] = "done" /\ To(a, "ok")
    /\ IF a \in Deliveries THEN Mark("event", "completed") ELSE UNCHANGED records
    /\ UNCHANGED <<queued, ghosts>>
ReleaseEvent(a) ==
    /\ step[a] = "failed" /\ To(a, "error")
    /\ IF a \in Deliveries THEN Mark("event", "none") ELSE UNCHANGED records
    /\ UNCHANGED <<queued, ghosts>>

\* resolve_error closes the row without a replay.
ResolveError ==
    /\ queued = "open" /\ queued' = "resolved"
    /\ UNCHANGED <<records, step, ghosts>>

Crash(a) ==
    /\ step[a] \in InClaim \cup Working \cup {"failed"}
    /\ To(a, "gone")
    /\ UNCHANGED <<records, queued, ghosts>>

Tick ==
    /\ \E k \in Records : life[k] > 0
    /\ \A a \in Actors : step[a] \notin InClaim
    /\ life' = [k \in Records |-> IF life[k] > 0 THEN life[k] - 1 ELSE 0]
    /\ UNCHANGED <<claim, queued, step, ghosts>>

Next ==
    /\ UNCHANGED postgres
    /\ \/ \E a \in Actors :
            \/ ClaimEvent(a) \/ InsertEvent(a) \/ ClaimUpdate(a) \/ InsertUpdate(a)
            \/ Call(a) \/ CompleteUpdate(a) \/ Audit(a) \/ RaiseAfterEffect(a)
            \/ ReleaseUpdate(a) \/ Enqueue(a) \/ CompleteEvent(a) \/ ReleaseEvent(a)
            \/ Crash(a)
       \/ ResolveError \/ Tick

Spec == Init /\ [][Next]_vars

----------------------------------------------------------------------------
TypeOK ==
    /\ postgres \in BOOLEAN
    /\ claim \in [Records -> {"none", "in_progress", "completed"}]
    /\ life \in [Records -> 0..TTL]
    /\ queued \in {"none", "open", "resolved"}
    /\ step \in [Actors -> {"idle", "failed", "error", "gone"} \cup InClaim \cup Working \cup Acked]
    /\ applied \subseteq Actors /\ excuses \in Nat /\ errors \in 0..MaxErrors

\* BigSeller sees the update once, and once more for every record that had expired,
\* was written over by a claim that saw no row (Postgres), or was given up because
\* the step after the effect raised.  Redeliveries and operator retries add nothing.
EffectNeedsCause == Cardinality(applied) <= 1 + excuses

\* Who is told ok - handled or duplicate - will not send the event again: the update
\* has been applied, or somebody is still at it, or it is in the error queue, or the
\* process that held the claim died.
AcknowledgedIsNotLost ==
    (\E a \in Deliveries : step[a] \in Acked) =>
        \/ applied # {} \/ queued # "none"
        \/ \E a \in Actors : step[a] \in Working \cup InClaim \cup {"gone"}
=============================================================================
