----------------------------- MODULE ModelCalls -----------------------------
(* Model calls that run at the same time on one ModelRouter                 *)
(* (models/router.py, models/budget_policy.py, and the same control in      *)
(* models/router_streaming.py): the plan of profiles, the circuit breaker   *)
(* of each, retries, and the budget that is checked before a call and       *)
(* charged after it.  Between two awaits a call runs alone.                 *)
(*                                                                          *)
(* A call costs 1 on the profiles of the plan and nothing on "local", to    *)
(* which the budget may divert it; the day the budget is about does not     *)
(* end.  A streaming call that falls back to complete() is a new call.      *)
EXTENDS Integers, Sequences, FiniteSets

CONSTANTS
    Requests,       \* calls in progress at the same time
    Profiles,       \* the profiles of the plan, in order
    Threshold,      \* failure_threshold
    ResetTicks,     \* reset_seconds, in ticks
    MaxRetries,     \* max_retries
    Limit,          \* daily_usd_limit
    FallbackLocal   \* TRUE: on_exceed = "fallback_local", else "block"

Planned == {Profiles[i] : i \in DOMAIN Profiles}

ConstantsOK ==
    /\ Requests # {} /\ IsFiniteSet(Requests)
    /\ Profiles \in Seq(Planned) /\ "local" \notin Planned
    /\ Threshold \in Nat \ {0} /\ ResetTicks \in Nat \ {0}
    /\ MaxRetries \in Nat /\ Limit \in Nat /\ FallbackLocal \in BOOLEAN

VARIABLES
    failures,   \* _circuit[p]["failures"] of the planned profiles, 0 without an entry
    since,      \* ticks since opened_at, saturating at ResetTicks
    spent,      \* cost recorded in the ledger
    phase,      \* where each call is
    next,       \* position in the plan
    profile,    \* profile it has chosen
    attempt     \* attempt on that profile

vars == <<failures, since, spent, phase, next, profile, attempt>>
call == <<phase, next, profile, attempt>>

----------------------------------------------------------------------------
Init ==
    /\ failures = [p \in Planned |-> 0]
    /\ since = [p \in Planned |-> 0]
    /\ spent = 0
    /\ phase = [r \in Requests |-> "idle"]
    /\ next = [r \in Requests |-> 1]
    /\ profile = [r \in Requests |-> "local"]
    /\ attempt = [r \in Requests |-> 0]

Start(r) ==
    /\ phase[r] = "idle"
    /\ phase' = [phase EXCEPT ![r] = "selecting"]
    /\ next' = [next EXCEPT ![r] = 1]
    /\ UNCHANGED <<failures, since, spent, profile, attempt>>

\* Mutant of Tripped: one failure more than the threshold.
TrippedLate(p) == failures[p] > Threshold

Tripped(p) == failures[p] >= Threshold

CircuitOpen(p) == Tripped(p) /\ since[p] < ResetTicks

\* Mutant of OverBudget: what has been spent is compared, not what will have been.
OverBudgetSpent == spent > Limit

\* ModelBudgetEnforcer.check, with the projected cost of this call.
OverBudget == spent + 1 > Limit

\* _circuit_open forgets the failures of a circuit it finds due for a reset.
ResetIfDue(p) ==
    failures' = [failures EXCEPT ![p] = IF Tripped(p) /\ ~CircuitOpen(p) THEN 0 ELSE @]

Use(r, p) ==
    /\ phase' = [phase EXCEPT ![r] = "calling"]
    /\ profile' = [profile EXCEPT ![r] = p]
    /\ attempt' = [attempt EXCEPT ![r] = 0]
    /\ UNCHANGED next

\* One turn of the loop over the plan, up to the call of the provider.
Skip(r) ==
    /\ phase[r] = "selecting" /\ next[r] \in DOMAIN Profiles
    /\ CircuitOpen(Profiles[next[r]])
    /\ next' = [next EXCEPT ![r] = @ + 1]
    /\ UNCHANGED <<failures, since, spent, phase, profile, attempt>>
Choose(r) ==
    /\ phase[r] = "selecting" /\ next[r] \in DOMAIN Profiles
    /\ ~CircuitOpen(Profiles[next[r]])
    /\ ResetIfDue(Profiles[next[r]])
    /\ \/ ~OverBudget /\ Use(r, Profiles[next[r]])
       \/ OverBudget /\ FallbackLocal /\ Use(r, "local")
       \/ /\ OverBudget /\ ~FallbackLocal
          /\ phase' = [phase EXCEPT ![r] = "idle"]
          /\ UNCHANGED <<next, profile, attempt>>
    /\ UNCHANGED <<since, spent>>
AllFailed(r) ==
    /\ phase[r] = "selecting" /\ next[r] \notin DOMAIN Profiles
    /\ phase' = [phase EXCEPT ![r] = "idle"]
    /\ UNCHANGED <<failures, since, spent, next, profile, attempt>>

\* The provider answered: the circuit is closed and the cost recorded.
Succeed(r) ==
    /\ phase[r] = "calling"
    /\ IF profile[r] = "local" THEN UNCHANGED <<failures, spent>>
       ELSE failures' = [failures EXCEPT ![profile[r]] = 0] /\ spent' = spent + 1
    /\ phase' = [phase EXCEPT ![r] = "idle"]
    /\ UNCHANGED <<since, next, profile, attempt>>

\* A cached answer leaves circuit and ledger alone.
Cached(r) ==
    /\ phase[r] = "calling"
    /\ phase' = [phase EXCEPT ![r] = "idle"]
    /\ UNCHANGED <<failures, since, spent, next, profile, attempt>>

\* The provider failed, or the token guardrail raised before it was called.  No
\* call asks for the circuit of a profile outside the plan.
RecordFailure(p) ==
    IF p = "local" THEN UNCHANGED <<failures, since>>
    ELSE /\ failures' = [failures EXCEPT ![p] = @ + 1]
         /\ since' = [since EXCEPT ![p] = 0]
FailRetry(r) ==
    /\ phase[r] = "calling" /\ attempt[r] < MaxRetries
    /\ RecordFailure(profile[r])
    /\ phase' = [phase EXCEPT ![r] = "sleeping"]
    /\ UNCHANGED <<spent, next, profile, attempt>>
FailNext(r) ==
    /\ phase[r] = "calling"
    /\ RecordFailure(profile[r])
    /\ phase' = [phase EXCEPT ![r] = "selecting"]
    /\ next' = [next EXCEPT ![r] = @ + 1]
    /\ UNCHANGED <<spent, profile, attempt>>
\* Subscription profiles, and streams that have delivered something, stop here.
FailOutright(r) ==
    /\ phase[r] = "calling"
    /\ RecordFailure(profile[r])
    /\ phase' = [phase EXCEPT ![r] = "idle"]
    /\ UNCHANGED <<spent, next, profile, attempt>>

\* The backoff is over: the next attempt asks neither circuit nor budget.
Retry(r) ==
    /\ phase[r] = "sleeping"
    /\ phase' = [phase EXCEPT ![r] = "calling"]
    /\ attempt' = [attempt EXCEPT ![r] = @ + 1]
    /\ UNCHANGED <<failures, since, spent, next, profile>>

Cancel(r) ==
    /\ phase[r] \in {"calling", "sleeping"}
    /\ phase' = [phase EXCEPT ![r] = "idle"]
    /\ UNCHANGED <<failures, since, spent, next, profile, attempt>>

Tick ==
    /\ \E p \in Planned : since[p] < ResetTicks /\ failures[p] > 0
    /\ since' = [p \in Planned |->
                   IF since[p] < ResetTicks /\ failures[p] > 0 THEN since[p] + 1 ELSE since[p]]
    /\ UNCHANGED <<failures, spent, call>>

Next ==
    \/ \E r \in Requests :
        \/ Start(r) \/ Skip(r) \/ Choose(r) \/ AllFailed(r)
        \/ Succeed(r) \/ Cached(r) \/ FailRetry(r) \/ FailNext(r) \/ FailOutright(r)
        \/ Retry(r) \/ Cancel(r)
    \/ Tick

Spec == Init /\ [][Next]_vars

----------------------------------------------------------------------------
TypeOK ==
    /\ failures \in [Planned -> Nat] /\ since \in [Planned -> 0..ResetTicks]
    /\ spent \in Nat
    /\ phase \in [Requests -> {"idle", "selecting", "calling", "sleeping"}]
    /\ next \in [Requests -> 1..(Len(Profiles) + 1)]
    /\ profile \in [Requests -> Planned \cup {"local"}]
    /\ attempt \in [Requests -> 0..MaxRetries]

Concurrency == Cardinality(Requests)

\* The check comes before a call and the charge after it, so calls that run together
\* can pass the limit together; by no more than one call each but the first.
OverspendBounded == spent <= Limit + Concurrency - 1

\* The breaker is asked when a profile is chosen and not when an attempt is repeated,
\* so a dead provider is called more often than the threshold; by no more than the
\* calls that were under way, each with its retries.
FailuresBounded ==
    \A p \in Planned : failures[p] <= Threshold - 1 + Concurrency * (MaxRetries + 1)
=============================================================================
