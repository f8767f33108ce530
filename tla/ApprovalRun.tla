----------------------------- MODULE ApprovalRun -----------------------------
(***************************************************************************)
(* A run of the orchestrator whose plan has steps that need an approval    *)
(* (core/orchestrator.py, core/run_store.py), the approval and the dual    *)
(* approval it waits for (security/approval_store.py, dual_approval.py),   *)
(* the grants of the process that resumes it (security/permissions.py) and *)
(* the script that fails stuck runs (scripts/recover_resumes.py).          *)
(*                                                                         *)
(* One run is modelled: a grant and an approval name the run in their      *)
(* scope_hash, so runs do not touch each other.  A call is one request to  *)
(* /agent/run or /agent/resume, served by some replica; every statement of *)
(* a store is a step of its own.  A resume token stands for the approval   *)
(* it was issued with.  require_resume_token only reads, and what it       *)
(* checks consume_resume_token checks again; a call without a token, or    *)
(* for a run that does not wait, changes nothing and is left out.          *)
(***************************************************************************)
EXTENDS Naturals, Sequences, FiniteSets

CONSTANTS
    Calls,         \* requests that may be served
    Replicas,
    Owners,        \* who may approve
    Requester,     \* who asked for the run
    NumSteps,      \* steps of the plan
    Gated,         \* steps that verify() does not simply allow
    Dual,          \* steps whose risk requires dual approval
    MaxApprovals,  \* bound: approvals created
    MaxCrashes     \* bound: replicas that die

Steps == 1..NumSteps
Approvals == 1..MaxApprovals
None == 0          \* no approval, no token

ASSUME ConstantsAssumption ==
    /\ NumSteps \in Nat \ {0} /\ MaxApprovals \in Nat /\ MaxCrashes \in Nat
    /\ Dual \subseteq Gated /\ Gated \subseteq Steps

Settled == {"completed", "failed", "resume_failed"}
\* Where a call is that resumes the run, or executes its plan.
Resuming == {"dual", "consume", "refused", "grant", "running"}
Executing == {"step", "fail", "open", "save"}

VARIABLES
    status, token, waiting, index,  \* the row of the run, "none" before it
    issued,      \* tokens given to clients
    decision,    \* status of each approval, "none" before it is created
    scope,       \* the step it is for
    expired,     \* approvals whose expires_at is over
    opened,      \* approvals with a row in dual_approvals
    approvers,   \* first_approver, second_approver
    grants,      \* session_allows of each replica
    pc, at,      \* of each call: where it is, the replica that serves it
    held,        \* the token it presents
    approval,    \* waiting_approval_id it read, or the approval it created
    step,        \* current_step_index it read or works on
    listed,      \* the script has listed the run
    ran,         \* how often each step took effect
    overran,     \* the script listed a run that a call still resumes
    crashes

run == <<status, token, waiting, index, issued>>
store == <<decision, scope, expired, opened, approvers>>
call == <<pc, at, held, approval, step>>
script == <<listed, overran>>
vars == <<run, store, call, script, grants, ran, crashes>>

Init ==
    /\ status = "none" /\ token = None /\ waiting = None /\ index = 1
    /\ issued = {}
    /\ decision = [a \in Approvals |-> "none"]
    /\ scope = [a \in Approvals |-> 1]
    /\ expired = {} /\ opened = {}
    /\ approvers = [a \in Approvals |-> <<>>]
    /\ grants = [r \in Replicas |-> {}]
    /\ pc = [c \in Calls |-> "idle"]
    /\ at \in [Calls -> Replicas]
    /\ held = [c \in Calls |-> None]
    /\ approval = [c \in Calls |-> None]
    /\ step = [c \in Calls |-> 1]
    /\ listed = FALSE /\ overran = FALSE
    /\ ran = [s \in Steps |-> 0]
    /\ crashes = 0

Goto(c, l) == pc' = [pc EXCEPT ![c] = l]
Moved(c, l) == Goto(c, l) /\ UNCHANGED <<at, held, approval, step>>
Over(c) ==
    /\ Goto(c, "idle")
    /\ held' = [held EXCEPT ![c] = None]
    /\ approval' = [approval EXCEPT ![c] = None]
    /\ step' = [step EXCEPT ![c] = 1]
    /\ UNCHANGED at
At(c, l) == pc[c] = l

Ready(a) == Len(approvers[a]) = 2
----------------------------------------------------------------------------
(* Executing the plan.                                                     *)

\* handle_message creates the run; the planner may raise, and then the run
\* stays planned.
Handle(c) ==
    /\ At(c, "idle") /\ status = "none"
    /\ status' = "planned"
    /\ \/ Moved(c, "step")
       \/ UNCHANGED call
    /\ UNCHANGED <<token, waiting, index, issued, store, script, grants, ran, crashes>>

Allowed(c) == step[c] \notin Gated \/ step[c] \in grants[at[c]]

\* A step that verify allows takes effect and succeeds, or fails.
StepRuns(c) ==
    /\ At(c, "step") /\ step[c] <= NumSteps /\ Allowed(c)
    /\ ran' = [ran EXCEPT ![step[c]] = @ + 1]
    /\ \/ step' = [step EXCEPT ![c] = @ + 1] /\ UNCHANGED <<pc, at, held, approval>>
       \/ Moved(c, "fail")
    /\ UNCHANGED <<run, store, script, grants, crashes>>

\* The execution strategy skips the step or the tool refuses it.
StepSkipped(c) ==
    /\ At(c, "step") /\ step[c] <= NumSteps
    /\ Moved(c, "fail")
    /\ UNCHANGED <<run, store, script, grants, ran, crashes>>

\* verify -> _remote_or_deny -> ApprovalStore.create: the row ...
Insert(c) ==
    /\ At(c, "step") /\ step[c] <= NumSteps /\ ~Allowed(c)
    /\ \E a \in Approvals :
         /\ decision[a] = "none"
         /\ \A b \in 1..(a - 1) : decision[b] # "none"
         /\ decision' = [decision EXCEPT ![a] = "pending"]
         /\ scope' = [scope EXCEPT ![a] = step[c]]
         /\ approval' = [approval EXCEPT ![c] = a]
    /\ Goto(c, IF step[c] \in Dual THEN "open" ELSE "save")
    /\ UNCHANGED <<run, expired, opened, approvers, at, held, step, script, grants, ran, crashes>>

\* ... and then the row of the dual approval.
Open(c) ==
    /\ At(c, "open")
    /\ opened' = opened \cup {approval[c]}
    /\ Moved(c, "save")
    /\ UNCHANGED <<run, decision, scope, expired, approvers, script, grants, ran, crashes>>

\* Mutant of SaveWaiting: the run resumes at its first step.
SaveWaitingFirst(c) ==
    /\ At(c, "save")
    /\ status' = "waiting_approval"
    /\ waiting' = approval[c]
    /\ index' = 1
    /\ token' = approval[c]
    /\ issued' = issued \cup {approval[c]}
    /\ Over(c)
    /\ UNCHANGED <<store, script, grants, ran, crashes>>

SaveWaiting(c) ==
    /\ At(c, "save")
    /\ status' = "waiting_approval"
    /\ waiting' = approval[c]
    /\ index' = step[c]
    /\ token' = approval[c]
    /\ issued' = issued \cup {approval[c]}
    /\ Over(c)
    /\ UNCHANGED <<store, script, grants, ran, crashes>>

Complete(c) ==
    /\ \/ At(c, "step") /\ step[c] > NumSteps /\ status' = "completed"
       \/ At(c, "fail") /\ status' = "failed"
    /\ waiting' = None /\ token' = None
    /\ Over(c)
    /\ UNCHANGED <<index, issued, store, script, grants, ran, crashes>>
----------------------------------------------------------------------------
(* Resuming the run.                                                       *)

\* resume reads the row once; what it read is used to the end.
Get(c) ==
    /\ At(c, "idle") /\ status = "waiting_approval"
    /\ \E t \in issued : held' = [held EXCEPT ![c] = t]
    /\ approval' = [approval EXCEPT ![c] = waiting]
    /\ step' = [step EXCEPT ![c] = index]
    /\ Goto(c, "got")
    /\ UNCHANGED <<run, store, at, script, grants, ran, crashes>>

\* Mutant of ConsumeToken: the token stays.
ConsumeTokenKept(c) ==
    /\ At(c, "got")
    /\ IF status = "waiting_approval" /\ token = held[c]
       THEN /\ status' = "resuming"
            /\ Moved(c, IF step[c] \in Dual THEN "dual" ELSE "consume")
            /\ UNCHANGED <<token, waiting, index, issued>>
       ELSE Over(c) /\ UNCHANGED run
    /\ UNCHANGED <<store, script, grants, ran, crashes>>

ConsumeToken(c) ==
    /\ At(c, "got")
    /\ IF status = "waiting_approval" /\ token = held[c]
       THEN /\ status' = "resuming" /\ token' = None
            /\ Moved(c, IF step[c] \in Dual THEN "dual" ELSE "consume")
            /\ UNCHANGED <<waiting, index, issued>>
       ELSE Over(c) /\ UNCHANGED run
    /\ UNCHANGED <<store, script, grants, ran, crashes>>

\* The row of the dual approval is there: the run waits only after it is opened.
CheckDual(c) ==
    /\ At(c, "dual")
    /\ Moved(c, IF Ready(approval[c]) THEN "consume" ELSE "refused")
    /\ UNCHANGED <<run, store, script, grants, ran, crashes>>

Usable(a) ==
    /\ decision[a] = "approved" /\ a \notin expired
    /\ scope[a] \in Dual => Ready(a)

\* Mutant of Consume: the approval is required, and not consumed.
ConsumeNothing(c) ==
    /\ At(c, "consume")
    /\ Moved(c, IF Usable(approval[c]) THEN "grant" ELSE "refused")
    /\ UNCHANGED <<run, store, script, grants, ran, crashes>>

\* consume_approved, one transaction.
Consume(c) ==
    LET a == approval[c]
    IN  /\ At(c, "consume")
        /\ \/ /\ Usable(a)
              /\ decision' = [decision EXCEPT ![a] = "consumed"]
              /\ Moved(c, "grant")
           \/ ~Usable(a) /\ Moved(c, "refused") /\ UNCHANGED decision
        /\ UNCHANGED <<run, scope, expired, opened, approvers, script, grants, ran, crashes>>

\* Mutant of Grant: the approved scope is not granted.
GrantNothing(c) ==
    /\ At(c, "grant")
    /\ Moved(c, "running")
    /\ UNCHANGED <<run, store, script, grants, ran, crashes>>

Grant(c) ==
    /\ At(c, "grant")
    /\ grants' = [grants EXCEPT ![at[c]] = @ \cup {scope[approval[c]]}]
    /\ Moved(c, "running")
    /\ UNCHANGED <<run, store, script, ran, crashes>>

Running(c) ==
    /\ At(c, "running")
    /\ status' = "running" /\ waiting' = None
    /\ Goto(c, "step")
    /\ held' = [held EXCEPT ![c] = None]
    /\ approval' = [approval EXCEPT ![c] = None]
    /\ UNCHANGED <<token, index, issued, store, at, step, script, grants, ran, crashes>>

\* A PermissionError after the token is gone: mark_resume_failed.
Refused(c) ==
    /\ At(c, "refused")
    /\ status' = "resume_failed" /\ token' = None
    /\ Over(c)
    /\ UNCHANGED <<waiting, index, issued, store, script, grants, ran, crashes>>
----------------------------------------------------------------------------
(* Approvers, time, crashes and the recovery script.                       *)

\* Mutant of DualApprove: the requester may approve.
DualApproveOwn(o, a) ==
    /\ a \in opened /\ ~Ready(a)
    /\ \A i \in 1..Len(approvers[a]) : approvers[a][i] # o
    /\ approvers' = [approvers EXCEPT ![a] = Append(@, o)]
    /\ UNCHANGED <<run, decision, scope, expired, opened, call, script, grants, ran, crashes>>

\* A third approver, or the second one again, changes nothing.
DualApprove(o, a) ==
    /\ a \in opened /\ o # Requester /\ ~Ready(a)
    /\ \A i \in 1..Len(approvers[a]) : approvers[a][i] # o
    /\ approvers' = [approvers EXCEPT ![a] = Append(@, o)]
    /\ UNCHANGED <<run, decision, scope, expired, opened, call, script, grants, ran, crashes>>

Decide(a, d) ==
    /\ decision[a] = "pending" /\ a \notin expired
    /\ d = "approved" /\ scope[a] \in Dual => Ready(a)
    /\ decision' = [decision EXCEPT ![a] = d]
    /\ UNCHANGED <<run, scope, expired, opened, approvers, call, script, grants, ran, crashes>>

Expire(a) ==
    /\ decision[a] # "none" /\ a \notin expired
    /\ expired' = expired \cup {a}
    /\ UNCHANGED <<run, decision, scope, opened, approvers, call, script, grants, ran, crashes>>

\* A replica dies: its calls and its grants are gone.
Crash(r) ==
    /\ crashes < MaxCrashes
    /\ crashes' = crashes + 1
    /\ grants' = [grants EXCEPT ![r] = {}]
    /\ LET dead == {c \in Calls : at[c] = r}
       IN  /\ pc' = [c \in Calls |-> IF c \in dead THEN "idle" ELSE pc[c]]
           /\ held' = [c \in Calls |-> IF c \in dead THEN None ELSE held[c]]
           /\ approval' = [c \in Calls |-> IF c \in dead THEN None ELSE approval[c]]
           /\ step' = [c \in Calls |-> IF c \in dead THEN 1 ELSE step[c]]
    /\ UNCHANGED <<run, store, at, script, ran>>

\* Mutant of List: the script takes any run.
ListAny ==
    /\ ~listed /\ status # "none"
    /\ listed' = TRUE
    /\ overran' = (overran \/ \E c \in Calls : pc[c] \in Resuming)
    /\ UNCHANGED <<run, store, call, grants, ran, crashes>>

\* The script lists a run that has been resuming for a while ...
List ==
    /\ ~listed /\ status = "resuming"
    /\ listed' = TRUE
    /\ overran' = (overran \/ \E c \in Calls : pc[c] \in Resuming)
    /\ UNCHANGED <<run, store, call, grants, ran, crashes>>

\* ... and marks it, whatever has become of it.
Mark ==
    /\ listed
    /\ listed' = FALSE
    /\ status' = "resume_failed" /\ token' = None
    /\ UNCHANGED <<waiting, index, issued, store, call, overran, grants, ran, crashes>>

\* A replica's work on a call.
Work(c) ==
    \/ Handle(c) \/ StepRuns(c) \/ StepSkipped(c) \/ Insert(c) \/ Open(c)
    \/ SaveWaiting(c) \/ Complete(c)
    \/ Get(c) \/ ConsumeToken(c) \/ CheckDual(c) \/ Consume(c) \/ Grant(c)
    \/ Running(c) \/ Refused(c)

Next ==
    \/ \E c \in Calls : Work(c)
    \/ \E a \in Approvals :
         \/ \E o \in Owners : DualApprove(o, a)
         \/ \E d \in {"approved", "denied"} : Decide(a, d)
         \/ Expire(a)
    \/ \E r \in Replicas : Crash(r)
    \/ List \/ Mark

Spec == Init /\ [][Next]_vars
----------------------------------------------------------------------------
RunType ==
    /\ status \in Settled \cup {"none", "planned", "waiting_approval", "resuming", "running"}
    /\ token \in Approvals \cup {None} /\ waiting \in Approvals \cup {None}
    /\ index \in Steps
    /\ issued \subseteq Approvals

StoreType ==
    /\ decision \in [Approvals -> {"none", "pending", "approved", "denied", "consumed"}]
    /\ scope \in [Approvals -> Steps]
    /\ expired \subseteq Approvals /\ opened \subseteq Approvals
    /\ approvers \in [Approvals -> Seq(Owners)]

CallType ==
    /\ pc \in [Calls -> {"idle", "got"} \cup Resuming \cup Executing]
    /\ at \in [Calls -> Replicas]
    /\ held \in [Calls -> Approvals \cup {None}]
    /\ approval \in [Calls -> Approvals \cup {None}]
    /\ step \in [Calls -> 1..(NumSteps + 1)]

ScriptType == listed \in BOOLEAN /\ overran \in BOOLEAN

TypeOK ==
    /\ RunType /\ StoreType /\ CallType /\ ScriptType
    /\ grants \in [Replicas -> SUBSET Steps]
    /\ ran \in [Steps -> Nat]
    /\ crashes \in 0..MaxCrashes

Consumed(s) == {a \in Approvals : scope[a] = s /\ decision[a] = "consumed"}

\* A gated step takes effect only after an approval of that very step was
\* consumed for it, once for each; so a denied or expired approval, or one of
\* another step, runs nothing (consume_approved, allow_approved_proposal).
EffectNeedsConsumption ==
    \A s \in Gated : ran[s] <= Cardinality(Consumed(s))

\* When a step under dual approval has taken effect, two different owners,
\* neither of them the requester, have approved it: no single person gets it
\* through, in whatever order approvals, decisions and resumes come.
TwoPeople ==
    \A s \in Dual : ran[s] > 0 =>
        \E a \in Consumed(s) :
            /\ Ready(a)
            /\ approvers[a][1] # approvers[a][2]
            /\ \A i \in 1..2 : approvers[a][i] # Requester

\* Across waits and resumes the steps take effect in the order of the plan, no
\* step twice and none skipped, by one call at a time.
StepsOnceInOrder ==
    /\ \A s \in Steps : ran[s] <= 1 /\ (ran[s] = 1 => \A t \in 1..(s - 1) : ran[t] = 1)
    /\ \A c, d \in Calls : c # d => pc[c] \notin Executing \/ pc[d] \notin Executing

\* A resume token exists while the run waits and at no other time, and it is
\* the token of the approval the run waits for.
TokenWhileWaiting ==
    /\ (token # None) <=> (status = "waiting_approval")
    /\ token # None => token = waiting

\* A step that was approved and resumed does not ask again: no step has a
\* second approval (the duplicate approval loop of docs/SRE_RUNBOOK.md).
NoApprovalLoop ==
    \A a, b \in Approvals :
        decision[a] # "none" /\ decision[b] # "none" /\ scope[a] = scope[b] => a = b

\* A run that is reported completed, failed or resume_failed stays so and
\* executes nothing more, as long as the script never takes a slow call for a
\* dead one.
SettledFinal ==
    [][(status \in Settled /\ ~overran) => UNCHANGED <<status, ran>>]_vars

\* docs/ENTERPRISE_GA15_CLOSURE.md: resume checks the dual approval before it
\* consumes the resume token.
DualBeforeToken ==
    status = "resuming" /\ scope[waiting] \in Dual => Ready(waiting)
=============================================================================
