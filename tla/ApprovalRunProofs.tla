-------------------------- MODULE ApprovalRunProofs --------------------------
(***************************************************************************)
(* Proofs about ApprovalRun, for any plan and any number of requests,      *)
(* replicas, owners, approvals and crashes.  The idea: the resume token    *)
(* lets one call at a time work on the run, and that call knows where the  *)
(* plan stands.                                                            *)
(***************************************************************************)
EXTENDS ApprovalRun, FiniteSetTheorems, TLAPS

Active(c) == pc[c] \in Resuming \cup Executing
Created(a) == decision[a] # "none"
Waits == status = "waiting_approval"

\* The steps before the n-th have taken effect, once, and no others.
Position(n) == \A t \in Steps : ran[t] = IF t < n THEN 1 ELSE 0

\* The row of the run: what it waits for is there, and is for its step.
RowOK ==
    /\ TokenWhileWaiting
    /\ \A a \in issued : Created(a)
    /\ Waits => waiting \in Approvals /\ Created(waiting) /\ scope[waiting] = index
    /\ status = "none" => \A c \in Calls : pc[c] = "idle"

\* One call at a time, and none while the run waits.
OneActive ==
    /\ \A c, d \in Calls : Active(c) /\ Active(d) => c = d
    /\ Waits => \A c \in Calls : ~Active(c)

\* What a call knows of its approval.  A token is issued once, so a call that
\* presents the current one has read the current wait.
CallOK ==
    \A c \in Calls :
        /\ pc[c] = "idle" => step[c] = 1
        /\ pc[c] \in {"got", "open", "save"} \cup Resuming
             => /\ approval[c] \in Approvals /\ Created(approval[c])
                /\ scope[approval[c]] = step[c]
        /\ pc[c] \in {"open", "save"} => approval[c] \notin issued
        /\ pc[c] = "got" =>
             /\ held[c] \in issued
             /\ held[c] = token => approval[c] = waiting /\ step[c] = index
        /\ pc[c] = "grant" => decision[approval[c]] = "consumed"
        /\ pc[c] = "running" => step[c] \in grants[at[c]]

PositionOK ==
    /\ status = "none" => Position(1)
    /\ Waits => Position(index)
    /\ \A c \in Calls : Active(c) /\ pc[c] # "fail" => Position(step[c])
    /\ \A s \in Steps : ran[s] <= 1 /\ (ran[s] = 1 => \A t \in 1..(s - 1) : ran[t] = 1)

\* A grant, and the effect of a gated step, come from a consumed approval.
GrantsOK ==
    /\ \A r \in Replicas : \A s \in grants[r] : Consumed(s) # {}
    /\ \A s \in Gated : ran[s] > 0 => Consumed(s) # {}

ApproversOK ==
    \A a \in Approvals :
        /\ Len(approvers[a]) <= 2
        /\ \A i \in 1..Len(approvers[a]) : approvers[a][i] # Requester
        /\ Ready(a) => approvers[a][1] # approvers[a][2]
        /\ decision[a] = "consumed" /\ scope[a] \in Dual => Ready(a)

\* No approval is for a step ahead, and one for the step at hand is granted.
LoopOK ==
    /\ NoApprovalLoop
    /\ \A a \in Approvals : Created(a) =>
         /\ status # "none"
         /\ Waits => scope[a] <= index
         /\ \A c \in Calls : Active(c) =>
              /\ scope[a] <= step[c]
              /\ pc[c] = "step" /\ scope[a] = step[c] => step[c] \in grants[at[c]]

\* As long as the script has taken no live call, the status tells what the
\* calls do.
SettledOK ==
    ~overran =>
        /\ \A c \in Calls :
             /\ pc[c] \in Resuming => status = "resuming"
             /\ pc[c] \in Executing => status \in {"planned", "running"}
        /\ listed => status = "resuming" /\ \A c \in Calls : ~Active(c)

IInv ==
    /\ TypeOK /\ RowOK /\ OneActive /\ CallOK /\ PositionOK
    /\ GrantsOK /\ ApproversOK /\ LoopOK /\ SettledOK
----------------------------------------------------------------------------
\* The two outcomes of ConsumeToken and of Consume.
TokenTaken(c) ==
    /\ At(c, "got")
    /\ status = "waiting_approval" /\ token = held[c]
    /\ status' = "resuming" /\ token' = None
    /\ \E l \in {"dual", "consume"} : Moved(c, l)
    /\ UNCHANGED <<waiting, index, issued, store, script, grants, ran, crashes>>

TokenRefused(c) ==
    /\ At(c, "got")
    /\ Over(c)
    /\ UNCHANGED <<run, store, script, grants, ran, crashes>>

ApprovalConsumed(c) ==
    /\ At(c, "consume") /\ Usable(approval[c])
    /\ decision' = [decision EXCEPT ![approval[c]] = "consumed"]
    /\ Moved(c, "grant")
    /\ UNCHANGED <<run, scope, expired, opened, approvers, script, grants, ran, crashes>>

ApprovalRefused(c) ==
    /\ At(c, "consume") /\ Moved(c, "refused")
    /\ UNCHANGED <<run, store, script, grants, ran, crashes>>

\* The vocabulary of the specification, used in every proof below.
USE ConstantsAssumption
    DEF Goto, Moved, Over, At, run, store, call, script, Active, Created, Waits,
        Steps, Approvals, None, Settled, Resuming, Executing

\* handle_message starts with nothing done and no approval.
LEMMA HandleOK ==
  ASSUME IInv, NEW c \in Calls, Handle(c)
  PROVE  IInv'
  <1>1. StoreType' /\ GrantsOK' /\ ApproversOK'
    BY SMTT(30) DEF IInv, TypeOK, StoreType, GrantsOK, Consumed, ApproversOK,
      Ready, Handle
  <1>2. RunType'
    BY DEF IInv, TypeOK, RunType, Handle
  <1>3. CallType'
    BY DEF IInv, TypeOK, CallType, Handle
  <1>4. ScriptType'
    BY Zenon DEF IInv, TypeOK, ScriptType, Handle
  <1>5. TypeOK'
    BY <1>1, <1>2, <1>3, <1>4 DEF IInv, TypeOK, Handle
  <1>6. RowOK'
    BY DEF IInv, RowOK, TokenWhileWaiting, Handle
  <1>7. OneActive'
    BY DEF IInv, TypeOK, CallType, RowOK, OneActive, Handle
  <1>8. CallOK'
    BY DEF IInv, TypeOK, CallType, CallOK, Handle
  <1>9. PositionOK'
    BY DEF IInv, TypeOK, CallType, CallOK, PositionOK, Position, Handle
  <1>10. LoopOK'
    BY DEF IInv, LoopOK, NoApprovalLoop, Handle
  <1>11. SettledOK'
    BY DEF IInv, TypeOK, CallType, SettledOK, Handle
  <1> QED BY <1>5, <1>1, <1>6, <1>7, <1>8, <1>9, <1>10, <1>11 DEF IInv

\* The step that takes effect is the one the plan stands at.
LEMMA StepRunsOK ==
  ASSUME IInv, NEW c \in Calls, StepRuns(c)
  PROVE  IInv'
  <1>1. RunType' /\ StoreType' /\ ApproversOK'
    BY SMTT(30) DEF IInv, TypeOK, RunType, StoreType, ApproversOK, Ready,
      StepRuns
  <1>2. CallType'
    <2>1. step[c] \in Steps /\ step[c] + 1 \in 1..(NumSteps + 1)
      BY DEF IInv, TypeOK, CallType, StepRuns
    <2> QED BY <2>1 DEF IInv, TypeOK, CallType, StepRuns
  <1>3. ScriptType'
    BY Zenon DEF IInv, TypeOK, ScriptType, StepRuns
  <1>4. TypeOK'
    BY <1>1, <1>2, <1>3 DEF IInv, TypeOK, CallType, StepRuns
  <1>5. RowOK'
    BY DEF IInv, RowOK, TokenWhileWaiting, StepRuns
  <1>6. OneActive'
    BY DEF IInv, TypeOK, CallType, TokenWhileWaiting, OneActive,
      StepRuns, Allowed
  <1>7. CallOK'
    BY DEF IInv, TypeOK, CallType, RowOK, TokenWhileWaiting, OneActive,
      CallOK, StepRuns, Allowed
  <1>8. PositionOK'
    <2>1. step[c] \in Steps /\ Position(step[c])
      BY DEF IInv, TypeOK, CallType, PositionOK, StepRuns
    <2>2. ran[step[c]] = 0
      BY <2>1 DEF Position
    <2>3. \A t \in Steps : ran'[t] = IF t <= step[c] THEN 1 ELSE 0
      BY <2>1, <2>2 DEF IInv, TypeOK, Position, StepRuns
    <2>4. status # "none" /\ ~Waits
      BY DEF IInv, RowOK, OneActive, StepRuns
    <2>5. status' = status /\ \A d \in Calls : d # c => ~Active(d)'
      BY DEF IInv, TypeOK, CallType, OneActive, StepRuns
    <2>6. pc'[c] # "fail" => step'[c] = step[c] + 1
      BY DEF IInv, TypeOK, CallType, StepRuns
    <2>7. \A d \in Calls : Active(d)' /\ pc'[d] # "fail" => Position(step[d])'
      BY <2>1, <2>3, <2>5, <2>6 DEF Position
    <2> QED BY <2>1, <2>2, <2>3, <2>4, <2>5, <2>6, <2>7 DEF PositionOK
  <1>9. GrantsOK'
    BY DEF IInv, TypeOK, RunType, CallType, GrantsOK, Consumed,
      StepRuns, Allowed
  <1>10. LoopOK'
    BY DEF IInv, TypeOK, RunType, StoreType, CallType, OneActive,
      LoopOK, NoApprovalLoop, StepRuns
  <1>11. SettledOK'
    BY DEF IInv, TypeOK, CallType, SettledOK, StepRuns
  <1> QED BY <1>4, <1>1, <1>5, <1>6, <1>7, <1>8, <1>9, <1>10, <1>11
    DEF IInv

\* A step that is skipped ends the run, and changes nothing else.
LEMMA StepSkippedOK ==
  ASSUME IInv, NEW c \in Calls, StepSkipped(c)
  PROVE  IInv'
  <1>1. RunType' /\ StoreType' /\ GrantsOK' /\ ApproversOK'
    BY SMTT(30) DEF IInv, TypeOK, RunType, StoreType, GrantsOK, Consumed,
      ApproversOK, Ready, StepSkipped
  <1>2. CallType'
    BY DEF IInv, TypeOK, CallType, StepSkipped
  <1>3. ScriptType'
    BY Zenon DEF IInv, TypeOK, ScriptType, StepSkipped
  <1>4. TypeOK'
    BY <1>1, <1>2, <1>3 DEF IInv, TypeOK, StepSkipped
  <1>5. RowOK'
    BY DEF IInv, RowOK, TokenWhileWaiting, StepSkipped
  <1>6. OneActive'
    BY DEF IInv, OneActive, StepSkipped
  <1>7. CallOK'
    BY DEF IInv, CallType, CallOK, StepSkipped
  <1>8. PositionOK'
    BY DEF IInv, TypeOK, CallType, RowOK, OneActive, PositionOK,
      StepSkipped
  <1>9. LoopOK'
    BY DEF IInv, StoreType, LoopOK, NoApprovalLoop, StepSkipped
  <1>10. SettledOK'
    BY DEF IInv, SettledOK, StepSkipped
  <1> QED BY <1>4, <1>1, <1>5, <1>6, <1>7, <1>8, <1>9, <1>10 DEF IInv

\* The new approval is the first of its step: an older one would be granted.
LEMMA InsertOK ==
  ASSUME IInv, NEW c \in Calls, Insert(c)
  PROVE  IInv'
  <1>1. RunType'
    BY DEF IInv, TypeOK, RunType, Insert
  <1>2. StoreType'
    BY DEF IInv, TypeOK, StoreType, Insert, Allowed
  <1>3. CallType'
    BY DEF IInv, TypeOK, CallType, Insert
  <1>4. ScriptType'
    BY Zenon DEF IInv, TypeOK, ScriptType, Insert
  <1>5. TypeOK'
    BY <1>1, <1>2, <1>3, <1>4 DEF IInv, TypeOK, Insert
  <1>6. RowOK'
    BY DEF IInv, CallType, RowOK, TokenWhileWaiting, Insert
  <1>7. OneActive'
    BY DEF IInv, OneActive, Insert
  <1>8. CallOK'
    BY DEF IInv, TypeOK, RunType, StoreType, CallType, RowOK, CallOK,
      Insert
  <1>9. PositionOK'
    BY DEF IInv, RowOK, TokenWhileWaiting, OneActive, CallOK,
      PositionOK, Position, Insert, Allowed
  <1>10. GrantsOK'
    BY DEF IInv, StoreType, CallOK, GrantsOK, Consumed, Insert, Allowed
  <1>11. ApproversOK'
    BY DEF IInv, RowOK, CallOK, ApproversOK, Ready, Insert
  <1>12. LoopOK'
    <2>1. PICK a \in Approvals :
            /\ decision[a] = "none"
            /\ decision' = [decision EXCEPT ![a] = "pending"]
            /\ scope' = [scope EXCEPT ![a] = step[c]]
      BY DEF Insert
    <2>2. step' = step /\ grants' = grants /\ at' = at /\ status' = status
      BY DEF Insert
    <2>3. status # "none" /\ ~Waits
      BY DEF IInv, RowOK, OneActive, Insert
    <2>4. \A b \in Approvals : Created(b) => scope[b] < step[c]
      BY DEF IInv, TypeOK, StoreType, CallType, LoopOK, Insert,
        Allowed
    <2>5. \A d \in Calls : Active(d)' => d = c /\ pc'[d] # "step"
      BY DEF IInv, TypeOK, CallType, OneActive, Insert
    <2>6. \A b \in Approvals : Created(b)' =>
             \/ b = a /\ scope'[b] = step[c]
             \/ b # a /\ Created(b) /\ scope'[b] = scope[b] /\ scope[b] < step[c]
      BY <2>1, <2>4 DEF IInv, TypeOK, StoreType
    <2>7. step[c] \in Nat /\ \A b \in Approvals : scope[b] \in Nat
      BY DEF IInv, TypeOK, StoreType, CallType
    <2>8. NoApprovalLoop'
      BY <2>6, <2>7 DEF IInv, LoopOK, NoApprovalLoop
    <2> QED BY <2>2, <2>3, <2>5, <2>6, <2>7, <2>8 DEF LoopOK
  <1>13. SettledOK'
    BY DEF IInv, SettledOK, Insert
  <1> QED BY <1>5, <1>1, <1>6, <1>7, <1>8, <1>9, <1>10, <1>11, <1>12,
    <1>13 DEF IInv

\* Opening the dual approval touches no other row.
LEMMA OpenOK ==
  ASSUME IInv, NEW c \in Calls, Open(c)
  PROVE  IInv'
  <1>1. RunType' /\ GrantsOK' /\ ApproversOK'
    BY SMTT(30) DEF IInv, TypeOK, RunType, GrantsOK, Consumed, ApproversOK,
      Ready, Open
  <1>2. StoreType'
    BY DEF IInv, TypeOK, StoreType, CallOK, Open
  <1>3. CallType'
    BY DEF IInv, TypeOK, CallType, Open
  <1>4. ScriptType'
    BY Zenon DEF IInv, TypeOK, ScriptType, Open
  <1>5. TypeOK'
    BY <1>1, <1>2, <1>3, <1>4 DEF IInv, TypeOK, Open
  <1>6. RowOK'
    BY DEF IInv, RowOK, TokenWhileWaiting, Open
  <1>7. OneActive'
    BY DEF IInv, OneActive, Open
  <1>8. CallOK'
    BY DEF IInv, CallOK, Open
  <1>9. PositionOK'
    BY DEF IInv, PositionOK, Position, Open
  <1>10. LoopOK'
    BY DEF IInv, LoopOK, NoApprovalLoop, Open
  <1>11. SettledOK'
    BY DEF IInv, SettledOK, Open
  <1> QED BY <1>5, <1>1, <1>6, <1>7, <1>8, <1>9, <1>10, <1>11 DEF IInv

\* The token is new, and the run waits at the step the call had reached.
LEMMA SaveWaitingOK ==
  ASSUME IInv, NEW c \in Calls, SaveWaiting(c)
  PROVE  IInv'
  <1>1. StoreType' /\ GrantsOK' /\ ApproversOK'
    BY SMTT(30) DEF IInv, TypeOK, StoreType, GrantsOK, Consumed, ApproversOK,
      Ready, SaveWaiting
  <1>2. RunType'
    <2>1. approval[c] \in Approvals /\ step[c] \in Steps
      BY DEF IInv, TypeOK, StoreType, CallOK, SaveWaiting
    <2> QED BY <2>1 DEF IInv, TypeOK, RunType, SaveWaiting
  <1>3. CallType'
    BY DEF IInv, TypeOK, CallType, SaveWaiting
  <1>4. ScriptType'
    BY Zenon DEF IInv, TypeOK, ScriptType, SaveWaiting
  <1>5. TypeOK'
    BY <1>1, <1>2, <1>3, <1>4 DEF IInv, TypeOK, SaveWaiting
  <1>6. RowOK'
    <2>1. /\ approval[c] \in Approvals /\ Created(approval[c])
         /\ scope[approval[c]] = step[c]
      BY DEF IInv, CallOK, SaveWaiting
    <2>2. TokenWhileWaiting'
      BY <2>1 DEF TokenWhileWaiting, SaveWaiting
    <2> QED BY <2>1, <2>2 DEF IInv, RowOK, SaveWaiting
  <1>7. OneActive'
    BY DEF IInv, TypeOK, CallType, OneActive, SaveWaiting
  <1>8. CallOK'
    BY DEF IInv, TypeOK, CallType, RowOK, TokenWhileWaiting, OneActive,
      CallOK, SaveWaiting
  <1>9. PositionOK'
    BY DEF IInv, TypeOK, RunType, CallType, RowOK, TokenWhileWaiting,
      OneActive, CallOK, PositionOK, Position, SaveWaiting
  <1>10. LoopOK'
    BY DEF IInv, TypeOK, CallType, LoopOK, NoApprovalLoop, SaveWaiting
  <1>11. SettledOK'
    BY DEF IInv, TypeOK, CallType, OneActive, SettledOK, SaveWaiting
  <1> QED BY <1>5, <1>1, <1>6, <1>7, <1>8, <1>9, <1>10, <1>11 DEF IInv

\* The last call leaves; nothing waits.
LEMMA CompleteOK ==
  ASSUME IInv, NEW c \in Calls, Complete(c)
  PROVE  IInv'
  <1>1. StoreType' /\ GrantsOK' /\ ApproversOK'
    BY SMTT(30) DEF IInv, TypeOK, StoreType, GrantsOK, Consumed, ApproversOK,
      Ready, Complete
  <1>2. RunType'
    BY DEF IInv, TypeOK, RunType, Complete
  <1>3. CallType'
    BY DEF IInv, TypeOK, CallType, Complete
  <1>4. ScriptType'
    BY Zenon DEF IInv, TypeOK, ScriptType, Complete
  <1>5. TypeOK'
    BY <1>1, <1>2, <1>3, <1>4 DEF IInv, TypeOK, Complete
  <1>6. RowOK'
    BY DEF IInv, RowOK, TokenWhileWaiting, Complete
  <1>7. OneActive'
    BY DEF IInv, OneActive, Complete
  <1>8. CallOK'
    BY DEF IInv, TypeOK, RunType, CallType, RowOK, TokenWhileWaiting,
      CallOK, Complete
  <1>9. PositionOK'
    BY DEF IInv, TypeOK, CallType, OneActive, PositionOK, Complete
  <1>10. LoopOK'
    BY DEF IInv, TypeOK, CallType, RowOK, TokenWhileWaiting, OneActive,
      CallOK, LoopOK, NoApprovalLoop, Complete
  <1>11. SettledOK'
    BY DEF IInv, TypeOK, CallType, OneActive, SettledOK, Complete
  <1> QED BY <1>5, <1>1, <1>6, <1>7, <1>8, <1>9, <1>10, <1>11 DEF IInv

\* The call reads the current wait, and may present an old token.
LEMMA GetOK ==
  ASSUME IInv, NEW c \in Calls, Get(c)
  PROVE  IInv'
  <1>1. RunType' /\ StoreType' /\ GrantsOK' /\ ApproversOK'
    BY SMTT(30) DEF IInv, TypeOK, RunType, StoreType, GrantsOK, Consumed,
      ApproversOK, Ready, Get
  <1>2. CallType'
    BY DEF IInv, TypeOK, RunType, CallType, Get
  <1>3. ScriptType'
    BY Zenon DEF IInv, TypeOK, ScriptType, Get
  <1>4. TypeOK'
    BY <1>1, <1>2, <1>3 DEF IInv, TypeOK, Get
  <1>5. RowOK'
    BY DEF IInv, RowOK, TokenWhileWaiting, Get
  <1>6. OneActive'
    BY DEF IInv, OneActive, Get
  <1>7. CallOK'
    BY DEF IInv, TypeOK, CallType, RowOK, CallOK, Get
  <1>8. PositionOK'
    BY DEF IInv, OneActive, PositionOK, Position, Get
  <1>9. LoopOK'
    BY DEF IInv, StoreType, LoopOK, NoApprovalLoop, Get
  <1>10. SettledOK'
    BY DEF IInv, SettledOK, Get
  <1> QED BY <1>4, <1>1, <1>5, <1>6, <1>7, <1>8, <1>9, <1>10 DEF IInv

\* Who presents the current token has read the current wait.
LEMMA TokenTakenOK ==
  ASSUME IInv, NEW c \in Calls, TokenTaken(c)
  PROVE  IInv'
  <1>0. UNCHANGED <<store, grants, ran>>
    BY DEF TokenTaken
  <1>1. StoreType' /\ GrantsOK' /\ ApproversOK'
    BY <1>0 DEF IInv, TypeOK, StoreType, GrantsOK, Consumed,
      ApproversOK, Ready
  <1>2. RunType'
    BY DEF IInv, TypeOK, RunType, TokenTaken
  <1>3. CallType'
    BY DEF IInv, TypeOK, CallType, TokenTaken
  <1>4. ScriptType'
    BY Zenon DEF IInv, TypeOK, ScriptType, TokenTaken
  <1>5. TypeOK'
    BY <1>1, <1>2, <1>3, <1>4 DEF IInv, TypeOK, TokenTaken
  <1>6. RowOK'
    BY DEF IInv, RowOK, TokenWhileWaiting, TokenTaken
  <1>7. OneActive'
    BY DEF IInv, OneActive, TokenTaken
  <1>8. CallOK'
    BY DEF IInv, TypeOK, RunType, RowOK, TokenWhileWaiting, OneActive,
      CallOK, TokenTaken
  <1>9. PositionOK'
    BY DEF IInv, CallType, RowOK, TokenWhileWaiting, CallOK, PositionOK,
      Position, TokenTaken
  <1>10. LoopOK'
    BY DEF IInv, RowOK, TokenWhileWaiting, CallOK, LoopOK,
      NoApprovalLoop, TokenTaken
  <1>11. SettledOK'
    BY DEF IInv, SettledOK, TokenTaken
  <1> QED BY <1>5, <1>1, <1>6, <1>7, <1>8, <1>9, <1>10, <1>11 DEF IInv

\* Any other call leaves.
LEMMA TokenRefusedOK ==
  ASSUME IInv, NEW c \in Calls, TokenRefused(c)
  PROVE  IInv'
  <1>1. RunType' /\ StoreType' /\ GrantsOK' /\ ApproversOK'
    BY SMTT(30) DEF IInv, TypeOK, RunType, StoreType, GrantsOK, Consumed,
      ApproversOK, Ready, TokenRefused
  <1>2. CallType'
    BY DEF IInv, TypeOK, CallType, TokenRefused
  <1>3. ScriptType'
    BY Zenon DEF IInv, TypeOK, ScriptType, TokenRefused
  <1>4. TypeOK'
    BY <1>1, <1>2, <1>3 DEF IInv, TypeOK, TokenRefused
  <1>5. RowOK'
    BY DEF IInv, RowOK, TokenWhileWaiting, TokenRefused
  <1>6. OneActive'
    BY DEF IInv, OneActive, TokenRefused
  <1>7. CallOK'
    BY DEF IInv, TypeOK, CallType, CallOK, TokenRefused
  <1>8. PositionOK'
    BY DEF IInv, PositionOK, Position, TokenRefused
  <1>9. LoopOK'
    BY DEF IInv, LoopOK, NoApprovalLoop, TokenRefused
  <1>10. SettledOK'
    BY DEF IInv, SettledOK, TokenRefused
  <1> QED BY <1>4, <1>1, <1>5, <1>6, <1>7, <1>8, <1>9, <1>10 DEF IInv

\* The check of the dual approval only moves the call.
LEMMA CheckDualOK ==
  ASSUME IInv, NEW c \in Calls, CheckDual(c)
  PROVE  IInv'
  <1>1. RunType' /\ StoreType' /\ GrantsOK' /\ ApproversOK'
    BY SMTT(30) DEF IInv, TypeOK, RunType, StoreType, GrantsOK, Consumed,
      ApproversOK, Ready, CheckDual
  <1>2. CallType'
    BY DEF IInv, TypeOK, CallType, CheckDual
  <1>3. ScriptType'
    BY Zenon DEF IInv, TypeOK, ScriptType, CheckDual
  <1>4. TypeOK'
    BY <1>1, <1>2, <1>3 DEF IInv, TypeOK, CheckDual
  <1>5. RowOK'
    BY DEF IInv, RowOK, TokenWhileWaiting, CheckDual
  <1>6. OneActive'
    BY DEF IInv, OneActive, CheckDual
  <1>7. CallOK'
    BY DEF IInv, CallOK, CheckDual
  <1>8. PositionOK'
    BY DEF IInv, PositionOK, Position, CheckDual
  <1>9. LoopOK'
    BY DEF IInv, LoopOK, NoApprovalLoop, CheckDual
  <1>10. SettledOK'
    BY DEF IInv, SettledOK, CheckDual
  <1> QED BY <1>4, <1>1, <1>5, <1>6, <1>7, <1>8, <1>9, <1>10 DEF IInv

\* A consumed approval of a dual step has its two approvers.
LEMMA ApprovalConsumedOK ==
  ASSUME IInv, NEW c \in Calls, ApprovalConsumed(c)
  PROVE  IInv'
  <1>1. RunType'
    BY DEF IInv, TypeOK, RunType, ApprovalConsumed
  <1>2. StoreType'
    BY DEF IInv, TypeOK, StoreType, ApprovalConsumed
  <1>3. CallType'
    BY DEF IInv, TypeOK, CallType, ApprovalConsumed
  <1>4. ScriptType'
    BY Zenon DEF IInv, TypeOK, ScriptType, ApprovalConsumed
  <1>5. TypeOK'
    BY <1>1, <1>2, <1>3, <1>4 DEF IInv, TypeOK, ApprovalConsumed
  <1>6. RowOK'
    BY DEF IInv, RowOK, TokenWhileWaiting, ApprovalConsumed
  <1>7. OneActive'
    BY DEF IInv, OneActive, ApprovalConsumed
  <1>8. CallOK'
    BY DEF IInv, TypeOK, StoreType, OneActive, CallOK, ApprovalConsumed
  <1>9. PositionOK'
    BY DEF IInv, PositionOK, Position, ApprovalConsumed, Usable
  <1>10. GrantsOK'
    BY DEF IInv, StoreType, GrantsOK, Consumed, ApprovalConsumed, Usable
  <1>11. ApproversOK'
    BY DEF IInv, ApproversOK, Ready, ApprovalConsumed, Usable
  <1>12. LoopOK'
    <2>1. approval[c] \in Approvals /\ Created(approval[c])
      BY DEF IInv, CallOK, ApprovalConsumed
    <2>2. \A a \in Approvals : Created(a)' <=> Created(a)
      BY <2>1 DEF ApprovalConsumed
    <2>3. \A d \in Calls : (Active(d)' => Active(d)) /\ (pc'[d] = "step" => pc[d] = "step")
      BY DEF ApprovalConsumed
    <2> QED BY <2>1, <2>2, <2>3 DEF IInv, LoopOK, NoApprovalLoop,
      ApprovalConsumed
  <1>13. SettledOK'
    BY DEF IInv, SettledOK, ApprovalConsumed
  <1> QED BY <1>5, <1>1, <1>6, <1>7, <1>8, <1>9, <1>10, <1>11, <1>12,
    <1>13 DEF IInv

\* An approval that is not usable only moves the call.
LEMMA ApprovalRefusedOK ==
  ASSUME IInv, NEW c \in Calls, ApprovalRefused(c)
  PROVE  IInv'
  <1>1. RunType' /\ StoreType' /\ GrantsOK' /\ ApproversOK'
    BY SMTT(30) DEF IInv, TypeOK, RunType, StoreType, GrantsOK, Consumed,
      ApproversOK, Ready, ApprovalRefused
  <1>2. CallType'
    BY DEF IInv, TypeOK, CallType, ApprovalRefused
  <1>3. ScriptType'
    BY Zenon DEF IInv, TypeOK, ScriptType, ApprovalRefused
  <1>4. TypeOK'
    BY <1>1, <1>2, <1>3 DEF IInv, TypeOK, ApprovalRefused
  <1>5. RowOK'
    BY DEF IInv, RowOK, TokenWhileWaiting, ApprovalRefused
  <1>6. OneActive'
    BY DEF IInv, OneActive, ApprovalRefused
  <1>7. CallOK'
    BY DEF IInv, CallOK, ApprovalRefused
  <1>8. PositionOK'
    BY DEF IInv, PositionOK, Position, ApprovalRefused
  <1>9. LoopOK'
    BY DEF IInv, LoopOK, NoApprovalLoop, ApprovalRefused
  <1>10. SettledOK'
    BY DEF IInv, SettledOK, ApprovalRefused
  <1> QED BY <1>4, <1>1, <1>5, <1>6, <1>7, <1>8, <1>9, <1>10 DEF IInv

\* What is granted has just been consumed.
LEMMA GrantOK ==
  ASSUME IInv, NEW c \in Calls, Grant(c)
  PROVE  IInv'
  <1>1. RunType' /\ StoreType' /\ ApproversOK'
    BY SMTT(30) DEF IInv, TypeOK, RunType, StoreType, ApproversOK, Ready, Grant
  <1>2. CallType'
    BY DEF IInv, TypeOK, CallType, Grant
  <1>3. ScriptType'
    BY Zenon DEF IInv, TypeOK, ScriptType, Grant
  <1>4. TypeOK'
    <2>1. scope[approval[c]] \in Steps /\ at[c] \in Replicas
      BY DEF IInv, TypeOK, StoreType, CallType, CallOK, Grant
    <2>2. grants' \in [Replicas -> SUBSET Steps]
      BY <2>1 DEF IInv, TypeOK, Grant
    <2> QED BY <2>1, <2>2, <1>1, <1>2, <1>3 DEF IInv, TypeOK, Grant
  <1>5. RowOK'
    BY DEF IInv, RowOK, TokenWhileWaiting, Grant
  <1>6. OneActive'
    BY DEF IInv, OneActive, Grant
  <1>7. CallOK'
    BY DEF IInv, TypeOK, CallType, CallOK, Grant
  <1>8. PositionOK'
    BY DEF IInv, PositionOK, Position, Grant
  <1>9. GrantsOK'
    BY DEF IInv, RunType, StoreType, CallType, CallOK, GrantsOK,
      Consumed, Grant
  <1>10. LoopOK'
    BY DEF IInv, LoopOK, NoApprovalLoop, Grant
  <1>11. SettledOK'
    BY DEF IInv, SettledOK, Grant
  <1> QED BY <1>4, <1>1, <1>5, <1>6, <1>7, <1>8, <1>9, <1>10, <1>11
    DEF IInv

\* The call goes on at the step it was granted.
LEMMA RunningOK ==
  ASSUME IInv, NEW c \in Calls, Running(c)
  PROVE  IInv'
  <1>1. StoreType' /\ GrantsOK' /\ ApproversOK'
    BY SMTT(30) DEF IInv, TypeOK, StoreType, GrantsOK, Consumed, ApproversOK,
      Ready, Running
  <1>2. RunType'
    BY DEF IInv, TypeOK, RunType, Running
  <1>3. CallType'
    BY DEF IInv, TypeOK, CallType, Running
  <1>4. ScriptType'
    BY Zenon DEF IInv, TypeOK, ScriptType, Running
  <1>5. TypeOK'
    BY <1>1, <1>2, <1>3, <1>4 DEF IInv, TypeOK, Running
  <1>6. RowOK'
    <2>1. ~Waits /\ token = None
      BY DEF IInv, RowOK, TokenWhileWaiting, OneActive, Running
    <2>2. TokenWhileWaiting'
      BY <2>1 DEF TokenWhileWaiting, Running
    <2> QED BY <2>1, <2>2 DEF IInv, RowOK, Running
  <1>7. OneActive'
    BY DEF IInv, OneActive, Running
  <1>8. CallOK'
    BY DEF IInv, TypeOK, RunType, CallType, RowOK, TokenWhileWaiting,
      OneActive, CallOK, Running
  <1>9. PositionOK'
    BY DEF IInv, PositionOK, Position, Running
  <1>10. LoopOK'
    BY DEF IInv, RowOK, TokenWhileWaiting, OneActive, CallOK, LoopOK,
      NoApprovalLoop, Running
  <1>11. SettledOK'
    BY DEF IInv, TypeOK, CallType, OneActive, SettledOK, Running
  <1> QED BY <1>5, <1>1, <1>6, <1>7, <1>8, <1>9, <1>10, <1>11 DEF IInv

\* The run fails, and its call leaves.
LEMMA RefusedOK ==
  ASSUME IInv, NEW c \in Calls, Refused(c)
  PROVE  IInv'
  <1>1. StoreType' /\ GrantsOK' /\ ApproversOK'
    BY SMTT(30) DEF IInv, TypeOK, StoreType, GrantsOK, Consumed, ApproversOK,
      Ready, Refused
  <1>2. RunType'
    BY DEF IInv, TypeOK, RunType, Refused
  <1>3. CallType'
    BY DEF IInv, TypeOK, CallType, Refused
  <1>4. ScriptType'
    BY Zenon DEF IInv, TypeOK, ScriptType, Refused
  <1>5. TypeOK'
    BY <1>1, <1>2, <1>3, <1>4 DEF IInv, TypeOK, Refused
  <1>6. RowOK'
    BY DEF IInv, RowOK, TokenWhileWaiting, Refused
  <1>7. OneActive'
    BY DEF IInv, OneActive, Refused
  <1>8. CallOK'
    BY DEF IInv, TypeOK, CallType, RowOK, TokenWhileWaiting, OneActive,
      CallOK, Refused
  <1>9. PositionOK'
    BY DEF IInv, TypeOK, CallType, OneActive, PositionOK, Refused
  <1>10. LoopOK'
    BY DEF IInv, TypeOK, CallType, LoopOK, NoApprovalLoop, Refused
  <1>11. SettledOK'
    BY DEF IInv, TypeOK, CallType, OneActive, SettledOK, Refused
  <1> QED BY <1>5, <1>1, <1>6, <1>7, <1>8, <1>9, <1>10, <1>11 DEF IInv

\* The second approver is not the first, and none is the requester.
LEMMA DualApproveOK ==
  ASSUME IInv, NEW o \in Owners, NEW a \in Approvals, DualApprove(o, a)
  PROVE  IInv'
  <1>1. RunType' /\ CallType' /\ RowOK' /\ OneActive' /\ CallOK' /\
    PositionOK' /\ GrantsOK' /\ LoopOK' /\ SettledOK'
    BY DEF IInv, TypeOK, RunType, CallType, RowOK, TokenWhileWaiting,
      OneActive, CallOK, PositionOK, Position, GrantsOK, Consumed,
      LoopOK, NoApprovalLoop, SettledOK, DualApprove
  <1>2. StoreType'
    <2>1. Append(approvers[a], o) \in Seq(Owners)
      BY DEF IInv, TypeOK, StoreType
    <2> QED BY <2>1 DEF IInv, TypeOK, StoreType, DualApprove
  <1>3. ScriptType'
    BY Zenon DEF IInv, TypeOK, ScriptType, DualApprove
  <1>4. TypeOK'
    BY <1>1, <1>2, <1>3 DEF IInv, TypeOK, DualApprove
  <1>5. ApproversOK'
    <2> DEFINE new == Append(approvers[a], o)
    <2>1. approvers[a] \in Seq(Owners) /\ Len(approvers[a]) \in {0, 1}
      <3>1. approvers[a] \in Seq(Owners) /\ Len(approvers[a]) <= 2
        BY DEF IInv, TypeOK, StoreType, ApproversOK
      <3>2. Len(approvers[a]) # 2
        BY DEF DualApprove, Ready
      <3>3. Len(approvers[a]) \in Nat
        BY <3>1
      <3>4. \A n \in Nat : n <= 2 /\ n # 2 => n \in {0, 1}
        OBVIOUS
      <3> QED BY <3>1, <3>2, <3>3, <3>4
    <2>2. /\ Len(new) = Len(approvers[a]) + 1 /\ new[Len(new)] = o
          /\ \A i \in 1..Len(approvers[a]) : new[i] = approvers[a][i]
      BY <2>1
    <2>3. o # Requester /\ \A i \in 1..Len(approvers[a]) : approvers[a][i] # o
      BY DEF DualApprove
    <2>4. /\ Len(new) <= 2 /\ (Len(new) = 2 => new[1] # new[2])
          /\ \A i \in 1..Len(new) : new[i] # Requester
      BY <2>1, <2>2, <2>3 DEF IInv, ApproversOK
    <2>5. approvers'[a] = new /\ \A b \in Approvals : b # a => approvers'[b] = approvers[b]
      BY DEF IInv, TypeOK, StoreType, DualApprove
    <2>6. decision' = decision /\ scope' = scope /\ ~Ready(a)
      BY DEF DualApprove
    <2> HIDE DEF new
    <2> QED BY <2>4, <2>5, <2>6 DEF IInv, ApproversOK, Ready
  <1> QED BY <1>4, <1>1, <1>5 DEF IInv

\* A decision makes no approval consumed.
LEMMA DecideOK ==
  ASSUME IInv, NEW a \in Approvals, NEW d \in {"approved", "denied"}, Decide(a, d)
  PROVE  IInv'
  <1>1. RunType' /\ CallType' /\ OneActive' /\ PositionOK' /\ SettledOK'
    BY DEF IInv, TypeOK, RunType, CallType, OneActive, PositionOK,
      Position, SettledOK, Decide
  <1>2. StoreType'
    BY DEF IInv, TypeOK, StoreType, Decide
  <1>3. ScriptType'
    BY Zenon DEF IInv, TypeOK, ScriptType, Decide
  <1>4. TypeOK'
    BY <1>1, <1>2, <1>3 DEF IInv, TypeOK, Decide
  <1>5. RowOK'
    BY DEF IInv, RowOK, TokenWhileWaiting, Decide
  <1>6. CallOK'
    BY DEF IInv, CallOK, Decide
  <1>7. GrantsOK'
    BY DEF IInv, GrantsOK, Consumed, Decide
  <1>8. ApproversOK'
    BY DEF IInv, ApproversOK, Ready, Decide
  <1>9. LoopOK'
    BY DEF IInv, LoopOK, NoApprovalLoop, Decide
  <1> QED BY <1>4, <1>1, <1>5, <1>6, <1>7, <1>8, <1>9 DEF IInv

\* Expiry changes nothing that the invariant speaks of.
LEMMA ExpireOK ==
  ASSUME IInv, NEW a \in Approvals, Expire(a)
  PROVE  IInv'
  <1>1. RunType' /\ CallType' /\ RowOK' /\ OneActive' /\ CallOK' /\
    PositionOK' /\ GrantsOK' /\ ApproversOK' /\ LoopOK' /\ SettledOK'
    BY DEF IInv, TypeOK, RunType, CallType, RowOK, TokenWhileWaiting,
      OneActive, CallOK, PositionOK, Position, GrantsOK, Consumed,
      ApproversOK, Ready, LoopOK, NoApprovalLoop, SettledOK, Expire
  <1>2. StoreType'
    BY DEF IInv, TypeOK, StoreType, Expire
  <1>3. ScriptType'
    BY Zenon DEF IInv, TypeOK, ScriptType, Expire
  <1>4. TypeOK'
    BY <1>1, <1>2, <1>3 DEF IInv, TypeOK, Expire
  <1> QED BY <1>4, <1>1 DEF IInv

\* The calls of the replica are gone, and so are its grants.
LEMMA CrashOK ==
  ASSUME IInv, NEW r \in Replicas, Crash(r)
  PROVE  IInv'
  <1>1. RunType' /\ StoreType' /\ ApproversOK'
    BY SMTT(30) DEF IInv, TypeOK, RunType, StoreType, ApproversOK, Ready, Crash
  <1>2. CallType'
    BY DEF IInv, TypeOK, CallType, Crash
  <1>3. ScriptType'
    BY Zenon DEF IInv, TypeOK, ScriptType, Crash
  <1>4. TypeOK'
    BY <1>1, <1>2, <1>3 DEF IInv, TypeOK, Crash
  <1>5. RowOK'
    BY DEF IInv, RowOK, TokenWhileWaiting, Crash
  <1>6. OneActive'
    BY DEF IInv, OneActive, Crash
  <1>7. CallOK'
    BY DEF IInv, CallOK, Crash
  <1>8. PositionOK'
    BY DEF IInv, PositionOK, Position, Crash
  <1>9. GrantsOK'
    BY DEF IInv, RunType, GrantsOK, Consumed, Crash
  <1>10. LoopOK'
    BY DEF IInv, LoopOK, NoApprovalLoop, Crash
  <1>11. SettledOK'
    BY DEF IInv, SettledOK, Crash
  <1> QED BY <1>4, <1>1, <1>5, <1>6, <1>7, <1>8, <1>9, <1>10, <1>11
    DEF IInv

\* The script lists a run, and notes whether a call still resumes it.
LEMMA ListOK ==
  ASSUME IInv, List
  PROVE  IInv'
  <1>0. UNCHANGED <<run, store, call, grants, ran, crashes>>
    BY DEF List
  <1>1. RunType' /\ StoreType' /\ CallType'
    BY <1>0 DEF IInv, TypeOK, RunType, StoreType, CallType
  <1>2. RowOK' /\ OneActive' /\ CallOK' /\ PositionOK' /\ GrantsOK'
    BY <1>0 DEF IInv, RowOK, TokenWhileWaiting, OneActive, CallOK,
      PositionOK, Position, GrantsOK, Consumed
  <1>3. ApproversOK' /\ LoopOK'
    BY <1>0 DEF IInv, ApproversOK, Ready, LoopOK, NoApprovalLoop
  <1>4. ScriptType'
    BY Zenon DEF ScriptType, List
  <1>5. TypeOK'
    BY <1>1, <1>2, <1>3, <1>4 DEF IInv, TypeOK, List
  <1>6. SettledOK'
    BY DEF IInv, TypeOK, ScriptType, CallType, RowOK, TokenWhileWaiting,
      OneActive, SettledOK, List
  <1> QED BY <1>5, <1>1, <1>2, <1>3, <1>6 DEF IInv

\* What the script marks has no call, unless it overran.
LEMMA MarkOK ==
  ASSUME IInv, Mark
  PROVE  IInv'
  <1>1. StoreType' /\ CallType' /\ GrantsOK' /\ ApproversOK'
    BY SMTT(30) DEF IInv, TypeOK, StoreType, CallType, GrantsOK, Consumed,
      ApproversOK, Ready, Mark
  <1>2. RunType'
    BY DEF IInv, TypeOK, RunType, Mark
  <1>3. ScriptType'
    BY Zenon DEF IInv, TypeOK, ScriptType, Mark
  <1>4. TypeOK'
    BY <1>1, <1>2, <1>3 DEF IInv, TypeOK, Mark
  <1>5. RowOK'
    BY DEF IInv, RowOK, TokenWhileWaiting, Mark
  <1>6. OneActive'
    BY DEF IInv, OneActive, Mark
  <1>7. CallOK'
    BY DEF IInv, TypeOK, RunType, RowOK, TokenWhileWaiting, CallOK, Mark
  <1>8. PositionOK'
    BY DEF IInv, PositionOK, Position, Mark
  <1>9. LoopOK'
    BY DEF IInv, LoopOK, NoApprovalLoop, Mark
  <1>10. SettledOK'
    BY DEF IInv, SettledOK, Mark
  <1> QED BY <1>4, <1>1, <1>5, <1>6, <1>7, <1>8, <1>9, <1>10 DEF IInv

\* Both outcomes of each.
LEMMA ConsumeTokenOK ==
  ASSUME IInv, NEW c \in Calls, ConsumeToken(c)
  PROVE  IInv'
  <1>1. TokenTaken(c) \/ TokenRefused(c)
    BY DEF ConsumeToken, TokenTaken, TokenRefused
  <1> QED BY <1>1, TokenTakenOK, TokenRefusedOK

LEMMA ConsumeOK ==
  ASSUME IInv, NEW c \in Calls, Consume(c)
  PROVE  IInv'
  <1>1. ApprovalConsumed(c) \/ ApprovalRefused(c)
    BY DEF Consume, ApprovalConsumed, ApprovalRefused
  <1> QED BY <1>1, ApprovalConsumedOK, ApprovalRefusedOK

\* A stuttering step.
LEMMA StutterOK ==
  ASSUME IInv, UNCHANGED vars
  PROVE  IInv'
  <1>1. TypeOK'
    <2>1. ScriptType'
      BY Zenon DEF IInv, TypeOK, ScriptType, vars
    <2> QED BY <2>1 DEF IInv, TypeOK, RunType, StoreType, CallType, vars
  <1>2. RowOK' /\ OneActive' /\ CallOK' /\ PositionOK' /\ GrantsOK'
    BY DEF IInv, RowOK, TokenWhileWaiting, OneActive, CallOK, PositionOK,
      Position, GrantsOK, Consumed, vars
  <1>3. ApproversOK' /\ LoopOK' /\ SettledOK'
    BY DEF IInv, ApproversOK, Ready, LoopOK, NoApprovalLoop, SettledOK, vars
  <1> QED BY <1>1, <1>2, <1>3 DEF IInv

\* The invariant holds initially ...
LEMMA InitIInv == Init => IInv
  <1> SUFFICES ASSUME Init PROVE IInv
    OBVIOUS
  <1>1. TypeOK
    <2>1. RunType /\ CallType
      BY DEF Init, RunType, CallType
    <2>2. StoreType
      <3>1. <<>> \in Seq(Owners) /\ 1 \in Steps
        OBVIOUS
      <3> QED BY <3>1 DEF Init, StoreType
    <2>3. ScriptType
      BY Zenon DEF Init, ScriptType
    <2> QED BY <2>1, <2>2, <2>3 DEF Init, TypeOK
  <1>2. RowOK /\ OneActive /\ CallOK /\ PositionOK /\ GrantsOK
    BY DEF Init, RowOK, TokenWhileWaiting, OneActive, CallOK, PositionOK,
      Position, GrantsOK
  <1>3. ApproversOK /\ LoopOK /\ SettledOK
    BY DEF Init, ApproversOK, Ready, LoopOK, NoApprovalLoop, SettledOK
  <1> QED BY <1>1, <1>2, <1>3 DEF IInv

\* ... and every step preserves it.
LEMMA NextIInv == IInv /\ [Next]_vars => IInv'
  <1> SUFFICES ASSUME IInv, [Next]_vars PROVE IInv'
    OBVIOUS
  <1>1. ASSUME NEW c \in Calls, Work(c) PROVE IInv'
    BY <1>1, HandleOK, StepRunsOK, StepSkippedOK, InsertOK, OpenOK,
       SaveWaitingOK, CompleteOK, GetOK, ConsumeTokenOK, CheckDualOK,
       ConsumeOK, GrantOK, RunningOK, RefusedOK, Zenon DEF Work
  <1>2. ASSUME NEW a \in Approvals, NEW o \in Owners, DualApprove(o, a) PROVE IInv'
    BY <1>2, DualApproveOK
  <1>3. ASSUME NEW a \in Approvals, NEW d \in {"approved", "denied"}, Decide(a, d)
        PROVE  IInv'
    BY <1>3, DecideOK
  <1>4. ASSUME NEW a \in Approvals, Expire(a) PROVE IInv'
    BY <1>4, ExpireOK
  <1>5. ASSUME NEW r \in Replicas, Crash(r) PROVE IInv'
    BY <1>5, CrashOK
  <1>6. CASE List
    BY <1>6, ListOK
  <1>7. CASE Mark
    BY <1>7, MarkOK
  <1>8. CASE UNCHANGED vars
    BY <1>8, StutterOK
  <1> QED BY <1>1, <1>2, <1>3, <1>4, <1>5, <1>6, <1>7, <1>8, Zenon DEF Next
----------------------------------------------------------------------------
\* Each gated step has at most one effect, and a consumed approval if it has one.
LEMMA IInvEffects == IInv => EffectNeedsConsumption
  <1> SUFFICES ASSUME IInv, NEW s \in Gated
               PROVE  ran[s] <= Cardinality(Consumed(s))
    BY DEF EffectNeedsConsumption
  <1>1. ran[s] \in {0, 1}
    BY DEF IInv, TypeOK, PositionOK
  <1>2. ran[s] = 1 => Consumed(s) # {}
    BY DEF IInv, GrantsOK
  <1>3. IsFiniteSet(Consumed(s))
    <2>1. IsFiniteSet(Approvals) /\ Consumed(s) \subseteq Approvals
      BY FS_Interval DEF Consumed
    <2> QED BY <2>1, FS_Subset
  <1>4. Cardinality(Consumed(s)) \in Nat
    BY <1>3, FS_CardinalityType
  <1>5. Consumed(s) # {} => Cardinality(Consumed(s)) # 0
    BY <1>3, FS_EmptySet
  <1> QED BY <1>1, <1>2, <1>4, <1>5

\* That approval has two approvers if the step is under dual approval.
LEMMA IInvTwoPeople == IInv => TwoPeople
  <1> SUFFICES ASSUME IInv, NEW s \in Dual, ran[s] > 0
               PROVE  \E a \in Consumed(s) :
                         /\ Ready(a)
                         /\ approvers[a][1] # approvers[a][2]
                         /\ \A i \in 1..2 : approvers[a][i] # Requester
    BY DEF TwoPeople
  <1>1. PICK a \in Consumed(s) : TRUE
    BY DEF IInv, GrantsOK
  <1>2. a \in Approvals /\ Ready(a)
    BY <1>1 DEF IInv, ApproversOK, Consumed
  <1> QED BY <1>1, <1>2 DEF IInv, ApproversOK, Ready

\* Once and in order.
LEMMA IInvOnce == IInv => StepsOnceInOrder
  BY DEF IInv, PositionOK, OneActive, StepsOnceInOrder

\* The step that SettledFinal allows.
SettledStays == (status \in Settled /\ ~overran) => UNCHANGED <<status, ran>>

\* When the run is settled no call works on it, and what the script has listed
\* is still resuming.
LEMMA NextSettledStays == IInv /\ [Next]_vars => SettledStays
  <1> SUFFICES ASSUME IInv, [Next]_vars, status \in Settled, ~overran
               PROVE  UNCHANGED <<status, ran>>
    BY DEF SettledStays
  <1>1. ~listed /\ \A c \in Calls : ~Active(c)
    BY DEF IInv, SettledOK
  <1>2. ASSUME NEW c \in Calls, Work(c) PROVE UNCHANGED <<status, ran>>
    <2>1. ~Active(c)
      BY <1>1
    <2>2. CASE Handle(c)
      BY <2>2 DEF Handle
    <2>3. CASE Get(c)
      BY <2>3 DEF Get
    <2>4. CASE ConsumeToken(c)
      BY <2>4 DEF ConsumeToken
    <2>5. ~(StepRuns(c) \/ StepSkipped(c) \/ Insert(c) \/ Open(c) \/ SaveWaiting(c))
      BY <2>1 DEF StepRuns, StepSkipped, Insert, Open, SaveWaiting
    <2>6. ~(Complete(c) \/ CheckDual(c) \/ Consume(c) \/ Grant(c) \/ Running(c) \/ Refused(c))
      BY <2>1 DEF Complete, CheckDual, Consume, Grant, Running, Refused
    <2> QED BY <1>2, <2>2, <2>3, <2>4, <2>5, <2>6, Zenon DEF Work
  <1>3. ~Mark
    BY <1>1 DEF Mark
  <1> QED BY <1>2, <1>3 DEF Next, DualApprove, Decide, Expire, Crash, List, vars
----------------------------------------------------------------------------
\* The variables keep their types.
THEOREM TypeCorrect == Spec => []TypeOK
  <1>1. IInv => TypeOK
    BY DEF IInv
  <1> QED BY InitIInv, NextIInv, <1>1, PTL DEF Spec

\* No gated step takes effect without an approval of that step consumed for it
\* (ApprovalStore.consume_approved).
THEOREM EffectsAreApproved == Spec => []EffectNeedsConsumption
  BY InitIInv, NextIInv, IInvEffects, PTL DEF Spec

\* Two people other than the requester stand behind every effect of a step
\* under dual approval (DualApprovalStore.approve).
THEOREM EffectsHaveTwoPeople == Spec => []TwoPeople
  BY InitIInv, NextIInv, IInvTwoPeople, PTL DEF Spec

\* However often the run waits and is resumed, its steps take effect once and in
\* order (Orchestrator.resume, RunStore.consume_resume_token).
THEOREM StepsRunOnce == Spec => []StepsOnceInOrder
  BY InitIInv, NextIInv, IInvOnce, PTL DEF Spec

\* The resume token is there exactly while the run waits (RunStore).
THEOREM TokenIsForTheWait == Spec => []TokenWhileWaiting
  <1>1. IInv => TokenWhileWaiting
    BY DEF IInv, RowOK
  <1> QED BY InitIInv, NextIInv, <1>1, PTL DEF Spec

\* No step is approved twice (PermissionManager.allow_approved_proposal).
THEOREM NoStepAsksTwice == Spec => []NoApprovalLoop
  <1>1. IInv => NoApprovalLoop
    BY DEF IInv, LoopOK
  <1> QED BY InitIInv, NextIInv, <1>1, PTL DEF Spec

\* A settled run stays as it is while the script takes no live call for a dead
\* one (RunStore.complete, mark_resume_failed).
THEOREM SettledStaysSo == Spec => SettledFinal
  <1>1. SettledFinal <=> [][SettledStays]_vars
    BY PTL DEF SettledFinal, SettledStays
  <1> QED BY InitIInv, NextIInv, NextSettledStays, <1>1, PTL DEF Spec
============================================================================
