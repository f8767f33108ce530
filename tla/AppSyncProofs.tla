---------------------------- MODULE AppSyncProofs ----------------------------
(***************************************************************************)
(* What TLAPS proves of AppSync, for all values of its constants.  The     *)
(* components are proved one after the other, each from its own            *)
(* specification; Components says that AppSync implements all four, so     *)
(* what is proved of a component holds of AppSync.                         *)
(***************************************************************************)
EXTENDS AppSync, TLAPS

-----------------------------------------------------------------------------
(* Desktop tasks *)

\* A task is created before its approval is asked for, and waits for it.
TaskApprovalOK ==
    \A t \in Tasks :
        /\ status[t] = "none" => approval[t] = "none"
        /\ approval[t] = "pending" => status[t] = "blocked" \/ edited[t]

\* A desktop that counts on a lease of a task has it in the store, unless a desktop
\* that went on past its own lease has ended the task.
TaskCovered(d, t) ==
    \/ status[t] = "running" /\ holder[t] = d /\ lease[t] >= left[d]
    \/ status[t] \in Task!Ended /\ overran[t]
TaskLeaseOK ==
    \A d \in Devices : doing[d] # NoTask =>
        /\ left[d] = 0 => overran[doing[d]]
        /\ left[d] > 0 /\ ~edited[doing[d]] => TaskCovered(d, doing[d])

TaskIInv == Task!TypeOK /\ TaskApprovalOK /\ Task!ExecutedWasApproved /\ TaskLeaseOK /\ Task!OneDesktopPerTask
\* The step that OutcomeNeedsCause allows.
TaskOutcomeStep ==
    \A t \in Tasks : status[t] \in Task!Ended /\ status'[t] # status[t] => edited'[t] \/ overran[t]
LEMMA TaskInitIInv == ASSUME Task!ConstantsOK, Task!Init PROVE TaskIInv
  <1> USE DEF Task!ConstantsOK, Task!Init
  <1>1. Task!TypeOK BY DEF Task!TypeOK, Task!Statuses
  <1>2. TaskApprovalOK BY DEF TaskApprovalOK
  <1>3. Task!ExecutedWasApproved BY DEF Task!ExecutedWasApproved
  <1>4. TaskLeaseOK BY DEF TaskLeaseOK
  <1>5. Task!OneDesktopPerTask BY DEF Task!OneDesktopPerTask
  <1> QED BY <1>1, <1>2, <1>3, <1>4, <1>5 DEF TaskIInv

\* Nobody counts on a lease of a task that can be claimed.
LEMMA TaskClaimableIsFree ==
  ASSUME TaskIInv, NEW t \in Tasks, Task!Claimable(t), NEW d \in Devices, doing[d] = t, left[d] > 0, Task!ConstantsOK
  PROVE  edited[t]
  BY DEF TaskIInv, Task!TypeOK, TaskLeaseOK, TaskCovered, Task!Claimable, Task!Ended,
         Task!ConstantsOK

\* Steps that touch no desktop.
LEMMA TaskStoreSteps ==
  ASSUME Task!ConstantsOK, TaskIInv, NEW t \in Tasks, Task!desktops' = Task!desktops,
         \/ Task!AddTask(t)
         \/ \E v \in {"approved", "rejected"} : Task!DecideApproval(t, v)
         \/ \E s \in Task!Statuses \ {"none"} : Task!Edit(t, s)
         \/ \E d \in Devices : Task!ClaimLost(d, t)
  PROVE  TaskIInv' /\ TaskOutcomeStep
  <1> USE DEF Task!ConstantsOK, TaskIInv, Task!desktops, Task!Statuses, Task!Ended
  <1>1. CASE Task!AddTask(t)
    <2> USE <1>1 DEF Task!AddTask
    <2>1. \A d \in Devices : doing[d] # t
      BY DEF TaskApprovalOK, Task!ExecutedWasApproved, Task!TypeOK
    <2>2. Task!TypeOK' BY DEF Task!TypeOK
    <2>3. TaskApprovalOK' BY DEF Task!TypeOK, TaskApprovalOK
    <2>4. Task!ExecutedWasApproved' BY <2>1 DEF Task!TypeOK, Task!ExecutedWasApproved
    <2>5. TaskLeaseOK' BY <2>1 DEF Task!TypeOK, TaskLeaseOK, TaskCovered
    <2>6. Task!OneDesktopPerTask' /\ TaskOutcomeStep
      BY DEF Task!TypeOK, Task!OneDesktopPerTask, TaskOutcomeStep
    <2> QED BY <2>2, <2>3, <2>4, <2>5, <2>6
  <1>2. ASSUME NEW v \in {"approved", "rejected"}, Task!DecideApproval(t, v)
        PROVE TaskIInv' /\ TaskOutcomeStep
    <2> USE <1>2 DEF Task!DecideApproval
    <2>1. \A d \in Devices : doing[d] # t BY DEF Task!ExecutedWasApproved, Task!TypeOK
    <2>2. Task!TypeOK' BY DEF Task!TypeOK
    <2>3. TaskApprovalOK' BY DEF Task!TypeOK, TaskApprovalOK
    <2>4. Task!ExecutedWasApproved' BY <2>1 DEF Task!TypeOK, Task!ExecutedWasApproved
    <2>5. TaskLeaseOK' BY <2>1 DEF Task!TypeOK, TaskLeaseOK, TaskCovered
    <2>6. Task!OneDesktopPerTask' BY DEF Task!OneDesktopPerTask
    <2>7. TaskOutcomeStep BY DEF Task!TypeOK, TaskApprovalOK, TaskOutcomeStep
    <2> QED BY <2>2, <2>3, <2>4, <2>5, <2>6, <2>7
  <1>3. ASSUME NEW s \in Task!Statuses \ {"none"}, Task!Edit(t, s)
        PROVE TaskIInv' /\ TaskOutcomeStep
    <2> USE <1>3 DEF Task!Edit, Task!UpdateTaskStatus
    <2>1. Task!TypeOK' BY DEF Task!TypeOK
    <2>2. TaskApprovalOK' BY DEF Task!TypeOK, TaskApprovalOK
    <2>3. Task!ExecutedWasApproved' BY DEF Task!ExecutedWasApproved
    <2>4. TaskLeaseOK' BY DEF Task!TypeOK, TaskLeaseOK, TaskCovered
    <2>5. Task!OneDesktopPerTask' BY DEF Task!TypeOK, Task!OneDesktopPerTask
    <2>6. TaskOutcomeStep BY DEF Task!TypeOK, TaskOutcomeStep
    <2> QED BY <2>1, <2>2, <2>3, <2>4, <2>5, <2>6
  <1>4. ASSUME NEW d \in Devices, Task!ClaimLost(d, t) PROVE TaskIInv' /\ TaskOutcomeStep
    <2> USE <1>4 DEF Task!ClaimLost, Task!GiveTo
    <2>1. Task!Claimable(t) BY DEF Task!Oldest
    <2>2. Task!TypeOK' BY DEF Task!TypeOK
    <2>3. TaskApprovalOK' BY <2>1 DEF Task!TypeOK, TaskApprovalOK, Task!Claimable
    <2>4. Task!ExecutedWasApproved' BY DEF Task!ExecutedWasApproved
    <2>5. TaskLeaseOK'
      <3>1. \A e \in Devices : doing[e] = t /\ left[e] > 0 => edited[t] BY <2>1, TaskClaimableIsFree
      <3> QED BY <3>1 DEF Task!TypeOK, TaskLeaseOK, TaskCovered
    <2>6. Task!OneDesktopPerTask' BY DEF Task!OneDesktopPerTask
    <2>7. TaskOutcomeStep BY <2>1 DEF Task!TypeOK, TaskOutcomeStep, Task!Claimable
    <2> QED BY <2>2, <2>3, <2>4, <2>5, <2>6, <2>7
  <1> QED BY <1>1, <1>2, <1>3, <1>4

\* Steps of a desktop, and the clock.
LEMMA TaskDesktopSteps ==
  ASSUME Task!ConstantsOK, TaskIInv,
         \/ \E d \in Devices, t \in Tasks : Task!Claim(d, t)
         \/ \E d \in Devices : Task!RenewTaskLease(d) \/ Task!FinishLost(d)
         \/ \E d \in Devices, s \in {"completed", "failed"} : Task!Finish(d, s)
         \/ Task!Tick
  PROVE  TaskIInv' /\ TaskOutcomeStep
  <1> USE DEF Task!ConstantsOK, TaskIInv, Task!Statuses, Task!Ended
  <1>1. ASSUME NEW d \in Devices, NEW t \in Tasks, Task!Claim(d, t)
        PROVE TaskIInv' /\ TaskOutcomeStep
    <2> USE <1>1 DEF Task!Claim, Task!GiveTo
    <2>1. Task!Claimable(t) BY DEF Task!Oldest
    <2>2. \A e \in Devices : doing[e] = t /\ left[e] > 0 => edited[t] BY <2>1, TaskClaimableIsFree
    <2>3. Task!TypeOK' BY DEF Task!TypeOK
    <2>4. TaskApprovalOK' BY <2>1 DEF Task!TypeOK, TaskApprovalOK, Task!Claimable
    <2>5. Task!ExecutedWasApproved'
      BY <2>1 DEF Task!TypeOK, Task!ExecutedWasApproved, Task!Claimable
    <2>6. TaskLeaseOK' BY <2>2 DEF Task!TypeOK, TaskLeaseOK, TaskCovered
    <2>7. Task!OneDesktopPerTask' BY <2>2 DEF Task!TypeOK, Task!OneDesktopPerTask
    <2>8. TaskOutcomeStep BY <2>1 DEF Task!TypeOK, TaskOutcomeStep, Task!Claimable
    <2> QED BY <2>3, <2>4, <2>5, <2>6, <2>7, <2>8
  <1>2. ASSUME NEW d \in Devices, Task!RenewTaskLease(d) PROVE TaskIInv' /\ TaskOutcomeStep
    <2> USE <1>2 DEF Task!RenewTaskLease
    <2>1. doing[d] \in Tasks BY DEF Task!TypeOK
    <2>2. \A e \in Devices : e # d /\ doing[e] = doing[d] /\ left[e] > 0 => edited[doing[d]]
      BY <2>1 DEF Task!TypeOK, TaskLeaseOK, TaskCovered
    <2>3. Task!TypeOK' BY <2>1 DEF Task!TypeOK
    <2>4. TaskApprovalOK' BY DEF TaskApprovalOK
    <2>5. Task!ExecutedWasApproved' BY DEF Task!ExecutedWasApproved
    <2>6. TaskLeaseOK' BY <2>1, <2>2 DEF Task!TypeOK, TaskLeaseOK, TaskCovered
    <2>7. Task!OneDesktopPerTask' BY <2>1, <2>2 DEF Task!TypeOK, Task!OneDesktopPerTask
    <2>8. TaskOutcomeStep BY DEF TaskOutcomeStep
    <2> QED BY <2>3, <2>4, <2>5, <2>6, <2>7, <2>8
  <1>3. ASSUME NEW d \in Devices, Task!FinishLost(d) PROVE TaskIInv' /\ TaskOutcomeStep
    <2> USE <1>3 DEF Task!FinishLost, Task!Idle, Task!store
    <2>1. Task!TypeOK' BY DEF Task!TypeOK
    <2>2. TaskApprovalOK' BY DEF TaskApprovalOK
    <2>3. Task!ExecutedWasApproved' BY DEF Task!TypeOK, Task!ExecutedWasApproved
    <2>4. TaskLeaseOK' BY DEF Task!TypeOK, TaskLeaseOK, TaskCovered
    <2>5. Task!OneDesktopPerTask' /\ TaskOutcomeStep
      BY DEF Task!TypeOK, Task!OneDesktopPerTask, TaskOutcomeStep
    <2> QED BY <2>1, <2>2, <2>3, <2>4, <2>5
  <1>4. ASSUME NEW d \in Devices, NEW s \in {"completed", "failed"}, Task!Finish(d, s)
        PROVE TaskIInv' /\ TaskOutcomeStep
    <2> USE <1>4 DEF Task!Finish, Task!UpdateTaskStatus, Task!Idle
    <2>1. doing[d] \in Tasks BY DEF Task!TypeOK
    <2>2. approval[doing[d]] = "approved" BY DEF Task!ExecutedWasApproved
    <2>3. \A e \in Devices : e # d /\ doing[e] = doing[d] /\ left[e] > 0 =>
            edited[doing[d]] \/ overran[doing[d]]
      BY DEF Task!TypeOK, TaskLeaseOK, Task!OneDesktopPerTask
    <2>4. Task!TypeOK' BY <2>1 DEF Task!TypeOK
    <2>5. TaskApprovalOK' BY <2>1, <2>2 DEF Task!TypeOK, TaskApprovalOK
    <2>6. Task!ExecutedWasApproved' BY DEF Task!TypeOK, Task!ExecutedWasApproved
    <2>7. TaskLeaseOK' BY <2>1, <2>3 DEF Task!TypeOK, TaskLeaseOK, TaskCovered
    <2>8. Task!OneDesktopPerTask' BY DEF Task!TypeOK, Task!OneDesktopPerTask
    <2>9. TaskOutcomeStep BY <2>1 DEF Task!TypeOK, TaskLeaseOK, TaskCovered, TaskOutcomeStep
    <2> QED BY <2>4, <2>5, <2>6, <2>7, <2>8, <2>9
  <1>5. CASE Task!Tick
    <2> DEFINE late(t) == \E d \in Devices : doing[d] = t /\ left[d] <= 1
    <2>1. overran' = [t \in Tasks |-> overran[t] \/ late(t)] BY <1>5, Zenon DEF Task!Tick
    <2>2. /\ window' = [t \in Tasks |-> Task!Less(window[t])]
          /\ lease' = [t \in Tasks |-> Task!Less(lease[t])]
          /\ left' = [d \in Devices |-> Task!Less(left[d])]
          /\ UNCHANGED <<created, born, status, approval, holder, doing, edited, edits, losses>>
      BY <1>5, Zenon DEF Task!Tick
    <2>3. \A t \in Tasks : (overran[t] => overran'[t]) /\ (late(t) => overran'[t])
      <3> HIDE DEF late
      <3> QED BY <2>1, Zenon
    <2>4. Task!TypeOK'
      <3>1. overran' \in [Tasks -> BOOLEAN]
        <4> HIDE DEF late
        <4> QED BY <2>1, Zenon
      <3>2. /\ window' \in [Tasks -> 0..Window] /\ lease' \in [Tasks -> 0..Lease]
            /\ left' \in [Devices -> 0..Lease]
        BY <2>2 DEF Task!TypeOK, Task!Less
      <3> QED BY <2>2, <3>1, <3>2, Zenon DEF Task!TypeOK
    <2>5. TaskApprovalOK' BY <2>2 DEF TaskApprovalOK
    <2>6. Task!ExecutedWasApproved' BY <2>2 DEF Task!ExecutedWasApproved
    <2>7. TaskLeaseOK'
      <3> SUFFICES ASSUME NEW d \in Devices, doing[d] # NoTask
                   PROVE  /\ left'[d] = 0 => overran'[doing[d]]
                          /\ left'[d] > 0 /\ ~edited[doing[d]] => TaskCovered(d, doing[d])'
        BY <2>2 DEF TaskLeaseOK
      <3>1. doing[d] \in Tasks BY DEF Task!TypeOK
      <3>2. left[d] <= 1 => late(doing[d]) OBVIOUS
      <3>3. left'[d] = 0 => overran'[doing[d]]
        BY <2>2, <2>3, <3>1, <3>2 DEF Task!TypeOK, Task!Less
      <3>4. left'[d] > 0 /\ ~edited[doing[d]] => TaskCovered(d, doing[d])'
        BY <2>2, <2>3, <3>1 DEF Task!TypeOK, Task!Less, TaskLeaseOK, TaskCovered
      <3> QED BY <3>3, <3>4
    <2>8. Task!OneDesktopPerTask' BY <2>2 DEF Task!TypeOK, Task!Less, Task!OneDesktopPerTask
    <2>9. TaskOutcomeStep BY <2>2 DEF TaskOutcomeStep
    <2> QED BY <2>4, <2>5, <2>6, <2>7, <2>8, <2>9
  <1> QED BY <1>1, <1>2, <1>3, <1>4, <1>5

LEMMA TaskNextIInv == ASSUME Task!ConstantsOK, TaskIInv, [Task!Next]_(Task!vars)
                      PROVE TaskIInv' /\ (TaskOutcomeStep \/ UNCHANGED Task!vars)
  <1>1. CASE UNCHANGED Task!vars
    BY <1>1 DEF TaskIInv, Task!TypeOK, TaskApprovalOK, Task!ExecutedWasApproved, TaskLeaseOK,
                TaskCovered, Task!OneDesktopPerTask, Task!vars, Task!store, Task!desktops
  <1>2. ASSUME NEW t \in Tasks,
               \/ Task!AddTask(t)
               \/ \E v \in {"approved", "rejected"} : Task!DecideApproval(t, v)
               \/ \E s \in Task!Statuses \ {"none"} : Task!Edit(t, s)
               \/ \E d \in Devices : Task!ClaimLost(d, t)
        PROVE  TaskIInv' /\ TaskOutcomeStep
    <2>1. Task!desktops' = Task!desktops
      BY <1>2 DEF Task!AddTask, Task!DecideApproval, Task!Edit, Task!ClaimLost
    <2> QED BY <1>2, <2>1, TaskStoreSteps
  <1> QED BY <1>1, <1>2, TaskDesktopSteps DEF Task!Next

LEMMA TaskIInvHolds == ASSUME Task!ConstantsOK PROVE Task!Spec => []TaskIInv
  <1>1. Task!Init => TaskIInv BY TaskInitIInv
  <1>2. TaskIInv /\ [Task!Next]_(Task!vars) => TaskIInv' BY TaskNextIInv
  <1> QED BY <1>1, <1>2, PTL DEF Task!Spec

-----------------------------------------------------------------------------
(* Device identity *)

\* As long as an accepted request is in the window, its nonce is remembered.
DeviceNonceOK ==
    \A r \in Requests :
        /\ signedBy[r] = NoKey => accepted[r] = 0
        /\ accepted[r] > 0 => offset[r] < -Skew \/ nonce[r] > offset[r] + Skew

DeviceIInv == Device!TypeOK /\ Device!KeyProved
DeviceOInv == DeviceIInv /\ DeviceNonceOK /\ Device!AcceptedOnce
LEMMA DeviceInitIInv == ASSUME Device!ConstantsOK, Device!Init PROVE DeviceOInv
  <1> USE DEF Device!ConstantsOK, Device!Init
  <1>1. Device!TypeOK
    <2>1. revokedAt \in BOOLEAN /\ approvalKey \in BOOLEAN BY Zenon
    <2>2. /\ offset \in [Requests -> -(Skew + 1)..(Skew + 1)] /\ nonce \in [Requests -> 0..TTL]
          /\ accepted \in [Requests -> 0..2] /\ enrollLeft \in 0..Life
          /\ challengeLeft \in [Challenges -> 0..Life]
      OBVIOUS
    <2> QED BY <2>1, <2>2 DEF Device!TypeOK, Device!AnyKey
  <1>2. Device!KeyProved BY DEF Device!KeyProved
  <1>3. DeviceNonceOK BY DEF DeviceNonceOK
  <1>4. Device!AcceptedOnce BY DEF Device!AcceptedOnce
  <1> QED BY <1>1, <1>2, <1>3, <1>4 DEF DeviceIInv, DeviceOInv

\* Steps on the device and its enrollment.
LEMMA DeviceDeviceIInv ==
  ASSUME Device!ConstantsOK, DeviceIInv,
         \/ \E k \in Device!AnyKey : Device!Register(k)
         \/ \E k \in Keys : Device!CompleteEnrollment(k)
         \/ Device!StartEnrollment \/ Device!Revoke
         \/ \E c \in Challenges : Device!IssueChallenge(c) \/ Device!VerifyChallenge(c)
  PROVE  DeviceIInv' /\ UNCHANGED Device!requests
  <1> USE DEF Device!ConstantsOK, DeviceIInv, Device!device, Device!enrolling, Device!requests, Device!AnyKey
  <1>1. ASSUME NEW k \in Device!AnyKey, Device!Register(k)
        PROVE DeviceIInv' /\ UNCHANGED Device!requests
    <2>1. Device!TypeOK' BY <1>1 DEF Device!Register, Device!TypeOK
    <2>2. Device!KeyProved' BY <1>1 DEF Device!Register, Device!MayRegister, Device!KeyProved
    <2> QED BY <1>1, <2>1, <2>2 DEF Device!Register
  <1>2. ASSUME NEW k \in Keys, Device!CompleteEnrollment(k)
        PROVE DeviceIInv' /\ UNCHANGED Device!requests
    BY <1>2 DEF Device!CompleteEnrollment, Device!TypeOK, Device!KeyProved
  <1>3. CASE Device!StartEnrollment
    BY <1>3 DEF Device!StartEnrollment, Device!TypeOK, Device!KeyProved
  <1>4. CASE Device!Revoke BY <1>4 DEF Device!Revoke, Device!TypeOK, Device!KeyProved
  <1>5. ASSUME NEW c \in Challenges, Device!IssueChallenge(c)
        PROVE DeviceIInv' /\ UNCHANGED Device!requests
    BY <1>5 DEF Device!IssueChallenge, Device!TypeOK, Device!KeyProved
  <1>6. ASSUME NEW c \in Challenges, Device!VerifyChallenge(c)
        PROVE DeviceIInv' /\ UNCHANGED Device!requests
    <2>1. Device!TypeOK' BY <1>6 DEF Device!VerifyChallenge, Device!TypeOK
    <2>2. Device!KeyProved' BY <1>6 DEF Device!VerifyChallenge, Device!TypeOK, Device!KeyProved
    <2> QED BY <1>6, <2>1, <2>2 DEF Device!VerifyChallenge
  <1> QED BY <1>1, <1>2, <1>3, <1>4, <1>5, <1>6

\* Steps on the requests, and the clock.
LEMMA DeviceRequestIInv ==
  ASSUME Device!ConstantsOK, DeviceIInv,
         \/ Device!Restart \/ Device!Tick
         \/ \E r \in Requests, k \in Keys, o \in -(Skew + 1)..(Skew + 1) : Device!Sign(r, k, o)
         \/ \E r \in Requests : Device!Accept(r) \/ Device!RegisterApprovalKey(r)
  PROVE  DeviceIInv'
  <1> USE DEF Device!ConstantsOK, DeviceIInv, Device!device, Device!enrolling, Device!requests, Device!AnyKey
  <1>1. CASE Device!Restart BY <1>1 DEF Device!Restart, Device!TypeOK, Device!KeyProved
  <1>2. CASE Device!Tick
    <2>1. Device!TypeOK' BY <1>2 DEF Device!Tick, Device!TypeOK, Device!Less
    <2>2. Device!KeyProved' BY <1>2 DEF Device!Tick, Device!KeyProved
    <2> QED BY <2>1, <2>2
  <1>3. ASSUME NEW r \in Requests, NEW k \in Keys, NEW o \in -(Skew + 1)..(Skew + 1), Device!Sign(r, k, o)
        PROVE DeviceIInv'
    BY <1>3 DEF Device!Sign, Device!TypeOK, Device!KeyProved
  <1>4. ASSUME NEW r \in Requests, Device!Accept(r) PROVE DeviceIInv'
    BY <1>4 DEF Device!Accept, Device!TypeOK, Device!KeyProved
  <1>5. ASSUME NEW r \in Requests, Device!RegisterApprovalKey(r) PROVE DeviceIInv'
    <2>1. approvalKey' \in BOOLEAN BY <1>5, Zenon DEF Device!RegisterApprovalKey
    <2>2. Device!TypeOK' BY <1>5, <2>1 DEF Device!RegisterApprovalKey, Device!TypeOK
    <2>3. Device!KeyProved' BY <1>5 DEF Device!RegisterApprovalKey, Device!KeyProved
    <2> QED BY <2>2, <2>3
  <1> QED BY <1>1, <1>2, <1>3, <1>4, <1>5

LEMMA DeviceNextIInv == ASSUME Device!ConstantsOK, DeviceIInv, [Device!Next]_(Device!vars)
                        PROVE DeviceIInv'
  <1>1. CASE UNCHANGED Device!vars
    BY <1>1 DEF DeviceIInv, Device!TypeOK, Device!KeyProved, Device!vars, Device!device,
                Device!enrolling, Device!requests
  <1> QED BY <1>1, DeviceDeviceIInv, DeviceRequestIInv DEF Device!Next

LEMMA DeviceIInvHolds == ASSUME Device!ConstantsOK PROVE Device!Spec => []DeviceIInv
  <1>1. Device!Init => DeviceIInv BY DeviceInitIInv DEF DeviceOInv
  <1>2. DeviceIInv /\ [Device!Next]_(Device!vars) => DeviceIInv' BY DeviceNextIInv
  <1> QED BY <1>1, <1>2, PTL DEF Device!Spec

\* What the store has accepted it will not find fresh again.
LEMMA DeviceNextOnce == ASSUME Device!ConstantsOK, Durable, DeviceOInv, [Device!Next]_(Device!vars)
                        PROVE DeviceNonceOK' /\ Device!AcceptedOnce'
  <1> USE DEF Device!ConstantsOK, DeviceOInv, DeviceIInv, Device!requests, DeviceNonceOK, Device!AcceptedOnce
  <1>1. CASE UNCHANGED Device!requests BY <1>1
  <1>2. CASE Device!Restart BY <1>2 DEF Device!Restart
  <1>3. CASE Device!Tick
    BY <1>3 DEF Device!Tick, Device!TypeOK, Device!Less
  <1>4. ASSUME NEW r \in Requests, NEW k \in Keys, NEW o \in -(Skew + 1)..(Skew + 1), Device!Sign(r, k, o)
        PROVE  DeviceNonceOK' /\ Device!AcceptedOnce'
    BY <1>4 DEF Device!Sign, Device!TypeOK
  <1>5. ASSUME NEW r \in Requests, Device!Accept(r) PROVE DeviceNonceOK' /\ Device!AcceptedOnce'
    <2>1. accepted[r] = 0
      BY <1>5 DEF Device!Accept, Device!Fresh, Device!TypeOK
    <2> QED BY <1>5, <2>1 DEF Device!Accept, Device!Fresh, Device!TypeOK
  <1>6. ASSUME NEW r \in Requests, Device!RegisterApprovalKey(r)
        PROVE DeviceNonceOK' /\ Device!AcceptedOnce'
    BY <1>6 DEF Device!RegisterApprovalKey
  <1>7. CASE UNCHANGED Device!vars BY <1>1, <1>7 DEF Device!vars
  <1> QED BY <1>1, <1>2, <1>3, <1>4, <1>5, <1>6, <1>7, DeviceDeviceIInv DEF Device!Next

\* What a step of a revoked device leaves alone.
LEMMA DeviceRevokedStep ==
  ASSUME Device!ConstantsOK, DeviceIInv, [Device!Next]_(Device!vars), revokedAt
  PROVE  accepted' = accepted /\ key' = key /\ approvalKey' = approvalKey
  <1> USE DEF Device!device, Device!enrolling, Device!requests
  <1>1. ASSUME NEW k \in Device!AnyKey, Device!Register(k) PROVE FALSE
    BY <1>1 DEF Device!Register, Device!MayRegister
  <1>2. ASSUME NEW r \in Requests, Device!Accept(r) PROVE FALSE
    BY <1>2 DEF Device!Accept, Device!Trusted
  <1>3. ASSUME NEW r \in Requests, Device!RegisterApprovalKey(r)
        PROVE  accepted' = accepted /\ key' = key /\ approvalKey' = approvalKey
    <2>1. approvalKey \in BOOLEAN BY DEF DeviceIInv, Device!TypeOK
    <2>2. approvalKey' = approvalKey
      BY <1>3, <2>1, Zenon DEF Device!RegisterApprovalKey, Device!Trusted
    <2> QED BY <1>3, <2>2 DEF Device!RegisterApprovalKey
  <1>4. CASE \/ \E k \in Keys : Device!CompleteEnrollment(k)
             \/ Device!StartEnrollment \/ Device!Revoke \/ Device!Restart \/ Device!Tick
             \/ \E c \in Challenges : Device!IssueChallenge(c) \/ Device!VerifyChallenge(c)
    BY <1>4 DEF Device!CompleteEnrollment, Device!StartEnrollment, Device!Revoke, Device!Restart,
                Device!Tick, Device!IssueChallenge, Device!VerifyChallenge
  <1>5. ASSUME NEW r \in Requests, NEW k \in Keys, NEW o \in -(Skew + 1)..(Skew + 1), Device!Sign(r, k, o)
        PROVE  accepted' = accepted /\ key' = key /\ approvalKey' = approvalKey
    BY <1>5 DEF Device!Sign
  <1>6. CASE UNCHANGED Device!vars BY <1>6 DEF Device!vars
  <1> QED BY <1>1, <1>2, <1>3, <1>4, <1>5, <1>6 DEF Device!Next

LEMMA DeviceOInvHolds == ASSUME Device!ConstantsOK, Durable PROVE Device!Spec => []DeviceOInv
  <1>1. Device!Init => DeviceOInv BY DeviceInitIInv
  <1>2. DeviceOInv /\ [Device!Next]_(Device!vars) => DeviceOInv'
    BY DeviceNextIInv, DeviceNextOnce DEF DeviceOInv
  <1> QED BY <1>1, <1>2, PTL DEF Device!Spec

-----------------------------------------------------------------------------
(* Offline sync *)

\* What has been answered for is there: applied, or refused for good.
SyncAnsweredThere == worker \in {"answering", "synced"} => batch \subseteq applied \cup Refused

SyncIInv == Sync!TypeOK /\ SyncAnsweredThere /\ Sync!SyncedWasApplied

LEMMA SyncInitIInv == ASSUME Sync!ConstantsOK, Sync!Init PROVE SyncIInv
  <1> USE DEF Sync!ConstantsOK, Sync!Init
  <1>1. Sync!TypeOK BY DEF Sync!TypeOK
  <1>2. SyncAnsweredThere /\ Sync!SyncedWasApplied BY DEF SyncAnsweredThere, Sync!SyncedWasApplied
  <1> QED BY <1>1, <1>2 DEF SyncIInv

\* Steps of the reconnect worker and of the receiver.
LEMMA SyncWorkerIInv ==
  ASSUME Sync!ConstantsOK, SyncIInv,
         \/ \E o \in Ops : Sync!MarkFailed(o) \/ Sync!MarkSynced(o)
         \/ \E c \in SUBSET batch : Sync!Receive(c)
         \/ Sync!StayLocal \/ Sync!Reconnect \/ Sync!Apply \/ Sync!Answer \/ Sync!UploadFails \/ Sync!GiveUp
         \/ Sync!CheckConflicts \/ Sync!UpdateChecked \/ Sync!Crash
  PROVE  SyncIInv'
  <1> USE DEF Sync!ConstantsOK, SyncIInv, Sync!outbox, Sync!loop, Sync!receiver
  <1>1. ASSUME NEW o \in Ops, Sync!MarkFailed(o) PROVE SyncIInv'
    BY <1>1 DEF Sync!MarkFailed, Sync!TypeOK, SyncAnsweredThere, Sync!SyncedWasApplied
  <1>2. ASSUME NEW o \in Ops, Sync!MarkSynced(o) PROVE SyncIInv'
    BY <1>2 DEF Sync!MarkSynced, Sync!TypeOK, SyncAnsweredThere, Sync!SyncedWasApplied
  <1>3. ASSUME NEW c \in SUBSET batch, Sync!Receive(c) PROVE SyncIInv'
    BY <1>3 DEF Sync!Receive, Sync!TypeOK, SyncAnsweredThere, Sync!SyncedWasApplied
  <1>4. CASE Sync!StayLocal BY <1>4 DEF Sync!StayLocal, Sync!TypeOK, SyncAnsweredThere,
                                        Sync!SyncedWasApplied
  <1>5. CASE Sync!Reconnect
    <2>1. PICK b \in SUBSET Sync!Due : batch' = b /\ worker' = IF b = {} THEN "checking" ELSE "uploading"
      BY <1>5 DEF Sync!Reconnect
    <2>2. batch' \subseteq Ops /\ worker' \in {"checking", "uploading"} BY <2>1 DEF Sync!Due
    <2> QED BY <1>5, <2>2 DEF Sync!Reconnect, Sync!TypeOK, SyncAnsweredThere, Sync!SyncedWasApplied
  <1>6. CASE Sync!Apply BY <1>6 DEF Sync!Apply, Sync!ToApply, Sync!TypeOK, SyncAnsweredThere,
                                    Sync!SyncedWasApplied
  <1>7. CASE Sync!Answer BY <1>7 DEF Sync!Answer, Sync!TypeOK, SyncAnsweredThere,
                                     Sync!SyncedWasApplied
  <1>8. CASE Sync!UploadFails BY <1>8 DEF Sync!UploadFails, Sync!TypeOK, SyncAnsweredThere,
                                          Sync!SyncedWasApplied
  <1>9. CASE Sync!GiveUp BY <1>9 DEF Sync!GiveUp, Sync!TypeOK, SyncAnsweredThere,
                                     Sync!SyncedWasApplied
  <1>10. CASE Sync!CheckConflicts
    BY <1>10 DEF Sync!CheckConflicts, Sync!TypeOK, SyncAnsweredThere, Sync!SyncedWasApplied
  <1>11. CASE Sync!UpdateChecked
    BY <1>11 DEF Sync!UpdateChecked, Sync!TypeOK, SyncAnsweredThere, Sync!SyncedWasApplied
  <1>12. CASE Sync!Crash BY <1>12 DEF Sync!Crash, Sync!TypeOK, SyncAnsweredThere,
                                      Sync!SyncedWasApplied
  <1> QED BY <1>1, <1>2, <1>3, <1>4, <1>5, <1>6, <1>7, <1>8, <1>9, <1>10, <1>11, <1>12

LEMMA SyncNextIInv == ASSUME Sync!ConstantsOK, SyncIInv, [Sync!Next]_(Sync!vars) PROVE SyncIInv'
  <1> USE DEF Sync!ConstantsOK, SyncIInv, Sync!outbox, Sync!loop, Sync!receiver
  <1>1. ASSUME NEW o \in Ops, Sync!Enqueue(o) \/ Sync!PullEcho(o) \/ Sync!PullClash(o)
        PROVE SyncIInv'
    BY <1>1 DEF Sync!Enqueue, Sync!PullEcho, Sync!PullClash, Sync!TypeOK, SyncAnsweredThere,
                Sync!SyncedWasApplied
  <1>2. CASE Sync!Tick BY <1>2 DEF Sync!Tick, Sync!TypeOK, SyncAnsweredThere, Sync!SyncedWasApplied
  <1>3. CASE UNCHANGED Sync!vars
    BY <1>3 DEF Sync!vars, Sync!TypeOK, SyncAnsweredThere, Sync!SyncedWasApplied
  <1> QED BY <1>1, <1>2, <1>3, SyncWorkerIInv DEF Sync!Next

LEMMA SyncIInvHolds == ASSUME Sync!ConstantsOK PROVE Sync!Spec => []SyncIInv
  <1>1. Sync!Init => SyncIInv BY SyncInitIInv
  <1>2. SyncIInv /\ [Sync!Next]_(Sync!vars) => SyncIInv' BY SyncNextIInv
  <1> QED BY <1>1, <1>2, PTL DEF Sync!Spec

-----------------------------------------------------------------------------
(* The shared tables *)

\* Every call goes through the advisory lock, or one gateway serves them all.
SharedOneWriter(d) == d.project = {} \/ \A b, c \in Calls : d.home[b] = d.home[c]

SharedHolding == {"locked", "loaded", "changed", "saved", "leaving"}

\* The advisory lock and the lock of a gateway are held by whoever counts on them.
SharedLocksOK ==
    \A c \in Calls :
        /\ at[c] \in SharedHolding => advisory = c
        /\ at[c] \in SharedHolding \cup {"waiting"} => local[Shared!Home(c)] = c

\* The memory of a gateway shows what the tables show, but for rows that chat turns
\* have inserted since, and those it does not know and will not write.
SharedFreshMem(g) ==
    /\ \A x \in Rows \ ChatRows : db[x] \subseteq mem[g][x]
    /\ \A x \in ChatRows :
        /\ db[x] = {} => mem[g][x] = {}
        /\ mem[g][x] = {} \/ x \in InsertOnly \/ db[x] \subseteq mem[g][x]

\* It does so when a call is about to write it back; where projects are served, always.
SharedMemOK ==
    /\ \A c \in Calls : at[c] \in {"loaded", "changed"} \/ Shared!ProjectCalls # {} => SharedFreshMem(Shared!Home(c))
    /\ \A c \in Calls : at[c] = "changed" =>
        /\ c \in mem[Shared!Home(c)][Shared!Target(c)]
        /\ Shared!Target(c) \in InsertOnly => db[Shared!Target(c)] = {}

SharedIInv == Shared!TypeOK /\ SharedLocksOK /\ SharedMemOK /\ Shared!NoLostUpdate

\* The deployments in which no update is lost.
SharedWritersAgree == MaxLockLosses = 0 /\ \A d \in Deployments : SharedOneWriter(d)

LEMMA SharedDeployed ==
  ASSUME Shared!ConstantsOK, Shared!TypeOK
  PROVE  /\ \A c \in Calls : Shared!Home(c) \in Gateways /\ Shared!Target(c) \in Rows
         /\ \A c \in Shared!ProjectCalls : c \in Calls /\ Shared!Target(c) \notin ChatRows
         /\ SharedWritersAgree /\ Shared!ProjectCalls # {} => \A b, c \in Calls : Shared!Home(b) = Shared!Home(c)
  BY DEF Shared!ConstantsOK, Shared!TypeOK, Shared!Home, Shared!Target, Shared!ProjectCalls,
         SharedWritersAgree, SharedOneWriter

LEMMA SharedInitTypes == ASSUME Shared!ConstantsOK, Shared!Init PROVE Shared!TypeOK
  BY DEF Shared!ConstantsOK, Shared!Init, Shared!TypeOK

LEMMA SharedNextTypes == ASSUME Shared!ConstantsOK, Shared!TypeOK, [Shared!Next]_(Shared!vars)
                         PROVE Shared!TypeOK'
  <1> USE DEF Shared!ConstantsOK, Shared!TypeOK
  <1>0. \A c \in Calls : Shared!Home(c) \in Gateways /\ Shared!Target(c) \in Rows BY SharedDeployed
  <1>1. CASE UNCHANGED Shared!vars BY <1>1 DEF Shared!vars
  <1>2. ASSUME NEW c \in Calls, UNCHANGED deployment,
               Shared!Enter(c) \/ Shared!Lock(c) \/ Shared!Raise(c) \/ Shared!Unlock(c)
        PROVE  Shared!TypeOK'
    <2>1. /\ UNCHANGED <<db, mem, crashes, lockLosses>>
          /\ local' \in [Gateways -> Calls \cup {NoCall}] /\ advisory' \in Calls \cup {NoCall}
      BY <1>0, <1>2 DEF Shared!Enter, Shared!Lock, Shared!Raise, Shared!Unlock
    <2>2. \E place \in {"waiting", "locked", "leaving", "done", "refused"} : Shared!Go(c, place)
      BY <1>2 DEF Shared!Enter, Shared!Lock, Shared!Raise, Shared!Unlock
    <2> QED BY <1>2, <2>1, <2>2 DEF Shared!Go
  <1>3. ASSUME NEW c \in Calls, UNCHANGED deployment, Shared!Refresh(c) PROVE Shared!TypeOK'
    BY <1>0, <1>3 DEF Shared!Refresh, Shared!Loaded, Shared!Go
  <1>4. ASSUME NEW c \in Calls, UNCHANGED deployment, Shared!Change(c) PROVE Shared!TypeOK'
    BY <1>0, <1>4 DEF Shared!Change, Shared!Go
  <1>5. ASSUME NEW c \in Calls, UNCHANGED deployment, Shared!Persist(c) PROVE Shared!TypeOK'
    BY <1>0, <1>5 DEF Shared!Persist, Shared!Mirror, Shared!Go
  <1>6. ASSUME NEW c \in Calls, UNCHANGED deployment, Shared!ProjectWrite(c) PROVE Shared!TypeOK'
    BY <1>0, <1>6 DEF Shared!ProjectWrite, Shared!Mirror, Shared!Go
  <1>7. ASSUME NEW x \in Rows, UNCHANGED deployment, Shared!ChatInsert(x) PROVE Shared!TypeOK'
    BY <1>7 DEF Shared!ChatInsert
  <1>8. ASSUME NEW g \in Gateways, UNCHANGED deployment, Shared!Crash(g) PROVE Shared!TypeOK'
    BY <1>8 DEF Shared!Crash, Shared!Busy
  <1>9. CASE UNCHANGED deployment /\ Shared!LoseLock BY <1>9 DEF Shared!LoseLock
  <1> QED BY <1>1, <1>2, <1>3, <1>4, <1>5, <1>6, <1>7, <1>8, <1>9 DEF Shared!Next

LEMMA SharedInitIInv == ASSUME Shared!ConstantsOK, Shared!Init PROVE SharedIInv
  <1> USE DEF Shared!ConstantsOK, Shared!Init
  <1>1. Shared!TypeOK BY SharedInitTypes
  <1>2. SharedLocksOK BY DEF SharedLocksOK, SharedHolding
  <1>3. \A g \in Gateways : SharedFreshMem(g) BY DEF SharedFreshMem
  <1>4. SharedMemOK BY <1>1, <1>3, SharedDeployed DEF SharedMemOK
  <1>5. Shared!NoLostUpdate BY DEF Shared!NoLostUpdate
  <1> QED BY <1>1, <1>2, <1>4, <1>5 DEF SharedIInv

\* Steps that write neither the tables nor a memory.
LEMMA SharedLockSteps ==
  ASSUME Shared!ConstantsOK, SharedWritersAgree, SharedIInv, UNCHANGED deployment,
         NEW c \in Calls, Shared!Enter(c) \/ Shared!Lock(c) \/ Shared!Raise(c) \/ Shared!Unlock(c)
  PROVE  SharedLocksOK' /\ SharedMemOK' /\ Shared!NoLostUpdate'
  <1> USE DEF Shared!ConstantsOK, SharedIInv, Shared!Go
  <1>0. Shared!TypeOK /\ Shared!Home(c) \in Gateways /\ \A b \in Calls : Shared!Home(b) \in Gateways /\ Shared!Home(b)' = Shared!Home(b)
    BY SharedDeployed DEF Shared!Home
  <1>1. UNCHANGED <<db, mem>> BY DEF Shared!Enter, Shared!Lock, Shared!Raise, Shared!Unlock
  <1>3. SharedLocksOK'
    BY <1>0 DEF SharedLocksOK, SharedHolding, Shared!TypeOK, Shared!Enter, Shared!Lock,
                Shared!Raise, Shared!Unlock
  <1>4. \A b \in Calls : at'[b] \in {"loaded", "changed", "saved", "done"} =>
                           at[b] = at'[b] \/ (at[b] = "saved" /\ at'[b] = "done")
    BY <1>0 DEF Shared!TypeOK, Shared!Enter, Shared!Lock, Shared!Raise, Shared!Unlock
  <1>5. SharedMemOK'
    BY <1>0, <1>1, <1>4 DEF SharedMemOK, SharedFreshMem, Shared!Home, Shared!Target,
                            Shared!ProjectCalls
  <1>6. Shared!NoLostUpdate' BY <1>1, <1>4 DEF Shared!NoLostUpdate, Shared!Target
  <1> QED BY <1>3, <1>5, <1>6

\* A call that holds the lock loads the tables and changes what it loaded.
LEMMA SharedMemorySteps ==
  ASSUME Shared!ConstantsOK, SharedWritersAgree, SharedIInv, UNCHANGED deployment,
         NEW c \in Calls, Shared!Refresh(c) \/ Shared!Change(c)
  PROVE  SharedLocksOK' /\ SharedMemOK' /\ Shared!NoLostUpdate'
  <1> USE DEF Shared!ConstantsOK, SharedIInv, Shared!Go
  <1>0. /\ Shared!TypeOK
        /\ \A b \in Calls : /\ Shared!Home(b) \in Gateways /\ Shared!Target(b) \in Rows
                            /\ Shared!Home(b)' = Shared!Home(b) /\ Shared!Target(b)' = Shared!Target(b)
        /\ Shared!ProjectCalls' = Shared!ProjectCalls
        /\ Shared!ProjectCalls # {} => \A b \in Calls : Shared!Home(b) = Shared!Home(c)
    BY SharedDeployed DEF Shared!Home, Shared!Target, Shared!ProjectCalls
  <1>1. db' = db /\ \A b \in Calls \ {c} : at'[b] = at[b]
    BY <1>0 DEF Shared!TypeOK, Shared!Refresh, Shared!Change
  <1>2. at[c] \in {"locked", "loaded"} /\ at'[c] \in {"loaded", "changed"} /\ UNCHANGED <<local, advisory>>
    BY <1>0 DEF Shared!TypeOK, Shared!Refresh, Shared!Change
  <1>3. SharedLocksOK' BY <1>0, <1>1, <1>2 DEF SharedLocksOK, SharedHolding
  <1>4. \A b \in Calls \ {c} : at[b] \notin SharedHolding
    BY <1>2 DEF SharedLocksOK, SharedHolding
  <1>5. SharedFreshMem(Shared!Home(c))'
    <2>1. CASE Shared!Refresh(c)
      <3>1. mem'[Shared!Home(c)] = db BY <1>0, <2>1 DEF Shared!TypeOK, Shared!Refresh, Shared!Loaded
      <3> QED BY <1>0, <1>1, <3>1 DEF SharedFreshMem, Shared!TypeOK
    <2>2. CASE Shared!Change(c)
      <3> DEFINE g == Shared!Home(c)
                 t == Shared!Target(c)
      <3>1. SharedFreshMem(g) BY <2>2 DEF SharedMemOK, Shared!Change
      <3>2. /\ t \in ChatRows => mem[g][t] # {}
            /\ mem'[g] = [mem[g] EXCEPT ![t] = @ \cup {c}]
            /\ g \in Gateways /\ t \in Rows /\ mem[g] \in [Rows -> SUBSET (Calls \cup {Chat})]
            /\ Shared!Home(c)' = g
        BY <1>0, <2>2 DEF Shared!TypeOK, Shared!Change
      <3> HIDE DEF g, t
      <3> QED BY <1>0, <1>1, <3>1, <3>2 DEF SharedFreshMem
    <2> QED BY <2>1, <2>2
  <1>6. \A b \in Calls : at'[b] \in {"loaded", "changed"} \/ Shared!ProjectCalls' # {} => SharedFreshMem(Shared!Home(b))'
    <2>1. \A b \in Calls \ {c} : at'[b] \notin {"loaded", "changed"}
      BY <1>1, <1>4 DEF SharedHolding
    <2>2. ASSUME NEW b \in Calls, Shared!ProjectCalls' # {} PROVE Shared!Home(b)' = Shared!Home(c)'
      BY <1>0, <2>2
    <2> QED BY <1>5, <2>1, <2>2 DEF SharedFreshMem
  <1>7. \A b \in Calls : at'[b] = "changed" =>
          /\ b \in mem'[Shared!Home(b)'][Shared!Target(b)']
          /\ Shared!Target(b)' \in InsertOnly => db'[Shared!Target(b)'] = {}
    <2>1. ASSUME NEW b \in Calls, at'[b] = "changed" PROVE b = c /\ Shared!Change(c)
      BY <1>0, <1>1, <1>4, <2>1 DEF SharedHolding, Shared!Refresh, Shared!TypeOK
    <2>2. ASSUME Shared!Change(c)
          PROVE  /\ c \in mem'[Shared!Home(c)][Shared!Target(c)]
                 /\ Shared!Target(c) \in InsertOnly => db[Shared!Target(c)] = {}
      <3>1. SharedFreshMem(Shared!Home(c)) BY <2>2 DEF SharedMemOK, Shared!Change
      <3> QED BY <1>0, <2>2, <3>1 DEF Shared!Change, SharedFreshMem, Shared!TypeOK
    <2> QED BY <1>0, <1>1, <2>1, <2>2
  <1>8. Shared!NoLostUpdate'
    BY <1>0, <1>1, <1>2 DEF Shared!NoLostUpdate
  <1> QED BY <1>3, <1>6, <1>7, <1>8 DEF SharedMemOK

\* The rows written back are those of the tables, and what this gateway added.
LEMMA SharedMirrorKeeps ==
  ASSUME Shared!ConstantsOK, Shared!TypeOK, NEW g \in Gateways, SharedFreshMem(g)
  PROVE  /\ \A x \in Rows : db[x] \subseteq Shared!Mirror(g)[x]
         /\ \A x \in Rows \ ChatRows : Shared!Mirror(g)[x] \subseteq mem[g][x]
         /\ \A x \in ChatRows :
              /\ Shared!Mirror(g)[x] = {} => mem[g][x] = {}
              /\ mem[g][x] = {} \/ x \in InsertOnly \/ Shared!Mirror(g)[x] \subseteq mem[g][x]
  BY DEF Shared!ConstantsOK, Shared!TypeOK, SharedFreshMem, Shared!Mirror, Shared!Kept

LEMMA SharedPersistStep ==
  ASSUME Shared!ConstantsOK, SharedWritersAgree, SharedIInv, UNCHANGED deployment, NEW c \in Calls, Shared!Persist(c)
  PROVE  SharedLocksOK' /\ SharedMemOK' /\ Shared!NoLostUpdate'
  <1> USE DEF Shared!ConstantsOK, SharedIInv, Shared!Go
  <1>0. /\ Shared!TypeOK
        /\ \A b \in Calls : /\ Shared!Home(b) \in Gateways /\ Shared!Target(b) \in Rows
                            /\ Shared!Home(b)' = Shared!Home(b) /\ Shared!Target(b)' = Shared!Target(b)
        /\ Shared!ProjectCalls' = Shared!ProjectCalls
        /\ Shared!ProjectCalls # {} => \A b \in Calls : Shared!Home(b) = Shared!Home(c)
    BY SharedDeployed DEF Shared!Home, Shared!Target, Shared!ProjectCalls
  <1>1. /\ at[c] = "changed" /\ at'[c] = "saved" /\ \A b \in Calls \ {c} : at'[b] = at[b]
        /\ UNCHANGED <<mem, local, advisory>> /\ db' = Shared!Mirror(Shared!Home(c))
    BY <1>0 DEF Shared!TypeOK, Shared!Persist
  <1>2. SharedFreshMem(Shared!Home(c)) /\ c \in mem[Shared!Home(c)][Shared!Target(c)]
        /\ (Shared!Target(c) \in InsertOnly => db[Shared!Target(c)] = {})
    BY <1>1 DEF SharedMemOK
  <1>3. SharedLocksOK' BY <1>0, <1>1 DEF SharedLocksOK, SharedHolding
  <1>4. \A b \in Calls \ {c} : at'[b] \notin {"loaded", "changed"}
    BY <1>1 DEF SharedLocksOK, SharedHolding
  <1>5. /\ \A x \in Rows : db[x] \subseteq db'[x]
        /\ SharedFreshMem(Shared!Home(c))'
    BY <1>0, <1>1, <1>2, SharedMirrorKeeps DEF SharedFreshMem
  <1>6. SharedMemOK'
    <2>1. ASSUME NEW b \in Calls, Shared!ProjectCalls' # {} PROVE Shared!Home(b)' = Shared!Home(c)'
      BY <1>0, <2>1
    <2> QED BY <1>1, <1>4, <1>5, <2>1 DEF SharedMemOK, SharedFreshMem
  <1>7. c \in db'[Shared!Target(c)]
    BY <1>0, <1>1, <1>2 DEF Shared!Mirror, Shared!Kept
  <1>8. Shared!NoLostUpdate' BY <1>0, <1>1, <1>5, <1>7 DEF Shared!NoLostUpdate
  <1> QED BY <1>3, <1>6, <1>8

LEMMA SharedProjectStep ==
  ASSUME Shared!ConstantsOK, SharedWritersAgree, SharedIInv, UNCHANGED deployment, NEW c \in Calls, Shared!ProjectWrite(c)
  PROVE  SharedLocksOK' /\ SharedMemOK' /\ Shared!NoLostUpdate'
  <1> USE DEF Shared!ConstantsOK, SharedIInv, Shared!Go
  <1>0. /\ Shared!TypeOK
        /\ \A b \in Calls : /\ Shared!Home(b) \in Gateways /\ Shared!Target(b) \in Rows
                            /\ Shared!Home(b)' = Shared!Home(b) /\ Shared!Target(b)' = Shared!Target(b)
        /\ Shared!ProjectCalls' = Shared!ProjectCalls
        /\ Shared!Target(c) \notin ChatRows
        /\ \A b \in Calls : Shared!Home(b) = Shared!Home(c)
    BY SharedDeployed DEF Shared!Home, Shared!Target, Shared!ProjectCalls, Shared!ProjectWrite
  <1> PICK g \in Gateways, t \in Rows : g = Shared!Home(c) /\ t = Shared!Target(c)
    BY <1>0
  <1>1. /\ at[c] = "new" /\ at'[c] = "done" /\ \A b \in Calls \ {c} : at'[b] = at[b]
        /\ UNCHANGED <<local, advisory>>
        /\ mem' = [mem EXCEPT ![g][t] = @ \cup {c}]
        /\ db' = [x \in Rows |-> IF x = t THEN db[x] \cup {c} ELSE Shared!Mirror(g)[x]]
    BY <1>0 DEF Shared!TypeOK, Shared!ProjectWrite
  <1>2. SharedFreshMem(g) BY DEF SharedMemOK, Shared!ProjectWrite
  <1>3. SharedLocksOK' BY <1>0, <1>1 DEF SharedLocksOK, SharedHolding
  <1>4. \A b \in Calls : at[b] \notin SharedHolding /\ at'[b] \notin {"loaded", "changed"}
    <2>1. \A b \in Calls : local[Shared!Home(b)] # b
      BY <1>0 DEF Shared!ProjectWrite
    <2> QED BY <1>1, <2>1 DEF SharedLocksOK, SharedHolding
  <1>5. mem'[g] = [mem[g] EXCEPT ![t] = @ \cup {c}] /\ mem[g] \in [Rows -> SUBSET (Calls \cup {Chat})]
        /\ g \in Gateways /\ t \in Rows
    BY <1>0, <1>1 DEF Shared!TypeOK
  <1>6. /\ \A x \in Rows : db[x] \subseteq db'[x]
        /\ SharedFreshMem(g)'
        /\ c \in db'[t]
    <2>1. t \notin ChatRows BY <1>0
    <2>2. /\ \A x \in Rows : db[x] \subseteq Shared!Mirror(g)[x]
          /\ \A x \in Rows \ ChatRows : Shared!Mirror(g)[x] \subseteq mem[g][x]
          /\ \A x \in ChatRows :
               /\ Shared!Mirror(g)[x] = {} => mem[g][x] = {}
               /\ mem[g][x] = {} \/ x \in InsertOnly \/ Shared!Mirror(g)[x] \subseteq mem[g][x]
      BY <1>0, <1>2, <1>5, SharedMirrorKeeps
    <2>3. db'[t] = db[t] \cup {c} /\ \A x \in Rows \ {t} : db'[x] = Shared!Mirror(g)[x]
      BY <1>1, <1>5
    <2>4. mem'[g][t] = mem[g][t] \cup {c} /\ \A x \in Rows \ {t} : mem'[g][x] = mem[g][x]
      BY <1>5
    <2>6. \A x \in Rows \ ChatRows : db'[x] \subseteq mem'[g][x]
      BY <1>2, <1>5, <2>2, <2>3, <2>4 DEF SharedFreshMem
    <2>7. \A x \in ChatRows :
            /\ db'[x] = {} => mem'[g][x] = {}
            /\ mem'[g][x] = {} \/ x \in InsertOnly \/ db'[x] \subseteq mem'[g][x]
      BY <2>1, <2>2, <2>3, <2>4
    <2>8. SharedFreshMem(g)' BY <2>6, <2>7 DEF SharedFreshMem
    <2> QED BY <1>5, <2>2, <2>3, <2>8
  <1>7. SharedMemOK' BY <1>0, <1>4, <1>6 DEF SharedMemOK, SharedFreshMem
  <1>8. Shared!NoLostUpdate' BY <1>0, <1>1, <1>6 DEF Shared!NoLostUpdate
  <1> QED BY <1>3, <1>7, <1>8

\* What happens beside the calls.
LEMMA SharedOtherSteps ==
  ASSUME Shared!ConstantsOK, SharedWritersAgree, SharedIInv, UNCHANGED deployment,
         \/ \E x \in Rows : Shared!ChatInsert(x)
         \/ \E g \in Gateways : Shared!Crash(g)
         \/ Shared!LoseLock
  PROVE  SharedLocksOK' /\ SharedMemOK' /\ Shared!NoLostUpdate'
  <1> USE DEF Shared!ConstantsOK, SharedIInv
  <1>0. /\ Shared!TypeOK
        /\ \A b \in Calls : /\ Shared!Home(b) \in Gateways /\ Shared!Target(b) \in Rows
                            /\ Shared!Home(b)' = Shared!Home(b) /\ Shared!Target(b)' = Shared!Target(b)
        /\ Shared!ProjectCalls' = Shared!ProjectCalls
    BY SharedDeployed DEF Shared!Home, Shared!Target, Shared!ProjectCalls
  <1>1. ASSUME NEW x \in Rows, Shared!ChatInsert(x)
        PROVE SharedLocksOK' /\ SharedMemOK' /\ Shared!NoLostUpdate'
    <2>1. /\ UNCHANGED <<mem, local, advisory, at>> /\ db[x] = {} /\ x \in ChatRows
          /\ db'[x] = {Chat} /\ \A y \in Rows \ {x} : db'[y] = db[y]
      BY <1>0, <1>1 DEF Shared!ChatInsert, Shared!TypeOK
    <2>2. ASSUME NEW g \in Gateways, SharedFreshMem(g) PROVE SharedFreshMem(g)'
      BY <2>1, <2>2 DEF SharedFreshMem
    <2>3. ASSUME NEW b \in Calls, at[b] = "changed", Shared!Target(b) \in InsertOnly
          PROVE Shared!Target(b) # x
      <3>1. SharedFreshMem(Shared!Home(b)) /\ b \in mem[Shared!Home(b)][Shared!Target(b)]
        BY <2>3 DEF SharedMemOK
      <3> QED BY <2>1, <3>1 DEF SharedFreshMem
    <2>4. SharedLocksOK' BY <1>0, <2>1 DEF SharedLocksOK
    <2>5. SharedMemOK' 
      <3>1. \A b \in Calls : SharedFreshMem(Shared!Home(b)) => SharedFreshMem(Shared!Home(b))'
        BY <1>0, <2>2 DEF SharedFreshMem
      <3>2. \A b \in Calls : at'[b] = "changed" /\ Shared!Target(b)' \in InsertOnly => db'[Shared!Target(b)'] = {}
        BY <1>0, <2>1, <2>3 DEF SharedMemOK
      <3> QED BY <1>0, <2>1, <3>1, <3>2 DEF SharedMemOK
    <2>6. Shared!NoLostUpdate' BY <1>0, <2>1 DEF Shared!NoLostUpdate
    <2> QED BY <2>4, <2>5, <2>6
  <1>2. ASSUME NEW g \in Gateways, Shared!Crash(g)
        PROVE SharedLocksOK' /\ SharedMemOK' /\ Shared!NoLostUpdate'
    <2>1. /\ db' = db /\ mem'[g] = db /\ \A h \in Gateways \ {g} : mem'[h] = mem[h]
          /\ local'[g] = NoCall /\ \A h \in Gateways \ {g} : local'[h] = local[h]
      BY <1>0, <1>2 DEF Shared!Crash, Shared!TypeOK
    <2>2. \A b \in Calls :
            /\ Shared!Home(b) # g => at'[b] = at[b]
            /\ Shared!Home(b) = g => at'[b] \notin SharedHolding \cup {"waiting"}
            /\ at'[b] \in {"saved", "done"} => at[b] \in {"saved", "done"}
      BY <1>0, <1>2 DEF Shared!Crash, Shared!TypeOK, Shared!Busy, SharedHolding
    <2>3. SharedLocksOK'
      <3>1. \A b \in Calls : advisory = b /\ Shared!Home(b) # g => advisory' = b
        BY <1>2 DEF Shared!Crash
      <3> QED BY <1>0, <2>1, <2>2, <3>1 DEF SharedLocksOK
    <2>4. SharedFreshMem(g)' BY <1>0, <2>1 DEF SharedFreshMem, Shared!TypeOK
    <2>5. SharedMemOK'
      <3>1. \A b \in Calls : SharedFreshMem(Shared!Home(b)) \/ Shared!Home(b) = g => SharedFreshMem(Shared!Home(b))'
        BY <1>0, <2>1, <2>4 DEF SharedFreshMem
      <3> QED BY <1>0, <2>1, <2>2, <3>1 DEF SharedMemOK, SharedHolding
    <2>6. Shared!NoLostUpdate' BY <1>0, <2>1, <2>2 DEF Shared!NoLostUpdate
    <2> QED BY <2>3, <2>5, <2>6
  <1>3. ASSUME Shared!LoseLock PROVE FALSE
    BY <1>0, <1>3 DEF Shared!LoseLock, SharedWritersAgree, Shared!TypeOK
  <1> QED BY <1>1, <1>2, <1>3

LEMMA SharedNextIInv == ASSUME Shared!ConstantsOK, SharedWritersAgree, SharedIInv, [Shared!Next]_(Shared!vars)
                        PROVE SharedIInv'
  <1>1. CASE UNCHANGED Shared!vars
    BY <1>1 DEF SharedIInv, Shared!TypeOK, SharedLocksOK, SharedMemOK, SharedFreshMem, Shared!Home,
                Shared!Target, Shared!ProjectCalls, Shared!NoLostUpdate, Shared!vars
  <1>2. CASE Shared!Next
    <2>1. SharedLocksOK' /\ SharedMemOK' /\ Shared!NoLostUpdate'
      BY <1>2, SharedLockSteps, SharedMemorySteps, SharedPersistStep, SharedProjectStep, SharedOtherSteps
      DEF Shared!Next
    <2>2. Shared!TypeOK' BY <1>2, SharedNextTypes DEF SharedIInv
    <2> QED BY <2>1, <2>2 DEF SharedIInv
  <1> QED BY <1>1, <1>2

LEMMA SharedTypesHold == ASSUME Shared!ConstantsOK PROVE Shared!Spec => []Shared!TypeOK
  <1>1. Shared!Init => Shared!TypeOK BY SharedInitTypes
  <1>2. Shared!TypeOK /\ [Shared!Next]_(Shared!vars) => Shared!TypeOK' BY SharedNextTypes
  <1> QED BY <1>1, <1>2, PTL DEF Shared!Spec

LEMMA SharedNoLostUpdateHolds == ASSUME Shared!ConstantsOK, SharedWritersAgree
                                 PROVE Shared!Spec => []Shared!NoLostUpdate
  <1>1. Shared!Init => SharedIInv BY SharedInitIInv
  <1>2. SharedIInv /\ [Shared!Next]_(Shared!vars) => SharedIInv' BY SharedNextIInv
  <1>3. SharedIInv => Shared!NoLostUpdate BY DEF SharedIInv
  <1> QED BY <1>1, <1>2, <1>3, PTL DEF Shared!Spec

-----------------------------------------------------------------------------
(* The composition *)

\* One component moves, and it takes a step of its own.
LEMMA ComponentSteps ==
  ASSUME [Next]_vars
  PROVE  /\ [Task!Next]_(Task!vars) /\ [Device!Next]_(Device!vars)
         /\ [Sync!Next]_(Sync!vars) /\ [Shared!Next]_(Shared!vars)
  <1>1. UNCHANGED taskVars => UNCHANGED Task!vars
    BY DEF taskVars, Task!vars, Task!store, Task!desktops
  <1>2. UNCHANGED deviceVars => UNCHANGED Device!vars
    BY DEF deviceVars, Device!vars, Device!device, Device!enrolling, Device!requests
  <1>3. UNCHANGED syncVars => UNCHANGED Sync!vars
    BY DEF syncVars, Sync!vars, Sync!outbox, Sync!loop, Sync!receiver
  <1>4. UNCHANGED sharedVars => UNCHANGED Shared!vars
    BY DEF sharedVars, Shared!vars
  <1> QED BY <1>1, <1>2, <1>3, <1>4 DEF Next, TaskStep, DeviceStep, SyncStep, SharedStep, vars

LEMMA Components == Spec => Task!Spec /\ Device!Spec /\ Sync!Spec /\ Shared!Spec
  <1>1. Init => Task!Init /\ Device!Init /\ Sync!Init /\ Shared!Init BY DEF Init
  <1>2. [Next]_vars => /\ [Task!Next]_(Task!vars) /\ [Device!Next]_(Device!vars)
                       /\ [Sync!Next]_(Sync!vars) /\ [Shared!Next]_(Shared!vars)
    BY ComponentSteps
  <1> QED BY <1>1, <1>2, PTL DEF Spec, Task!Spec, Device!Spec, Sync!Spec, Shared!Spec

\* The tables, the devices, the outboxes and the gateways have their types.
THEOREM TypesHold == Spec => []TypeOK
  <1>1. Spec => []TaskIInv BY ConstantsAssumption, TaskIInvHolds, Components, PTL
  <1>2. Spec => []DeviceIInv BY ConstantsAssumption, DeviceIInvHolds, Components, PTL
  <1>3. Spec => []SyncIInv BY ConstantsAssumption, SyncIInvHolds, Components, PTL
  <1>4. Spec => []Shared!TypeOK BY ConstantsAssumption, SharedTypesHold, Components, PTL
  <1>5. TaskIInv /\ DeviceIInv /\ SyncIInv /\ Shared!TypeOK => TypeOK
    BY DEF TaskIInv, DeviceIInv, SyncIInv, TypeOK
  <1> QED BY <1>1, <1>2, <1>3, <1>4, <1>5, PTL

\* A desktop only ever executes what an owner approved.
THEOREM ExecutedWasApprovedHolds == Spec => []Task!ExecutedWasApproved
  <1>1. TaskIInv => Task!ExecutedWasApproved BY DEF TaskIInv
  <1> QED BY <1>1, ConstantsAssumption, TaskIInvHolds, Components, PTL

\* Two desktops that both count on their lease execute different tasks.
THEOREM OneDesktopPerTaskHolds == Spec => []OneDesktopPerTask
  <1>1. TaskIInv => OneDesktopPerTask BY DEF TaskIInv, OneDesktopPerTask
  <1> QED BY <1>1, ConstantsAssumption, TaskIInvHolds, Components, PTL

\* A desktop counts on no more lease than the store grants it.
THEOREM LeaseCoversHolds == Spec => []Task!LeaseCovers
  <1>1. TaskIInv => Task!LeaseCovers BY DEF TaskIInv, TaskLeaseOK, TaskCovered, Task!LeaseCovers
  <1> QED BY <1>1, ConstantsAssumption, TaskIInvHolds, Components, PTL

\* An ended task ends differently or starts again only by an operator, or after some
\* desktop went on past its lease.
THEOREM OutcomeNeedsCauseHolds == Spec => OutcomeNeedsCause
  <1>1. TaskIInv /\ [Task!Next]_(Task!vars) => [TaskOutcomeStep]_(Task!vars)
    BY ConstantsAssumption, TaskNextIInv
  <1>2. OutcomeNeedsCause <=> [][TaskOutcomeStep]_(Task!vars)
    BY DEF OutcomeNeedsCause, Task!OutcomeNeedsCause, TaskOutcomeStep
  <1> QED BY <1>1, <1>2, ConstantsAssumption, TaskIInvHolds, Components, PTL DEF Task!Spec

\* A device is trusted only with a key whose owner has answered a challenge.
THEOREM KeyProvedHolds == Spec => []Device!KeyProved
  <1>1. DeviceIInv => Device!KeyProved BY DEF DeviceIInv
  <1> QED BY <1>1, ConstantsAssumption, DeviceIInvHolds, Components, PTL

\* As long as the nonces survive, the store accepts a request once, whatever the
\* clock of the device says and however often the request comes.
THEOREM AcceptedOnceHolds == ASSUME Durable PROVE Spec => []AcceptedOnce
  <1>1. DeviceOInv => AcceptedOnce BY DEF DeviceOInv, AcceptedOnce
  <1> QED BY <1>1, ConstantsAssumption, DeviceOInvHolds, Components, PTL

\* A revoked device gets nothing more: no request accepted, no key changed.
THEOREM RevokedStaysOutHolds == Spec => RevokedStaysOut
  <1>1. DeviceIInv /\ [Device!Next]_(Device!vars) =>
          (revokedAt => accepted' = accepted /\ key' = key /\ approvalKey' = approvalKey)
    BY ConstantsAssumption, DeviceRevokedStep
  <1>2. RevokedStaysOut <=>
          [][revokedAt => accepted' = accepted /\ key' = key /\ approvalKey' = approvalKey]_(Device!vars)
    BY DEF RevokedStaysOut, Device!RevokedStaysOut
  <1> QED BY <1>1, <1>2, ConstantsAssumption, DeviceIInvHolds, Components, PTL DEF Device!Spec

\* What the sender counts as synced exists at the receiver, whatever was lost,
\* repeated or crashed between its inbox, its effect and the answer.
THEOREM SyncedWasAppliedHolds == Spec => []SyncedWasApplied
  <1>1. SyncIInv => SyncedWasApplied BY DEF SyncIInv, SyncedWasApplied
  <1> QED BY <1>1, ConstantsAssumption, SyncIInvHolds, Components, PTL

\* No gateway loses an update of another, as long as every write goes through the
\* advisory lock, or one gateway serves all, and no session is lost with its lock.
THEOREM NoLostUpdateHolds == ASSUME SharedWritersAgree PROVE Spec => []NoLostUpdate
  <1>1. Shared!Spec => []Shared!NoLostUpdate BY ConstantsAssumption, SharedNoLostUpdateHolds
  <1> QED BY <1>1, Components, PTL DEF NoLostUpdate
=============================================================================
