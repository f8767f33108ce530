---------------------------- MODULE RuntimeTask ----------------------------
(***************************************************************************)
(* Desktop tasks of the AppSync store: an operator's message becomes a     *)
(* task that waits for an owner's approval, a desktop claims it under a    *)
(* lease and reports how it ended (appsync/store.py; the Postgres store    *)
(* does the same in one statement per call, under an advisory lock).       *)
(*                                                                         *)
(* Only tasks with requires_desktop_runtime are here, those a desktop may  *)
(* be given.  attempt_count is left out: nothing reads it.                 *)
(***************************************************************************)
EXTENDS Integers

CONSTANTS
    Tasks,       \* tasks the operators create
    Devices,     \* desktops, each running one worker cycle
    NoDevice,
    NoTask,
    Lease,       \* lease_seconds, in ticks
    Window,      \* ticks an approval may be decided in (900 s)
    MaxEdits,    \* bound: status writes of operators
    MaxLosses    \* bound: lost replies and desktops that are closed

ConstantsOK ==
    /\ NoDevice \notin Devices /\ NoTask \notin Tasks
    /\ Lease \in Nat \ {0} /\ Window \in Nat /\ MaxEdits \in Nat /\ MaxLosses \in Nat

Statuses == {"none", "queued", "running", "blocked", "completed", "failed", "cancelled"}
Ended == {"completed", "failed", "cancelled"}

VARIABLES
    created,    \* tasks created so far
    born,       \* created_at of each task, 0 when there is no such task
    status,     \* TaskRecord.status
    approval,   \* status of the task's ApprovalRecord
    window,     \* ticks until the approval's expires_at
    holder,     \* claimed_by_device_id
    lease,      \* ticks until lease_expires_at, 0 when there is none or it is over
    doing,      \* the task a desktop executes
    left,       \* ticks of its lease the desktop still counts on
    edited,     \* history: an operator wrote the status since the task was created
    overran,    \* history: a desktop executed the task past its lease
    edits, losses

store == <<created, born, status, approval, window, holder, lease>>
desktops == <<doing, left>>
vars == <<store, desktops, edited, overran, edits, losses>>

Less(n) == IF n = 0 THEN 0 ELSE n - 1

----------------------------------------------------------------------------
Init ==
    /\ created = 0
    /\ born = [t \in Tasks |-> 0]
    /\ status = [t \in Tasks |-> "none"]
    /\ approval = [t \in Tasks |-> "none"]
    /\ window = [t \in Tasks |-> 0]
    /\ holder = [t \in Tasks |-> NoDevice]
    /\ lease = [t \in Tasks |-> 0]
    /\ doing = [d \in Devices |-> NoTask]
    /\ left = [d \in Devices |-> 0]
    /\ edited = [t \in Tasks |-> FALSE]
    /\ overran = [t \in Tasks |-> FALSE]
    /\ edits = 0 /\ losses = 0

\* add_message_and_task: a desktop task is blocked until its approval is decided.
AddTask(t) ==
    /\ status[t] = "none"
    /\ created' = created + 1
    /\ born' = [born EXCEPT ![t] = created + 1]
    /\ status' = [status EXCEPT ![t] = "blocked"]
    /\ approval' = [approval EXCEPT ![t] = "pending"]
    /\ window' = [window EXCEPT ![t] = Window]
    /\ UNCHANGED <<holder, lease, desktops, edited, overran, edits, losses>>

\* decide_approval: too late it only marks the approval expired; in time it
\* sets the status of the task, whatever that has become in the meantime.
DecideApproval(t, decision) ==
    /\ approval[t] = "pending"
    /\ IF window[t] = 0
       THEN approval' = [approval EXCEPT ![t] = "expired"] /\ UNCHANGED status
       ELSE /\ approval' = [approval EXCEPT ![t] = decision]
            /\ status' = [status EXCEPT ![t] =
                            IF decision = "approved" THEN "queued" ELSE "cancelled"]
    /\ UNCHANGED <<created, born, window, holder, lease, desktops, edited, overran, edits, losses>>

\* Mutants of Claimable.
ClaimableLeased(t) == status[t] \in {"queued", "running"} /\ approval[t] = "approved"
ClaimableQueued(t) == status[t] = "queued" /\ approval[t] = "approved"
ClaimableFailed(t) ==
    /\ status[t] \in {"queued", "running", "failed"} /\ approval[t] = "approved"
    /\ status[t] = "running" => lease[t] = 0

\* What claim_next_task may give away.
Claimable(t) ==
    /\ status[t] \in {"queued", "running"}
    /\ status[t] = "running" => lease[t] = 0
    /\ approval[t] = "approved"

\* ORDER BY created_at.
Oldest(t) == Claimable(t) /\ \A u \in Tasks : Claimable(u) => born[t] <= born[u]

\* claim_next_task gives the oldest claimable task to the desktop d.
GiveTo(d, t) ==
    /\ Oldest(t)
    /\ status' = [status EXCEPT ![t] = "running"]
    /\ holder' = [holder EXCEPT ![t] = d]
    /\ lease' = [lease EXCEPT ![t] = Lease]
    /\ UNCHANGED <<created, born, approval, window>>

\* A worker cycle claims a task and executes it; a desktop is busy meanwhile.
Claim(d, t) ==
    /\ doing[d] = NoTask
    /\ GiveTo(d, t)
    /\ doing' = [doing EXCEPT ![d] = t]
    /\ left' = [left EXCEPT ![d] = Lease]
    /\ UNCHANGED <<edited, overran, edits, losses>>

\* The store gives the task away and the reply, or the desktop, is lost.
ClaimLost(d, t) ==
    /\ losses < MaxLosses
    /\ doing[d] = NoTask
    /\ GiveTo(d, t)
    /\ losses' = losses + 1
    /\ UNCHANGED <<desktops, edited, overran, edits>>

\* renew_task_lease: while the row is running and still names the desktop.
RenewTaskLease(d) ==
    /\ doing[d] # NoTask
    /\ holder[doing[d]] = d /\ status[doing[d]] = "running"
    /\ lease' = [lease EXCEPT ![doing[d]] = Lease]
    /\ left' = [left EXCEPT ![d] = Lease]
    /\ UNCHANGED <<created, born, status, approval, window, holder, doing, edited, overran, edits, losses>>

\* update_task_status: no look at the status, the lease or the holder.
UpdateTaskStatus(t, s) ==
    /\ status' = [status EXCEPT ![t] = s]
    /\ lease' = [lease EXCEPT ![t] = IF s \in Ended THEN 0 ELSE @]
    /\ UNCHANGED <<created, born, approval, window, holder>>

Idle(d) == doing' = [doing EXCEPT ![d] = NoTask] /\ left' = [left EXCEPT ![d] = 0]

\* The end of executeRuntimeTask is reported; or it is not, and the next
\* cycle of the desktop starts without the task.
Finish(d, s) ==
    /\ doing[d] # NoTask
    /\ UpdateTaskStatus(doing[d], s)
    /\ Idle(d)
    /\ UNCHANGED <<edited, overran, edits, losses>>
FinishLost(d) ==
    /\ losses < MaxLosses
    /\ doing[d] # NoTask
    /\ Idle(d)
    /\ losses' = losses + 1
    /\ UNCHANGED <<store, edited, overran, edits>>

\* POST /app/tasks/{id}/status of an operator.
Edit(t, s) ==
    /\ edits < MaxEdits
    /\ status[t] # "none"
    /\ UpdateTaskStatus(t, s)
    /\ edited' = [edited EXCEPT ![t] = TRUE]
    /\ edits' = edits + 1
    /\ UNCHANGED <<desktops, overran, losses>>

Tick ==
    /\ window' = [t \in Tasks |-> Less(window[t])]
    /\ lease' = [t \in Tasks |-> Less(lease[t])]
    /\ left' = [d \in Devices |-> Less(left[d])]
    /\ overran' = [t \in Tasks |-> overran[t] \/ \E d \in Devices : doing[d] = t /\ left[d] <= 1]
    /\ UNCHANGED <<created, born, status, approval, holder, doing, edited, edits, losses>>

Next ==
    \/ \E t \in Tasks : AddTask(t)
    \/ \E t \in Tasks, v \in {"approved", "rejected"} : DecideApproval(t, v)
    \/ \E d \in Devices, t \in Tasks : Claim(d, t) \/ ClaimLost(d, t)
    \/ \E d \in Devices : RenewTaskLease(d) \/ FinishLost(d)
    \/ \E d \in Devices, s \in {"completed", "failed"} : Finish(d, s)
    \/ \E t \in Tasks, s \in Statuses \ {"none"} : Edit(t, s)
    \/ Tick

Spec == Init /\ [][Next]_vars

\* Desktops poll, what they execute ends, and the clock moves.
Fairness ==
    /\ WF_vars(Tick)
    /\ \A d \in Devices :
        /\ WF_vars(\E t \in Tasks : Claim(d, t))
        /\ WF_vars(\E s \in {"completed", "failed"} : Finish(d, s))

----------------------------------------------------------------------------
TypeOK ==
    /\ created \in Nat /\ born \in [Tasks -> 0..created]
    /\ status \in [Tasks -> Statuses]
    /\ approval \in [Tasks -> {"none", "pending", "approved", "rejected", "expired"}]
    /\ window \in [Tasks -> 0..Window]
    /\ holder \in [Tasks -> Devices \cup {NoDevice}]
    /\ lease \in [Tasks -> 0..Lease] /\ left \in [Devices -> 0..Lease]
    /\ doing \in [Devices -> Tasks \cup {NoTask}]
    /\ edited \in [Tasks -> BOOLEAN] /\ overran \in [Tasks -> BOOLEAN]
    /\ edits \in 0..MaxEdits /\ losses \in 0..MaxLosses

\* A desktop only ever executes what an owner approved, whatever statuses
\* operators write over a blocked, rejected or expired task.
ExecutedWasApproved == \A d \in Devices : doing[d] # NoTask => approval[doing[d]] = "approved"

\* Two desktops that both count on their lease execute different tasks, unless
\* an operator rewrote the status ("a second runtime cannot take the same task
\* until the lease expires or the first runtime finishes/fails it").
OneDesktopPerTask ==
    \A d, e \in Devices :
        /\ d # e /\ doing[d] = doing[e] /\ doing[d] # NoTask
        /\ left[d] > 0 /\ left[e] > 0
        => edited[doing[d]]

\* A desktop counts on no more lease than the store grants it.
LeaseCovers ==
    \A d \in Devices : LET t == doing[d] IN
        t # NoTask /\ left[d] > 0 /\ ~edited[t] /\ ~overran[t] => holder[t] = d /\ lease[t] >= left[d]

\* An ended task ends differently or starts again only by an operator, or
\* after some desktop went on past its lease.
OutcomeNeedsCause ==
    [][\A t \in Tasks :
        status[t] \in Ended /\ status'[t] # status[t] => edited'[t] \/ overran[t]]_vars

\* An approved task comes to an end, however many desktops are lost with it,
\* unless operators move it about.
ApprovedEnds ==
    \A t \in Tasks :
        approval[t] = "approved" ~> status[t] \in Ended \/ edited[t]
=============================================================================
