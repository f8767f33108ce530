---------------------------- MODULE ProjectStore ----------------------------
(***************************************************************************)
(* The two files of a gateway without a database: the project registry with*)
(* its rotated backups and its corruption marker (GatewayProjectStore in   *)
(* appsync/projects.py) and the AppSync state (appsync/strict_json_store.py*)
(* over AppSyncStore), which keeps the answers by idempotency key.         *)
(* Gateways on one directory and the script recover_project_store.py share *)
(* the files under a file lock.                                            *)
(*                                                                         *)
(* A file's content is the set of requests whose effect it shows.  Renames *)
(* and writes by way of a temporary file are atomic; copying is not.  What *)
(* only reads or raises at once (any request while the marker is there, a  *)
(* lock that times out) changes nothing and is left out.                   *)
(***************************************************************************)
EXTENDS Integers, FiniteSets

CONSTANTS
    Gateways,
    Script,        \* the recovery script
    NoProc,
    Requests,      \* writes of projects, each with an idempotency key
    Once,          \* those refused when their effect is there: create, delete
    NoRequest,     \* stands for a recovery
    Backups,       \* PROJECT_STORE_BACKUP_COUNT
    MaxFaults,     \* bound: processes that die, calls of the system that fail
    MaxDamages     \* bound: files that become unreadable

Procs == Gateways \cup {Script}
None == {"no file"}
Damaged == {"damaged"}

ConstantsOK ==
    /\ Script \notin Gateways /\ NoProc \notin Procs
    /\ Once \subseteq Requests /\ NoRequest \notin Requests
    /\ {"no file", "damaged"} \cap Requests = {}
    /\ Backups \in Nat \ {0} /\ MaxFaults \in Nat /\ MaxDamages \in Nat

VARIABLES
    primary,    \* the project file
    bak,        \* the rotated backups, the newest first
    marker,     \* the corruption marker exists
    state,      \* the AppSync state file
    lock,       \* the file lock
    pc, request, slot,   \* of each process: where it is, for which request or backup
    data,       \* what it is about to write
    keys,       \* self.idempotency of its AppSync store
    answered,   \* history: the requests answered with their project
    truth,      \* history: the content last put in place
    rolledBack, \* history: a recovery put it in place
    saved,      \* history: the AppSync state was written with an answer in it
    rotations,  \* history: rotations completed, up to Backups
    losses,     \* history: rotations cut short, backups damaged or copied from a damaged file
    faults, damages

projects == <<primary, bak, marker, truth, rolledBack, rotations>>
process == <<lock, pc, request, slot, data, keys>>
bounds == <<losses, faults, damages>>
vars == <<projects, state, saved, process, answered, bounds>>

Content(file) == IF file \in {None, Damaged} THEN {} ELSE file
Readable(file) == file \notin {None, Damaged}
Valid == {i \in 1..Backups : Readable(bak[i])}
Goto(p, l) == pc' = [pc EXCEPT ![p] = l]

\* The request ends; the script ends with it.
Leave(p) ==
    /\ lock' = NoProc
    /\ Goto(p, IF p = Script THEN "down" ELSE "idle")
    /\ request' = [request EXCEPT ![p] = NoRequest]
    /\ slot' = [slot EXCEPT ![p] = 0]
    /\ data' = [data EXCEPT ![p] = {}]

Init ==
    /\ primary = None /\ bak = [i \in 1..Backups |-> None] /\ marker = FALSE
    /\ state = None /\ lock = NoProc
    /\ pc = [p \in Procs |-> "down"] /\ request = [p \in Procs |-> NoRequest]
    /\ slot = [p \in Procs |-> 0] /\ data = [p \in Procs |-> {}]
    /\ keys = [p \in Procs |-> {}] /\ answered = {}
    /\ truth = {} /\ rolledBack = FALSE /\ saved = FALSE
    /\ rotations = 0 /\ losses = 0 /\ faults = 0 /\ damages = 0

----------------------------------------------------------------------------
(* Processes start *)

\* A gateway loads the AppSync state; a damaged one is moved away and the start fails.
\* The script, run when there is a marker, loads it with AppSyncStore, which takes a
\* damaged file for an empty one.
Start(p) ==
    /\ pc[p] = "down" /\ (p = Script => marker)
    /\ IF p \in Gateways /\ state = Damaged
       THEN /\ state' = None
            /\ UNCHANGED <<pc, keys>>
       ELSE /\ Goto(p, "idle")
            /\ keys' = [keys EXCEPT ![p] = Content(state)]
            /\ UNCHANGED state
    /\ UNCHANGED <<projects, saved, lock, request, slot, data, answered, bounds>>

----------------------------------------------------------------------------
(* A write of a project: create_project, update_project, delete_project *)

\* Mutant of Locked: _local_store_guard takes only the lock of the process.
LockedInProcess(p) == TRUE
\* _local_store_guard: the process is free, and so is the file.
Locked(p) == lock = NoProc

Hold(p, r, l) ==
    /\ lock' = p /\ Goto(p, l)
    /\ request' = [request EXCEPT ![p] = r]

Served(p, r) ==
    /\ p \in Gateways /\ pc[p] = "idle" /\ Locked(p) /\ ~marker

\* The key is known: the answer of the first time.
Replay(p, r) ==
    /\ Served(p, r) /\ r \in keys[p]
    /\ answered' = answered \cup {r}
    /\ UNCHANGED <<projects, state, saved, process, bounds>>

\* The new content, and _persist up to its temporary file.
Write(p, r) ==
    /\ Served(p, r) /\ primary # Damaged
    /\ r \notin keys[p] /\ ~(r \in Once /\ r \in Content(primary))
    /\ data' = [data EXCEPT ![p] = Content(primary) \cup {r}]
    /\ slot' = [slot EXCEPT ![p] = Backups]
    /\ Hold(p, r, IF primary = None THEN "replacing" ELSE "rotating")
    /\ UNCHANGED <<projects, state, saved, keys, answered, bounds>>

\* Mutant of Shifted: the oldest backup is dropped and the others stay where they are.
ShiftedNot(i) == IF i = Backups THEN [bak EXCEPT ![i] = None] ELSE bak
\* _rotate_backups: backup i - 1 becomes backup i; the oldest has been unlinked.
Shifted(i) ==
    IF bak[i - 1] # None THEN [bak EXCEPT ![i] = bak[i - 1], ![i - 1] = None]
    ELSE IF i = Backups THEN [bak EXCEPT ![i] = None] ELSE bak
Shift(p) ==
    /\ pc[p] = "rotating" /\ slot[p] > 1
    /\ bak' = Shifted(slot[p])
    /\ slot' = [slot EXCEPT ![p] = @ - 1]
    /\ UNCHANGED <<primary, marker, truth, rolledBack, rotations, state, saved,
                   lock, pc, request, data, keys, answered, bounds>>
\* shutil.copy2 truncates its target and fills it.
Copy(p) ==
    /\ pc[p] = "rotating" /\ slot[p] = 1
    /\ bak' = [bak EXCEPT ![1] = Damaged]
    /\ Goto(p, "copying")
    /\ UNCHANGED <<primary, marker, truth, rolledBack, rotations, state, saved,
                   lock, request, slot, data, keys, answered, bounds>>
Copied(p) ==
    /\ pc[p] = "copying"
    /\ bak' = [bak EXCEPT ![1] = primary]
    /\ rotations' = IF rotations < Backups THEN rotations + 1 ELSE rotations
    /\ losses' = IF primary = Damaged THEN losses + 1 ELSE losses
    /\ Goto(p, "replacing")
    /\ UNCHANGED <<primary, marker, truth, rolledBack, state, saved,
                   lock, request, slot, data, keys, answered, faults, damages>>

\* os.replace of the temporary file.
Replace(p) ==
    /\ pc[p] = "replacing"
    /\ primary' = data[p] /\ truth' = data[p]
    /\ rolledBack' = (rolledBack \/ request[p] = NoRequest)
    /\ Goto(p, IF request[p] = NoRequest THEN "unmarking" ELSE "telling")
    /\ UNCHANGED <<bak, marker, rotations, state, saved,
                   lock, request, slot, data, keys, answered, bounds>>

\* _persist of the AppSync store writes all it holds.
SaveState(p) == state' = keys[p] /\ saved' = (saved \/ keys[p] # {})

\* _event, then _remember_idempotency, each with its _persist.
Tell(p) ==
    /\ pc[p] = "telling" /\ SaveState(p)
    /\ keys' = [keys EXCEPT ![p] = @ \cup {request[p]}]
    /\ Goto(p, "remembering")
    /\ UNCHANGED <<projects, lock, request, slot, data, answered, bounds>>
Remember(p) ==
    /\ pc[p] = "remembering" /\ SaveState(p)
    /\ answered' = answered \cup {request[p]}
    /\ Leave(p)
    /\ UNCHANGED <<projects, keys, bounds>>

----------------------------------------------------------------------------
(* A damaged project file *)

\* _load cannot read the file.
Detect(p, r) ==
    /\ Served(p, r) /\ primary = Damaged /\ r \notin keys[p]
    /\ Hold(p, r, "marking")
    /\ UNCHANGED <<projects, state, saved, slot, data, keys, answered, bounds>>

\* Mutant of Mark: the file is moved before the marker is written.
MarkLater(p) ==
    /\ pc[p] = "marking"
    /\ primary' = None /\ Goto(p, "moving")
    /\ UNCHANGED <<bak, marker, truth, rolledBack, rotations, state, saved,
                   lock, request, slot, data, keys, answered, bounds>>
\* _quarantine_corrupt_store: the marker, then the move, which may fail, then the event.
Mark(p) ==
    /\ pc[p] = "marking"
    /\ marker' = TRUE /\ Goto(p, "moving")
    /\ UNCHANGED <<primary, bak, truth, rolledBack, rotations, state, saved,
                   lock, request, slot, data, keys, answered, bounds>>
Move(p) ==
    /\ pc[p] = "moving"
    /\ \/ primary' = None /\ UNCHANGED faults
       \/ faults < MaxFaults /\ faults' = faults + 1 /\ UNCHANGED primary
    /\ Goto(p, "reporting")
    /\ UNCHANGED <<bak, marker, truth, rolledBack, rotations, state, saved,
                   lock, request, slot, data, keys, answered, losses, damages>>
Report(p) ==
    /\ pc[p] = "reporting" /\ SaveState(p)
    /\ Leave(p)
    /\ UNCHANGED <<projects, keys, answered, bounds>>

\* recover_from_backup, by the route or the script: the newest valid backup, or the
\* one that is asked for; what is left of the primary is moved away.
Recover(p, i) ==
    /\ pc[p] = "idle" /\ Locked(p) /\ marker
    /\ i \in Valid
    /\ data' = [data EXCEPT ![p] = bak[i]]
    /\ primary' = None
    /\ Hold(p, NoRequest, "replacing")
    /\ UNCHANGED <<bak, marker, truth, rolledBack, rotations, state, saved,
                   slot, keys, answered, bounds>>

\* What was written is read back.
Verified(p) == primary = data[p]
Unmark(p) ==
    /\ pc[p] = "unmarking"
    /\ IF Verified(p)
       THEN /\ marker' = FALSE /\ Goto(p, "reporting")
            /\ UNCHANGED <<lock, request, slot, data>>
       ELSE Leave(p) /\ UNCHANGED marker
    /\ UNCHANGED <<primary, bak, truth, rolledBack, rotations, state, saved,
                   keys, answered, bounds>>
\* Somebody else has recovered: the script ends.
NothingToDo ==
    /\ pc[Script] = "idle" /\ ~marker /\ Goto(Script, "down")
    /\ UNCHANGED <<projects, state, saved, lock, request, slot, data, keys, answered, bounds>>

----------------------------------------------------------------------------
(* Faults *)

Cut(p) ==
    IF pc[p] = "copying" \/ (pc[p] = "rotating" /\ slot[p] < Backups) THEN 1 ELSE 0

\* A call of the system fails (a full disk) and the request with it.
Fail(p) ==
    /\ faults < MaxFaults /\ pc[p] \notin {"down", "idle", "moving"}
    /\ Leave(p)
    /\ faults' = faults + 1 /\ losses' = losses + Cut(p)
    /\ UNCHANGED <<projects, state, saved, keys, answered, damages>>
\* A process dies; the system releases its lock.
Die(p) ==
    /\ faults < MaxFaults /\ pc[p] # "down"
    /\ Goto(p, "down") /\ lock' = IF lock = p THEN NoProc ELSE lock
    /\ request' = [request EXCEPT ![p] = NoRequest]
    /\ slot' = [slot EXCEPT ![p] = 0]
    /\ data' = [data EXCEPT ![p] = {}] /\ keys' = [keys EXCEPT ![p] = {}]
    /\ faults' = faults + 1 /\ losses' = losses + Cut(p)
    /\ UNCHANGED <<projects, state, saved, answered, damages>>
\* A file becomes unreadable.
Damage ==
    /\ damages < MaxDamages /\ damages' = damages + 1
    /\ \/ /\ Readable(primary) /\ primary' = Damaged /\ UNCHANGED <<bak, state, losses>>
       \/ /\ \E i \in Valid : bak' = [bak EXCEPT ![i] = Damaged]
          /\ losses' = losses + 1 /\ UNCHANGED <<primary, state>>
       \/ /\ Readable(state) /\ state' = Damaged /\ UNCHANGED <<primary, bak, losses>>
    /\ UNCHANGED <<marker, truth, rolledBack, rotations, saved, process, answered, faults>>

Next ==
    \/ \E p \in Procs :
        \/ Start(p) \/ Shift(p) \/ Copy(p) \/ Copied(p) \/ Replace(p)
        \/ Tell(p) \/ Remember(p) \/ Mark(p) \/ Move(p) \/ Report(p) \/ Unmark(p)
        \/ Fail(p) \/ Die(p)
        \/ \E i \in 1..Backups : Recover(p, i)
        \/ \E r \in Requests : Replay(p, r) \/ Write(p, r) \/ Detect(p, r)
    \/ NothingToDo \/ Damage

Spec == Init /\ [][Next]_vars

----------------------------------------------------------------------------
Files == (SUBSET Requests) \cup {None, Damaged}
TypeOK ==
    /\ primary \in Files /\ bak \in [1..Backups -> Files] /\ marker \in BOOLEAN
    /\ state \in Files /\ lock \in Procs \cup {NoProc}
    /\ pc \in [Procs -> {"down", "idle", "rotating", "copying", "replacing", "telling",
                         "remembering", "marking", "moving", "reporting", "unmarking"}]
    /\ request \in [Procs -> Requests \cup {NoRequest}] /\ slot \in [Procs -> 0..Backups]
    /\ data \in [Procs -> SUBSET Requests] /\ keys \in [Procs -> SUBSET Requests]
    /\ answered \in SUBSET Requests
    /\ truth \in SUBSET Requests /\ rolledBack \in BOOLEAN /\ saved \in BOOLEAN
    /\ rotations \in 0..Backups /\ losses \in 0..MaxFaults + MaxDamages
    /\ faults \in 0..MaxFaults /\ damages \in 0..MaxDamages

\* While the marker is not there, the project file is the content last put in place or
\* one that the next load refuses; it is missing only if nothing was ever put in place.
FailsClosed ==
    ~marker => primary \in {Damaged, IF truth = {} THEN None ELSE truth}

\* While the marker is there, so is a backup to recover from, once more rotations were
\* completed than backups were lost.
BackupsSuffice == marker => Valid # {} \/ rotations <= losses

\* A write that was answered is in the project file, whichever processes write at the
\* same time, unless a recovery put an older content in place.
AnsweredIsKept == answered \subseteq truth \/ rolledBack

\* What strict_json_store.py and docs/INDUSTRIAL_P0_P1_P2_REMEDIATION.md promise: a
\* gateway does not start on an empty AppSync state once there was another.
StateFailsClosed ==
    [][\A p \in Gateways : pc[p] = "down" /\ pc'[p] = "idle" => ~saved \/ state # None]_vars
=============================================================================
