---------------------------- MODULE ReleaseSlots ----------------------------
(* Signed runtime updates: the release slots, their links, and the runner   *)
(* that stages and activates a release (self_upgrade/auto_update_hardened). *)
(*                                                                          *)
(* Version 0 is the release that was installed by hand; the others come in  *)
(* "<version>-candidate" directories.  One process updates; it may die      *)
(* between any two steps, and what starts next is what current points to.   *)
(* What is offered is verified before (manifest, signature, artifact, SBOM: *)
(* a verdict that changes no slot); health checks are required and rollback *)
(* on failure is on, as by default.                                         *)
EXTENDS Integers

CONSTANTS
    Newest,     \* versions 1..Newest are published
    MaxRuns     \* bound: runs of the updater

ConstantsOK == Newest \in Nat \ {0} /\ MaxRuns \in Nat

Published == 1..Newest
Versions == 0..Newest
NoRelease == -1

VARIABLES
    dir,        \* the directory of each version: "absent", "partial", "complete"
    current, previous, candidate,   \* what the links point to
    running,    \* the version of the process, NoRelease when it cannot start
    stage,      \* where the run is, "idle" between runs
    target,     \* the version it installs
    before,     \* what current pointed to when it was activated
    checked,    \* history: versions that passed a health check since they were unpacked
    accidents,  \* history: versions in current that are excused, see CurrentIsChecked
    runs

vars == <<dir, current, previous, candidate, running, stage, target, before, checked, accidents, runs>>

TypeOK ==
    /\ dir \in [Versions -> {"absent", "partial", "complete"}]
    /\ current \in Versions \cup {NoRelease} /\ previous \in Versions \cup {NoRelease}
    /\ candidate \in Published \cup {NoRelease} /\ running \in Versions \cup {NoRelease}
    /\ stage \in {"idle", "cleared", "unpacked", "staged", "saved", "switched", "unhealthy"}
    /\ target \in Published \cup {NoRelease} /\ before \in Versions \cup {NoRelease}
    /\ checked \subseteq Published /\ accidents \subseteq Published /\ runs \in 0..MaxRuns

\* The first release was installed in a slot, or outside of them.
Init ==
    /\ \/ current = 0 /\ dir = [v \in Versions |-> IF v = 0 THEN "complete" ELSE "absent"]
       \/ current = NoRelease /\ dir = [v \in Versions |-> "absent"]
    /\ previous = NoRelease /\ candidate = NoRelease /\ running = 0
    /\ stage = "idle" /\ target = NoRelease /\ before = NoRelease
    /\ checked = {} /\ accidents = {} /\ runs = 0

----------------------------------------------------------------------------
\* Mutant of Newer: the offer is not compared with the running version.
AnyOffer(v) == running # NoRelease
\* evaluate compares with the version of the process, not with current.
Newer(v) == running # NoRelease /\ v > running

\* A run that may stage clears the directory of the version, even if current points
\* to it (the process that activated it has not been restarted), ...
Clear(v) ==
    /\ stage = "idle" /\ runs < MaxRuns /\ Newer(v)
    /\ runs' = runs + 1 /\ target' = v /\ stage' = "cleared"
    /\ dir' = [dir EXCEPT ![v] = "partial"]
    /\ checked' = checked \ {v}
    /\ accidents' = IF current = v THEN accidents \cup {v} ELSE accidents
    /\ UNCHANGED <<current, previous, candidate, running, before>>

\* ... unpacks the artifact, or raises in the middle of it, ...
Unpack ==
    /\ stage = "cleared"
    /\ dir' = [dir EXCEPT ![target] = "complete"] /\ stage' = "unpacked"
    /\ UNCHANGED <<current, previous, candidate, running, target, before, checked, accidents, runs>>
UnpackFails ==
    /\ stage = "cleared" /\ stage' = "idle"
    /\ UNCHANGED <<dir, current, previous, candidate, running, target, before, checked, accidents, runs>>

\* ... and links it as the candidate; the policy may end the run there.
LinkCandidate ==
    /\ stage = "unpacked"
    /\ candidate' = target
    /\ \E next \in {"staged", "idle"} : stage' = next
    /\ UNCHANGED <<dir, current, previous, running, target, before, checked, accidents, runs>>

\* Mutant of SavePrevious: the old target is read when current was switched.
SaveTarget ==
    /\ stage = "staged" /\ stage' = "saved"
    /\ before' = target
    /\ previous' = IF current # NoRelease /\ dir[current] # "absent" THEN current ELSE previous
    /\ UNCHANGED <<dir, current, candidate, running, target, checked, accidents, runs>>
\* activate remembers what current points to, and links it as previous if it is there.
SavePrevious ==
    /\ stage = "staged" /\ stage' = "saved"
    /\ before' = current
    /\ previous' = IF current # NoRelease /\ dir[current] # "absent" THEN current ELSE previous
    /\ UNCHANGED <<dir, current, candidate, running, target, checked, accidents, runs>>
Switch ==
    /\ stage = "saved" /\ stage' = "switched"
    /\ current' = target
    /\ UNCHANGED <<dir, previous, candidate, running, target, before, checked, accidents, runs>>

Healthy ==
    /\ stage = "switched" /\ stage' = "idle"
    /\ checked' = checked \cup {target}
    /\ UNCHANGED <<dir, current, previous, candidate, running, target, before, accidents, runs>>
Unhealthy ==
    /\ stage = "switched" /\ stage' = "unhealthy"
    /\ UNCHANGED <<dir, current, previous, candidate, running, target, before, checked, accidents, runs>>
\* Back to what current was; without one the run ends on the unhealthy release, and
\* reports rolled_back all the same.
SwitchBack ==
    /\ stage = "unhealthy" /\ stage' = "idle"
    /\ current' = IF before # NoRelease THEN before ELSE current
    /\ accidents' = IF before = NoRelease THEN accidents \cup {target} ELSE accidents
    /\ UNCHANGED <<dir, previous, candidate, running, target, before, checked, runs>>

\* The process dies, or is restarted between runs: current is started, the release
\* outside of the slots when there is none, nothing when its files are not there.
Restart ==
    /\ stage' = "idle"
    /\ accidents' = IF stage \in {"switched", "unhealthy"} THEN accidents \cup {target} ELSE accidents
    /\ running' = IF current = NoRelease THEN 0
                  ELSE IF dir[current] = "complete" THEN current ELSE NoRelease
    /\ UNCHANGED <<dir, current, previous, candidate, target, before, checked, runs>>

Next ==
    \/ \E v \in Published : Clear(v)
    \/ Unpack \/ UnpackFails \/ LinkCandidate \/ SavePrevious \/ Switch
    \/ Healthy \/ Unhealthy \/ SwitchBack \/ Restart

Spec == Init /\ [][Next]_vars

----------------------------------------------------------------------------
\* Between runs current points to nothing, to the first release, or to one that passed
\* its health check after it was unpacked; but for three accidents: the updater died
\* between the switch and its end, there was no release to return to, or a release
\* that current points to was unpacked again (before the gateway was restarted).
CurrentIsChecked ==
    stage = "idle" => current \in {NoRelease, 0} \cup checked \cup accidents

\* No update takes current behind the version that runs, whatever is published, and
\* what is checked can start.
NeverOlder ==
    /\ (running # NoRelease /\ current # NoRelease) => current >= running
    /\ \A v \in checked : dir[v] = "complete"
=============================================================================
