----------------------------- MODULE BreakGlass -----------------------------
(* Break-glass sessions (security/break_glass.py and its Postgres twin),    *)
(* the routes that change them (server_routes/agent_routes.py) and the      *)
(* elevation they give (security/admin_auth.py).  Every store call is one   *)
(* transaction; what matters is the order of the calls.                     *)
EXTENDS Integers, FiniteSets

CONSTANTS
    People, Nobody,
    Owners,     \* people who hold the owner token
    Sessions,   \* session ids
    TTL,        \* ttl_seconds of an active session, in ticks
    Window      \* approval_window_seconds, in ticks

ConstantsOK ==
    /\ Nobody \notin People /\ Owners \subseteq People
    /\ TTL \in Nat \ {0} /\ Window \in Nat \ {0}

VARIABLES
    status,     \* status of each row, "none" when there is no row
    actor,      \* whom the session elevates
    by,         \* approved_by: who opened or requested it
    second,     \* second_approver
    left,       \* ticks until expires_at
    revoked,    \* rows with revoked_at set
    grants,     \* history: who has opened, requested or approved it, by which token
    over        \* history: sessions that have expired or were revoked

vars == <<status, actor, by, second, left, revoked, grants, over>>

----------------------------------------------------------------------------
\* Rows without a status were written before a second approval was asked for.
LegacyStatus(s) == IF actor[s] = by[s] THEN "active" ELSE "legacy_unapproved"

Init ==
    /\ actor \in [Sessions -> People] /\ by \in [Sessions -> Owners]
    /\ \E old \in SUBSET Sessions :
        /\ status = [s \in Sessions |-> IF s \in old THEN LegacyStatus(s) ELSE "none"]
        /\ left = [s \in Sessions |-> IF s \in old THEN TTL ELSE 0]
        /\ grants = [s \in Sessions |-> IF s \in old THEN {by[s]} ELSE {}]
    /\ second = [s \in Sessions |-> Nobody]
    /\ revoked = {} /\ over = {}

\* assert_active: the row is active, not revoked, not expired, of this actor, and
\* a session for someone else has a second approver.
Usable(p, s) ==
    /\ status[s] = "active" /\ s \notin revoked /\ left[s] > 0
    /\ actor[s] = p
    /\ actor[s] = by[s] \/ second[s] \notin {Nobody, actor[s], by[s]}

\* _maybe_elevate_break_glass: a usable session of the caller passes for the role.
Elevated(p) == \E s \in Sessions : Usable(p, s)
Owner(p) == p \in Owners \/ Elevated(p)

\* Mutant of OwnToken: open and approve take the role, not the token.
OwnTokenAny(p) == Owner(p)

\* open and approve refuse a caller who is owner by elevation only.
OwnToken(p) == p \in Owners

Insert(s, p, q, st, ticks) ==
    /\ status[s] = "none"
    /\ status' = [status EXCEPT ![s] = st]
    /\ actor' = [actor EXCEPT ![s] = q] /\ by' = [by EXCEPT ![s] = p]
    /\ left' = [left EXCEPT ![s] = ticks]
    /\ grants' = [grants EXCEPT ![s] = {p}]
    /\ UNCHANGED <<second, revoked, over>>

\* An owner opens a session for himself, or requests one for somebody else.
Open(p, s) == OwnToken(p) /\ Insert(s, p, p, "active", TTL)
RequestDelegated(p, q, s) ==
    OwnToken(p) /\ p # q /\ Insert(s, p, q, "pending_second_approval", Window)

\* Mutant of MayApprove: a request is approved whatever has become of it.
MayApproveAny(p, s) == status[s] = "pending_second_approval" /\ p \notin {by[s], actor[s]}

\* check_second_approver.
MayApprove(p, s) ==
    /\ status[s] = "pending_second_approval" /\ s \notin revoked /\ left[s] > 0
    /\ p \notin {by[s], actor[s]}

Approve(p, s) ==
    /\ OwnToken(p) /\ MayApprove(p, s)
    /\ status' = [status EXCEPT ![s] = "active"]
    /\ second' = [second EXCEPT ![s] = p]
    /\ left' = [left EXCEPT ![s] = TTL]
    /\ grants' = [grants EXCEPT ![s] = @ \cup {p}]
    /\ UNCHANGED <<actor, by, revoked, over>>

\* Any owner revokes, one by elevation too.
Revoke(p, s) ==
    /\ Owner(p) /\ status[s] # "none" /\ s \notin revoked
    /\ revoked' = revoked \cup {s} /\ over' = over \cup {s}
    /\ UNCHANGED <<status, actor, by, second, left, grants>>

Tick ==
    /\ \E s \in Sessions : left[s] > 0
    /\ left' = [s \in Sessions |-> IF left[s] > 0 THEN left[s] - 1 ELSE 0]
    /\ over' = over \cup {s \in Sessions : left[s] = 1}
    /\ UNCHANGED <<status, actor, by, second, revoked, grants>>

Next ==
    \/ \E p \in People, s \in Sessions :
        \/ Open(p, s) \/ Approve(p, s) \/ Revoke(p, s)
        \/ \E q \in People : RequestDelegated(p, q, s)
    \/ Tick

Spec == Init /\ [][Next]_vars

----------------------------------------------------------------------------
Statuses == {"none", "active", "pending_second_approval", "legacy_unapproved"}

TypeOK ==
    /\ status \in [Sessions -> Statuses]
    /\ actor \in [Sessions -> People] /\ by \in [Sessions -> People]
    /\ second \in [Sessions -> People \cup {Nobody}]
    /\ left \in [Sessions -> Nat]
    /\ revoked \subseteq Sessions /\ over \subseteq Sessions
    /\ grants \in [Sessions -> SUBSET People]

\* A session elevates somebody only while it lasts, and only if that person opened
\* it with the owner token or two other people granted it with theirs, whatever
\* was requested, approved, revoked and expired in between.  What has expired or
\* was revoked elevates nobody ever again.
UsableWasGranted ==
    \A p \in People, s \in Sessions : Usable(p, s) =>
        /\ s \notin over
        /\ grants[s] \subseteq Owners
        /\ p \in grants[s] \/ \E o1, o2 \in grants[s] \ {p} : o1 # o2
=============================================================================
