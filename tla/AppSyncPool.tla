---------------------------- MODULE AppSyncPool ----------------------------
(* The connection pool of the AppSync store (PsycopgConnectionPool in       *)
(* appsync/migrated_postgres_store.py): a thread-safe queue of idle         *)
(* connections, and a count under a lock, changed in separate steps.        *)
EXTENDS Integers, FiniteSets

CONSTANTS
    Users,
    Size        \* max_size

ConstantsOK == Size \in Nat \ {0} /\ IsFiniteSet(Users)

VARIABLES
    pooled,     \* usable connections in the queue
    broken,     \* closed connections in the queue
    made,       \* _created
    ending,     \* _closed
    user        \* where each thread is

vars == <<pooled, broken, made, ending, user>>

Be(u, s) == user' = [user EXCEPT ![u] = s]
Where(s) == Cardinality({u \in Users : user[u] = s})

----------------------------------------------------------------------------
Init ==
    /\ pooled = 0 /\ broken = 0 /\ made = 0 /\ ending = FALSE
    /\ user = [u \in Users |-> "out"]

\* _acquire looks at _closed once, then at the queue until it is empty.
Acquire(u) ==
    /\ user[u] = "out" /\ ~ending /\ Be(u, "looking")
    /\ UNCHANGED <<pooled, broken, made, ending>>
Get(u) ==
    /\ user[u] \in {"looking", "waiting"} /\ pooled > 0
    /\ pooled' = pooled - 1 /\ Be(u, "using")
    /\ UNCHANGED <<broken, made, ending>>
\* A closed one: counted down, and another look (a waiter starts again).
GetBroken(u) ==
    /\ user[u] \in {"looking", "waiting"} /\ broken > 0
    /\ broken' = broken - 1 /\ Be(u, IF user[u] = "looking" THEN "dropping" ELSE "dropping_again")
    /\ UNCHANGED <<pooled, made, ending>>
Drop(u) ==
    /\ user[u] \in {"dropping", "dropping_again"}
    /\ made' = made - 1
    /\ Be(u, IF user[u] = "dropping" THEN "looking" ELSE "out")
    /\ UNCHANGED <<pooled, broken, ending>>
QueueEmpty(u) ==
    /\ user[u] = "looking" /\ pooled + broken = 0 /\ Be(u, "creating")
    /\ UNCHANGED <<pooled, broken, made, ending>>

\* Mutant of Create: the count is not checked again under the lock.
CreateUnchecked(u) ==
    /\ user[u] = "creating" /\ made' = made + 1 /\ Be(u, "using")
    /\ UNCHANGED <<pooled, broken, ending>>

\* The lock is held while the connection is opened; that may fail.
Create(u) ==
    /\ user[u] = "creating"
    /\ \/ made < Size /\ made' = made + 1 /\ Be(u, "using")
       \/ made < Size /\ Be(u, "out") /\ UNCHANGED made
       \/ made >= Size /\ Be(u, "waiting") /\ UNCHANGED made
    /\ UNCHANGED <<pooled, broken, ending>>
\* get(timeout=30) raises Empty.
WaitEnds(u) ==
    /\ user[u] = "waiting" /\ Be(u, "out")
    /\ UNCHANGED <<pooled, broken, made, ending>>

\* _release: a failed call, or a closing pool, closes the connection; otherwise it is
\* put back, even if the pool is closed between the look and the put.
Finish(u) ==
    /\ user[u] = "using"
    /\ \/ Be(u, "discarding")
       \/ ~ending /\ Be(u, "returning")
    /\ UNCHANGED <<pooled, broken, made, ending>>
Discard(u) ==
    /\ user[u] = "discarding" /\ made' = made - 1 /\ Be(u, "out")
    /\ UNCHANGED <<pooled, broken, ending>>
PutBack(u) ==
    /\ user[u] = "returning" /\ pooled' = pooled + 1 /\ Be(u, "out")
    /\ UNCHANGED <<broken, made, ending>>

IdleBreaks ==
    /\ pooled > 0 /\ pooled' = pooled - 1 /\ broken' = broken + 1
    /\ UNCHANGED <<made, ending, user>>

\* close: the flag, then the queue one by one (get, close and count in one step).
Close ==
    /\ ~ending /\ ending' = TRUE
    /\ UNCHANGED <<pooled, broken, made, user>>
Drain ==
    /\ ending /\ made' = made - 1
    /\ \/ pooled > 0 /\ pooled' = pooled - 1 /\ UNCHANGED broken
       \/ broken > 0 /\ broken' = broken - 1 /\ UNCHANGED pooled
    /\ UNCHANGED <<ending, user>>

Next ==
    \/ \E u \in Users :
        \/ Acquire(u) \/ Get(u) \/ GetBroken(u) \/ Drop(u) \/ QueueEmpty(u)
        \/ Create(u) \/ WaitEnds(u) \/ Finish(u) \/ Discard(u) \/ PutBack(u)
    \/ IdleBreaks \/ Close \/ Drain

Spec == Init /\ [][Next]_vars

----------------------------------------------------------------------------
TypeOK ==
    /\ pooled \in 0..Size /\ broken \in 0..Size /\ made \in 0..Size
    /\ ending \in BOOLEAN
    /\ user \in [Users -> {"out", "looking", "dropping", "dropping_again", "creating",
                           "waiting", "using", "discarding", "returning"}]

\* There are never more connections than the pool may have, and every one is
\* counted: in the queue, with a thread, or on its way between the two.
PoolAccounted ==
    made = pooled + broken + Where("using") + Where("returning") + Where("discarding")
           + Where("dropping") + Where("dropping_again")
=============================================================================
