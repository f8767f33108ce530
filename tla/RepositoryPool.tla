--------------------------- MODULE RepositoryPool ---------------------------
(* The bounded connection pool of the Postgres repositories                 *)
(* (repositories/postgres_pool.py) and the threads that share it.  Everything    *)
(* under the condition is one step; a connection is opened, used and closed *)
(* outside of it.                                                           *)
EXTENDS Integers, FiniteSets

CONSTANTS
    Threads,
    MaxSize     \* max_size

ConstantsOK == MaxSize \in Nat \ {0} /\ IsFiniteSet(Threads)

VARIABLES
    idle,       \* usable connections in _idle
    dead,       \* connections in _idle that have been closed by now
    created,    \* _created
    inUse,      \* _in_use
    shut,       \* _closed
    thread      \* where each thread is

vars == <<idle, dead, created, inUse, shut, thread>>

Count(s) == Cardinality({t \in Threads : thread[t] = s})

----------------------------------------------------------------------------
Init ==
    /\ idle = 0 /\ dead = 0 /\ created = 0 /\ inUse = 0 /\ shut = FALSE
    /\ thread = [t \in Threads |-> "out"]

Become(t, s) == thread' = [thread EXCEPT ![t] = s]

\* Mutant of BecomeAndNotify: whoever gives up a connection tells nobody.
BecomeOnly(t, s) == Become(t, s)

\* notify_all, and where the thread itself goes.
BecomeAndNotify(t, s) ==
    thread' = [u \in Threads |->
        IF u = t THEN s ELSE IF thread[u] = "waiting" THEN "woken" ELSE thread[u]]

\* One turn of the loop in _acquire.  Idle connections are popped until one is
\* usable: some dead ones go first, all of them when none is usable.
TakeIdle(t) ==
    /\ thread[t] \in {"out", "woken"} /\ ~shut /\ idle > 0
    /\ \E n \in 0..dead : dead' = dead - n /\ created' = created - n
    /\ idle' = idle - 1 /\ inUse' = inUse + 1
    /\ Become(t, "using")
    /\ UNCHANGED shut
StartOpening(t) ==
    /\ thread[t] \in {"out", "woken"} /\ ~shut /\ idle = 0
    /\ created - dead < MaxSize
    /\ created' = created - dead + 1 /\ dead' = 0
    /\ Become(t, "opening")
    /\ UNCHANGED <<idle, inUse, shut>>
\* At the limit: wait, or raise when the deadline has passed meanwhile.
Wait(t) ==
    /\ thread[t] \in {"out", "woken"} /\ ~shut /\ idle = 0
    /\ created - dead = MaxSize
    /\ dead' = 0 /\ created' = created - dead
    /\ \/ Become(t, "waiting")
       \/ thread[t] = "woken" /\ Become(t, "out")
    /\ UNCHANGED <<idle, inUse, shut>>
RaiseClosed(t) ==
    /\ thread[t] = "woken" /\ shut
    /\ Become(t, "out")
    /\ UNCHANGED <<idle, dead, created, inUse, shut>>

\* The wait ends at the deadline, and the loop looks once more.
Timeout(t) ==
    /\ thread[t] = "waiting" /\ Become(t, "woken")
    /\ UNCHANGED <<idle, dead, created, inUse, shut>>

\* The connection is there; a pool closed in the meantime does not want it.
Opened(t) ==
    /\ thread[t] = "opening"
    /\ IF shut
       THEN created' = created - 1 /\ UNCHANGED inUse /\ BecomeAndNotify(t, "out")
       ELSE inUse' = inUse + 1 /\ UNCHANGED created /\ Become(t, "using")
    /\ UNCHANGED <<idle, dead, shut>>
OpenFails(t) ==
    /\ thread[t] = "opening"
    /\ created' = created - 1 /\ BecomeAndNotify(t, "out")
    /\ UNCHANGED <<idle, dead, inUse, shut>>

\* _release: keep a usable connection, or discard it.
Release(t) ==
    /\ thread[t] = "using"
    /\ inUse' = inUse - 1
    /\ \/ ~shut /\ idle' = idle + 1 /\ UNCHANGED created
       \/ created' = created - 1 /\ UNCHANGED idle
    /\ BecomeAndNotify(t, "out")
    /\ UNCHANGED <<dead, shut>>

\* An idle connection is closed under the pool's hands.
IdleDies ==
    /\ idle > 0 /\ idle' = idle - 1 /\ dead' = dead + 1
    /\ UNCHANGED <<created, inUse, shut, thread>>

Close ==
    /\ ~shut /\ shut' = TRUE
    /\ created' = created - idle - dead /\ idle' = 0 /\ dead' = 0
    /\ thread' = [t \in Threads |-> IF thread[t] = "waiting" THEN "woken" ELSE thread[t]]
    /\ UNCHANGED inUse

Next ==
    \/ \E t \in Threads :
        \/ TakeIdle(t) \/ StartOpening(t) \/ Wait(t) \/ RaiseClosed(t) \/ Timeout(t)
        \/ Opened(t) \/ OpenFails(t) \/ Release(t)
    \/ IdleDies \/ Close

Spec == Init /\ [][Next]_vars

----------------------------------------------------------------------------
TypeOK ==
    /\ idle \in 0..MaxSize /\ dead \in 0..MaxSize /\ created \in 0..MaxSize
    /\ inUse \in 0..MaxSize /\ shut \in BOOLEAN
    /\ thread \in [Threads -> {"out", "waiting", "woken", "opening", "using"}]

\* The counters are the connections there are: idle, in use, being opened.
PoolAccounted == inUse = Count("using") /\ created = idle + dead + inUse + Count("opening")

\* Nobody sleeps while there is a connection to take, or room to open one, or the
\* pool is closed: every step that frees something wakes whoever waits.
NoLostWakeup == Count("waiting") > 0 => created = MaxSize /\ idle = 0 /\ ~shut
=============================================================================
