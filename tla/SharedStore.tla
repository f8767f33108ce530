---------------------------- MODULE SharedStore ----------------------------
(***************************************************************************)
(* The AppSync store over Postgres when several gateways run: a call takes *)
(* an advisory lock, reads every table into memory, changes the memory and *)
(* writes every row back (appsync/migrated_postgres_store.py on top of     *)
(* postgres_store.py and postgres_offline_sync.py), while chat turns insert*)
(* rows into the same tables without the lock (chat_repository.py) and the *)
(* project routes go through _event, _idempotency_put and _persist, which  *)
(* take no lock and read nothing (projects.py).                            *)
(*                                                                         *)
(* A row is the set of updates it shows, empty when it does not exist.     *)
(***************************************************************************)
EXTENDS Integers

CONSTANTS
    Gateways,
    Calls,          \* calls, each with one row to change or to make
    NoCall,
    Chat,           \* the update a chat turn leaves on the rows it inserts
    Deployments,    \* who serves which call: home, target and project of each
    Rows,
    ChatRows,       \* rows with identifiers that chat turns make
    InsertOnly,     \* rows written with ON CONFLICT DO NOTHING (messages, events)
    MaxCrashes,     \* bound
    MaxLockLosses   \* bound: sessions the database drops while their call goes on

ConstantsOK ==
    /\ Deployments \subseteq [home : [Calls -> Gateways], target : [Calls -> Rows],
                              project : SUBSET Calls]
    /\ \A d \in Deployments : \A c \in d.project : d.target[c] \notin ChatRows
    /\ ChatRows \subseteq Rows /\ InsertOnly \subseteq Rows
    /\ NoCall \notin Calls /\ Chat \notin Calls
    /\ MaxCrashes \in Nat /\ MaxLockLosses \in Nat

VARIABLES
    deployment, \* chosen at the start
    db,         \* the tables
    mem,        \* the dictionaries of each gateway
    local,      \* _multi_instance_lock of each gateway
    advisory,   \* the advisory lock
    at,         \* where each call is
    crashes, lockLosses

vars == <<deployment, db, mem, local, advisory, at, crashes, lockLosses>>

Home(c) == deployment.home[c]           \* the gateway that serves c
Target(c) == deployment.target[c]       \* the row that c changes or creates
ProjectCalls == deployment.project      \* calls that are writes of the project routes

Go(c, place) == at' = [at EXCEPT ![c] = place]

----------------------------------------------------------------------------
Init ==
    /\ deployment \in Deployments
    /\ db = [x \in Rows |-> {}]
    /\ mem = [g \in Gateways |-> [x \in Rows |-> {}]]
    /\ local = [g \in Gateways |-> NoCall] /\ advisory = NoCall
    /\ at = [c \in Calls |-> "new"]
    /\ crashes = 0 /\ lockLosses = 0

\* _serialized_call: one thread of a gateway at a time, then one gateway.
Enter(c) ==
    /\ c \notin ProjectCalls
    /\ at[c] = "new" /\ local[Home(c)] = NoCall
    /\ local' = [local EXCEPT ![Home(c)] = c]
    /\ Go(c, "waiting")
    /\ UNCHANGED <<db, mem, advisory, crashes, lockLosses>>
Lock(c) ==
    /\ at[c] = "waiting" /\ advisory = NoCall
    /\ advisory' = c
    /\ Go(c, "locked")
    /\ UNCHANGED <<db, mem, local, crashes, lockLosses>>

\* Mutant of Loaded: the memory of the last call is used again.
LoadedStale(g) == mem[g]
\* _load: every table, over what a call that raised may have left in memory.
Loaded(g) == db
Refresh(c) ==
    /\ at[c] = "locked"
    /\ mem' = [mem EXCEPT ![Home(c)] = Loaded(Home(c))]
    /\ Go(c, "loaded")
    /\ UNCHANGED <<db, local, advisory, crashes, lockLosses>>

\* The method changes a row it has loaded, or makes one with a new identifier.
Change(c) ==
    /\ at[c] = "loaded"
    /\ Target(c) \in ChatRows => mem[Home(c)][Target(c)] # {}
    /\ Target(c) \in InsertOnly => mem[Home(c)][Target(c)] = {}
    /\ mem' = [mem EXCEPT ![Home(c)][Target(c)] = @ \cup {c}]
    /\ Go(c, "changed")
    /\ UNCHANGED <<db, local, advisory, crashes, lockLosses>>

\* The method raises, before or after it changed the memory, and nothing is written.
Raise(c) ==
    /\ at[c] \in {"loaded", "changed"}
    /\ Go(c, "leaving")
    /\ UNCHANGED <<db, mem, local, advisory, crashes, lockLosses>>

\* _mirror_normalized: every row in memory, in one transaction; messages and
\* events only where there is no such row.
Kept(g, x) == mem[g][x] = {} \/ (x \in InsertOnly /\ db[x] # {})
Mirror(g) == [x \in Rows |-> IF Kept(g, x) THEN db[x] ELSE mem[g][x]]
Persist(c) ==
    /\ at[c] = "changed"
    /\ db' = Mirror(Home(c))
    /\ Go(c, "saved")
    /\ UNCHANGED <<mem, local, advisory, crashes, lockLosses>>

\* The finally clause; a call that was saved is done, one that raised is not.
Unlock(c) ==
    /\ at[c] \in {"saved", "leaving"}
    /\ advisory' = IF advisory = c THEN NoCall ELSE advisory
    /\ local' = [local EXCEPT ![Home(c)] = NoCall]
    /\ Go(c, IF at[c] = "saved" THEN "done" ELSE "refused")
    /\ UNCHANGED <<db, mem, crashes, lockLosses>>

\* A write of the project routes: an event with a new identifier, the answer under
\* its key, and _persist of the memory as the last call of this gateway left it.
ProjectWrite(c) ==
    /\ c \in ProjectCalls /\ at[c] = "new" /\ local[Home(c)] = NoCall
    /\ mem' = [mem EXCEPT ![Home(c)][Target(c)] = @ \cup {c}]
    /\ db' = [x \in Rows |-> IF x = Target(c) THEN db[x] \cup {c} ELSE Mirror(Home(c))[x]]
    /\ Go(c, "done")
    /\ UNCHANGED <<local, advisory, crashes, lockLosses>>

\* A chat turn inserts a row.
ChatInsert(x) ==
    /\ x \in ChatRows /\ db[x] = {}
    /\ db' = [db EXCEPT ![x] = {Chat}]
    /\ UNCHANGED <<mem, local, advisory, at, crashes, lockLosses>>

\* A gateway dies: its sessions end, and the lock with them.  It starts again and
\* reads the tables.
Busy(c) == at[c] \in {"waiting", "locked", "loaded", "changed", "leaving"}
Crash(g) ==
    /\ crashes < MaxCrashes
    /\ at' = [c \in Calls |->
         IF Home(c) # g THEN at[c]
         ELSE IF Busy(c) THEN "refused" ELSE IF at[c] = "saved" THEN "done" ELSE at[c]]
    /\ mem' = [mem EXCEPT ![g] = db]
    /\ local' = [local EXCEPT ![g] = NoCall]
    /\ advisory' = IF advisory # NoCall /\ Home(advisory) = g THEN NoCall ELSE advisory
    /\ crashes' = crashes + 1
    /\ UNCHANGED <<db, lockLosses>>

\* The session that holds the lock is dropped; the call goes on with other
\* connections of the pool.
LoseLock ==
    /\ lockLosses < MaxLockLosses
    /\ advisory # NoCall
    /\ advisory' = NoCall
    /\ lockLosses' = lockLosses + 1
    /\ UNCHANGED <<db, mem, local, at, crashes>>

Next ==
    /\ \/ \E c \in Calls :
          \/ Enter(c) \/ Lock(c) \/ Refresh(c) \/ Change(c)
          \/ Raise(c) \/ Persist(c) \/ Unlock(c) \/ ProjectWrite(c)
       \/ \E x \in Rows : ChatInsert(x)
       \/ \E g \in Gateways : Crash(g)
       \/ LoseLock
    /\ UNCHANGED deployment

Spec == Init /\ [][Next]_vars

----------------------------------------------------------------------------
TypeOK ==
    /\ deployment \in Deployments
    /\ db \in [Rows -> SUBSET (Calls \cup {Chat})]
    /\ mem \in [Gateways -> [Rows -> SUBSET (Calls \cup {Chat})]]
    /\ local \in [Gateways -> Calls \cup {NoCall}] /\ advisory \in Calls \cup {NoCall}
    /\ at \in [Calls -> {"new", "waiting", "locked", "loaded", "changed", "saved",
                         "leaving", "done", "refused"}]
    /\ crashes \in 0..MaxCrashes /\ lockLosses \in 0..MaxLockLosses

\* An update that was written stays: no gateway writes rows back as they were
\* before it, although every call writes every row.
NoLostUpdate == \A c \in Calls : at[c] \in {"saved", "done"} => c \in db[Target(c)]
=============================================================================
