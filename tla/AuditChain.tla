----------------------------- MODULE AuditChain -----------------------------
(* The audit log of permission decisions: each entry names the hash of the  *)
(* one before (security/permissions.py, _audit and what it calls).          *)
(*                                                                          *)
(* A call stats the file, takes the hash of the last line from the cache or *)
(* from the file, appends its own line, and caches hash and size.  Nothing  *)
(* locks the file or the cache: calls of several threads (the orchestrator  *)
(* uses to_thread) and of several processes interleave at every step.       *)
(* Entries are numbered by their place in the file, 0 is the hash of an     *)
(* empty log, and the size of the file is the number of its entries (it is  *)
(* only appended to, so size and mtime change together).                    *)
EXTENDS Integers

CONSTANTS
    Callers,        \* calls that run at one time
    Process,        \* Process[c]: the process of c, with the cache that c uses
    MaxEntries      \* bound: entries of the log

Processes == {Process[c] : c \in Callers}

ConstantsOK == DOMAIN Process = Callers /\ MaxEntries \in Nat

VARIABLES
    size,       \* entries of the log
    previous,   \* previous[i]: the entry that entry i names
    cachedHash, cachedSize,
    pc,         \* the next step of each caller
    held,       \* the hash it found
    seenSize,   \* the size it saw
    mine,       \* the entry it appended
    met,        \* history: callers that were not alone during their call
    doubtful,   \* history: processes whose last finished call was not alone
    excused     \* history: entries appended by a call that met another, or after one

vars == <<size, previous, cachedHash, cachedSize, pc, held, seenSize, mine, met, doubtful, excused>>

Entries == 0..MaxEntries
NoHash == -1
Busy(c) == pc[c] # "idle"
Goto(c, s) == pc' = [pc EXCEPT ![c] = s]

TypeOK ==
    /\ size \in Entries /\ previous \in [1..MaxEntries -> Entries]
    /\ cachedHash \in [Processes -> Entries \cup {NoHash}] /\ cachedSize \in [Processes -> Entries]
    /\ pc \in [Callers -> {"idle", "read", "store", "stored", "append", "hash", "size"}]
    /\ held \in [Callers -> Entries] /\ seenSize \in [Callers -> Entries]
    /\ mine \in [Callers -> Entries]
    /\ met \subseteq Callers /\ doubtful \subseteq Processes /\ excused \subseteq 1..MaxEntries

Init ==
    /\ size = 0 /\ previous = [i \in 1..MaxEntries |-> 0]
    /\ cachedHash = [p \in Processes |-> NoHash] /\ cachedSize = [p \in Processes |-> 0]
    /\ pc = [c \in Callers |-> "idle"]
    /\ held = [c \in Callers |-> 0] /\ seenSize = [c \in Callers |-> 0]
    /\ mine = [c \in Callers |-> 0]
    /\ met = {} /\ doubtful = {} /\ excused = {}

----------------------------------------------------------------------------
\* Mutant of CacheHolds: whatever is cached is used.
CacheAlways(p) == cachedHash[p] # NoHash
\* The hash is cached, and the file has the size that was cached with it.
CacheHolds(p) == cachedHash[p] # NoHash /\ cachedSize[p] = size

\* A call starts with the stat of the file.  An empty log has the hash it held before
\* the call, 0, which it caches; on a cache hit the call has its hash.
Start(c) ==
    /\ ~Busy(c) /\ size < MaxEntries
    /\ LET p == Process[c] IN
       IF size = 0 THEN Goto(c, "store") /\ UNCHANGED held
       ELSE IF CacheHolds(p)
       THEN held' = [held EXCEPT ![c] = cachedHash[p]] /\ Goto(c, "append")
       ELSE Goto(c, "read") /\ UNCHANGED held
    /\ seenSize' = [seenSize EXCEPT ![c] = size]
    /\ LET others == {b \in Callers : b # c /\ Busy(b)} IN
       met' = IF others = {} THEN met ELSE met \cup others \cup {c}
    /\ UNCHANGED <<size, previous, cachedHash, cachedSize, mine, doubtful, excused>>

\* The last line, which may be newer than the stat.
ReadTail(c) ==
    /\ pc[c] = "read"
    /\ held' = [held EXCEPT ![c] = size]
    /\ Goto(c, "store")
    /\ UNCHANGED <<size, previous, cachedHash, cachedSize, seenSize, mine, met, doubtful, excused>>
\* The hash is cached, then the size of the stat.
Store(c) ==
    /\ pc[c] = "store"
    /\ cachedHash' = [cachedHash EXCEPT ![Process[c]] = held[c]]
    /\ Goto(c, "stored")
    /\ UNCHANGED <<size, previous, cachedSize, held, seenSize, mine, met, doubtful, excused>>
StoreSize(c) ==
    /\ pc[c] = "stored"
    /\ cachedSize' = [cachedSize EXCEPT ![Process[c]] = seenSize[c]]
    /\ Goto(c, "append")
    /\ UNCHANGED <<size, previous, cachedHash, held, seenSize, mine, met, doubtful, excused>>

Append(c) ==
    /\ pc[c] = "append" /\ size < MaxEntries
    /\ size' = size + 1
    /\ previous' = [previous EXCEPT ![size + 1] = held[c]]
    /\ mine' = [mine EXCEPT ![c] = size + 1]
    /\ excused' = IF c \in met \/ Process[c] \in doubtful THEN excused \cup {size + 1} ELSE excused
    /\ held' = [held EXCEPT ![c] = 0] /\ seenSize' = [seenSize EXCEPT ![c] = 0]
    /\ Goto(c, "hash")
    /\ UNCHANGED <<cachedHash, cachedSize, met, doubtful>>

\* _cache_last_hash stores the hash, and then the size of another stat.
CacheHash(c) ==
    /\ pc[c] = "hash"
    /\ cachedHash' = [cachedHash EXCEPT ![Process[c]] = mine[c]]
    /\ Goto(c, "size")
    /\ UNCHANGED <<size, previous, cachedSize, held, seenSize, mine, met, doubtful, excused>>
CacheSize(c) ==
    /\ pc[c] = "size"
    /\ cachedSize' = [cachedSize EXCEPT ![Process[c]] = size]
    /\ doubtful' = IF c \in met THEN doubtful \cup {Process[c]} ELSE doubtful \ {Process[c]}
    /\ met' = met \ {c} /\ mine' = [mine EXCEPT ![c] = 0]
    /\ Goto(c, "idle")
    /\ UNCHANGED <<size, previous, cachedHash, held, seenSize, excused>>

\* The process restarts: its calls and its cache are gone.
Restart(p) ==
    /\ cachedHash[p] # NoHash \/ \E c \in Callers : Process[c] = p /\ Busy(c)
    /\ cachedHash' = [cachedHash EXCEPT ![p] = NoHash]
    /\ cachedSize' = [cachedSize EXCEPT ![p] = 0]
    /\ LET Ends(f, v) == [c \in Callers |-> IF Process[c] = p THEN v ELSE f[c]] IN
       /\ pc' = Ends(pc, "idle") /\ held' = Ends(held, 0)
       /\ seenSize' = Ends(seenSize, 0) /\ mine' = Ends(mine, 0)
    /\ met' = {c \in met : Process[c] # p} /\ doubtful' = doubtful \ {p}
    /\ UNCHANGED <<size, previous, excused>>

Next ==
    \/ \E c \in Callers :
        Start(c) \/ ReadTail(c) \/ Store(c) \/ StoreSize(c) \/ Append(c) \/ CacheHash(c) \/ CacheSize(c)
    \/ \E p \in Processes : Restart(p)

Spec == Init /\ [][Next]_vars

----------------------------------------------------------------------------
\* The chain forks only where calls overlapped: an entry that does not name the one
\* before it was appended by a call that was not alone, or by the first call of its
\* process after such a call (whose cached size may belong to a later entry).
ForkNeedsOverlap == \A i \in 1..size : previous[i] # i - 1 => i \in excused

\* An entry never names a later one, or itself: the chain has no cycle.
NamesEarlier == \A i \in 1..size : previous[i] < i
=============================================================================
