--------------------------- MODULE JobQueueProofs ---------------------------
(***************************************************************************)
(* What TLAPS proves of JobQueue for all values of its constants: types    *)
(* and StatusMatchesRetries for every deployment; and, for handlers that   *)
(* keep within their lease while no administrator intervenes, that a job   *)
(* has one handler and that completed is final.                            *)
(***************************************************************************)
EXTENDS JobQueue, TLAPS

Working == {"handling", "completing", "failing", "writing"}

\* A loop that works has a row, and what it is about to write counts at least
\* the attempt that has just failed.
LoopOK ==
    \A w \in Workers :
        /\ pc[w] \in Working => job[w] \in Jobs
        /\ pc[w] = "writing" => count[w] > 0

\* Ids above created have not been inserted yet.
FreshIds == \A j \in Jobs : j > created => status[j] = "none" /\ retryCount[j] = 0

IInv == TypeOK /\ LoopOK /\ FreshIds /\ StatusMatchesRetries

\* What it takes for a lease to protect its handler.
WithinLease == ~Overrun /\ MaxAdmin = 0

\* A row that a recovery has selected is out of every handler's reach until it
\* is written: it is still stale, or already failed and not due in this tick.
TodoOK ==
    \A w \in Workers :
        /\ pc[w] # "recovering" => todo[w] = {}
        /\ \A t \in todo[w] :
            \/ Stale(t[1])
            \/ status[t[1]] = "retry" /\ wait[t[1]] > 0
            \/ status[t[1]] = "dead_letter"

\* The step that CompletedFinal allows.
CompletedStays == \A j \in Jobs : status[j] = "completed" => status'[j] = "completed"

LInv == IInv /\ admin = {} /\ TodoOK /\ OneHandlerPerJob
-----------------------------------------------------------------------------
\* A claim is of one row, and that row is due.
LEMMA OldestReady == ASSUME NEW j \in Jobs, Oldest(j) PROVE Ready(j)
  BY DEF Oldest

\* What fail and recovery write is of the right type and agrees.
LEMMA SetFailedOK ==
  ASSUME IInv, NEW j \in Jobs, NEW n \in Nat \ {0}, Exists(j), SetFailed(j, n)
  PROVE  /\ status' \in [Jobs -> Status] /\ retryCount' \in [Jobs -> Nat]
         /\ wait' \in [Jobs -> Nat] /\ age' \in [Jobs -> 0..Lease]
         /\ UNCHANGED <<created, key, claims>>
         /\ StatusMatchesRetries' /\ FreshIds'
  <1> USE ConstantsAssumption
  <1>1. ~(n > MaxRetries) => n \in 1..MaxRetries /\ Backoff(n) \in Nat \ {0}
    BY BackoffAssumption
  <1>2. status' \in [Jobs -> Status] /\ retryCount' \in [Jobs -> Nat]
    BY DEF IInv, TypeOK, SetFailed, Status
  <1>3. wait' \in [Jobs -> Nat] /\ age' \in [Jobs -> 0..Lease]
    BY <1>1 DEF IInv, TypeOK, SetFailed
  <1>4. StatusMatchesRetries'
    BY <1>1 DEF IInv, TypeOK, SetFailed, StatusMatchesRetries, Status
  <1>5. FreshIds'
    BY DEF IInv, TypeOK, SetFailed, FreshIds, Exists, Jobs
  <1> QED BY <1>2, <1>3, <1>4, <1>5 DEF SetFailed

LEMMA SetFailedIfThereOK ==
  ASSUME IInv, NEW j \in Jobs, NEW n \in Nat \ {0}, SetFailedIfThere(j, n)
  PROVE  /\ status' \in [Jobs -> Status] /\ retryCount' \in [Jobs -> Nat]
         /\ wait' \in [Jobs -> Nat] /\ age' \in [Jobs -> 0..Lease]
         /\ UNCHANGED <<created, key, claims>>
         /\ StatusMatchesRetries' /\ FreshIds'
  <1>1. CASE Exists(j)
    BY <1>1, SetFailedOK DEF SetFailedIfThere
  <1>2. CASE ~Exists(j)
    BY <1>2 DEF SetFailedIfThere, rows, IInv, TypeOK, StatusMatchesRetries, FreshIds
  <1> QED BY <1>1, <1>2

LEMMA SetClaimedOK ==
  ASSUME IInv, NEW j \in Jobs, Oldest(j), SetClaimed(j)
  PROVE  /\ status' \in [Jobs -> Status] /\ claims' \in [Jobs -> Nat]
         /\ age' \in [Jobs -> 0..Lease]
         /\ UNCHANGED <<created, key, retryCount, wait>>
         /\ StatusMatchesRetries' /\ FreshIds'
  <1> USE ConstantsAssumption
  <1>1. status[j] \in {"pending", "retry"} /\ retryCount[j] \in 0..MaxRetries
    BY OldestReady DEF Ready, IInv, StatusMatchesRetries
  <1>2. status' = [status EXCEPT ![j] = "running"] /\ UNCHANGED retryCount
    BY DEF SetClaimed
  <1>3. status' \in [Jobs -> Status] /\ claims' \in [Jobs -> Nat] /\ age' \in [Jobs -> 0..Lease]
    BY DEF SetClaimed, IInv, TypeOK, Status
  <1>4. StatusMatchesRetries'
    BY <1>1, <1>2 DEF IInv, TypeOK, StatusMatchesRetries
  <1>5. FreshIds'
    BY <1>1, <1>2 DEF IInv, TypeOK, FreshIds, SetClaimed
  <1> QED BY <1>3, <1>4, <1>5 DEF SetClaimed

LEMMA InitIInv == Init => IInv
  <1> SUFFICES ASSUME Init PROVE IInv OBVIOUS
  <1> USE ConstantsAssumption
  <1>1. TypeOK BY DEF Init, TypeOK, Status, Jobs
  <1>2. LoopOK BY DEF Init, LoopOK, Working
  <1>3. FreshIds BY DEF Init, FreshIds
  <1>4. StatusMatchesRetries BY DEF Init, StatusMatchesRetries
  <1> QED BY <1>1, <1>2, <1>3, <1>4 DEF IInv

LEMMA NextIInv == IInv /\ [Next]_vars => IInv'
  <1> SUFFICES ASSUME IInv, [Next]_vars PROVE IInv' OBVIOUS
  <1> USE ConstantsAssumption
  <1>1. ASSUME NEW k \in Keys, Enqueue(k) PROVE IInv'
    <2>1. created + 1 \in Jobs /\ status[created + 1] = "none" /\ retryCount[created + 1] = 0
      BY <1>1 DEF Enqueue, IInv, TypeOK, Jobs, FreshIds
    <2>2. TypeOK' BY <1>1, <2>1 DEF Enqueue, IInv, TypeOK, Status, loop, bounds
    <2>3. LoopOK' BY <1>1 DEF Enqueue, IInv, LoopOK, loop
    <2>4. FreshIds' BY <1>1, <2>1 DEF Enqueue, IInv, TypeOK, FreshIds, Jobs
    <2>5. StatusMatchesRetries' BY <1>1, <2>1 DEF Enqueue, IInv, TypeOK, StatusMatchesRetries
    <2> QED BY <2>2, <2>3, <2>4, <2>5 DEF IInv
  <1>2. ASSUME NEW w \in Workers, Start(w) PROVE IInv'
    <2>1. UNCHANGED <<rows, job, count, admin, bounds>> BY <1>2 DEF Start
    <2>2. TypeOK' BY <1>2 DEF Start, Goto, IInv, TypeOK, rows, bounds
    <2>3. LoopOK' BY <1>2 DEF Start, Goto, IInv, TypeOK, LoopOK, Working
    <2> QED BY <2>1, <2>2, <2>3 DEF IInv, FreshIds, StatusMatchesRetries, rows
  <1>3. ASSUME NEW w \in Workers, RecoverRow(w) PROVE IInv'
    <2>1. PICK t \in todo[w] :
            /\ SetFailedIfThere(t[1], IF Postgres THEN retryCount[t[1]] + 1 ELSE t[2])
            /\ todo' = [todo EXCEPT ![w] = @ \ {t}]
      BY <1>3 DEF RecoverRow
    <2>2. t[1] \in Jobs /\ (IF Postgres THEN retryCount[t[1]] + 1 ELSE t[2]) \in Nat \ {0}
      BY <2>1 DEF IInv, TypeOK
    <2>3. /\ status' \in [Jobs -> Status] /\ retryCount' \in [Jobs -> Nat]
          /\ wait' \in [Jobs -> Nat] /\ age' \in [Jobs -> 0..Lease]
          /\ UNCHANGED <<created, key, claims>>
          /\ StatusMatchesRetries' /\ FreshIds'
      BY <2>1, <2>2, SetFailedIfThereOK
    <2>4. TypeOK' BY <1>3, <2>1, <2>3 DEF RecoverRow, IInv, TypeOK, bounds
    <2>5. LoopOK' BY <1>3 DEF RecoverRow, IInv, LoopOK
    <2> QED BY <2>3, <2>4, <2>5 DEF IInv
  <1>4. ASSUME NEW w \in Workers, RecoverRaises(w) PROVE IInv'
    <2>1. TypeOK' BY <1>4 DEF RecoverRaises, Goto, IInv, TypeOK, rows, bounds
    <2>2. LoopOK' BY <1>4 DEF RecoverRaises, Goto, IInv, TypeOK, LoopOK, Working
    <2> QED BY <1>4, <2>1, <2>2 DEF RecoverRaises, IInv, FreshIds, StatusMatchesRetries, rows
  <1>5. ASSUME NEW w \in Workers, RunForever(w) PROVE IInv'
    <2>1. TypeOK' BY <1>5 DEF RunForever, Goto, IInv, TypeOK, rows, bounds
    <2>2. LoopOK' BY <1>5 DEF RunForever, Goto, IInv, TypeOK, LoopOK, Working
    <2> QED BY <1>5, <2>1, <2>2 DEF RunForever, IInv, FreshIds, StatusMatchesRetries, rows
  <1>6. ASSUME NEW w \in Workers, ClaimNext(w) PROVE IInv'
    <2>1. PICK j \in Jobs : Oldest(j) /\ SetClaimed(j) /\ job' = [job EXCEPT ![w] = j]
      BY <1>6 DEF ClaimNext
    <2>2. /\ status' \in [Jobs -> Status] /\ claims' \in [Jobs -> Nat]
          /\ age' \in [Jobs -> 0..Lease]
          /\ UNCHANGED <<created, key, retryCount, wait>>
          /\ StatusMatchesRetries' /\ FreshIds'
      BY <2>1, SetClaimedOK
    <2>3. TypeOK' BY <1>6, <2>1, <2>2 DEF ClaimNext, Goto, IInv, TypeOK, bounds
    <2>4. LoopOK' BY <1>6, <2>1 DEF ClaimNext, Goto, IInv, TypeOK, LoopOK, Working
    <2> QED BY <2>2, <2>3, <2>4 DEF IInv
  <1>7. ASSUME NEW w \in Workers, Handled(w) \/ HandlerRaises(w) PROVE IInv'
    <2>1. TypeOK' BY <1>7 DEF Handled, HandlerRaises, Goto, IInv, TypeOK, rows, bounds
    <2>2. LoopOK' BY <1>7 DEF Handled, HandlerRaises, Goto, IInv, TypeOK, LoopOK, Working
    <2> QED BY <1>7, <2>1, <2>2
        DEF Handled, HandlerRaises, IInv, FreshIds, StatusMatchesRetries, rows
  <1>8. ASSUME NEW w \in Workers, Complete(w) PROVE IInv'
    <2>1. job[w] \in Jobs BY <1>8 DEF Complete, IInv, LoopOK, Working
    <2>2. TypeOK' BY <1>8, <2>1 DEF Complete, Goto, IInv, TypeOK, Status, bounds
    <2>3. LoopOK' BY <1>8 DEF Complete, Goto, IInv, TypeOK, LoopOK, Working
    <2>4. FreshIds' BY <1>8, <2>1 DEF Complete, IInv, TypeOK, FreshIds, Exists
    <2>5. StatusMatchesRetries' BY <1>8, <2>1 DEF Complete, IInv, TypeOK, StatusMatchesRetries
    <2> QED BY <2>2, <2>3, <2>4, <2>5 DEF IInv
  <1>9. ASSUME NEW w \in Workers, FailLocked(w) PROVE IInv'
    <2>1. job[w] \in Jobs /\ retryCount[job[w]] + 1 \in Nat \ {0}
      BY <1>9 DEF FailLocked, IInv, LoopOK, Working, TypeOK
    <2>2. /\ status' \in [Jobs -> Status] /\ retryCount' \in [Jobs -> Nat]
          /\ wait' \in [Jobs -> Nat] /\ age' \in [Jobs -> 0..Lease]
          /\ UNCHANGED <<created, key, claims>>
          /\ StatusMatchesRetries' /\ FreshIds'
      BY <1>9, <2>1, SetFailedOK DEF FailLocked
    <2>3. TypeOK' BY <1>9, <2>2 DEF FailLocked, Goto, IInv, TypeOK, bounds
    <2>4. LoopOK' BY <1>9 DEF FailLocked, Goto, IInv, TypeOK, LoopOK, Working
    <2> QED BY <2>2, <2>3, <2>4 DEF IInv
  <1>10. ASSUME NEW w \in Workers, FailRead(w) PROVE IInv'
    <2>1. job[w] \in Jobs /\ retryCount[job[w]] + 1 \in Nat \ {0}
      BY <1>10 DEF FailRead, IInv, LoopOK, Working, TypeOK
    <2>2. TypeOK' BY <1>10, <2>1 DEF FailRead, Goto, IInv, TypeOK, rows, bounds
    <2>3. LoopOK' BY <1>10, <2>1 DEF FailRead, Goto, IInv, TypeOK, LoopOK, Working
    <2> QED BY <1>10, <2>2, <2>3 DEF FailRead, IInv, FreshIds, StatusMatchesRetries, rows
  <1>11. ASSUME NEW w \in Workers, FailWrite(w) PROVE IInv'
    <2>1. job[w] \in Jobs /\ count[w] \in Nat \ {0}
      BY <1>11 DEF FailWrite, IInv, LoopOK, Working, TypeOK
    <2>2. /\ status' \in [Jobs -> Status] /\ retryCount' \in [Jobs -> Nat]
          /\ wait' \in [Jobs -> Nat] /\ age' \in [Jobs -> 0..Lease]
          /\ UNCHANGED <<created, key, claims>>
          /\ StatusMatchesRetries' /\ FreshIds'
      BY <1>11, <2>1, SetFailedIfThereOK DEF FailWrite
    <2>3. TypeOK' BY <1>11, <2>2 DEF FailWrite, Goto, IInv, TypeOK, bounds
    <2>4. LoopOK' BY <1>11 DEF FailWrite, Goto, IInv, TypeOK, LoopOK, Working
    <2> QED BY <2>2, <2>3, <2>4 DEF IInv
  <1>12. ASSUME NEW w \in Workers, FailRaises(w) PROVE IInv'
    <2>1. TypeOK' BY <1>12 DEF FailRaises, Goto, IInv, TypeOK, rows, bounds
    <2>2. LoopOK' BY <1>12 DEF FailRaises, Goto, IInv, TypeOK, LoopOK, Working
    <2> QED BY <1>12, <2>1, <2>2 DEF FailRaises, IInv, FreshIds, StatusMatchesRetries, rows
  <1>13. ASSUME NEW w \in Workers, StoreRaises(w) PROVE IInv'
    <2>1. TypeOK' BY <1>13 DEF StoreRaises, Goto, IInv, TypeOK, rows
    <2>2. LoopOK' BY <1>13 DEF StoreRaises, Goto, IInv, TypeOK, LoopOK, Working
    <2> QED BY <1>13, <2>1, <2>2 DEF StoreRaises, IInv, FreshIds, StatusMatchesRetries, rows
  <1>14. ASSUME NEW w \in Workers, Crash(w) PROVE IInv'
    <2>1. TypeOK' BY <1>14 DEF Crash, Goto, IInv, TypeOK, rows
    <2>2. LoopOK' BY <1>14 DEF Crash, Goto, IInv, TypeOK, LoopOK, Working
    <2> QED BY <1>14, <2>1, <2>2 DEF Crash, IInv, FreshIds, StatusMatchesRetries, rows
  <1>15. ASSUME NEW w \in Workers, StopDuringClaim(w) PROVE IInv'
    <2>1. PICK j \in Jobs : Oldest(j) /\ SetClaimed(j)
      BY <1>15 DEF StopDuringClaim
    <2>2. /\ status' \in [Jobs -> Status] /\ claims' \in [Jobs -> Nat]
          /\ age' \in [Jobs -> 0..Lease]
          /\ UNCHANGED <<created, key, retryCount, wait>>
          /\ StatusMatchesRetries' /\ FreshIds'
      BY <2>1, SetClaimedOK
    <2>3. TypeOK' BY <1>15, <2>1, <2>2 DEF StopDuringClaim, Goto, IInv, TypeOK
    <2>4. LoopOK' BY <1>15 DEF StopDuringClaim, Goto, IInv, TypeOK, LoopOK, Working
    <2> QED BY <2>2, <2>3, <2>4 DEF IInv
  <1>16. ASSUME NEW op \in {"requeue", "purge"}, NEW j \in Jobs, AdminCall(op, j) PROVE IInv'
    <2>1. TypeOK' BY <1>16 DEF AdminCall, IInv, TypeOK, rows, loop
    <2> QED BY <1>16, <2>1
        DEF AdminCall, IInv, LoopOK, FreshIds, StatusMatchesRetries, rows, loop
  <1>17. ASSUME NEW op \in {"requeue", "purge"}, NEW j \in Jobs, AdminWrite(op, j) PROVE IInv'
    <2>1. TypeOK' BY <1>17 DEF AdminWrite, IInv, TypeOK, Status, rows, loop, bounds
    <2>2. LoopOK' BY <1>17 DEF AdminWrite, IInv, LoopOK, loop
    <2>3. FreshIds' BY <1>17 DEF AdminWrite, IInv, TypeOK, FreshIds, Exists, rows
    <2>4. StatusMatchesRetries'
      BY <1>17 DEF AdminWrite, IInv, TypeOK, StatusMatchesRetries, rows
    <2> QED BY <2>1, <2>2, <2>3, <2>4 DEF IInv
  <1>18. ASSUME Tick PROVE IInv'
    <2>1. TypeOK' BY <1>18 DEF Tick, IInv, TypeOK, bounds
    <2> QED BY <1>18, <2>1 DEF Tick, IInv, LoopOK, FreshIds, StatusMatchesRetries
  <1>19. ASSUME UNCHANGED vars PROVE IInv'
    BY <1>19 DEF vars, rows, loop, bounds, IInv, TypeOK, LoopOK, FreshIds, StatusMatchesRetries
  <1> QED BY <1>1, <1>2, <1>3, <1>4, <1>5, <1>6, <1>7, <1>8, <1>9, <1>10, <1>11, <1>12,
             <1>13, <1>14, <1>15, <1>16, <1>17, <1>18, <1>19 DEF Next, Step

\* Types, and the agreement of status and retry_count, under every
\* interleaving of replicas, backends, crashes and administrators.
THEOREM TypeCorrect == Spec => []TypeOK
  <1>1. IInv => TypeOK BY DEF IInv
  <1> QED BY InitIInv, NextIInv, <1>1, PTL DEF Spec

\* A row that can still run has attempts left; a dead letter has none.
THEOREM StatusRetriesAgree == Spec => []StatusMatchesRetries
  <1>1. IInv => StatusMatchesRetries BY DEF IInv
  <1> QED BY InitIInv, NextIInv, <1>1, PTL DEF Spec
-----------------------------------------------------------------------------
LEMMA InitLInv == ASSUME WithinLease PROVE Init => LInv
  <1> SUFFICES ASSUME Init PROVE LInv OBVIOUS
  <1>1. IInv BY InitIInv
  <1>2. TodoOK BY DEF Init, TodoOK
  <1>3. OneHandlerPerJob BY DEF Init, OneHandlerPerJob, Holds
  <1> QED BY <1>1, <1>2, <1>3 DEF LInv, Init

\* Every step of a replica that holds a row only writes that row, which no
\* recovery has selected; every recovery only writes rows that nobody holds.
LEMMA NextLInv == ASSUME WithinLease PROVE LInv /\ [Next]_vars => LInv' /\ [CompletedStays]_vars
  <1> SUFFICES ASSUME LInv, [Next]_vars PROVE LInv' /\ [CompletedStays]_vars OBVIOUS
  <1> USE ConstantsAssumption DEF WithinLease
  <1>0. IInv' /\ TypeOK /\ LoopOK BY NextIInv DEF LInv, IInv
  <1>1. ASSUME NEW k \in Keys, Enqueue(k) PROVE LInv' /\ CompletedStays
    <2>1. created + 1 \in Jobs /\ status[created + 1] = "none"
      BY <1>1 DEF Enqueue, LInv, IInv, TypeOK, Jobs, FreshIds
    <2>2. TodoOK' BY <1>1, <2>1 DEF Enqueue, LInv, IInv, TypeOK, TodoOK, Stale, loop
    <2>3. OneHandlerPerJob'
      BY <1>1, <2>1 DEF Enqueue, LInv, IInv, TypeOK, OneHandlerPerJob, Holds, loop
    <2>4. CompletedStays BY <1>1, <2>1 DEF Enqueue, CompletedStays, LInv, IInv, TypeOK
    <2> QED BY <1>0, <1>1, <2>2, <2>3, <2>4 DEF LInv, Enqueue
  <1>2. ASSUME NEW w \in Workers, Start(w) PROVE LInv' /\ CompletedStays
    <2>1. TodoOK'
      BY <1>2 DEF Start, Goto, LInv, IInv, TypeOK, TodoOK, Stale, rows
    <2>2. OneHandlerPerJob'
      BY <1>2 DEF Start, Goto, LInv, IInv, TypeOK, OneHandlerPerJob, Holds, rows
    <2> QED BY <1>0, <1>2, <2>1, <2>2 DEF LInv, Start, CompletedStays, rows
  <1>3. ASSUME NEW w \in Workers, RecoverRow(w) PROVE LInv' /\ CompletedStays
    <2>1. PICK t \in todo[w] :
            /\ SetFailedIfThere(t[1], IF Postgres THEN retryCount[t[1]] + 1 ELSE t[2])
            /\ todo' = [todo EXCEPT ![w] = @ \ {t}]
      BY <1>3 DEF RecoverRow
    <2> DEFINE j == t[1]
               n == IF Postgres THEN retryCount[t[1]] + 1 ELSE t[2]
    <2>2. j \in Jobs /\ n \in Nat \ {0}
      BY <2>1 DEF LInv, IInv, TypeOK
    <2>3. Stale(j) \/ status[j] = "retry" \/ status[j] = "dead_letter"
      BY <2>1 DEF LInv, TodoOK
    <2>4. SetFailed(j, n)
      BY <2>1, <2>3 DEF SetFailedIfThere, Exists, Stale
    <2>5. ~(n > MaxRetries) => Backoff(n) > 0
      BY <2>2, BackoffAssumption
    <2>6. /\ status'[j] \in {"retry", "dead_letter"}
          /\ status'[j] = "retry" => wait'[j] > 0
          /\ \A i \in Jobs \ {j} : status'[i] = status[i] /\ wait'[i] = wait[i] /\ age'[i] = age[i]
      BY <2>2, <2>4, <2>5 DEF SetFailed, LInv, IInv, TypeOK
    <2> HIDE DEF j
    <2>7. TodoOK'
      <3> SUFFICES ASSUME NEW v \in Workers
                   PROVE  /\ pc'[v] # "recovering" => todo'[v] = {}
                          /\ \A u \in todo'[v] :
                               \/ Stale(u[1])'
                               \/ status'[u[1]] = "retry" /\ wait'[u[1]] > 0
                               \/ status'[u[1]] = "dead_letter"
        BY DEF TodoOK
      <3>1. pc' = pc /\ todo'[v] \subseteq todo[v]
        BY <1>3, <2>1 DEF RecoverRow, LInv, IInv, TypeOK
      <3>2. \A u \in todo'[v] : u[1] \in Jobs
        BY <3>1 DEF LInv, IInv, TypeOK
      <3> QED BY <2>6, <3>1, <3>2 DEF LInv, TodoOK, Stale
    <2>8. \A v \in Workers : ~Holds(v, j)
      BY <2>2, <2>3 DEF LInv, OneHandlerPerJob, Stale
    <2>9. OneHandlerPerJob'
      BY <1>3, <2>6, <2>8 DEF RecoverRow, LInv, OneHandlerPerJob, Holds
    <2>10. CompletedStays
      BY <2>2, <2>3, <2>6 DEF CompletedStays, Stale
    <2> QED BY <1>0, <1>3, <2>7, <2>9, <2>10 DEF LInv, RecoverRow
  <1>4. ASSUME NEW w \in Workers, RecoverRaises(w) \/ RunForever(w)
        PROVE LInv' /\ CompletedStays
    <2>1. TodoOK'
      BY <1>4 DEF RecoverRaises, RunForever, Goto, LInv, IInv, TypeOK, TodoOK, Stale, rows
    <2>2. OneHandlerPerJob'
      BY <1>4 DEF RecoverRaises, RunForever, Goto, LInv, IInv, TypeOK, OneHandlerPerJob, Holds, rows
    <2> QED BY <1>0, <1>4, <2>1, <2>2 DEF LInv, RecoverRaises, RunForever, CompletedStays, rows
  <1>5. ASSUME NEW w \in Workers, ClaimNext(w) \/ StopDuringClaim(w)
        PROVE LInv' /\ CompletedStays
    <2>1. PICK j \in Jobs :
            /\ Oldest(j) /\ SetClaimed(j)
            /\ \/ job' = [job EXCEPT ![w] = j] /\ Goto(w, "handling")
               \/ job' = job /\ Goto(w, "down")
      BY <1>5 DEF ClaimNext, StopDuringClaim
    <2>2. Ready(j) BY <2>1, OldestReady
    <2>3. pc[w] = "idle" /\ UNCHANGED <<todo, admin>>
      BY <1>5 DEF ClaimNext, StopDuringClaim
    <2>4. \A v \in Workers : \A t \in todo[v] : t[1] # j
      BY <2>2 DEF LInv, TodoOK, Ready, Stale, IInv, TypeOK
    <2>5. TodoOK'
      <3>1. \A v \in Workers : \A t \in todo[v] : t[1] \in Jobs
        BY DEF LInv, IInv, TypeOK
      <3>2. \A v \in Workers : pc'[v] # "recovering" => pc[v] # "recovering"
        BY <2>1, <2>3 DEF Goto, LInv, IInv, TypeOK
      <3> QED BY <2>1, <2>3, <2>4, <3>1, <3>2 DEF SetClaimed, LInv, IInv, TypeOK, TodoOK, Stale
    <2>6. \A v \in Workers : ~Holds(v, j)
      BY <2>2 DEF LInv, OneHandlerPerJob, Ready
    <2>7. OneHandlerPerJob'
      <3>1. \A v \in Workers, i \in Jobs : Holds(v, i)' => Holds(v, i) \/ (v = w /\ i = j)
        BY <2>1 DEF Holds, Goto, LInv, IInv, TypeOK
      <3>2. status'[j] = "running" /\ age'[j] = 0
        BY <2>1 DEF SetClaimed, LInv, IInv, TypeOK
      <3>3. \A i \in Jobs \ {j} : status'[i] = status[i] /\ age'[i] = age[i]
        BY <2>1 DEF SetClaimed, LInv, IInv, TypeOK
      <3>4. ~\E i \in Jobs : Holds(w, i)
        BY <2>3 DEF Holds
      <3> QED BY <2>6, <3>1, <3>2, <3>3, <3>4 DEF LInv, OneHandlerPerJob
    <2>8. CompletedStays
      BY <2>1, <2>2 DEF CompletedStays, SetClaimed, Ready, LInv, IInv, TypeOK
    <2> QED BY <1>0, <2>3, <2>5, <2>7, <2>8 DEF LInv
  <1>6. ASSUME NEW w \in Workers, Handled(w) \/ HandlerRaises(w) \/ FailRead(w)
        PROVE LInv' /\ CompletedStays
    <2>1. TodoOK'
      BY <1>6 DEF Handled, HandlerRaises, FailRead, Goto, LInv, IInv, TypeOK, TodoOK, Stale, rows
    <2>2. OneHandlerPerJob'
      BY <1>6 DEF Handled, HandlerRaises, FailRead, Goto, LInv, IInv, TypeOK, OneHandlerPerJob, Holds, rows
    <2> QED BY <1>0, <1>6, <2>1, <2>2
        DEF LInv, Handled, HandlerRaises, FailRead, CompletedStays, rows
  <1>7. ASSUME NEW w \in Workers, Complete(w) \/ FailLocked(w) \/ FailWrite(w)
        PROVE LInv' /\ CompletedStays
    <2> DEFINE j == job[w]
    <2>1. j \in Jobs /\ Holds(w, j)
      BY <1>0, <1>7 DEF Complete, FailLocked, FailWrite, LoopOK, Working, Holds
    <2>2. status[j] = "running" /\ age[j] < Lease /\ \A v \in Workers \ {w} : ~Holds(v, j)
      BY <2>1 DEF LInv, OneHandlerPerJob
    <2>3. \A v \in Workers : \A t \in todo[v] : t[1] # j
      BY <2>1, <2>2 DEF LInv, TodoOK, Stale, IInv, TypeOK
    <2>4. /\ \A i \in Jobs \ {j} : status'[i] = status[i] /\ wait'[i] = wait[i] /\ age'[i] = age[i]
          /\ Goto(w, "idle") /\ job' = [job EXCEPT ![w] = NoJob]
          /\ UNCHANGED <<todo, admin>>
      BY <1>7, <2>1, <2>2
      DEF Complete, FailLocked, FailWrite, SetFailedIfThere, SetFailed, Exists, LInv, IInv, TypeOK
    <2> HIDE DEF j
    <2>5. TodoOK'
      <3>1. \A v \in Workers : \A t \in todo[v] : t[1] \in Jobs
        BY DEF LInv, IInv, TypeOK
      <3>2. \A v \in Workers : pc'[v] # "recovering" => pc[v] # "recovering" \/ v = w
        BY <2>4 DEF Goto, LInv, IInv, TypeOK
      <3>3. todo[w] = {}
        BY <2>1 DEF Holds, LInv, TodoOK
      <3> QED BY <2>3, <2>4, <3>1, <3>2, <3>3 DEF LInv, TodoOK, Stale
    <2>6. OneHandlerPerJob'
      <3>1. \A v \in Workers, i \in Jobs : Holds(v, i)' => Holds(v, i) /\ v # w
        BY <2>4 DEF Holds, Goto, LInv, IInv, TypeOK
      <3> QED BY <2>2, <2>4, <3>1 DEF LInv, OneHandlerPerJob
    <2>7. CompletedStays BY <2>2, <2>4 DEF CompletedStays
    <2> QED BY <1>0, <2>4, <2>5, <2>6, <2>7 DEF LInv
  <1>8. ASSUME NEW w \in Workers, FailRaises(w) \/ StoreRaises(w) \/ Crash(w)
        PROVE LInv' /\ CompletedStays
    <2>1. TodoOK'
      BY <1>8 DEF FailRaises, StoreRaises, Crash, Goto, LInv, IInv, TypeOK, TodoOK, Stale, rows
    <2>2. OneHandlerPerJob'
      BY <1>8 DEF FailRaises, StoreRaises, Crash, Goto, LInv, IInv, TypeOK, OneHandlerPerJob, Holds, rows
    <2> QED BY <1>0, <1>8, <2>1, <2>2 DEF LInv, FailRaises, StoreRaises, Crash, CompletedStays, rows
  <1>9. ASSUME NEW op \in {"requeue", "purge"}, NEW j \in Jobs, AdminCall(op, j) \/ AdminWrite(op, j)
        PROVE FALSE
    BY <1>9 DEF AdminCall, AdminWrite, LInv, IInv, TypeOK
  <1>10. ASSUME Tick PROVE LInv' /\ CompletedStays
    <2>1. TodoOK'
      BY <1>10 DEF Tick, LInv, TodoOK
    <2>2. OneHandlerPerJob'
      <3> SUFFICES ASSUME NEW w \in Workers, NEW j \in Jobs, Holds(w, j)'
                   PROVE  /\ status'[j] = "running" /\ age'[j] < Lease
                          /\ \A v \in Workers \ {w} : ~Holds(v, j)'
        BY DEF OneHandlerPerJob
      <3>1. Holds(w, j) /\ \A v \in Workers : Holds(v, j)' => Holds(v, j)
        BY <1>10 DEF Tick, Holds
      <3>2. age[j] + 1 < Lease /\ status' = status
        BY <1>10, <3>1 DEF Tick
      <3>3. age'[j] < Lease
        BY <1>10, <3>2 DEF Tick, LInv, IInv, TypeOK
      <3> QED BY <3>1, <3>2, <3>3 DEF LInv, OneHandlerPerJob
    <2> QED BY <1>0, <1>10, <2>1, <2>2 DEF LInv, Tick, CompletedStays
  <1>11. ASSUME UNCHANGED vars PROVE LInv'
    BY <1>0, <1>11 DEF vars, rows, loop, bounds, LInv, TodoOK, Stale, OneHandlerPerJob, Holds
  <1> QED BY <1>1, <1>2, <1>3, <1>4, <1>5, <1>6, <1>7, <1>8, <1>9, <1>10, <1>11 DEF Next, Step

\* While handlers keep within their lease and nobody requeues by hand, a job is
\* never handled by two replicas at once.
THEOREM LeaseProtects == ASSUME WithinLease PROVE Spec => []OneHandlerPerJob
  <1>1. LInv => OneHandlerPerJob BY DEF LInv
  <1> QED BY InitLInv, NextLInv, <1>1, PTL DEF Spec

\* Under the same conditions a completed job is never run again.
THEOREM CompletedIsFinal == ASSUME WithinLease PROVE Spec => CompletedFinal
  <1>1. CompletedFinal <=> [][CompletedStays]_vars
    BY PTL DEF CompletedFinal, CompletedStays
  <1> QED BY InitLInv, NextLInv, <1>1, PTL DEF Spec
-----------------------------------------------------------------------------
(* Attempts.  Two Postgres replicas that recover at the same time each add one
   to the row they both selected, so the count is exact only over SQLite, whose
   recoveries write the same number twice, or with a single replica. *)

ExactCounts == WithinLease /\ (Postgres => \A v, w \in Workers : v = w)

\* A selected row is still stale and its recorded count one ahead of it, or,
\* with SQLite, another recovery has already written that count.
TodoCounts ==
    \A w \in Workers : \A t \in todo[w] :
        \/ Stale(t[1]) /\ t[2] = retryCount[t[1]] + 1
        \/ ~Postgres /\ status[t[1]] \in {"retry", "dead_letter"} /\ retryCount[t[1]] = t[2]

\* What fail() has read is still there when it writes.
CountCurrent == \A w \in Workers : pc[w] = "writing" => count[w] = retryCount[job[w]] + 1

FreshClaims == \A j \in Jobs : j > created => claims[j] = 0

AInv == LInv /\ TodoCounts /\ CountCurrent /\ FreshClaims /\ AttemptAccounting

LEMMA InitAInv == ASSUME ExactCounts PROVE Init => AInv
  <1> SUFFICES ASSUME Init PROVE AInv OBVIOUS
  <1>1. LInv BY InitLInv DEF ExactCounts
  <1> QED BY <1>1 DEF Init, AInv, TodoCounts, CountCurrent, FreshClaims, AttemptAccounting, Exists

\* The row a worker holds is selected by no recovery, and by no other worker.
LEMMA HeldAlone ==
  ASSUME LInv, NEW w \in Workers, NEW j \in Jobs, Holds(w, j)
  PROVE  /\ status[j] = "running" /\ ~Stale(j)
         /\ \A v \in Workers \ {w} : ~Holds(v, j)
         /\ \A v \in Workers : \A t \in todo[v] : t[1] # j
  <1>1. status[j] = "running" /\ ~Stale(j) /\ \A v \in Workers \ {w} : ~Holds(v, j)
    BY ConstantsAssumption DEF LInv, OneHandlerPerJob, Stale
  <1>2. \A v \in Workers : \A t \in todo[v] : t[1] # j
    BY <1>1 DEF LInv, TodoOK
  <1> QED BY <1>1, <1>2

\* One more attempt on row j: every conjunct about the other rows is untouched.
LEMMA AttemptCounted ==
  ASSUME LInv, AttemptAccounting, NEW j \in Jobs, NEW n \in Nat, SetFailed(j, n),
         Exists(j), claims[j] = n
  PROVE  AttemptAccounting'
  <1>1. \A i \in Jobs \ {j} : status'[i] = status[i] /\ retryCount'[i] = retryCount[i]
    BY DEF SetFailed, LInv, IInv, TypeOK
  <1>2. status'[j] \in {"retry", "dead_letter"} /\ retryCount'[j] = n /\ claims' = claims
    BY DEF SetFailed, LInv, IInv, TypeOK
  <1> QED BY <1>1, <1>2 DEF LInv, IInv, TypeOK, AttemptAccounting, Exists

LEMMA NextAInv == ASSUME ExactCounts PROVE AInv /\ [Next]_vars => AInv'
  <1> SUFFICES ASSUME AInv, [Next]_vars PROVE AInv' OBVIOUS
  <1> USE ConstantsAssumption DEF ExactCounts
  <1>0. LInv /\ LInv' /\ IInv /\ TypeOK /\ LoopOK /\ FreshIds /\ TodoOK
    BY NextLInv DEF AInv, LInv, IInv
  <1>1. ASSUME NEW k \in Keys, Enqueue(k) PROVE AInv'
    <2>1. created + 1 \in Jobs /\ status[created + 1] = "none"
          /\ retryCount[created + 1] = 0 /\ claims[created + 1] = 0
      BY <1>0, <1>1 DEF Enqueue, TypeOK, Jobs, FreshIds, AInv, FreshClaims
    <2>2. \A j \in Jobs \ {created + 1} : status'[j] = status[j]
      BY <1>0, <1>1 DEF Enqueue, TypeOK
    <2>3. status'[created + 1] = "pending" /\ UNCHANGED <<retryCount, wait, age, claims, loop>>
      BY <1>0, <1>1, <2>1 DEF Enqueue, TypeOK
    <2>4. \A w \in Workers : \A t \in todo[w] : t[1] \in Jobs /\ t[1] # created + 1
      BY <1>0, <2>1 DEF TypeOK, TodoOK, Stale
    <2>5. TodoCounts' BY <2>2, <2>3, <2>4 DEF AInv, TodoCounts, Stale, loop
    <2>6. CountCurrent' BY <2>3 DEF AInv, CountCurrent, loop
    <2>7. FreshClaims'
      <3>1. created \in Nat /\ created' = created + 1 /\ claims' = claims /\ Jobs \subseteq Nat
        BY <1>0, <1>1 DEF Enqueue, TypeOK, Jobs
      <3>2. \A j \in Jobs : j > created' => j > created BY <3>1
      <3> QED BY <3>1, <3>2 DEF AInv, FreshClaims
    <2>8. AttemptAccounting' BY <2>1, <2>2, <2>3 DEF AInv, AttemptAccounting, Exists
    <2> QED BY <1>0, <2>5, <2>6, <2>7, <2>8 DEF AInv
  <1>2. ASSUME NEW w \in Workers, Start(w) PROVE AInv'
    <2>1. UNCHANGED <<rows, job, count>> BY <1>2 DEF Start
    <2>2. TodoCounts'
      BY <1>0, <1>2 DEF Start, AInv, TodoCounts, Stale, TypeOK, rows
    <2>3. CountCurrent' BY <1>0, <1>2, <2>1 DEF Start, Goto, TypeOK, AInv, CountCurrent, rows
    <2> QED BY <1>0, <2>1, <2>2, <2>3 DEF AInv, FreshClaims, AttemptAccounting, Exists, rows
  <1>3. ASSUME NEW w \in Workers, RecoverRow(w) PROVE AInv'
    <2>1. PICK t \in todo[w] :
            /\ SetFailedIfThere(t[1], IF Postgres THEN retryCount[t[1]] + 1 ELSE t[2])
            /\ todo' = [todo EXCEPT ![w] = @ \ {t}]
      BY <1>3 DEF RecoverRow
    <2> DEFINE j == t[1]
    <2>2. j \in Jobs /\ t[2] \in Nat /\ t = <<t[1], t[2]>>
      BY <1>0, <2>1 DEF TypeOK
    <2>3. \/ Stale(j) /\ t[2] = retryCount[j] + 1
          \/ ~Postgres /\ status[j] \in {"retry", "dead_letter"} /\ retryCount[j] = t[2]
      BY <2>1 DEF AInv, TodoCounts
    <2>4. Exists(j) /\ SetFailed(j, t[2]) /\ claims[j] = t[2]
      <3>1. Exists(j) BY <2>3 DEF Stale, Exists
      <3>2. claims[j] = t[2]
        BY <1>0, <2>2, <2>3, <3>1 DEF Stale, AInv, AttemptAccounting, TypeOK
      <3>3. SetFailed(j, t[2])
        BY <2>1, <2>3, <3>1 DEF SetFailedIfThere
      <3> QED BY <3>1, <3>2, <3>3
    <2>5. /\ \A i \in Jobs \ {j} : status'[i] = status[i] /\ age'[i] = age[i]
                                    /\ retryCount'[i] = retryCount[i]
          /\ status'[j] \in {"retry", "dead_letter"} /\ retryCount'[j] = t[2]
          /\ UNCHANGED <<created, claims, pc, job, count>>
      BY <1>0, <1>3, <2>2, <2>4 DEF SetFailed, TypeOK, RecoverRow
    <2>6. TodoCounts'
      <3> SUFFICES ASSUME NEW v \in Workers, NEW u \in todo'[v]
                   PROVE  \/ Stale(u[1])' /\ u[2] = retryCount'[u[1]] + 1
                          \/ /\ ~Postgres /\ status'[u[1]] \in {"retry", "dead_letter"}
                             /\ retryCount'[u[1]] = u[2]
        BY DEF TodoCounts
      <3>1. u \in todo[v] /\ u[1] \in Jobs /\ u[2] \in Nat /\ u = <<u[1], u[2]>>
        BY <1>0, <2>1 DEF TypeOK
      <3>2. \/ Stale(u[1]) /\ u[2] = retryCount[u[1]] + 1
            \/ ~Postgres /\ status[u[1]] \in {"retry", "dead_letter"} /\ retryCount[u[1]] = u[2]
        BY <3>1 DEF AInv, TodoCounts
      <3>3. CASE u[1] # j
        BY <2>5, <3>1, <3>2, <3>3 DEF Stale
      <3>4. CASE u[1] = j
        <4>1. u[2] = t[2]
          BY <1>0, <2>2, <2>3, <3>2, <3>4 DEF Stale, TypeOK
        <4>2. u = t BY <2>2, <3>1, <3>4, <4>1
        <4>3. v # w BY <1>0, <2>1, <4>2 DEF TypeOK
        <4>4. ~Postgres BY <4>3
        <4> QED BY <2>5, <3>4, <4>1, <4>4
      <3> QED BY <3>3, <3>4
    <2>7. \A v \in Workers : ~Holds(v, j)
      BY <1>0, <2>1, <2>2, HeldAlone
    <2>8. CountCurrent'
      BY <1>0, <2>5, <2>7 DEF AInv, CountCurrent, Holds, LoopOK, Working
    <2>9. AttemptAccounting' BY <1>0, <2>2, <2>4, AttemptCounted DEF AInv
    <2>10. FreshClaims' BY <2>5 DEF AInv, FreshClaims
    <2> QED BY <1>0, <2>6, <2>8, <2>9, <2>10 DEF AInv
  <1>4. ASSUME NEW w \in Workers,
               RecoverRaises(w) \/ RunForever(w) \/ Handled(w) \/ HandlerRaises(w) \/ FailRaises(w)
                 \/ StoreRaises(w) \/ Crash(w)
        PROVE AInv'
    <2>1. UNCHANGED rows /\ \A v \in Workers : todo'[v] \subseteq todo[v]
      BY <1>0, <1>4 DEF RecoverRaises, RunForever, Handled, HandlerRaises, FailRaises, StoreRaises,
                        Crash, TypeOK
    <2>2. \A v \in Workers : pc'[v] = "writing" =>
                               pc[v] = "writing" /\ job'[v] = job[v] /\ count'[v] = count[v]
      BY <1>0, <1>4 DEF RecoverRaises, RunForever, Handled, HandlerRaises, FailRaises, StoreRaises,
                        Crash, Goto, TypeOK
    <2>3. TodoCounts' BY <2>1 DEF AInv, TodoCounts, Stale, rows
    <2>4. CountCurrent' BY <2>1, <2>2 DEF AInv, CountCurrent, rows
    <2> QED BY <1>0, <2>1, <2>3, <2>4 DEF AInv, FreshClaims, AttemptAccounting, Exists, rows
  <1>5. ASSUME NEW w \in Workers, ClaimNext(w) \/ StopDuringClaim(w) PROVE AInv'
    <2>1. PICK j \in Jobs : Oldest(j) /\ SetClaimed(j)
      BY <1>5 DEF ClaimNext, StopDuringClaim
    <2>2. Ready(j) BY <2>1, OldestReady
    <2>3. \A v \in Workers : \A t \in todo[v] : t[1] \in Jobs /\ t[1] # j
      BY <1>0, <2>2 DEF TodoOK, Ready, Stale, TypeOK
    <2>4. /\ \A i \in Jobs \ {j} : status'[i] = status[i] /\ age'[i] = age[i]
                                    /\ claims'[i] = claims[i]
          /\ status'[j] = "running" /\ claims'[j] = claims[j] + 1
          /\ UNCHANGED <<created, retryCount, todo, count>>
      BY <1>0, <1>5, <2>1 DEF SetClaimed, TypeOK, ClaimNext, StopDuringClaim
    <2>5. \A v \in Workers : pc'[v] = "writing" => pc[v] = "writing" /\ job'[v] = job[v]
      BY <1>0, <1>5 DEF ClaimNext, StopDuringClaim, Goto, TypeOK
    <2>6. TodoCounts' BY <2>3, <2>4 DEF AInv, TodoCounts, Stale
    <2>7. CountCurrent' BY <2>4, <2>5 DEF AInv, CountCurrent
    <2>8. j <= created BY <1>0, <2>2 DEF FreshIds, Ready, TypeOK, Jobs
    <2>9. FreshClaims'
      <3>1. \A i \in Jobs : i > created => i # j BY <1>0, <2>8 DEF TypeOK, Jobs
      <3> QED BY <2>4, <3>1 DEF AInv, FreshClaims
    <2>10. AttemptAccounting'
      BY <1>0, <2>2, <2>4 DEF AInv, AttemptAccounting, Exists, Ready, TypeOK
    <2> QED BY <1>0, <2>6, <2>7, <2>9, <2>10 DEF AInv
  <1>6. ASSUME NEW w \in Workers, FailRead(w) PROVE AInv'
    <2>1. UNCHANGED <<rows, job, todo>> BY <1>6 DEF FailRead
    <2>2. CountCurrent'
      BY <1>0, <1>6, <2>1 DEF FailRead, Goto, TypeOK, AInv, CountCurrent, rows
    <2> QED BY <1>0, <2>1, <2>2
        DEF AInv, TodoCounts, Stale, FreshClaims, AttemptAccounting, Exists, rows
  <1>7. ASSUME NEW w \in Workers, Complete(w) \/ FailLocked(w) \/ FailWrite(w) PROVE AInv'
    <2> DEFINE j == job[w]
    <2>1. j \in Jobs /\ Holds(w, j)
      BY <1>0, <1>7 DEF Complete, FailLocked, FailWrite, LoopOK, Working, Holds
    <2>2. /\ status[j] = "running" /\ \A v \in Workers \ {w} : ~Holds(v, j)
          /\ \A v \in Workers : \A t \in todo[v] : t[1] # j
      BY <1>0, <2>1, HeldAlone
    <2>3. /\ \A i \in Jobs \ {j} : status'[i] = status[i] /\ age'[i] = age[i]
                                    /\ retryCount'[i] = retryCount[i]
          /\ pc' = [pc EXCEPT ![w] = "idle"] /\ job' = [job EXCEPT ![w] = NoJob]
          /\ UNCHANGED <<created, todo, claims>>
          /\ \A v \in Workers \ {w} : count'[v] = count[v]
      BY <1>0, <1>7, <2>1, <2>2
      DEF Complete, FailLocked, FailWrite, Goto, SetFailedIfThere, SetFailed, Exists, TypeOK
    <2>4. claims[j] = retryCount[j] + 1
      BY <1>0, <2>1, <2>2 DEF AInv, AttemptAccounting, Exists
    <2>5. AttemptAccounting'
      <3>1. CASE Complete(w)
        BY <1>0, <2>1, <2>2, <3>1 DEF Complete, Exists, AInv, AttemptAccounting, TypeOK
      <3>2. CASE FailLocked(w)
        BY <1>0, <2>1, <2>4, <3>2, AttemptCounted DEF FailLocked, AInv, TypeOK
      <3>3. CASE FailWrite(w)
        <4>1. Exists(j) /\ SetFailed(j, count[w])
          BY <2>2, <3>3 DEF FailWrite, SetFailedIfThere, Exists
        <4>2. count[w] \in Nat /\ claims[j] = count[w]
          BY <1>0, <2>4, <3>3 DEF FailWrite, AInv, CountCurrent, TypeOK
        <4> QED BY <1>0, <2>1, <4>1, <4>2, AttemptCounted DEF AInv
      <3> QED BY <1>7, <3>1, <3>2, <3>3
    <2> HIDE DEF j
    <2>6. TodoCounts'
      <3>1. \A v \in Workers : \A t \in todo[v] : t[1] \in Jobs
        BY <1>0 DEF TypeOK
      <3> QED BY <2>2, <2>3, <3>1 DEF AInv, TodoCounts, Stale
    <2>7. CountCurrent'
      <3> SUFFICES ASSUME NEW v \in Workers, pc'[v] = "writing"
                   PROVE  count'[v] = retryCount'[job'[v]] + 1
        BY DEF CountCurrent
      <3>1. v # w /\ pc[v] = "writing" /\ job'[v] = job[v] /\ count'[v] = count[v]
        BY <1>0, <2>3 DEF TypeOK
      <3>2. job[v] \in Jobs /\ job[v] # j
        BY <1>0, <2>2, <3>1 DEF LoopOK, Working, Holds
      <3> QED BY <2>3, <3>1, <3>2 DEF AInv, CountCurrent
    <2>8. FreshClaims' BY <2>3 DEF AInv, FreshClaims
    <2> QED BY <1>0, <2>5, <2>6, <2>7, <2>8 DEF AInv
  <1>8. ASSUME NEW op \in {"requeue", "purge"}, NEW j \in Jobs, AdminCall(op, j) \/ AdminWrite(op, j)
        PROVE FALSE
    BY <1>0, <1>8 DEF AdminCall, AdminWrite, LInv, TypeOK, WithinLease
  <1>9. ASSUME Tick PROVE AInv'
    <2>1. \A w \in Workers : todo[w] = {} /\ pc[w] # "writing"
      BY <1>0, <1>9 DEF Tick, TodoOK
    <2>2. UNCHANGED <<created, status, retryCount, claims, pc, todo>> BY <1>9 DEF Tick
    <2> QED BY <1>0, <2>1, <2>2
        DEF AInv, TodoCounts, CountCurrent, FreshClaims, AttemptAccounting, Exists
  <1>10. ASSUME UNCHANGED vars PROVE AInv'
    BY <1>0, <1>10 DEF vars, rows, loop, AInv, TodoCounts, Stale, CountCurrent, FreshClaims,
                       AttemptAccounting, Exists
  <1> QED BY <1>1, <1>2, <1>3, <1>4, <1>5, <1>6, <1>7, <1>8, <1>9, <1>10 DEF Next, Step

\* Every claim is paid for by exactly one retry, whatever crashes and store
\* errors come between; with SQLite, or with a single replica over Postgres.
THEOREM AttemptsAccounted == ASSUME ExactCounts PROVE Spec => []AttemptAccounting
  <1>1. AInv => AttemptAccounting BY DEF AInv
  <1> QED BY InitAInv, NextAInv, <1>1, PTL DEF Spec

\* So a dead letter really has had max_retries + 1 attempts.
THEOREM DeadLettersUsedUp == ASSUME ExactCounts PROVE Spec => []DeadLetterAfterAllAttempts
  <1>1. AInv => DeadLetterAfterAllAttempts
    BY ConstantsAssumption
    DEF AInv, LInv, IInv, TypeOK, AttemptAccounting, StatusMatchesRetries, Exists,
        DeadLetterAfterAllAttempts
  <1> QED BY InitAInv, NextAInv, <1>1, PTL DEF Spec
=============================================================================
