----------------------------- MODULE MCJobQueue -----------------------------
(***************************************************************************)
(* JobQueue for TLC.  Replicas and keys are model values that the          *)
(* specification only compares for equality, so they are symmetric where   *)
(* no liveness is checked.                                                 *)
(***************************************************************************)
EXTENDS JobQueue, TLC

Symmetry == Permutations(Workers) \cup Permutations(Keys)

\* The next-state relation over SQLite without an administrator: with these constants
\* RecoverRaises, FailLocked, FailRaises, AdminCall and AdminWrite are never enabled.
\* MCGuards runs them.
SQLiteNext ==
    \/ \E k \in Keys : Enqueue(k)
    \/ \E w \in Workers :
        \/ Start(w) \/ RecoverRow(w) \/ RunForever(w) \/ ClaimNext(w)
        \/ Handled(w) \/ HandlerRaises(w) \/ Complete(w) \/ FailRead(w) \/ FailWrite(w)
        \/ StoreRaises(w) \/ Crash(w) \/ StopDuringClaim(w)
    \/ Tick

SQLiteSpec == Init /\ [][SQLiteNext]_vars /\ Fairness
=============================================================================
