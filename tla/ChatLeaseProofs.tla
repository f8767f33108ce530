--------------------------- MODULE ChatLeaseProofs ---------------------------
(***************************************************************************)
(* What TLAPS proves of ChatLease, for any number of requests and turns,   *)
(* any lease and any losses: its types, one worker and one answer for each *)
(* request, a well-formed stream, that a settled request stays as it is,   *)
(* and that all this implements ChatTurn.                                  *)
(***************************************************************************)
EXTENDS ChatLease, SequenceTheorems, TLAPS

Terminal == {"chat.completed", "chat.failed"}
Logs == UNION {[1..n -> EventTypes] : n \in Nat}

\* What the row of a request, its events and its answers have to do with each
\* other.
RowOK(s, log, a) ==
    LET n == Last(log)
    IN  /\ log \in Logs
        /\ a \in {0, 1}
        /\ s = "none" => n = 0 /\ a = 0
        /\ s \in Active => \A i \in 1..n : log[i] \notin Terminal
        /\ (s \in Active /\ n > 0) \/ n > 1 => log[1] = "chat.started"
        /\ s \in Settled /\ n > 0 => log[n] \in Terminal
        /\ \A i \in 1..n : i < n => log[i] \notin Terminal
        /\ n > 0 /\ log[n] = "chat.completed" => s = "completed" /\ n > 1 /\ log[n - 1] = "chat.usage"
        /\ n > 0 /\ log[n] = "chat.failed" => s \in {"failed", "interrupted"}
        /\ s = "completed" => a = 1

\* Where a turn p is while its request is active: what it has stored, and that
\* its next number q is free or, after a lost reply, the one of its last delta.
InStep(p, m, q, log, a) ==
    LET n == Last(log)
    IN  /\ p = "loading" \/ m = "ask" \/ p = "starting" => n = 0 /\ a = 0
        /\ p = "starting" => q = 1
        /\ p \in {"streaming", "interrupting", "persisting", "usage", "finishing"}
             => n > 0 /\ q = n + 1
        /\ p = "failing" /\ m = "stream"
             => n > 0 /\ (q = n + 1 \/ (q = n /\ log[n] = "chat.delta"))
        /\ a = IF p \in {"usage", "finishing"} THEN 1 ELSE 0
        /\ p = "finishing" => log[n] = "chat.usage"

Rows ==
    /\ events = [k \in Keys |-> events[k]]
    /\ \A k \in Keys : RowOK(status[k], events[k], answers[k])

TurnOK(t) ==
    /\ key[t] \in Keys /\ status[key[t]] # "none"
    /\ pc[t] # "loading" => token[t] = t
    /\ pc[t] \in {"asking", "answering"} => mode[t] = "ask"
    /\ pc[t] \in {"starting", "streaming", "interrupting", "persisting", "usage", "finishing"}
         => mode[t] = "stream"
    /\ status[key[t]] \in Active =>
         /\ owner[key[t]] = t
         /\ InStep(pc[t], mode[t], seq[t], events[key[t]], answers[key[t]])

TurnsOK == \A t \in Turns : pc[t] # "idle" => TurnOK(t)

\* A heartbeat renews the lease of the turn it was started for.
BeatsOK == \A t \in Turns : beat[t] # "off" => token[t] = t /\ key[t] \in Keys

AtWork(t) == pc[t] \notin {"idle", "loading"}
Alone == \A t, u \in Turns : AtWork(t) /\ AtWork(u) /\ key[t] = key[u] => t = u

IInv == TypeOK /\ Rows /\ TurnsOK /\ BeatsOK /\ Alone
-----------------------------------------------------------------------------
(* Logs *)

LEMMA LastIs ==
  ASSUME NEW n \in Nat, NEW log, DOMAIN log = 1..n PROVE Last(log) = n
  <1> DEFINE P(i) == i \in DOMAIN log \cup {0} /\ \A j \in DOMAIN log : j <= i
  <1>1. P(n) OBVIOUS
  <1>2. ASSUME NEW i, P(i) PROVE i = n
    <2>1. i \in 0..n BY <1>2
    <2>2. n > 0 => n \in DOMAIN log OBVIOUS
    <2>3. n > 0 => n <= i BY <1>2, <2>2
    <2> QED BY <2>1, <2>3
  <1>3. Last(log) = CHOOSE i : P(i) BY DEF Last
  <1> HIDE DEF P
  <1>4. P(CHOOSE i : P(i)) BY <1>1
  <1> QED BY <1>2, <1>3, <1>4

LEMMA LogsLast ==
  ASSUME NEW log \in Logs
  PROVE  /\ Last(log) \in Nat /\ DOMAIN log = 1..Last(log)
         /\ log \in [1..Last(log) -> EventTypes]
  <1>1. PICK n \in Nat : log \in [1..n -> EventTypes] BY DEF Logs
  <1>2. Last(log) = n BY <1>1, LastIs
  <1> QED BY <1>1, <1>2

LEMMA EmptyLog == [i \in {} |-> "chat.started"] \in Logs /\ Last([i \in {} |-> "chat.started"]) = 0
  <1>1. [i \in {} |-> "chat.started"] \in [1..0 -> EventTypes] OBVIOUS
  <1> QED BY <1>1, LastIs DEF Logs

LEMMA InsertNext ==
  ASSUME NEW log \in Logs, NEW e \in EventTypes
  PROVE  /\ Insert(log, Last(log) + 1, e) \in Logs
         /\ Last(Insert(log, Last(log) + 1, e)) = Last(log) + 1
         /\ Insert(log, Last(log) + 1, e)[Last(log) + 1] = e
         /\ \A i \in 1..Last(log) : Insert(log, Last(log) + 1, e)[i] = log[i]
  <1> DEFINE n == Last(log)  new == Insert(log, n + 1, e)
  <1>1. n \in Nat /\ DOMAIN log = 1..n /\ log \in [1..n -> EventTypes] BY LogsLast
  <1>2. new = [i \in 1..(n + 1) |-> IF i \in 1..n THEN log[i] ELSE e]
    <2>1. DOMAIN log \cup {n + 1} = 1..(n + 1) BY <1>1
    <2> QED BY <1>1, <2>1 DEF Insert
  <1> HIDE DEF n, new
  <1>3. new \in [1..(n + 1) -> EventTypes] BY <1>1, <1>2
  <1>4. new \in Logs /\ Last(new) = n + 1 BY <1>1, <1>3, LastIs DEF Logs
  <1>5. new[n + 1] = e /\ \A i \in 1..n : new[i] = log[i] BY <1>1, <1>2
  <1> QED BY <1>4, <1>5 DEF n, new

\* Storing the event a number already has changes nothing.
LEMMA InsertSame ==
  ASSUME NEW log \in Logs, NEW q \in DOMAIN log, NEW e, log[q] = e
  PROVE  Insert(log, q, e) = log
  <1>1. DOMAIN log \cup {q} = DOMAIN log OBVIOUS
  <1>2. log = [i \in DOMAIN log |-> log[i]] BY LogsLast
  <1> QED BY <1>1, <1>2 DEF Insert

LEMMA RowAppends ==
  ASSUME NEW s \in Active, NEW log, NEW a, RowOK(s, log, a),
         NEW e \in EventTypes \ Terminal, Last(log) = 0 => e = "chat.started", NEW z \in Active
  PROVE  RowOK(z, Insert(log, Last(log) + 1, e), a)
  <1> DEFINE n == Last(log)  new == Insert(log, n + 1, e)
  <1>1. log \in Logs /\ n \in Nat BY LogsLast DEF RowOK
  <1>2. new \in Logs /\ Last(new) = n + 1 /\ new[n + 1] = e /\ \A i \in 1..n : new[i] = log[i]
    BY <1>1, InsertNext
  <1>3. a \in {0, 1} /\ (\A i \in 1..n : log[i] \notin Terminal) /\ (n > 0 => log[1] = "chat.started")
    BY DEF RowOK
  <1> HIDE DEF n, new
  <1>4. \A i \in 1..(n + 1) : new[i] \notin Terminal
    <2>1. \A i \in 1..(n + 1) : i \in 1..n \/ i = n + 1 BY <1>1
    <2> QED BY <1>2, <1>3, <2>1
  <1>5. new[1] = "chat.started"
    <2>1. n = 0 \/ 1 \in 1..n BY <1>1
    <2> QED BY <1>1, <1>2, <1>3, <2>1 DEF n
  <1>6. n + 1 \in 1..(n + 1) /\ n + 1 > 0 /\ n + 1 \in Nat BY <1>1
  <1>7. new[n + 1] \notin Terminal BY <1>4, <1>6
  <1> QED BY <1>2, <1>3, <1>4, <1>5, <1>6, <1>7 DEF RowOK, n, new, Active, Settled, Terminal

LEMMA RowFails ==
  ASSUME NEW s \in Active, NEW log, NEW a, RowOK(s, log, a), NEW z \in {"failed", "interrupted"}
  PROVE  RowOK(z, Insert(log, Last(log) + 1, "chat.failed"), a)
  <1> DEFINE n == Last(log)  new == Insert(log, n + 1, "chat.failed")
  <1>1. log \in Logs /\ n \in Nat BY LogsLast DEF RowOK
  <1>2. new \in Logs /\ Last(new) = n + 1 /\ new[n + 1] = "chat.failed" /\ \A i \in 1..n : new[i] = log[i]
    BY <1>1, InsertNext DEF EventTypes
  <1>3. a \in {0, 1} /\ (\A i \in 1..n : log[i] \notin Terminal) /\ (n > 0 => log[1] = "chat.started")
    BY DEF RowOK
  <1> HIDE DEF n, new
  <1>4. \A i \in 1..(n + 1) : i < n + 1 => new[i] \notin Terminal
    <2>1. \A i \in 1..(n + 1) : i < n + 1 => i \in 1..n BY <1>1
    <2> QED BY <1>2, <1>3, <2>1
  <1>5. n + 1 > 1 => new[1] = "chat.started"
    <2>1. n + 1 > 1 => n > 0 /\ 1 \in 1..n BY <1>1
    <2> QED BY <1>2, <1>3, <2>1
  <1> QED BY <1>2, <1>3, <1>4, <1>5 DEF RowOK, n, new, Active, Settled, Terminal

LEMMA RowCompletes ==
  ASSUME NEW s \in Active, NEW log, RowOK(s, log, 1), Last(log) > 0, log[Last(log)] = "chat.usage"
  PROVE  RowOK("completed", Insert(log, Last(log) + 1, "chat.completed"), 1)
  <1> DEFINE n == Last(log)  new == Insert(log, n + 1, "chat.completed")
  <1>1. log \in Logs /\ n \in Nat BY LogsLast DEF RowOK
  <1>2. new \in Logs /\ Last(new) = n + 1 /\ new[n + 1] = "chat.completed" /\ \A i \in 1..n : new[i] = log[i]
    BY <1>1, InsertNext DEF EventTypes
  <1>3. (\A i \in 1..n : log[i] \notin Terminal) /\ (n > 0 => log[1] = "chat.started")
    BY DEF RowOK
  <1>4. n > 0 /\ log[n] = "chat.usage" OBVIOUS
  <1> HIDE DEF n, new
  <1>5. \A i \in 1..(n + 1) : i < n + 1 => new[i] \notin Terminal
    <2>1. \A i \in 1..(n + 1) : i < n + 1 => i \in 1..n BY <1>1
    <2> QED BY <1>2, <1>3, <2>1
  <1>6. new[1] = "chat.started" /\ (n + 1) - 1 = n /\ new[n] = "chat.usage" /\ n + 1 > 1
    <2>1. 1 \in 1..n /\ n \in 1..n /\ (n + 1) - 1 = n /\ n + 1 > 1 BY <1>1, <1>4
    <2> QED BY <1>2, <1>3, <1>4, <2>1
  <1> QED BY <1>2, <1>5, <1>6 DEF RowOK, n, new, Active, Settled, Terminal

\* A row changes its status without an event: it is answered, or an ask fails.
LEMMA RowSettles ==
  ASSUME NEW s \in Active, NEW log, NEW a, RowOK(s, log, a), NEW b \in {0, 1}, NEW z,
         \/ z \in Active
         \/ z = "completed" /\ b = 1 /\ Last(log) = 0
         \/ z = "failed" /\ Last(log) = 0
  PROVE  RowOK(z, log, b)
  <1>1. Last(log) \in Nat BY LogsLast DEF RowOK
  <1> QED BY <1>1 DEF RowOK, Active, Settled, Terminal
-----------------------------------------------------------------------------
(* Steps *)

States == {"none"} \cup Active \cup Settled
Places == {"idle", "loading", "asking", "answering", "failing", "starting",
           "streaming", "interrupting", "persisting", "usage", "finishing"}

\* What the other turns of an active request are doing: nothing.
LEMMA OwnerAlone ==
  ASSUME IInv, NEW t \in Turns, pc[t] # "idle", status[key[t]] \in Active,
         NEW u \in Turns \ {t}, pc[u] # "idle"
  PROVE  key[u] # key[t]
  BY DEF IInv, TurnsOK, TurnOK

\* A fenced write of turn t, after which it is at l with number q.
LEMMA FencedStep ==
  ASSUME ConstantsOK, IInv, NEW t \in Turns, AtWork(t), Owned(t),
         NEW z \in Active \cup Settled, NEW log, NEW a, RowOK(z, log, a),
         SetRow(key[t], z),
         events' = [events EXCEPT ![key[t]] = log],
         answers' = [answers EXCEPT ![key[t]] = a],
         NEW l \in Places, NEW q \in Nat,
         pc' = [pc EXCEPT ![t] = l], seq' = [seq EXCEPT ![t] = q],
         UNCHANGED <<key, mode>>, losses' \in 0..MaxLosses,
         \/ /\ l # "idle" /\ l # "loading" /\ UNCHANGED <<token, beat>>
            /\ z \in Active /\ InStep(l, mode[t], q, log, a)
            /\ l \in {"asking", "answering"} => mode[t] = "ask"
            /\ l \in {"starting", "streaming", "interrupting", "persisting", "usage", "finishing"}
                 => mode[t] = "stream"
         \/ /\ l = "idle"
            /\ \E b \in {"off", "late"} :
                 /\ b = "late" => beat[t] = "on"
                 /\ beat' = [beat EXCEPT ![t] = b]
                 /\ token' = [token EXCEPT ![t] = IF b = "late" THEN @ ELSE NoTurn]
  PROVE  IInv'
  <1> DEFINE k == key[t]
  <1> USE DEF ConstantsOK, IInv, TypeOK, AtWork
  <1>1. k \in Keys /\ status[k] \in Active /\ TurnOK(t) /\ owner[k] = t
    BY DEF Owned, TurnsOK, TurnOK
  <1>2. \A u \in Turns \ {t} : pc[u] # "idle" => key[u] # k BY <1>1, OwnerAlone
  <1>3. /\ status' = [status EXCEPT ![k] = z]
        /\ owner' = [owner EXCEPT ![k] = IF z \in Settled THEN NoTurn ELSE @]
        /\ lease' = [lease EXCEPT ![k] = IF z \in Settled THEN 0 ELSE Lease]
    BY DEF SetRow
  <1> HIDE DEF k
  <1>4. log \in Logs /\ a \in {0, 1} BY DEF RowOK
  <1>5. log \in [DOMAIN log -> EventTypes] /\ DOMAIN log \subseteq Nat
    <2>1. Last(log) \in Nat /\ DOMAIN log = 1..Last(log) /\ log \in [1..Last(log) -> EventTypes]
      BY <1>4, LogsLast
    <2> QED BY <2>1
  <1>6. TypeOK'
    <2>1. status' \in [Keys -> States] /\ owner' \in [Keys -> Turns \cup {NoTurn}] /\ lease' \in [Keys -> 0..Lease]
      BY <1>1, <1>3 DEF States
    <2>2. \A i \in Keys : Numbers(i)' \subseteq Nat /\ events'[i] \in [Numbers(i)' -> EventTypes]
      BY <1>1, <1>5 DEF Rows, Numbers, k
    <2>3. answers' \in [Keys -> Nat]
      <3>1. a \in Nat BY <1>4
      <3>2. answers \in [Keys -> Nat] OBVIOUS
      <3> QED BY <3>1, <3>2
    <2>4. pc' \in [Turns -> Places] /\ seq' \in [Turns -> Nat] /\ mode' \in [Turns -> {"ask", "stream"}]
          /\ key' \in [Turns -> Keys \cup {NoKey}]
      BY DEF Places
    <2>5. token' \in [Turns -> Turns \cup {NoTurn}] /\ beat' \in [Turns -> {"off", "on", "late"}]
      OBVIOUS
    <2> QED BY <2>1, <2>2, <2>3, <2>4, <2>5 DEF States, Places
  <1>7. Rows'
    <2>1. events' = [i \in Keys |-> events'[i]] BY DEF Rows, k
    <2>2. \A i \in Keys : RowOK(status'[i], events'[i], answers'[i])
      <3>1. status'[k] = z /\ events'[k] = log /\ answers'[k] = a
        BY <1>1, <1>3 DEF Rows, k
      <3>2. \A i \in Keys \ {k} : status'[i] = status[i] /\ events'[i] = events[i] /\ answers'[i] = answers[i]
        BY <1>1, <1>3 DEF Rows, k
      <3> QED BY <3>1, <3>2 DEF Rows
    <2> QED BY <2>1, <2>2 DEF Rows
  <1>8. TurnsOK'
    <2>1. ASSUME NEW u \in Turns \ {t}, pc'[u] # "idle" PROVE TurnOK(u)'
      <3>1. pc[u] # "idle" /\ TurnOK(u) /\ key[u] # k BY <1>2, <2>1 DEF TurnsOK
      <3>2. /\ pc'[u] = pc[u] /\ seq'[u] = seq[u] /\ key'[u] = key[u] /\ mode'[u] = mode[u]
            /\ token'[u] = token[u]
        OBVIOUS
      <3>3. key[u] \in Keys BY <3>1 DEF TurnOK
      <3>4. /\ status'[key[u]] = status[key[u]] /\ owner'[key[u]] = owner[key[u]]
            /\ events'[key[u]] = events[key[u]] /\ answers'[key[u]] = answers[key[u]]
        BY <1>1, <1>3, <3>1, <3>3 DEF Rows, k
      <3> QED BY <3>1, <3>2, <3>4 DEF TurnOK
    <2>2. ASSUME pc'[t] # "idle" PROVE TurnOK(t)'
      <3>1. /\ l # "idle" /\ l # "loading" /\ UNCHANGED <<token, beat>>
            /\ z \in Active /\ InStep(l, mode[t], q, log, a)
            /\ l \in {"asking", "answering"} => mode[t] = "ask"
            /\ l \in {"starting", "streaming", "interrupting", "persisting", "usage", "finishing"}
                 => mode[t] = "stream"
        BY <2>2
      <3>2. pc'[t] = l /\ seq'[t] = q /\ key'[t] = k /\ mode'[t] = mode[t] /\ token'[t] = t
        BY <1>1, <3>1 DEF TurnOK, k
      <3>3. status'[k] = z /\ events'[k] = log /\ answers'[k] = a /\ owner'[k] = t
        BY <1>1, <1>3, <3>1 DEF Rows, k, Active, Settled
      <3>4. z # "none" BY DEF Active, Settled
      <3> QED BY <1>1, <3>1, <3>2, <3>3, <3>4 DEF TurnOK
    <2> QED BY <2>1, <2>2 DEF TurnsOK
  <1>9. BeatsOK'
    BY <1>1 DEF BeatsOK, TurnOK, k
  <1>10. Alone'
    BY DEF Alone
  <1> QED BY <1>6, <1>7, <1>8, <1>9, <1>10

\* A step of turn t that leaves the table alone.
LEMMA LocalStep ==
  ASSUME ConstantsOK, IInv, NEW t \in Turns, pc[t] # "idle", UNCHANGED table,
         NEW l \in Places, NEW q \in Nat,
         pc' = [pc EXCEPT ![t] = l], seq' = [seq EXCEPT ![t] = q],
         UNCHANGED <<key, mode>>, losses' \in 0..MaxLosses,
         \/ /\ l # "idle" /\ l # "loading" /\ AtWork(t) /\ UNCHANGED <<token, beat>>
            /\ status[key[t]] \in Active => InStep(l, mode[t], q, events[key[t]], answers[key[t]])
            /\ l \in {"asking", "answering"} => mode[t] = "ask"
            /\ l \in {"starting", "streaming", "interrupting", "persisting", "usage", "finishing"}
                 => mode[t] = "stream"
         \/ /\ l = "idle"
            /\ \E b \in {"off", "late"} :
                 /\ b = "late" => beat[t] = "on"
                 /\ beat' = [beat EXCEPT ![t] = b]
                 /\ token' = [token EXCEPT ![t] = IF b = "late" THEN @ ELSE NoTurn]
  PROVE  IInv'
  <1> USE DEF ConstantsOK, IInv, TypeOK, table
  <1>1. TurnOK(t) BY DEF TurnsOK
  <1>2. TypeOK'
    <2>1. pc' \in [Turns -> Places] /\ seq' \in [Turns -> Nat] BY DEF Places
    <2>2. token' \in [Turns -> Turns \cup {NoTurn}] /\ beat' \in [Turns -> {"off", "on", "late"}]
      OBVIOUS
    <2> QED BY <2>1, <2>2 DEF Places, Numbers
  <1>3. Rows' BY DEF Rows
  <1>4. TurnsOK'
    <2>1. ASSUME NEW u \in Turns \ {t}, pc'[u] # "idle" PROVE TurnOK(u)'
      <3>1. pc[u] # "idle" /\ TurnOK(u) BY <2>1 DEF TurnsOK
      <3>2. /\ pc'[u] = pc[u] /\ seq'[u] = seq[u] /\ key'[u] = key[u] /\ mode'[u] = mode[u]
            /\ token'[u] = token[u]
        OBVIOUS
      <3> QED BY <3>1, <3>2 DEF TurnOK
    <2>2. ASSUME pc'[t] # "idle" PROVE TurnOK(t)'
      <3>1. /\ l # "idle" /\ l # "loading" /\ AtWork(t) /\ UNCHANGED <<token, beat>>
            /\ status[key[t]] \in Active => InStep(l, mode[t], q, events[key[t]], answers[key[t]])
            /\ l \in {"asking", "answering"} => mode[t] = "ask"
            /\ l \in {"starting", "streaming", "interrupting", "persisting", "usage", "finishing"}
                 => mode[t] = "stream"
        BY <2>2
      <3>2. pc'[t] = l /\ seq'[t] = q /\ key'[t] = key[t] /\ mode'[t] = mode[t] /\ token'[t] = t
        BY <1>1, <3>1 DEF TurnOK, AtWork
      <3> QED BY <1>1, <3>1, <3>2 DEF TurnOK
    <2> QED BY <2>1, <2>2 DEF TurnsOK
  <1>5. BeatsOK' BY <1>1 DEF BeatsOK, TurnOK
  <1>6. Alone' BY DEF Alone, AtWork
  <1> QED BY <1>2, <1>3, <1>4, <1>5, <1>6

\* Turn t begins to load request k, whose row and log are as given.
LEMMA ArriveStep ==
  ASSUME ConstantsOK, IInv, NEW t \in Turns, NEW k \in Keys, NEW m \in {"ask", "stream"},
         Arrive(t, k, m), NEW z \in Active \cup Settled, NEW log, RowOK(z, log, answers[k]),
         NEW o \in Turns \cup {NoTurn}, NEW n \in 0..Lease,
         status' = [status EXCEPT ![k] = z], owner' = [owner EXCEPT ![k] = o],
         lease' = [lease EXCEPT ![k] = n], events' = [events EXCEPT ![k] = log],
         UNCHANGED answers,
         z \in Active => /\ \A u \in Turns : pc[u] # "idle" => key[u] # k
                         /\ o = t /\ Last(log) = 0 /\ answers[k] = 0
  PROVE  IInv'
  <1> USE DEF ConstantsOK, IInv, TypeOK, Arrive, Goto
  <1>1. log \in Logs BY DEF RowOK
  <1>2. log \in [DOMAIN log -> EventTypes] /\ DOMAIN log \subseteq Nat
    <2>1. Last(log) \in Nat /\ DOMAIN log = 1..Last(log) /\ log \in [1..Last(log) -> EventTypes]
      BY <1>1, LogsLast
    <2> QED BY <2>1
  <1>3. TypeOK'
    <2>1. status' \in [Keys -> States] /\ owner' \in [Keys -> Turns \cup {NoTurn}] /\ lease' \in [Keys -> 0..Lease]
      BY DEF States
    <2>2. \A i \in Keys : Numbers(i)' \subseteq Nat /\ events'[i] \in [Numbers(i)' -> EventTypes]
      BY <1>2 DEF Rows, Numbers
    <2>3. pc' \in [Turns -> Places] /\ key' \in [Turns -> Keys \cup {NoKey}] /\ mode' \in [Turns -> {"ask", "stream"}]
      BY DEF Places
    <2> QED BY <2>1, <2>2, <2>3 DEF States, Places
  <1>4. Rows'
    <2>1. events' = [i \in Keys |-> events'[i]] BY DEF Rows
    <2>2. status'[k] = z /\ events'[k] = log BY DEF Rows
    <2>3. \A i \in Keys \ {k} : status'[i] = status[i] /\ events'[i] = events[i] BY DEF Rows
    <2>4. \A i \in Keys : RowOK(status'[i], events'[i], answers'[i]) BY <2>2, <2>3 DEF Rows
    <2> QED BY <2>1, <2>4 DEF Rows
  <1>5. TurnsOK'
    <2>1. ASSUME NEW u \in Turns \ {t}, pc'[u] # "idle" PROVE TurnOK(u)'
      <3>1. pc[u] # "idle" /\ TurnOK(u) BY <2>1 DEF TurnsOK
      <3>2. /\ pc'[u] = pc[u] /\ seq'[u] = seq[u] /\ key'[u] = key[u] /\ mode'[u] = mode[u]
            /\ token'[u] = token[u]
        OBVIOUS
      <3>3. CASE key[u] # k
        <4>1. key[u] \in Keys BY <3>1 DEF TurnOK
        <4>2. /\ status'[key[u]] = status[key[u]] /\ owner'[key[u]] = owner[key[u]]
              /\ events'[key[u]] = events[key[u]]
          BY <3>3, <4>1 DEF Rows
        <4> QED BY <3>1, <3>2, <4>2 DEF TurnOK
      <3>4. CASE key[u] = k
        <4>1. z \notin Active /\ status'[k] = z BY <3>1, <3>4
        <4>2. z # "none" BY DEF Active, Settled
        <4> QED BY <3>1, <3>2, <3>4, <4>1, <4>2 DEF TurnOK
      <3> QED BY <3>3, <3>4
    <2>2. TurnOK(t)'
      <3>1. pc'[t] = "loading" /\ key'[t] = k BY DEF Rows
      <3>2. status'[k] = z /\ events'[k] = log /\ owner'[k] = o /\ answers'[k] = answers[k] BY DEF Rows
      <3>3. z # "none" BY DEF Active, Settled
      <3>4. z \in Active => InStep("loading", mode'[t], seq'[t], log, answers[k]) BY DEF InStep
      <3> QED BY <3>1, <3>2, <3>3, <3>4 DEF TurnOK
    <2> QED BY <2>1, <2>2 DEF TurnsOK
  <1>6. BeatsOK' BY DEF BeatsOK
  <1>7. Alone' BY DEF Alone, AtWork
  <1> QED BY <1>3, <1>4, <1>5, <1>6, <1>7
-----------------------------------------------------------------------------
(* The invariant *)

LEMMA InitIInv == ConstantsOK /\ Init => IInv
  <1> SUFFICES ASSUME ConstantsOK, Init PROVE IInv OBVIOUS
  <1> USE DEF Init, ConstantsOK
  <1>1. TypeOK
    <2>1. \A k \in Keys : Numbers(k) \subseteq Nat /\ events[k] \in [Numbers(k) -> EventTypes]
      BY DEF Numbers
    <2> QED BY <2>1 DEF TypeOK
  <1>2. Rows
    <2>1. RowOK("none", [i \in {} |-> "chat.started"], 0)
      <3> DEFINE log == [i \in {} |-> "chat.started"]
      <3>1. log \in Logs /\ Last(log) = 0 BY EmptyLog
      <3> HIDE DEF log
      <3> QED BY <3>1 DEF RowOK, Active, Settled, log
    <2> QED BY <2>1 DEF Rows
  <1>3. TurnsOK /\ BeatsOK /\ Alone BY DEF TurnsOK, BeatsOK, Alone, AtWork
  <1> QED BY <1>1, <1>2, <1>3 DEF IInv

\* What IInv says of the row that turn t works on, while the turn owns it.
LEMMA OwnedRow ==
  ASSUME IInv, NEW t \in Turns, pc[t] # "idle", Owned(t)
  PROVE  /\ key[t] \in Keys /\ status[key[t]] \in Active
         /\ RowOK(status[key[t]], events[key[t]], answers[key[t]])
         /\ InStep(pc[t], mode[t], seq[t], events[key[t]], answers[key[t]])
         /\ events[key[t]] \in Logs /\ Last(events[key[t]]) \in Nat
         /\ DOMAIN events[key[t]] = 1..Last(events[key[t]])
  <1>1. key[t] \in Keys /\ status[key[t]] \in Active
        /\ InStep(pc[t], mode[t], seq[t], events[key[t]], answers[key[t]])
    BY DEF IInv, TurnsOK, TurnOK, Owned
  <1>2. RowOK(status[key[t]], events[key[t]], answers[key[t]]) BY <1>1 DEF IInv, Rows
  <1>3. events[key[t]] \in Logs BY <1>2 DEF RowOK
  <1> QED BY <1>1, <1>2, <1>3, LogsLast

\* An event is stored behind the others, or is the last of them already.
LEMMA AppendedAt ==
  ASSUME IInv, NEW t \in Turns, AtWork(t), mode[t] = "stream", NEW e \in EventTypes \ {"chat.delta"},
         NEW s, Appended(t, e, s)
  PROVE  /\ seq[t] = Last(events[key[t]]) + 1
         /\ seq[t] \notin Numbers(key[t])
  <1> DEFINE k == key[t]  n == Last(events[k])
  <1>1. Owned(t) /\ (seq[t] \in Numbers(k) => events[k][seq[t]] = e) BY DEF Appended
  <1>2. n \in Nat /\ Numbers(k) = 1..n /\ InStep(pc[t], mode[t], seq[t], events[k], answers[k])
    BY <1>1, OwnedRow DEF AtWork, Numbers
  <1>3. pc[t] \in Places BY DEF IInv, TypeOK, Places
  <1>4. pc[t] \notin {"asking", "answering"} BY DEF IInv, TurnsOK, TurnOK, AtWork
  <1>5. seq[t] = n + 1 \/ (seq[t] = n /\ n > 0 /\ events[k][n] = "chat.delta")
    BY <1>2, <1>3, <1>4 DEF InStep, AtWork, Places
  <1>6. seq[t] = n + 1 BY <1>1, <1>2, <1>5
  <1> QED BY <1>2, <1>6

\* A repository call is one step of FencedStep: what it writes, as replacements
\* of the three values of the row.
LEMMA AppendedWrites ==
  ASSUME IInv, NEW t \in Turns, NEW e, NEW s, Appended(t, e, s)
  PROVE  /\ Owned(t) /\ SetRow(key[t], s)
         /\ events' = [events EXCEPT ![key[t]] = Insert(events[key[t]], seq[t], e)]
         /\ answers' = [answers EXCEPT ![key[t]] = answers[key[t]]]
  <1>1. answers' = answers /\ Owned(t) /\ SetRow(key[t], s) BY DEF Appended
  <1>2. answers = [answers EXCEPT ![key[t]] = answers[key[t]]] BY DEF IInv, TypeOK
  <1> QED BY <1>1, <1>2 DEF Appended

LEMMA AnsweredWrites ==
  ASSUME IInv, NEW t \in Turns, NEW s, Answered(t, s)
  PROVE  /\ Owned(t) /\ SetRow(key[t], s)
         /\ events' = [events EXCEPT ![key[t]] = events[key[t]]]
         /\ answers' = [answers EXCEPT ![key[t]] = answers[key[t]] + 1]
  <1>1. events' = events /\ Owned(t) /\ SetRow(key[t], s) BY DEF Answered
  <1>2. events = [events EXCEPT ![key[t]] = events[key[t]]] BY DEF IInv, Rows
  <1> QED BY <1>1, <1>2 DEF Answered

LEMMA ReturnWrites ==
  ASSUME NEW t, Return(t)
  PROVE  /\ pc' = [pc EXCEPT ![t] = "idle"] /\ seq' = [seq EXCEPT ![t] = 0]
         /\ UNCHANGED <<key, mode>>
         /\ \E b \in {"off", "late"} :
              /\ b = "late" => beat[t] = "on"
              /\ beat' = [beat EXCEPT ![t] = b]
              /\ token' = [token EXCEPT ![t] = IF b = "late" THEN @ ELSE NoTurn]
  BY DEF Return, Goto

\* A turn that returns without a write.
LEMMA ReturnStep ==
  ASSUME ConstantsOK, IInv, NEW t \in Turns, pc[t] # "idle", Return(t), UNCHANGED table,
         losses' \in 0..MaxLosses
  PROVE  IInv'
  <1>1. "idle" \in Places /\ 0 \in Nat BY DEF Places
  <1> QED BY <1>1, ReturnWrites, LocalStep

\* A turn that moves on without a write.
LEMMA MoveStep ==
  ASSUME ConstantsOK, IInv, NEW t \in Turns, AtWork(t), UNCHANGED <<table, key, mode, token, seq, beat, losses>>,
         NEW l \in Places, Goto(t, l), l \notin {"idle", "loading"},
         status[key[t]] \in Active => InStep(l, mode[t], seq[t], events[key[t]], answers[key[t]]),
         l \in {"asking", "answering"} => mode[t] = "ask",
         l \in {"starting", "streaming", "interrupting", "persisting", "usage", "finishing"}
           => mode[t] = "stream"
  PROVE  IInv'
  <1>1. seq[t] \in Nat /\ seq' = [seq EXCEPT ![t] = seq[t]] /\ losses' \in 0..MaxLosses
    BY DEF IInv, TypeOK
  <1>2. pc' = [pc EXCEPT ![t] = l] BY DEF Goto
  <1>3. pc[t] # "idle" BY DEF AtWork
  <1> DEFINE q == seq[t]
  <1> HIDE DEF q
  <1>4. q \in Nat /\ seq' = [seq EXCEPT ![t] = q]
        /\ (status[key[t]] \in Active => InStep(l, mode[t], q, events[key[t]], answers[key[t]]))
    BY <1>1 DEF q
  <1> QED BY <1>1, <1>2, <1>3, <1>4, LocalStep

\* A turn that stores an event and goes on.
LEMMA AdvanceStep ==
  ASSUME ConstantsOK, IInv, NEW t \in Turns, AtWork(t), mode[t] = "stream",
         NEW e \in EventTypes \ Terminal, NEW s \in Active,
         NEW l \in {"streaming", "finishing"}, Advance(t, e, s, l),
         seq[t] = Last(events[key[t]]) + 1,
         Last(events[key[t]]) = 0 => e = "chat.started",
         answers[key[t]] = IF l = "finishing" THEN 1 ELSE 0,
         l = "finishing" => e = "chat.usage"
  PROVE  IInv'
  <1> DEFINE k == key[t]  n == Last(events[k])  a == answers[k]  new == Insert(events[k], n + 1, e)
             q == seq[t] + 1
  <1>1. /\ Owned(t) /\ SetRow(k, s)
        /\ events' = [events EXCEPT ![k] = new]
        /\ answers' = [answers EXCEPT ![k] = a]
    BY AppendedWrites DEF Advance
  <1>2. RowOK(status[k], events[k], a) /\ status[k] \in Active /\ n \in Nat /\ events[k] \in Logs
    BY <1>1, OwnedRow DEF AtWork
  <1>3. RowOK(s, new, a) BY <1>2, RowAppends
  <1>4. Last(new) = n + 1 /\ new[n + 1] = e BY <1>2, InsertNext
  <1>5. InStep(l, mode[t], q, new, a)
    <2> HIDE DEF n, new, a, k
    <2>1. n + 1 > 0 /\ q = (n + 1) + 1 /\ a = (IF l = "finishing" THEN 1 ELSE 0) BY <1>2 DEF a, n, k
    <2> QED BY <1>4, <2>1 DEF InStep
  <1>6. /\ pc' = [pc EXCEPT ![t] = l] /\ seq' = [seq EXCEPT ![t] = q]
        /\ UNCHANGED <<key, mode, token, beat, losses>>
    BY DEF Advance, Goto
  <1>7. q \in Nat /\ l \in Places /\ losses' \in 0..MaxLosses /\ s \in Active \cup Settled
    BY <1>6 DEF IInv, TypeOK, Places
  <1>8. l \notin {"idle", "loading", "asking", "answering"} OBVIOUS
  <1> HIDE DEF a, new, q, n
  <1> QED BY <1>1, <1>3, <1>5, <1>6, <1>7, <1>8, FencedStep

\* A turn that settles its request and returns.
LEMMA SettleStep ==
  ASSUME ConstantsOK, IInv, NEW t \in Turns, AtWork(t), Owned(t),
         NEW z \in Settled, NEW log, NEW a, RowOK(z, log, a), SetRow(key[t], z),
         events' = [events EXCEPT ![key[t]] = log],
         answers' = [answers EXCEPT ![key[t]] = a],
         Return(t), UNCHANGED losses
  PROVE  IInv'
  <1>1. "idle" \in Places /\ 0 \in Nat /\ z \in Active \cup Settled BY DEF Places
  <1>2. losses' \in 0..MaxLosses BY DEF IInv, TypeOK
  <1>3. /\ pc' = [pc EXCEPT ![t] = "idle"] /\ seq' = [seq EXCEPT ![t] = 0]
        /\ UNCHANGED <<key, mode>>
        /\ \E b \in {"off", "late"} :
             /\ b = "late" => beat[t] = "on"
             /\ beat' = [beat EXCEPT ![t] = b]
             /\ token' = [token EXCEPT ![t] = IF b = "late" THEN @ ELSE NoTurn]
    BY ReturnWrites
  <1> QED BY <1>1, <1>2, <1>3, FencedStep

LEMMA ReserveNewStep ==
  ASSUME ConstantsOK, IInv, NEW t \in Turns, NEW k \in Keys, NEW m \in {"ask", "stream"},
         ReserveNew(t, k, m)
  PROVE  IInv'
  <1> DEFINE log == events[k]
  <1>1. /\ Arrive(t, k, m) /\ status[k] = "none" /\ UNCHANGED answers
        /\ status' = [status EXCEPT ![k] = "reserved"]
        /\ owner' = [owner EXCEPT ![k] = t] /\ lease' = [lease EXCEPT ![k] = Lease]
    BY DEF ReserveNew
  <1>2. events' = [events EXCEPT ![k] = log] BY DEF ReserveNew, IInv, Rows
  <1>3. RowOK("none", log, answers[k]) BY <1>1 DEF IInv, Rows
  <1>4. Last(log) = 0 /\ answers[k] = 0 BY <1>3 DEF RowOK
  <1>5. RowOK("reserved", log, answers[k]) BY <1>3, <1>4 DEF RowOK, Active, Settled
  <1>6. \A u \in Turns : pc[u] # "idle" => key[u] # k BY <1>1 DEF IInv, TurnsOK, TurnOK
  <1>7. "reserved" \in Active \cup Settled /\ t \in Turns \cup {NoTurn} /\ Lease \in 0..Lease
    BY DEF Active, ConstantsOK
  <1> HIDE DEF log
  <1> QED BY <1>1, <1>2, <1>4, <1>5, <1>6, <1>7, ArriveStep

LEMMA ReserveStaleStep ==
  ASSUME ConstantsOK, IInv, NEW t \in Turns, NEW k \in Keys, NEW m \in {"ask", "stream"},
         ReserveStale(t, k, m)
  PROVE  IInv'
  <1> DEFINE log == Insert(events[k], Last(events[k]) + 1, "chat.failed")
  <1>1. /\ Arrive(t, k, m) /\ status[k] \in Active /\ UNCHANGED answers
        /\ events' = [events EXCEPT ![k] = log]
    BY DEF ReserveStale
  <1>2. /\ status' = [status EXCEPT ![k] = "interrupted"]
        /\ owner' = [owner EXCEPT ![k] = NoTurn] /\ lease' = [lease EXCEPT ![k] = 0]
    BY DEF ReserveStale, SetRow, Settled
  <1>3. RowOK(status[k], events[k], answers[k]) BY DEF IInv, Rows
  <1>4. RowOK("interrupted", log, answers[k]) BY <1>1, <1>3, RowFails
  <1>5. "interrupted" \in (Active \cup Settled) \ Active /\ NoTurn \in Turns \cup {NoTurn} /\ 0 \in 0..Lease
    BY DEF Active, Settled, ConstantsOK
  <1> HIDE DEF log
  <1> QED BY <1>1, <1>2, <1>4, <1>5, ArriveStep

LEMMA ReserveSettledStep ==
  ASSUME ConstantsOK, IInv, NEW t \in Turns, NEW k \in Keys, NEW m \in {"ask", "stream"},
         ReserveSettled(t, k, m)
  PROVE  IInv'
  <1> DEFINE z == status[k]  log == events[k]  o == owner[k]  n == lease[k]
  <1>1. Arrive(t, k, m) /\ z \in Settled /\ UNCHANGED answers BY DEF ReserveSettled, table
  <1>2. /\ status' = [status EXCEPT ![k] = z] /\ owner' = [owner EXCEPT ![k] = o]
        /\ lease' = [lease EXCEPT ![k] = n] /\ events' = [events EXCEPT ![k] = log]
    BY DEF ReserveSettled, table, IInv, TypeOK, Rows
  <1>3. RowOK(z, log, answers[k]) BY DEF IInv, Rows
  <1>4. o \in Turns \cup {NoTurn} /\ n \in 0..Lease BY DEF IInv, TypeOK
  <1>5. z \in Active \cup Settled /\ z \notin Active BY <1>1 DEF Active, Settled
  <1> HIDE DEF z, log, o, n
  <1> QED BY <1>1, <1>2, <1>3, <1>4, <1>5, ArriveStep

\* A turn goes to work with the owner it reads: itself, if the request is active.
LEMMA LoadStep ==
  ASSUME ConstantsOK, IInv, NEW t \in Turns, Load(t) PROVE IInv'
  <1>1. pc[t] = "loading" /\ UNCHANGED <<table, losses>> BY DEF Load
  <1>2. TurnOK(t) BY <1>1 DEF IInv, TurnsOK
  <1>3. CASE status[key[t]] \in Settled
    <2>1. Return(t) /\ losses' \in 0..MaxLosses BY <1>1, <1>3 DEF Load, IInv, TypeOK
    <2> QED BY <1>1, <2>1, ReturnStep
  <1>4. CASE status[key[t]] \notin Settled
    <2> DEFINE l == IF mode[t] = "ask" THEN "asking" ELSE "starting"
    <2> USE DEF ConstantsOK, IInv, TypeOK, table
    <2>1. status[key[t]] \in Active /\ owner[key[t]] = t /\ key[t] \in Keys
          /\ InStep("loading", mode[t], seq[t], events[key[t]], answers[key[t]])
      BY <1>1, <1>2, <1>4 DEF TurnOK
    <2>2. /\ pc' = [pc EXCEPT ![t] = l] /\ token' = [token EXCEPT ![t] = t]
          /\ seq' = [seq EXCEPT ![t] = 1] /\ beat' = [beat EXCEPT ![t] = "on"]
          /\ UNCHANGED <<key, mode>>
      BY <1>4, <2>1 DEF Load, Goto
    <2>3. l \in Places /\ mode[t] \in {"ask", "stream"} BY DEF Places
    <2>4. TypeOK'
      <3>1. pc' \in [Turns -> Places] /\ token' \in [Turns -> Turns \cup {NoTurn}]
            /\ seq' \in [Turns -> Nat] /\ beat' \in [Turns -> {"off", "on", "late"}]
        BY <2>2, <2>3 DEF Places
      <3> QED BY <1>1, <2>2, <3>1 DEF Places, Numbers
    <2>5. Rows' BY <1>1 DEF Rows
    <2>6. TurnsOK'
      <3>1. ASSUME NEW u \in Turns \ {t}, pc'[u] # "idle" PROVE TurnOK(u)'
        <4>1. pc[u] # "idle" /\ TurnOK(u) BY <2>2, <3>1 DEF TurnsOK
        <4>2. /\ pc'[u] = pc[u] /\ seq'[u] = seq[u] /\ key'[u] = key[u] /\ mode'[u] = mode[u]
              /\ token'[u] = token[u]
          BY <2>2
        <4> QED BY <1>1, <4>1, <4>2 DEF TurnOK
      <3>2. TurnOK(t)'
        <4>1. pc'[t] = l /\ token'[t] = t /\ seq'[t] = 1 /\ key'[t] = key[t] /\ mode'[t] = mode[t]
          BY <2>2
        <4>2. InStep(l, mode[t], 1, events[key[t]], answers[key[t]]) BY <2>1, <2>3 DEF InStep
        <4>3. status[key[t]] # "none" BY <1>2 DEF TurnOK
        <4> QED BY <1>1, <2>1, <2>3, <4>1, <4>2, <4>3 DEF TurnOK
      <3> QED BY <3>1, <3>2 DEF TurnsOK
    <2>7. BeatsOK' BY <2>1, <2>2 DEF BeatsOK
    <2>8. Alone'
      <3>1. \A u \in Turns \ {t} : pc[u] # "idle" => key[u] # key[t] BY <1>1, <2>1, OwnerAlone
      <3> QED BY <2>2, <3>1 DEF Alone, AtWork
    <2> QED BY <2>4, <2>5, <2>6, <2>7, <2>8
  <1> QED BY <1>3, <1>4

LEMMA RenewStep ==
  ASSUME ConstantsOK, IInv, NEW t \in Turns, Renew(t) PROVE IInv'
  <1> USE DEF ConstantsOK, IInv, TypeOK, Renew
  <1>1. TypeOK'
    <2>1. lease' \in [Keys -> 0..Lease]
      <3>1. Lease \in 0..Lease OBVIOUS
      <3> QED BY <3>1
    <2>2. beat' \in [Turns -> {"off", "on", "late"}] OBVIOUS
    <2> QED BY <2>1, <2>2 DEF Numbers
  <1>2. Rows' BY DEF Rows
  <1>3. TurnsOK' BY DEF TurnsOK, TurnOK
  <1>4. BeatsOK' BY DEF BeatsOK
  <1>5. Alone' BY DEF Alone, AtWork
  <1> QED BY <1>1, <1>2, <1>3, <1>4, <1>5

LEMMA TickStep ==
  ASSUME ConstantsOK, IInv, Tick PROVE IInv'
  <1> USE DEF ConstantsOK, IInv, TypeOK, Tick, turn
  <1>1. TypeOK' BY DEF Numbers
  <1>2. Rows' BY DEF Rows
  <1>3. TurnsOK' BY DEF TurnsOK, TurnOK
  <1>4. BeatsOK' BY DEF BeatsOK
  <1>5. Alone' BY DEF Alone, AtWork
  <1> QED BY <1>1, <1>2, <1>3, <1>4, <1>5

\* The steps of one answer.
LEMMA AskStep ==
  ASSUME ConstantsOK, IInv, NEW t \in Turns,
         ModelAnswers(t) \/ ModelRaises(t) \/ Fail(t) \/ Complete(t)
  PROVE  IInv'
  <1>1. pc[t] # "idle" => TurnOK(t) BY DEF IInv, TurnsOK
  <1>2. losses \in 0..MaxLosses BY DEF IInv, TypeOK
  <1>3. CASE ModelAnswers(t)
    <2>1. pc[t] = "asking" /\ Goto(t, "answering") /\ UNCHANGED <<table, key, mode, token, seq, beat, losses>>
      BY <1>3 DEF ModelAnswers
    <2>2. AtWork(t) /\ mode[t] = "ask" BY <1>1, <2>1 DEF AtWork, TurnOK
    <2>3. status[key[t]] \in Active => InStep("answering", mode[t], seq[t], events[key[t]], answers[key[t]])
      BY <1>1, <2>1, <2>2 DEF TurnOK, InStep
    <2>4. "answering" \in Places BY DEF Places
    <2> QED BY <2>1, <2>2, <2>3, <2>4, MoveStep
  <1>4. CASE ModelRaises(t)
    <2>1. pc[t] = "asking" /\ Goto(t, "failing") /\ UNCHANGED <<table, key, mode, token, seq, beat, losses>>
      BY <1>4 DEF ModelRaises
    <2>2. AtWork(t) /\ mode[t] = "ask" BY <1>1, <2>1 DEF AtWork, TurnOK
    <2>3. status[key[t]] \in Active => InStep("failing", mode[t], seq[t], events[key[t]], answers[key[t]])
      BY <1>1, <2>1, <2>2 DEF TurnOK, InStep
    <2>4. "failing" \in Places BY DEF Places
    <2> QED BY <2>1, <2>2, <2>3, <2>4, MoveStep
  <1>5. CASE Fail(t)
    <2>1. pc[t] = "failing" /\ mode[t] = "ask" /\ Return(t) /\ UNCHANGED losses BY <1>5 DEF Fail
    <2>2. AtWork(t) /\ pc[t] # "idle" BY <2>1 DEF AtWork
    <2>3. CASE Owned(t)
      <3> DEFINE log == events[key[t]]  a == answers[key[t]]
      <3>1. SetRow(key[t], "failed") /\ UNCHANGED <<events, answers>> BY <1>5, <2>3 DEF Fail
      <3>2. events' = [events EXCEPT ![key[t]] = log] /\ answers' = [answers EXCEPT ![key[t]] = a]
        BY <3>1 DEF IInv, TypeOK, Rows
      <3>3. RowOK(status[key[t]], log, a) /\ status[key[t]] \in Active
            /\ InStep(pc[t], mode[t], seq[t], log, a)
        BY <2>2, <2>3, OwnedRow
      <3>4. Last(log) = 0 /\ a \in {0, 1} BY <2>1, <3>3 DEF InStep, RowOK
      <3>5. RowOK("failed", log, a) /\ "failed" \in Settled BY <3>3, <3>4, RowSettles DEF Settled
      <3> HIDE DEF log, a
      <3> QED BY <2>1, <2>2, <2>3, <3>1, <3>2, <3>5, SettleStep
    <2>4. CASE ~Owned(t)
      <3>1. UNCHANGED table BY <1>5, <2>4 DEF Fail
      <3> QED BY <1>2, <2>1, <2>2, <3>1, ReturnStep
    <2> QED BY <2>3, <2>4
  <1>6. CASE Complete(t)
    <2>1. pc[t] = "answering" /\ Return(t) /\ UNCHANGED losses BY <1>6 DEF Complete
    <2>2. AtWork(t) /\ pc[t] # "idle" BY <2>1 DEF AtWork
    <2>3. CASE Answered(t, "completed")
      <3> DEFINE log == events[key[t]]  a == answers[key[t]]
      <3>1. /\ Owned(t) /\ SetRow(key[t], "completed")
            /\ events' = [events EXCEPT ![key[t]] = log]
            /\ answers' = [answers EXCEPT ![key[t]] = a + 1]
        BY <2>3, AnsweredWrites
      <3>2. RowOK(status[key[t]], log, a) /\ status[key[t]] \in Active
            /\ InStep(pc[t], mode[t], seq[t], log, a) /\ mode[t] = "ask"
        BY <1>1, <2>1, <2>2, <3>1, OwnedRow DEF TurnOK
      <3>3. Last(log) = 0 /\ a + 1 = 1 BY <3>2 DEF InStep
      <3>4. RowOK("completed", log, a + 1) /\ "completed" \in Settled BY <3>2, <3>3, RowSettles DEF Settled
      <3> HIDE DEF log, a
      <3> QED BY <2>1, <2>2, <3>1, <3>4, SettleStep
    <2>4. CASE UNCHANGED table BY <1>2, <2>1, <2>2, <2>4, ReturnStep
    <2> QED BY <1>6, <2>3, <2>4 DEF Complete
  <1> QED BY <1>3, <1>4, <1>5, <1>6

\* The steps of a stream.
LEMMA StreamStep ==
  ASSUME ConstantsOK, IInv, NEW t \in Turns,
         \/ Started(t) \/ Delta(t) \/ DeltaReplyLost(t)
         \/ \E l \in {"persisting", "failing", "interrupting"} : StreamEnds(t, l)
         \/ StreamFailed(t) \/ Persist(t) \/ Usage(t) \/ Completed(t)
  PROVE  IInv'
  <1> DEFINE k == key[t]  n == Last(events[k])  a == answers[k]
  <1>1. pc[t] # "idle" => TurnOK(t) BY DEF IInv, TurnsOK
  <1>2. AtWork(t) => pc[t] # "idle" BY DEF AtWork
  <1>3. CASE Started(t)
    <2>1. pc[t] = "starting" /\ Advance(t, "chat.started", "running", "streaming") BY <1>3 DEF Started
    <2>2. AtWork(t) /\ mode[t] = "stream" /\ Owned(t) BY <1>1, <2>1 DEF AtWork, TurnOK, Advance, Appended
    <2>3. n = 0 /\ a = 0 /\ seq[t] = 1 BY <1>2, <2>1, <2>2, OwnedRow DEF InStep
    <2>4. "chat.started" \in EventTypes \ Terminal /\ "running" \in Active BY DEF EventTypes, Terminal, Active
    <2>5. seq[t] = n + 1 /\ a = (IF "streaming" = "finishing" THEN 1 ELSE 0) BY <2>3
    <2> QED BY <2>1, <2>2, <2>4, <2>5, AdvanceStep
  <1>4. CASE Delta(t)
    <2>1. pc[t] = "streaming" /\ Advance(t, "chat.delta", "running", "streaming") BY <1>4 DEF Delta
    <2>2. AtWork(t) /\ mode[t] = "stream" /\ Owned(t) BY <1>1, <2>1 DEF AtWork, TurnOK, Advance, Appended
    <2>3. n > 0 /\ seq[t] = n + 1 /\ a = 0 BY <1>2, <2>1, <2>2, OwnedRow DEF InStep
    <2>4. "chat.delta" \in EventTypes \ Terminal /\ "running" \in Active BY DEF EventTypes, Terminal, Active
    <2>5. a = (IF "streaming" = "finishing" THEN 1 ELSE 0) /\ n # 0 BY <2>3
    <2> QED BY <2>1, <2>2, <2>3, <2>4, <2>5, AdvanceStep
  <1>5. CASE DeltaReplyLost(t)
    <2> DEFINE new == Insert(events[k], n + 1, "chat.delta")  q == seq[t]
    <2>1. /\ pc[t] = "streaming" /\ Appended(t, "chat.delta", "running")
          /\ pc' = [pc EXCEPT ![t] = "failing"] /\ losses' = losses + 1 /\ losses < MaxLosses
          /\ UNCHANGED <<key, mode, token, seq, beat>>
      BY <1>5 DEF DeltaReplyLost, Goto
    <2>2. AtWork(t) /\ mode[t] = "stream" /\ Owned(t) BY <1>1, <2>1 DEF AtWork, TurnOK, Appended
    <2>3. n > 0 /\ q = n + 1 /\ a = 0 /\ n \in Nat BY <1>2, <2>1, <2>2, OwnedRow DEF InStep
    <2>4. RowOK(status[k], events[k], a) /\ status[k] \in Active /\ events[k] \in Logs
      BY <1>2, <2>2, OwnedRow
    <2>5. "chat.delta" \in EventTypes \ Terminal /\ "running" \in Active BY DEF EventTypes, Terminal, Active
    <2>6. RowOK("running", new, a) BY <2>3, <2>4, <2>5, RowAppends
    <2>7. Last(new) = n + 1 /\ new[n + 1] = "chat.delta" BY <2>4, <2>5, InsertNext
    <2>8. SetRow(k, "running") /\ events' = [events EXCEPT ![k] = new] /\ answers' = [answers EXCEPT ![k] = a]
      BY <2>1, <2>3, AppendedWrites
    <2>9. InStep("failing", mode[t], q, new, a)
      <3> HIDE DEF n, new, a, q
      <3>1. n + 1 > 0 BY <2>3
      <3> QED BY <2>2, <2>3, <2>7, <3>1 DEF InStep
    <2>10. seq' = [seq EXCEPT ![t] = q] /\ q \in Nat /\ losses' \in 0..MaxLosses
      BY <2>1 DEF IInv, TypeOK, ConstantsOK
    <2>11. "failing" \in Places /\ "running" \in Active \cup Settled BY <2>5 DEF Places
    <2> HIDE DEF new, q, a, n
    <2> QED BY <2>1, <2>2, <2>5, <2>6, <2>8, <2>9, <2>10, <2>11, FencedStep
  <1>6. ASSUME NEW l \in {"persisting", "failing", "interrupting"}, StreamEnds(t, l) PROVE IInv'
    <2>1. /\ pc[t] = "streaming" /\ Goto(t, l)
          /\ UNCHANGED <<table, key, mode, token, seq, beat, losses>>
      BY <1>6 DEF StreamEnds
    <2>2. AtWork(t) /\ mode[t] = "stream" BY <1>1, <2>1 DEF AtWork, TurnOK
    <2>3. status[k] \in Active => InStep(l, mode[t], seq[t], events[k], a)
      BY <1>1, <2>1, <2>2 DEF TurnOK, InStep
    <2>4. l \in Places /\ l \notin {"idle", "loading", "asking", "answering"} BY DEF Places
    <2> QED BY <2>1, <2>2, <2>3, <2>4, MoveStep
  <1>7. CASE StreamFailed(t)
    <2> DEFINE z == IF pc[t] = "failing" THEN "failed" ELSE "interrupted"
               new == Insert(events[k], n + 1, "chat.failed")
    <2>1. /\ pc[t] \in {"failing", "interrupting"} /\ mode[t] = "stream" /\ Return(t)
          /\ Appended(t, "chat.failed", z) /\ UNCHANGED losses
      BY <1>7 DEF StreamFailed
    <2>2. AtWork(t) /\ Owned(t) BY <2>1 DEF AtWork, Appended
    <2>3. "chat.failed" \in EventTypes \ {"chat.delta"} BY DEF EventTypes
    <2>4. seq[t] = n + 1 BY <2>1, <2>2, <2>3, AppendedAt
    <2>5. SetRow(k, z) /\ events' = [events EXCEPT ![k] = new] /\ answers' = [answers EXCEPT ![k] = a]
      BY <2>1, <2>4, AppendedWrites
    <2>6. RowOK(status[k], events[k], a) /\ status[k] \in Active BY <1>2, <2>2, OwnedRow
    <2>7. z \in {"failed", "interrupted"} /\ z \in Settled BY DEF Settled
    <2>8. RowOK(z, new, a) BY <2>6, <2>7, RowFails
    <2> HIDE DEF z, new, a, n
    <2> QED BY <2>1, <2>2, <2>5, <2>7, <2>8, SettleStep
  <1>8. CASE Persist(t)
    <2> DEFINE log == events[k]  q == seq[t]
    <2>1. /\ pc[t] = "persisting" /\ Answered(t, "finalizing") /\ pc' = [pc EXCEPT ![t] = "usage"]
          /\ UNCHANGED <<key, mode, token, seq, beat, losses>>
      BY <1>8 DEF Persist, Goto
    <2>2. AtWork(t) /\ mode[t] = "stream" /\ Owned(t) BY <1>1, <2>1 DEF AtWork, TurnOK, Answered
    <2>3. n > 0 /\ q = n + 1 /\ a = 0 BY <1>2, <2>1, <2>2, OwnedRow DEF InStep
    <2>4. RowOK(status[k], log, a) /\ status[k] \in Active BY <1>2, <2>2, OwnedRow
    <2>5. "finalizing" \in Active /\ a + 1 = 1 BY <2>3 DEF Active
    <2>6. RowOK("finalizing", log, a + 1) BY <2>4, <2>5, RowSettles
    <2>7. SetRow(k, "finalizing") /\ events' = [events EXCEPT ![k] = log] /\ answers' = [answers EXCEPT ![k] = a + 1]
      BY <2>1, AnsweredWrites
    <2>8. InStep("usage", mode[t], q, log, a + 1) BY <2>2, <2>3 DEF InStep
    <2>9. seq' = [seq EXCEPT ![t] = q] /\ q \in Nat /\ losses' \in 0..MaxLosses
      BY <2>1 DEF IInv, TypeOK, ConstantsOK
    <2>10. "usage" \in Places /\ "finalizing" \in Active \cup Settled BY <2>5 DEF Places
    <2> HIDE DEF log, q, a, n
    <2> QED BY <2>1, <2>2, <2>5, <2>6, <2>7, <2>8, <2>9, <2>10, FencedStep
  <1>9. CASE Usage(t)
    <2>1. pc[t] = "usage" /\ Advance(t, "chat.usage", "finalizing", "finishing") BY <1>9 DEF Usage
    <2>2. AtWork(t) /\ mode[t] = "stream" /\ Owned(t) BY <1>1, <2>1 DEF AtWork, TurnOK, Advance, Appended
    <2>3. n > 0 /\ seq[t] = n + 1 /\ a = 1 BY <1>2, <2>1, <2>2, OwnedRow DEF InStep
    <2>4. "chat.usage" \in EventTypes \ Terminal /\ "finalizing" \in Active BY DEF EventTypes, Terminal, Active
    <2>5. n # 0 BY <2>3
    <2> QED BY <2>1, <2>2, <2>3, <2>4, <2>5, AdvanceStep
  <1>10. CASE Completed(t)
    <2> DEFINE new == Insert(events[k], n + 1, "chat.completed")
    <2>1. /\ pc[t] = "finishing" /\ Return(t) /\ Appended(t, "chat.completed", "completed") /\ UNCHANGED losses
      BY <1>10 DEF Completed
    <2>2. AtWork(t) /\ mode[t] = "stream" /\ Owned(t) BY <1>1, <2>1 DEF AtWork, TurnOK, Appended
    <2>3. n > 0 /\ seq[t] = n + 1 /\ a = 1 /\ events[k][n] = "chat.usage"
      BY <1>2, <2>1, <2>2, OwnedRow DEF InStep
    <2>4. SetRow(k, "completed") /\ events' = [events EXCEPT ![k] = new] /\ answers' = [answers EXCEPT ![k] = 1]
      BY <2>1, <2>3, AppendedWrites
    <2>5. RowOK(status[k], events[k], 1) /\ status[k] \in Active BY <1>2, <2>2, <2>3, OwnedRow
    <2>6. RowOK("completed", new, 1) BY <2>3, <2>5, RowCompletes
    <2>7. "completed" \in Settled BY DEF Settled
    <2> HIDE DEF new, a, n
    <2> QED BY <2>1, <2>2, <2>4, <2>6, <2>7, SettleStep
  <1> QED BY <1>3, <1>4, <1>5, <1>6, <1>7, <1>8, <1>9, <1>10

LEMMA NextIInv == ConstantsOK /\ IInv /\ [Next]_vars => IInv'
  <1> SUFFICES ASSUME ConstantsOK, IInv, [Next]_vars PROVE IInv' OBVIOUS
  <1>1. ASSUME NEW t \in Turns, NEW k \in Keys, NEW m \in {"ask", "stream"}, Reserve(t, k, m) PROVE IInv'
    BY <1>1, ReserveNewStep, ReserveStaleStep, ReserveSettledStep DEF Reserve
  <1>2. losses \in 0..MaxLosses BY DEF IInv, TypeOK
  <1>3. ASSUME NEW t \in Turns, Refused(t) PROVE IInv'
    <2>1. pc[t] # "idle" /\ Return(t) /\ UNCHANGED <<table, losses>> BY <1>3 DEF Refused
    <2> QED BY <1>2, <2>1, ReturnStep
  <1>4. ASSUME NEW t \in Turns, Vanish(t) PROVE IInv'
    <2>1. pc[t] # "idle" /\ Return(t) /\ UNCHANGED table BY <1>4 DEF Vanish
    <2>2. losses' \in 0..MaxLosses BY <1>2, <1>4 DEF Vanish, ConstantsOK
    <2> QED BY <2>1, <2>2, ReturnStep
  <1>5. ASSUME NEW t \in Turns, Step(t) PROVE IInv'
    BY <1>3, <1>5, LoadStep, AskStep, StreamStep DEF Step
  <1>6. CASE UNCHANGED vars
    <2> USE <1>6 DEF vars, table, turn
    <2>1. TypeOK' BY DEF IInv, TypeOK, Numbers
    <2>2. Rows' BY DEF IInv, Rows
    <2>3. TurnsOK' BY DEF IInv, TurnsOK, TurnOK
    <2>4. BeatsOK' /\ Alone' BY DEF IInv, BeatsOK, Alone, AtWork
    <2> QED BY <2>1, <2>2, <2>3, <2>4 DEF IInv
  <1> QED BY <1>1, <1>4, <1>5, <1>6, StreamStep, RenewStep, TickStep DEF Next

LEMMA AlwaysIInv == ASSUME ConstantsOK PROVE Spec => []IInv
  BY InitIInv, NextIInv, PTL DEF Spec

\* Every variable keeps to its type.
THEOREM TypesHold == ASSUME ConstantsOK PROVE Spec => []TypeOK
  <1>1. IInv => TypeOK BY DEF IInv
  <1> QED BY <1>1, AlwaysIInv, PTL

\* No two turns ever work on one request, and a turn that works on an active
\* request is its owner: reserve hands a request out once, and a lease that is
\* over is never given to another turn.
THEOREM OneWorkerHolds == ASSUME ConstantsOK PROVE Spec => []OneWorker
  <1>1. IInv => OneWorker
    <2> SUFFICES ASSUME IInv, NEW k \in Keys, NEW t \in Turns, Working(t, k)
                 PROVE  /\ \A u \in Turns \ {t} : ~Working(u, k)
                        /\ status[k] \in Active => owner[k] = t
      BY DEF OneWorker
    <2>1. AtWork(t) /\ key[t] = k /\ TurnOK(t) BY DEF Working, AtWork, IInv, TurnsOK
    <2>2. \A u \in Turns \ {t} : ~Working(u, k) BY <2>1 DEF Working, AtWork, IInv, Alone
    <2> QED BY <2>1, <2>2 DEF TurnOK
  <1> QED BY <1>1, AlwaysIInv, PTL

\* No request has two assistant messages, and a completed one has its answer.
THEOREM OneAnswerHolds == ASSUME ConstantsOK PROVE Spec => []OneAnswer
  <1>1. IInv => OneAnswer
    <2> SUFFICES ASSUME IInv, NEW k \in Keys
                 PROVE answers[k] <= 1 /\ (status[k] = "completed" => answers[k] = 1)
      BY DEF OneAnswer
    <2>1. answers[k] \in {0, 1} /\ (status[k] = "completed" => answers[k] = 1)
      BY DEF IInv, Rows, RowOK
    <2> QED BY <2>1
  <1> QED BY <1>1, AlwaysIInv, PTL

\* The stored stream is numbered without a gap, and ends as the request does.
THEOREM LogWellFormedHolds == ASSUME ConstantsOK PROVE Spec => []LogWellFormed
  <1>1. IInv => LogWellFormed
    <2> SUFFICES ASSUME IInv, NEW k \in Keys
                 PROVE  LET n == Last(events[k])
                            At(i) == events[k][i]
                        IN  /\ Numbers(k) = 1..n
                            /\ \A i \in 1..n : i < n => At(i) \notin {"chat.completed", "chat.failed"}
                            /\ n > 0 /\ At(n) = "chat.completed"
                                 => status[k] = "completed" /\ At(n - 1) = "chat.usage"
                            /\ n > 0 /\ At(n) = "chat.failed" => status[k] \in {"failed", "interrupted"}
                            /\ n > 0 /\ status[k] \in Settled => At(n) \in {"chat.completed", "chat.failed"}
                            /\ n > 1 => At(1) = "chat.started"
      BY DEF LogWellFormed
    <2>1. RowOK(status[k], events[k], answers[k]) BY DEF IInv, Rows
    <2>2. Numbers(k) = 1..Last(events[k]) BY <2>1, LogsLast DEF RowOK, Numbers
    <2> QED BY <2>1, <2>2 DEF RowOK, Terminal
  <1> QED BY <1>1, AlwaysIInv, PTL
-----------------------------------------------------------------------------
(* What a step does to the table *)

\* The row k of an unsettled request gets status z, events log and a answers.
RowStep(k, z, log, a) ==
    LET next(e) == log = Append(events[k], e)
        same == log = events[k] /\ events[k] = <<>>
    IN  /\ status' = [status EXCEPT ![k] = z]
        /\ events' = [events EXCEPT ![k] = log]
        /\ answers' = [answers EXCEPT ![k] = a]
        /\ \/ status[k] = "none" /\ z = "reserved" /\ log = events[k] /\ a = answers[k]
           \/ /\ status[k] \in Active /\ z \in Active /\ a = answers[k]
              /\ \E e \in {"chat.started", "chat.delta", "chat.usage"} : next(e)
           \/ status[k] \in Active /\ z \in Active /\ log = events[k] /\ answers[k] = 0 /\ a = 1
           \/ status[k] \in Active /\ z = "completed" /\ a = 1 /\ (next("chat.completed") \/ same)
           \/ /\ status[k] \in Active /\ z \in {"failed", "interrupted"} /\ a = answers[k]
              /\ next("chat.failed") \/ same

LEMMA InsertAppends ==
  ASSUME NEW log \in Logs, NEW e \in EventTypes
  PROVE  Insert(log, Last(log) + 1, e) = Append(log, e)
  <1> DEFINE n == Last(log)  new == Insert(log, n + 1, e)
  <1>1. n \in Nat /\ DOMAIN log = 1..n BY LogsLast
  <1>2. new \in Logs /\ Last(new) = n + 1 /\ new[n + 1] = e /\ \A i \in 1..n : new[i] = log[i]
    BY InsertNext
  <1>3. DOMAIN new = 1..(n + 1) BY <1>2, LogsLast
  <1>4. log \in Seq(EventTypes) /\ new \in Seq(EventTypes) BY <1>2, SeqDef DEF Logs
  <1> HIDE DEF new, n
  <1>5. Len(log) = n /\ Len(new) = n + 1
    BY <1>1, <1>3, <1>4, LenProperties
  <1>6. /\ Append(log, e) \in Seq(EventTypes) /\ Len(Append(log, e)) = n + 1
        /\ \A i \in 1..n : Append(log, e)[i] = log[i]
        /\ Append(log, e)[n + 1] = e
    BY <1>4, <1>5, AppendProperties
  <1>7. \A i \in 1..(n + 1) : new[i] = Append(log, e)[i]
    <2>1. \A i \in 1..(n + 1) : i \in 1..n \/ i = n + 1 BY <1>1
    <2> QED BY <1>2, <1>6, <2>1
  <1>8. new = Append(log, e) BY <1>4, <1>5, <1>6, <1>7, SeqEqual
  <1> QED BY <1>8 DEF new, n

LEMMA NoEvents ==
  ASSUME NEW log \in Logs, Last(log) = 0 PROVE log = <<>>
  <1>1. log \in [1..0 -> EventTypes] BY LogsLast
  <1> QED BY <1>1

LEMMA NextRow ==
  ASSUME ConstantsOK, IInv, [Next]_vars
  PROVE  \/ UNCHANGED <<status, events, answers>>
         \/ \E k \in Keys : \E z, log, a : RowStep(k, z, log, a)
  <1> DEFINE Nothing == UNCHANGED <<status, events, answers>>
             Goal == Nothing \/ \E k \in Keys : \E z, log, a : RowStep(k, z, log, a)
  <1>1. \A k \in Keys : events[k] \in Logs
                        /\ events = [events EXCEPT ![k] = events[k]]
                        /\ answers = [answers EXCEPT ![k] = answers[k]]
    BY DEF IInv, Rows, RowOK, TypeOK
  <1>2. {"chat.started", "chat.delta", "chat.usage", "chat.completed", "chat.failed"} \subseteq EventTypes
    BY DEF EventTypes
  <1>3. ASSUME NEW t \in Turns, NEW k \in Keys, NEW m \in {"ask", "stream"}, Reserve(t, k, m) PROVE Goal
    <2>1. CASE ReserveNew(t, k, m)
      <3>1. status[k] = "none" /\ status' = [status EXCEPT ![k] = "reserved"] /\ UNCHANGED <<events, answers>>
        BY <2>1 DEF ReserveNew
      <3>2. RowStep(k, "reserved", events[k], answers[k]) BY <1>1, <3>1 DEF RowStep
      <3> QED BY <3>2
    <2>2. CASE ReserveStale(t, k, m)
      <3> DEFINE log == Insert(events[k], Last(events[k]) + 1, "chat.failed")
      <3>1. /\ status[k] \in Active /\ status' = [status EXCEPT ![k] = "interrupted"]
            /\ events' = [events EXCEPT ![k] = log] /\ UNCHANGED answers
        BY <2>2 DEF ReserveStale, SetRow
      <3>2. log = Append(events[k], "chat.failed") BY <1>1, <1>2, InsertAppends
      <3> HIDE DEF log
      <3>3. RowStep(k, "interrupted", log, answers[k]) BY <1>1, <3>1, <3>2 DEF RowStep
      <3> QED BY <3>3
    <2>3. CASE ReserveSettled(t, k, m) BY <2>3 DEF ReserveSettled, table
    <2> QED BY <1>3, <2>1, <2>2, <2>3 DEF Reserve
  <1>4. ASSUME NEW t \in Turns, NEW s \in Active,
               NEW e \in {"chat.started", "chat.delta", "chat.usage"},
               AtWork(t), Appended(t, e, s), seq[t] = Last(events[key[t]]) + 1
        PROVE  Goal
    <2> DEFINE k == key[t]  log == Insert(events[k], Last(events[k]) + 1, e)
    <2>1. k \in Keys /\ status[k] \in Active BY <1>4, OwnedRow DEF AtWork, Appended
    <2>2. status' = [status EXCEPT ![k] = s] /\ events' = [events EXCEPT ![k] = log] /\ UNCHANGED answers
      BY <1>4 DEF Appended, SetRow
    <2>3. log = Append(events[k], e) BY <1>1, <1>2, <2>1, InsertAppends
    <2> HIDE DEF log, k
    <2>4. RowStep(k, s, log, answers[k]) BY <1>1, <2>1, <2>2, <2>3 DEF RowStep
    <2> QED BY <2>1, <2>4
  <1>5. ASSUME NEW t \in Turns, Started(t) \/ Delta(t) \/ DeltaReplyLost(t) \/ Usage(t) PROVE Goal
    <2>1. "running" \in Active /\ "finalizing" \in Active BY DEF Active
    <2>2. AtWork(t) /\ Owned(t)
      BY <1>5 DEF Started, Delta, DeltaReplyLost, Usage, AtWork, Advance, Appended
    <2>3. InStep(pc[t], mode[t], seq[t], events[key[t]], answers[key[t]]) BY <2>2, OwnedRow DEF AtWork
    <2>4. CASE Started(t)
      <3>1. pc[t] = "starting" /\ Appended(t, "chat.started", "running") BY <2>4 DEF Started, Advance
      <3>2. seq[t] = Last(events[key[t]]) + 1 BY <2>3, <3>1 DEF InStep
      <3> QED BY <1>4, <2>1, <2>2, <3>1, <3>2
    <2>5. CASE Delta(t)
      <3>1. pc[t] = "streaming" /\ Appended(t, "chat.delta", "running") BY <2>5 DEF Delta, Advance
      <3>2. seq[t] = Last(events[key[t]]) + 1 BY <2>3, <3>1 DEF InStep
      <3> QED BY <1>4, <2>1, <2>2, <3>1, <3>2
    <2>6. CASE DeltaReplyLost(t)
      <3>1. pc[t] = "streaming" /\ Appended(t, "chat.delta", "running") BY <2>6 DEF DeltaReplyLost
      <3>2. seq[t] = Last(events[key[t]]) + 1 BY <2>3, <3>1 DEF InStep
      <3> QED BY <1>4, <2>1, <2>2, <3>1, <3>2
    <2>7. CASE Usage(t)
      <3>1. pc[t] = "usage" /\ Appended(t, "chat.usage", "finalizing") BY <2>7 DEF Usage, Advance
      <3>2. seq[t] = Last(events[key[t]]) + 1 BY <2>3, <3>1 DEF InStep
      <3> QED BY <1>4, <2>1, <2>2, <3>1, <3>2
    <2> QED BY <1>5, <2>4, <2>5, <2>6, <2>7
  <1>6. ASSUME NEW t \in Turns, Fail(t) PROVE Goal
    <2>1. pc[t] = "failing" /\ mode[t] = "ask" BY <1>6 DEF Fail
    <2>2. CASE Owned(t)
      <3> DEFINE k == key[t]
      <3>1. k \in Keys /\ status[k] \in Active /\ Last(events[k]) = 0 BY <2>1, <2>2, OwnedRow DEF InStep
      <3>2. status' = [status EXCEPT ![k] = "failed"] /\ UNCHANGED <<events, answers>>
        BY <1>6, <2>2 DEF Fail, SetRow
      <3>3. events[k] = <<>> BY <1>1, <3>1, NoEvents
      <3> HIDE DEF k
      <3>4. RowStep(k, "failed", events[k], answers[k]) BY <1>1, <3>1, <3>2, <3>3 DEF RowStep
      <3> QED BY <3>1, <3>4
    <2>3. CASE ~Owned(t) BY <1>6, <2>3 DEF Fail, table
    <2> QED BY <2>2, <2>3
  <1>7. ASSUME NEW t \in Turns, Complete(t) \/ Persist(t) PROVE Goal
    <2> DEFINE k == key[t]
    <2>1. CASE UNCHANGED table BY <2>1 DEF table
    <2>2. ASSUME NEW s, Answered(t, s), AtWork(t)
          PROVE  /\ k \in Keys /\ status[k] \in Active
                 /\ InStep(pc[t], mode[t], seq[t], events[k], answers[k])
                 /\ status' = [status EXCEPT ![k] = s] /\ UNCHANGED events
                 /\ answers' = [answers EXCEPT ![k] = answers[k] + 1]
      BY <2>2, OwnedRow DEF Answered, SetRow, AtWork
    <2>3. CASE Complete(t) /\ Answered(t, "completed")
      <3>1. pc[t] = "answering" /\ AtWork(t) BY <2>3 DEF Complete, AtWork
      <3>2. mode[t] = "ask" BY <3>1 DEF IInv, TurnsOK, TurnOK
      <3>3. /\ k \in Keys /\ status[k] \in Active /\ Last(events[k]) = 0 /\ answers[k] = 0
            /\ status' = [status EXCEPT ![k] = "completed"] /\ UNCHANGED events
            /\ answers' = [answers EXCEPT ![k] = 1]
        BY <2>2, <2>3, <3>1, <3>2 DEF InStep
      <3>4. events[k] = <<>> BY <1>1, <3>3, NoEvents
      <3> HIDE DEF k
      <3>5. RowStep(k, "completed", events[k], 1) BY <1>1, <3>3, <3>4 DEF RowStep
      <3> QED BY <3>3, <3>5
    <2>4. CASE Persist(t)
      <3>1. pc[t] = "persisting" /\ AtWork(t) /\ Answered(t, "finalizing") BY <2>4 DEF Persist, AtWork
      <3>2. /\ k \in Keys /\ status[k] \in Active /\ answers[k] = 0
            /\ status' = [status EXCEPT ![k] = "finalizing"] /\ UNCHANGED events
            /\ answers' = [answers EXCEPT ![k] = 1]
        BY <2>2, <3>1 DEF InStep
      <3> HIDE DEF k
      <3>3. RowStep(k, "finalizing", events[k], 1) BY <1>1, <3>2 DEF RowStep, Active
      <3> QED BY <3>2, <3>3
    <2> QED BY <1>7, <2>1, <2>3, <2>4 DEF Complete
  <1>8. ASSUME NEW t \in Turns, StreamFailed(t) \/ Completed(t) PROVE Goal
    <2> DEFINE k == key[t]
               e == IF pc[t] = "finishing" THEN "chat.completed" ELSE "chat.failed"
               z == IF pc[t] = "finishing" THEN "completed"
                    ELSE IF pc[t] = "failing" THEN "failed" ELSE "interrupted"
               log == Insert(events[k], Last(events[k]) + 1, e)
    <2>1. pc[t] \in {"failing", "interrupting", "finishing"} /\ AtWork(t) /\ Appended(t, e, z)
      BY <1>8 DEF StreamFailed, Completed, AtWork
    <2>2. mode[t] = "stream"
      <3>1. pc[t] # "idle" => TurnOK(t) BY DEF IInv, TurnsOK
      <3> QED BY <1>8, <3>1 DEF StreamFailed, Completed, TurnOK
    <2>3. e \in EventTypes \ {"chat.delta"} BY DEF EventTypes
    <2>4. seq[t] = Last(events[k]) + 1 BY <2>1, <2>2, <2>3, AppendedAt
    <2>5. k \in Keys /\ status[k] \in Active /\ (pc[t] = "finishing" => answers[k] = 1)
      BY <2>1, OwnedRow DEF AtWork, Appended, InStep
    <2>6. status' = [status EXCEPT ![k] = z] /\ events' = [events EXCEPT ![k] = log] /\ UNCHANGED answers
      BY <2>1, <2>4 DEF Appended, SetRow
    <2>7. log = Append(events[k], e) BY <1>1, <2>3, <2>5, InsertAppends
    <2>8. pc[t] = "finishing" => z = "completed" /\ e = "chat.completed" OBVIOUS
    <2>9. pc[t] # "finishing" => z \in {"failed", "interrupted"} /\ e = "chat.failed" OBVIOUS
    <2> HIDE DEF k, e, z, log
    <2>10. RowStep(k, z, log, answers[k]) BY <1>1, <2>5, <2>6, <2>7, <2>8, <2>9 DEF RowStep
    <2> QED BY <2>5, <2>10
  <1>9. ASSUME NEW t \in Turns, Step(t) PROVE Goal
    <2>1. CASE Load(t) \/ ModelAnswers(t) \/ ModelRaises(t) \/ Refused(t)
      BY <2>1 DEF Load, ModelAnswers, ModelRaises, Refused, table
    <2>2. CASE \E l \in {"persisting", "failing", "interrupting"} : StreamEnds(t, l)
      BY <2>2 DEF StreamEnds, table
    <2> QED BY <1>5, <1>6, <1>7, <1>8, <1>9, <2>1, <2>2 DEF Step
  <1>10. ASSUME NEW t \in Turns, Renew(t) \/ Vanish(t) PROVE Goal
    BY <1>10 DEF Renew, Vanish, table
  <1>11. CASE Tick \/ UNCHANGED vars BY <1>11 DEF Tick, vars, table
  <1> QED BY <1>3, <1>5, <1>9, <1>10, <1>11 DEF Next
-----------------------------------------------------------------------------
(* What no step does, and the promise it keeps *)

\* A request does not vanish, and one that is settled is not written again.
LEMMA RowsStay ==
  ASSUME ConstantsOK, IInv, [Next]_vars, NEW i \in Keys
  PROVE  /\ status[i] # "none" => status'[i] # "none"
         /\ status[i] \in Settled => UNCHANGED <<status[i], events[i], answers[i]>>
  <1>1. CASE UNCHANGED <<status, events, answers>> BY <1>1
  <1>2. ASSUME NEW k \in Keys, NEW z, NEW log, NEW a, RowStep(k, z, log, a)
        PROVE  /\ status[i] # "none" => status'[i] # "none"
               /\ status[i] \in Settled => UNCHANGED <<status[i], events[i], answers[i]>>
    <2>1. status[k] \notin Settled /\ z # "none" BY <1>2 DEF RowStep, Active, Settled
    <2> QED BY <1>2, <2>1 DEF RowStep, IInv, TypeOK, Rows
  <1> QED BY <1>1, <1>2, NextRow

\* A settled request keeps its status, its events and its answer, whatever its
\* late turn still tries.
THEOREM SettledFinalHolds == ASSUME ConstantsOK PROVE Spec => SettledFinal
  <1> DEFINE Stays == \A k \in Keys : status[k] \in Settled =>
                        UNCHANGED <<status[k], events[k], answers[k]>>
  <1>1. IInv /\ [Next]_vars => [Stays]_vars BY RowsStay
  <1>2. SettledFinal <=> [][Stays]_vars BY DEF SettledFinal
  <1> QED BY <1>1, <1>2, AlwaysIInv, PTL DEF Spec

PhaseOf(s) ==
    IF s = "none" THEN "absent"
    ELSE IF s \in Active THEN "open"
    ELSE IF s = "completed" THEN "completed"
    ELSE "failed"

LEMMA PhaseMoves ==
  ASSUME NEW k \in Keys, NEW z, status' = [status EXCEPT ![k] = z], DOMAIN status = Keys
  PROVE  phase[k] = PhaseOf(status[k]) /\ phase' = [phase EXCEPT ![k] = PhaseOf(z)]
  <1>1. phase = [i \in Keys |-> PhaseOf(status[i])] BY DEF phase, PhaseOf
  <1>2. phase' = [i \in Keys |-> PhaseOf(status'[i])] BY DEF phase, PhaseOf
  <1>3. status'[k] = z /\ \A i \in Keys \ {k} : status'[i] = status[i] OBVIOUS
  <1>4. [phase EXCEPT ![k] = PhaseOf(z)] = [i \in Keys |-> IF i = k THEN PhaseOf(z) ELSE PhaseOf(status[i])]
    BY <1>1
  <1> QED BY <1>1, <1>2, <1>3, <1>4

LEMMA NextPromise ==
  ASSUME ConstantsOK, IInv, [Next]_vars
  PROVE  [Promise!Next]_<<phase, events, answers>>
  <1>1. CASE UNCHANGED <<status, events, answers>> BY <1>1 DEF phase
  <1>2. ASSUME NEW k \in Keys, NEW z, NEW log, NEW a, RowStep(k, z, log, a) PROVE Promise!Next
    <2>1. DOMAIN status = Keys /\ events = [events EXCEPT ![k] = events[k]]
          /\ answers = [answers EXCEPT ![k] = answers[k]]
      BY DEF IInv, TypeOK, Rows
    <2>2. /\ phase[k] = PhaseOf(status[k]) /\ phase' = [phase EXCEPT ![k] = PhaseOf(z)]
          /\ events' = [events EXCEPT ![k] = log] /\ answers' = [answers EXCEPT ![k] = a]
      BY <1>2, <2>1, PhaseMoves DEF RowStep
    <2>3. (status[k] \in Active => PhaseOf(status[k]) = "open") /\ (z \in Active => PhaseOf(z) = "open")
      BY DEF PhaseOf, Active
    <2>4. CASE status[k] = "none" /\ z = "reserved" /\ log = events[k] /\ a = answers[k]
      <3>1. phase[k] = "absent" /\ PhaseOf(z) = "open" BY <2>2, <2>4 DEF PhaseOf, Active
      <3>2. Promise!Begin(k) BY <2>1, <2>2, <2>4, <3>1 DEF Promise!Begin
      <3> QED BY <3>2 DEF Promise!Next
    <2>5. ASSUME status[k] \in Active, z \in Active, a = answers[k],
                 NEW e \in {"chat.started", "chat.delta", "chat.usage"}, log = Append(events[k], e)
          PROVE  Promise!Next
      <3>1. phase[k] = "open" /\ phase' = phase BY <2>2, <2>3, <2>5 DEF phase
      <3>2. Promise!Emit(k, e) BY <2>1, <2>2, <2>5, <3>1 DEF Promise!Emit
      <3> QED BY <3>2 DEF Promise!Next
    <2>6. CASE status[k] \in Active /\ z \in Active /\ log = events[k] /\ answers[k] = 0 /\ a = 1
      <3>1. phase[k] = "open" /\ phase' = phase BY <2>2, <2>3, <2>6 DEF phase
      <3>2. Promise!Answer(k) BY <2>1, <2>2, <2>6, <3>1 DEF Promise!Answer
      <3> QED BY <3>2 DEF Promise!Next
    <2>7. CASE /\ status[k] \in Active /\ z = "completed" /\ a = 1
               /\ \/ log = Append(events[k], "chat.completed")
                  \/ log = events[k] /\ events[k] = <<>>
      <3>1. phase[k] = "open" /\ PhaseOf(z) = "completed" BY <2>2, <2>3, <2>7 DEF PhaseOf, Active
      <3>2. Promise!Complete(k) BY <2>1, <2>2, <2>7, <3>1 DEF Promise!Complete, Promise!Close
      <3> QED BY <3>2 DEF Promise!Next
    <2>8. CASE /\ status[k] \in Active /\ z \in {"failed", "interrupted"} /\ a = answers[k]
               /\ \/ log = Append(events[k], "chat.failed")
                  \/ log = events[k] /\ events[k] = <<>>
      <3>1. phase[k] = "open" /\ PhaseOf(z) = "failed" BY <2>2, <2>3, <2>8 DEF PhaseOf, Active
      <3>2. Promise!Fail(k) BY <2>1, <2>2, <2>8, <3>1 DEF Promise!Fail, Promise!Close
      <3> QED BY <3>2 DEF Promise!Next
    <2> QED BY <1>2, <2>4, <2>5, <2>6, <2>7, <2>8 DEF RowStep
  <1> QED BY <1>1, <1>2, NextRow

\* The repository and its turns do what ChatTurn promises the clients: every
\* step is a step of the promise, or leaves what the client sees alone.
THEOREM ImplementsPromiseHolds == ASSUME ConstantsOK PROVE Spec => ImplementsPromise
  <1>1. Init => Promise!Init
    <2> SUFFICES ASSUME Init PROVE Promise!Init OBVIOUS
    <2>1. [i \in {} |-> "chat.started"] = <<>> BY EmptyLog, NoEvents
    <2>2. phase = [k \in Keys |-> "absent"] BY DEF Init, phase
    <2> QED BY <2>1, <2>2 DEF Init, Promise!Init
  <1>2. IInv /\ [Next]_vars => [Promise!Next]_<<phase, events, answers>> BY NextPromise
  <1> QED BY <1>1, <1>2, AlwaysIInv, PTL DEF Spec, ImplementsPromise, Promise!Spec
=============================================================================
