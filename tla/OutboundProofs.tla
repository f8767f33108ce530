--------------------------- MODULE OutboundProofs ---------------------------
(***************************************************************************)
(* What TLAPS proves of Outbound, for any number of messages, dispatchers  *)
(* and faults and any lease, send and retry times: its types, that what is *)
(* recorded as sent was delivered, that every delivery after the first has *)
(* a cause of its own, and that one dispatcher never takes back "sent".    *)
(***************************************************************************)
EXTENDS Outbound, FiniteSetTheorems, TLAPS

\* Rows are worked on only after they were created.
Busy == {"sending"} \cup Reply
NewRows == \A m \in Messages : m > created => status[m] = "none"
HandsOnRows ==
    /\ \A d \in Dispatchers : \A m \in todo[d] : m <= created
    /\ \A d \in Dispatchers : pc[d] \in Busy => msg[d] \in Messages /\ msg[d] <= created

\* What a dispatcher is about to record as sent has been delivered.
AcceptedWasDelivered ==
    \A d \in Dispatchers : pc[d] = "accepted" => delivered[msg[d]] > 0

IInv == TypeOK /\ NewRows /\ HandsOnRows

\* The argument for DuplicateNeedsCause is a budget: 1 + causes[m] covers the
\* deliveries there were, one for each dispatcher that is going to deliver the
\* message or send it back to the queue undelivered, and one for a row that
\* may be claimed (again).
TryingAt == {"sending", "refused", "rejected"}
Trying(m) == {d \in Dispatchers : pc[d] \in TryingAt /\ msg[d] = m}
Held(m) == \E d \in Dispatchers : Holds(d, m)
Open(m) ==
    \/ status[m] \in {"none", "pending", "retry", "dead_letter"}
    \/ status[m] = "running" /\ ~Held(m)
Spent(m) == delivered[m] + Cardinality(Trying(m)) + (IF Open(m) THEN 1 ELSE 0)
Budget == \A m \in Messages : Spent(m) <= 1 + causes[m]

\* With one dispatcher, the row it recovers or works on is not at rest.
AtRest == {"sent", "ambiguous"}
InHandNotAtRest ==
    \A d \in Dispatchers :
        /\ pc[d] # "recovering" => todo[d] = {}
        /\ pc[d] \in Busy => status[msg[d]] \notin AtRest
        /\ \A m \in todo[d] : status[m] \notin AtRest
-----------------------------------------------------------------------------
LEMMA SetFailedOK ==
  ASSUME ConstantsOK, IInv, NEW m \in Messages, NEW dead \in BOOLEAN, SetFailed(m, dead)
  PROVE  /\ status' \in [Messages -> Status] /\ retryCount' \in [Messages -> Nat]
         /\ wait' \in [Messages -> Nat] /\ age' \in [Messages -> 0..Lease]
         /\ UNCHANGED created
         /\ \E s \in {"retry", "dead_letter"} : status' = [status EXCEPT ![m] = s]
  <1> DEFINE n == retryCount[m] + 1
  <1>1. m \in Messages /\ n \in Nat \ {0} BY DEF IInv, TypeOK
  <1>2. CASE dead \/ n > MaxRetries
    <2>1. SetStatus(m, "dead_letter", n, 0) BY <1>2 DEF SetFailed
    <2> HIDE DEF n
    <2> QED BY <1>1, <2>1 DEF SetStatus, IInv, TypeOK, Status, Terminal, ConstantsOK
  <1>3. CASE ~(dead \/ n > MaxRetries)
    <2>1. SetStatus(m, "retry", n, Backoff(n)) BY <1>3 DEF SetFailed
    <2>2. Backoff(n) \in Nat BY <1>1, <1>3 DEF ConstantsOK
    <2> HIDE DEF n
    <2> QED BY <1>1, <2>1, <2>2 DEF SetStatus, IInv, TypeOK, Status, Terminal, ConstantsOK
  <1> QED BY <1>2, <1>3

LEMMA InitIInv == ASSUME ConstantsOK, Init PROVE IInv
  BY DEF ConstantsOK, Init, IInv, TypeOK, NewRows, HandsOnRows, Status, Messages, Busy, Reply, NoMessage

\* The steps of a dispatcher.
LEMMA StepIInv == ASSUME ConstantsOK, IInv, NEW d \in Dispatchers, Step(d) PROVE IInv'
  <1> USE DEF ConstantsOK, IInv, Goto
  <1>0. Messages \subseteq Int /\ created \in Int BY DEF Messages, TypeOK
  <1>1. CASE Start(d)
    <2>1. \A m \in Messages : Stale(m) => m <= created BY DEF NewRows, HandsOnRows, Stale, TypeOK, Messages
    <2> QED BY <1>1, <2>1 DEF Start, rows, bounds, TypeOK, NewRows, HandsOnRows, Busy, Reply
  <1>2. CASE RecoverRow(d)
    <2>1. PICK m \in todo[d] : SetFailed(m, FALSE) /\ todo' = [todo EXCEPT ![d] = @ \ {m}]
                               /\ (Excuse(m) \/ UNCHANGED causes)
      BY <1>2 DEF RecoverRow
    <2>2. m <= created /\ m \in Messages BY DEF NewRows, HandsOnRows, TypeOK
    <2>3. /\ status' \in [Messages -> Status] /\ retryCount' \in [Messages -> Nat]
          /\ wait' \in [Messages -> Nat] /\ age' \in [Messages -> 0..Lease] /\ UNCHANGED created
          /\ \E s \in {"retry", "dead_letter"} : status' = [status EXCEPT ![m] = s]
      BY <2>1, <2>2, SetFailedOK
    <2>4. TypeOK' BY <1>2, <2>1, <2>2, <2>3 DEF RecoverRow, bounds, TypeOK, Excuse
    <2>5. NewRows' BY <1>0, <2>2, <2>3 DEF TypeOK, NewRows
    <2>6. HandsOnRows' BY <1>2, <2>1, <2>3 DEF RecoverRow, TypeOK, HandsOnRows
    <2> QED BY <2>4, <2>5, <2>6
  <1>3. CASE RunForever(d)
    BY <1>3 DEF RunForever, rows, bounds, TypeOK, NewRows, HandsOnRows, Busy, Reply
  <1>4. CASE ClaimNext(d)
    <2>1. PICK m \in Messages : /\ Ready(m) /\ status' = [status EXCEPT ![m] = "running"]
                                /\ age' = [age EXCEPT ![m] = 0] /\ msg' = [msg EXCEPT ![d] = m]
      BY <1>4 DEF ClaimNext, Oldest
    <2>2. m <= created BY <2>1 DEF Ready, NewRows, HandsOnRows, TypeOK, Messages
    <2>3. TypeOK' BY <1>4, <2>1 DEF ClaimNext, bounds, TypeOK, Status
    <2>4. NewRows'
      <3>1. created' = created BY <1>4 DEF ClaimNext
      <3> QED BY <1>0, <2>1, <2>2, <3>1 DEF TypeOK, NewRows
    <2>5. HandsOnRows' BY <1>4, <2>1, <2>2 DEF ClaimNext, TypeOK, HandsOnRows, Busy, Reply
    <2> QED BY <2>3, <2>4, <2>5
  <1>5. ASSUME NEW r \in Reply, SendText(d, r) PROVE IInv'
    <2>1. msg[d] <= created /\ msg[d] \in Messages BY <1>5 DEF SendText, NewRows, HandsOnRows, Busy
    <2>2. TypeOK' BY <1>5, <2>1 DEF SendText, rows, bounds, TypeOK
    <2>3. NewRows' /\ HandsOnRows' BY <1>5, <2>1 DEF SendText, rows, TypeOK, NewRows, HandsOnRows, Busy
    <2> QED BY <2>2, <2>3
  <1>6. CASE MarkSent(d) \/ MarkAmbiguous(d)
    <2>1. msg[d] <= created /\ msg[d] \in Messages
      BY <1>6 DEF MarkSent, MarkAmbiguous, NewRows, HandsOnRows, Busy, Reply
    <2>2. PICK s \in {"sent", "ambiguous"}, t \in Nat : SetStatus(msg[d], s, retryCount[msg[d]], t) /\ Settle(d)
      BY <1>6, <2>1 DEF MarkSent, MarkAmbiguous, TypeOK
    <2>3. TypeOK' BY <2>1, <2>2 DEF SetStatus, Settle, bounds, TypeOK, Status, Terminal
    <2>4. NewRows' BY <1>0, <2>1, <2>2 DEF SetStatus, TypeOK, NewRows
    <2>5. HandsOnRows' BY <2>2 DEF SetStatus, Settle, TypeOK, HandsOnRows, Busy, Reply
    <2> QED BY <2>3, <2>4, <2>5
  <1>7. CASE MarkFailed(d)
    <2>1. msg[d] <= created /\ msg[d] \in Messages BY <1>7 DEF MarkFailed, NewRows, HandsOnRows, Busy, Reply
    <2>2. SetFailed(msg[d], pc[d] = "rejected") /\ Settle(d) BY <1>7 DEF MarkFailed
    <2>3. /\ status' \in [Messages -> Status] /\ retryCount' \in [Messages -> Nat]
          /\ wait' \in [Messages -> Nat] /\ age' \in [Messages -> 0..Lease] /\ UNCHANGED created
          /\ \E s \in {"retry", "dead_letter"} : status' = [status EXCEPT ![msg[d]] = s]
      BY <2>1, <2>2, SetFailedOK
    <2>4. TypeOK' BY <2>2, <2>3 DEF Settle, bounds, TypeOK
    <2>5. NewRows' BY <1>0, <2>1, <2>3 DEF TypeOK, NewRows
    <2>6. HandsOnRows' BY <2>2, <2>3 DEF Settle, TypeOK, HandsOnRows, Busy, Reply
    <2> QED BY <2>4, <2>5, <2>6
  <1> QED BY <1>1, <1>2, <1>3, <1>4, <1>5, <1>6, <1>7 DEF Step

\* Everything else: rows are created, dispatchers fail, the operator and the clock.
LEMMA OtherIInv ==
  ASSUME ConstantsOK, IInv,
         \/ Create \/ Tick
         \/ \E d \in Dispatchers : StoreRaises(d) \/ Crash(d)
         \/ \E m \in Messages : Cancel(m) \/ Requeue(m)
  PROVE  IInv'
  <1> USE DEF ConstantsOK, IInv, Goto
  <1>0. Messages \subseteq Int /\ created \in Int BY DEF Messages, TypeOK
  <1>1. CASE Create
    <2>1. created + 1 \in Messages /\ created \in Nat BY <1>1 DEF Create, TypeOK, Messages
    <2>2. TypeOK'
      <3>1. created' \in 0..MaxMessages BY <1>1 DEF Create, TypeOK
      <3> QED BY <1>1, <2>1, <3>1 DEF Create, loop, bounds, TypeOK, Status
    <2>3. NewRows' BY <1>0, <1>1, <2>1 DEF Create, TypeOK, NewRows
    <2>4. HandsOnRows'
      <3>1. \A m \in Messages : m <= created => m <= created' BY <1>0, <1>1, <2>1 DEF Create
      <3> QED BY <1>1, <3>1 DEF Create, loop, TypeOK, HandsOnRows, Busy, Reply
    <2> QED BY <2>2, <2>3, <2>4
  <1>2. CASE Tick
    BY <1>2 DEF Tick, bounds, TypeOK, NewRows, HandsOnRows
  <1>3. ASSUME NEW d \in Dispatchers, StoreRaises(d) PROVE IInv'
    <2> USE <1>3 DEF StoreRaises, Excuse
    <2>1. TypeOK' BY DEF rows, TypeOK, Reply, NoMessage
    <2>2. NewRows' /\ HandsOnRows' BY DEF rows, TypeOK, NewRows, HandsOnRows, Busy, Reply
    <2> QED BY <2>1, <2>2
  <1>4. ASSUME NEW d \in Dispatchers, Crash(d) PROVE IInv'
    <2> USE <1>4 DEF Crash, Excuse
    <2>1. TypeOK' BY DEF rows, TypeOK, NoMessage
    <2>2. NewRows' /\ HandsOnRows' BY DEF rows, TypeOK, NewRows, HandsOnRows, Busy, Reply
    <2> QED BY <2>1, <2>2
  <1>5. ASSUME NEW m \in Messages, Cancel(m) \/ Requeue(m) PROVE IInv'
    <2> USE <1>5 DEF Cancel, Requeue, SetStatus, Excuse
    <2>1. TypeOK' BY DEF loop, TypeOK, Status, Terminal
    <2>2. NewRows' BY <1>0 DEF TypeOK, NewRows
    <2>3. HandsOnRows' BY DEF loop, TypeOK, HandsOnRows
    <2> QED BY <2>1, <2>2, <2>3
  <1> QED BY <1>1, <1>2, <1>3, <1>4, <1>5

LEMMA NextIInv == ASSUME ConstantsOK, IInv, [Next]_vars PROVE IInv'
  <1>1. CASE Next BY <1>1, StepIInv, OtherIInv DEF Next
  <1>2. CASE UNCHANGED vars
    BY <1>2 DEF vars, rows, loop, bounds, IInv, TypeOK, NewRows, HandsOnRows
  <1> QED BY <1>1, <1>2

\* The columns of every row, the loops and the counters have their types,
\* whatever dispatchers, operators and faults do.
THEOREM TypesHold == ASSUME ConstantsOK PROVE Spec => []TypeOK
  <1>1. IInv => TypeOK BY DEF IInv
  <1> QED BY <1>1, InitIInv, NextIInv, PTL DEF Spec
-----------------------------------------------------------------------------
DInv == IInv /\ AcceptedWasDelivered /\ SentWasDelivered

LEMMA InitDInv == ASSUME ConstantsOK, Init PROVE DInv
  BY InitIInv DEF Init, DInv, AcceptedWasDelivered, SentWasDelivered

LEMMA NextDInv == ASSUME ConstantsOK, DInv, [Next]_vars PROVE DInv'
  <1> USE DEF DInv
  <1>1. IInv' BY NextIInv
  <1>2. ASSUME NEW d \in Dispatchers, Step(d)
        PROVE  AcceptedWasDelivered' /\ SentWasDelivered'
    <2> USE DEF AcceptedWasDelivered, SentWasDelivered, IInv, TypeOK, Goto
    <2>1. CASE Start(d) \/ RunForever(d)
      BY <2>1 DEF Start, RunForever, rows
    <2>2. CASE RecoverRow(d)
      <3>1. PICK m \in todo[d] : SetFailed(m, FALSE) BY <2>2 DEF RecoverRow
      <3>2. m \in Messages OBVIOUS
      <3>3. PICK s \in {"retry", "dead_letter"} : status' = [status EXCEPT ![m] = s]
        BY <3>1, <3>2, SetFailedOK
      <3> QED BY <2>2, <3>3 DEF RecoverRow
    <2>3. CASE ClaimNext(d)
      BY <2>3 DEF ClaimNext
    <2>4. ASSUME NEW r \in Reply, SendText(d, r) PROVE AcceptedWasDelivered' /\ SentWasDelivered'
      <3>1. msg[d] \in Messages BY <2>4 DEF SendText, HandsOnRows, Busy
      <3> QED BY <2>4, <3>1 DEF SendText, rows, Reply, HandsOnRows, Busy
    <2>5. CASE MarkSent(d) \/ MarkAmbiguous(d)
      BY <2>5 DEF MarkSent, MarkAmbiguous, SetStatus, Settle
    <2>6. CASE MarkFailed(d)
      <3>1. msg[d] \in Messages BY <2>6 DEF MarkFailed, HandsOnRows, Busy, Reply
      <3>2. SetFailed(msg[d], pc[d] = "rejected") BY <2>6 DEF MarkFailed
      <3>3. PICK s \in {"retry", "dead_letter"} : status' = [status EXCEPT ![msg[d]] = s]
        BY <3>1, <3>2, SetFailedOK
      <3> QED BY <2>6, <3>3 DEF MarkFailed, Settle
    <2> QED BY <1>2, <2>1, <2>2, <2>3, <2>4, <2>5, <2>6 DEF Step
  <1>3. ASSUME \/ Create \/ Tick \/ UNCHANGED vars
               \/ \E d \in Dispatchers : StoreRaises(d) \/ Crash(d)
               \/ \E m \in Messages : Cancel(m) \/ Requeue(m)
        PROVE  AcceptedWasDelivered' /\ SentWasDelivered'
    <2> USE DEF AcceptedWasDelivered, SentWasDelivered, IInv, TypeOK, Goto, SetStatus
    <2>1. CASE Create \/ Tick \/ UNCHANGED vars
      BY <2>1 DEF Create, Tick, vars, rows, loop
    <2>2. CASE \E d \in Dispatchers : StoreRaises(d) \/ Crash(d)
      BY <2>2 DEF StoreRaises, Crash, rows
    <2>3. CASE \E m \in Messages : Cancel(m) \/ Requeue(m)
      BY <2>3 DEF Cancel, Requeue, loop
    <2> QED BY <1>3, <2>1, <2>2, <2>3
  <1> QED BY <1>1, <1>2, <1>3 DEF Next

\* A row that says "sent" belongs to a message the provider accepted, however
\* recoveries, slow dispatchers and the operator overwrite the row.
THEOREM SentWasDeliveredHolds == ASSUME ConstantsOK PROVE Spec => []SentWasDelivered
  <1>1. DInv => SentWasDelivered BY DEF DInv
  <1> QED BY <1>1, InitDInv, NextDInv, PTL DEF Spec
-----------------------------------------------------------------------------
At(l, x, m) == l \in TryingAt /\ x = m
OtherHolds(d, m) == \E e \in Dispatchers \ {d} : Holds(e, m)

\* How one dispatcher's step changes who is trying and who holds a row.
LEMMA Moved ==
  ASSUME ConstantsOK, IInv, NEW d \in Dispatchers, NEW l, NEW x, NEW m \in Messages,
         pc' = [pc EXCEPT ![d] = l], msg' = [msg EXCEPT ![d] = x]
  PROVE  /\ Cardinality(Trying(m)) \in Nat
         /\ At(pc[d], msg[d], m) /\ ~At(l, x, m)
              => Cardinality(Trying(m))' = Cardinality(Trying(m)) - 1
         /\ ~At(pc[d], msg[d], m) /\ At(l, x, m)
              => Cardinality(Trying(m))' = Cardinality(Trying(m)) + 1
         /\ At(pc[d], msg[d], m) /\ At(l, x, m)
              => Cardinality(Trying(m))' = Cardinality(Trying(m))
         /\ ~At(pc[d], msg[d], m) /\ ~At(l, x, m)
              => Cardinality(Trying(m))' = Cardinality(Trying(m))
         /\ Held(m) <=> (pc[d] \in Busy /\ msg[d] = m) \/ OtherHolds(d, m)
         /\ Held(m)' <=> (l \in Busy /\ x = m) \/ OtherHolds(d, m)
  <1> USE DEF IInv, TypeOK
  <1>1. IsFiniteSet(Trying(m)) /\ Cardinality(Trying(m)) \in Nat
    BY FS_Subset, FS_CardinalityType DEF Trying, ConstantsOK
  <1>2. d \in Trying(m) <=> At(pc[d], msg[d], m) BY DEF Trying, At
  <1>5. Held(m) <=> (pc[d] \in Busy /\ msg[d] = m) \/ OtherHolds(d, m)
    BY DEF Held, OtherHolds, Holds, Busy
  <1>6. Held(m)' <=> (l \in Busy /\ x = m) \/ OtherHolds(d, m)
    <2>1. \A e \in Dispatchers \ {d} : Holds(e, m)' <=> Holds(e, m) BY DEF Holds
    <2>2. Holds(d, m)' <=> l \in Busy /\ x = m BY DEF Holds, Busy
    <2> QED BY <2>1, <2>2 DEF Held, OtherHolds
  <1>3. CASE At(l, x, m)
    <2>1. Trying(m)' = Trying(m) \cup {d} BY <1>3 DEF Trying, At
    <2>2. Cardinality(Trying(m) \cup {d}) =
            IF d \in Trying(m) THEN Cardinality(Trying(m)) ELSE Cardinality(Trying(m)) + 1
      BY <1>1, FS_AddElement
    <2> QED BY <1>1, <1>2, <1>3, <1>5, <1>6, <2>1, <2>2
  <1>4. CASE ~At(l, x, m)
    <2>1. Trying(m)' = Trying(m) \ {d} BY <1>4 DEF Trying, At
    <2>2. Cardinality(Trying(m) \ {d}) =
            IF d \in Trying(m) THEN Cardinality(Trying(m)) - 1 ELSE Cardinality(Trying(m))
      BY <1>1, FS_RemoveElement
    <2> QED BY <1>1, <1>2, <1>4, <1>5, <1>6, <2>1, <2>2
  <1> QED BY <1>3, <1>4

LEMMA Unmoved ==
  ASSUME ConstantsOK, IInv, NEW m \in Messages, UNCHANGED <<pc, msg>>
  PROVE  /\ Cardinality(Trying(m)) \in Nat
         /\ Cardinality(Trying(m))' = Cardinality(Trying(m))
         /\ Held(m)' <=> Held(m)
  <1>1. Cardinality(Trying(m)) \in Nat
    BY FS_Subset, FS_CardinalityType DEF Trying, ConstantsOK
  <1> QED BY <1>1 DEF Trying, Held, Holds

LEMMA InitBudget == ASSUME ConstantsOK, Init PROVE Budget
  <1>1. \A m \in Messages : Trying(m) = {} BY DEF Init, Trying, TryingAt
  <1> QED BY <1>1, FS_EmptySet DEF Init, Budget, Spent

LEMMA StepBudget ==
  ASSUME ConstantsOK, IInv, Budget, NEW d \in Dispatchers, Step(d)
  PROVE  Budget'
  <1> SUFFICES ASSUME NEW m \in Messages PROVE (Spent(m) <= 1 + causes[m])' BY DEF Budget
  <1>0. Spent(m) <= 1 + causes[m] BY DEF Budget
  <1> USE DEF IInv, TypeOK, Goto
  <1>1. CASE Start(d) \/ RunForever(d)
    <2>1. PICK l \in {"recovering", "idle"} : pc' = [pc EXCEPT ![d] = l]
      BY <1>1 DEF Start, RunForever
    <2>2. msg' = [msg EXCEPT ![d] = msg[d]] /\ UNCHANGED <<status, delivered, causes>>
      BY <1>1 DEF Start, RunForever, rows
    <2>3. pc[d] \notin TryingAt \cup Busy /\ l \notin TryingAt \cup Busy
      BY <1>1 DEF Start, RunForever, TryingAt, Busy, Reply
    <2>4. Open(m)' <=> Open(m) BY <2>1, <2>2, <2>3, Moved DEF Open
    <2>5. ~At(pc[d], msg[d], m) /\ ~At(l, msg[d], m) BY <2>3 DEF At
    <2>6. Cardinality(Trying(m)) \in Nat /\ Cardinality(Trying(m))' = Cardinality(Trying(m)) BY <2>1, <2>2, <2>5, Moved
    <2> QED BY <1>0, <2>2, <2>4, <2>6 DEF Spent
  <1>2. CASE RecoverRow(d)
    <2>1. PICK i \in todo[d] :
            /\ SetFailed(i, FALSE)
            /\ IF status[i] \in {"sent", "ambiguous", "cancelled"} \/ Held(i)
               THEN Excuse(i) ELSE UNCHANGED causes
      BY <1>2 DEF RecoverRow, Held
    <2>2. i \in Messages /\ UNCHANGED <<pc, msg, delivered>> BY <1>2 DEF RecoverRow
    <2>3. PICK s \in {"retry", "dead_letter"} : status' = [status EXCEPT ![i] = s]
      BY <2>1, <2>2, SetFailedOK
    <2>4. CASE i = m
      <3>1. Open(m) \/ causes'[m] = causes[m] + 1 BY <2>1, <2>4 DEF Open, Excuse, Status, Terminal
      <3>2. causes'[m] >= causes[m] BY <2>1, <2>4 DEF Excuse
      <3>3. Cardinality(Trying(m)) \in Nat /\ Cardinality(Trying(m))' = Cardinality(Trying(m)) BY <2>2, Unmoved
      <3>4. causes'[m] \in Nat BY <2>1, <2>2 DEF Excuse
      <3> QED BY <1>0, <2>2, <3>1, <3>2, <3>3, <3>4 DEF Spent
    <2>5. CASE i # m
      <3>1. causes'[m] = causes[m] /\ status'[m] = status[m] BY <2>1, <2>2, <2>3, <2>5 DEF Excuse
      <3>2. Open(m)' <=> Open(m) BY <2>2, <3>1, Unmoved DEF Open
      <3> QED BY <1>0, <2>2, <3>1, <3>2, Unmoved DEF Spent
    <2> QED BY <2>4, <2>5
  <1>3. CASE ClaimNext(d)
    <2>1. PICK i \in Messages : /\ Ready(i) /\ status' = [status EXCEPT ![i] = "running"]
                                /\ msg' = [msg EXCEPT ![d] = i]
      BY <1>3 DEF ClaimNext, Oldest
    <2>2. /\ pc[d] = "idle" /\ pc' = [pc EXCEPT ![d] = "sending"]
          /\ UNCHANGED <<delivered, causes>>
      BY <1>3 DEF ClaimNext
    <2>3. pc[d] \notin TryingAt \cup Busy /\ "sending" \in TryingAt \cap Busy
      BY <2>2 DEF TryingAt, Busy, Reply
    <2>4. CASE i = m
      <3>1. Open(m) BY <2>1, <2>4 DEF Ready, Open
      <3>2. Held(m)' BY <2>1, <2>2, <2>3, <2>4, Moved
      <3>3. ~Open(m)' BY <2>1, <2>4, <3>2 DEF Open
      <3>4. ~At(pc[d], msg[d], m) /\ At("sending", i, m) BY <2>3, <2>4 DEF At
      <3>5. Cardinality(Trying(m)) \in Nat /\ Cardinality(Trying(m))' = Cardinality(Trying(m)) + 1 BY <2>1, <2>2, <3>4, Moved
      <3> QED BY <1>0, <2>2, <3>1, <3>3, <3>5 DEF Spent
    <2>5. CASE i # m
      <3>1. Open(m)' <=> Open(m) BY <2>1, <2>2, <2>3, <2>5, Moved DEF Open
      <3>2. ~At(pc[d], msg[d], m) /\ ~At("sending", i, m) BY <2>3, <2>5 DEF At
      <3>3. Cardinality(Trying(m)) \in Nat /\ Cardinality(Trying(m))' = Cardinality(Trying(m)) BY <2>1, <2>2, <3>2, Moved
      <3> QED BY <1>0, <2>2, <3>1, <3>3 DEF Spent
    <2> QED BY <2>4, <2>5
  <1>4. ASSUME NEW r \in Reply, SendText(d, r) PROVE (Spent(m) <= 1 + causes[m])'
    <2>1. /\ pc[d] = "sending" /\ pc' = [pc EXCEPT ![d] = r] /\ msg' = [msg EXCEPT ![d] = msg[d]]
          /\ UNCHANGED <<status, causes>>
      BY <1>4 DEF SendText, rows
    <2>2. pc[d] \in TryingAt \cap Busy /\ r \in Busy /\ msg[d] \in Messages
      BY <2>1 DEF TryingAt, Busy, HandsOnRows
    <2>3. Open(m)' <=> Open(m) BY <2>1, <2>2, Moved DEF Open
    <2>4. r \in TryingAt => UNCHANGED delivered BY <1>4 DEF SendText, TryingAt, Reply
    <2>5. \/ UNCHANGED delivered
          \/ delivered' = [delivered EXCEPT ![msg[d]] = @ + 1]
      BY <1>4 DEF SendText
    <2>6. CASE msg[d] = m /\ r \notin TryingAt
      <3>1. At(pc[d], msg[d], m) /\ ~At(r, msg[d], m) BY <2>2, <2>6 DEF At
      <3>2. Cardinality(Trying(m)) \in Nat /\ Cardinality(Trying(m))' = Cardinality(Trying(m)) - 1 BY <2>1, <3>1, Moved
      <3>3. delivered'[m] \in Nat /\ delivered'[m] <= delivered[m] + 1 BY <2>2, <2>5, <2>6
      <3> QED BY <1>0, <2>1, <2>3, <3>2, <3>3 DEF Spent
    <2>7. CASE ~(msg[d] = m /\ r \notin TryingAt)
      <3>1. \/ At(pc[d], msg[d], m) /\ At(r, msg[d], m)
            \/ ~At(pc[d], msg[d], m) /\ ~At(r, msg[d], m)
        BY <2>2, <2>7 DEF At
      <3>2. Cardinality(Trying(m)) \in Nat /\ Cardinality(Trying(m))' = Cardinality(Trying(m)) BY <2>1, <3>1, Moved
      <3>3. delivered'[m] = delivered[m] BY <2>2, <2>4, <2>5, <2>7
      <3> QED BY <1>0, <2>1, <2>3, <3>2, <3>3 DEF Spent
    <2> QED BY <2>6, <2>7
  <1>5. CASE MarkSent(d) \/ MarkAmbiguous(d)
    <2>1. PICK s \in {"sent", "ambiguous"} : status' = [status EXCEPT ![msg[d]] = s]
      BY <1>5 DEF MarkSent, MarkAmbiguous, SetStatus
    <2>2. /\ pc[d] \in {"accepted", "unsure"} /\ UNCHANGED <<delivered, causes>>
          /\ pc' = [pc EXCEPT ![d] = "idle"] /\ msg' = [msg EXCEPT ![d] = NoMessage]
      BY <1>5 DEF MarkSent, MarkAmbiguous, Settle
    <2>3. pc[d] \notin TryingAt /\ pc[d] \in Busy /\ "idle" \notin TryingAt \cup Busy /\ msg[d] \in Messages
      BY <2>2 DEF TryingAt, Busy, Reply, HandsOnRows
    <2>4. Open(m)' => Open(m)
      <3>1. CASE msg[d] = m BY <2>1, <3>1 DEF Open
      <3>2. CASE msg[d] # m BY <2>1, <2>2, <2>3, <3>2, Moved DEF Open
      <3> QED BY <3>1, <3>2
    <2>5. ~At(pc[d], msg[d], m) /\ ~At("idle", NoMessage, m) BY <2>3 DEF At
    <2>6. Cardinality(Trying(m)) \in Nat /\ Cardinality(Trying(m))' = Cardinality(Trying(m)) BY <2>2, <2>5, Moved
    <2> QED BY <1>0, <2>2, <2>4, <2>6 DEF Spent
  <1>6. CASE MarkFailed(d)
    <2>1. /\ pc[d] \in {"refused", "rejected"} /\ UNCHANGED <<delivered, causes>>
          /\ pc' = [pc EXCEPT ![d] = "idle"] /\ msg' = [msg EXCEPT ![d] = NoMessage]
          /\ SetFailed(msg[d], pc[d] = "rejected")
      BY <1>6 DEF MarkFailed, Settle
    <2>2. pc[d] \in TryingAt \cap Busy /\ "idle" \notin TryingAt \cup Busy /\ msg[d] \in Messages
      BY <2>1 DEF TryingAt, Busy, Reply, HandsOnRows
    <2>3. PICK s \in {"retry", "dead_letter"} : status' = [status EXCEPT ![msg[d]] = s]
      BY <2>1, <2>2, SetFailedOK
    <2>4. msg[d] # m => (Open(m)' => Open(m))
      <3>1. msg[d] # m => status'[m] = status[m] BY <2>2, <2>3
      <3>2. msg[d] # m => (Held(m)' <=> Held(m)) BY <2>1, <2>2, Moved
      <3> QED BY <3>1, <3>2 DEF Open
    <2>5. ~At("idle", NoMessage, m) /\ (At(pc[d], msg[d], m) <=> msg[d] = m) BY <2>2 DEF At
    <2>6. CASE msg[d] = m
      <3>1. Cardinality(Trying(m)) \in Nat /\ Cardinality(Trying(m))' = Cardinality(Trying(m)) - 1 BY <2>1, <2>5, <2>6, Moved
      <3> QED BY <1>0, <2>1, <3>1 DEF Spent
    <2>7. CASE msg[d] # m
      <3>1. Cardinality(Trying(m)) \in Nat /\ Cardinality(Trying(m))' = Cardinality(Trying(m)) BY <2>1, <2>5, <2>7, Moved
      <3> QED BY <1>0, <2>1, <2>4, <2>7, <3>1 DEF Spent
    <2> QED BY <2>6, <2>7
  <1> QED BY <1>1, <1>2, <1>3, <1>4, <1>5, <1>6 DEF Step

LEMMA OtherBudget ==
  ASSUME ConstantsOK, IInv, Budget,
         \/ Create \/ Tick \/ UNCHANGED vars
         \/ \E d \in Dispatchers : StoreRaises(d) \/ Crash(d)
         \/ \E m \in Messages : Cancel(m) \/ Requeue(m)
  PROVE  Budget'
  <1> SUFFICES ASSUME NEW m \in Messages PROVE (Spent(m) <= 1 + causes[m])' BY DEF Budget
  <1>0. Spent(m) <= 1 + causes[m] BY DEF Budget
  <1> USE DEF IInv, TypeOK, Goto
  <1>1. CASE Create \/ Tick \/ UNCHANGED vars
    <2>1. UNCHANGED <<pc, msg, delivered, causes>> BY <1>1 DEF Create, Tick, vars, loop
    <2>2. created + 1 \in Messages => created + 1 > created BY DEF Messages
    <2>3. \/ UNCHANGED status
          \/ /\ status[m] = "none" \/ status'[m] = status[m]
             /\ status'[m] \in {"pending", status[m]}
      BY <1>1, <2>2 DEF Create, Tick, vars, rows, NewRows
    <2>4. Open(m)' <=> Open(m) BY <2>1, <2>3, Unmoved DEF Open
    <2> QED BY <1>0, <2>1, <2>4, Unmoved DEF Spent
  <1>2. ASSUME NEW d \in Dispatchers, StoreRaises(d) PROVE (Spent(m) <= 1 + causes[m])'
    <2>1. CASE pc[d] = "accepted"
      <3>1. PICK l \in {"unsure", "refused"} : pc' = [pc EXCEPT ![d] = l] BY <1>2, <2>1 DEF StoreRaises
      <3>2. /\ msg' = [msg EXCEPT ![d] = msg[d]] /\ UNCHANGED <<status, delivered>>
            /\ causes' = [causes EXCEPT ![msg[d]] = @ + 1]
        BY <1>2, <2>1 DEF StoreRaises, rows, Excuse
      <3>3. pc[d] \in Busy /\ l \in Busy /\ pc[d] \notin TryingAt BY <2>1 DEF Busy, Reply, TryingAt
      <3>4. Open(m)' <=> Open(m) BY <3>1, <3>2, <3>3, Moved DEF Open
      <3>5. ~At(pc[d], msg[d], m) /\ (At(l, msg[d], m) => msg[d] = m) BY <3>3 DEF At
      <3>6. CASE msg[d] = m
        <4>1. Cardinality(Trying(m)) \in Nat /\ Cardinality(Trying(m))' \in {Cardinality(Trying(m)), Cardinality(Trying(m)) + 1}
          <5>1. CASE At(l, msg[d], m)
            <6>1. Cardinality(Trying(m)) \in Nat /\ Cardinality(Trying(m))' = Cardinality(Trying(m)) + 1 BY <3>1, <3>2, <3>5, <5>1, Moved
            <6> QED BY <6>1
          <5>2. CASE ~At(l, msg[d], m)
            <6>1. Cardinality(Trying(m)) \in Nat /\ Cardinality(Trying(m))' = Cardinality(Trying(m)) BY <3>1, <3>2, <3>5, <5>2, Moved
            <6> QED BY <6>1
          <5> QED BY <5>1, <5>2
        <4>2. causes'[m] = causes[m] + 1 BY <3>2, <3>6
        <4> QED BY <1>0, <3>2, <3>4, <4>1, <4>2 DEF Spent
      <3>7. CASE msg[d] # m
        <4>1. Cardinality(Trying(m)) \in Nat /\ Cardinality(Trying(m))' = Cardinality(Trying(m)) BY <3>1, <3>2, <3>5, <3>7, Moved
        <4>2. causes'[m] = causes[m] BY <3>2, <3>7
        <4> QED BY <1>0, <3>2, <3>4, <4>1, <4>2 DEF Spent
      <3> QED BY <3>6, <3>7
    <2>2. CASE pc[d] # "accepted"
      <3>1. /\ pc[d] \in {"idle", "unsure", "refused", "rejected"}
            /\ pc' = [pc EXCEPT ![d] = "dead"] /\ msg' = [msg EXCEPT ![d] = NoMessage]
            /\ UNCHANGED <<status, delivered>>
            /\ IF pc[d] = "unsure" THEN causes' = [causes EXCEPT ![msg[d]] = @ + 1] ELSE UNCHANGED causes
        BY <1>2, <2>2 DEF StoreRaises, rows, Excuse
      <3>2. "dead" \notin TryingAt \cup Busy /\ (pc[d] \in Busy => pc[d] \in TryingAt \/ pc[d] = "unsure")
        BY <3>1 DEF Busy, Reply, TryingAt
      <3>3. ~(pc[d] \in Busy /\ msg[d] = m) => (Open(m)' => Open(m)) BY <3>1, <3>2, Moved DEF Open
      <3>4. ~At("dead", NoMessage, m) BY <3>2 DEF At
      <3>5. CASE At(pc[d], msg[d], m)
        <4>1. Cardinality(Trying(m)) \in Nat /\ Cardinality(Trying(m))' = Cardinality(Trying(m)) - 1 BY <3>1, <3>4, <3>5, Moved
        <4>2. causes'[m] >= causes[m] /\ causes'[m] \in Nat BY <3>1
        <4> QED BY <1>0, <3>1, <4>1, <4>2 DEF Spent
      <3>6. CASE ~At(pc[d], msg[d], m)
        <4>1. Cardinality(Trying(m)) \in Nat /\ Cardinality(Trying(m))' = Cardinality(Trying(m)) BY <3>1, <3>4, <3>6, Moved
        <4>2. \/ (Open(m)' => Open(m)) /\ causes'[m] >= causes[m]
              \/ causes'[m] = causes[m] + 1
          BY <3>1, <3>2, <3>3, <3>6 DEF At
        <4>3. causes'[m] \in Nat BY <3>1
        <4> QED BY <1>0, <3>1, <4>1, <4>2, <4>3 DEF Spent
      <3> QED BY <3>5, <3>6
    <2> QED BY <2>1, <2>2
  <1>3. ASSUME NEW d \in Dispatchers, Crash(d) PROVE (Spent(m) <= 1 + causes[m])'
    <2>1. /\ pc' = [pc EXCEPT ![d] = "down"] /\ msg' = [msg EXCEPT ![d] = NoMessage]
          /\ UNCHANGED <<status, delivered>>
          /\ IF pc[d] \in Reply THEN causes' = [causes EXCEPT ![msg[d]] = @ + 1] ELSE UNCHANGED causes
      BY <1>3 DEF Crash, rows, Excuse
    <2>2. "down" \notin TryingAt \cup Busy /\ (pc[d] \in Busy => pc[d] \in TryingAt \/ pc[d] \in Reply)
      BY DEF Busy, Reply, TryingAt
    <2>3. ~(pc[d] \in Busy /\ msg[d] = m) => (Open(m)' => Open(m)) BY <2>1, <2>2, Moved DEF Open
    <2>4. ~At("down", NoMessage, m) BY <2>2 DEF At
    <2>7. pc' = [pc EXCEPT ![d] = "down"] /\ msg' = [msg EXCEPT ![d] = NoMessage] BY <2>1
    <2>5. CASE At(pc[d], msg[d], m)
      <3>1. Cardinality(Trying(m)) \in Nat /\ Cardinality(Trying(m))' = Cardinality(Trying(m)) - 1 BY <2>7, <2>4, <2>5, Moved
      <3>2. causes'[m] >= causes[m] /\ causes'[m] \in Nat BY <2>1
      <3> QED BY <1>0, <2>1, <3>1, <3>2 DEF Spent
    <2>6. CASE ~At(pc[d], msg[d], m)
      <3>1. Cardinality(Trying(m)) \in Nat /\ Cardinality(Trying(m))' = Cardinality(Trying(m)) BY <2>7, <2>4, <2>6, Moved
      <3>2. \/ (Open(m)' => Open(m)) /\ causes'[m] >= causes[m]
            \/ causes'[m] = causes[m] + 1
        BY <2>1, <2>2, <2>3, <2>6 DEF At
      <3>3. causes'[m] \in Nat BY <2>1
      <3> QED BY <1>0, <2>1, <3>1, <3>2, <3>3 DEF Spent
    <2> QED BY <2>5, <2>6
  <1>4. ASSUME NEW i \in Messages, Cancel(i) PROVE (Spent(m) <= 1 + causes[m])'
    <2>1. UNCHANGED <<pc, msg, delivered, causes>> /\ status' = [status EXCEPT ![i] = "cancelled"]
      BY <1>4 DEF Cancel, loop, SetStatus
    <2>2. Open(m)' => Open(m) BY <2>1, Unmoved DEF Open
    <2> QED BY <1>0, <2>1, <2>2, Unmoved DEF Spent
  <1>5. ASSUME NEW i \in Messages, Requeue(i) PROVE (Spent(m) <= 1 + causes[m])'
    <2>1. /\ UNCHANGED <<pc, msg, delivered>> /\ status' = [status EXCEPT ![i] = "pending"]
          /\ causes' = [causes EXCEPT ![i] = @ + 1]
      BY <1>5 DEF Requeue, loop, SetStatus, Excuse
    <2>2. i # m => (Open(m)' <=> Open(m)) BY <2>1, Unmoved DEF Open
    <2> QED BY <1>0, <2>1, <2>2, Unmoved DEF Spent
  <1> QED BY <1>1, <1>2, <1>3, <1>4, <1>5

BInv == IInv /\ Budget

LEMMA NextBInv == ASSUME ConstantsOK, BInv, [Next]_vars PROVE BInv'
  BY NextIInv, StepBudget, OtherBudget DEF BInv, Next

\* Every delivery of a message after the first has a cause of its own: a crash
\* or store error behind the send, a recovery of a row that was still being
\* sent, or a retry by the operator.
THEOREM DuplicateNeedsCauseHolds == ASSUME ConstantsOK PROVE Spec => []DuplicateNeedsCause
  <1>1. BInv => DuplicateNeedsCause
    <2> SUFFICES ASSUME BInv, NEW m \in Messages PROVE delivered[m] <= 1 + causes[m]
      BY DEF DuplicateNeedsCause
    <2>1. Cardinality(Trying(m)) \in Nat
      BY FS_Subset, FS_CardinalityType DEF Trying, ConstantsOK
    <2>2. delivered[m] \in Nat /\ causes[m] \in Nat BY DEF BInv, IInv, TypeOK
    <2>3. delivered[m] + Cardinality(Trying(m)) + (IF Open(m) THEN 1 ELSE 0) <= 1 + causes[m]
      BY DEF BInv, Budget, Spent
    <2> QED BY <2>1, <2>2, <2>3
  <1>2. Init => BInv BY InitIInv, InitBudget DEF BInv
  <1> QED BY <1>1, <1>2, NextBInv, PTL DEF Spec
-----------------------------------------------------------------------------
RInv == IInv /\ InHandNotAtRest

\* The step that Reconciled allows.
ReconciledStep ==
    \A m \in Messages :
        /\ status[m] = "sent" => status'[m] = "sent"
        /\ status[m] = "ambiguous" /\ status'[m] # "ambiguous"
             => cancels' # cancels \/ requeues' # requeues

LEMMA StepRInv ==
  ASSUME ConstantsOK, NEW d, Dispatchers = {d}, RInv, Step(d)
  PROVE  InHandNotAtRest' /\ ReconciledStep
  <1> USE DEF RInv, IInv, TypeOK, Goto, InHandNotAtRest, ReconciledStep, AtRest
  <1>1. CASE Start(d)
    BY <1>1 DEF Start, rows, Stale, Busy, Reply
  <1>2. CASE RecoverRow(d)
    <2>1. PICK i \in todo[d] : SetFailed(i, FALSE) /\ todo' = [todo EXCEPT ![d] = @ \ {i}]
      BY <1>2 DEF RecoverRow
    <2>2. PICK s \in {"retry", "dead_letter"} : status' = [status EXCEPT ![i] = s]
      BY <2>1, SetFailedOK
    <2>3. pc[d] = "recovering" /\ UNCHANGED <<pc, msg>> BY <1>2 DEF RecoverRow
    <2> QED BY <2>1, <2>2, <2>3 DEF Busy, Reply
  <1>3. CASE RunForever(d)
    BY <1>3 DEF RunForever, rows, Busy, Reply
  <1>4. CASE ClaimNext(d)
    BY <1>4 DEF ClaimNext, Oldest, Ready, Busy, Reply
  <1>5. ASSUME NEW r \in Reply, SendText(d, r) PROVE InHandNotAtRest' /\ ReconciledStep
    BY <1>5 DEF SendText, rows, Busy, Reply
  <1>6. CASE MarkSent(d) \/ MarkAmbiguous(d)
    <2>1. msg[d] \in Messages /\ status[msg[d]] \notin AtRest /\ todo[d] = {}
      BY <1>6 DEF MarkSent, MarkAmbiguous, HandsOnRows, Busy, Reply
    <2> QED BY <1>6, <2>1 DEF MarkSent, MarkAmbiguous, SetStatus, Settle, Busy, Reply
  <1>7. CASE MarkFailed(d)
    <2>1. msg[d] \in Messages /\ status[msg[d]] \notin AtRest /\ todo[d] = {}
      BY <1>7 DEF MarkFailed, HandsOnRows, Busy, Reply
    <2>2. SetFailed(msg[d], pc[d] = "rejected") BY <1>7 DEF MarkFailed
    <2>3. PICK s \in {"retry", "dead_letter"} : status' = [status EXCEPT ![msg[d]] = s]
      BY <2>1, <2>2, SetFailedOK
    <2> QED BY <1>7, <2>1, <2>3 DEF MarkFailed, Settle, Busy, Reply
  <1> QED BY <1>1, <1>2, <1>3, <1>4, <1>5, <1>6, <1>7 DEF Step

LEMMA NextRInv ==
  ASSUME ConstantsOK, NEW d, Dispatchers = {d}, RInv, [Next]_vars
  PROVE  RInv' /\ ReconciledStep
  <1> USE DEF RInv, IInv, TypeOK, Goto, InHandNotAtRest, ReconciledStep, AtRest
  <1>1. IInv' BY NextIInv
  <1>2. CASE Step(d) BY <1>1, <1>2, StepRInv
  <1>3. CASE Create
    <2>0. created + 1 \in Messages /\ created \in Nat BY <1>3 DEF Create, Messages, ConstantsOK
    <2>1. created + 1 \in Messages /\ status[created + 1] = "none"
      <3>1. created + 1 > created BY <2>0
      <3> QED BY <2>0, <3>1 DEF NewRows
    <2>2. \A m \in todo[d] : m # created + 1 BY <2>0 DEF HandsOnRows
    <2>3. pc[d] \in Busy => msg[d] # created + 1 BY <2>0 DEF HandsOnRows
    <2>4. InHandNotAtRest' BY <1>3, <2>1, <2>2, <2>3 DEF Create, loop, HandsOnRows
    <2>5. ReconciledStep BY <1>3, <2>1 DEF Create
    <2> QED BY <1>1, <2>4, <2>5
  <1>4. CASE Tick BY <1>1, <1>4 DEF Tick
  <1>5. CASE StoreRaises(d) BY <1>1, <1>5 DEF StoreRaises, rows, Busy, Reply
  <1>6. CASE Crash(d) BY <1>1, <1>6 DEF Crash, rows, Busy, Reply
  <1>7. ASSUME NEW i \in Messages, Cancel(i) \/ Requeue(i) PROVE RInv' /\ ReconciledStep
    <2>1. PICK s \in {"cancelled", "pending"} : status' = [status EXCEPT ![i] = s]
      BY <1>7 DEF Cancel, Requeue, SetStatus
    <2>2. InHandNotAtRest' BY <1>7, <2>1 DEF Cancel, Requeue, loop, HandsOnRows
    <2>3. ReconciledStep BY <1>7, <2>1 DEF Cancel, Requeue
    <2> QED BY <1>1, <2>2, <2>3
  <1>8. CASE UNCHANGED vars BY <1>1, <1>8 DEF vars, rows, loop, bounds
  <1> QED BY <1>2, <1>3, <1>4, <1>5, <1>6, <1>7, <1>8 DEF Next

\* With one dispatcher, whatever the operator does while a row is being sent,
\* "sent" is final and an ambiguous row is moved by the operator alone.
THEOREM ReconciledHolds ==
  ASSUME ConstantsOK, NEW d, Dispatchers = {d} PROVE Spec => Reconciled
  <1>1. Init => RInv
    BY InitIInv DEF RInv, InHandNotAtRest, Init, Busy, Reply
  <1>2. RInv /\ [Next]_vars => RInv' /\ [ReconciledStep]_vars
    BY NextRInv
  <1>3. ReconciledStep => \A m \in Messages :
          /\ status[m] = "sent" => status'[m] = "sent"
          /\ status[m] = "ambiguous" /\ status'[m] # "ambiguous"
               => cancels' # cancels \/ requeues' # requeues
    BY DEF ReconciledStep
  <1> QED BY <1>1, <1>2, <1>3, PTL DEF Spec, Reconciled
=============================================================================
