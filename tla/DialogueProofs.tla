--------------------------- MODULE DialogueProofs ---------------------------
(***************************************************************************)
(* What TLAPS proves of Dialogue, for all values of its constants.  The    *)
(* client is proved beside the turns of ChatLeaseProofs, the chat without  *)
(* a database from its own specification, and each deployment of Outbound  *)
(* is the one that OutboundProofs is about.                                *)
(***************************************************************************)
EXTENDS Dialogue, ChatLeaseProofs, FiniteSetTheorems

-----------------------------------------------------------------------------
(* The client *)

\* The turns are those of the client, and there are none before its first
\* request.
AttemptsOK ==
    /\ \A t \in Turns : pc[t] # "idle" => key[t] = Mine
    /\ status[Mine] = "none" => cursor = 0 /\ \A t \in Turns : pc[t] = "idle"
    /\ client = "new" => status[Mine] = "none"

\* Where the client is, and that only the turn it listens to is at work while the
\* request is active.
PlaceOK ==
    /\ client \in Listening =>
         conn \in Turns /\ mode[conn] = (IF client = "asking" THEN "ask" ELSE "stream")
    /\ client \in Listening => status[Mine] # "none"
    /\ client \notin Listening => conn = NoTurn /\ arriving = << >>
    /\ client \in {"new", "falling back", "asking"} => cursor = 0
    /\ client = "resuming" => resumed
    /\ client \in Listening /\ status[Mine] \in Active => \A t \in Turns \ {conn} : pc[t] = "idle"

\* Nothing behind event c will be read that the client could take for the last:
\* it has given up, no turn can complete the request, or c is past its end.
NothingBehind(c) ==
    \/ client = "failed"
    \/ status[Mine] \in Active /\ \A t \in Turns : pc[t] = "idle"
    \/ status[Mine] \in {"failed", "interrupted"}
    \/ status[Mine] = "completed" /\ Last(events[Mine]) <= c

\* The client shows the events it has counted, or it has counted one that was
\* stored nowhere.
SeenOK == seen = 1..cursor \/ (seen \subseteq 1..cursor /\ NothingBehind(cursor))

\* What is on its way are the next events, and at most one last word.
NextEvent(i) == arriving[i] = cursor + i /\ arriving[i] \in Numbers(Mine) /\ client # "asking"
LastWord(i) ==
    /\ i = Len(arriving) /\ pc[conn] = "idle"
    /\ arriving[i] \in {End, Error, Answer}
    /\ arriving[i] = Answer => client = "asking" /\ status[Mine] = "completed"
    /\ arriving[i] = Error /\ client # "asking" /\ ~resumed /\ status[Mine] = "completed"
         => Last(events[Mine]) <= cursor + i
OnItsWay == \A i \in 1..Len(arriving) : NextEvent(i) \/ LastWord(i)

\* What the turn the client listens to will send it.
TurnAhead ==
    /\ pc[conn] = "loading" \/ (client = "asking" /\ pc[conn] # "idle") => arriving = << >>
    /\ pc[conn] = "loading" /\ status[Mine] \in Active => cursor = 0 /\ client # "completing"
    /\ pc[conn] = "loading" /\ client # "asking" /\ ~resumed => status[Mine] \in Active
    /\ AtWork(conn) /\ client # "asking" =>
         /\ client = "streaming" /\ status[Mine] \in Active
         /\ seen = 1..cursor /\ cursor + Len(arriving) = seq[conn] - 1
ArrivingOK == client \in Listening => OnItsWay /\ TurnAhead

\* What it presents as complete.
WholeOK ==
    /\ client \in {"completing", "complete"} =>
         status[Mine] = "completed" /\ cursor = Last(events[Mine]) /\ seen = 1..cursor
    /\ client = "answered" => status[Mine] = "completed" /\ seen = {}

CInv == ClientTypeOK /\ AttemptsOK /\ PlaceOK /\ SeenOK /\ ArrivingOK /\ WholeOK

LEMMA MineLog ==
  ASSUME ClientConstantsOK, IInv
  PROVE  /\ Mine \in Keys /\ RowOK(status[Mine], events[Mine], answers[Mine])
         /\ Last(events[Mine]) \in Nat /\ Numbers(Mine) = 1..Last(events[Mine])
         /\ status[Mine] \in {"none"} \cup Active \cup Settled
  <1>1. Mine \in Keys BY DEF ClientConstantsOK
  <1>2. RowOK(status[Mine], events[Mine], answers[Mine]) BY <1>1 DEF IInv, Rows
  <1>3. status[Mine] \in {"none"} \cup Active \cup Settled BY <1>1 DEF IInv, TypeOK
  <1> QED BY <1>1, <1>2, <1>3, LogsLast DEF RowOK, Numbers

LEMMA InitCInv == ConstantsOK /\ ClientConstantsOK /\ Init /\ ClientInit => CInv
  <1> SUFFICES ASSUME ConstantsOK, ClientConstantsOK, Init, ClientInit PROVE CInv OBVIOUS
  <1> USE DEF Init, ClientInit, ClientConstantsOK, Listening, Over
  <1>1. << >> \in Seq(Int) OBVIOUS
  <1>5. ClientTypeOK BY <1>1 DEF ClientTypeOK
  <1>2. AttemptsOK /\ PlaceOK BY DEF AttemptsOK, PlaceOK
  <1>3. SeenOK BY DEF SeenOK
  <1>4. ArrivingOK /\ WholeOK BY DEF ArrivingOK, WholeOK
  <1> QED BY <1>5, <1>2, <1>3, <1>4 DEF CInv

LEMMA OneWord ==
  ASSUME NEW w \in Int
  PROVE  <<w>> \in Seq(Int) /\ Len(<<w>>) = 1 /\ <<w>>[1] = w
  OBVIOUS

LEMMA TwoWords ==
  ASSUME NEW v \in Int, NEW w \in Int
  PROVE  /\ <<v>> \o <<w>> \in Seq(Int) /\ Len(<<v>> \o <<w>>) = 2
         /\ (<<v>> \o <<w>>)[1] = v /\ (<<v>> \o <<w>>)[2] = w
  <1> DEFINE a == <<v>>  b == <<w>>
  <1>1. a \in Seq(Int) /\ b \in Seq(Int) BY OneWord
  <1>2. Len(a) = 1 /\ Len(b) = 1 /\ a[1] = v /\ b[1] = w OBVIOUS
  <1> HIDE DEF a, b
  <1>3. /\ a \o b \in Seq(Int) /\ Len(a \o b) = Len(a) + Len(b)
        /\ \A i \in 1..Len(a) + Len(b) : (a \o b)[i] = IF i <= Len(a) THEN a[i] ELSE b[i - Len(a)]
    BY <1>1, ConcatProperties
  <1>4. Len(a \o b) = 2 /\ (a \o b)[1] = a[1] /\ (a \o b)[2] = b[1] BY <1>2, <1>3
  <1> QED BY <1>2, <1>3, <1>4 DEF a, b

LEMMA WordsAreInts == {End, Error, Answer} \subseteq Int BY DEF End, Error, Answer

\* A step of a turn moves that turn, and changes nobody's request or mode.
LEMMA TurnMoves ==
  ASSUME NEW t \in Turns, IInv, Step(t) \/ DeltaReplyLost(t) \/ Vanish(t)
  PROVE  /\ pc[t] # "idle" /\ pc'[t] # "loading"
         /\ \A u \in Turns \ {t} : pc'[u] = pc[u]
         /\ UNCHANGED <<key, mode>>
  <1>1. pc \in [Turns -> Places] BY DEF IInv, TypeOK, Places
  <1>2. ASSUME Return(t) PROVE pc' = [pc EXCEPT ![t] = "idle"] /\ UNCHANGED <<key, mode>>
    BY <1>2 DEF Return, Goto
  <1>3. ASSUME NEW l \in Places, Goto(t, l), l # "loading", UNCHANGED <<key, mode>>, pc[t] # "idle"
        PROVE  /\ pc[t] # "idle" /\ pc'[t] # "loading"
               /\ \A u \in Turns \ {t} : pc'[u] = pc[u]
               /\ UNCHANGED <<key, mode>>
    BY <1>1, <1>3 DEF Goto
  <1>4. CASE Load(t)
    <2>1. pc[t] # "idle" BY <1>4 DEF Load
    <2>2. CASE status[key[t]] \in Settled BY <1>1, <1>2, <1>4, <2>1, <2>2 DEF Load
    <2>3. CASE status[key[t]] \notin Settled
      <3>1. \E l \in {"asking", "starting"} : Goto(t, l) BY <1>4, <2>3 DEF Load
      <3>2. UNCHANGED <<key, mode>> BY <1>4, <2>3 DEF Load
      <3> QED BY <1>3, <2>1, <3>1, <3>2 DEF Places
    <2> QED BY <2>2, <2>3
  <1>5. CASE ModelAnswers(t) \/ ModelRaises(t)
    <2>1. \E l \in {"answering", "failing"} : Goto(t, l) BY <1>5 DEF ModelAnswers, ModelRaises
    <2>2. pc[t] # "idle" /\ UNCHANGED <<key, mode>> BY <1>5 DEF ModelAnswers, ModelRaises
    <2> QED BY <1>3, <2>1, <2>2 DEF Places
  <1>6. CASE Fail(t) \/ Complete(t) \/ StreamFailed(t) \/ Completed(t) \/ Refused(t) \/ Vanish(t)
    <2>1. pc[t] # "idle" /\ Return(t)
      BY <1>6 DEF Fail, Complete, StreamFailed, Completed, Refused, Vanish
    <2> QED BY <1>1, <1>2, <2>1
  <1>7. CASE Started(t) \/ Delta(t) \/ Usage(t) \/ DeltaReplyLost(t) \/ Persist(t)
    <2>1. \E l \in {"streaming", "failing", "usage", "finishing"} : Goto(t, l)
      BY <1>7 DEF Started, Delta, Usage, Advance, DeltaReplyLost, Persist
    <2>2. pc[t] # "idle" /\ UNCHANGED <<key, mode>>
      BY <1>7 DEF Started, Delta, Usage, Advance, DeltaReplyLost, Persist
    <2> QED BY <1>3, <2>1, <2>2 DEF Places
  <1>8. CASE \E l \in {"persisting", "failing", "interrupting"} : StreamEnds(t, l)
    <2>1. \E l \in {"persisting", "failing", "interrupting"} : Goto(t, l) BY <1>8 DEF StreamEnds
    <2>2. pc[t] # "idle" /\ UNCHANGED <<key, mode>> BY <1>8 DEF StreamEnds
    <2> QED BY <1>3, <2>1, <2>2 DEF Places
  <1> QED BY <1>4, <1>5, <1>6, <1>7, <1>8 DEF Step

LEMMA TurnIsNext ==
  ASSUME NEW t \in Turns, Step(t) \/ DeltaReplyLost(t) \/ Vanish(t) \/ Renew(t)
  PROVE  Next
  BY DEF Next

\* What a step of a turn leaves as it is, whether the client listens to it or not.
LEMMA TurnKeeps ==
  ASSUME ConstantsOK, ClientConstantsOK, IInv, CInv,
         NEW t \in Turns, Step(t) \/ DeltaReplyLost(t) \/ Vanish(t),
         UNCHANGED <<client, conn, cursor, seen, resumed>>,
         arriving' \in Seq(Int), t # conn => UNCHANGED arriving
  PROVE  ClientTypeOK' /\ AttemptsOK' /\ PlaceOK' /\ SeenOK' /\ WholeOK'
  <1>1. /\ pc[t] # "idle" /\ pc'[t] # "loading"
        /\ \A u \in Turns \ {t} : pc'[u] = pc[u]
        /\ UNCHANGED <<key, mode>>
    BY TurnMoves
  <1>2. /\ status[Mine] # "none" => status'[Mine] # "none"
        /\ status[Mine] \in Settled => UNCHANGED <<status[Mine], events[Mine], answers[Mine]>>
    BY TurnIsNext, RowsStay DEF ClientConstantsOK
  <1>3. key[t] = Mine /\ status[Mine] # "none" /\ client # "new"
    BY <1>1 DEF CInv, AttemptsOK
  <1>4. status[Mine] \in Active \cup Settled BY <1>3, MineLog
  <1>5. ClientTypeOK' BY DEF CInv, ClientTypeOK
  <1>6. AttemptsOK' BY <1>1, <1>2, <1>3 DEF CInv, AttemptsOK
  <1>7. PlaceOK'
    <2>1. conn \in Turns => conn # NoTurn BY DEF ConstantsOK
    <2>2. client \notin Listening => conn' = NoTurn /\ arriving' = << >>
      BY <2>1 DEF CInv, PlaceOK
    <2>3. ASSUME client \in Listening, status'[Mine] \in Active
          PROVE  \A u \in Turns \ {conn} : pc'[u] = "idle"
      <3>1. status[Mine] \in Active BY <1>2, <1>4, <2>3 DEF Active, Settled
      <3>2. \A u \in Turns \ {conn} : pc[u] = "idle" BY <2>3, <3>1 DEF CInv, PlaceOK
      <3> QED BY <1>1, <3>2
    <2> QED BY <1>1, <1>2, <1>3, <2>2, <2>3 DEF CInv, PlaceOK
  <1>8. SeenOK'
    <2>1. CASE seen = 1..cursor BY <2>1 DEF SeenOK
    <2>2. CASE seen \subseteq 1..cursor /\ NothingBehind(cursor)
      <3>1. NothingBehind(cursor)' BY <1>1, <1>2, <2>2 DEF NothingBehind, Settled
      <3> QED BY <2>2, <3>1 DEF SeenOK
    <2> QED BY <2>1, <2>2 DEF CInv, SeenOK
  <1>9. WholeOK'
    <2>1. "completed" \in Settled BY DEF Settled
    <2> QED BY <1>2, <2>1 DEF CInv, WholeOK
  <1> QED BY <1>5, <1>6, <1>7, <1>8, <1>9

\* A turn that the client has left behind, or not listened to yet.
LEMMA OtherTurn ==
  ASSUME ConstantsOK, ClientConstantsOK, IInv, CInv,
         NEW t \in Turns, Step(t) \/ DeltaReplyLost(t) \/ Vanish(t),
         UNCHANGED <<client, conn, cursor, seen, resumed, arriving>>, t # conn
  PROVE  CInv'
  <1>1. arriving' \in Seq(Int) BY DEF CInv, ClientTypeOK
  <1>2. ClientTypeOK' /\ AttemptsOK' /\ PlaceOK' /\ SeenOK' /\ WholeOK' BY <1>1, TurnKeeps
  <1>3. ASSUME client \in Listening PROVE OnItsWay' /\ TurnAhead'
    <2>1. conn \in Turns /\ status[Mine] # "none" BY <1>3 DEF CInv, PlaceOK
    <2>2. pc[t] # "idle" /\ pc'[conn] = pc[conn] BY <2>1, TurnMoves
    <2>3. status[Mine] \notin Active BY <1>3, <2>2 DEF CInv, PlaceOK
    <2>4. status[Mine] \in Settled BY <2>1, <2>3, MineLog
    <2>5. UNCHANGED <<status[Mine], events[Mine]>>
      BY <2>4, TurnIsNext, RowsStay DEF ClientConstantsOK
    <2>6. OnItsWay /\ TurnAhead BY <1>3 DEF CInv, ArrivingOK
    <2>7. OnItsWay' BY <2>2, <2>5, <2>6 DEF OnItsWay, NextEvent, LastWord, Numbers
    <2>8. TurnAhead' BY <2>2, <2>3, <2>5, <2>6 DEF TurnAhead, AtWork
    <2> QED BY <2>7, <2>8
  <1>4. ArrivingOK' BY <1>3 DEF ArrivingOK
  <1> QED BY <1>2, <1>4 DEF CInv

\* The client listens to an ask.
LEMMA AskedTurn ==
  ASSUME ConstantsOK, ClientConstantsOK, IInv, CInv,
         client = "asking",
         \/ TurnStep(conn) \/ TurnStops(conn) \/ CompletedReplyLost(conn)
         \/ DeltaReplyLost(conn) /\ UNCHANGED arriving,
         UNCHANGED <<client, conn, cursor, seen, resumed>>
  PROVE  CInv'
  <1> USE DEF Listening
  <1>1. conn \in Turns /\ mode[conn] = "ask" /\ OnItsWay /\ TurnAhead
    BY DEF CInv, PlaceOK, ArrivingOK
  <1>2. Step(conn) \/ DeltaReplyLost(conn) \/ Vanish(conn)
    BY DEF TurnStep, TurnStops, CompletedReplyLost, Step
  <1>3. pc[conn] # "idle" /\ pc'[conn] # "loading" BY <1>1, <1>2, TurnMoves
  <1>4. arriving = << >> BY <1>3, <1>1 DEF TurnAhead
  <1> DEFINE word == IF status'[Mine] = "completed" THEN Answer ELSE Error
  <1>5. \/ arriving' = << >>
        \/ /\ pc'[conn] = "idle"
           /\ arriving' = <<Error>> \/ (arriving' = <<Answer>> /\ status'[Mine] = "completed")
    <2>1. CASE TurnStep(conn)
      <3>1. arriving' = << >> \o Yield(conn) BY <2>1, <1>4 DEF TurnStep, Sent
      <3>2. CASE pc'[conn] # "idle"
        <4>1. Yield(conn) = << >> BY <1>1, <3>2 DEF Yield
        <4> QED BY <3>1, <4>1
      <3>3. CASE pc'[conn] = "idle"
        <4>1. Yield(conn) = <<word>> BY <1>1, <1>3, <3>3 DEF Yield
        <4>2. arriving' = <<word>>
          <5>1. word \in Int BY DEF Answer, Error
          <5> HIDE DEF word
          <5>2. <<word>> \in Seq(Int) BY <5>1
          <5> QED BY <3>1, <4>1, <5>2, ConcatEmptySeq
        <4> QED BY <3>3, <4>2
      <3> QED BY <3>2, <3>3
    <2>2. CASE TurnStops(conn)
      <3>1. arriving' = << >> \o <<Error>> BY <2>2, <1>4 DEF TurnStops, Sent
      <3>2. arriving' = <<Error>> BY <3>1 DEF Error
      <3>3. pc'[conn] = "idle"
        <4>1. pc \in [Turns -> Places] BY DEF IInv, TypeOK, Places
        <4>2. pc' = [pc EXCEPT ![conn] = "idle"] BY <2>2 DEF TurnStops, Vanish, Return, Goto
        <4> QED BY <1>1, <4>1, <4>2
      <3> QED BY <3>2, <3>3
    <2>3. CASE CompletedReplyLost(conn) BY <2>3, <1>1 DEF CompletedReplyLost
    <2>4. CASE UNCHANGED arriving BY <1>4, <2>4
    <2> QED BY <2>1, <2>2, <2>3, <2>4
  <1>6. arriving' \in Seq(Int)
    <2>1. << >> \in Seq(Int) /\ <<Error>> \in Seq(Int) /\ <<Answer>> \in Seq(Int)
      BY OneWord, WordsAreInts
    <2> QED BY <1>5, <2>1
  <1>7. ClientTypeOK' /\ AttemptsOK' /\ PlaceOK' /\ SeenOK' /\ WholeOK'
    BY <1>1, <1>2, <1>6, TurnKeeps
  <1>8. OnItsWay'
    <2>1. CASE arriving' = << >> BY <2>1 DEF OnItsWay
    <2>2. ASSUME pc'[conn] = "idle", NEW w \in {Answer, Error}, arriving' = <<w>>,
                 w = Answer => status'[Mine] = "completed"
          PROVE  OnItsWay'
      <3>1. Len(arriving') = 1 /\ arriving'[1] = w BY <2>2
      <3>2. LastWord(1)' BY <2>2, <3>1 DEF LastWord
      <3>3. \A i \in 1..Len(arriving') : i = 1 BY <3>1
      <3> QED BY <3>2, <3>3 DEF OnItsWay
    <2> QED BY <1>5, <2>1, <2>2 DEF Answer, Error
  <1>9. TurnAhead' BY <1>3, <1>5 DEF TurnAhead
  <1> QED BY <1>7, <1>8, <1>9 DEF CInv, ArrivingOK

\* What a stream that is at work does to the row in one step: nothing, or it
\* stores the next event, and goes on or is over.
StoresNext(t) ==
    LET n == Last(events[key[t]])
    IN  seq[t] = n + 1 /\ Last(events'[key[t]]) = n + 1 /\ DOMAIN events'[key[t]] = 1..(n + 1)
StreamGoesOn(t) ==
    /\ pc'[t] \notin {"idle", "loading"}
    /\ status[key[t]] \in Active => status'[key[t]] \in Active
    /\ \/ UNCHANGED events /\ seq'[t] = seq[t]
       \/ StoresNext(t) /\ seq'[t] = seq[t] + 1
StreamIsOver(t) == pc'[t] = "idle" /\ (UNCHANGED table \/ StoresNext(t))

LEMMA AppendStoresNext ==
  ASSUME IInv, NEW t \in Turns, AtWork(t), NEW e \in EventTypes, NEW s, Appended(t, e, s),
         seq[t] = Last(events[key[t]]) + 1
  PROVE  StoresNext(t) /\ status'[key[t]] = s
  <1> DEFINE k == key[t]  n == Last(events[k])  new == Insert(events[k], n + 1, e)
  <1>1. Owned(t) /\ SetRow(k, s) /\ events' = [events EXCEPT ![k] = new] BY AppendedWrites
  <1>2. k \in Keys /\ events[k] \in Logs /\ n \in Nat BY <1>1, OwnedRow DEF AtWork
  <1>3. new \in Logs /\ Last(new) = n + 1 BY <1>2, InsertNext
  <1>4. DOMAIN new = 1..(n + 1) BY <1>3, LogsLast
  <1>5. events'[k] = new BY <1>1, <1>2 DEF IInv, Rows
  <1>6. status'[k] = s BY <1>1, <1>2 DEF SetRow, IInv, TypeOK
  <1> QED BY <1>3, <1>4, <1>5, <1>6 DEF StoresNext

LEMMA StreamSteps ==
  ASSUME IInv, NEW t \in Turns, AtWork(t), mode[t] = "stream", Step(t)
  PROVE  StreamGoesOn(t) \/ StreamIsOver(t)
  <1> USE DEF AtWork
  <1>1. /\ TurnOK(t) /\ pc[t] \notin {"asking", "answering"} /\ key[t] \in Keys
        /\ pc \in [Turns -> Places] /\ seq \in [Turns -> Nat] /\ status \in [Keys -> States]
    BY DEF IInv, TurnsOK, TurnOK, TypeOK, Places, States
  <1>2. ASSUME Return(t) PROVE pc'[t] = "idle" BY <1>1, <1>2 DEF Return, Goto
  <1>3. CASE \E l \in {"persisting", "failing", "interrupting"} : StreamEnds(t, l)
    <2>1. pc'[t] \in {"persisting", "failing", "interrupting"} BY <1>1, <1>3 DEF StreamEnds, Goto
    <2>2. UNCHANGED <<status, events, seq>> BY <1>3 DEF StreamEnds, table
    <2> QED BY <2>1, <2>2 DEF StreamGoesOn
  <1>4. CASE Persist(t)
    <2>1. pc'[t] = "usage" /\ UNCHANGED <<events, seq>> BY <1>1, <1>4 DEF Persist, Goto, Answered
    <2>2. status'[key[t]] = "finalizing" BY <1>1, <1>4 DEF Persist, Answered, SetRow, States
    <2> QED BY <2>1, <2>2 DEF StreamGoesOn, Active
  <1>5. ASSUME NEW e \in {"chat.started", "chat.delta", "chat.usage"}, NEW s \in Active,
               NEW l \in {"streaming", "finishing"}, Advance(t, e, s, l),
               seq[t] = Last(events[key[t]]) + 1
        PROVE  StreamGoesOn(t)
    <2>1. Appended(t, e, s) /\ e \in EventTypes BY <1>5 DEF Advance, EventTypes
    <2>2. StoresNext(t) /\ status'[key[t]] = s BY <1>5, <2>1, AppendStoresNext
    <2>3. pc'[t] = l /\ seq'[t] = seq[t] + 1 BY <1>1, <1>5 DEF Advance, Goto
    <2> QED BY <2>2, <2>3 DEF StreamGoesOn
  <1>6. CASE Started(t) \/ Delta(t) \/ Usage(t)
    <2>1. Owned(t) BY <1>6 DEF Started, Delta, Usage, Advance, Appended
    <2>2. InStep(pc[t], mode[t], seq[t], events[key[t]], answers[key[t]])
          /\ Last(events[key[t]]) \in Nat
      BY <2>1, OwnedRow
    <2>3. pc[t] \in {"starting", "streaming", "usage"} BY <1>6 DEF Started, Delta, Usage
    <2>4. seq[t] = Last(events[key[t]]) + 1 BY <2>2, <2>3 DEF InStep
    <2>5. "running" \in Active /\ "finalizing" \in Active BY DEF Active
    <2> QED BY <1>5, <1>6, <2>4, <2>5 DEF Started, Delta, Usage
  <1>7. CASE StreamFailed(t) \/ Completed(t)
    <2>1. \E e \in EventTypes \ {"chat.delta"} : \E s : Appended(t, e, s)
      BY <1>7 DEF StreamFailed, Completed, EventTypes
    <2>2. PICK e \in EventTypes \ {"chat.delta"} : \E s : Appended(t, e, s) BY <2>1
    <2>3. PICK s : Appended(t, e, s) BY <2>2
    <2>4. seq[t] = Last(events[key[t]]) + 1 BY <2>3, AppendedAt
    <2>5. StoresNext(t) BY <2>3, <2>4, AppendStoresNext
    <2>6. pc'[t] = "idle" BY <1>2, <1>7 DEF StreamFailed, Completed
    <2> QED BY <2>5, <2>6 DEF StreamIsOver
  <1>8. CASE Refused(t) BY <1>2, <1>8 DEF Refused, StreamIsOver
  <1>9. CASE Load(t) \/ ModelAnswers(t) \/ ModelRaises(t) \/ Fail(t) \/ Complete(t)
    BY <1>1, <1>9 DEF Load, ModelAnswers, ModelRaises, Fail, Complete
  <1> QED BY <1>3, <1>4, <1>6, <1>7, <1>8, <1>9 DEF Step

\* What it yields.
LEMMA StreamYields ==
  ASSUME NEW t \in Turns, mode[t] = "stream", AtWork(t), seq[t] \in Nat
  PROVE  /\ UNCHANGED events /\ pc'[t] # "idle" => Yield(t) = << >>
         /\ UNCHANGED events /\ pc'[t] = "idle" => Yield(t) = <<Error>>
         /\ ~UNCHANGED events /\ pc'[t] # "idle" => Yield(t) = <<seq[t]>>
         /\ ~UNCHANGED events /\ pc'[t] = "idle" => Yield(t) = <<seq[t]>> \o <<End>>
  <1> DEFINE q == seq[t]
  <1>1. << >> \in Seq(Int) /\ <<Error>> \in Seq(Int) /\ <<q>> \in Seq(Int) BY OneWord, WordsAreInts
  <1>2. pc[t] # "idle" /\ pc[t] # "loading" BY DEF AtWork
  <1>3. Yield(t) = (IF events' # events THEN <<q>> ELSE << >>)
                   \o (IF pc'[t] = "idle" THEN <<IF events' # events THEN End ELSE Error>> ELSE << >>)
    BY <1>2 DEF Yield
  <1>4. << >> \o << >> = << >> /\ << >> \o <<Error>> = <<Error>> /\ <<q>> \o << >> = <<q>>
    BY <1>1, ConcatEmptySeq
  <1> HIDE DEF q
  <1>5. CASE events' = events BY <1>3, <1>4, <1>5
  <1>6. CASE events' # events BY <1>3, <1>4, <1>6 DEF q
  <1> QED BY <1>5, <1>6

\* More comes behind what is on its way, which is all of it the next events.
LEMMA MoreArrives ==
  ASSUME arriving \in Seq(Int), cursor \in Nat, client # "asking",
         \A i \in 1..Len(arriving) : NextEvent(i),
         UNCHANGED <<client, conn, cursor, resumed>>, Numbers(Mine) \subseteq Numbers(Mine)',
         NEW new \in Seq(Int), arriving' = arriving \o new,
         \A j \in 1..Len(new) :
            \/ new[j] = cursor + Len(arriving) + j /\ new[j] \in Numbers(Mine)'
            \/ /\ j = Len(new) /\ pc'[conn] = "idle" /\ new[j] \in {End, Error}
               /\ new[j] = Error /\ ~resumed /\ status'[Mine] = "completed"
                    => Last(events'[Mine]) <= cursor + Len(arriving) + j
  PROVE  OnItsWay' /\ arriving' \in Seq(Int) /\ Len(arriving') = Len(arriving) + Len(new)
  <1> DEFINE m == Len(arriving)  n == Len(new)
  <1>1. m \in Nat /\ n \in Nat BY LenProperties
  <1>2. /\ arriving' \in Seq(Int) /\ Len(arriving') = m + n
        /\ \A i \in 1..(m + n) : arriving'[i] = IF i <= m THEN arriving[i] ELSE new[i - m]
    BY ConcatProperties
  <1>3. ASSUME NEW i \in 1..(m + n) PROVE NextEvent(i)' \/ LastWord(i)'
    <2>1. CASE i <= m
      <3>1. i \in 1..m /\ arriving'[i] = arriving[i] BY <1>1, <1>2, <2>1
      <3>2. NextEvent(i) BY <3>1
      <3> QED BY <3>1, <3>2 DEF NextEvent
    <2>2. CASE ~(i <= m)
      <3>0. i - m \in 1..n
        <4> HIDE DEF m, n
        <4> QED BY <1>1, <2>2
      <3>1. PICK j \in 1..n : j = i - m BY <3>0
      <3>2. arriving'[i] = new[j] /\ i = m + j BY <1>1, <1>2, <2>2, <3>1
      <3>3. CASE new[j] = cursor + m + j /\ new[j] \in Numbers(Mine)'
        <4>1. cursor' + i = cursor + m + j BY <1>1, <3>1, <3>2
        <4> QED BY <3>2, <3>3, <4>1 DEF NextEvent
      <3>4. CASE /\ j = n /\ pc'[conn] = "idle" /\ new[j] \in {End, Error}
                 /\ new[j] = Error /\ ~resumed /\ status'[Mine] = "completed"
                      => Last(events'[Mine]) <= cursor + m + j
        <4>1. i = Len(arriving') /\ cursor' + i = cursor + m + j BY <1>1, <1>2, <3>1, <3>2, <3>4
        <4>2. Error # Answer /\ End # Answer BY DEF Error, End, Answer
        <4> QED BY <3>2, <3>4, <4>1, <4>2 DEF LastWord
      <3> QED BY <3>3, <3>4
    <2> QED BY <2>1, <2>2
  <1> QED BY <1>2, <1>3 DEF OnItsWay

\* What the client knows of a stream that is at work for it.
LEMMA AtStream ==
  ASSUME ClientConstantsOK, IInv, CInv, client \in Listening, client # "asking", AtWork(conn)
  PROVE  /\ conn \in Turns /\ mode[conn] = "stream" /\ key[conn] = Mine /\ Mine \in Keys
         /\ client = "streaming" /\ status[Mine] \in Active
         /\ cursor \in Nat /\ seq[conn] \in Nat /\ arriving \in Seq(Int)
         /\ seen = 1..cursor /\ seq[conn] = cursor + Len(arriving) + 1
         /\ \A i \in 1..Len(arriving) : NextEvent(i)
  <1>1. conn \in Turns /\ mode[conn] = "stream" BY DEF CInv, PlaceOK
  <1>2. key[conn] = Mine BY <1>1 DEF CInv, AttemptsOK, AtWork
  <1>3. cursor \in Nat /\ arriving \in Seq(Int) /\ seq[conn] \in Nat
    BY <1>1 DEF CInv, ClientTypeOK, IInv, TypeOK
  <1>4. /\ client = "streaming" /\ status[Mine] \in Active
        /\ seen = 1..cursor /\ cursor + Len(arriving) = seq[conn] - 1
    BY DEF CInv, ArrivingOK, TurnAhead
  <1>5. seq[conn] = cursor + Len(arriving) + 1
    <2>1. Len(arriving) \in Nat BY <1>3, LenProperties
    <2> QED BY <1>3, <1>4, <2>1
  <1>6. \A i \in 1..Len(arriving) : NextEvent(i)
    BY DEF CInv, ArrivingOK, OnItsWay, LastWord, AtWork
  <1> QED BY <1>1, <1>2, <1>3, <1>4, <1>5, <1>6 DEF ClientConstantsOK

\* The client listens to a stream that is at work and goes on: it may send the
\* event it has stored, or fail to learn that it has.
LEMMA StreamSends ==
  ASSUME ConstantsOK, ClientConstantsOK, IInv, CInv,
         client \in Listening, client # "asking", AtWork(conn),
         pc'[conn] \notin {"idle", "loading"}, status'[Mine] \in Active,
         Numbers(Mine) \subseteq Numbers(Mine)',
         UNCHANGED <<client, conn, cursor, seen, resumed>>,
         \/ UNCHANGED arriving /\ seq'[conn] = seq[conn]
         \/ /\ arriving' = arriving \o <<seq[conn]>>
            /\ seq[conn] \in Numbers(Mine)' /\ seq'[conn] = seq[conn] + 1
  PROVE  OnItsWay' /\ TurnAhead' /\ arriving' \in Seq(Int)
  <1> DEFINE q == seq[conn]
  <1>1. /\ cursor \in Nat /\ q \in Nat /\ arriving \in Seq(Int)
        /\ client = "streaming" /\ seen = 1..cursor /\ q = cursor + Len(arriving) + 1
        /\ \A i \in 1..Len(arriving) : NextEvent(i)
    BY AtStream
  <1>2. Len(arriving) \in Nat BY <1>1, LenProperties
  <1>3. OnItsWay' /\ arriving' \in Seq(Int) /\ cursor' + Len(arriving') = seq'[conn] - 1
    <2>1. CASE UNCHANGED arriving /\ seq'[conn] = q
      <3>1. \A i \in 1..Len(arriving) : NextEvent(i)' BY <1>1, <2>1 DEF NextEvent
      <3>2. OnItsWay' BY <2>1, <3>1 DEF OnItsWay
      <3> QED BY <1>1, <1>2, <2>1, <3>2
    <2>2. CASE arriving' = arriving \o <<q>> /\ q \in Numbers(Mine)' /\ seq'[conn] = q + 1
      <3> DEFINE new == <<q>>
      <3>1. new \in Seq(Int) /\ Len(new) = 1 /\ new[1] = q /\ arriving' = arriving \o new
        BY <1>1, <2>2, OneWord
      <3> HIDE DEF new
      <3>2. \A j \in 1..Len(new) : new[j] = cursor + Len(arriving) + j /\ new[j] \in Numbers(Mine)'
        <4>1. \A j \in 1..Len(new) : j = 1 BY <3>1
        <4> QED BY <1>1, <1>2, <2>2, <3>1, <4>1
      <3> HIDE DEF q
      <3>3. OnItsWay' /\ arriving' \in Seq(Int) /\ Len(arriving') = Len(arriving) + 1
        BY <1>1, <2>2, <3>1, <3>2, MoreArrives
      <3> QED BY <1>1, <1>2, <2>2, <3>3
    <2> QED BY <2>1, <2>2
  <1>4. TurnAhead' BY <1>1, <1>3 DEF TurnAhead
  <1> QED BY <1>3, <1>4

\* It is over: the client gets a last word, behind the last event if one is
\* stored.
LEMMA StreamCloses ==
  ASSUME ConstantsOK, ClientConstantsOK, IInv, CInv,
         client \in Listening, client # "asking", AtWork(conn),
         pc'[conn] = "idle", UNCHANGED <<client, conn, cursor, seen, resumed>>,
         Numbers(Mine) \subseteq Numbers(Mine)',
         \/ arriving' = arriving \o <<Error>> /\ status'[Mine] # "completed"
         \/ /\ arriving' = arriving \o <<Error>>
            /\ Last(events'[Mine]) = seq[conn]
         \/ arriving' = arriving \o (<<seq[conn]>> \o <<End>>) /\ seq[conn] \in Numbers(Mine)'
  PROVE  OnItsWay' /\ TurnAhead' /\ arriving' \in Seq(Int)
  <1> DEFINE q == seq[conn]
  <1>1. /\ cursor \in Nat /\ q \in Nat /\ arriving \in Seq(Int)
        /\ client = "streaming" /\ seen = 1..cursor /\ q = cursor + Len(arriving) + 1
        /\ \A i \in 1..Len(arriving) : NextEvent(i)
    BY AtStream
  <1>2. Len(arriving) \in Nat BY <1>1, LenProperties
  <1>3. OnItsWay' /\ arriving' \in Seq(Int)
    <2>1. CASE /\ arriving' = arriving \o <<Error>>
               /\ status'[Mine] # "completed" \/ Last(events'[Mine]) = q
      <3> DEFINE new == <<Error>>
      <3>1. new \in Seq(Int) /\ Len(new) = 1 /\ new[1] = Error BY OneWord, WordsAreInts
      <3>2. \A j \in 1..Len(new) :
               /\ j = Len(new) /\ pc'[conn] = "idle" /\ new[j] \in {End, Error}
               /\ new[j] = Error /\ ~resumed /\ status'[Mine] = "completed"
                    => Last(events'[Mine]) <= cursor + Len(arriving) + j
        <4>1. \A j \in 1..Len(new) : j = 1 BY <3>1
        <4>2. status'[Mine] = "completed" => Last(events'[Mine]) <= cursor + Len(arriving) + 1
          BY <1>1, <1>2, <2>1
        <4> HIDE DEF new
        <4> QED BY <3>1, <4>1, <4>2
      <3>3. arriving' = arriving \o new BY <2>1
      <3> HIDE DEF new, q
      <3> QED BY <1>1, <3>1, <3>2, <3>3, MoreArrives
    <2>2. CASE arriving' = arriving \o (<<q>> \o <<End>>) /\ q \in Numbers(Mine)'
      <3> DEFINE new == <<q>> \o <<End>>
      <3>1. new \in Seq(Int) /\ Len(new) = 2 /\ new[1] = q /\ new[2] = End
        <4>1. q \in Int /\ End \in Int BY <1>1, WordsAreInts
        <4> HIDE DEF q
        <4> QED BY <4>1, TwoWords
      <3>2. arriving' = arriving \o new BY <2>2
      <3> HIDE DEF new
      <3>3. \A j \in 1..Len(new) : j = 1 \/ j = 2 BY <3>1
      <3>4. new[1] = cursor + Len(arriving) + 1 /\ new[1] \in Numbers(Mine)' BY <1>1, <2>2, <3>1
      <3>5. End # Error BY DEF End, Error
      <3>6. \A j \in 1..Len(new) :
               \/ new[j] = cursor + Len(arriving) + j /\ new[j] \in Numbers(Mine)'
               \/ /\ j = Len(new) /\ pc'[conn] = "idle" /\ new[j] \in {End, Error}
                  /\ new[j] = Error /\ ~resumed /\ status'[Mine] = "completed"
                       => Last(events'[Mine]) <= cursor + Len(arriving) + j
        BY <3>1, <3>3, <3>4, <3>5
      <3> HIDE DEF q
      <3> QED BY <1>1, <3>1, <3>2, <3>6, MoreArrives
    <2> QED BY <2>1, <2>2
  <1>4. TurnAhead' BY <1>1 DEF TurnAhead, AtWork
  <1> QED BY <1>3, <1>4

\* The client listens to a stream that is at work.
LEMMA StreamedTurn ==
  ASSUME ConstantsOK, ClientConstantsOK, IInv, CInv,
         client \in Listening, client # "asking", AtWork(conn),
         \/ TurnStep(conn) \/ TurnStops(conn) \/ CompletedReplyLost(conn)
         \/ DeltaReplyLost(conn) /\ UNCHANGED arriving,
         UNCHANGED <<client, conn, cursor, seen, resumed>>
  PROVE  OnItsWay' /\ TurnAhead' /\ arriving' \in Seq(Int)
  <1>1. /\ conn \in Turns /\ mode[conn] = "stream" /\ key[conn] = Mine /\ Mine \in Keys
        /\ status[Mine] \in Active /\ seq[conn] \in Nat /\ arriving \in Seq(Int)
    BY AtStream
  <1>2. Last(events[Mine]) \in Nat /\ Numbers(Mine) = 1..Last(events[Mine])
    BY MineLog
  <1>3. ASSUME StoresNext(conn)
        PROVE  /\ Numbers(Mine) \subseteq Numbers(Mine)' /\ ~UNCHANGED events
               /\ seq[conn] \in Numbers(Mine)' /\ Last(events'[Mine]) = seq[conn]
    BY <1>1, <1>2, <1>3 DEF StoresNext, Numbers
  <1>4. CASE TurnStep(conn)
    <2>1. Step(conn) /\ arriving' = arriving \o Yield(conn) BY <1>4 DEF TurnStep, Sent
    <2>2. CASE StreamGoesOn(conn)
      <3>1. pc'[conn] \notin {"idle", "loading"} /\ status'[Mine] \in Active
        BY <1>1, <2>2 DEF StreamGoesOn
      <3>2. CASE UNCHANGED events /\ seq'[conn] = seq[conn]
        <4>1. Yield(conn) = << >> BY <1>1, <3>1, <3>2, StreamYields
        <4>2. UNCHANGED arriving BY <1>1, <2>1, <4>1, ConcatEmptySeq
        <4>3. Numbers(Mine)' = Numbers(Mine) BY <3>2 DEF Numbers
        <4> QED BY <3>1, <3>2, <4>2, <4>3, StreamSends
      <3>3. CASE StoresNext(conn) /\ seq'[conn] = seq[conn] + 1
        <4>1. Yield(conn) = <<seq[conn]>> BY <1>1, <1>3, <3>1, <3>3, StreamYields
        <4> QED BY <1>3, <2>1, <3>1, <3>3, <4>1, StreamSends
      <3> QED BY <2>2, <3>2, <3>3 DEF StreamGoesOn
    <2>3. CASE StreamIsOver(conn)
      <3>1. pc'[conn] = "idle" BY <2>3 DEF StreamIsOver
      <3>2. CASE UNCHANGED table
        <4>1. UNCHANGED <<events, status>> BY <3>2 DEF table
        <4>2. Yield(conn) = <<Error>> BY <1>1, <3>1, <4>1, StreamYields
        <4>3. Numbers(Mine)' = Numbers(Mine) /\ status'[Mine] # "completed"
          BY <1>1, <4>1 DEF Numbers, Active
        <4> QED BY <2>1, <3>1, <4>2, <4>3, StreamCloses
      <3>3. CASE StoresNext(conn)
        <4>1. Yield(conn) = <<seq[conn]>> \o <<End>> BY <1>1, <1>3, <3>1, <3>3, StreamYields
        <4> QED BY <1>3, <2>1, <3>1, <3>3, <4>1, StreamCloses
      <3> QED BY <2>3, <3>2, <3>3 DEF StreamIsOver
    <2> QED BY <1>1, <2>1, <2>2, <2>3, StreamSteps
  <1>5. CASE TurnStops(conn)
    <2>1. arriving' = arriving \o <<Error>> /\ UNCHANGED table
      BY <1>5 DEF TurnStops, Vanish, Sent
    <2>2. pc'[conn] = "idle"
      <3>1. pc \in [Turns -> Places] BY DEF IInv, TypeOK, Places
      <3>2. pc' = [pc EXCEPT ![conn] = "idle"] BY <1>5 DEF TurnStops, Vanish, Return, Goto
      <3> QED BY <1>1, <3>1, <3>2
    <2>3. Numbers(Mine)' = Numbers(Mine) /\ status'[Mine] # "completed"
      BY <1>1, <2>1 DEF Numbers, Active, table
    <2> QED BY <2>1, <2>2, <2>3, StreamCloses
  <1>6. CASE CompletedReplyLost(conn)
    <2>1. Completed(conn) /\ arriving' = arriving \o <<Error>>
      BY <1>6 DEF CompletedReplyLost, Sent
    <2>2. Step(conn) BY <2>1 DEF Step
    <2>3. pc'[conn] = "idle"
      <3>1. pc \in [Turns -> Places] BY DEF IInv, TypeOK, Places
      <3>2. pc' = [pc EXCEPT ![conn] = "idle"] BY <2>1 DEF Completed, Return, Goto
      <3> QED BY <1>1, <3>1, <3>2
    <2>4. StreamIsOver(conn) BY <1>1, <2>2, <2>3, StreamSteps DEF StreamGoesOn
    <2>5. CASE UNCHANGED table
      <3>1. Numbers(Mine)' = Numbers(Mine) /\ status'[Mine] # "completed"
        BY <1>1, <2>5 DEF Numbers, Active, table
      <3> QED BY <2>1, <2>3, <3>1, StreamCloses
    <2>6. CASE StoresNext(conn) BY <1>3, <2>1, <2>3, <2>6, StreamCloses
    <2> QED BY <2>4, <2>5, <2>6 DEF StreamIsOver
  <1>7. CASE DeltaReplyLost(conn) /\ UNCHANGED arriving
    <2>1. /\ pc[conn] = "streaming" /\ Appended(conn, "chat.delta", "running")
          /\ Goto(conn, "failing") /\ UNCHANGED seq
      BY <1>7 DEF DeltaReplyLost
    <2>2. pc'[conn] = "failing"
      <3>1. pc \in [Turns -> Places] BY DEF IInv, TypeOK, Places
      <3> QED BY <1>1, <2>1, <3>1 DEF Goto
    <2>3. Owned(conn) BY <2>1 DEF Appended
    <2>4. InStep(pc[conn], mode[conn], seq[conn], events[key[conn]], answers[key[conn]])
      BY <1>1, <2>1, <2>3, OwnedRow
    <2>5. seq[conn] = Last(events[key[conn]]) + 1 BY <2>1, <2>4 DEF InStep
    <2>6. StoresNext(conn) /\ status'[Mine] = "running"
      BY <1>1, <2>1, <2>5, AppendStoresNext DEF EventTypes
    <2>7. "running" \in Active BY DEF Active
    <2> QED BY <1>3, <1>7, <2>1, <2>2, <2>6, <2>7, StreamSends
  <1> QED BY <1>4, <1>5, <1>6, <1>7

\* What a settled request replays.
LEMMA Replays ==
  ASSUME ClientConstantsOK, IInv, cursor \in Nat
  PROVE  /\ Replay \in Seq(Int)
         /\ \A j \in 1..Len(Replay) : Replay[j] = cursor + j /\ Replay[j] \in Numbers(Mine)
  <1> DEFINE n == Last(events[Mine])  all == [i \in 1..n |-> i]  s == SubSeq(all, cursor + 1, n)
  <1>1. n \in Nat /\ Numbers(Mine) = 1..n BY MineLog
  <1> HIDE DEF n
  <1>2. \A i \in (cursor + 1)..n : all[i] = i /\ all[i] \in Int BY <1>1
  <1>3. cursor + 1 \in Int /\ n \in Int BY <1>1
  <1> HIDE DEF all
  <1>4. /\ s \in Seq(Int)
        /\ Len(s) = IF cursor + 1 <= n THEN n - (cursor + 1) + 1 ELSE 0
        /\ \A i \in 1..(n - (cursor + 1) + 1) : s[i] = all[(cursor + 1) + i - 1]
    BY <1>2, <1>3, SubSeqProperties
  <1> HIDE DEF s
  <1>5. ASSUME NEW j \in 1..Len(s) PROVE s[j] = cursor + j /\ s[j] \in 1..n
    <2>1. cursor + 1 <= n /\ j \in 1..(n - (cursor + 1) + 1) BY <1>1, <1>4
    <2>2. (cursor + 1) + j - 1 = cursor + j /\ cursor + j \in (cursor + 1)..n BY <1>1, <2>1
    <2>3. s[j] = all[cursor + j] BY <1>4, <2>1, <2>2
    <2> QED BY <1>1, <1>2, <2>2, <2>3
  <1>6. s = Replay BY DEF s, all, n, Replay
  <1> QED BY <1>1, <1>4, <1>5, <1>6

\* The client has opened a stream that is not at work yet: a settled request is
\* replayed to it, from behind the last event that it has counted.
LEMMA LoadingTurn ==
  ASSUME ConstantsOK, ClientConstantsOK, IInv, CInv,
         client \in Listening, client # "asking", pc[conn] = "loading",
         TurnStep(conn) \/ TurnStops(conn),
         UNCHANGED <<client, conn, cursor, seen, resumed>>
  PROVE  OnItsWay' /\ TurnAhead' /\ arriving' \in Seq(Int)
  <1>1. /\ conn \in Turns /\ mode[conn] = "stream" /\ cursor \in Nat /\ key[conn] = Mine
        /\ arriving = << >> /\ status[Mine] # "none"
        /\ ~resumed => status[Mine] \in Active
        /\ status[Mine] \in Active => cursor = 0 /\ client # "completing"
    BY DEF CInv, ClientTypeOK, PlaceOK, AttemptsOK, ArrivingOK, TurnAhead
  <1>2. status[Mine] \in Active \cup Settled BY <1>1, MineLog
  <1>3. /\ pc \in [Turns -> Places] /\ seq \in [Turns -> Nat] BY DEF IInv, TypeOK, Places
  <1>4. arriving \in Seq(Int) /\ Len(arriving) = 0 /\ \A i \in 1..Len(arriving) : NextEvent(i)
    BY <1>1, EmptySeq
  <1>5. CASE TurnStops(conn)
    <2> DEFINE new == <<Error>>
    <2>1. arriving' = arriving \o new /\ UNCHANGED table BY <1>5 DEF TurnStops, Vanish, Sent
    <2>2. pc'[conn] = "idle" BY <1>1, <1>3, <1>5 DEF TurnStops, Vanish, Return, Goto
    <2>3. Numbers(Mine)' = Numbers(Mine) /\ (~resumed => status'[Mine] # "completed")
      BY <1>1, <2>1 DEF Numbers, Active, table
    <2>4. new \in Seq(Int) /\ Len(new) = 1 /\ new[1] = Error BY OneWord, WordsAreInts
    <2> HIDE DEF new
    <2>5. \A j \in 1..Len(new) : j = 1 BY <2>4
    <2>6. \A j \in 1..Len(new) :
            /\ j = Len(new) /\ pc'[conn] = "idle" /\ new[j] \in {End, Error}
            /\ ~(~resumed /\ status'[Mine] = "completed")
      BY <2>2, <2>3, <2>4, <2>5
    <2>7. OnItsWay' /\ arriving' \in Seq(Int) BY <1>1, <1>4, <2>1, <2>3, <2>4, <2>6, MoreArrives
    <2>8. TurnAhead' BY <2>2 DEF TurnAhead, AtWork
    <2> QED BY <2>7, <2>8
  <1>6. CASE TurnStep(conn)
    <2>1. Step(conn) /\ arriving' = arriving \o Yield(conn) BY <1>6 DEF TurnStep, Sent
    <2>2. Load(conn)
      BY <2>1 DEF Step, ModelAnswers, ModelRaises, Fail, Complete, Started, Delta, StreamEnds,
           StreamFailed, Persist, Usage, Completed, Refused
    <2>3. UNCHANGED <<status, events>> BY <2>2 DEF Load, table
    <2>4. Numbers(Mine)' = Numbers(Mine) BY <2>3 DEF Numbers
    <2>5. CASE status[Mine] \in Settled
      <3> DEFINE new == Replay \o <<End>>  n == Len(Replay)
      <3>1. pc'[conn] = "idle" BY <1>1, <1>3, <2>2, <2>5 DEF Load, Return, Goto
      <3>2. arriving' = arriving \o new BY <1>1, <2>1, <3>1 DEF Yield
      <3>3. Replay \in Seq(Int) /\ n \in Nat
            /\ \A j \in 1..n : Replay[j] = cursor + j /\ Replay[j] \in Numbers(Mine)
        BY <1>1, Replays, LenProperties
      <3>4. new \in Seq(Int) /\ Len(new) = n + 1 /\ new[n + 1] = End
            /\ \A j \in 1..n : new[j] = Replay[j]
        <4> DEFINE b == <<End>>
        <4>1. b \in Seq(Int) /\ Len(b) = 1 /\ b[1] = End BY OneWord, WordsAreInts
        <4> HIDE DEF b
        <4>2. /\ Replay \o b \in Seq(Int) /\ Len(Replay \o b) = n + Len(b)
              /\ \A i \in 1..n + Len(b) : (Replay \o b)[i] = IF i <= n THEN Replay[i] ELSE b[i - n]
          BY <3>3, <4>1, ConcatProperties
        <4>3. new = Replay \o b BY DEF b
        <4> HIDE DEF new, n
        <4> QED BY <3>3, <4>1, <4>2, <4>3
      <3> HIDE DEF new, n
      <3>5. End # Error BY DEF End, Error
      <3>6. \A j \in 1..Len(new) :
              \/ new[j] = cursor + Len(arriving) + j /\ new[j] \in Numbers(Mine)'
              \/ j = Len(new) /\ pc'[conn] = "idle" /\ new[j] = End
        <4>1. \A j \in 1..Len(new) : j \in 1..n \/ j = n + 1 BY <3>3, <3>4
        <4> QED BY <1>1, <1>4, <2>4, <3>1, <3>3, <3>4, <4>1
      <3>7. OnItsWay' /\ arriving' \in Seq(Int)
        BY <1>1, <1>4, <2>4, <3>2, <3>4, <3>5, <3>6, MoreArrives
      <3>8. TurnAhead' BY <3>1 DEF TurnAhead, AtWork
      <3> QED BY <3>7, <3>8
    <2>6. CASE status[Mine] \in Active
      <3>1. status[Mine] \notin Settled BY <2>6 DEF Active, Settled
      <3>2. pc'[conn] = "starting" /\ seq'[conn] = 1
        BY <1>1, <1>3, <2>2, <3>1 DEF Load, Goto
      <3>3. Yield(conn) = << >> BY <1>1, <3>2 DEF Yield
      <3>4. arriving' = << >> BY <1>1, <1>4, <2>1, <3>3, ConcatEmptySeq
      <3>5. cursor = 0 /\ client = "streaming" BY <1>1, <2>6 DEF Listening
      <3>6. seen = 1..cursor
        <4>1. 1..cursor = {} BY <3>5
        <4> QED BY <4>1 DEF CInv, SeenOK
      <3>7. OnItsWay' BY <3>4, EmptySeq DEF OnItsWay
      <3>8. TurnAhead'
        <4>1. Len(arriving') = 0 /\ status'[Mine] \in Active BY <2>3, <2>6, <3>4, EmptySeq
        <4> QED BY <3>2, <3>4, <3>5, <3>6, <4>1 DEF TurnAhead
      <3> QED BY <3>4, <3>7, <3>8, EmptySeq
    <2> QED BY <1>2, <2>5, <2>6
  <1> QED BY <1>5, <1>6

\* Whatever a turn does, with what of it the client is sent.
LEMMA ServedTurn ==
  ASSUME ConstantsOK, ClientConstantsOK, IInv, CInv, NEW t \in Turns,
         \/ TurnStep(t) \/ TurnStops(t) \/ CompletedReplyLost(t)
         \/ DeltaReplyLost(t) /\ UNCHANGED arriving,
         UNCHANGED <<client, conn, cursor, seen, resumed>>
  PROVE  CInv'
  <1>1. Step(t) \/ DeltaReplyLost(t) \/ Vanish(t)
    BY DEF TurnStep, TurnStops, CompletedReplyLost, Step
  <1>2. CASE t # conn
    <2>1. UNCHANGED arriving BY <1>2 DEF TurnStep, TurnStops, CompletedReplyLost, Sent
    <2> QED BY <1>1, <1>2, <2>1, OtherTurn
  <1>3. CASE t = conn
    <2>1. client \in Listening /\ conn \in Turns
      <3>1. conn # NoTurn BY <1>3 DEF ConstantsOK
      <3> QED BY <3>1 DEF CInv, PlaceOK
    <2>2. CASE client = "asking" BY <1>3, <2>2, AskedTurn
    <2>3. CASE client # "asking" /\ AtWork(conn)
      <3>1. OnItsWay' /\ TurnAhead' /\ arriving' \in Seq(Int) BY <1>3, <2>1, <2>3, StreamedTurn
      <3>2. ClientTypeOK' /\ AttemptsOK' /\ PlaceOK' /\ SeenOK' /\ WholeOK'
        BY <1>1, <3>1, <1>3, TurnKeeps
      <3> QED BY <3>1, <3>2 DEF CInv, ArrivingOK
    <2>4. CASE client # "asking" /\ ~AtWork(conn)
      <3>1. pc[conn] = "loading" BY <1>1, <1>3, <2>1, <2>4, TurnMoves DEF AtWork
      <3>2. TurnStep(conn) \/ TurnStops(conn)
        BY <1>3, <3>1 DEF CompletedReplyLost, Completed, DeltaReplyLost
      <3>3. OnItsWay' /\ TurnAhead' /\ arriving' \in Seq(Int) BY <2>1, <2>4, <3>1, <3>2, LoadingTurn
      <3>4. ClientTypeOK' /\ AttemptsOK' /\ PlaceOK' /\ SeenOK' /\ WholeOK'
        BY <1>1, <3>3, <1>3, TurnKeeps
      <3> QED BY <3>3, <3>4 DEF CInv, ArrivingOK
    <2> QED BY <2>2, <2>3, <2>4
  <1> QED BY <1>2, <1>3

\* An attempt fails, with event c the last that the client has counted.
LEMMA FailedAttempt ==
  ASSUME ConstantsOK, ClientConstantsOK, IInv, CInv, NEW c \in Nat, AttemptFails(c),
         status[Mine] = "none" => c = 0,
         client # "failed",
         seen = 1..c \/ (seen \subseteq 1..c /\ (client' = "failed" \/ NothingBehind(c)))
  PROVE  CInv'
  <1> USE DEF Listening, Over
  <1>1. /\ client' \in {"failed", "falling back", "resuming"} /\ cursor' = c
        /\ conn' = NoTurn /\ arriving' = << >> /\ seen' = seen
        /\ client' = "falling back" => c = 0
        /\ resumed' = (resumed \/ client' = "resuming")
        /\ UNCHANGED <<status, events, pc, key>>
    BY DEF AttemptFails, vars, table, turn
  <1>2. ClientTypeOK'
    <2>1. << >> \in Seq(Int) BY EmptySeq
    <2>2. resumed' \in BOOLEAN BY <1>1 DEF CInv, ClientTypeOK
    <2> QED BY <1>1, <2>1, <2>2 DEF CInv, ClientTypeOK
  <1>3. AttemptsOK' BY <1>1 DEF CInv, AttemptsOK
  <1>4. PlaceOK' BY <1>1 DEF PlaceOK
  <1>5. SeenOK'
    <2>1. client' = "failed" \/ NothingBehind(c) => NothingBehind(cursor)' BY <1>1 DEF NothingBehind
    <2> QED BY <1>1, <2>1 DEF SeenOK
  <1>6. ArrivingOK' /\ WholeOK' BY <1>1 DEF ArrivingOK, WholeOK
  <1> QED BY <1>2, <1>3, <1>4, <1>5, <1>6 DEF CInv

\* The client breaks off where it is.
LEMMA BrokenAttempt ==
  ASSUME ConstantsOK, ClientConstantsOK, IInv, CInv, AttemptFails(cursor), client # "failed"
  PROVE  CInv'
  <1>1. cursor \in Nat /\ (status[Mine] = "none" => cursor = 0)
    BY DEF CInv, ClientTypeOK, AttemptsOK
  <1>2. seen = 1..cursor \/ (seen \subseteq 1..cursor /\ NothingBehind(cursor)) BY DEF CInv, SeenOK
  <1> DEFINE c == cursor
  <1>3. /\ c \in Nat /\ (status[Mine] = "none" => c = 0) /\ AttemptFails(c)
        /\ seen = 1..c \/ (seen \subseteq 1..c /\ NothingBehind(c))
    BY <1>1, <1>2
  <1> HIDE DEF c
  <1> QED BY <1>3, FailedAttempt

LEMMA SendStep ==
  ASSUME ConstantsOK, ClientConstantsOK, IInv, CInv, NEW t \in Turns, OpenStream(t) \/ AskInstead(t)
  PROVE  CInv'
  <1> USE DEF Listening, Over
  <1> DEFINE m == IF client = "falling back" THEN "ask" ELSE "stream"
             does == IF client = "falling back" THEN "asking" ELSE "streaming"
  <1>1. Send(t, m, does) /\ client \in {"new", "resuming", "falling back"}
    BY DEF OpenStream, AskInstead
  <1>2. /\ Arrive(t, Mine, m) /\ client' = does /\ conn' = t /\ arriving' = << >>
        /\ UNCHANGED <<cursor, seen, resumed>>
    BY <1>1 DEF Send, Reserve, ReserveNew, ReserveStale, ReserveSettled
  <1>3. /\ Mine \in Keys /\ key \in [Turns -> Keys \cup {NoKey}]
           /\ mode \in [Turns -> {"ask", "stream"}]
        /\ pc \in [Turns -> Places] /\ status \in [Keys -> States]
    BY DEF ClientConstantsOK, IInv, TypeOK, Places, States
  <1>4. /\ pc[t] = "idle" /\ pc'[t] = "loading" /\ key'[t] = Mine /\ mode'[t] = m
        /\ \A u \in Turns \ {t} : pc'[u] = pc[u] /\ key'[u] = key[u]
    BY <1>2, <1>3 DEF Arrive, Goto
  \* The row is new, interrupted, or settled already.
  <1>5. \/ status[Mine] = "none" /\ status'[Mine] = "reserved"
        \/ status'[Mine] = "interrupted" /\ status[Mine] \in Active
        \/ status[Mine] \in Settled /\ UNCHANGED <<status, events>>
    <2>1. CASE ReserveNew(t, Mine, m) BY <1>3, <2>1 DEF ReserveNew
    <2>2. CASE ReserveStale(t, Mine, m) BY <1>3, <2>2 DEF ReserveStale, SetRow
    <2>3. CASE ReserveSettled(t, Mine, m) BY <2>3 DEF ReserveSettled, table
    <2> QED BY <1>1, <2>1, <2>2, <2>3 DEF Send, Reserve
  <1>6. /\ client \in {"new", "falling back"} => cursor = 0
        /\ client = "new" => status[Mine] = "none"
        /\ client = "resuming" => resumed
        /\ status[Mine] = "none" => cursor = 0 /\ \A u \in Turns : pc[u] = "idle"
        /\ \A u \in Turns : pc[u] # "idle" => key[u] = Mine
    BY DEF CInv, PlaceOK, AttemptsOK
  <1>7. status'[Mine] # "none" BY <1>5 DEF Settled
  <1>8. status'[Mine] \in Active => status[Mine] = "none" BY <1>5 DEF Active, Settled
  <1>9. client' \in {"streaming", "asking"} /\ (client' = "asking" <=> client = "falling back")
    BY <1>2
  <1>10. ClientTypeOK' BY <1>2, <1>9, EmptySeq DEF CInv, ClientTypeOK
  <1>11. AttemptsOK' BY <1>4, <1>6, <1>7, <1>9 DEF AttemptsOK
  <1>12. PlaceOK' BY <1>2, <1>4, <1>6, <1>7, <1>8, <1>9 DEF PlaceOK
  <1>13. SeenOK'
    <2>1. CASE seen = 1..cursor BY <1>2, <2>1 DEF SeenOK
    <2>2. CASE seen \subseteq 1..cursor /\ NothingBehind(cursor) /\ status[Mine] = "none"
      <3>1. cursor = 0 /\ 1..0 = {} BY <1>6, <2>2
      <3>2. seen = 1..cursor BY <2>2, <3>1
      <3> QED BY <1>2, <3>2 DEF SeenOK
    <2>3. CASE seen \subseteq 1..cursor /\ NothingBehind(cursor) /\ status[Mine] # "none"
      <3>1. CASE status'[Mine] = "interrupted" BY <1>2, <2>3, <3>1 DEF SeenOK, NothingBehind
      <3>2. CASE status[Mine] \in Settled /\ UNCHANGED <<status, events>>
        <4>1. status[Mine] \notin Active BY <3>2 DEF Active, Settled
        <4>2. NothingBehind(cursor)' BY <1>1, <1>2, <2>3, <3>2, <4>1 DEF NothingBehind
        <4> QED BY <1>2, <2>3, <4>2 DEF SeenOK
      <3> QED BY <1>5, <2>3, <3>1, <3>2
    <2> QED BY <2>1, <2>2, <2>3 DEF CInv, SeenOK
  <1>14. ArrivingOK'
    <2>1. OnItsWay'
      <3>1. Len(arriving') = 0 BY <1>2, EmptySeq
      <3> QED BY <3>1 DEF OnItsWay
    <2>2. client # "falling back" /\ ~resumed => client = "new" BY <1>1, <1>6
    <2>3. client = "new" => status'[Mine] \in Active BY <1>5, <1>6 DEF Active, Settled
    <2>4. TurnAhead' BY <1>2, <1>4, <1>6, <1>8, <1>9, <2>2, <2>3 DEF TurnAhead, AtWork
    <2> QED BY <2>1, <2>4 DEF ArrivingOK
  <1>15. WholeOK' BY <1>9 DEF WholeOK
  <1> QED BY <1>10, <1>11, <1>12, <1>13, <1>14, <1>15 DEF CInv

\* The next event is read.
LEMMA EventStep ==
  ASSUME ConstantsOK, ClientConstantsOK, IInv, CInv, ReadEvent
  PROVE  CInv'
  <1> USE DEF Listening, Over
  <1> DEFINE n == Last(events[Mine])
  <1>1. /\ client \in Listening /\ arriving # << >> /\ arriving \in Seq(Int) /\ cursor \in Nat
        /\ Head(arriving) > 0 /\ OnItsWay /\ TurnAhead
    BY DEF ReadEvent, Arrived, CInv, ClientTypeOK, ArrivingOK
  <1>2. /\ Len(arriving) \in Nat \ {0} /\ Head(arriving) = arriving[1]
        /\ Tail(arriving) \in Seq(Int) /\ Len(Tail(arriving)) = Len(arriving) - 1
        /\ \A j \in 1..Len(Tail(arriving)) : Tail(arriving)[j] = arriving[j + 1]
    BY <1>1, EmptySeq, HeadTailProperties
  <1>3. NextEvent(1)
    <2>1. NextEvent(1) \/ LastWord(1) BY <1>1, <1>2 DEF OnItsWay
    <2>2. ~LastWord(1) BY <1>1, <1>2 DEF LastWord, End, Error, Answer
    <2> QED BY <2>1, <2>2
  <1>4. /\ Mine \in Keys /\ RowOK(status[Mine], events[Mine], answers[Mine])
        /\ n \in Nat /\ Numbers(Mine) = 1..n
    BY MineLog
  <1> DEFINE i == cursor + 1  e == events[Mine][i]
  <1>5. Head(arriving) = i /\ i \in 1..n /\ client \in {"streaming", "completing"}
    BY <1>1, <1>2, <1>3, <1>4 DEF NextEvent
  <1>6. CASE e = "chat.failed"
    <2>1. AttemptFails(i) BY <1>5, <1>6 DEF ReadEvent
    <2>2. n > 0 /\ i = n BY <1>1, <1>4, <1>5, <1>6 DEF RowOK, Terminal
    <2>3. status[Mine] \in {"failed", "interrupted"} BY <1>4, <1>6, <2>2 DEF RowOK
    <2>4. seen \subseteq 1..i
      <3>1. seen \subseteq 1..cursor BY DEF CInv, SeenOK
      <3> QED BY <1>1, <3>1
    <2>5. i \in Nat /\ client # "failed" /\ NothingBehind(i) BY <1>1, <1>5, <2>3 DEF NothingBehind
    <2> HIDE DEF i
    <2> QED BY <2>1, <2>3, <2>4, <2>5, FailedAttempt
  <1>7. CASE e # "chat.failed"
    <2>1. /\ cursor' = i /\ seen' = seen \cup {i}
          /\ client' = (IF e = "chat.completed" THEN "completing" ELSE client)
          /\ arriving' = Tail(arriving)
          /\ UNCHANGED <<conn, resumed, vars>>
      BY <1>5, <1>7 DEF ReadEvent
    <2>2. UNCHANGED <<status, events, pc, key, mode, seq>> /\ UNCHANGED Numbers(Mine)
      BY <2>1 DEF vars, table, turn, Numbers
    <2>3. client' \in {"streaming", "completing"} BY <1>5, <2>1
    <2>4. /\ conn \in Turns /\ mode[conn] = "stream" /\ status[Mine] # "none"
          /\ status[Mine] \in Active => \A t \in Turns \ {conn} : pc[t] = "idle"
          /\ \A t \in Turns : pc[t] # "idle" => key[t] = Mine
      BY <1>5 DEF CInv, PlaceOK, AttemptsOK
    <2>5. e = "chat.completed" => i = n /\ status[Mine] = "completed"
      BY <1>4, <1>5 DEF RowOK, Terminal
    <2>6. client = "completing" => status[Mine] = "completed" /\ cursor = n BY DEF CInv, WholeOK
    <2>7. client = "streaming" BY <1>1, <1>4, <1>5, <2>6
    <2>8. ASSUME seen = 1..cursor PROVE seen' = 1..i
      <3>1. 1..i = (1..cursor) \cup {i} BY <1>1
      <3> QED BY <2>1, <2>8, <3>1
    <2>9. ClientTypeOK'
      <3>1. Tail(arriving) \in Seq(Int) /\ arriving' = Tail(arriving) BY <1>2, <2>1
      <3>2. cursor' \in Nat BY <1>1, <2>1
      <3>3. seen' \subseteq Nat
        <4>1. seen \subseteq Nat /\ i \in Nat
          <5>1. i \in Nat BY <1>1
          <5>2. seen \subseteq Nat BY DEF CInv, ClientTypeOK
          <5> QED BY <5>1, <5>2
        <4>2. seen' = seen \cup {i} BY <2>1
        <4> HIDE DEF i
        <4> QED BY <4>1, <4>2
      <3> QED BY <2>1, <2>3, <3>1, <3>2, <3>3 DEF CInv, ClientTypeOK
    <2>10. AttemptsOK' BY <2>2, <2>3, <2>4 DEF AttemptsOK
    <2>11. PlaceOK' BY <2>1, <2>2, <2>3, <2>4 DEF PlaceOK
    <2>12. SeenOK'
      <3>1. CASE seen = 1..cursor BY <2>1, <2>8, <3>1 DEF SeenOK
      <3>2. CASE seen \subseteq 1..cursor /\ NothingBehind(cursor)
        <4>1. seen' \subseteq 1..i BY <1>1, <2>1, <3>2
        <4>2. client # "failed" BY <1>5
        <4>3. NothingBehind(cursor)' BY <1>1, <1>4, <1>5, <2>1, <2>2, <3>2, <4>2 DEF NothingBehind
        <4> QED BY <2>1, <4>1, <4>3 DEF SeenOK
      <3> QED BY <3>1, <3>2 DEF CInv, SeenOK
    <2>13. OnItsWay'
      <3> SUFFICES ASSUME NEW j \in 1..Len(arriving') PROVE NextEvent(j)' \/ LastWord(j)'
        BY DEF OnItsWay
      <3>1. /\ j + 1 \in 1..Len(arriving) /\ arriving'[j] = arriving[j + 1]
            /\ cursor' + j = cursor + (j + 1)
            /\ j + 1 = Len(arriving) => j = Len(arriving')
        <4> DEFINE m == Len(arriving)
        <4>1. m \in Nat /\ Len(arriving') = m - 1 BY <1>2, <2>1
        <4>2. arriving'[j] = arriving[j + 1] BY <1>2, <2>1
        <4> HIDE DEF m
        <4>3. j \in 1..(m - 1) /\ cursor' = cursor + 1 BY <2>1, <4>1
        <4>4. j + 1 \in 1..m /\ cursor' + j = cursor + (j + 1) /\ (j + 1 = m => j = m - 1)
          BY <1>1, <4>1, <4>3
        <4> QED BY <4>1, <4>2, <4>4 DEF m
      <3>2. client # "asking" /\ client' # "asking" BY <1>5, <2>3
      <3>3. CASE NextEvent(j + 1) BY <2>2, <3>1, <3>2, <3>3 DEF NextEvent
      <3>4. CASE LastWord(j + 1) BY <2>1, <2>2, <3>1, <3>2, <3>4 DEF LastWord
      <3> QED BY <1>1, <3>1, <3>3, <3>4 DEF OnItsWay
    <2>14. TurnAhead'
      <3>1. pc[conn] # "loading" BY <1>1 DEF TurnAhead
      <3>2. ASSUME AtWork(conn)
            PROVE  /\ client' = "streaming" /\ status[Mine] \in Active
                   /\ seen' = 1..cursor' /\ cursor' + Len(arriving') = seq[conn] - 1
        <4>1. /\ status[Mine] \in Active /\ seen = 1..cursor
                 /\ cursor + Len(arriving) = seq[conn] - 1
          BY <1>1, <1>5, <3>2 DEF TurnAhead
        <4>2. e # "chat.completed" BY <2>5, <4>1 DEF Active
        <4>3. Len(arriving') = Len(arriving) - 1 BY <1>2, <2>1
        <4>4. cursor' + Len(arriving') = cursor + Len(arriving) BY <1>1, <1>2, <2>1, <4>3
        <4> QED BY <2>1, <2>7, <2>8, <4>1, <4>2, <4>4
      <3> QED BY <2>1, <2>2, <2>3, <3>1, <3>2 DEF TurnAhead, AtWork
    <2>15. WholeOK'
      <3>1. ASSUME client' = "completing"
            PROVE  status[Mine] = "completed" /\ cursor' = n /\ seen' = 1..cursor'
        <4>1. i = n /\ status[Mine] = "completed" BY <2>1, <2>5, <2>7, <3>1
        <4>2. seen = 1..cursor
          <5>1. ~NothingBehind(cursor) BY <1>1, <1>4, <2>7, <4>1 DEF NothingBehind, Active
          <5> QED BY <5>1 DEF CInv, SeenOK
        <4> QED BY <2>1, <2>8, <4>1, <4>2
      <3> QED BY <2>1, <2>2, <2>3, <3>1 DEF WholeOK
    <2> QED BY <2>9, <2>10, <2>11, <2>12, <2>13, <2>14, <2>15 DEF CInv, ArrivingOK
  <1> QED BY <1>6, <1>7

\* The last word is read: the end of a stream, an error or an answer.
LEMMA LastWordStep ==
  ASSUME ConstantsOK, ClientConstantsOK, IInv, CInv, ReadEnd \/ ReadError \/ ReadAnswer
  PROVE  CInv'
  <1> USE DEF Listening, Over
  <1>1. /\ client \in Listening /\ arriving # << >> /\ arriving \in Seq(Int) /\ cursor \in Nat
        /\ Head(arriving) \in {End, Error, Answer} /\ OnItsWay
    BY DEF ReadEnd, ReadError, ReadAnswer, Arrived, CInv, ClientTypeOK, ArrivingOK
  <1>2. Len(arriving) \in Nat \ {0} /\ Head(arriving) = arriving[1]
    BY <1>1, EmptySeq
  <1>3. LastWord(1)
    <2>1. NextEvent(1) \/ LastWord(1) BY <1>1, <1>2 DEF OnItsWay
    <2>2. cursor + 1 \notin {End, Error, Answer} BY <1>1 DEF End, Error, Answer
    <2>3. ~NextEvent(1) BY <1>1, <1>2, <2>2 DEF NextEvent
    <2> QED BY <2>1, <2>3
  <1>4. \A d : /\ client' = d /\ d \in {"complete", "answered"} /\ conn' = NoTurn
                  /\ arriving' = << >>
               /\ UNCHANGED <<cursor, seen, resumed, vars>>
               /\ status[Mine] = "completed"
               /\ d = "complete" => cursor = Last(events[Mine]) /\ seen = 1..cursor
               /\ d = "answered" => seen = {}
               => CInv'
    <2> SUFFICES ASSUME NEW d \in {"complete", "answered"},
                        client' = d, conn' = NoTurn, arriving' = << >>,
                        UNCHANGED <<cursor, seen, resumed, vars>>,
                        status[Mine] = "completed",
                        d = "complete" => cursor = Last(events[Mine]) /\ seen = 1..cursor,
                        d = "answered" => seen = {}
                 PROVE  CInv'
      OBVIOUS
    <2>1. UNCHANGED <<status, events, pc, key>> BY DEF vars, table, turn
    <2>2. ClientTypeOK' BY EmptySeq DEF CInv, ClientTypeOK
    <2>3. AttemptsOK' /\ PlaceOK' BY <2>1 DEF CInv, AttemptsOK, PlaceOK
    <2>4. SeenOK'
      <3>1. client # "failed" BY <1>1
      <3>2. NothingBehind(cursor) => NothingBehind(cursor)' BY <2>1, <3>1 DEF NothingBehind
      <3> QED BY <3>2 DEF CInv, SeenOK
    <2>5. ArrivingOK' /\ WholeOK' BY <2>1 DEF ArrivingOK, WholeOK
    <2> QED BY <2>2, <2>3, <2>4, <2>5 DEF CInv
  <1>5. CASE ReadEnd
    <2>1. CASE Whole
      <3>1. status[Mine] = "completed" /\ cursor = Last(events[Mine]) /\ seen = 1..cursor
        BY <2>1 DEF Whole, CInv, WholeOK
      <3> QED BY <1>4, <1>5, <2>1, <3>1 DEF ReadEnd
    <2>2. CASE ~Whole BY <1>1, <1>5, <2>2, BrokenAttempt DEF ReadEnd
    <2> QED BY <2>1, <2>2
  <1>6. CASE ReadAnswer
    <2>1. Head(arriving) = Answer BY <1>6 DEF ReadAnswer
    <2>2. client = "asking" /\ status[Mine] = "completed" BY <1>2, <1>3, <2>1 DEF LastWord
    <2>3. seen = {}
      <3>1. cursor = 0 /\ 1..0 = {} BY <2>2 DEF CInv, PlaceOK
      <3> QED BY <3>1 DEF CInv, SeenOK
    <2> QED BY <1>4, <1>6, <2>2, <2>3 DEF ReadAnswer
  <1>7. CASE ReadError /\ AttemptFails(cursor) BY <1>1, <1>7, BrokenAttempt
  <1>8. CASE ReadError /\ client # "asking" /\ AttemptFails(cursor + 1)
    <2> DEFINE c == cursor + 1
    <2>1. Head(arriving) = Error BY <1>8 DEF ReadError
    <2>2. pc[conn] = "idle" /\ (~resumed /\ status[Mine] = "completed" => Last(events[Mine]) <= c)
      BY <1>2, <1>3, <1>8, <2>1 DEF LastWord
    <2>3. /\ status[Mine] # "none"
          /\ status[Mine] \in Active => \A t \in Turns \ {conn} : pc[t] = "idle"
      BY <1>1 DEF CInv, PlaceOK
    <2>4. c \in Nat /\ c # 0 BY <1>1
    <2>5. seen \subseteq 1..c
      <3>1. seen \subseteq 1..cursor BY DEF CInv, SeenOK
      <3> QED BY <1>1, <3>1
    <2>6. resumed => client' = "failed" BY <1>1, <1>8, <2>4 DEF AttemptFails
    <2>7. status[Mine] \in Active \cup Settled BY <2>3, MineLog
    <2>8. ~resumed => NothingBehind(c) BY <2>2, <2>3, <2>7 DEF NothingBehind, Settled
    <2>9. AttemptFails(c) /\ client # "failed" BY <1>1, <1>8
    <2> HIDE DEF c
    <2> QED BY <2>3, <2>4, <2>5, <2>6, <2>8, <2>9, FailedAttempt
  <1> QED BY <1>5, <1>6, <1>7, <1>8 DEF ReadError

LEMMA StopStep ==
  ASSUME ConstantsOK, ClientConstantsOK, IInv, CInv, Stop
  PROVE  CInv'
  <1> USE DEF Listening, Over
  <1>1. /\ client \in {"streaming", "completing"} /\ client' = "stopped" /\ conn' = NoTurn
           /\ arriving' = << >>
        /\ UNCHANGED <<cursor, seen, resumed, status, events, pc, key>>
    BY DEF Stop, vars, table, turn
  <1>2. ClientTypeOK' BY <1>1, EmptySeq DEF CInv, ClientTypeOK
  <1>3. AttemptsOK' /\ PlaceOK' BY <1>1 DEF CInv, AttemptsOK, PlaceOK
  <1>4. SeenOK'
    <2>1. NothingBehind(cursor) => NothingBehind(cursor)' BY <1>1 DEF NothingBehind
    <2> QED BY <1>1, <2>1 DEF CInv, SeenOK
  <1>5. ArrivingOK' /\ WholeOK' BY <1>1 DEF ArrivingOK, WholeOK
  <1> QED BY <1>2, <1>3, <1>4, <1>5 DEF CInv

\* A step that changes nothing CInv speaks of.
LEMMA QuietStep ==
  ASSUME CInv, UNCHANGED <<clientVars, status, events, pc, key, mode, seq>>
  PROVE  CInv'
  <1> USE DEF clientVars
  <1>1. ClientTypeOK' /\ AttemptsOK' /\ PlaceOK' BY DEF CInv, ClientTypeOK, AttemptsOK, PlaceOK
  <1>2. SeenOK' BY DEF CInv, SeenOK, NothingBehind
  <1>3. ArrivingOK'
    BY DEF CInv, ArrivingOK, OnItsWay, TurnAhead, NextEvent, LastWord, Numbers, AtWork
  <1>4. WholeOK' BY DEF CInv, WholeOK
  <1> QED BY <1>1, <1>2, <1>3, <1>4 DEF CInv

\* Every step of the client and of its turns is one of ChatLease, or none.
LEMMA ClientIsNext ==
  ASSUME ClientConstantsOK, ClientNext PROVE [Next]_vars
  <1>1. Mine \in Keys BY DEF ClientConstantsOK
  <1>2. ASSUME NEW t \in Turns, OpenStream(t) \/ AskInstead(t) PROVE Next
    BY <1>1, <1>2 DEF OpenStream, AskInstead, Send, Next
  <1>3. CASE Busy \/ Break \/ Stop \/ ReadEvent \/ ReadEnd \/ ReadError \/ ReadAnswer \/ Rest
    BY <1>3 DEF Busy, Break, Stop, ReadEvent, ReadEnd, ReadError, ReadAnswer, Rest, AttemptFails
  <1>4. CASE Serve
    <2>1. ASSUME NEW t \in Turns,
                 \/ TurnStep(t) \/ CompletedReplyLost(t) \/ TurnStops(t)
                 \/ (Renew(t) \/ DeltaReplyLost(t)) /\ UNCHANGED arriving
          PROVE  Next
      <3>1. Step(t) \/ DeltaReplyLost(t) \/ Vanish(t) \/ Renew(t)
        BY <2>1 DEF TurnStep, CompletedReplyLost, TurnStops, Step
      <3> QED BY <3>1, TurnIsNext
    <2>2. Tick => Next BY DEF Next
    <2> QED BY <1>4, <2>1, <2>2 DEF Serve, Serving
  <1> QED BY <1>2, <1>3, <1>4 DEF ClientNext, Acts

LEMMA NextCInv ==
  ASSUME ConstantsOK, ClientConstantsOK, IInv, CInv, [ClientNext]_<<vars, clientVars>>
  PROVE  CInv'
  <1>1. ASSUME NEW t \in Turns, OpenStream(t) \/ AskInstead(t) PROVE CInv' BY <1>1, SendStep
  <1>2. CASE Busy \/ Break
    <2>1. AttemptFails(cursor) /\ client # "failed" BY <1>2 DEF Busy, Break, Listening
    <2> QED BY <2>1, BrokenAttempt
  <1>3. CASE Rest \/ UNCHANGED <<vars, clientVars>>
    BY <1>3, QuietStep DEF Rest, vars, table, turn
  <1>4. CASE Serve
    <2>1. UNCHANGED <<client, conn, cursor, seen, resumed>> BY <1>4 DEF Serve, Serving
    <2>2. ASSUME NEW t \in Turns,
                 \/ TurnStep(t) \/ CompletedReplyLost(t) \/ TurnStops(t)
                 \/ DeltaReplyLost(t) /\ UNCHANGED arriving
          PROVE  CInv'
      BY <2>1, <2>2, ServedTurn
    <2>3. ASSUME (\E t \in Turns : Renew(t)) \/ Tick, UNCHANGED arriving PROVE CInv'
      <3>1. UNCHANGED <<status, events, pc, key, mode, seq>> BY <2>3 DEF Renew, Tick, turn
      <3> QED BY <2>1, <2>3, <3>1, QuietStep DEF clientVars
    <2> QED BY <1>4, <2>2, <2>3 DEF Serve, Serving
  <1> QED BY <1>1, <1>2, <1>3, <1>4, EventStep, LastWordStep, StopStep DEF ClientNext, Acts

\* What the client presents as complete is the whole of the one answer.
LEMMA WholeAnswerFollows ==
  ASSUME ClientConstantsOK, IInv, CInv PROVE WholeAnswer
  <1>1. /\ Mine \in Keys /\ RowOK(status[Mine], events[Mine], answers[Mine])
        /\ Numbers(Mine) = 1..Last(events[Mine])
    BY MineLog
  <1>2. status[Mine] = "completed" => answers[Mine] = 1 BY <1>1 DEF RowOK
  <1> QED BY <1>1, <1>2 DEF WholeAnswer, CInv, WholeOK

-----------------------------------------------------------------------------
(* Chat without a database *)

\* The events that end a stream, and the turns that have yet to store an answer.
LocalTerminal == {"chat.completed", "chat.failed"}
LocalEarly == {"asking", "starting", "streaming"}
LocalBefore(k) == {t \in LocalTurns : request[t] = k /\ doing[t] \in LocalEarly}
LocalStreams(t, k) == Local!Working(t, k) /\ doing[t] # "asking"

\* Every answer, and every turn that may still store one, is the first or has its
\* cause; without a record, and nobody at work, not even the first was stored.
LocalCausesOK ==
    \A k \in LocalKeys :
        /\ given[k] + Cardinality(LocalBefore(k)) <= 1 + excuses[k]
        /\ record[k] = "none" /\ (\A t \in LocalTurns : ~Local!Working(t, k))
           => given[k] <= excuses[k]

\* What the record says of the log.
LocalLogOK(r, g, a) ==
    /\ r \in {"none", "answered", "reserved"} => Len(g) = 0
    /\ r \in {"streaming"} \cup Local!Ended => Len(g) > 0 /\ g[1] = "chat.started"
    /\ \A i \in 1..Len(g) : g[i] \in LocalTerminal => i = Len(g) /\ r \in Local!Ended
    /\ r \in {"failed", "interrupted"} => g[Len(g)] = "chat.failed"
    /\ r = "completed" =>
        /\ Len(g) > 1 /\ g[Len(g)] = "chat.completed" /\ g[Len(g) - 1] = "chat.usage"
        /\ a > 0

\* The one turn that writes the stream, and how far it is.
LocalStreamOK(k) ==
    /\ \A t, u \in LocalTurns : LocalStreams(t, k) /\ LocalStreams(u, k) => t = u
    /\ \A t \in LocalTurns : LocalStreams(t, k) =>
        /\ record[k] = IF doing[t] = "starting" THEN "reserved" ELSE "streaming"
        /\ doing[t] \in {"answered", "finishing"} => given[k] > 0
        /\ doing[t] = "finishing" => log[k][Len(log[k])] = "chat.usage"
    /\ LocalLogOK(record[k], log[k], given[k])

LocalKeysOK == \A t \in LocalTurns : doing[t] # "idle" => request[t] \in LocalKeys

LocalIInv == Local!TypeOK /\ LocalKeysOK /\ LocalCausesOK /\ \A k \in LocalKeys : LocalStreamOK(k)

\* The instance has the finite sets of this module.
LEMMA LocalTurnsFinite == ASSUME Local!ConstantsOK PROVE IsFiniteSet(LocalTurns)
  BY Zenon DEF Local!ConstantsOK, Local!IsFiniteSet, IsFiniteSet

LEMMA LocalInitIInv == ASSUME Local!ConstantsOK, Local!Init PROVE LocalIInv
  <1>1. \A k \in LocalKeys : LocalBefore(k) = {} BY DEF Local!Init, LocalBefore, LocalEarly
  <1>2. Cardinality({}) = 0 BY FS_EmptySet
  <1>3. Local!TypeOK
    <2>1. <<>> \in Seq(Local!EventTypes) OBVIOUS
    <2> QED BY <2>1 DEF Local!Init, Local!TypeOK, Local!ConstantsOK, Local!InProgress, Local!Ended
  <1>4. LocalCausesOK
    <2>1. \A k \in LocalKeys : Cardinality(LocalBefore(k)) = 0 BY <1>1, <1>2
    <2>2. \A k \in LocalKeys : given[k] = 0 /\ excuses[k] = 0 BY DEF Local!Init
    <2> QED BY <2>1, <2>2 DEF LocalCausesOK
  <1>5. \A k \in LocalKeys : LocalStreamOK(k)
    BY DEF Local!Init, LocalStreamOK, LocalStreams, Local!Working, LocalLogOK, Local!Ended
  <1>6. LocalKeysOK BY DEF Local!Init, LocalKeysOK
  <1> QED BY <1>3, <1>4, <1>5, <1>6 DEF LocalIInv

\* How one turn's step changes the number of those that have yet to answer.
LEMMA LocalMoves ==
  ASSUME Local!ConstantsOK, Local!TypeOK, NEW t \in LocalTurns, NEW l, NEW n, NEW k \in LocalKeys,
         doing' = [doing EXCEPT ![t] = l], request' = [request EXCEPT ![t] = n]
  PROVE  /\ Cardinality(LocalBefore(k)) \in Nat /\ Cardinality(LocalBefore(k))' \in Nat
         /\ t \in LocalBefore(k) <=> request[t] = k /\ doing[t] \in LocalEarly
         /\ n = k /\ l \in LocalEarly => Cardinality(LocalBefore(k))' =
              IF t \in LocalBefore(k) THEN Cardinality(LocalBefore(k)) ELSE Cardinality(LocalBefore(k)) + 1
         /\ ~(n = k /\ l \in LocalEarly) => Cardinality(LocalBefore(k))' =
              IF t \in LocalBefore(k) THEN Cardinality(LocalBefore(k)) - 1 ELSE Cardinality(LocalBefore(k))
  <1>1. IsFiniteSet(LocalBefore(k)) /\ Cardinality(LocalBefore(k)) \in Nat
    BY FS_Subset, LocalTurnsFinite, FS_CardinalityType DEF LocalBefore, Local!ConstantsOK
  <1>2. t \in LocalBefore(k) <=> request[t] = k /\ doing[t] \in LocalEarly BY DEF LocalBefore
  <1>3. IsFiniteSet(LocalBefore(k)') /\ Cardinality(LocalBefore(k))' \in Nat
    BY FS_Subset, LocalTurnsFinite, FS_CardinalityType DEF LocalBefore, Local!ConstantsOK
  <1>4. CASE n = k /\ l \in LocalEarly
    <2>1. LocalBefore(k)' = LocalBefore(k) \cup {t} BY <1>4 DEF LocalBefore, Local!TypeOK
    <2> QED BY <1>1, <1>2, <1>3, <1>4, <2>1, FS_AddElement
  <1>5. CASE ~(n = k /\ l \in LocalEarly)
    <2>1. LocalBefore(k)' = LocalBefore(k) \ {t} BY <1>5 DEF LocalBefore, Local!TypeOK
    <2> QED BY <1>1, <1>2, <1>3, <1>5, <2>1, FS_RemoveElement
  <1> QED BY <1>4, <1>5

LocalPlaces == {"idle", "asking", "starting", "streaming", "answered", "finishing"}
LocalRecords == {"none", "answered"} \cup Local!InProgress \cup Local!Ended
LocalOthers(t, k) == \A u \in LocalTurns \ {t} : ~LocalStreams(u, k)

\* A step of turn t, which works on request k and is then at l; what the step leaves
\* of the request's record, log, answers and causes; and what it must leave behind.
LocalMove(t, k, l, r, g, a, c) ==
    /\ doing' = [doing EXCEPT ![t] = l] /\ request' = [request EXCEPT ![t] = k]
    /\ record' = [record EXCEPT ![k] = r] /\ log' = [log EXCEPT ![k] = g]
    /\ given' = [given EXCEPT ![k] = a] /\ excuses' = [excuses EXCEPT ![k] = c]
    /\ beside' \in [LocalKeys -> 0..MaxOverlaps] /\ deaths' \in 0..LocalCrashes
LocalLeaves(t, k, l, r, g, a, c) ==
    /\ LocalLogOK(r, g, a)
    /\ \/ l \in {"idle", "asking"}
       \/ /\ LocalOthers(t, k) /\ r = IF l = "starting" THEN "reserved" ELSE "streaming"
          /\ l \in {"answered", "finishing"} => a > 0
          /\ l = "finishing" => g[Len(g)] = "chat.usage"
    /\ LocalOthers(t, k) \/ (r = record[k] /\ g = log[k] /\ a >= given[k])
    /\ r = "none" /\ l = "idle" /\ (\A u \in LocalTurns \ {t} : ~Local!Working(u, k)) => a <= c

LEMMA LocalTurnMoves ==
  ASSUME Local!ConstantsOK, LocalIInv, NEW t \in LocalTurns, NEW k \in LocalKeys,
        NEW l \in LocalPlaces,
         NEW r \in LocalRecords, NEW g \in Seq(Local!EventTypes), NEW a \in Nat, NEW c \in Nat,
         doing[t] = "idle"
             \/ request[t] = k, LocalMove(t, k, l, r, g, a, c), LocalLeaves(t, k, l, r, g, a, c),
         a + Cardinality(LocalBefore(k))' <= 1 + c
  PROVE  LocalIInv'
  <1> USE DEF LocalIInv, LocalMove, LocalLeaves
  <1>1. Local!TypeOK'
    BY DEF Local!TypeOK, LocalPlaces, LocalRecords
  <1>2. LocalKeysOK' BY DEF LocalKeysOK, Local!TypeOK
  <1>3. ASSUME NEW j \in LocalKeys \ {k}
        PROVE  /\ record'[j] = record[j] /\ log'[j] = log[j] /\ given'[j] = given[j]
                  /\ excuses'[j] = excuses[j]
               /\ \A u \in LocalTurns : Local!Working(u, j)' <=> Local!Working(u, j)
               /\ \A u \in LocalTurns : LocalStreams(u, j)' <=> LocalStreams(u, j)
               /\ \A u \in LocalTurns : LocalStreams(u, j) => doing'[u] = doing[u]
    BY DEF Local!TypeOK, Local!Working, LocalStreams
  <1>4. LocalCausesOK'
    <2> SUFFICES ASSUME NEW j \in LocalKeys
                 PROVE  (/\ given[j] + Cardinality(LocalBefore(j)) <= 1 + excuses[j]
                         /\ record[j] = "none" /\ (\A u \in LocalTurns : ~Local!Working(u, j))
                            => given[j] <= excuses[j])'
      BY DEF LocalCausesOK
    <2>1. CASE j # k
      <3>1. LocalBefore(j)' = LocalBefore(j) BY <2>1 DEF LocalBefore, Local!TypeOK, LocalEarly
      <3> QED BY <1>3, <2>1, <3>1 DEF LocalCausesOK
    <2>2. CASE j = k
      <3>1. given'[k] = a /\ excuses'[k] = c /\ record'[k] = r BY DEF Local!TypeOK
      <3>2. (\A u \in LocalTurns : ~Local!Working(u, k))' => l = "idle"
            /\ \A u \in LocalTurns \ {t} : ~Local!Working(u, k)
        BY DEF Local!Working, Local!TypeOK
      <3> QED BY <2>2, <3>1, <3>2
    <2> QED BY <2>1, <2>2
  <1>5. ASSUME NEW j \in LocalKeys PROVE LocalStreamOK(j)'
    <2>1. CASE j # k
      BY <1>3, <2>1 DEF LocalStreamOK
    <2>2. CASE j = k
      <3>1. given'[k] = a /\ log'[k] = g /\ record'[k] = r /\ doing'[t] = l BY DEF Local!TypeOK
      <3>2. \A u \in LocalTurns \ {t} : LocalStreams(u, k)' <=> LocalStreams(u, k)
        BY DEF LocalStreams, Local!Working, Local!TypeOK
      <3>3. \A u \in LocalTurns \ {t} : doing'[u] = doing[u] BY DEF Local!TypeOK
      <3>4. LocalStreams(t, k)' => l \notin {"idle", "asking"}
        BY <3>1 DEF LocalStreams, Local!Working
      <3>5. \A u, v \in LocalTurns : LocalStreams(u, k)' /\ LocalStreams(v, k)' => u = v
        BY <3>2, <3>4 DEF LocalStreamOK, LocalOthers
      <3>6. ASSUME NEW u \in LocalTurns, LocalStreams(u, k)'
            PROVE  /\ r = IF doing'[u] = "starting" THEN "reserved" ELSE "streaming"
                   /\ doing'[u] \in {"answered", "finishing"} => a > 0
                   /\ doing'[u] = "finishing" => g[Len(g)] = "chat.usage"
        <4>1. CASE u = t BY <3>1, <3>4, <3>6, <4>1
        <4>2. CASE u # t
          <5>1. LocalStreams(u, k) /\ r = record[k] /\ g = log[k] /\ a >= given[k]
            BY <3>2, <3>6, <4>2 DEF LocalOthers
          <5>2. given[k] \in Nat BY DEF Local!TypeOK
          <5> QED BY <3>3, <4>2, <5>1, <5>2 DEF LocalStreamOK
        <4> QED BY <4>1, <4>2
      <3> QED BY <2>2, <3>1, <3>5, <3>6 DEF LocalStreamOK
    <2> QED BY <2>1, <2>2
  <1> QED BY <1>1, <1>2, <1>4, <1>5

\* Logs that grow by one event.
LEMMA LocalLogGrows ==
  ASSUME NEW g \in Seq(Local!EventTypes), NEW r, NEW a, LocalLogOK(r, g, a),
        NEW e \in Local!EventTypes, NEW s, NEW b \in Nat, b >= a, a \in Nat,
         r \in Local!InProgress, Len(g) = 0 => e = "chat.started",
         \/ s = "streaming" /\ e \notin LocalTerminal
         \/ s \in {"failed", "interrupted"} /\ e = "chat.failed"
         \/ /\ s = "completed" /\ e = "chat.completed" /\ b > 0
            /\ Len(g) > 0 /\ g[Len(g)] = "chat.usage"
  PROVE  Append(g, e) \in Seq(Local!EventTypes) /\ LocalLogOK(s, Append(g, e), b)
  <1> DEFINE n == Len(g)  h == Append(g, e)
  <1>1. h \in Seq(Local!EventTypes) /\ n \in Nat /\ Len(h) = n + 1 /\ h[n + 1] = e
        /\ \A i \in 1..n : h[i] = g[i]
    OBVIOUS
  <1>2. h[1] = "chat.started"
    <2>1. CASE n = 0 BY <1>1, <2>1
    <2>2. CASE n > 0 BY <1>1, <2>2 DEF LocalLogOK, Local!InProgress
    <2> QED BY <1>1, <2>1, <2>2
  <1>3. \A i \in 1..n : g[i] \notin LocalTerminal BY DEF LocalLogOK, Local!InProgress, Local!Ended
  <1>4. \A i \in 1..(n + 1) : i \in 1..n \/ i = n + 1 BY <1>1
  <1> HIDE DEF n, h
  <1>5. (n + 1) - 1 = n /\ (n > 0 => n \in 1..n) BY <1>1
  <1>6. n = Len(g) /\ h = Append(g, e) BY DEF n, h
  <1>7. \A i \in 1..Len(h) : h[i] \in LocalTerminal => i = Len(h) /\ s \in Local!Ended
    BY <1>1, <1>3, <1>4 DEF Local!Ended, LocalTerminal
  <1>8. s = "completed" => Len(h) > 1 /\ h[Len(h) - 1] = "chat.usage" /\ b > 0
    BY <1>1, <1>5, <1>6
  <1>9. Len(h) > 0 BY <1>1
  <1>10. h \in Seq(Local!EventTypes) /\ LocalLogOK(s, h, b)
    BY <1>1, <1>2, <1>7, <1>8, <1>9 DEF LocalLogOK, Local!Ended
  <1> QED BY <1>6, <1>10

LEMMA LocalStreamSteps ==
  ASSUME Local!ConstantsOK, LocalIInv, NEW t \in LocalTurns, Local!Step(t) \/ Local!GiveUp(t)
  PROVE LocalIInv'
  <1> USE DEF LocalIInv
  <1>0. doing[t] \in LocalPlaces \ {"idle"} /\ request[t] \in LocalKeys
    BY DEF Local!Step, Local!GiveUp, Local!Complete, Local!Started, Local!Delta, Local!StreamFails,
        Local!Persist, Local!Usage, Local!Completed, LocalKeysOK, LocalPlaces
  <1>k. PICK k \in LocalKeys : request[t] = k BY <1>0
  <1>p. PICK g, a, c, r : g = log[k] /\ a = given[k] /\ c = excuses[k] /\ r = record[k]
    OBVIOUS
  <1>1. doing[t] \in LocalPlaces \ {"idle"} /\ request[t] = k BY <1>0, <1>k
  <1>2. /\ g \in Seq(Local!EventTypes) /\ a \in Nat /\ c \in Nat /\ r \in LocalRecords
        /\ log = [log EXCEPT ![k] = g] /\ record = [record EXCEPT ![k] = r]
        /\ given = [given EXCEPT ![k] = a] /\ excuses = [excuses EXCEPT ![k] = c]
        /\ request = [request EXCEPT ![t] = k]
        /\ beside \in [LocalKeys -> 0..MaxOverlaps] /\ deaths \in 0..LocalCrashes
    BY <1>1, <1>p DEF Local!TypeOK, LocalRecords
  <1>3. LocalLogOK(r, g, a) BY <1>1, <1>p DEF LocalStreamOK
  <1>4. /\ a + Cardinality(LocalBefore(k)) <= 1 + c /\ Cardinality(LocalBefore(k)) \in Nat
        /\ t \in LocalBefore(k) <=> doing[t] \in LocalEarly
    BY <1>1, <1>2, <1>p, LocalMoves, FS_Subset, LocalTurnsFinite, FS_CardinalityType
      DEF LocalCausesOK, LocalBefore, Local!ConstantsOK
  <1>5. LocalStreams(t, k) <=> doing[t] # "asking"
    BY <1>1 DEF LocalStreams, Local!Working, LocalPlaces
  <1>6. LocalStreams(t, k) => LocalOthers(t, k) BY <1>1 DEF LocalStreamOK, LocalOthers
  <1>7. doing[t] # "asking" => r = IF doing[t] = "starting" THEN "reserved" ELSE "streaming"
    BY <1>1, <1>5, <1>p DEF LocalStreamOK
  <1>8. ASSUME NEW l, doing' = [doing EXCEPT ![t] = l], UNCHANGED request
        PROVE  /\ Cardinality(LocalBefore(k))' \in Nat
               /\ doing[t] \in LocalEarly /\ l \in LocalEarly
                  => Cardinality(LocalBefore(k))' = Cardinality(LocalBefore(k))
               /\ doing[t] \in LocalEarly /\ l \notin LocalEarly
                  => Cardinality(LocalBefore(k))' = Cardinality(LocalBefore(k)) - 1
               /\ doing[t] \notin LocalEarly /\ l \notin LocalEarly
                  => Cardinality(LocalBefore(k))' = Cardinality(LocalBefore(k))
               /\ doing[t] \in LocalEarly => Cardinality(LocalBefore(k)) > 0
    <2>1. request' = [request EXCEPT ![t] = k] BY <1>2, <1>8
    <2>m. /\ Cardinality(LocalBefore(k))' \in Nat
          /\ k = k /\ l \in LocalEarly => Cardinality(LocalBefore(k))' =
               IF t \in LocalBefore(k) THEN Cardinality(LocalBefore(k)) ELSE Cardinality(LocalBefore(k)) + 1
          /\ ~(k = k /\ l \in LocalEarly) => Cardinality(LocalBefore(k))' =
               IF t \in LocalBefore(k) THEN Cardinality(LocalBefore(k)) - 1 ELSE Cardinality(LocalBefore(k))
      BY <1>8, <2>1, LocalMoves
    <2>2. Cardinality(LocalBefore(k))' \in Nat BY <2>m
    <2>3. doing[t] \in LocalEarly /\ l \in LocalEarly
          => Cardinality(LocalBefore(k))' = Cardinality(LocalBefore(k))
      BY <1>4, <2>m
    <2>4. l \notin LocalEarly => Cardinality(LocalBefore(k))' =
            IF t \in LocalBefore(k) THEN Cardinality(LocalBefore(k)) - 1 ELSE Cardinality(LocalBefore(k))
      BY <2>m
    <2>5. doing[t] \in LocalEarly => Cardinality(LocalBefore(k)) > 0
      <3>1. doing[t] \in LocalEarly => LocalBefore(k) # {} BY <1>4
      <3> QED BY <1>4, <3>1, FS_EmptySet, FS_Subset, LocalTurnsFinite
        DEF LocalBefore, Local!ConstantsOK
    <2> QED BY <1>4, <2>2, <2>3, <2>4, <2>5
  <1>10. r = "none" => LocalOthers(t, k) /\ doing[t] = "asking"
    BY <1>1, <1>7, <1>p DEF LocalStreamOK, LocalOthers
  <1>9. request' = [request EXCEPT ![t] = k] <=> UNCHANGED request BY <1>2
  <1> DEFINE n == Cardinality(LocalBefore(k))
  \* The turn stores nothing, or the last of an ask, and is over.
  <1>11. ASSUME doing[t] # "answered", Local!Goto(t, "idle"), UNCHANGED <<Local!stored, excuses,
                  request, beside, deaths>>
         PROVE  LocalIInv'
    <2>1. doing' = [doing EXCEPT ![t] = "idle"]
          /\ UNCHANGED <<record, log, given, excuses, request, beside, deaths>>
      BY <1>11 DEF Local!Goto, Local!stored
    <2>c. /\ doing[t] \in LocalEarly => Cardinality(LocalBefore(k))' = n - 1 /\ n > 0
          /\ doing[t] \notin LocalEarly => Cardinality(LocalBefore(k))' = n
      <3>1. "idle" \notin LocalEarly BY DEF LocalEarly
      <3> QED BY <1>8, <2>1, <3>1
    <2>2. a + Cardinality(LocalBefore(k))' <= 1 + c BY <1>2, <1>4, <2>c
    <2>3. r = "none" => a <= c
      <3>1. r = "none" => doing[t] \in LocalEarly BY <1>10 DEF LocalEarly
      <3> QED BY <1>2, <1>4, <2>c, <3>1
    <2>4. /\ record' = [record EXCEPT ![k] = r] /\ log' = [log EXCEPT ![k] = g]
          /\ given' = [given EXCEPT ![k] = a] /\ excuses' = [excuses EXCEPT ![k] = c]
          /\ request' = [request EXCEPT ![t] = k]
          /\ beside' \in [LocalKeys -> 0..MaxOverlaps] /\ deaths' \in 0..LocalCrashes
      BY <1>2, <2>1
    <2>5. "idle" \in LocalPlaces /\ a >= a BY <1>2 DEF LocalPlaces
    <2>6. LocalMove(t, k, "idle", r, g, a, c) BY <2>1, <2>4 DEF LocalMove
    <2>7. LocalLeaves(t, k, "idle", r, g, a, c) BY <1>3, <1>p, <2>3, <2>5 DEF LocalLeaves
    <2> HIDE DEF LocalIInv
    <2> QED BY <1>1, <1>2, <2>2, <2>5, <2>6, <2>7, LocalTurnMoves
  \* It stores an answer.
  <1>12. ASSUME NEW l \in {"idle", "answered"}, doing[t] \in LocalEarly, Local!PersistResult(t),
                  Local!Goto(t, l),
                UNCHANGED <<excuses, request, beside, deaths>>,
                l = "idle" <=> doing[t] = "asking", l = "answered" => doing[t] = "streaming"
         PROVE  LocalIInv'
    <2> DEFINE s == IF r = "none" THEN "answered" ELSE r
    <2>1. /\ doing' = [doing EXCEPT ![t] = l] /\ UNCHANGED <<log, excuses, request, beside, deaths>>
          /\ given' = [given EXCEPT ![k] = a + 1] /\ record' = [record EXCEPT ![k] = s]
      BY <1>1, <1>2, <1>12, <1>p DEF Local!Goto, Local!PersistResult, Local!TypeOK
    <2>2. s \in LocalRecords /\ s # "none" /\ LocalLogOK(s, g, a + 1) /\ a + 1 \in Nat
          /\ a + 1 > 0 /\ a + 1 >= a
      BY <1>2, <1>3 DEF LocalRecords, LocalLogOK, Local!Ended
    <2>4. (a + 1) + Cardinality(LocalBefore(k))' <= 1 + c
      <3>2. l \notin LocalEarly BY <1>12 DEF LocalEarly
      <3>3. Cardinality(LocalBefore(k))' = n - 1 BY <1>8, <1>12, <2>1, <3>2
      <3> QED BY <1>2, <1>4, <3>3
    <2>5. LocalOthers(t, k) \/ s = r BY <1>10
    <2>6. l = "answered" => LocalOthers(t, k) /\ s = "streaming" BY <1>5, <1>6, <1>7, <1>12
    <2>7. /\ log' = [log EXCEPT ![k] = g] /\ excuses' = [excuses EXCEPT ![k] = c]
          /\ request' = [request EXCEPT ![t] = k]
          /\ beside' \in [LocalKeys -> 0..MaxOverlaps] /\ deaths' \in 0..LocalCrashes
      BY <1>2, <2>1
    <2>8. l \in LocalPlaces /\ (l = "idle" \/ l = "answered") BY DEF LocalPlaces
    <2> HIDE DEF LocalIInv, s
    <2>9. LocalMove(t, k, l, s, g, a + 1, c) BY <2>1, <2>7 DEF LocalMove
    <2>10. LocalLeaves(t, k, l, s, g, a + 1, c) BY <1>p, <2>2, <2>5, <2>6, <2>8 DEF LocalLeaves
    <2> QED BY <1>1, <1>2, <2>2, <2>4, <2>8, <2>9, <2>10, LocalTurnMoves
  \* It stores an event.
  <1>13. ASSUME NEW e \in Local!EventTypes, NEW s \in LocalRecords, NEW l \in LocalPlaces,
                  Local!Emit(t, e, s, l),
                doing[t] # "asking", Len(g) = 0 => e = "chat.started",
                \/ /\ s = "streaming" /\ e \notin LocalTerminal /\ l \in {"streaming", "finishing"}
                   /\ l = "finishing" => doing[t] = "answered" /\ e = "chat.usage"
                   /\ l = "streaming" => doing[t] \in {"starting", "streaming"}
                \/ s \in {"failed", "interrupted"} /\ e = "chat.failed" /\ l = "idle"
                \/ s = "completed" /\ e = "chat.completed" /\ doing[t] = "finishing" /\ l = "idle"
         PROVE  LocalIInv'
    <2>1. /\ doing' = [doing EXCEPT ![t] = l]
             /\ UNCHANGED <<given, excuses, request, beside, deaths>>
          /\ log' = [log EXCEPT ![k] = Append(g, e)] /\ record' = [record EXCEPT ![k] = s]
      BY <1>1, <1>2, <1>13, <1>p DEF Local!Emit, Local!Appended, Local!Goto, Local!TypeOK
    <2>2. r \in Local!InProgress BY <1>7, <1>13 DEF Local!InProgress
    <2>3. doing[t] = "finishing" => Len(g) > 0 /\ g[Len(g)] = "chat.usage" /\ a > 0
      <3>1. doing[t] = "finishing" => r = "streaming" BY <1>7
      <3>2. doing[t] = "finishing" => g[Len(g)] = "chat.usage" /\ a > 0
        BY <1>1, <1>5, <1>13, <1>p DEF LocalStreamOK
      <3> QED BY <1>3, <3>1, <3>2 DEF LocalLogOK
    <2>4. Append(g, e) \in Seq(Local!EventTypes) /\ LocalLogOK(s, Append(g, e), a)
      <3>1. a >= a BY <1>2
      <3> QED BY <1>2, <1>3, <1>13, <2>2, <2>3, <3>1, LocalLogGrows
    <2>5. l = "finishing" => a > 0 /\ Append(g, e)[Len(Append(g, e))] = "chat.usage"
      <3>1. l = "finishing" => doing[t] = "answered" /\ e = "chat.usage" BY <1>13
      <3>2. doing[t] = "answered" => a > 0 BY <1>1, <1>5, <1>13, <1>p DEF LocalStreamOK
      <3>3. Append(g, e)[Len(Append(g, e))] = e BY <1>2, <1>13
      <3> QED BY <3>1, <3>2, <3>3
    <2>6. a + Cardinality(LocalBefore(k))' <= 1 + c
      <3>1. l \in LocalEarly => doing[t] \in LocalEarly BY <1>13 DEF LocalEarly
      <3>2. Cardinality(LocalBefore(k))' \in Nat /\ Cardinality(LocalBefore(k))' <= n
        <4>1. \/ l \in LocalEarly /\ doing[t] \in LocalEarly
              \/ l \notin LocalEarly /\ doing[t] \in LocalEarly
              \/ l \notin LocalEarly /\ doing[t] \notin LocalEarly
          BY <3>1
        <4>2. Cardinality(LocalBefore(k))' = n \/ Cardinality(LocalBefore(k))' = n - 1
          BY <1>8, <2>1, <4>1
        <4>3. Cardinality(LocalBefore(k))' \in Nat BY <1>8, <2>1
        <4> QED BY <1>4, <4>2, <4>3
      <3> QED BY <1>2, <1>4, <3>2
    <2> HIDE DEF LocalIInv
    <2>7. LocalOthers(t, k) /\ s # "none" BY <1>5, <1>6, <1>13
    <2>8. LocalMove(t, k, l, s, Append(g, e), a, c)
      <3>1. given' = [given EXCEPT ![k] = a] /\ excuses' = [excuses EXCEPT ![k] = c]
            /\ request' = [request EXCEPT ![t] = k]
            /\ beside' \in [LocalKeys -> 0..MaxOverlaps] /\ deaths' \in 0..LocalCrashes
        BY <1>2, <2>1
      <3> QED BY <2>1, <3>1 DEF LocalMove
    <2>9. LocalLeaves(t, k, l, s, Append(g, e), a, c)
      <3>1. l = "idle" \/ (s = "streaming" /\ l \in {"streaming", "finishing"}) BY <1>13
      <3> QED BY <2>4, <2>5, <2>7, <3>1 DEF LocalLeaves
    <2> QED BY <1>1, <1>2, <1>13, <2>4, <2>6, <2>8, <2>9, LocalTurnMoves
  <1> HIDE DEF LocalIInv
  <1>14. CASE Local!Complete(t)
    <2>1. doing[t] = "asking" /\ Local!Goto(t, "idle")
          /\ UNCHANGED <<excuses, request, beside, deaths>>
          /\ (Local!PersistResult(t) \/ UNCHANGED Local!stored)
      BY <1>14 DEF Local!Complete
    <2>2. CASE UNCHANGED Local!stored BY <1>11, <2>1, <2>2
    <2>3. CASE Local!PersistResult(t)
      <3>1. "idle" \in {"idle", "answered"} /\ doing[t] \in LocalEarly BY <2>1 DEF LocalEarly
      <3> QED BY <1>12, <2>1, <2>3, <3>1
    <2> QED BY <2>1, <2>2, <2>3
  <1>15. CASE Local!Started(t)
    <2>1. doing[t] = "starting" /\ Local!Emit(t, "chat.started", "streaming", "streaming")
      BY <1>15 DEF Local!Started
    <2>2. "chat.started" \in Local!EventTypes /\ "streaming" \in LocalRecords
          /\ "streaming" \in LocalPlaces
          /\ "chat.started" \notin LocalTerminal
      BY DEF Local!EventTypes, LocalRecords, Local!InProgress, LocalPlaces, LocalTerminal
    <2> QED BY <1>13, <2>1, <2>2
  <1>16. ASSUME doing[t] = "streaming" \/ doing[t] = "answered" \/ doing[t] = "finishing"
         PROVE Len(g) # 0
    <2>1. r = "streaming" BY <1>7, <1>16
    <2> QED BY <1>2, <1>3, <2>1 DEF LocalLogOK
  <1>17. CASE Local!Delta(t)
    <2>1. doing[t] = "streaming" /\ Local!Emit(t, "chat.delta", "streaming", "streaming")
      BY <1>17 DEF Local!Delta
    <2>2. "chat.delta" \in Local!EventTypes /\ "streaming" \in LocalRecords
          /\ "streaming" \in LocalPlaces
          /\ "chat.delta" \notin LocalTerminal
      BY DEF Local!EventTypes, LocalRecords, Local!InProgress, LocalPlaces, LocalTerminal
    <2> QED BY <1>13, <1>16, <2>1, <2>2
  <1>18. CASE Local!StreamFails(t)
    <2>1. PICK s \in {"failed", "interrupted"} : doing[t] = "streaming"
               /\ Local!Emit(t, "chat.failed", s, "idle")
      BY <1>18 DEF Local!StreamFails
    <2>2. "chat.failed" \in Local!EventTypes /\ s \in LocalRecords /\ "idle" \in LocalPlaces
      BY DEF Local!EventTypes, LocalRecords, Local!Ended, LocalPlaces
    <2> QED BY <1>13, <1>16, <2>1, <2>2
  <1>19. CASE Local!Persist(t)
    <2>1. /\ doing[t] = "streaming" /\ Local!PersistResult(t) /\ Local!Goto(t, "answered")
          /\ UNCHANGED <<excuses, request, beside, deaths>>
      BY <1>19 DEF Local!Persist
    <2>2. "answered" \in {"idle", "answered"} /\ doing[t] \in LocalEarly BY <2>1 DEF LocalEarly
    <2> QED BY <1>12, <2>1, <2>2
  <1>20. CASE Local!Usage(t)
    <2>1. doing[t] = "answered" /\ Local!Emit(t, "chat.usage", "streaming", "finishing")
      BY <1>20 DEF Local!Usage
    <2>2. "chat.usage" \in Local!EventTypes /\ "streaming" \in LocalRecords
          /\ "finishing" \in LocalPlaces
          /\ "chat.usage" \notin LocalTerminal
      BY DEF Local!EventTypes, LocalRecords, Local!InProgress, LocalPlaces, LocalTerminal
    <2> QED BY <1>13, <1>16, <2>1, <2>2
  <1>21. CASE Local!Completed(t)
    <2>1. doing[t] = "finishing" /\ Local!Emit(t, "chat.completed", "completed", "idle")
      BY <1>21 DEF Local!Completed
    <2>2. "chat.completed" \in Local!EventTypes /\ "completed" \in LocalRecords
          /\ "idle" \in LocalPlaces
      BY DEF Local!EventTypes, LocalRecords, Local!Ended, LocalPlaces
    <2> QED BY <1>13, <1>16, <2>1, <2>2
  <1>22. CASE Local!GiveUp(t)
    <2>1. /\ doing[t] # "answered" /\ Local!Goto(t, "idle")
          /\ UNCHANGED <<Local!stored, excuses, request, beside, deaths>>
      BY <1>22 DEF Local!GiveUp
    <2> QED BY <1>11, <2>1
  <1> QED BY <1>14, <1>15, <1>17, <1>18, <1>19, <1>20, <1>21, <1>22 DEF Local!Step

\* A turn is let in.
LEMMA LocalBeginSteps ==
  ASSUME Local!ConstantsOK, LocalIInv, NEW t \in LocalTurns, NEW k \in LocalKeys, Local!Ask(t, k)
      \/ Local!Reserve(t, k)
  PROVE  LocalIInv'
  <1>p. PICK g, a, c, r : g = log[k] /\ a = given[k] /\ c = excuses[k] /\ r = record[k]
    OBVIOUS
  <1> USE DEF LocalIInv
  <1>1. /\ g \in Seq(Local!EventTypes) /\ a \in Nat /\ c \in Nat /\ r \in LocalRecords
           /\ c + 1 \in Nat
        /\ log = [log EXCEPT ![k] = g] /\ record = [record EXCEPT ![k] = r]
        /\ given = [given EXCEPT ![k] = a] /\ excuses = [excuses EXCEPT ![k] = c]
        /\ excuses[k] = c
    BY <1>p DEF Local!TypeOK, LocalRecords
  <1>2. PICK l \in {"asking", "starting"} :
            Local!Begin(t, k, l)
                /\ record' = [record EXCEPT ![k] = IF l = "asking" THEN r ELSE "reserved"]
    BY <1>1 DEF Local!Ask, Local!Reserve
  <1>3. doing[t] = "idle" /\ record[k] = "none" /\ r = "none" /\ UNCHANGED <<log, given, deaths>>
        /\ doing' = [doing EXCEPT ![t] = l] /\ request' = [request EXCEPT ![t] = k]
    BY <1>2, <1>p DEF Local!Begin, Local!Goto
  <1>4. LocalLogOK("none", g, a) /\ LocalLogOK("reserved", g, a)
    <2>1. LocalLogOK("none", g, a) BY <1>3, <1>p DEF LocalStreamOK
    <2> QED BY <2>1 DEF LocalLogOK, Local!Ended
  <1>5. \A u \in LocalTurns : ~LocalStreams(u, k) BY <1>3 DEF LocalStreamOK
  <1> DEFINE n == Cardinality(LocalBefore(k))
  <1>6. n \in Nat /\ a + n <= 1 + c
    BY <1>p, FS_Subset, LocalTurnsFinite, FS_CardinalityType DEF LocalCausesOK, LocalBefore,
        Local!ConstantsOK
  <1>7. Cardinality(LocalBefore(k))' = n + 1
    <2>1. t \notin LocalBefore(k) BY <1>3 DEF LocalBefore, LocalEarly
    <2>2. l \in LocalEarly BY DEF LocalEarly
    <2> QED BY <1>3, <2>1, <2>2, LocalMoves
  <1>8. \E d \in {c, c + 1} :
           /\ excuses' = [excuses EXCEPT ![k] = d] /\ a + (n + 1) <= 1 + d
           /\ beside' \in [LocalKeys -> 0..MaxOverlaps]
    <2>1. CASE \E u \in LocalTurns : Local!Working(u, k)
      <3>1. /\ excuses' = [excuses EXCEPT ![k] = c + 1] /\ beside[k] < MaxOverlaps
            /\ beside' = [beside EXCEPT ![k] = beside[k] + 1]
        BY <1>1, <1>2, <2>1 DEF Local!Begin, Local!Excuse
      <3>2. beside \in [LocalKeys -> 0..MaxOverlaps] /\ MaxOverlaps \in Nat
        BY DEF Local!TypeOK, Local!ConstantsOK
      <3>3. beside' \in [LocalKeys -> 0..MaxOverlaps] BY <3>1, <3>2
      <3>4. a + (n + 1) <= 1 + (c + 1) BY <1>1, <1>6
      <3> QED BY <3>1, <3>3, <3>4
    <2>2. CASE ~\E u \in LocalTurns : Local!Working(u, k)
      <3>1. UNCHANGED <<excuses, beside>> BY <1>2, <2>2 DEF Local!Begin
      <3>2. LocalBefore(k) = {} BY <2>2 DEF LocalBefore, Local!Working, LocalEarly
      <3>3. n = 0 BY <3>2, FS_EmptySet
      <3>4. a <= c BY <1>3, <1>p, <2>2 DEF LocalCausesOK
      <3>5. a + (n + 1) <= 1 + c BY <1>1, <3>3, <3>4
      <3> QED BY <1>1, <3>1, <3>5 DEF Local!TypeOK
    <2> QED BY <2>1, <2>2
  <1>9. PICK d \in {c, c + 1} :
           /\ excuses' = [excuses EXCEPT ![k] = d] /\ a + (n + 1) <= 1 + d
           /\ beside' \in [LocalKeys -> 0..MaxOverlaps]
    BY <1>8
  <1> DEFINE s == IF l = "asking" THEN r ELSE "reserved"
  <1>10. deaths \in 0..LocalCrashes BY DEF Local!TypeOK
  <1>11. l \in LocalPlaces /\ s \in LocalRecords /\ d \in Nat
    BY <1>1, <1>3 DEF LocalPlaces, LocalRecords, Local!InProgress
  <1> HIDE DEF LocalIInv
  <1>12. LocalMove(t, k, l, s, g, a, d)
    BY <1>1, <1>2, <1>3, <1>9, <1>10 DEF LocalMove
  <1>13. LocalLeaves(t, k, l, s, g, a, d)
    <2>1. a >= a BY <1>1
    <2> QED BY <1>3, <1>4, <1>5, <1>p, <2>1 DEF LocalLeaves, LocalOthers
  <1> HIDE DEF s
  <1>14. a + Cardinality(LocalBefore(k))' <= 1 + d BY <1>7, <1>9
  <1> QED BY <1>1, <1>3, <1>11, <1>12, <1>13, <1>14, LocalTurnMoves

\* The process dies.
LEMMA LocalCrashStep == ASSUME Local!ConstantsOK, LocalIInv, Local!Crash PROVE LocalIInv'
  <1> USE DEF LocalIInv
  <1>1. /\ doing' = [t \in LocalTurns |-> "idle"] /\ deaths < LocalCrashes /\ deaths' = deaths + 1
        /\ UNCHANGED <<record, log, request, beside>>
    BY DEF Local!Crash
  <1>2. \A k \in LocalKeys : LocalBefore(k)' = {} BY <1>1 DEF LocalBefore, LocalEarly
  <1>3. \A k \in LocalKeys : Cardinality(LocalBefore(k))' = 0 BY <1>2, FS_EmptySet
  <1>4. ASSUME NEW k \in LocalKeys
        PROVE  /\ given[k] \in Nat /\ excuses[k] \in Nat /\ given[k] + 0 <= 1 + excuses[k]
               /\ \A t \in LocalTurns : request[t] = k /\ doing[t] \in LocalEarly
                  => given[k] <= excuses[k]
               /\ record[k] = "none" => given[k] <= excuses[k]
    <2>1. given[k] \in Nat /\ excuses[k] \in Nat /\ Cardinality(LocalBefore(k)) \in Nat
          /\ given[k] + Cardinality(LocalBefore(k)) <= 1 + excuses[k] /\ IsFiniteSet(LocalBefore(k))
      BY FS_Subset, LocalTurnsFinite, FS_CardinalityType DEF Local!TypeOK, LocalCausesOK,
          LocalBefore, Local!ConstantsOK
    <2>2. ASSUME NEW t \in LocalTurns, request[t] = k, doing[t] \in LocalEarly
          PROVE given[k] <= excuses[k]
      <3>1. LocalBefore(k) # {} BY <2>2 DEF LocalBefore
      <3>2. Cardinality(LocalBefore(k)) # 0 BY <2>1, <3>1, FS_EmptySet
      <3> QED BY <2>1, <3>2
    <2>3. ASSUME record[k] = "none" PROVE given[k] <= excuses[k]
      <3>1. CASE \E t \in LocalTurns : request[t] = k /\ doing[t] \in LocalEarly BY <2>2, <3>1
      <3>2. CASE ~\E t \in LocalTurns : request[t] = k /\ doing[t] \in LocalEarly
        <4>1. \A t \in LocalTurns : ~Local!Working(t, k)
          <5> SUFFICES ASSUME NEW t \in LocalTurns, Local!Working(t, k) PROVE FALSE OBVIOUS
          <5>1. doing[t] \in {"answered", "finishing"}
            BY <3>2 DEF Local!Working, LocalEarly, Local!TypeOK
          <5>2. LocalStreams(t, k) BY <5>1 DEF LocalStreams
          <5> QED BY <2>3, <5>1, <5>2 DEF LocalStreamOK
        <4> QED BY <2>3, <4>1 DEF LocalCausesOK
      <3> QED BY <3>1, <3>2
    <2> QED BY <2>1, <2>2, <2>3
  <1>5. CASE UNCHANGED <<given, excuses>>
    <2>1. Local!TypeOK' BY <1>1, <1>5 DEF Local!TypeOK, Local!ConstantsOK
    <2>2. LocalKeysOK' BY <1>1 DEF LocalKeysOK
    <2>3. LocalCausesOK' BY <1>1, <1>3, <1>4, <1>5 DEF LocalCausesOK
    <2>4. \A k \in LocalKeys : LocalStreamOK(k)'
      BY <1>1, <1>5 DEF LocalStreamOK, LocalStreams, Local!Working
    <2> QED BY <2>1, <2>2, <2>3, <2>4
  <1>6. ASSUME NEW t \in LocalTurns, doing[t] \in {"asking", "streaming"},
               given' = [given EXCEPT ![request[t]] = @ + 1], Local!Excuse(request[t])
        PROVE  LocalIInv'
    <2>k. PICK k \in LocalKeys : request[t] = k BY <1>6 DEF LocalKeysOK
    <2>1. /\ given' = [given EXCEPT ![k] = given[k] + 1]
          /\ excuses' = [excuses EXCEPT ![k] = excuses[k] + 1]
      BY <1>6, <2>k DEF Local!Excuse
    <2>2. given[k] + 1 \in Nat /\ excuses[k] + 1 \in Nat /\ given[k] <= excuses[k]
      BY <1>4, <1>6, <2>k DEF LocalEarly
    <2>3. Local!TypeOK' BY <1>1, <2>1, <2>2 DEF Local!TypeOK, Local!ConstantsOK
    <2>4. LocalKeysOK' BY <1>1 DEF LocalKeysOK
    <2>5. \A j \in LocalKeys : /\ j = k => given'[j] = given[k] + 1 /\ excuses'[j] = excuses[k] + 1
                               /\ j # k => given'[j] = given[j] /\ excuses'[j] = excuses[j]
      BY <2>1 DEF Local!TypeOK
    <2>6. LocalCausesOK'
      <3> SUFFICES ASSUME NEW j \in LocalKeys
                   PROVE given'[j] + 0 <= 1 + excuses'[j]
                       /\ (record[j] = "none" => given'[j] <= excuses'[j])
        BY <1>1, <1>3 DEF LocalCausesOK
      <3>1. given[j] \in Nat /\ excuses[j] \in Nat /\ given[j] + 0 <= 1 + excuses[j]
            /\ (record[j] = "none" => given[j] <= excuses[j])
        BY <1>4
      <3>2. CASE j = k
        <4>1. given'[j] = given[k] + 1 /\ excuses'[j] = excuses[k] + 1 BY <2>5, <3>2
        <4>2. given[k] \in Nat /\ excuses[k] \in Nat /\ given[k] <= excuses[k] BY <1>4, <2>2
        <4> QED BY <4>1, <4>2
      <3>3. CASE j # k BY <2>5, <3>1, <3>3
      <3> QED BY <3>2, <3>3
    <2>7. \A j \in LocalKeys : LocalStreamOK(j)'
      <3> SUFFICES ASSUME NEW j \in LocalKeys PROVE LocalLogOK(record[j], log[j], given'[j])
        BY <1>1 DEF LocalStreamOK, LocalStreams, Local!Working
      <3>1. LocalLogOK(record[j], log[j], given[j]) BY DEF LocalStreamOK
      <3>2. given[j] \in Nat /\ (given'[j] = given[j] \/ given'[j] = given[j] + 1)
        <4>1. given[j] \in Nat BY <1>4
        <4>2. j = k => given'[j] = given[k] + 1 /\ given[k] = given[j] BY <2>5
        <4>3. j # k => given'[j] = given[j] BY <2>5
        <4> QED BY <4>1, <4>2, <4>3
      <3>3. given[j] > 0 => given'[j] > 0 BY <3>2
      <3> QED BY <3>1, <3>3 DEF LocalLogOK
    <2> QED BY <2>3, <2>4, <2>6, <2>7
  <1> QED BY <1>5, <1>6 DEF Local!Crash

LEMMA LocalNextIInv ==
  ASSUME Local!ConstantsOK, LocalIInv, [Local!Next]_(Local!vars) PROVE LocalIInv'
  <1>1. CASE UNCHANGED Local!vars
    <2>1. UNCHANGED <<record, log, given, excuses, doing, request, beside, deaths>>
      BY <1>1 DEF Local!vars, Local!stored
    <2>2. Local!TypeOK' /\ LocalKeysOK' /\ \A k \in LocalKeys : LocalStreamOK(k)'
      BY <2>1 DEF LocalIInv, Local!TypeOK, LocalKeysOK, LocalStreamOK, LocalStreams, Local!Working
    <2>3. \A k \in LocalKeys : LocalBefore(k)' = LocalBefore(k) BY <2>1 DEF LocalBefore
    <2>4. LocalCausesOK' BY <2>1, <2>3 DEF LocalIInv, LocalCausesOK, Local!Working
    <2> QED BY <2>2, <2>4 DEF LocalIInv
  <1>2. CASE \E k \in LocalKeys : Local!Cached(k) BY <1>1, <1>2 DEF Local!Cached
  <1> QED BY <1>1, <1>2, LocalStreamSteps, LocalBeginSteps, LocalCrashStep DEF Local!Next

LEMMA LocalIInvHolds == ASSUME Local!ConstantsOK PROVE Local!Spec => []LocalIInv
  BY LocalInitIInv, LocalNextIInv, PTL DEF Local!Spec

LEMMA LocalAnswersCaused == ASSUME Local!ConstantsOK, LocalIInv PROVE Local!AnswerNeedsCause
  <1> SUFFICES ASSUME NEW k \in LocalKeys PROVE given[k] <= 1 + excuses[k]
    BY DEF Local!AnswerNeedsCause
  <1>1. given[k] \in Nat /\ excuses[k] \in Nat /\ Cardinality(LocalBefore(k)) \in Nat
        /\ given[k] + Cardinality(LocalBefore(k)) <= 1 + excuses[k]
    BY FS_Subset, LocalTurnsFinite, FS_CardinalityType DEF LocalIInv, Local!TypeOK, LocalCausesOK,
        LocalBefore, Local!ConstantsOK
  <1> QED BY <1>1

LEMMA LocalStreamIsOne == ASSUME Local!ConstantsOK, LocalIInv PROVE Local!OneStream
  <1> SUFFICES ASSUME NEW k \in LocalKeys
               PROVE
        LET n == Len(log[k])
        IN  /\ \A t, u \in LocalTurns :
                 /\ Local!Working(t, k) /\ doing[t] # "asking"
                 /\ Local!Working(u, k) /\ doing[u] # "asking"
                 => t = u
            /\ n > 0 => log[k][1] = "chat.started"
            /\ \A i \in 1..n : log[k][i] \in {"chat.completed", "chat.failed"} => i = n
            /\ record[k] \in {"failed", "interrupted"}
                 <=> n > 0 /\ log[k][n] = "chat.failed"
            /\ record[k] = "completed" <=> n > 0 /\ log[k][n] = "chat.completed"
            /\ record[k] = "completed" => log[k][n - 1] = "chat.usage" /\ given[k] > 0
    BY DEF Local!OneStream
  <1>1. LocalStreamOK(k) /\ record[k] \in LocalRecords /\ log[k] \in Seq(Local!EventTypes)
    BY DEF LocalIInv, Local!TypeOK, LocalRecords
  <1> DEFINE n == Len(log[k])
  <1>2. n \in Nat /\ (n > 0 => n \in 1..n) BY <1>1
  <1>3. LocalLogOK(record[k], log[k], given[k]) BY <1>1 DEF LocalStreamOK
  <1>4. n > 0 /\ log[k][n] = "chat.failed" => record[k] \in {"failed", "interrupted"}
    BY <1>2, <1>3 DEF LocalLogOK, LocalTerminal, Local!Ended
  <1>5. n > 0 /\ log[k][n] = "chat.completed" => record[k] = "completed"
    BY <1>2, <1>3 DEF LocalLogOK, LocalTerminal, Local!Ended
  <1>6. n > 0 => log[k][1] = "chat.started"
    BY <1>1, <1>2, <1>3 DEF LocalLogOK, LocalRecords, Local!InProgress, Local!Ended
  <1> QED BY <1>1, <1>2, <1>3, <1>4, <1>5, <1>6 DEF LocalStreamOK, LocalStreams, LocalLogOK,
      LocalTerminal, Local!Ended

\* What a step leaves alone.
LocalFinal == \A k \in LocalKeys :
    /\ record[k] \in Local!Ended => UNCHANGED <<record[k], log[k]>>
    /\ record[k] # "none" => record'[k] # "none"

LEMMA LocalNextFinal ==
  ASSUME Local!ConstantsOK, LocalIInv, [Local!Next]_(Local!vars) PROVE LocalFinal
  <1> SUFFICES ASSUME NEW k \in LocalKeys
               PROVE  /\ record[k] \in Local!Ended => UNCHANGED <<record[k], log[k]>>
                      /\ record[k] # "none" => record'[k] # "none"
    BY DEF LocalFinal
  <1> DEFINE Goal == /\ record[k] \in Local!Ended => UNCHANGED <<record[k], log[k]>>
                     /\ record[k] # "none" => record'[k] # "none"
  <1>1. ASSUME UNCHANGED <<record, log>> PROVE Goal BY <1>1
  <1>2. ASSUME NEW t \in LocalTurns, doing[t] # "asking", doing[t] # "idle",
               record[request[t]] \notin Local!Ended, NEW e, NEW s, s # "none",
                     Local!Appended(t, e, s)
        PROVE  Goal
    BY <1>2 DEF Local!Appended, LocalIInv, Local!TypeOK
  <1>3. ASSUME NEW t \in LocalTurns, doing[t] # "asking", doing[t] # "idle"
        PROVE record[request[t]] \notin Local!Ended
    <2>1. request[t] \in LocalKeys /\ LocalStreams(t, request[t])
      BY <1>3 DEF LocalIInv, LocalKeysOK, LocalStreams, Local!Working
    <2> QED BY <2>1 DEF LocalIInv, LocalStreamOK, Local!Ended
  <1>4. ASSUME NEW t \in LocalTurns, NEW e, NEW s \in LocalRecords \ {"none"}, NEW l,
                 Local!Emit(t, e, s, l),
               doing[t] # "asking", doing[t] # "idle"
        PROVE  Goal
    BY <1>2, <1>3, <1>4 DEF Local!Emit
  <1>5. ASSUME NEW t \in LocalTurns, Local!PersistResult(t) PROVE Goal
    BY <1>5 DEF Local!PersistResult, LocalIInv, Local!TypeOK, Local!Ended
  <1>6. ASSUME NEW t \in LocalTurns, Local!Step(t) PROVE Goal
    <2>1. CASE Local!Complete(t) BY <1>1, <1>5, <2>1 DEF Local!Complete, Local!stored
    <2>2. CASE Local!Started(t) BY <1>4, <2>2 DEF Local!Started, LocalRecords, Local!InProgress
    <2>3. CASE Local!Delta(t) BY <1>4, <2>3 DEF Local!Delta, LocalRecords, Local!InProgress
    <2>4. CASE Local!StreamFails(t) BY <1>4, <2>4 DEF Local!StreamFails, LocalRecords, Local!Ended
    <2>5. CASE Local!Persist(t) BY <1>5, <2>5 DEF Local!Persist
    <2>6. CASE Local!Usage(t) BY <1>4, <2>6 DEF Local!Usage, LocalRecords, Local!InProgress
    <2>7. CASE Local!Completed(t) BY <1>4, <2>7 DEF Local!Completed, LocalRecords, Local!Ended
    <2> QED BY <1>6, <2>1, <2>2, <2>3, <2>4, <2>5, <2>6, <2>7 DEF Local!Step
  <1>7. ASSUME NEW t \in LocalTurns, NEW j \in LocalKeys, Local!Reserve(t, j) PROVE Goal
    BY <1>7 DEF Local!Reserve, Local!Begin, LocalIInv, Local!TypeOK, Local!Ended
  <1>8. ASSUME NEW t \in LocalTurns, NEW j \in LocalKeys, Local!Ask(t, j) PROVE Goal
    BY <1>1, <1>8 DEF Local!Ask, Local!Begin
  <1>9. ASSUME NEW t \in LocalTurns, Local!GiveUp(t) PROVE Goal
    BY <1>1, <1>9 DEF Local!GiveUp, Local!stored
  <1>10. CASE Local!Crash BY <1>1, <1>10 DEF Local!Crash
  <1>11. CASE UNCHANGED Local!vars \/ \E j \in LocalKeys : Local!Cached(j)
    BY <1>1, <1>11 DEF Local!vars, Local!stored, Local!Cached
  <1> QED BY <1>6, <1>7, <1>8, <1>9, <1>10, <1>11 DEF Local!Next

-----------------------------------------------------------------------------
(* The two deployments of Outbound *)

ReplicaThms == INSTANCE OutboundProofs WITH
    MaxMessages <- ReplicaMessages, Dispatchers <- Replicated, Lease <- SendLease,
    Overrun <- TRUE, RestartDelay <- 0,
    MaxCrashes <- SendCrashes, MaxErrors <- ReplicaErrors,
    MaxCancels <- SendCancels, MaxRequeues <- ReplicaRequeues,
    status <- rowStatus, pc <- at
SingleThms == INSTANCE OutboundProofs WITH
    MaxMessages <- SingleMessages, Dispatchers <- {Sender}, Lease <- SendLease,
    Overrun <- FALSE, RestartDelay <- SingleDelay,
    MaxCrashes <- SendCrashes, MaxErrors <- SingleErrors,
    MaxCancels <- SendCancels, MaxRequeues <- SingleRequeues,
    status <- rowStatus, pc <- at

\* Both deployments of Dialogue are the ones that OutboundProofs is about.
LEMMA ReplicasSame ==
  /\ Replicas!ConstantsOK => ReplicaThms!ConstantsOK
  /\ Replicas!Init <=> ReplicaThms!Init
  /\ [Replicas!Next]_(Replicas!vars) => [ReplicaThms!Next]_(ReplicaThms!vars)
  /\ ReplicaThms!TypeOK <=> Replicas!TypeOK
  /\ ReplicaThms!DuplicateNeedsCause <=> Replicas!DuplicateNeedsCause
  /\ ReplicaThms!SentWasDelivered <=> Replicas!SentWasDelivered
  <1>1. Replicas!ConstantsOK => ReplicaThms!ConstantsOK
    BY Zenon
    DEF Replicas!ConstantsOK, Replicas!IsFiniteSet, Replicas!Backoff, ReplicaThms!ConstantsOK,
        ReplicaThms!IsFiniteSet, ReplicaThms!Backoff
  <1>2. Replicas!Init <=> ReplicaThms!Init
    BY Zenon
    DEF Replicas!Init, Replicas!Messages, Replicas!NoMessage, ReplicaThms!Init,
        ReplicaThms!Messages, ReplicaThms!NoMessage
  <1>3. Replicas!Next => ReplicaThms!Next
    BY ZenonT(60)
    DEF Replicas!Backoff, Replicas!Messages, Replicas!NoMessage, Replicas!Reply, Replicas!rows,
        Replicas!loop, Replicas!bounds, Replicas!vars, Replicas!Ready, Replicas!Oldest,
        Replicas!Stale, Replicas!Holds, Replicas!Goto, Replicas!Excuse, Replicas!SetStatus,
        Replicas!SetFailed, Replicas!Create, Replicas!Start, Replicas!RecoverRow,
        Replicas!RunForever, Replicas!ClaimNext, Replicas!SendText, Replicas!Settle,
        Replicas!MarkSent, Replicas!MarkAmbiguous, Replicas!MarkFailed, Replicas!StoreRaises,
        Replicas!Crash, Replicas!Cancel, Replicas!Requeue, Replicas!Tick, Replicas!Step,
        Replicas!Next, ReplicaThms!Backoff, ReplicaThms!Messages, ReplicaThms!NoMessage,
        ReplicaThms!Reply, ReplicaThms!rows, ReplicaThms!loop, ReplicaThms!bounds,
        ReplicaThms!vars, ReplicaThms!Ready, ReplicaThms!Oldest, ReplicaThms!Stale,
        ReplicaThms!Holds, ReplicaThms!Goto, ReplicaThms!Excuse, ReplicaThms!SetStatus,
        ReplicaThms!SetFailed, ReplicaThms!Create, ReplicaThms!Start, ReplicaThms!RecoverRow,
        ReplicaThms!RunForever, ReplicaThms!ClaimNext, ReplicaThms!SendText,
        ReplicaThms!Settle, ReplicaThms!MarkSent, ReplicaThms!MarkAmbiguous,
        ReplicaThms!MarkFailed, ReplicaThms!StoreRaises, ReplicaThms!Crash, ReplicaThms!Cancel,
        ReplicaThms!Requeue, ReplicaThms!Tick, ReplicaThms!Step, ReplicaThms!Next
  <1>4. Replicas!vars = ReplicaThms!vars /\ Replicas!vars' = ReplicaThms!vars'
    BY Zenon
    DEF Replicas!vars, Replicas!rows, Replicas!loop, Replicas!bounds, ReplicaThms!vars,
        ReplicaThms!rows, ReplicaThms!loop, ReplicaThms!bounds
  <1>5. ReplicaThms!TypeOK <=> Replicas!TypeOK
    BY Zenon
    DEF Replicas!TypeOK, Replicas!Messages, Replicas!NoMessage, Replicas!Status,
        Replicas!Terminal, Replicas!Reply, ReplicaThms!TypeOK, ReplicaThms!Messages,
        ReplicaThms!NoMessage, ReplicaThms!Status, ReplicaThms!Terminal, ReplicaThms!Reply
  <1>6. ReplicaThms!DuplicateNeedsCause <=> Replicas!DuplicateNeedsCause
    BY Zenon
    DEF Replicas!DuplicateNeedsCause, Replicas!Messages, ReplicaThms!DuplicateNeedsCause,
        ReplicaThms!Messages
  <1>7. ReplicaThms!SentWasDelivered <=> Replicas!SentWasDelivered
    BY Zenon
    DEF Replicas!SentWasDelivered, Replicas!Messages, ReplicaThms!SentWasDelivered,
        ReplicaThms!Messages
  <1> QED BY <1>1, <1>2, <1>3, <1>4, <1>5, <1>6, <1>7

LEMMA SingleSame ==
  /\ Single!ConstantsOK => SingleThms!ConstantsOK
  /\ Single!Init <=> SingleThms!Init
  /\ [Single!Next]_(Single!vars) => [SingleThms!Next]_(SingleThms!vars)
  /\ SingleThms!TypeOK <=> Single!TypeOK
  <1>1. Single!ConstantsOK => SingleThms!ConstantsOK
    BY Zenon
    DEF Single!ConstantsOK, Single!IsFiniteSet, Single!Backoff, SingleThms!ConstantsOK,
        SingleThms!IsFiniteSet, SingleThms!Backoff
  <1>2. Single!Init <=> SingleThms!Init
    BY Zenon
    DEF Single!Init, Single!Messages, Single!NoMessage, SingleThms!Init, SingleThms!Messages,
        SingleThms!NoMessage
  <1>3. Single!Next => SingleThms!Next
    BY ZenonT(60)
    DEF Single!Backoff, Single!Messages, Single!NoMessage, Single!Reply, Single!rows,
        Single!loop, Single!bounds, Single!vars, Single!Ready, Single!Oldest, Single!Stale,
        Single!Holds, Single!Goto, Single!Excuse, Single!SetStatus, Single!SetFailed,
        Single!Create, Single!Start, Single!RecoverRow, Single!RunForever, Single!ClaimNext,
        Single!SendText, Single!Settle, Single!MarkSent, Single!MarkAmbiguous,
        Single!MarkFailed, Single!StoreRaises, Single!Crash, Single!Cancel, Single!Requeue,
        Single!Tick, Single!Step, Single!Next, SingleThms!Backoff, SingleThms!Messages,
        SingleThms!NoMessage, SingleThms!Reply, SingleThms!rows, SingleThms!loop,
        SingleThms!bounds, SingleThms!vars, SingleThms!Ready, SingleThms!Oldest,
        SingleThms!Stale, SingleThms!Holds, SingleThms!Goto, SingleThms!Excuse,
        SingleThms!SetStatus, SingleThms!SetFailed, SingleThms!Create, SingleThms!Start,
        SingleThms!RecoverRow, SingleThms!RunForever, SingleThms!ClaimNext,
        SingleThms!SendText, SingleThms!Settle, SingleThms!MarkSent, SingleThms!MarkAmbiguous,
        SingleThms!MarkFailed, SingleThms!StoreRaises, SingleThms!Crash, SingleThms!Cancel,
        SingleThms!Requeue, SingleThms!Tick, SingleThms!Step, SingleThms!Next
  <1>4. Single!vars = SingleThms!vars /\ Single!vars' = SingleThms!vars'
    BY Zenon
    DEF Single!vars, Single!rows, Single!loop, Single!bounds, SingleThms!vars, SingleThms!rows,
        SingleThms!loop, SingleThms!bounds
  <1>5. SingleThms!TypeOK <=> Single!TypeOK
    BY Zenon
    DEF Single!TypeOK, Single!Messages, Single!NoMessage, Single!Status, Single!Terminal,
        Single!Reply, SingleThms!TypeOK, SingleThms!Messages, SingleThms!NoMessage,
        SingleThms!Status, SingleThms!Terminal, SingleThms!Reply
  <1> QED BY <1>1, <1>2, <1>3, <1>4, <1>5

LEMMA ReplicasHold ==
  Replicas!Spec =>
    [](Replicas!TypeOK /\ Replicas!DuplicateNeedsCause /\ Replicas!SentWasDelivered)
  <1>0. ReplicaThms!ConstantsOK BY DialogueAssumption, ReplicasSame
  <1>1. ReplicaThms!Spec => []ReplicaThms!TypeOK BY <1>0, ReplicaThms!TypesHold
  <1>2. ReplicaThms!Spec => []ReplicaThms!DuplicateNeedsCause
    BY <1>0, ReplicaThms!DuplicateNeedsCauseHolds
  <1>3. ReplicaThms!Spec => []ReplicaThms!SentWasDelivered
    BY <1>0, ReplicaThms!SentWasDeliveredHolds
  <1> QED BY <1>1, <1>2, <1>3, ReplicasSame, PTL DEF Replicas!Spec, ReplicaThms!Spec

LEMMA SingleTypesHold == Single!Spec => []Single!TypeOK
  <1>0. SingleThms!ConstantsOK BY DialogueAssumption, SingleSame
  <1>1. SingleThms!Spec => []SingleThms!TypeOK BY <1>0, SingleThms!TypesHold
  <1> QED BY <1>1, SingleSame, PTL DEF Single!Spec, SingleThms!Spec

\* What a step of the single process leaves alone.
SingleFinal == \A m \in Single!Messages :
    /\ rowStatus[m] = "sent" => rowStatus'[m] = "sent"
    /\ rowStatus[m] = "ambiguous" /\ rowStatus'[m] # "ambiguous"
         => cancels' # cancels \/ requeues' # requeues

LEMMA SingleFinalHolds == Single!Spec => [][SingleFinal]_(Single!vars)
  <1>0. SingleThms!ConstantsOK BY DialogueAssumption, SingleSame
  <1>1. SingleThms!Init => SingleThms!RInv
    BY <1>0, SingleThms!InitIInv
    DEF SingleThms!RInv, SingleThms!InHandNotAtRest, SingleThms!Init, SingleThms!Busy,
        SingleThms!Reply
  <1>2. SingleThms!RInv /\ [SingleThms!Next]_(SingleThms!vars)
          => SingleThms!RInv' /\ SingleThms!ReconciledStep
    BY <1>0, SingleThms!NextRInv
  <1>3. SingleThms!ReconciledStep => SingleFinal
    BY Zenon DEF SingleThms!ReconciledStep, SingleFinal, SingleThms!Messages, Single!Messages
  <1> QED BY <1>1, <1>2, <1>3, SingleSame, PTL DEF Single!Spec

-----------------------------------------------------------------------------
(* The composition *)

\* A behaviour of Dialogue is one of ChatLease, also when its turns are the client's,
\* of ChatLocal, and of its deployment of Outbound.
LEMMA Moves ==
  ASSUME [AllNext]_allVars
  PROVE  /\ [Next]_vars /\ [Local!Next]_(Local!vars)
         /\ replicated => [Replicas!Next]_(Replicas!vars)
         /\ ~replicated => [Single!Next]_(Single!vars)
         /\ attended => [ClientNext]_<<vars, clientVars>>
         /\ ~attended => UNCHANGED clientVars
         /\ UNCHANGED deployment
  <1>1. UNCHANGED outboundVars => UNCHANGED Replicas!vars /\ UNCHANGED Single!vars
    BY DEF outboundVars, Replicas!vars, Replicas!rows, Replicas!loop, Replicas!bounds,
           Single!vars, Single!rows, Single!loop, Single!bounds
  <1>2. UNCHANGED localVars => UNCHANGED Local!vars BY DEF localVars, Local!vars, Local!stored
  <1>3. UNCHANGED allVars
          => UNCHANGED <<deployment, vars, clientVars, outboundVars, localVars>>
    BY DEF allVars
  <1>4. ClientNext => [Next]_vars BY DialogueAssumption, ClientIsNext
  <1> QED BY <1>1, <1>2, <1>3, <1>4
    DEF AllNext, OutboundNext, LocalNext, replicated, single, chatting, local, attended

THEOREM ClientUsesTurns == AllSpec => Spec
  <1>1. AllInit => Init BY DEF AllInit
  <1>2. [AllNext]_allVars => [Next]_vars BY Moves
  <1> QED BY <1>1, <1>2, PTL DEF AllSpec, Spec

LEMMA LocalIsLocal == AllSpec => Local!Spec
  <1>1. AllInit => Local!Init BY DEF AllInit
  <1>2. [AllNext]_allVars => [Local!Next]_(Local!vars) BY Moves
  <1> QED BY <1>1, <1>2, PTL DEF AllSpec, Local!Spec

LEMMA DeploymentStays ==
  AllSpec => (replicated /\ Replicas!Spec /\ []replicated)
               \/ (~replicated /\ Single!Spec /\ []~replicated)
  <1>1. AllInit => (replicated => Replicas!Init) /\ (~replicated => Single!Init) BY DEF AllInit
  <1>2. [AllNext]_allVars => /\ replicated => replicated' /\ [Replicas!Next]_(Replicas!vars)
                             /\ ~replicated => ~replicated' /\ [Single!Next]_(Single!vars)
    BY Moves DEF replicated
  <1> QED BY <1>1, <1>2, PTL DEF AllSpec, Replicas!Spec, Single!Spec

\* The client is at work, or has not begun.
ClientInv == IF attended THEN CInv ELSE ClientInit

LEMMA ClientInvHolds == AllSpec => [](IInv /\ ClientInv)
  <1>1. AllInit => IInv /\ ClientInv
    BY DialogueAssumption, InitIInv, InitCInv DEF AllInit, ClientInv
  <1>2. ASSUME IInv, ClientInv, [AllNext]_allVars PROVE IInv' /\ ClientInv'
    <2>1. IInv' BY <1>2, DialogueAssumption, Moves, NextIInv
    <2>2. CASE attended
      <3>1. [ClientNext]_<<vars, clientVars>> /\ attended' BY <1>2, <2>2, Moves DEF attended
      <3>2. CInv' BY <1>2, <2>2, <3>1, DialogueAssumption, NextCInv DEF ClientInv
      <3> QED BY <2>1, <3>1, <3>2 DEF ClientInv
    <2>3. CASE ~attended
      <3>1. UNCHANGED clientVars /\ ~attended' BY <1>2, <2>3, Moves DEF attended
      <3> QED BY <1>2, <2>1, <2>3, <3>1 DEF ClientInv, ClientInit, clientVars
    <2> QED BY <2>2, <2>3
  <1> QED BY <1>1, <1>2, PTL DEF AllSpec

\* A client that has not begun shows nothing.
LEMMA ClientFollows == IInv /\ ClientInv => ClientTypeOK /\ WholeAnswer
  <1> SUFFICES ASSUME IInv, ClientInv PROVE ClientTypeOK /\ WholeAnswer OBVIOUS
  <1>1. CASE attended
    BY <1>1, DialogueAssumption, WholeAnswerFollows DEF ClientInv, CInv
  <1>2. CASE ~attended
    <2>1. ClientInit BY <1>2 DEF ClientInv
    <2>2. << >> \in Seq(Int) BY EmptySeq
    <2>3. ClientTypeOK BY <2>1, <2>2 DEF ClientInit, ClientTypeOK
    <2>4. WholeAnswer BY <2>1 DEF ClientInit, WholeAnswer
    <2> QED BY <2>3, <2>4
  <1> QED BY <1>1, <1>2

LEMMA LocalHolds == AllSpec => []LocalIInv
  BY DialogueAssumption, LocalIInvHolds, LocalIsLocal, PTL

\* Every component has its types, for any number of messages, dispatchers, requests and
\* turns, and whatever the client has read.
THEOREM TypesOKHolds == AllSpec => []TypesOK
  <1>1. IInv => TypeOK BY DEF IInv
  <1>2. LocalIInv => Local!TypeOK BY DEF LocalIInv
  <1>3. /\ (replicated => Replicas!TypeOK) /\ (~replicated => Single!TypeOK)
        /\ Local!TypeOK /\ TypeOK /\ ClientTypeOK
        => TypesOK
    BY DEF TypesOK
  <1> QED BY <1>1, <1>2, <1>3, DeploymentStays, ReplicasHold, SingleTypesHold, LocalHolds,
             ClientInvHolds, ClientFollows, PTL

\* A provider accepts a message once, and a request is answered once, and once more at
\* most for each cause that is named.
THEOREM DuplicateNeedsCauseHolds == AllSpec => []DuplicateNeedsCause
  <1>1. LocalIInv => Local!AnswerNeedsCause BY DialogueAssumption, LocalAnswersCaused
  <1>2. /\ replicated => Replicas!DuplicateNeedsCause
        /\ Local!AnswerNeedsCause
        => DuplicateNeedsCause
    BY DEF DuplicateNeedsCause
  <1> QED BY <1>1, <1>2, DeploymentStays, ReplicasHold, LocalHolds, PTL

\* What is recorded as sent was delivered, a record of the chat without a database says
\* how its one stream ended, and what the client presents as complete is the whole answer.
THEOREM RecordedIsTrueHolds == AllSpec => []RecordedIsTrue
  <1>1. LocalIInv => Local!OneStream BY DialogueAssumption, LocalStreamIsOne
  <1>2. /\ replicated => Replicas!SentWasDelivered
        /\ Local!OneStream /\ WholeAnswer
        => RecordedIsTrue
    BY DEF RecordedIsTrue
  <1> QED BY <1>1, <1>2, DeploymentStays, ReplicasHold, LocalHolds, ClientInvHolds,
             ClientFollows, PTL

\* With one process "sent" is final and an ambiguous message is moved by the operator
\* alone; a stream of the chat without a database that has ended stays as it was.
THEOREM ReconciledHolds == AllSpec => Reconciled
  <1>1. LocalIInv /\ [AllNext]_allVars => LocalFinal
    BY DialogueAssumption, Moves, LocalNextFinal
  <1>2. (single => SingleFinal) /\ LocalFinal
          => /\ single => \A m \in Single!Messages :
                  /\ rowStatus[m] = "sent" => rowStatus'[m] = "sent"
                  /\ rowStatus[m] = "ambiguous" /\ rowStatus'[m] # "ambiguous"
                       => cancels' # cancels \/ requeues' # requeues
             /\ \A k \in LocalKeys :
                  /\ record[k] \in Local!Ended => UNCHANGED <<record[k], log[k]>>
                  /\ record[k] # "none" => record'[k] # "none"
    BY DEF SingleFinal, LocalFinal
  <1>3. single => ~replicated BY DEF single, replicated
  <1>4. UNCHANGED Single!vars => (single => SingleFinal)
    <2>1. UNCHANGED Single!vars => UNCHANGED rowStatus
      BY DEF Single!vars, Single!rows
    <2> QED BY <2>1 DEF SingleFinal
  <1> QED BY <1>1, <1>2, <1>3, <1>4, DeploymentStays, SingleFinalHolds, LocalHolds, PTL
    DEF AllSpec, Reconciled
=============================================================================
