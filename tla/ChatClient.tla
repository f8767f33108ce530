----------------------------- MODULE ChatClient -----------------------------
(***************************************************************************)
(* One message sent from the web client (web-admin-next: send in           *)
(* app/stream/StreamingWorkspace.tsx, over lib/api.ts and lib/sse.ts): a   *)
(* stream, one more that resumes it after the last event it has read, or   *)
(* an ask under the same idempotency key if it has read none.  Each is an  *)
(* HTTP request, hence a turn of ChatLease, which may go on by itself when *)
(* the client has turned away.                                             *)
(*                                                                         *)
(* An event is named by its number.  What a turn yields reaches the client *)
(* in order, by the queue of appsync/chat_routes.py and the connection.    *)
(***************************************************************************)
EXTENDS ChatLease, Sequences

CONSTANT Mine       \* the request of the client

ClientConstantsOK == Mine \in Keys

VARIABLES
    client,     \* what it does
    conn,       \* the turn it listens to
    arriving,   \* what that turn has yielded and the client has not read
    cursor,     \* lastEventId
    seen,       \* the events it shows
    resumed     \* reconnects = 1

clientVars == <<client, conn, arriving, cursor, seen, resumed>>

ClientInit ==
    /\ client = "new" /\ conn = NoTurn /\ arriving = << >>
    /\ cursor = 0 /\ seen = {} /\ resumed = FALSE

Listening == {"streaming", "completing", "asking"}
Over == {"complete", "answered", "failed", "stopped"}

\* What a turn yields besides the numbers of events.
End == 0
Error == -1
Answer == -2

----------------------------------------------------------------------------
(* What the client does *)

Send(t, m, does) ==
    /\ Reserve(t, Mine, m)
    /\ client' = does /\ conn' = t /\ arriving' = << >>
    /\ UNCHANGED <<cursor, seen, resumed>>

OpenStream(t) == client \in {"new", "resuming"} /\ Send(t, "stream", "streaming")
AskInstead(t) == client = "falling back" /\ Send(t, "ask", "asking")

\* An attempt is over without a result, with c as the last event id.
AttemptFails(c) ==
    /\ client' = IF client \in {"asking", "falling back"} THEN "failed"
                 ELSE IF c = 0 THEN "falling back"
                 ELSE IF resumed THEN "failed" ELSE "resuming"
    /\ resumed' = (resumed \/ client' = "resuming")
    /\ cursor' = c /\ conn' = NoTurn /\ arriving' = << >>
    /\ UNCHANGED <<seen, vars>>

\* 409: another turn holds the lease.
Busy ==
    /\ client \in {"new", "resuming", "falling back"}
    /\ status[Mine] \in Active /\ lease[Mine] > 0
    /\ AttemptFails(cursor)

\* The connection breaks; the turn finds that out later or never.
Break ==
    /\ client \in {"new", "resuming", "falling back"} \cup Listening
    /\ AttemptFails(cursor)

\* An ask cannot be aborted.
Stop ==
    /\ client \in {"streaming", "completing"}
    /\ client' = "stopped" /\ conn' = NoTurn /\ arriving' = << >>
    /\ UNCHANGED <<cursor, seen, resumed, vars>>

\* Mutant of Whole: a stream that ends is taken for complete.
WholeAnyway == TRUE

\* The stream was read to its end: has chat.completed been there?
Whole == client = "completing"

Arrived == client \in Listening /\ arriving # << >>

ReadEvent ==
    /\ Arrived /\ Head(arriving) > 0
    /\ LET i == Head(arriving)
           e == events[Mine][i]
       IN  IF e = "chat.failed"
           THEN AttemptFails(i)
           ELSE /\ cursor' = i /\ seen' = seen \cup {i}
                /\ client' = IF e = "chat.completed" THEN "completing" ELSE client
                /\ arriving' = Tail(arriving)
                /\ UNCHANGED <<conn, resumed, vars>>

ReadEnd ==
    /\ Arrived /\ Head(arriving) = End
    /\ IF Whole
       THEN /\ client' = "complete" /\ conn' = NoTurn /\ arriving' = << >>
            /\ UNCHANGED <<cursor, seen, resumed, vars>>
       ELSE AttemptFails(cursor)

\* An exception of the turn becomes a chat.failed that is stored nowhere, under
\* the number after the last one sent; where the process has died, none comes.
ReadError ==
    /\ Arrived /\ Head(arriving) = Error
    /\ AttemptFails(cursor) \/ (client # "asking" /\ AttemptFails(cursor + 1))

ReadAnswer ==
    /\ Arrived /\ Head(arriving) = Answer
    /\ client' = "answered" /\ conn' = NoTurn /\ arriving' = << >>
    /\ UNCHANGED <<cursor, seen, resumed, vars>>

----------------------------------------------------------------------------
(* What the turns do, and what of it the client is sent *)

Replay == SubSeq([i \in 1..Last(events[Mine]) |-> i], cursor + 1, Last(events[Mine]))

\* What a step of turn t yields: an event it has stored, the events of a settled
\* request, the end, an error.
Yield(t) ==
    LET stored == events' # events
        over == pc[t] # "idle" /\ pc'[t] = "idle"
    IN  IF mode[t] = "ask"
        THEN IF ~over THEN << >>
             ELSE IF status'[Mine] = "completed" THEN <<Answer>> ELSE <<Error>>
        ELSE IF pc[t] = "loading"
        THEN IF over THEN Replay \o <<End>> ELSE << >>
        ELSE (IF stored THEN <<seq[t]>> ELSE << >>)
             \o (IF over THEN <<IF stored THEN End ELSE Error>> ELSE << >>)

Sent(t, what) == arriving' = IF t = conn THEN arriving \o what ELSE arriving

----------------------------------------------------------------------------
Acts ==
    \/ \E t \in Turns : OpenStream(t) \/ AskInstead(t)
    \/ Busy \/ ReadEvent \/ ReadEnd \/ ReadError \/ ReadAnswer

Serving(A) == A /\ UNCHANGED <<client, conn, cursor, seen, resumed>>

\* A turn is interrupted where the client is gone.
TurnStep(t) ==
    /\ Step(t) /\ (t = conn => pc'[t] # "interrupting")
    /\ Sent(t, Yield(t))
\* The commit of chat.completed succeeds and its call raises.
CompletedReplyLost(t) == mode[t] = "stream" /\ Completed(t) /\ Sent(t, <<Error>>)
TurnStops(t) == Vanish(t) /\ Sent(t, <<Error>>)

Serve ==
    Serving(\/ \E t \in Turns :
                \/ TurnStep(t) \/ CompletedReplyLost(t) \/ TurnStops(t)
                \/ (Renew(t) \/ DeltaReplyLost(t)) /\ UNCHANGED arriving
            \/ Tick /\ UNCHANGED arriving)

\* The next message has a key of its own.
Rest == client \in Over /\ UNCHANGED <<clientVars, vars>>

ClientNext == Acts \/ Break \/ Stop \/ Serve \/ Rest

----------------------------------------------------------------------------
ClientTypeOK ==
    /\ client \in {"new", "resuming", "falling back"} \cup Listening \cup Over
    /\ conn \in Turns \cup {NoTurn} /\ arriving \in Seq(Int)
    /\ cursor \in Nat /\ seen \subseteq Nat /\ resumed \in BOOLEAN

\* What the client presents as complete is the whole of the one answer, although
\* it counts events that were never stored and skips their numbers when it
\* resumes, and although turns it has left behind go on: all the events of a
\* request that is completed, or, if it shows none, the message it asked for.
WholeAnswer ==
    /\ client \in {"completing", "complete"} =>
         status[Mine] = "completed" /\ seen = Numbers(Mine)
    /\ client = "answered" =>
         status[Mine] = "completed" /\ answers[Mine] = 1 /\ seen = {}

\* A message that was sent comes to an end, with an answer or without, whatever
\* becomes of its turns and connections: no attempt waits for what cannot come.
ClientRests == client = "new" ~> client \in Over
=============================================================================
