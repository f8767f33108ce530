------------------------------ MODULE ChatTurn ------------------------------
(***************************************************************************)
(* What a chat request promises its clients, whichever replicas serve it   *)
(* and however often it is sent: it is begun once, its stream only grows,  *)
(* it has at most one answer, and it settles once, with the event that     *)
(* ends its stream if it has one.  ChatLease implements this.              *)
(***************************************************************************)
EXTENDS Naturals, Sequences

CONSTANT Requests

VARIABLES
    phase,    \* of each request: "absent", "open", "completed" or "failed"
    log,      \* its stream of events
    answers   \* how many assistant messages it has

Init ==
    /\ phase = [k \in Requests |-> "absent"]
    /\ log = [k \in Requests |-> <<>>]
    /\ answers = [k \in Requests |-> 0]

Begin(k) ==
    /\ phase[k] = "absent"
    /\ phase' = [phase EXCEPT ![k] = "open"]
    /\ UNCHANGED <<log, answers>>

Emit(k, e) ==
    /\ phase[k] = "open"
    /\ log' = [log EXCEPT ![k] = Append(@, e)]
    /\ UNCHANGED <<phase, answers>>

Answer(k) ==
    /\ phase[k] = "open" /\ answers[k] = 0
    /\ answers' = [answers EXCEPT ![k] = 1]
    /\ UNCHANGED <<phase, log>>

\* The stream, if there is one, ends with an event that says how.
Close(k, p, e) ==
    /\ phase[k] = "open"
    /\ phase' = [phase EXCEPT ![k] = p]
    /\ \/ log' = [log EXCEPT ![k] = Append(@, e)]
       \/ log[k] = <<>> /\ UNCHANGED log

Complete(k) ==
    /\ Close(k, "completed", "chat.completed")
    /\ answers' = [answers EXCEPT ![k] = 1]

Fail(k) ==
    /\ Close(k, "failed", "chat.failed")
    /\ UNCHANGED answers

Next ==
    \E k \in Requests :
        \/ Begin(k) \/ Answer(k) \/ Complete(k) \/ Fail(k)
        \/ \E e \in {"chat.started", "chat.delta", "chat.usage"} : Emit(k, e)

Spec == Init /\ [][Next]_<<phase, log, answers>>
=============================================================================
