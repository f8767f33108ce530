----------------------------- MODULE MCMessages -----------------------------
(***************************************************************************)
(* Dialogue on small instances, with the fairness its components assume.   *)
(***************************************************************************)
EXTENDS Dialogue

\* The fairness of Outbound, for the single process, and of ChatLease.
OfOutbound(A) == single /\ A /\ UNCHANGED <<deployment, vars, clientVars, localVars>>
OfChat(A) == chatting /\ A /\ UNCHANGED <<deployment, clientVars, outboundVars, localVars>>
OfClient(A) == attended /\ A /\ UNCHANGED <<deployment, outboundVars, localVars>>
AllFairness ==
    /\ WF_outboundVars(OfOutbound(Single!Step(Sender))) /\ WF_outboundVars(OfOutbound(Single!Tick))
    /\ \A t \in Turns :
         /\ WF_vars(OfChat(Step(t)))
         /\ WF_vars(OfChat(beat[t] = "late" /\ Renew(t)))
    /\ \A k \in Keys : WF_vars(OfChat(\E t \in Turns : Reserve(t, k, "stream")))
    /\ WF_vars(OfChat(Tick))
    /\ \A t \in Turns : WF_vars(OfClient(Serving(TurnStep(t))))
    /\ WF_<<vars, clientVars>>(OfClient(Acts))
AllLiveSpec == AllSpec /\ AllFairness

----------------------------------------------------------------------------
\* Every message comes to rest, and so does every chat request that is asked for, and
\* every client.
AllSettle ==
    /\ \A m \in Single!Messages :
        (single /\ rowStatus[m] # "none")
        ~> (single => rowStatus[m] \in Single!Terminal \cup {"ambiguous"})
    /\ (chatting => Settles) /\ (attended => ClientRests)
CancelledFinal == Single!CancelledFinal
=============================================================================
