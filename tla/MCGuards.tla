------------------------------ MODULE MCGuards ------------------------------
(* Guards on a small instance.                                              *)
EXTENDS Guards, TLC

\* Two processes; three deliveries of one event with two messages, two of them under
\* one nonce.
ProcessOf == "a1" :> "a" @@ "b1" :> "b"
DecisionOf == "yes" :> "approved" @@ "no" :> "rejected"
EventOf == [d \in {"v1", "v2", "v3"} |-> "e"]
NonceOf == "v1" :> "n" @@ "v2" :> "n" @@ "v3" :> "-"
MessagesOf == "e" :> 2
PayloadOf == "c1" :> "p" @@ "c2" :> "p" @@ "c3" :> "q"
ProfilesOf == <<"primary", "fallback">>
ClassOf == "q1" :> "agent" @@ "q2" :> "agent" @@ "q3" :> "chat" @@ "q4" :> "chat"
ClassLimits == "agent" :> 1 @@ "chat" :> 2
RateLimits == "ip" :> 3 @@ "path" :> 2 @@ "actor" :> 1
\* Two memories that contradict each other, of which one expires.
GoalsOf == <<"g", "g">>
AdviceOf == <<"x", "y">>
=============================================================================
