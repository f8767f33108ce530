----------------------------- MODULE MCAppSync -----------------------------
(* AppSync for TLC: who serves which call, in three deployments.  The calls *)
(* a and b change the same row; c makes a row that chat turns make too, or, *)
(* as a write of a project, a new event.                                    *)
EXTENDS AppSync, TLC

AB == "a" :> "x" @@ "b" :> "x"

\* Two gateways, without a project route.
SharedByTwo ==
    [home |-> "a" :> "g1" @@ "b" :> "g2" @@ "c" :> "g2", target |-> "c" :> "y" @@ AB, project |-> {}]
\* One gateway that also serves project routes.
ServedByOne ==
    [home |-> [c \in {"a", "b", "c"} |-> "g1"], target |-> "c" :> "e" @@ AB, project |-> {"c"}]
\* Two gateways, one of which serves a project route.
WithProjects ==
    [home |-> "a" :> "g1" @@ "b" :> "g2" @@ "c" :> "g1", target |-> "c" :> "e" @@ AB, project |-> {"c"}]

OneWriterDeployments == {SharedByTwo, ServedByOne}
AllDeployments == {SharedByTwo, ServedByOne, WithProjects}
=============================================================================
