----------------------------- MODULE Proposals -----------------------------
(* One proposal of the governed self-improvement: a file in the directory   *)
(* of its status, and the operations that read it, work, and write it back  *)
(* (self_upgrade/governance.py, proposal/proposal_store.py,                 *)
(* state_machine.py, release/canary_release.py).                            *)
(*                                                                          *)
(* The gateway evaluates (and awaits the test runs between reading and      *)
(* writing), the command line evaluates, generates artifacts and records    *)
(* human feedback in processes of its own; nothing locks the files.  A file *)
(* is written in one piece.  Nothing in the code marks a proposal           *)
(* implemented, so that directory stays empty.                              *)
EXTENDS Integers, FiniteSets

CONSTANTS
    Evaluations,    \* calls of evaluate_proposal
    Generations,    \* calls of generate_artifact
    Reviews,        \* calls of record_human_feedback
    Decision        \* Decision[r]: "approved" or "rejected"

Calls == Evaluations \cup Generations \cup Reviews
Statuses == {"pending", "approved", "rejected"}

ConstantsOK ==
    /\ DOMAIN Decision = Reviews /\ \A r \in Reviews : Decision[r] \in {"approved", "rejected"}
    /\ Evaluations \cap Generations = {} /\ Evaluations \cap Reviews = {} /\ Generations \cap Reviews = {}

VARIABLES
    files,      \* the statuses in whose directory there is a file
    content,    \* content[s]: state, checks and human review in the file of status s
    canary,     \* canary_state.json has the proposal in the canary channel
    pc,         \* where each call is
    copy,       \* the proposal it read: content and status
    tests,      \* what the tests of an evaluation said
    decided,    \* history: reviews whose decision was written
    answers,    \* history: reviews that were acknowledged
    overlapped  \* history: two calls ran at one time, or one died

vars == <<files, content, canary, pc, copy, tests, decided, answers, overlapped>>

Fresh == [state |-> "PROPOSED", checks |-> "none", human |-> "none", from |-> "pending"]
Busy(c) == pc[c] \notin {"new", "done", "raised", "dead"}
Goto(c, s) == pc' = [pc EXCEPT ![c] = s]
End(c, s) == Goto(c, s) /\ copy' = [copy EXCEPT ![c] = Fresh]

States == {"PROPOSED", "RISK_CLASSIFIED", "ARTIFACT_GENERATED", "REGRESSION_TESTED",
           "SECURITY_TESTED", "HUMAN_REVIEW", "SHADOW_MODE", "CANARY", "BLOCKED"}
Contents == [state : States, checks : {"none", "ok", "failed"},
             human : {"none", "approved", "rejected"}, from : Statuses]

TypeOK ==
    /\ files \subseteq Statuses /\ content \in [Statuses -> Contents]
    /\ canary \in BOOLEAN
    /\ pc \in [Calls -> {"new", "testing", "tested", "saving", "moving", "removing", "reviewing",
                         "done", "raised", "dead"}]
    /\ copy \in [Calls -> Contents] /\ tests \in [Calls -> {"none", "ok", "failed"}]
    /\ decided \subseteq Reviews /\ answers \subseteq Reviews /\ overlapped \in BOOLEAN

Init ==
    /\ files = {"pending"} /\ content = [s \in Statuses |-> Fresh] /\ canary = FALSE
    /\ pc = [c \in Calls |-> "new"] /\ copy = [c \in Calls |-> Fresh]
    /\ tests = [c \in Calls |-> "none"]
    /\ decided = {} /\ answers = {} /\ overlapped = FALSE

----------------------------------------------------------------------------
\* The states in the order in which an evaluation goes through them.
PathTo(goal) == CASE
    goal = "HUMAN_REVIEW" -> {"PROPOSED", "RISK_CLASSIFIED", "ARTIFACT_GENERATED", "REGRESSION_TESTED",
                              "SECURITY_TESTED", "HUMAN_REVIEW"}
 [] goal = "CANARY" -> {"PROPOSED", "RISK_CLASSIFIED", "ARTIFACT_GENERATED", "REGRESSION_TESTED",
                        "SECURITY_TESTED", "SHADOW_MODE", "CANARY"}
 [] OTHER -> States

\* get looks through the directories in the order of a set: any file may be the one.
Get(c, s) ==
    /\ pc[c] = "new" /\ s \in files
    /\ copy' = [copy EXCEPT ![c] = [content[s] EXCEPT !.from = s]]
    /\ overlapped' = (overlapped \/ \E b \in Calls : Busy(b))

Write(s, record) ==
    /\ files' = files \cup {s}
    /\ content' = [content EXCEPT ![s] = [record EXCEPT !.from = s]]

\* generate_artifact: only from PROPOSED or RISK_CLASSIFIED.
Generate(c, s) ==
    /\ Get(c, s)
    /\ Goto(c, IF content[s].state \in {"PROPOSED", "RISK_CLASSIFIED"} THEN "saving" ELSE "raised")
    /\ UNCHANGED <<files, content, canary, tests, decided, answers>>
SaveArtifact(c) ==
    /\ c \in Generations /\ pc[c] = "saving"
    /\ Write(copy[c].from, [copy[c] EXCEPT !.state = "ARTIFACT_GENERATED"])
    /\ End(c, "done")
    /\ UNCHANGED <<canary, tests, decided, answers, overlapped>>

----------------------------------------------------------------------------
\* evaluate_proposal reads, runs the tests, ...
Evaluate(c, s) ==
    /\ Get(c, s)
    /\ Goto(c, "testing")
    /\ UNCHANGED <<files, content, canary, tests, decided, answers>>
Test(c, verdict) ==
    /\ pc[c] = "testing"
    /\ tests' = [tests EXCEPT ![c] = verdict] /\ Goto(c, "tested")
    /\ UNCHANGED <<files, content, canary, copy, decided, answers, overlapped>>

\* Mutant of MayCanary: what the tests said is not asked.
MayCanaryUntested(c) == TRUE
\* An owner may ask for a canary, which low risk and passed tests allow.
MayCanary(c) == tests[c] = "ok"

\* ... and enables the canary before it looks whether the state has a way there.
Decide(c, wanted) ==
    /\ pc[c] = "tested"
    /\ wanted => MayCanary(c)
    /\ canary' = (canary \/ wanted)
    /\ LET goal == IF wanted THEN "CANARY" ELSE IF tests[c] = "ok" THEN "HUMAN_REVIEW" ELSE "BLOCKED" IN
       IF copy[c].state = goal \/ copy[c].state \in PathTo(goal)
       THEN /\ copy' = [copy EXCEPT ![c] = [@ EXCEPT !.state = goal, !.checks = tests[c]]]
            /\ Goto(c, "saving")
       ELSE End(c, "raised")
    /\ UNCHANGED <<files, content, tests, decided, answers, overlapped>>

\* Mutant of SaveEvaluation: the proposal has one file, whatever its status is now.
SaveEvaluationAlone(c) ==
    /\ c \in Evaluations /\ pc[c] = "saving"
    /\ files' = {copy[c].from} /\ content' = [content EXCEPT ![copy[c].from] = copy[c]]
    /\ End(c, "done")
    /\ UNCHANGED <<canary, tests, decided, answers, overlapped>>
\* save writes to the directory of the status that was read.
SaveEvaluation(c) ==
    /\ c \in Evaluations /\ pc[c] = "saving"
    /\ Write(copy[c].from, copy[c])
    /\ End(c, "done")
    /\ UNCHANGED <<canary, tests, decided, answers, overlapped>>

----------------------------------------------------------------------------
\* record_human_feedback: transition reads, writes the file of the new status and
\* removes the one it read, then the review is saved with a second write.
Review(c, s) ==
    /\ Get(c, s)
    /\ Goto(c, "moving")
    /\ UNCHANGED <<files, content, canary, tests, decided, answers>>
Move(c) ==
    /\ pc[c] = "moving"
    /\ Write(Decision[c], copy[c])
    /\ decided' = decided \cup {c}
    /\ Goto(c, "removing")
    /\ UNCHANGED <<canary, copy, tests, answers, overlapped>>
Remove(c) ==
    /\ pc[c] = "removing"
    /\ files' = IF copy[c].from = Decision[c] THEN files ELSE files \ {copy[c].from}
    /\ Goto(c, "reviewing")
    /\ UNCHANGED <<content, canary, copy, tests, decided, answers, overlapped>>
SaveReview(c) ==
    /\ pc[c] = "reviewing"
    /\ Write(Decision[c], [copy[c] EXCEPT !.human = Decision[c]])
    /\ answers' = answers \cup {c}
    /\ End(c, "done")
    /\ UNCHANGED <<canary, tests, decided, overlapped>>

Die(c) ==
    /\ Busy(c) /\ End(c, "dead")
    /\ overlapped' = TRUE
    /\ UNCHANGED <<files, content, canary, tests, decided, answers>>

Next ==
    \/ \E s \in Statuses :
        \/ \E c \in Generations : Generate(c, s)
        \/ \E c \in Evaluations : Evaluate(c, s)
        \/ \E c \in Reviews : Review(c, s)
    \/ \E c \in Generations : SaveArtifact(c)
    \/ \E c \in Evaluations :
        \/ \E verdict \in {"ok", "failed"} : Test(c, verdict)
        \/ \E wanted \in BOOLEAN : Decide(c, wanted)
        \/ SaveEvaluation(c)
    \/ \E c \in Reviews : Move(c) \/ Remove(c) \/ SaveReview(c)
    \/ \E c \in Calls : Die(c)

Spec == Init /\ [][Next]_vars

----------------------------------------------------------------------------
\* A decision that was acknowledged is still there: whatever evaluations write late,
\* the file of the decision stays until another review takes it away.
DecisionKept ==
    \A r \in answers : Decision[r] \in files \/ \E q \in decided : q # r

\* The proposal is in one directory, and says there what was decided, unless two calls
\* overlapped or one died.
OneFile ==
    (~overlapped /\ \A c \in Calls : ~Busy(c)) =>
        /\ Cardinality(files) = 1
        /\ \A s \in files : s # "pending" => content[s].human = s

\* No file of the proposal is in CANARY, and no canary runs, but after tests that passed.
CanaryWasTested ==
    /\ canary => \E c \in Evaluations : tests[c] = "ok"
    /\ \A s \in files : content[s].state = "CANARY" => content[s].checks = "ok" /\ canary
=============================================================================
