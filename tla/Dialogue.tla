------------------------------ MODULE Dialogue ------------------------------
(***************************************************************************)
(* What is said to people: ChatLease, and ChatClient, whose turns are      *)
(* ChatLease's; ChatLocal, the chat without a database; and Outbound, the  *)
(* messages to a channel, in two deployments: replicas whose sends may     *)
(* outlive the lease, and one process that is started again after the      *)
(* lease of what it left.  They share nothing, so one of the five, the     *)
(* deployment, moves in a behaviour.                                       *)
(***************************************************************************)
EXTENDS ChatClient

CONSTANTS
    Deployments,      \* the deployments that are considered
    MaxRetries, Base, SendLease,                        \* of both of Outbound
    Replicated, ReplicaMessages, ReplicaErrors,         \* of the replicas
    Sender, SingleMessages, SingleDelay, SingleErrors,  \* of the single process
    SendCrashes, SendCancels, ReplicaRequeues, SingleRequeues,      \* bounds
    LocalKeys, LocalTurns, LocalDeltas, MaxOverlaps, LocalCrashes   \* of ChatLocal

VARIABLES
    deployment,
    created, rowStatus, retryCount, wait, age, delivered, causes,   \* of Outbound
    at, msg, todo, downFor, crashes, errors, cancels, requeues,
    record, log, given, excuses, doing, request, beside, deaths      \* of ChatLocal

Replicas == INSTANCE Outbound WITH
    MaxMessages <- ReplicaMessages, Dispatchers <- Replicated, Lease <- SendLease,
    Overrun <- TRUE, RestartDelay <- 0,
    MaxCrashes <- SendCrashes, MaxErrors <- ReplicaErrors,
    MaxCancels <- SendCancels, MaxRequeues <- ReplicaRequeues,
    status <- rowStatus, pc <- at
Single == INSTANCE Outbound WITH
    MaxMessages <- SingleMessages, Dispatchers <- {Sender}, Lease <- SendLease,
    Overrun <- FALSE, RestartDelay <- SingleDelay,
    MaxCrashes <- SendCrashes, MaxErrors <- SingleErrors,
    MaxCancels <- SendCancels, MaxRequeues <- SingleRequeues,
    status <- rowStatus, pc <- at
Local == INSTANCE ChatLocal WITH
    Keys <- LocalKeys, Turns <- LocalTurns, MaxDeltas <- LocalDeltas, MaxCrashes <- LocalCrashes,
    overlaps <- beside, answers <- given, causes <- excuses, pc <- doing, key <- request,
    crashes <- deaths

ASSUME DialogueAssumption ==
    /\ ConstantsOK /\ ClientConstantsOK
    /\ Replicas!ConstantsOK /\ Single!ConstantsOK /\ Local!ConstantsOK

outboundVars == <<created, rowStatus, retryCount, wait, age, delivered, causes,
                  at, msg, todo, downFor, crashes, errors, cancels, requeues>>
localVars == <<record, log, given, excuses, doing, request, beside, deaths>>
replicated == deployment = "replicas"
single == deployment = "single"
chatting == deployment = "chat"
local == deployment = "local chat"
attended == deployment = "client"

AllInit ==
    /\ deployment \in Deployments
    /\ IF replicated THEN Replicas!Init ELSE Single!Init
    /\ Local!Init
    /\ Init /\ ClientInit

OutboundNext == (replicated /\ Replicas!Next) \/ (single /\ Single!Next)
LocalNext == local /\ Local!Next
AllNext ==
    /\ \/ OutboundNext /\ UNCHANGED <<vars, clientVars, localVars>>
       \/ LocalNext /\ UNCHANGED <<vars, clientVars, outboundVars>>
       \/ chatting /\ Next /\ UNCHANGED <<clientVars, outboundVars, localVars>>
       \/ attended /\ ClientNext /\ UNCHANGED <<outboundVars, localVars>>
    /\ UNCHANGED deployment

allVars == <<deployment, outboundVars, localVars, vars, clientVars>>
AllSpec == AllInit /\ [][AllNext]_allVars

----------------------------------------------------------------------------
\* Each property is stated, with the code it is about, in the module it names.
TypesOK == /\ IF replicated THEN Replicas!TypeOK ELSE Single!TypeOK
           /\ Local!TypeOK
           /\ TypeOK /\ ClientTypeOK
DuplicateNeedsCause == /\ replicated => Replicas!DuplicateNeedsCause
                       /\ Local!AnswerNeedsCause
\* What is recorded, or shown, as done has been done.
RecordedIsTrue == /\ replicated => Replicas!SentWasDelivered
                  /\ Local!OneStream
                  /\ WholeAnswer
\* Of one process only (of two replicas, the slow one may overwrite), and of the
\* streams of ChatLocal.
Reconciled ==
    [][/\ single => \A m \in Single!Messages :
            /\ rowStatus[m] = "sent" => rowStatus'[m] = "sent"
            /\ rowStatus[m] = "ambiguous" /\ rowStatus'[m] # "ambiguous"
                 => cancels' # cancels \/ requeues' # requeues
       /\ \A k \in LocalKeys :
            /\ record[k] \in Local!Ended => UNCHANGED <<record[k], log[k]>>
            /\ record[k] # "none" => record'[k] # "none"]_<<outboundVars, localVars>>
=============================================================================
