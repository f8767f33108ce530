---------------------------- MODULE GuardsProofs ----------------------------
(***************************************************************************)
(* What TLAPS proves of Guards, for all values of its constants.  The      *)
(* components are proved one after the other, each from its own            *)
(* specification; Components says that Guards implements them all.         *)
(***************************************************************************)
EXTENDS UpkeepProofs

-----------------------------------------------------------------------------
(* Idempotency keys *)

\* The instance has the finite sets of this module.
LEMMA KeySameSets == ASSUME NEW S
  PROVE (Key!IsFiniteSet(S) <=> IsFiniteSet(S)) /\ Key!Cardinality(S) = Cardinality(S)
  BY Zenon DEF Key!IsFiniteSet, IsFiniteSet, Key!Cardinality, Cardinality

\* A request whose effect takes place, or has.
KeyClaimants == {c \in Callers : stage[c] = "calling" \/ c \in ran}

KeyRanOK == \A c \in Callers :
    /\ c \in ran => stage[c] \in {"acted", "answered", "gone"}
    /\ stage[c] \in {"acted", "answered"} => c \in ran

\* Each of them has a cause but the first one, and none lacks one while there is no row.
KeyCountOK ==
    /\ Cardinality(KeyClaimants) <= 1 + causes
    /\ record = "none" => Cardinality(KeyClaimants) <= causes

\* Before there is a cause: the row is that of the request that has the effect.
KeyFirstOK == causes = 0 =>
    /\ \A c \in KeyClaimants : record # "none" /\ hash = Payload[c]
    /\ record = "completed" => response \in ran
    /\ \A c \in Callers : answer[c] # NoCaller => answer[c] \in ran
       /\ Payload[c] = Payload[answer[c]]

KeyIInv == Key!TypeOK /\ KeyRanOK /\ KeyCountOK /\ KeyFirstOK

LEMMA KeyInitIInv == ASSUME Key!ConstantsOK, Key!Init PROVE KeyIInv
  <1>1. KeyClaimants = {} BY DEF Key!Init, KeyClaimants
  <1>2. Cardinality(KeyClaimants) = 0 BY <1>1, FS_EmptySet
  <1> QED BY <1>1, <1>2 DEF Key!ConstantsOK, Key!Init, KeyIInv, Key!TypeOK, KeyRanOK, KeyCountOK,
      KeyFirstOK, Key!InBegin

LEMMA KeyClaimantsFinite ==
  ASSUME Key!ConstantsOK PROVE IsFiniteSet(KeyClaimants) /\ Cardinality(KeyClaimants) \in Nat
  BY NoMore, KeySameSets DEF Key!ConstantsOK, KeyClaimants

\* A begin adds a request, to no row or with a cause.
LEMMA KeyClaimOK ==
  ASSUME Key!ConstantsOK, KeyIInv, UNCHANGED postgres, NEW c \in Callers, Key!Claim(c),
        stage[c] \in Key!InBegin \cup {"idle"},
         record # "none" => Key!GivesWay(c)
  PROVE  KeyIInv'
  <1> USE DEF Key!ConstantsOK, KeyIInv
  <1>1. Key!TypeOK' BY DEF Key!TypeOK, Key!Claim, Key!Goto, Key!InBegin
  <1>2. KeyRanOK' BY DEF KeyRanOK, Key!Claim, Key!Goto, Key!TypeOK, Key!InBegin
  <1>3. KeyClaimants' \subseteq KeyClaimants \cup {c}
    BY DEF KeyClaimants, Key!Claim, Key!Goto, Key!TypeOK
  <1>4. Cardinality(KeyClaimants') <= Cardinality(KeyClaimants) + 1
        /\ Cardinality(KeyClaimants') \in Nat
    BY <1>3, KeyClaimantsFinite, OneMore
  <1>5. KeyCountOK'
    <2>1. causes' = causes + (IF Key!GivesWay(c) THEN 1 ELSE 0) /\ record' = "running"
          /\ causes \in Nat
      BY DEF Key!Claim, Key!TypeOK
    <2>2. CASE Key!GivesWay(c) BY <2>1, <2>2, <1>4, KeyClaimantsFinite DEF KeyCountOK
    <2>3. CASE ~Key!GivesWay(c) BY <2>1, <2>3, <1>4, KeyClaimantsFinite DEF KeyCountOK
    <2> QED BY <2>2, <2>3
  <1>6. KeyFirstOK'
    <2>1. CASE causes' = 0
      <3>1. causes = 0 /\ record = "none" BY <2>1 DEF Key!Claim, Key!TypeOK
      <3>2. KeyClaimants = {} BY <3>1, KeyClaimantsFinite, FS_EmptySet DEF KeyCountOK
      <3>3. KeyClaimants' \subseteq {c} BY <1>3, <3>2
      <3> QED BY <3>1, <3>3 DEF KeyFirstOK, Key!Claim
    <2> QED BY <2>1 DEF KeyFirstOK
  <1> QED BY <1>1, <1>2, <1>5, <1>6

\* A step that adds no claimant and, at most, removes a row with a cause.
LEMMA KeyFewerOK ==
  ASSUME Key!ConstantsOK, KeyCountOK, KeyClaimants' \subseteq KeyClaimants, causes \in Nat,
        causes' \in Nat, causes' >= causes,
         record' = "none" => record = "none" \/ causes' > causes
  PROVE  KeyCountOK'
  <1>1. Cardinality(KeyClaimants') <= Cardinality(KeyClaimants)
        /\ Cardinality(KeyClaimants') \in Nat
    BY KeyClaimantsFinite, NoMore
  <1> QED BY <1>1, KeyClaimantsFinite DEF KeyCountOK

LEMMA KeyAnswerOK ==
  ASSUME Key!ConstantsOK, KeyIInv, UNCHANGED postgres, NEW c \in Callers, Key!AnswerFromRow(c),
        stage[c] \in Key!InBegin \cup {"idle"}
  PROVE  KeyIInv'
  <1> USE DEF Key!ConstantsOK, KeyIInv
  <1>0. UNCHANGED <<record, hash, response, left, ran, causes>> BY DEF Key!AnswerFromRow, Key!row
  <1>1. Key!TypeOK' BY <1>0 DEF Key!TypeOK, Key!AnswerFromRow, Key!Goto, Key!Ended
  <1>2. KeyRanOK' BY <1>0 DEF KeyRanOK, Key!AnswerFromRow, Key!Goto, Key!TypeOK, Key!InBegin
  <1>3. KeyClaimants' = KeyClaimants
    BY <1>0, <1>2 DEF KeyClaimants, Key!AnswerFromRow, Key!Goto, Key!TypeOK, Key!InBegin
  <1>4. KeyCountOK' BY <1>0, <1>3, KeyFewerOK DEF Key!TypeOK
  <1>5. KeyFirstOK'
    <2>1. CASE record = "completed" /\ hash = Payload[c]
      <3>1. answer' = [answer EXCEPT ![c] = response] BY <2>1 DEF Key!AnswerFromRow
      <3>2. causes = 0 => response \in KeyClaimants /\ response \in ran
        BY <2>1 DEF KeyFirstOK, KeyClaimants, Key!TypeOK
      <3> QED BY <1>0, <1>3, <2>1, <3>1, <3>2 DEF KeyFirstOK, Key!TypeOK
    <2>2. CASE ~(record = "completed" /\ hash = Payload[c])
      <3>1. UNCHANGED answer BY <2>2 DEF Key!AnswerFromRow
      <3> QED BY <1>0, <1>3, <3>1 DEF KeyFirstOK
    <2> QED BY <2>1, <2>2
  <1> QED BY <1>1, <1>2, <1>4, <1>5

\* A step of the stores that changes where requests are, and no row but to remove it.
LEMMA KeyMovesOK ==
  ASSUME Key!ConstantsOK, KeyIInv, Key!TypeOK', KeyRanOK', KeyClaimants' \subseteq KeyClaimants,
        UNCHANGED <<ran, answer>>,
         causes' >= causes, record' \in {record, "none"},
         record' = "none" => record = "none" \/ causes' > causes,
         record' = record => UNCHANGED <<hash, response>>
  PROVE  KeyIInv'
  <1>1. KeyCountOK' BY KeyFewerOK DEF KeyIInv, Key!TypeOK
  <1>2. KeyFirstOK' BY DEF KeyIInv, KeyFirstOK, Key!TypeOK
  <1> QED BY <1>1, <1>2 DEF KeyIInv

LEMMA KeyNextIInv == ASSUME Key!ConstantsOK, KeyIInv, [Key!Next]_(Key!vars) PROVE KeyIInv'
  <1> USE DEF Key!ConstantsOK, KeyIInv
  <1>0. CASE UNCHANGED Key!vars
    BY <1>0 DEF Key!vars, Key!TypeOK, KeyRanOK, KeyCountOK, KeyFirstOK, KeyClaimants
  <1> SUFFICES ASSUME Key!Next PROVE KeyIInv'
    BY <1>0
  <1>p. UNCHANGED postgres BY DEF Key!Next
  <1>1. ASSUME NEW c \in Callers, Key!Begin(c) PROVE KeyIInv'
    <2>1. CASE Key!Held BY <1>p, <1>1, <2>1, KeyAnswerOK DEF Key!Begin
    <2>2. CASE ~Key!Held
      BY <1>p, <1>1, <2>2, KeyClaimOK DEF Key!Begin, Key!Held, Key!GivesWay, Key!TypeOK
    <2> QED BY <2>1, <2>2
  <1>2. ASSUME NEW c \in Callers, Key!List(c) \/ Key!Leave(c) PROVE KeyIInv'
    <2> USE <1>p, <1>2 DEF Key!List, Key!Leave, Key!Goto, Key!row
    <2>1. Key!TypeOK' BY DEF Key!TypeOK, Key!InBegin, Key!Ended
    <2>2. KeyRanOK' BY DEF KeyRanOK, Key!TypeOK
    <2>3. KeyClaimants' \subseteq KeyClaimants BY DEF KeyClaimants, Key!TypeOK
    <2> QED BY <2>1, <2>2, <2>3, KeyMovesOK DEF Key!TypeOK
  <1>3. ASSUME NEW c \in Callers, Key!Delete(c) PROVE KeyIInv'
    <2> USE <1>p, <1>3 DEF Key!Delete, Key!Goto
    <2>1. Key!TypeOK' BY DEF Key!TypeOK, Key!InBegin
    <2>2. KeyRanOK' BY DEF KeyRanOK, Key!TypeOK
    <2>3. KeyClaimants' \subseteq KeyClaimants BY DEF KeyClaimants, Key!TypeOK
    <2> QED BY <2>1, <2>2, <2>3, KeyMovesOK DEF Key!TypeOK
  <1>4. ASSUME NEW c \in Callers, Key!InsertOnce(c) PROVE KeyIInv'
    <2>1. CASE record = "none" /\ Key!Claim(c)
      BY <1>p, <1>4, <2>1, KeyClaimOK DEF Key!InsertOnce, Key!InBegin
    <2>2. CASE record # "none" /\ Key!Goto(c, "reading")
               /\ UNCHANGED <<Key!row, answer, ran, causes>>
      <3> USE <1>p, <1>4, <2>2 DEF Key!InsertOnce, Key!Goto, Key!row
      <3>1. Key!TypeOK' BY DEF Key!TypeOK, Key!InBegin
      <3>2. KeyRanOK' BY DEF KeyRanOK, Key!TypeOK
      <3>3. KeyClaimants' \subseteq KeyClaimants BY DEF KeyClaimants, Key!TypeOK
      <3> QED BY <3>1, <3>2, <3>3, KeyMovesOK DEF Key!TypeOK
    <2> QED BY <1>4, <2>1, <2>2 DEF Key!InsertOnce
  <1>5. ASSUME NEW c \in Callers, Key!Read(c) PROVE KeyIInv'
    <2>1. CASE Key!Held /\ Key!AnswerFromRow(c)
      BY <1>p, <1>5, <2>1, KeyAnswerOK DEF Key!Read, Key!InBegin
    <2>2. CASE Key!Goto(c, "putting") /\ UNCHANGED <<Key!row, answer, ran, causes>>
      <3> USE <1>p, <1>5, <2>2 DEF Key!Read, Key!Goto, Key!row
      <3>1. Key!TypeOK' BY DEF Key!TypeOK, Key!InBegin
      <3>2. KeyRanOK' BY DEF KeyRanOK, Key!TypeOK
      <3>3. KeyClaimants' \subseteq KeyClaimants BY DEF KeyClaimants, Key!TypeOK
      <3> QED BY <3>1, <3>2, <3>3, KeyMovesOK DEF Key!TypeOK
    <2> QED BY <1>5, <2>1, <2>2 DEF Key!Read
  <1>6. ASSUME NEW c \in Callers, Key!Put(c) PROVE KeyIInv'
    BY <1>p, <1>6, KeyClaimOK DEF Key!Put, Key!InBegin, Key!GivesWay
  <1>7. ASSUME NEW c \in Callers, Key!Effect(c) PROVE KeyIInv'
    <2> USE <1>p, <1>7 DEF Key!Effect, Key!Goto, Key!row
    <2>1. Key!TypeOK' BY DEF Key!TypeOK
    <2>2. KeyRanOK' BY DEF KeyRanOK, Key!TypeOK
    <2>3. KeyClaimants' \subseteq KeyClaimants BY DEF KeyClaimants, Key!TypeOK
    <2>4. KeyCountOK' BY <2>3, KeyFewerOK DEF Key!TypeOK
    <2>5. KeyFirstOK' BY <2>3 DEF KeyFirstOK
    <2> QED BY <2>1, <2>2, <2>4, <2>5
  <1>8. ASSUME NEW c \in Callers, Key!Complete(c) PROVE KeyIInv'
    <2>1. Key!TypeOK' BY <1>p, <1>8 DEF Key!Complete, Key!Goto, Key!TypeOK, Key!Ended
    <2>2. KeyRanOK' BY <1>p, <1>8 DEF Key!Complete, Key!Goto, KeyRanOK, Key!TypeOK
    <2>3. KeyClaimants' \subseteq KeyClaimants
      BY <1>8 DEF Key!Complete, Key!Goto, KeyClaimants, Key!TypeOK
    <2>4. KeyCountOK' BY <1>8, <2>3, KeyFewerOK DEF Key!TypeOK, Key!Complete
    <2>5. c \in ran /\ c \in KeyClaimants BY <1>8 DEF Key!Complete, KeyRanOK, KeyClaimants
    <2>6. KeyFirstOK'
      <3>1. answer' = [answer EXCEPT ![c] = c] /\ UNCHANGED <<hash, ran, causes>> /\ c # NoCaller
        BY <1>8 DEF Key!Complete
      <3>2. \/ record' = "completed" /\ response' = c /\ record # "none"
            \/ record' = record /\ response' = response
        BY <1>8 DEF Key!Complete
      <3>3. causes = 0 => response' \in ran \/ record' # "completed" BY <2>5, <3>2 DEF KeyFirstOK
      <3>4. causes = 0 => \A d \in KeyClaimants : record' # "none" /\ hash = Payload[d]
        BY <3>2 DEF KeyFirstOK
      <3>5. causes = 0 => \A d \in Callers : answer'[d] # NoCaller =>
              answer'[d] \in ran /\ Payload[d] = Payload[answer'[d]]
        BY <2>5, <3>1 DEF KeyFirstOK, Key!TypeOK
      <3> QED BY <2>3, <3>1, <3>3, <3>4, <3>5 DEF KeyFirstOK
    <2> QED BY <2>1, <2>2, <2>4, <2>6
  <1>9. ASSUME NEW c \in Callers, Key!Fail(c) PROVE KeyIInv'
    <2> USE <1>p, <1>9 DEF Key!Fail, Key!Goto
    <2>1. Key!TypeOK' BY DEF Key!TypeOK, Key!Ended
    <2>2. KeyRanOK' BY DEF KeyRanOK, Key!TypeOK
    <2>3. c \in KeyClaimants /\ KeyClaimants' \subseteq KeyClaimants \ {c}
      BY DEF KeyClaimants, Key!TypeOK, KeyRanOK
    <2>4. Cardinality(KeyClaimants') <= Cardinality(KeyClaimants) - 1
          /\ Cardinality(KeyClaimants') \in Nat
      BY <2>3, KeyClaimantsFinite, OneLess
    <2>5. KeyCountOK' BY <2>4, KeyClaimantsFinite DEF KeyCountOK, Key!TypeOK
    <2>6. KeyFirstOK'
      <3>1. causes = 0 => KeyClaimants' = {} /\ ran = {}
        <4> SUFFICES ASSUME causes = 0 PROVE KeyClaimants' = {} /\ ran = {}
          OBVIOUS
        <4>1. Cardinality(KeyClaimants') = 0 BY <2>4, KeyClaimantsFinite DEF KeyCountOK
        <4>2. KeyClaimants' = {} BY <4>1, <2>3, KeyClaimantsFinite, NoMore, FS_EmptySet
        <4>3. ran \subseteq KeyClaimants' BY DEF KeyClaimants, Key!TypeOK
        <4> QED BY <4>2, <4>3
      <3> QED BY <3>1 DEF KeyFirstOK
    <2> QED BY <2>1, <2>2, <2>5, <2>6
  <1>10. ASSUME NEW c \in Callers, Key!Vanish(c) PROVE KeyIInv'
    <2> USE <1>p, <1>10 DEF Key!Vanish, Key!Goto, Key!row
    <2>1. Key!TypeOK' BY DEF Key!TypeOK, Key!Ended
    <2>2. KeyRanOK' BY DEF KeyRanOK, Key!TypeOK
    <2>3. KeyClaimants' \subseteq KeyClaimants BY DEF KeyClaimants, Key!TypeOK
    <2> QED BY <2>1, <2>2, <2>3, KeyMovesOK DEF Key!TypeOK
  <1>11. CASE Key!Stats
    <2> USE <1>p, <1>11 DEF Key!Stats, Key!Expired
    <2>1. Key!TypeOK' BY DEF Key!TypeOK
    <2>2. KeyRanOK' BY DEF KeyRanOK, Key!TypeOK
    <2>3. KeyClaimants' \subseteq KeyClaimants BY DEF KeyClaimants, Key!TypeOK
    <2> QED BY <2>1, <2>2, <2>3, KeyMovesOK DEF Key!TypeOK
  <1>12. CASE Key!Tick
    <2> USE <1>p, <1>12 DEF Key!Tick
    <2>1. Key!TypeOK' BY DEF Key!TypeOK
    <2>2. KeyRanOK' BY DEF KeyRanOK, Key!TypeOK
    <2>3. KeyClaimants' \subseteq KeyClaimants BY DEF KeyClaimants, Key!TypeOK
    <2> QED BY <2>1, <2>2, <2>3, KeyMovesOK DEF Key!TypeOK
  <1> QED BY <1>1, <1>2, <1>3, <1>4, <1>5, <1>6, <1>7, <1>8, <1>9, <1>10, <1>11, <1>12 DEF Key!Next

LEMMA KeyIInvHolds == ASSUME Key!ConstantsOK PROVE Key!Spec => []KeyIInv
  <1>1. Key!Init => KeyIInv BY KeyInitIInv
  <1>2. KeyIInv /\ [Key!Next]_(Key!vars) => KeyIInv' BY KeyNextIInv
  <1> QED BY <1>1, <1>2, PTL DEF Key!Spec

LEMMA KeyEffectCaused ==
  ASSUME Key!ConstantsOK, KeyIInv PROVE Key!EffectNeedsCause /\ Key!ReplayIsFirst
  <1> USE DEF Key!ConstantsOK, KeyIInv
  <1>1. ran \subseteq KeyClaimants BY DEF Key!TypeOK, KeyClaimants
  <1>2. Key!EffectNeedsCause
    BY <1>1, KeyClaimantsFinite, NoMore, KeySameSets DEF Key!EffectNeedsCause, KeyCountOK,
        Key!TypeOK
  <1>3. Key!ReplayIsFirst
    <2> SUFFICES ASSUME causes = 0, NEW c \in Callers, answer[c] # NoCaller
                 PROVE  ran = {answer[c]} /\ Payload[c] = Payload[answer[c]]
      BY DEF Key!ReplayIsFirst
    <2>1. answer[c] \in ran /\ Payload[c] = Payload[answer[c]] BY DEF KeyFirstOK
    <2>2. Cardinality(KeyClaimants) <= 1 BY DEF KeyCountOK
    <2>3. \A d \in ran : d = answer[c] BY <1>1, <2>1, <2>2, KeyClaimantsFinite, AtMostOne
    <2> QED BY <2>1, <2>3
  <1> QED BY <1>2, <1>3

-----------------------------------------------------------------------------
(* Claims of the connector *)

\* The instance has the finite sets of this module.
LEMMA ClaimSameSets == ASSUME NEW S
  PROVE (Claim!IsFiniteSet(S) <=> IsFiniteSet(S)) /\ Claim!Cardinality(S) = Cardinality(S)
  BY Zenon DEF Claim!IsFiniteSet, IsFiniteSet, Claim!Cardinality, Cardinality

\* Who calls BigSeller or has; and those whose failed call still holds a record.
ClaimCallers == {a \in Claim!Actors : step[a] = "claimed" \/ a \in applied}
ClaimRaisers == {a \in Claim!Actors : step[a] = "raising"}
ClaimWeight == Cardinality(ClaimCallers) + Cardinality(ClaimRaisers)

ClaimAppliedOK == \A a \in Claim!Actors : step[a] \in {"applied", "completed"} => a \in applied
ClaimClaimedOK == \A a \in Claim!Actors : step[a] \in {"idle", "received", "claimed",
      "inserting update", "inserting event"} => a \notin applied
ClaimLifeOK == \A k \in Claim!Records : claim[k] = "none" => life[k] = 0

\* All of them have an excuse but one, and none lacks one while there is no record.
ClaimCountOK ==
    /\ ClaimWeight <= 1 + excuses
    /\ claim["update"] = "none" => ClaimWeight <= excuses

\* The update has been made or queued, or somebody makes it or has died over it.
ClaimInHand ==
    \/ applied # {} \/ queued # "none"
    \/ \E a \in Claim!Actors : step[a] \in {"claimed", "raising", "enqueue", "gone"}
\* Or it is about to be claimed.
ClaimComing == ClaimInHand \/ \E a \in Claim!Actors : step[a] \in {"received", "inserting update"}

ClaimAckOK ==
    /\ claim["update"] # "none" => ClaimInHand
    /\ claim["event"] # "none" => ClaimComing
    /\ \A a \in Claim!Actors : step[a] \in {"done", "ok", "failed", "error"} => ClaimInHand
    /\ \A a \in Claim!Actors : step[a] = "duplicate" => ClaimComing

ClaimIInv == Claim!TypeOK /\ ClaimAppliedOK /\ ClaimClaimedOK /\ ClaimCountOK /\ ClaimAckOK

LEMMA ClaimWeightOK ==
  ASSUME Claim!ConstantsOK
  PROVE  /\ IsFiniteSet(ClaimCallers) /\ IsFiniteSet(ClaimRaisers)
         /\ Cardinality(ClaimCallers) \in Nat /\ Cardinality(ClaimRaisers) \in Nat
  BY NoMore, ClaimSameSets DEF Claim!ConstantsOK, ClaimCallers, ClaimRaisers, Claim!Actors

LEMMA ClaimInitIInv == ASSUME Claim!ConstantsOK, Claim!Init PROVE ClaimIInv
  <1> USE DEF Claim!Init
  <1>1. ClaimCallers = {} /\ ClaimRaisers = {} BY DEF ClaimCallers, ClaimRaisers
  <1>2. ClaimWeight = 0 BY <1>1, FS_EmptySet DEF ClaimWeight
  <1>3. Claim!TypeOK BY DEF Claim!ConstantsOK, Claim!TypeOK
  <1>4. ClaimCountOK BY <1>2 DEF ClaimCountOK
  <1>5. ClaimAckOK BY DEF ClaimAckOK, Claim!Records
  <1> QED BY <1>3, <1>4, <1>5 DEF ClaimIInv, ClaimAppliedOK, ClaimClaimedOK

\* A step that moves nobody to a call, and removes no record without an excuse.
LEMMA ClaimFewerOK ==
  ASSUME Claim!ConstantsOK, ClaimCountOK, ClaimCallers' \subseteq ClaimCallers,
        ClaimRaisers' \subseteq ClaimRaisers,
         excuses \in Nat, excuses' \in Nat, excuses' >= excuses,
         claim'["update"] = "none" => claim["update"] = "none" \/ excuses' > excuses
  PROVE  ClaimCountOK'
  <1>1. Cardinality(ClaimCallers') <= Cardinality(ClaimCallers)
        /\ Cardinality(ClaimCallers') \in Nat
    BY ClaimWeightOK, NoMore
  <1>2. Cardinality(ClaimRaisers') <= Cardinality(ClaimRaisers)
        /\ Cardinality(ClaimRaisers') \in Nat
    BY ClaimWeightOK, NoMore
  <1> QED BY <1>1, <1>2, ClaimWeightOK DEF ClaimCountOK, ClaimWeight

\* Somebody claims the update, in place of no record or with an excuse.
LEMMA ClaimMoreOK ==
  ASSUME Claim!ConstantsOK, ClaimCountOK, NEW a, ClaimCallers' \subseteq ClaimCallers \cup {a},
        ClaimRaisers' \subseteq ClaimRaisers,
         excuses \in Nat, excuses' \in Nat, excuses' >= excuses,
         claim["update"] = "none" \/ excuses' > excuses, claim'["update"] # "none"
  PROVE  ClaimCountOK'
  <1>1. Cardinality(ClaimCallers') <= Cardinality(ClaimCallers) + 1
        /\ Cardinality(ClaimCallers') \in Nat
    BY ClaimWeightOK, OneMore
  <1>2. Cardinality(ClaimRaisers') <= Cardinality(ClaimRaisers)
        /\ Cardinality(ClaimRaisers') \in Nat
    BY ClaimWeightOK, NoMore
  <1> QED BY <1>1, <1>2, ClaimWeightOK DEF ClaimCountOK, ClaimWeight

\* The types and the places, for every action.
LEMMA ClaimNextTypes == ASSUME Claim!ConstantsOK, ClaimIInv, Claim!Next PROVE Claim!TypeOK'
  <1> USE DEF Claim!ConstantsOK, ClaimIInv, Claim!Records, Claim!To
  <1>p. UNCHANGED postgres /\ postgres \in BOOLEAN BY DEF Claim!Next, Claim!TypeOK
  <1>0. Claim!Purged \in [Claim!Records -> {"none", "in_progress", "completed"}]
    BY DEF Claim!Purged, Claim!TypeOK
  <1>1. ASSUME NEW a \in Claim!Actors, NEW k \in Claim!Records,
                 NEW st \in {"none", "in_progress", "completed"}, Claim!Mark(k, st)
        PROVE  claim' \in [Claim!Records -> {"none", "in_progress", "completed"}]
            /\ life' \in [Claim!Records -> 0..ClaimTTL]
    BY <1>1 DEF Claim!Mark, Claim!TypeOK
  <1>2. ASSUME NEW a \in Claim!Actors, NEW k \in Claim!Records, NEW m \in {"received", "claimed"},
               NEW i \in Claim!InClaim, NEW t \in {"done", "duplicate"}, Claim!Take(a, k, m, i, t)
        PROVE  Claim!TypeOK'
    <2>1. excuses' \in Nat /\ UNCHANGED <<queued, applied, errors>>
      BY <1>2 DEF Claim!Take, Claim!Excuse, Claim!TypeOK
    <2>2. claim' \in [Claim!Records -> {"none", "in_progress", "completed"}]
      BY <1>0, <1>2 DEF Claim!Take
    <2>3. life' \in [Claim!Records -> 0..ClaimTTL] BY <1>2 DEF Claim!Take, Claim!TypeOK
    <2>4. step' \in [Claim!Actors -> {"idle", "failed", "error",
            "gone"} \cup Claim!InClaim \cup Claim!Working \cup Claim!Acked]
      BY <1>2 DEF Claim!Take, Claim!TypeOK, Claim!Working, Claim!Acked
    <2> QED BY <1>p, <2>1, <2>2, <2>3, <2>4 DEF Claim!TypeOK
  <1>3. ASSUME NEW a \in Claim!Actors, NEW k \in Claim!Records, NEW m \in {"received", "claimed"},
                 Claim!Insert(a, k, m)
        PROVE  Claim!TypeOK'
    <2>1. excuses' \in Nat /\ UNCHANGED <<queued, applied, errors>>
      BY <1>3 DEF Claim!Insert, Claim!Excuse, Claim!TypeOK
    <2>2. claim' \in [Claim!Records -> {"none", "in_progress", "completed"}]
          /\ life' \in [Claim!Records -> 0..ClaimTTL]
      BY <1>1, <1>3 DEF Claim!Insert
    <2>3. step' \in [Claim!Actors -> {"idle", "failed", "error",
            "gone"} \cup Claim!InClaim \cup Claim!Working \cup Claim!Acked]
      BY <1>3 DEF Claim!Insert, Claim!TypeOK, Claim!Working
    <2> QED BY <1>p, <2>1, <2>2, <2>3 DEF Claim!TypeOK
  <1>4. ASSUME NEW a \in Claim!Actors, Claim!ClaimEvent(a) \/ Claim!InsertEvent(a)
               \/ Claim!ClaimUpdate(a) \/ Claim!InsertUpdate(a) PROVE Claim!TypeOK'
    <2>1. CASE Claim!ClaimEvent(a) BY <2>1, <1>2 DEF Claim!ClaimEvent, Claim!InClaim
    <2>2. CASE Claim!InsertEvent(a) BY <2>2, <1>3 DEF Claim!InsertEvent
    <2>3. CASE Claim!ClaimUpdate(a) BY <2>3, <1>2 DEF Claim!ClaimUpdate, Claim!InClaim
    <2>4. CASE Claim!InsertUpdate(a) BY <2>4, <1>3 DEF Claim!InsertUpdate
    <2> QED BY <1>4, <2>1, <2>2, <2>3, <2>4
  <1>5. ASSUME NEW a \in Claim!Actors, Claim!Call(a) \/ Claim!Audit(a)
               \/ Claim!RaiseAfterEffect(a) \/ Claim!Enqueue(a) \/ Claim!Crash(a)
                 PROVE Claim!TypeOK'
    <2>0. /\ errors \in 0..StoreErrors /\ StoreErrors \in Nat /\ excuses \in Nat
          /\ step \in [Claim!Actors -> {"idle", "failed", "error",
               "gone"} \cup Claim!InClaim \cup Claim!Working \cup Claim!Acked]
      BY DEF Claim!TypeOK
    <2>1. CASE Claim!Call(a)
      BY <1>p, <2>1 DEF Claim!Call, Claim!TypeOK, Claim!records, Claim!Working
    <2>2. CASE Claim!Audit(a)
      BY <1>p, <2>2 DEF Claim!Audit, Claim!TypeOK, Claim!records, Claim!ghosts, Claim!Working
    <2>3. CASE Claim!RaiseAfterEffect(a)
      <3>1. errors < StoreErrors /\ errors' = errors + 1 /\ excuses' = excuses + 1
        BY <2>3 DEF Claim!RaiseAfterEffect
      <3>2. errors' \in 0..StoreErrors /\ excuses' \in Nat BY <2>0, <3>1
      <3>3. step' \in [Claim!Actors -> {"idle", "failed", "error",
              "gone"} \cup Claim!InClaim \cup Claim!Working \cup Claim!Acked]
        BY <2>0, <2>3 DEF Claim!RaiseAfterEffect, Claim!Working
      <3> QED BY <1>p, <2>3, <3>2, <3>3 DEF Claim!RaiseAfterEffect, Claim!TypeOK, Claim!records
    <2>4. CASE Claim!Enqueue(a)
      BY <1>p, <2>4 DEF Claim!Enqueue, Claim!TypeOK, Claim!records, Claim!ghosts
    <2>5. CASE Claim!Crash(a)
      BY <1>p, <2>5 DEF Claim!Crash, Claim!TypeOK, Claim!records, Claim!ghosts
    <2> QED BY <1>5, <2>1, <2>2, <2>3, <2>4, <2>5
  <1>6. ASSUME NEW a \in Claim!Actors, Claim!CompleteUpdate(a) \/ Claim!ReleaseUpdate(a)
               \/ Claim!CompleteEvent(a) \/ Claim!ReleaseEvent(a) PROVE Claim!TypeOK'
    <2>1. claim' \in [Claim!Records -> {"none", "in_progress", "completed"}]
          /\ life' \in [Claim!Records -> 0..ClaimTTL]
      BY <1>1, <1>6 DEF Claim!CompleteUpdate, Claim!ReleaseUpdate, Claim!CompleteEvent,
          Claim!ReleaseEvent, Claim!records, Claim!TypeOK
    <2>2. UNCHANGED <<queued, applied, excuses, errors>>
      BY <1>6 DEF Claim!CompleteUpdate, Claim!ReleaseUpdate, Claim!CompleteEvent,
          Claim!ReleaseEvent, Claim!ghosts
    <2>3. step' \in [Claim!Actors -> {"idle", "failed", "error",
            "gone"} \cup Claim!InClaim \cup Claim!Working \cup Claim!Acked]
      BY <1>6 DEF Claim!CompleteUpdate, Claim!ReleaseUpdate, Claim!CompleteEvent,
          Claim!ReleaseEvent, Claim!TypeOK, Claim!Working, Claim!Acked
    <2> QED BY <1>p, <2>1, <2>2, <2>3 DEF Claim!TypeOK
  <1>7. CASE Claim!ResolveError
    BY <1>p, <1>7 DEF Claim!ResolveError, Claim!TypeOK, Claim!records, Claim!ghosts
  <1>8. CASE Claim!Tick BY <1>p, <1>8 DEF Claim!Tick, Claim!TypeOK, Claim!ghosts
  <1> QED BY <1>4, <1>5, <1>6, <1>7, <1>8 DEF Claim!Next

\* A step that may replace the record of the update.
ClaimExcused == claim["update"] = "none" \/ excuses' > excuses

\* What a claim does to the record of the update and to the excuses.
LEMMA ClaimTakeEffect ==
  ASSUME Claim!ConstantsOK, Claim!TypeOK, NEW a \in Claim!Actors, NEW k \in Claim!Records, NEW m,
        NEW i, NEW t, Claim!Take(a, k, m, i, t)
  PROVE  /\ excuses' >= excuses /\ excuses' \in Nat /\ UNCHANGED <<queued, applied>>
         /\ claim'["update"] = claim["update"] \/ ClaimExcused
         /\ \A r \in Claim!Records \ {k} : claim'[r] \in {claim[r], "none"}
         /\ \/ Claim!To(a, t) /\ claim[k] # "none" /\ claim'[k] # "none"
            \/ Claim!To(a, i) /\ claim'[k] \in {claim[k], "none"}
            \/ /\ Claim!To(a, m) /\ claim'[k] # "none"
               /\ k # "update" \/ ClaimExcused
  <1> "update" \in Claim!Records /\ "event" \in Claim!Records BY DEF Claim!Records
  <1>1. UNCHANGED <<queued, applied>> BY DEF Claim!Take
  <1>2. excuses \in Nat
        /\ excuses' = excuses + (IF life["update"] = 0 THEN Claim!Excuse(claim["update"]) ELSE 0)
    BY DEF Claim!Take, Claim!TypeOK
  <1>3. Claim!Excuse(claim["update"]) = (IF claim["update"] = "none" THEN 0 ELSE 1)
    BY DEF Claim!Excuse
  <1>4. excuses' >= excuses /\ excuses' \in Nat BY <1>2, <1>3
  <1>5. life["update"] = 0 => ClaimExcused BY <1>2, <1>3 DEF ClaimExcused
  <1>6. \A r \in Claim!Records : Claim!Purged[r] = (IF life[r] = 0 THEN "none" ELSE claim[r])
    BY DEF Claim!Purged
  <1>7. CASE ~Claim!Free(k) /\ Claim!To(a, t) /\ claim' = Claim!Purged
    <2>1. life[k] # 0 /\ claim[k] # "none" BY <1>7 DEF Claim!Free
    <2> QED BY <1>1, <1>4, <1>5, <1>6, <1>7, <2>1
  <1>8. CASE Claim!Free(k) /\ Claim!To(a, i) /\ claim' = Claim!Purged
    BY <1>1, <1>4, <1>5, <1>6, <1>8
  <1>9. CASE Claim!Free(k) /\ Claim!To(a, m) /\ claim' = [Claim!Purged EXCEPT ![k] = "in_progress"]
    <2>1. claim'[k] = "in_progress" /\ \A r \in Claim!Records \ {k} : claim'[r] = Claim!Purged[r]
      BY <1>9 DEF Claim!Purged
    <2>2. k # "update" \/ ClaimExcused BY <1>5, <1>9 DEF Claim!Free, ClaimExcused
    <2>3. claim'["update"] = claim["update"] \/ ClaimExcused
      BY <1>5, <1>6, <2>1, <2>2
    <2> QED BY <1>1, <1>4, <1>6, <1>9, <2>1, <2>2, <2>3
  <1> QED BY <1>7, <1>8, <1>9 DEF Claim!Take

LEMMA ClaimNextIInv ==
  ASSUME Claim!ConstantsOK, ClaimIInv, [Claim!Next]_(Claim!vars) PROVE ClaimIInv'
  <1> USE DEF Claim!ConstantsOK, ClaimIInv
  <1>0. CASE UNCHANGED Claim!vars
    BY <1>0 DEF Claim!vars, Claim!TypeOK, ClaimAppliedOK, ClaimClaimedOK, ClaimCountOK, ClaimAckOK,
        ClaimWeight, ClaimCallers, ClaimRaisers, ClaimInHand, ClaimComing
  <1> SUFFICES ASSUME Claim!Next PROVE ClaimIInv'
    BY <1>0
  <1>t. Claim!TypeOK' BY ClaimNextTypes
  <1>w. "update" \in Claim!Records /\ "event" \in Claim!Records BY DEF Claim!Records
  <1>1. ASSUME NEW a \in Claim!Actors, Claim!ClaimEvent(a) PROVE ClaimIInv'
    <2>0. step[a] = "idle" /\ Claim!Take(a, "event", "received", "inserting event", "duplicate")
      BY <1>1 DEF Claim!ClaimEvent
    <2>1. /\ excuses' >= excuses /\ excuses' \in Nat /\ UNCHANGED <<queued, applied>>
          /\ claim'["update"] = claim["update"] \/ ClaimExcused
          /\ claim'["update"] \in {claim["update"], "none"}
          /\ \/ step' = [step EXCEPT ![a] = "duplicate"] /\ claim["event"] # "none"
             \/ step' = [step EXCEPT ![a] = "inserting event"]
                /\ claim'["event"] \in {claim["event"], "none"}
             \/ step' = [step EXCEPT ![a] = "received"]
      <3> DEFINE k == "event"
      <3>1. k \in Claim!Records /\ "update" \in Claim!Records \ {k}
            /\ Claim!Take(a, k, "received", "inserting event", "duplicate")
        BY <2>0, <1>w
      <3>2. /\ excuses' >= excuses /\ excuses' \in Nat /\ UNCHANGED <<queued, applied>>
            /\ claim'["update"] = claim["update"] \/ ClaimExcused
            /\ claim'["update"] \in {claim["update"], "none"}
        BY <3>1, ClaimTakeEffect
      <3>3. \/ Claim!To(a, "duplicate") /\ claim["event"] # "none"
            \/ Claim!To(a, "inserting event") /\ claim'["event"] \in {claim["event"], "none"}
            \/ Claim!To(a, "received")
        BY <3>1, ClaimTakeEffect
      <3> QED BY <3>2, <3>3 DEF Claim!To
    <2>3. ClaimAppliedOK' /\ ClaimClaimedOK'
      BY <2>0, <2>1 DEF ClaimAppliedOK, ClaimClaimedOK, Claim!TypeOK
    <2>4. ClaimCallers' \subseteq ClaimCallers /\ ClaimRaisers' \subseteq ClaimRaisers
      BY <2>1 DEF ClaimCallers, ClaimRaisers, Claim!TypeOK
    <2>5. ClaimCountOK' BY <2>1, <2>4, ClaimFewerOK DEF Claim!TypeOK, ClaimExcused
    <2>6. ClaimInHand => ClaimInHand' BY <2>0, <2>1 DEF ClaimInHand, Claim!TypeOK
    <2>7. ClaimComing => ClaimComing' BY <2>0, <2>1, <2>6 DEF ClaimComing, Claim!TypeOK
    <2>8. ClaimAckOK' BY <2>0, <2>1, <2>6, <2>7 DEF ClaimAckOK, Claim!TypeOK, ClaimComing
    <2> QED BY <1>t, <2>3, <2>5, <2>8
  <1>2. ASSUME NEW a \in Claim!Actors, Claim!InsertEvent(a) PROVE ClaimIInv'
    <2>0. /\ step[a] = "inserting event" /\ claim' = [claim EXCEPT !["event"] = "in_progress"]
          /\ step' = [step EXCEPT ![a] = "received"] /\ UNCHANGED <<queued, applied>>
          /\ excuses' = excuses + 0
      BY <1>2 DEF Claim!InsertEvent, Claim!Insert, Claim!Mark, Claim!To
    <2>1. excuses' = excuses /\ claim'["update"] = claim["update"]
      <3>1. claim'["update"] = claim["update"] BY <1>w, <2>0 DEF Claim!TypeOK
      <3>2. excuses \in Nat BY DEF Claim!TypeOK
      <3>3. excuses' = excuses + 0 BY <2>0
      <3>4. excuses' = excuses BY <3>2, <3>3
      <3> QED BY <3>1, <3>4
    <2>3. ClaimAppliedOK' /\ ClaimClaimedOK'
      BY <2>0 DEF ClaimAppliedOK, ClaimClaimedOK, Claim!TypeOK
    <2>4. ClaimCallers' \subseteq ClaimCallers /\ ClaimRaisers' \subseteq ClaimRaisers
      BY <2>0 DEF ClaimCallers, ClaimRaisers, Claim!TypeOK
    <2>5. ClaimCountOK' BY <2>1, <2>4, ClaimFewerOK DEF Claim!TypeOK
    <2>6. ClaimInHand => ClaimInHand' BY <2>0 DEF ClaimInHand, Claim!TypeOK
    <2>7. ClaimComing' BY <2>0 DEF ClaimComing, Claim!TypeOK
    <2>8. ClaimAckOK' BY <1>w, <2>0, <2>6, <2>7 DEF ClaimAckOK, Claim!TypeOK
    <2> QED BY <1>t, <2>3, <2>5, <2>8
  <1>3. ASSUME NEW a \in Claim!Actors, Claim!ClaimUpdate(a) PROVE ClaimIInv'
    <2>0. /\ Claim!Take(a, "update", "claimed", "inserting update", "done")
          /\ step[a] = "received" \/ (step[a] = "idle" /\ queued # "none")
      BY <1>3 DEF Claim!ClaimUpdate
    <2>1. /\ excuses' >= excuses /\ excuses' \in Nat /\ UNCHANGED <<queued, applied>>
          /\ claim'["event"] \in {claim["event"], "none"}
          /\ claim'["update"] = claim["update"] \/ ClaimExcused
          /\ \/ step' = [step EXCEPT ![a] = "done"] /\ claim["update"] # "none"
                /\ claim'["update"] # "none"
             \/ step' = [step EXCEPT ![a] = "inserting update"]
                /\ claim'["update"] \in {claim["update"], "none"}
             \/ step' = [step EXCEPT ![a] = "claimed"] /\ claim'["update"] # "none" /\ ClaimExcused
      <3> DEFINE k == "update"
      <3>1. k \in Claim!Records /\ "event" \in Claim!Records \ {k}
            /\ Claim!Take(a, k, "claimed", "inserting update", "done")
        BY <2>0, <1>w
      <3>2. /\ excuses' >= excuses /\ excuses' \in Nat /\ UNCHANGED <<queued, applied>>
            /\ claim'["update"] = claim["update"] \/ ClaimExcused
            /\ claim'["event"] \in {claim["event"], "none"}
        BY <3>1, ClaimTakeEffect
      <3>3. \/ Claim!To(a, "done") /\ claim["update"] # "none" /\ claim'["update"] # "none"
            \/ Claim!To(a, "inserting update") /\ claim'["update"] \in {claim["update"], "none"}
            \/ Claim!To(a, "claimed") /\ claim'["update"] # "none" /\ ClaimExcused
        BY <3>1, ClaimTakeEffect
      <3> QED BY <3>2, <3>3 DEF Claim!To
    <2>3. ClaimAppliedOK' /\ ClaimClaimedOK'
      BY <2>0, <2>1 DEF ClaimAppliedOK, ClaimClaimedOK, Claim!TypeOK
    <2>4. ClaimRaisers' \subseteq ClaimRaisers BY <2>0, <2>1 DEF ClaimRaisers, Claim!TypeOK
    <2>5. ClaimCountOK'
      <3>1. CASE step' = [step EXCEPT ![a] = "claimed"]
        <4>1. ClaimCallers' \subseteq ClaimCallers \cup {a}
          BY <2>1, <3>1 DEF ClaimCallers, Claim!TypeOK
        <4>2. claim'["update"] # "none" /\ ClaimExcused BY <2>0, <2>1, <3>1 DEF Claim!TypeOK
        <4> QED BY <2>1, <2>4, <4>1, <4>2, ClaimMoreOK DEF Claim!TypeOK, ClaimExcused
      <3>2. CASE step' # [step EXCEPT ![a] = "claimed"]
        <4>1. ClaimCallers' \subseteq ClaimCallers BY <2>1, <3>2 DEF ClaimCallers, Claim!TypeOK
        <4> QED BY <2>1, <2>4, <3>2, <4>1, ClaimFewerOK DEF Claim!TypeOK, ClaimExcused
      <3> QED BY <3>1, <3>2
    <2>6. ClaimInHand => ClaimInHand' BY <2>0, <2>1 DEF ClaimInHand, Claim!TypeOK
    <2>7. step'[a] \in {"done", "claimed"} => ClaimInHand'
      BY <2>1, <2>6 DEF ClaimInHand, ClaimAckOK, Claim!TypeOK
    <2>8. ClaimComing => ClaimComing'
      <3>1. ASSUME NEW b \in Claim!Actors, step[b] \in {"received", "inserting update"}
            PROVE ClaimComing'
        BY <2>1, <2>7, <3>1 DEF ClaimComing, Claim!TypeOK
      <3> QED BY <2>6, <3>1 DEF ClaimComing
    <2>9. ClaimAckOK'
      <3>1. claim'["update"] # "none" => ClaimInHand'
        BY <2>1, <2>6, <2>7 DEF ClaimAckOK, Claim!TypeOK
      <3>2. claim'["event"] # "none" => ClaimComing' BY <2>1, <2>8 DEF ClaimAckOK
      <3>3. \A b \in Claim!Actors : step'[b] \in {"done", "ok", "failed", "error"} => ClaimInHand'
        BY <2>1, <2>6, <2>7 DEF ClaimAckOK, Claim!TypeOK
      <3>4. \A b \in Claim!Actors : step'[b] = "duplicate" => ClaimComing'
        BY <2>1, <2>8 DEF ClaimAckOK, Claim!TypeOK
      <3> QED BY <3>1, <3>2, <3>3, <3>4 DEF ClaimAckOK
    <2> QED BY <1>t, <2>3, <2>5, <2>9
  <1>4. ASSUME NEW a \in Claim!Actors, Claim!InsertUpdate(a) PROVE ClaimIInv'
    <2>0. /\ step[a] = "inserting update" /\ claim' = [claim EXCEPT !["update"] = "in_progress"]
          /\ step' = [step EXCEPT ![a] = "claimed"] /\ UNCHANGED <<queued, applied>>
          /\ excuses' = excuses + (IF claim["update"] = "none" THEN 0 ELSE 1)
      BY <1>4, <1>w DEF Claim!InsertUpdate, Claim!Insert, Claim!Mark, Claim!To, Claim!TypeOK,
          Claim!Excuse
    <2>3. ClaimAppliedOK' /\ ClaimClaimedOK'
      BY <2>0 DEF ClaimAppliedOK, ClaimClaimedOK, Claim!TypeOK
    <2>4. ClaimCallers' \subseteq ClaimCallers \cup {a} /\ ClaimRaisers' \subseteq ClaimRaisers
      BY <2>0 DEF ClaimCallers, ClaimRaisers, Claim!TypeOK
    <2>5. ClaimCountOK'
      <3>1. claim'["update"] # "none" BY <1>w, <2>0 DEF Claim!TypeOK
      <3>2. excuses \in Nat BY DEF Claim!TypeOK
      <3>4. excuses' = excuses + (IF claim["update"] = "none" THEN 0 ELSE 1) BY <2>0
      <3>3. /\ excuses' \in Nat /\ excuses' >= excuses
            /\ claim["update"] = "none" \/ excuses' > excuses
        BY <3>4, <3>2
      <3> QED BY <2>4, <3>1, <3>2, <3>3, ClaimMoreOK
    <2>6. ClaimInHand' BY <2>0 DEF ClaimInHand, Claim!TypeOK
    <2>8. ClaimAckOK' BY <1>w, <2>0, <2>6 DEF ClaimAckOK, Claim!TypeOK, ClaimComing
    <2> QED BY <1>t, <2>3, <2>5, <2>8
  <1>5. ASSUME NEW a \in Claim!Actors, Claim!Call(a) PROVE ClaimIInv'
    <2>0. /\ step[a] = "claimed" /\ UNCHANGED <<claim, life, queued, excuses, errors>>
          /\ \/ step' = [step EXCEPT ![a] = "applied"] /\ applied' = applied \cup {a}
             \/ step' = [step EXCEPT ![a] = "raising"] /\ applied' = applied
      BY <1>5 DEF Claim!Call, Claim!To, Claim!records
    <2>3. ClaimAppliedOK' /\ ClaimClaimedOK'
      BY <2>0 DEF ClaimAppliedOK, ClaimClaimedOK, Claim!TypeOK
    <2>5. ClaimCountOK'
      <3>1. CASE step' = [step EXCEPT ![a] = "applied"] /\ applied' = applied \cup {a}
        <4>1. ClaimCallers' \subseteq ClaimCallers /\ ClaimRaisers' \subseteq ClaimRaisers
          BY <2>0, <3>1 DEF ClaimCallers, ClaimRaisers, Claim!TypeOK
        <4> QED BY <2>0, <4>1, ClaimFewerOK DEF Claim!TypeOK
      <3>2. CASE step' = [step EXCEPT ![a] = "raising"] /\ applied' = applied
        <4>1. a \in ClaimCallers /\ a \notin applied BY <2>0 DEF ClaimCallers, ClaimClaimedOK
        <4>2. ClaimCallers' \subseteq ClaimCallers \ {a}
          BY <2>0, <3>2, <4>1 DEF ClaimCallers, Claim!TypeOK
        <4>3. ClaimRaisers' \subseteq ClaimRaisers \cup {a}
          BY <2>0, <3>2 DEF ClaimRaisers, Claim!TypeOK
        <4>4. Cardinality(ClaimCallers') <= Cardinality(ClaimCallers) - 1
              /\ Cardinality(ClaimCallers') \in Nat
          BY <4>1, <4>2, ClaimWeightOK, OneLess
        <4>5. Cardinality(ClaimRaisers') <= Cardinality(ClaimRaisers) + 1
              /\ Cardinality(ClaimRaisers') \in Nat
          BY <4>3, ClaimWeightOK, OneMore
        <4> QED BY <2>0, <4>4, <4>5, ClaimWeightOK DEF ClaimCountOK, ClaimWeight, Claim!TypeOK
      <3> QED BY <2>0, <3>1, <3>2
    <2>6. ClaimInHand' BY <2>0 DEF ClaimInHand, Claim!TypeOK
    <2>8. ClaimAckOK' BY <2>6 DEF ClaimAckOK, ClaimComing
    <2> QED BY <1>t, <2>3, <2>5, <2>8
  <1>6. ASSUME NEW a \in Claim!Actors, Claim!CompleteUpdate(a) PROVE ClaimIInv'
    <2>0. /\ step[a] = "applied" /\ claim' = [claim EXCEPT !["update"] = "completed"]
          /\ step' = [step EXCEPT ![a] = "completed"] /\ UNCHANGED <<queued, applied, excuses>>
      BY <1>6, <1>w DEF Claim!CompleteUpdate, Claim!Mark, Claim!To, Claim!TypeOK, Claim!ghosts
    <2>1. a \in applied BY <2>0 DEF ClaimAppliedOK
    <2>3. ClaimAppliedOK' /\ ClaimClaimedOK'
      BY <2>0, <2>1 DEF ClaimAppliedOK, ClaimClaimedOK, Claim!TypeOK
    <2>4. ClaimCallers' \subseteq ClaimCallers /\ ClaimRaisers' \subseteq ClaimRaisers
      BY <2>0 DEF ClaimCallers, ClaimRaisers, Claim!TypeOK
    <2>5. ClaimCountOK' BY <1>w, <2>0, <2>4, ClaimFewerOK DEF Claim!TypeOK
    <2>6. ClaimInHand' BY <2>0, <2>1 DEF ClaimInHand
    <2>8. ClaimAckOK' BY <2>6 DEF ClaimAckOK, ClaimComing
    <2> QED BY <1>t, <2>3, <2>5, <2>8
  <1>7. ASSUME NEW a \in Claim!Actors, Claim!Audit(a) PROVE ClaimIInv'
    <2>0. /\ step[a] = "completed" /\ step' = [step EXCEPT ![a] = "done"]
          /\ UNCHANGED <<claim, queued, applied, excuses>>
      BY <1>7 DEF Claim!Audit, Claim!To, Claim!records, Claim!ghosts
    <2>1. a \in applied BY <2>0 DEF ClaimAppliedOK
    <2>3. ClaimAppliedOK' /\ ClaimClaimedOK'
      BY <2>0, <2>1 DEF ClaimAppliedOK, ClaimClaimedOK, Claim!TypeOK
    <2>4. ClaimCallers' \subseteq ClaimCallers /\ ClaimRaisers' \subseteq ClaimRaisers
      BY <2>0 DEF ClaimCallers, ClaimRaisers, Claim!TypeOK
    <2>5. ClaimCountOK' BY <1>w, <2>0, <2>4, ClaimFewerOK DEF Claim!TypeOK
    <2>6. ClaimInHand' BY <2>0, <2>1 DEF ClaimInHand
    <2>8. ClaimAckOK' BY <2>6 DEF ClaimAckOK, ClaimComing
    <2> QED BY <1>t, <2>3, <2>5, <2>8
  <1>8. ASSUME NEW a \in Claim!Actors, Claim!RaiseAfterEffect(a) PROVE ClaimIInv'
    <2>0. /\ step[a] \in {"applied", "completed"} /\ step' = [step EXCEPT ![a] = "raising"]
          /\ UNCHANGED <<claim, queued, applied>> /\ excuses' = excuses + 1
      BY <1>8 DEF Claim!RaiseAfterEffect, Claim!To, Claim!records
    <2>1. a \in applied BY <2>0 DEF ClaimAppliedOK
    <2>3. ClaimAppliedOK' /\ ClaimClaimedOK'
      BY <2>0, <2>1 DEF ClaimAppliedOK, ClaimClaimedOK, Claim!TypeOK
    <2>4. ClaimCallers' \subseteq ClaimCallers /\ ClaimRaisers' \subseteq ClaimRaisers \cup {a}
      BY <2>0 DEF ClaimCallers, ClaimRaisers, Claim!TypeOK
    <2>5. ClaimCountOK'
      <3>1. Cardinality(ClaimCallers') <= Cardinality(ClaimCallers)
            /\ Cardinality(ClaimCallers') \in Nat
        BY <2>4, ClaimWeightOK, NoMore
      <3>2. Cardinality(ClaimRaisers') <= Cardinality(ClaimRaisers) + 1
            /\ Cardinality(ClaimRaisers') \in Nat
        BY <2>4, ClaimWeightOK, OneMore
      <3> QED BY <2>0, <3>1, <3>2, ClaimWeightOK DEF ClaimCountOK, ClaimWeight, Claim!TypeOK
    <2>6. ClaimInHand' BY <2>0, <2>1 DEF ClaimInHand
    <2>8. ClaimAckOK' BY <2>6 DEF ClaimAckOK, ClaimComing
    <2> QED BY <1>t, <2>3, <2>5, <2>8
  <1>9. ASSUME NEW a \in Claim!Actors, Claim!ReleaseUpdate(a) PROVE ClaimIInv'
    <2>0. /\ step[a] = "raising" /\ step' = [step EXCEPT ![a] = "enqueue"]
          /\ UNCHANGED <<queued, applied, excuses>> /\ claim' = [claim EXCEPT !["update"] = "none"]
      BY <1>9, <1>w DEF Claim!ReleaseUpdate, Claim!Mark, Claim!To, Claim!TypeOK, Claim!ghosts
    <2>3. ClaimAppliedOK' /\ ClaimClaimedOK'
      BY <2>0 DEF ClaimAppliedOK, ClaimClaimedOK, Claim!TypeOK
    <2>4. ClaimCallers' \subseteq ClaimCallers /\ ClaimRaisers' \subseteq ClaimRaisers \ {a}
          /\ a \in ClaimRaisers
      BY <2>0 DEF ClaimCallers, ClaimRaisers, Claim!TypeOK
    <2>5. ClaimCountOK'
      <3>1. Cardinality(ClaimCallers') <= Cardinality(ClaimCallers)
            /\ Cardinality(ClaimCallers') \in Nat
        BY <2>4, ClaimWeightOK, NoMore
      <3>2. Cardinality(ClaimRaisers') <= Cardinality(ClaimRaisers) - 1
            /\ Cardinality(ClaimRaisers') \in Nat
        BY <2>4, ClaimWeightOK, OneLess
      <3> QED BY <2>0, <3>1, <3>2, ClaimWeightOK DEF ClaimCountOK, ClaimWeight, Claim!TypeOK
    <2>6. ClaimInHand' BY <2>0 DEF ClaimInHand, Claim!TypeOK
    <2>8. ClaimAckOK' BY <2>6 DEF ClaimAckOK, ClaimComing
    <2> QED BY <1>t, <2>3, <2>5, <2>8
  <1>10. ASSUME NEW a \in Claim!Actors, Claim!Enqueue(a) PROVE ClaimIInv'
    <2>0. /\ step[a] = "enqueue" /\ step' = [step EXCEPT ![a] = "failed"]
          /\ UNCHANGED <<claim, applied, excuses>> /\ queued' = "open"
      BY <1>10 DEF Claim!Enqueue, Claim!To, Claim!records, Claim!ghosts
    <2>3. ClaimAppliedOK' /\ ClaimClaimedOK'
      BY <2>0 DEF ClaimAppliedOK, ClaimClaimedOK, Claim!TypeOK
    <2>4. ClaimCallers' \subseteq ClaimCallers /\ ClaimRaisers' \subseteq ClaimRaisers
      BY <2>0 DEF ClaimCallers, ClaimRaisers, Claim!TypeOK
    <2>5. ClaimCountOK' BY <2>0, <2>4, ClaimFewerOK DEF Claim!TypeOK
    <2>6. ClaimInHand' BY <2>0 DEF ClaimInHand
    <2>8. ClaimAckOK' BY <2>6 DEF ClaimAckOK, ClaimComing
    <2> QED BY <1>t, <2>3, <2>5, <2>8
  <1>11. ASSUME NEW a \in Claim!Actors, Claim!CompleteEvent(a) \/ Claim!ReleaseEvent(a)
         PROVE ClaimIInv'
    <2>0. /\ \/ step[a] = "done" /\ step' = [step EXCEPT ![a] = "ok"]
             \/ step[a] = "failed" /\ step' = [step EXCEPT ![a] = "error"]
          /\ UNCHANGED <<queued, applied, excuses>> /\ claim'["update"] = claim["update"]
      BY <1>11, <1>w DEF Claim!CompleteEvent, Claim!ReleaseEvent, Claim!Mark, Claim!To,
          Claim!TypeOK, Claim!ghosts, Claim!records
    <2>3. ClaimAppliedOK' /\ ClaimClaimedOK'
      BY <2>0 DEF ClaimAppliedOK, ClaimClaimedOK, Claim!TypeOK
    <2>4. ClaimCallers' \subseteq ClaimCallers /\ ClaimRaisers' \subseteq ClaimRaisers
      BY <2>0 DEF ClaimCallers, ClaimRaisers, Claim!TypeOK
    <2>5. ClaimCountOK' BY <2>0, <2>4, ClaimFewerOK DEF Claim!TypeOK
    <2>6. ClaimInHand BY <2>0 DEF ClaimAckOK
    <2>7. ClaimInHand' BY <2>0, <2>6 DEF ClaimInHand, Claim!TypeOK
    <2>8. ClaimAckOK' BY <2>7 DEF ClaimAckOK, ClaimComing
    <2> QED BY <1>t, <2>3, <2>5, <2>8
  <1>12. ASSUME NEW a \in Claim!Actors, Claim!Crash(a) PROVE ClaimIInv'
    <2>0. /\ step[a] \in Claim!InClaim \cup Claim!Working \cup {"failed"}
             /\ step' = [step EXCEPT ![a] = "gone"]
          /\ UNCHANGED <<claim, queued, applied, excuses>>
      BY <1>12 DEF Claim!Crash, Claim!To, Claim!records, Claim!ghosts
    <2>3. ClaimAppliedOK' /\ ClaimClaimedOK'
      BY <2>0 DEF ClaimAppliedOK, ClaimClaimedOK, Claim!TypeOK
    <2>4. ClaimCallers' \subseteq ClaimCallers /\ ClaimRaisers' \subseteq ClaimRaisers
      BY <2>0 DEF ClaimCallers, ClaimRaisers, Claim!TypeOK
    <2>5. ClaimCountOK' BY <2>0, <2>4, ClaimFewerOK DEF Claim!TypeOK
    <2>6. ClaimInHand' BY <2>0 DEF ClaimInHand, Claim!TypeOK
    <2>8. ClaimAckOK' BY <2>6 DEF ClaimAckOK, ClaimComing
    <2> QED BY <1>t, <2>3, <2>5, <2>8
  <1>13. CASE Claim!ResolveError \/ Claim!Tick
    <2>0. UNCHANGED <<claim, step, applied, excuses>> /\ (queued' = queued \/ queued' = "resolved")
      BY <1>13 DEF Claim!ResolveError, Claim!Tick, Claim!records, Claim!ghosts
    <2>3. ClaimAppliedOK' /\ ClaimClaimedOK'
      BY <2>0 DEF ClaimAppliedOK, ClaimClaimedOK, Claim!TypeOK
    <2>4. ClaimCallers' \subseteq ClaimCallers /\ ClaimRaisers' \subseteq ClaimRaisers
      BY <2>0 DEF ClaimCallers, ClaimRaisers, Claim!TypeOK
    <2>5. ClaimCountOK' BY <2>0, <2>4, ClaimFewerOK DEF Claim!TypeOK
    <2>6. ClaimInHand => ClaimInHand' BY <2>0 DEF ClaimInHand
    <2>8. ClaimAckOK' BY <2>0, <2>6 DEF ClaimAckOK, ClaimComing
    <2> QED BY <1>t, <2>3, <2>5, <2>8
  <1> QED BY <1>1, <1>2, <1>3, <1>4, <1>5, <1>6, <1>7, <1>8, <1>9, <1>10, <1>11, <1>12,
      <1>13 DEF Claim!Next

LEMMA ClaimIInvHolds == ASSUME Claim!ConstantsOK PROVE Claim!Spec => []ClaimIInv
  <1>1. Claim!Init => ClaimIInv BY ClaimInitIInv
  <1>2. ClaimIInv /\ [Claim!Next]_(Claim!vars) => ClaimIInv' BY ClaimNextIInv
  <1> QED BY <1>1, <1>2, PTL DEF Claim!Spec

LEMMA ClaimEventsKept ==
  ASSUME Claim!ConstantsOK, ClaimIInv PROVE Claim!EffectNeedsCause /\ Claim!AcknowledgedIsNotLost
  <1>1. applied \subseteq ClaimCallers BY DEF ClaimIInv, Claim!TypeOK, ClaimCallers
  <1>2. Claim!EffectNeedsCause
    BY <1>1, ClaimWeightOK, NoMore, ClaimSameSets DEF Claim!EffectNeedsCause, ClaimIInv,
        ClaimCountOK, ClaimWeight, Claim!TypeOK
  <1>3. Claim!AcknowledgedIsNotLost
    BY DEF Claim!AcknowledgedIsNotLost, ClaimIInv, ClaimAckOK, ClaimInHand, ClaimComing,
        Claim!Acked, Claim!Working, Claim!InClaim, Claim!Actors
  <1> QED BY <1>2, <1>3

-----------------------------------------------------------------------------
(* Break-glass sessions *)

\* A session that was never opened has no traces, ...
SessionNewOK ==
    \A s \in Sessions : status[s] = "none" =>
        second[s] = Nobody /\ s \notin over /\ s \notin revoked /\ sessionLeft[s] = 0

\* ... whoever is named in a row granted it with the owner token, ...
SessionGrantsOK ==
    \A s \in Sessions :
        /\ grants[s] \subseteq Owners
        /\ status[s] # "none" => by[s] \in grants[s]
        /\ second[s] # Nobody => second[s] \in grants[s]

\* ... and what is over has no time left, or is revoked.
SessionOverOK == \A s \in over : s \in revoked \/ sessionLeft[s] = 0

SessionIInv == Session!TypeOK /\ SessionNewOK /\ SessionGrantsOK /\ SessionOverOK
LEMMA SessionInitIInv == ASSUME Session!ConstantsOK, Session!Init PROVE SessionIInv
  <1> USE DEF Session!ConstantsOK
  <1>1. PICK old \in SUBSET Sessions :
          /\ status = [s \in Sessions |-> IF s \in old THEN Session!LegacyStatus(s) ELSE "none"]
          /\ sessionLeft = [s \in Sessions |-> IF s \in old THEN SessionTTL ELSE 0]
          /\ grants = [s \in Sessions |-> IF s \in old THEN {by[s]} ELSE {}]
    BY DEF Session!Init
  <1>2. actor \in [Sessions -> People] /\ by \in [Sessions -> Owners] /\ revoked = {} /\ over = {}
        /\ second = [s \in Sessions |-> Nobody]
    BY DEF Session!Init
  <1>3. \A s \in Sessions : Session!LegacyStatus(s) \in {"active", "legacy_unapproved"}
    BY DEF Session!LegacyStatus
  <1>4. Session!TypeOK BY <1>1, <1>2, <1>3 DEF Session!TypeOK, Session!Statuses
  <1>5. SessionNewOK BY <1>1, <1>2, <1>3 DEF SessionNewOK
  <1>6. SessionGrantsOK BY <1>1, <1>2, <1>3 DEF SessionGrantsOK
  <1>7. SessionOverOK BY <1>2 DEF SessionOverOK
  <1> QED BY <1>4, <1>5, <1>6, <1>7 DEF SessionIInv

\* A new row is granted by the owner who asks for it, and has left no trace before.
LEMMA SessionInsertOK ==
  ASSUME Session!ConstantsOK, SessionIInv, NEW s \in Sessions, NEW p \in Owners, NEW q \in People,
         NEW st \in Session!Statuses \ {"none"}, NEW ticks \in Nat,
               Session!Insert(s, p, q, st, ticks)
  PROVE  SessionIInv'
  <1> USE DEF Session!ConstantsOK, SessionIInv, Session!Insert
  <1>1. Session!TypeOK' BY DEF Session!TypeOK
  <1>2. SessionNewOK' BY DEF Session!TypeOK, SessionNewOK
  <1>3. SessionGrantsOK' BY DEF Session!TypeOK, SessionNewOK, SessionGrantsOK
  <1>4. SessionOverOK' BY DEF Session!TypeOK, SessionNewOK, SessionOverOK
  <1> QED BY <1>1, <1>2, <1>3, <1>4

LEMMA SessionNextIInv ==
  ASSUME Session!ConstantsOK, SessionIInv, [Session!Next]_(Session!vars) PROVE SessionIInv'
  <1> USE DEF Session!ConstantsOK, SessionIInv
  <1>1. ASSUME NEW p \in People, NEW s \in Sessions, Session!Open(p, s) PROVE SessionIInv'
    BY <1>1, SessionInsertOK DEF Session!Open, Session!OwnToken, Session!Statuses
  <1>2. ASSUME NEW p \in People, NEW q \in People, NEW s \in Sessions,
                 Session!RequestDelegated(p, q, s) PROVE SessionIInv'
    BY <1>2, SessionInsertOK DEF Session!RequestDelegated, Session!OwnToken, Session!Statuses
  <1>3. ASSUME NEW p \in People, NEW s \in Sessions, Session!Approve(p, s) PROVE SessionIInv'
    <2> USE <1>3 DEF Session!Approve, Session!MayApprove, Session!OwnToken
    <2>1. Session!TypeOK' BY DEF Session!TypeOK, Session!Statuses
    <2>2. SessionNewOK' BY DEF Session!TypeOK, SessionNewOK
    <2>3. SessionGrantsOK' BY DEF Session!TypeOK, SessionGrantsOK
    <2>4. SessionOverOK' BY DEF Session!TypeOK, SessionOverOK
    <2> QED BY <2>1, <2>2, <2>3, <2>4
  <1>4. ASSUME NEW p \in People, NEW s \in Sessions, Session!Revoke(p, s) PROVE SessionIInv'
    <2> USE <1>4 DEF Session!Revoke
    <2>1. Session!TypeOK' BY DEF Session!TypeOK
    <2>2. SessionNewOK' BY DEF Session!TypeOK, SessionNewOK
    <2>3. SessionGrantsOK' BY DEF Session!TypeOK, SessionGrantsOK
    <2>4. SessionOverOK' BY DEF Session!TypeOK, SessionOverOK
    <2> QED BY <2>1, <2>2, <2>3, <2>4
  <1>5. CASE Session!Tick
    <2> USE <1>5 DEF Session!Tick
    <2>1. Session!TypeOK' BY DEF Session!TypeOK
    <2>2. SessionNewOK' BY DEF Session!TypeOK, SessionNewOK
    <2>3. SessionGrantsOK' BY DEF Session!TypeOK, SessionGrantsOK
    <2>4. SessionOverOK' BY DEF Session!TypeOK, SessionOverOK
    <2> QED BY <2>1, <2>2, <2>3, <2>4
  <1>6. CASE UNCHANGED Session!vars
    BY <1>6 DEF Session!vars, Session!TypeOK, SessionNewOK, SessionGrantsOK, SessionOverOK
  <1> QED BY <1>1, <1>2, <1>3, <1>4, <1>5, <1>6 DEF Session!Next

LEMMA SessionIInvHolds == ASSUME Session!ConstantsOK PROVE Session!Spec => []SessionIInv
  <1>1. Session!Init => SessionIInv BY SessionInitIInv
  <1>2. SessionIInv /\ [Session!Next]_(Session!vars) => SessionIInv' BY SessionNextIInv
  <1> QED BY <1>1, <1>2, PTL DEF Session!Spec

\* A usable session is not over; the two who stand for it are in its grants.
LEMMA SessionUsableIsGranted == ASSUME SessionIInv PROVE Session!UsableWasGranted
  <1> SUFFICES ASSUME NEW p \in People, NEW s \in Sessions, Session!Usable(p, s)
               PROVE  /\ s \notin over
                      /\ grants[s] \subseteq Owners
                      /\ p \in grants[s] \/ \E o1, o2 \in grants[s] \ {p} : o1 # o2
    BY DEF Session!UsableWasGranted
  <1>1. s \notin over BY DEF SessionIInv, SessionOverOK, Session!TypeOK, Session!Usable
  <1>2. by[s] \in grants[s] /\ grants[s] \subseteq Owners
    BY DEF SessionIInv, SessionGrantsOK, Session!Usable
  <1>3. CASE actor[s] = by[s] BY <1>1, <1>2, <1>3 DEF Session!Usable
  <1>4. CASE actor[s] # by[s]
    <2>1. second[s] \in grants[s] \ {p} /\ by[s] \in grants[s] \ {p} /\ by[s] # second[s]
      BY <1>2, <1>4 DEF SessionIInv, SessionGrantsOK, Session!Usable
    <2> QED BY <1>1, <1>2, <2>1
  <1> QED BY <1>3, <1>4

-----------------------------------------------------------------------------
(* Model calls *)

\* The instance has the finite sets of this module.
LEMMA ModelSameSets == ASSUME NEW S
  PROVE (Model!IsFiniteSet(S) <=> IsFiniteSet(S)) /\ Model!Cardinality(S) = Cardinality(S)
  BY Zenon DEF Model!IsFiniteSet, IsFiniteSet, Model!Cardinality, Cardinality

ModelActive(r) == phase[r] \in {"calling", "sleeping"}

\* The calls that have passed the budget and not been charged yet.
ModelUncharged == {r \in ModelRequests : ModelActive(r) /\ profile[r] # "local"}
ModelBudgetOK == spent + Cardinality(ModelUncharged) <= DailyLimit + Model!Concurrency - 1

\* The attempts that calls chosen for profile p have left.
ModelAttempts == ModelRequests \X (1..(CallRetries + 1))
ModelAhead(r) == attempt[r] + (IF phase[r] = "sleeping" THEN 1 ELSE 0)
ModelLeft(p) == {a \in ModelAttempts : ModelActive(a[1]) /\ profile[a[1]] = p
    /\ a[2] > ModelAhead(a[1])}
ModelBound == Threshold - 1 + Model!Concurrency * (CallRetries + 1)
ModelBreakerOK == \A p \in Model!Planned : failures[p] + Cardinality(ModelLeft(p)) <= ModelBound

\* A call that sleeps has an attempt left, and one under way has its place in the plan.
ModelPlaceOK == \A r \in ModelRequests :
    /\ phase[r] = "sleeping" => attempt[r] < CallRetries
    /\ ModelActive(r) => next[r] \in DOMAIN Profiles

ModelIInv == Model!TypeOK /\ ModelPlaceOK /\ ModelBudgetOK /\ ModelBreakerOK

LEMMA ModelAttemptsFinite ==
  ASSUME Model!ConstantsOK
  PROVE  IsFiniteSet(ModelAttempts)
      /\ Cardinality(ModelAttempts) = Model!Concurrency * (CallRetries + 1)
  <1> USE DEF Model!ConstantsOK
  <1>1. CallRetries + 1 \in Int /\ 1 \in Int /\ CallRetries \in Nat OBVIOUS
  <1>2. IsFiniteSet(1..(CallRetries + 1)) /\ Cardinality(1..(CallRetries + 1)) =
          (IF 1 > CallRetries + 1 THEN 0 ELSE (CallRetries + 1) - 1 + 1)
    BY <1>1, FS_Interval
  <1>3. IsFiniteSet(1..(CallRetries + 1)) /\ Cardinality(1..(CallRetries + 1)) = CallRetries + 1
    BY <1>1, <1>2
  <1> QED BY <1>3, FS_Product, ModelSameSets DEF ModelAttempts, Model!Concurrency

LEMMA ModelFinite ==
  ASSUME Model!ConstantsOK
  PROVE  /\ IsFiniteSet(ModelUncharged) /\ Cardinality(ModelUncharged) \in Nat
         /\ Cardinality(ModelUncharged) <= Model!Concurrency
         /\ Model!Concurrency \in Nat /\ Model!Concurrency >= 1
         /\ \A p : IsFiniteSet(ModelLeft(p)) /\ Cardinality(ModelLeft(p)) \in Nat
                   /\ Cardinality(ModelLeft(p)) <= Model!Concurrency * (CallRetries + 1)
  <1> USE DEF Model!ConstantsOK
  <1>1. IsFiniteSet(ModelUncharged) /\ Cardinality(ModelUncharged) \in Nat
        /\ Cardinality(ModelUncharged) <= Model!Concurrency
    BY NoMore, ModelSameSets DEF ModelUncharged, Model!Concurrency
  <1>2. Model!Concurrency \in Nat /\ Model!Concurrency >= 1
    BY FS_CardinalityType, FS_EmptySet, ModelSameSets DEF Model!Concurrency
  <1>5. ASSUME NEW p
        PROVE  IsFiniteSet(ModelLeft(p)) /\ Cardinality(ModelLeft(p)) \in Nat
               /\ Cardinality(ModelLeft(p)) <= Model!Concurrency * (CallRetries + 1)
    BY ModelAttemptsFinite, NoMore DEF ModelLeft
  <1> QED BY <1>1, <1>2, <1>5

LEMMA ModelInitIInv == ASSUME Model!ConstantsOK, Model!Init PROVE ModelIInv
  <1> USE DEF Model!ConstantsOK, Model!Init
  <1>1. ModelUncharged = {} /\ \A p : ModelLeft(p) = {}
    <2>1. \A r \in ModelRequests : phase[r] = "idle" OBVIOUS
    <2>2. ModelUncharged = {} BY <2>1 DEF ModelUncharged, ModelActive
    <2>3. ASSUME NEW p PROVE ModelLeft(p) = {} BY <2>1 DEF ModelLeft, ModelActive, ModelAttempts
    <2> QED BY <2>2, <2>3
  <1>2. Cardinality(ModelUncharged) = 0 /\ \A p : Cardinality(ModelLeft(p)) = 0 BY <1>1, FS_EmptySet
  <1>3. Model!TypeOK BY DEF Model!TypeOK
  <1>4. ModelPlaceOK BY DEF ModelPlaceOK, ModelActive
  <1>5. ModelBudgetOK BY <1>2, ModelFinite DEF ModelBudgetOK
  <1>6. ModelBreakerOK
    <2>1. Model!Concurrency * (CallRetries + 1) \in Nat BY ModelFinite
    <2> QED BY <1>2, <2>1 DEF ModelBreakerOK, ModelBound
  <1> QED BY <1>3, <1>4, <1>5, <1>6 DEF ModelIInv

LEMMA ModelNumbers ==
  ASSUME Model!ConstantsOK, Model!TypeOK
  PROVE  /\ ModelBound \in Int /\ Model!Concurrency * (CallRetries + 1) \in Nat /\ spent \in Nat
         /\ \A p \in Model!Planned : failures[p] \in Nat
         /\ Threshold \in Nat /\ DailyLimit \in Nat /\ CallRetries \in Nat
  <1>1. Model!Concurrency * (CallRetries + 1) \in Nat BY ModelFinite DEF Model!ConstantsOK
  <1> QED BY <1>1 DEF Model!ConstantsOK, ModelBound, Model!TypeOK

\* A step that charges nothing, adds no failure and chooses no profile of the plan.
LEMMA ModelQuietOK ==
  ASSUME Model!ConstantsOK, ModelIInv, Model!TypeOK', spent' = spent,
        \A p \in Model!Planned : failures'[p] <= failures[p],
         ModelUncharged' \subseteq ModelUncharged,
               \A p \in Model!Planned : ModelLeft(p)' \subseteq ModelLeft(p)
  PROVE  ModelBudgetOK' /\ ModelBreakerOK'
  <1>1. Cardinality(ModelUncharged') <= Cardinality(ModelUncharged)
        /\ Cardinality(ModelUncharged') \in Nat
    BY ModelFinite, NoMore
  <1>2. ModelBudgetOK' BY <1>1, ModelFinite, ModelNumbers DEF ModelIInv, ModelBudgetOK
  <1>3. ASSUME NEW p \in Model!Planned PROVE failures'[p] + Cardinality(ModelLeft(p)') <= ModelBound
    <2>1. Cardinality(ModelLeft(p)') <= Cardinality(ModelLeft(p))
          /\ Cardinality(ModelLeft(p)') \in Nat
      BY ModelFinite, NoMore
    <2>2. failures[p] \in Nat /\ failures'[p] \in Nat
          /\ failures[p] + Cardinality(ModelLeft(p)) <= ModelBound
      BY DEF ModelIInv, ModelBreakerOK, Model!TypeOK
    <2> QED BY <2>1, <2>2, ModelFinite, ModelNumbers DEF ModelIInv
  <1> QED BY <1>2, <1>3 DEF ModelBreakerOK

\* A failed attempt: one failure more, one attempt less.
LEMMA ModelFailedOK ==
  ASSUME Model!ConstantsOK, ModelIInv, Model!TypeOK', NEW r \in ModelRequests,
        NEW p \in Model!Planned \cup {"local"},
         phase[r] = "calling", profile[r] = p, Model!RecordFailure(p),
         spent' = spent, ModelUncharged' \subseteq ModelUncharged,
               \A q \in Model!Planned : ModelLeft(q)' \subseteq ModelLeft(q),
         \A n \in {attempt[r] + 1} : <<r, n>> \notin ModelLeft(p)'
  PROVE  ModelBudgetOK' /\ ModelBreakerOK'
  <1>1. CASE p = "local" BY <1>1, ModelQuietOK, ModelNumbers DEF Model!RecordFailure, ModelIInv
  <1>2. CASE p # "local"
    <2>1. p \in Model!Planned BY <1>2
    <2>2. failures' = [failures EXCEPT ![p] = @ + 1] BY <1>2 DEF Model!RecordFailure
    <2>3. <<r, attempt[r] + 1>> \in ModelLeft(p)
      <3>1. attempt[r] \in 0..CallRetries /\ CallRetries \in Nat
        BY DEF ModelIInv, Model!TypeOK, Model!ConstantsOK
      <3>2. ModelAhead(r) = attempt[r] BY <3>1 DEF ModelAhead
      <3> QED BY <3>1, <3>2 DEF ModelLeft, ModelAttempts, ModelActive
    <2>4. Cardinality(ModelLeft(p)') <= Cardinality(ModelLeft(p)) - 1
          /\ Cardinality(ModelLeft(p)') \in Nat
      <3>1. ModelLeft(p)' \subseteq ModelLeft(p) \ {<<r, attempt[r] + 1>>} BY <1>2, <2>1
      <3> QED BY <2>3, <3>1, ModelFinite, OneLess
    <2>5. Cardinality(ModelUncharged') <= Cardinality(ModelUncharged)
          /\ Cardinality(ModelUncharged') \in Nat
      BY ModelFinite, NoMore
    <2>6. ModelBudgetOK' BY <2>5, ModelFinite, ModelNumbers DEF ModelIInv, ModelBudgetOK
    <2>7. ASSUME NEW q \in Model!Planned
          PROVE failures'[q] + Cardinality(ModelLeft(q)') <= ModelBound
      <3>1. failures[q] \in Nat /\ failures[q] + Cardinality(ModelLeft(q)) <= ModelBound
        BY DEF ModelIInv, ModelBreakerOK, Model!TypeOK
      <3>2. CASE q = p
        <4>1. failures'[q] = failures[q] + 1 BY <2>1, <2>2, <3>2 DEF ModelIInv, Model!TypeOK
        <4>2. Cardinality(ModelLeft(q)') <= Cardinality(ModelLeft(q)) - 1
              /\ Cardinality(ModelLeft(q)') \in Nat
          BY <2>4, <3>2
        <4> QED BY <3>1, <4>1, <4>2, ModelFinite, ModelNumbers DEF ModelIInv
      <3>3. CASE q # p
        <4>1. failures'[q] = failures[q] BY <2>2, <3>3 DEF ModelIInv, Model!TypeOK
        <4>2. Cardinality(ModelLeft(q)') <= Cardinality(ModelLeft(q))
              /\ Cardinality(ModelLeft(q)') \in Nat
          BY ModelFinite, NoMore
        <4> QED BY <3>1, <4>1, <4>2, ModelFinite, ModelNumbers DEF ModelIInv
      <3> QED BY <3>2, <3>3
    <2> QED BY <2>6, <2>7 DEF ModelBreakerOK
  <1> QED BY <1>1, <1>2

LEMMA ModelNextTypes ==
  ASSUME Model!ConstantsOK, ModelIInv, [Model!Next]_(Model!vars)
  PROVE Model!TypeOK' /\ ModelPlaceOK'
  <1> USE DEF Model!ConstantsOK, ModelIInv
  <1>d. Len(Profiles) \in Nat /\ DOMAIN Profiles = 1..Len(Profiles) OBVIOUS
  <1>0. CASE UNCHANGED Model!vars BY <1>0 DEF Model!vars, Model!TypeOK, ModelPlaceOK, ModelActive
  <1> USE DEF Model!TypeOK, ModelPlaceOK, ModelActive
  <1>1. ASSUME NEW r \in ModelRequests, Model!Start(r) PROVE Model!TypeOK' /\ ModelPlaceOK'
    BY <1>d, <1>1 DEF Model!Start
  <1>2. ASSUME NEW r \in ModelRequests, Model!Skip(r) PROVE Model!TypeOK' /\ ModelPlaceOK'
    <2>1. next[r] + 1 \in 1..(Len(Profiles) + 1) BY <1>d, <1>2 DEF Model!Skip
    <2>2. next' \in [ModelRequests -> 1..(Len(Profiles) + 1)] BY <1>2, <2>1 DEF Model!Skip
    <2> QED BY <1>2, <2>2 DEF Model!Skip
  <1>3. ASSUME NEW r \in ModelRequests, Model!Choose(r) PROVE Model!TypeOK' /\ ModelPlaceOK'
    <2>1. Profiles[next[r]] \in Model!Planned BY <1>3 DEF Model!Choose, Model!Planned
    <2>2. failures' \in [Model!Planned -> Nat] BY <1>3 DEF Model!Choose, Model!ResetIfDue
    <2>3. ASSUME NEW p \in Model!Planned \cup {"local"}, Model!Use(r, p), UNCHANGED <<since, spent>>
          PROVE Model!TypeOK' /\ ModelPlaceOK'
      BY <1>d, <1>3, <2>2, <2>3 DEF Model!Use, Model!Choose
    <2>4. CASE phase' = [phase EXCEPT ![r] = "idle"]
               /\ UNCHANGED <<next, profile, attempt, since, spent>>
      BY <2>2, <2>4
    <2> QED BY <1>3, <2>1, <2>3, <2>4 DEF Model!Choose
  <1>4. ASSUME NEW r \in ModelRequests, Model!AllFailed(r) \/ Model!Cached(r) \/ Model!Cancel(r)
        PROVE Model!TypeOK' /\ ModelPlaceOK'
    BY <1>4 DEF Model!AllFailed, Model!Cached, Model!Cancel
  <1>5. ASSUME NEW r \in ModelRequests, Model!Succeed(r) PROVE Model!TypeOK' /\ ModelPlaceOK'
    <2>1. failures' \in [Model!Planned -> Nat]
      <3>1. CASE profile[r] = "local" BY <1>5, <3>1 DEF Model!Succeed
      <3>2. CASE profile[r] # "local"
        <4>1. PICK p \in Model!Planned : p = profile[r] BY <3>2
        <4>2. failures' = [failures EXCEPT ![p] = 0] BY <1>5, <3>2, <4>1 DEF Model!Succeed
        <4> QED BY <4>2
      <3> QED BY <3>1, <3>2
    <2>2. spent \in Nat /\ spent' \in {spent, spent + 1} BY <1>5 DEF Model!Succeed
    <2>3. spent' \in Nat BY <2>2
    <2> QED BY <1>5, <2>1, <2>3 DEF Model!Succeed
  <1>6. ASSUME NEW r \in ModelRequests, Model!RecordFailure(profile[r])
        PROVE  failures' \in [Model!Planned -> Nat] /\ since' \in [Model!Planned -> 0..ResetTicks]
    <2>1. CASE profile[r] = "local" BY <1>6, <2>1 DEF Model!RecordFailure
    <2>2. CASE profile[r] # "local"
      <3>1. PICK p \in Model!Planned : p = profile[r] BY <2>2
      <3>2. failures[p] \in Nat /\ failures[p] + 1 \in Nat /\ 0 \in 0..ResetTicks OBVIOUS
      <3>3. failures' = [failures EXCEPT ![p] = failures[p] + 1] /\ since' = [since EXCEPT ![p] = 0]
        BY <1>6, <2>2, <3>1 DEF Model!RecordFailure
      <3> QED BY <3>2, <3>3
    <2> QED BY <2>1, <2>2
  <1>7. ASSUME NEW r \in ModelRequests, Model!FailRetry(r) PROVE Model!TypeOK' /\ ModelPlaceOK'
    BY <1>6, <1>7 DEF Model!FailRetry
  <1>8. ASSUME NEW r \in ModelRequests, Model!FailNext(r) PROVE Model!TypeOK' /\ ModelPlaceOK'
    <2>1. next[r] + 1 \in 1..(Len(Profiles) + 1) BY <1>d, <1>8 DEF Model!FailNext
    <2>2. next' \in [ModelRequests -> 1..(Len(Profiles) + 1)] BY <1>8, <2>1 DEF Model!FailNext
    <2>3. failures' \in [Model!Planned -> Nat] /\ since' \in [Model!Planned -> 0..ResetTicks]
      BY <1>6, <1>8 DEF Model!FailNext
    <2> QED BY <1>8, <2>2, <2>3 DEF Model!FailNext
  <1>9. ASSUME NEW r \in ModelRequests, Model!FailOutright(r) PROVE Model!TypeOK' /\ ModelPlaceOK'
    BY <1>6, <1>9 DEF Model!FailOutright
  <1>10. ASSUME NEW r \in ModelRequests, Model!Retry(r) PROVE Model!TypeOK' /\ ModelPlaceOK'
    <2>1. attempt[r] + 1 \in 0..CallRetries BY <1>10 DEF Model!Retry
    <2>2. attempt' \in [ModelRequests -> 0..CallRetries] BY <1>10, <2>1 DEF Model!Retry
    <2> QED BY <1>10, <2>2 DEF Model!Retry
  <1>11. CASE Model!Tick BY <1>11 DEF Model!Tick, Model!call
  <1> QED BY <1>0, <1>1, <1>2, <1>3, <1>4, <1>5, <1>7, <1>8, <1>9, <1>10, <1>11 DEF Model!Next

LEMMA ModelNextBounds ==
  ASSUME Model!ConstantsOK, ModelIInv, [Model!Next]_(Model!vars)
  PROVE ModelBudgetOK' /\ ModelBreakerOK'
  <1> USE DEF Model!ConstantsOK
  <1>t. Model!TypeOK' BY ModelNextTypes
  <1>n. \A p \in Model!Planned : failures[p] \in Nat BY ModelNumbers DEF ModelIInv
  <1>0. CASE UNCHANGED Model!vars
    <2>1. ModelUncharged' \subseteq ModelUncharged
      BY <1>0 DEF Model!vars, ModelUncharged, ModelActive
    <2>2. \A p \in Model!Planned : ModelLeft(p)' \subseteq ModelLeft(p)
      BY <1>0 DEF Model!vars, ModelLeft, ModelActive, ModelAhead
    <2> QED BY <1>t, <1>n, <1>0, <2>1, <2>2, ModelQuietOK DEF Model!vars
  <1>1. ASSUME NEW r \in ModelRequests, Model!Start(r) \/ Model!Skip(r) \/ Model!AllFailed(r)
               \/ Model!Cached(r) \/ Model!Cancel(r)
        PROVE  ModelBudgetOK' /\ ModelBreakerOK'
    <2>0. /\ UNCHANGED <<failures, spent, profile, attempt>>
          /\ \A q \in ModelRequests : phase'[q] = phase[q] \/ phase'[q] \in {"idle", "selecting"}
      BY <1>1 DEF Model!Start, Model!Skip, Model!AllFailed, Model!Cached, Model!Cancel, ModelIInv,
          Model!TypeOK
    <2>1. ModelUncharged' \subseteq ModelUncharged BY <2>0 DEF ModelUncharged, ModelActive
    <2>2. \A p \in Model!Planned : ModelLeft(p)' \subseteq ModelLeft(p)
      BY <2>0 DEF ModelLeft, ModelActive, ModelAhead, ModelAttempts
    <2> QED BY <1>t, <1>n, <2>0, <2>1, <2>2, ModelQuietOK
  <1>2. ASSUME NEW r \in ModelRequests, Model!Choose(r) PROVE ModelBudgetOK' /\ ModelBreakerOK'
    <2> DEFINE p == Profiles[next[r]]
    <2>0. /\ p \in Model!Planned /\ phase[r] = "selecting" /\ spent' = spent
             /\ ~Model!CircuitOpen(p)
          /\ failures' = [failures EXCEPT ![p] = IF Model!Tripped(p)
             /\ ~Model!CircuitOpen(p) THEN 0 ELSE @]
      BY <1>2 DEF Model!Choose, Model!ResetIfDue, Model!Planned
    <2>1. /\ \A q \in Model!Planned : failures'[q] <= failures[q]
          /\ failures'[p] \in Nat /\ failures'[p] <= Threshold - 1
      BY <1>n, <2>0 DEF Model!Tripped, ModelIInv, Model!TypeOK
    <2>2. CASE ~Model!OverBudget /\ Model!Use(r, p)
      <3>1. spent + 1 <= DailyLimit BY <2>2, ModelNumbers DEF Model!OverBudget, ModelIInv
      <3>2. Cardinality(ModelUncharged') <= Model!Concurrency
            /\ Cardinality(ModelUncharged') \in Nat
        BY NoMore, ModelSameSets DEF ModelUncharged, Model!Concurrency
      <3>3. ModelBudgetOK'
        BY <2>0, <3>1, <3>2, ModelFinite, ModelNumbers DEF ModelBudgetOK, ModelIInv
      <3>4. ASSUME NEW q \in Model!Planned
            PROVE failures'[q] + Cardinality(ModelLeft(q)') <= ModelBound
        <4>1. ModelLeft(q)' \subseteq ModelAttempts BY DEF ModelLeft
        <4>2. IsFiniteSet(ModelAttempts)
              /\ Cardinality(ModelAttempts) = Model!Concurrency * (CallRetries + 1)
          BY ModelAttemptsFinite
        <4>3. Cardinality(ModelLeft(q)') <= Model!Concurrency * (CallRetries + 1)
              /\ Cardinality(ModelLeft(q)') \in Nat
          BY <4>1, <4>2, NoMore
        <4>4. CASE q = p BY <2>1, <4>3, <4>4, ModelNumbers DEF ModelBound, ModelIInv
        <4>5. CASE q # p
          <5>1. ModelLeft(q)' \subseteq ModelLeft(q)
            BY <2>0, <2>2, <4>5 DEF Model!Use, ModelLeft, ModelActive, ModelAhead, ModelAttempts,
                ModelIInv, Model!TypeOK
          <5>2. Cardinality(ModelLeft(q)') <= Cardinality(ModelLeft(q)) BY <5>1, ModelFinite, NoMore
          <5>3. failures'[q] = failures[q] BY <2>0, <4>5 DEF ModelIInv, Model!TypeOK
          <5> QED BY <1>n, <4>3, <5>2, <5>3, ModelFinite, ModelNumbers DEF ModelIInv, ModelBreakerOK
        <4> QED BY <4>4, <4>5
      <3> QED BY <3>3, <3>4 DEF ModelBreakerOK
    <2>3. CASE Model!Use(r, "local")
      <3>1. ModelUncharged' \subseteq ModelUncharged
        BY <2>0, <2>3 DEF Model!Use, ModelUncharged, ModelActive, ModelIInv, Model!TypeOK
      <3>2. \A q \in Model!Planned : ModelLeft(q)' \subseteq ModelLeft(q)
        BY <2>0, <2>3 DEF Model!Use, ModelLeft, ModelActive, ModelAhead, ModelAttempts, ModelIInv,
            Model!TypeOK
      <3> QED BY <1>t, <2>0, <2>1, <3>1, <3>2, ModelQuietOK
    <2>4. CASE phase' = [phase EXCEPT ![r] = "idle"] /\ UNCHANGED <<next, profile, attempt>>
      <3>1. ModelUncharged' \subseteq ModelUncharged
        BY <2>4 DEF ModelUncharged, ModelActive, ModelIInv, Model!TypeOK
      <3>2. \A q \in Model!Planned : ModelLeft(q)' \subseteq ModelLeft(q)
        BY <2>4 DEF ModelLeft, ModelActive, ModelAhead, ModelAttempts, ModelIInv, Model!TypeOK
      <3> QED BY <1>t, <2>0, <2>1, <3>1, <3>2, ModelQuietOK
    <2> QED BY <1>2, <2>2, <2>3, <2>4 DEF Model!Choose
  <1>3. ASSUME NEW r \in ModelRequests, Model!Succeed(r) PROVE ModelBudgetOK' /\ ModelBreakerOK'
    <2>0. phase[r] = "calling" /\ phase' = [phase EXCEPT ![r] = "idle"]
          /\ UNCHANGED <<profile, attempt>>
      BY <1>3 DEF Model!Succeed
    <2>1. ModelUncharged' \subseteq ModelUncharged /\ r \notin ModelUncharged'
      BY <2>0 DEF ModelUncharged, ModelActive, ModelIInv, Model!TypeOK
    <2>2. \A p \in Model!Planned : ModelLeft(p)' \subseteq ModelLeft(p)
      BY <2>0 DEF ModelLeft, ModelActive, ModelAhead, ModelAttempts, ModelIInv, Model!TypeOK
    <2>3. CASE profile[r] = "local"
      BY <1>t, <1>n, <1>3, <2>1, <2>2, <2>3, ModelQuietOK DEF Model!Succeed
    <2>4. CASE profile[r] # "local"
      <3>1. spent' = spent + 1 /\ failures' = [failures EXCEPT ![profile[r]] = 0]
        BY <1>3, <2>4 DEF Model!Succeed
      <3>2. r \in ModelUncharged /\ ModelUncharged' \subseteq ModelUncharged \ {r}
        BY <2>0, <2>1, <2>4 DEF ModelUncharged, ModelActive
      <3>3. Cardinality(ModelUncharged') <= Cardinality(ModelUncharged) - 1
            /\ Cardinality(ModelUncharged') \in Nat
        BY <3>2, ModelFinite, OneLess
      <3>4. ModelBudgetOK' BY <3>1, <3>3, ModelFinite, ModelNumbers DEF ModelIInv, ModelBudgetOK
      <3>5. ASSUME NEW p \in Model!Planned
            PROVE failures'[p] + Cardinality(ModelLeft(p)') <= ModelBound
        <4>1. failures'[p] \in Nat /\ failures'[p] <= failures[p]
          BY <1>n, <3>1 DEF ModelIInv, Model!TypeOK
        <4>2. Cardinality(ModelLeft(p)') <= Cardinality(ModelLeft(p))
              /\ Cardinality(ModelLeft(p)') \in Nat
          BY <2>2, ModelFinite, NoMore
        <4>3. failures[p] + Cardinality(ModelLeft(p)) <= ModelBound BY DEF ModelIInv, ModelBreakerOK
        <4> QED BY <1>n, <4>1, <4>2, <4>3, ModelFinite, ModelNumbers DEF ModelIInv
      <3> QED BY <3>4, <3>5 DEF ModelBreakerOK
    <2> QED BY <2>3, <2>4
  <1>4. ASSUME NEW r \in ModelRequests, Model!FailRetry(r) PROVE ModelBudgetOK' /\ ModelBreakerOK'
    <2>0. /\ phase[r] = "calling" /\ Model!RecordFailure(profile[r])
             /\ phase' = [phase EXCEPT ![r] = "sleeping"]
          /\ UNCHANGED <<spent, profile, attempt>>
      BY <1>4 DEF Model!FailRetry
    <2>1. ModelUncharged' \subseteq ModelUncharged
      BY <2>0 DEF ModelUncharged, ModelActive, ModelIInv, Model!TypeOK
    <2>2. \A p \in Model!Planned : ModelLeft(p)' \subseteq ModelLeft(p)
      BY <2>0 DEF ModelLeft, ModelActive, ModelAhead, ModelAttempts, ModelIInv, Model!TypeOK
    <2>3. PICK p \in Model!Planned \cup {"local"} : p = profile[r] BY DEF ModelIInv, Model!TypeOK
    <2>4. \A k \in {attempt[r] + 1} : <<r, k>> \notin ModelLeft(p)'
      BY <2>0 DEF ModelLeft, ModelActive, ModelAhead, ModelAttempts, ModelIInv, Model!TypeOK
    <2> QED BY <1>t, <2>0, <2>1, <2>2, <2>3, <2>4, ModelFailedOK
  <1>5. ASSUME NEW r \in ModelRequests, Model!FailNext(r) \/ Model!FailOutright(r)
        PROVE ModelBudgetOK' /\ ModelBreakerOK'
    <2>0. /\ phase[r] = "calling" /\ Model!RecordFailure(profile[r])
          /\ phase' \in {[phase EXCEPT ![r] = "selecting"], [phase EXCEPT ![r] = "idle"]}
          /\ UNCHANGED <<spent, profile, attempt>>
      BY <1>5 DEF Model!FailNext, Model!FailOutright
    <2>1. ModelUncharged' \subseteq ModelUncharged
      BY <2>0 DEF ModelUncharged, ModelActive, ModelIInv, Model!TypeOK
    <2>2. \A p \in Model!Planned : ModelLeft(p)' \subseteq ModelLeft(p)
      BY <2>0 DEF ModelLeft, ModelActive, ModelAhead, ModelAttempts, ModelIInv, Model!TypeOK
    <2>3. PICK p \in Model!Planned \cup {"local"} : p = profile[r] BY DEF ModelIInv, Model!TypeOK
    <2>4. \A k \in {attempt[r] + 1} : <<r, k>> \notin ModelLeft(p)'
      BY <2>0 DEF ModelLeft, ModelActive, ModelAttempts, ModelIInv, Model!TypeOK
    <2> QED BY <1>t, <2>0, <2>1, <2>2, <2>3, <2>4, ModelFailedOK
  <1>6. ASSUME NEW r \in ModelRequests, Model!Retry(r) PROVE ModelBudgetOK' /\ ModelBreakerOK'
    <2>0. /\ phase[r] = "sleeping" /\ phase' = [phase EXCEPT ![r] = "calling"]
          /\ attempt' = [attempt EXCEPT ![r] = @ + 1] /\ UNCHANGED <<failures, spent, profile>>
      BY <1>6 DEF Model!Retry
    <2>1. ModelUncharged' \subseteq ModelUncharged
      BY <2>0 DEF ModelUncharged, ModelActive, ModelIInv, Model!TypeOK
    <2>2. \A q \in ModelRequests : ModelAhead(q)' = ModelAhead(q)
      BY <2>0 DEF ModelAhead, ModelIInv, Model!TypeOK
    <2>3. \A p \in Model!Planned : ModelLeft(p)' \subseteq ModelLeft(p)
      BY <2>0, <2>2 DEF ModelLeft, ModelActive, ModelAttempts, ModelIInv, Model!TypeOK
    <2> QED BY <1>t, <1>n, <2>0, <2>1, <2>3, ModelQuietOK
  <1>7. CASE Model!Tick
    <2>1. ModelUncharged' \subseteq ModelUncharged
      BY <1>7 DEF Model!Tick, Model!call, ModelUncharged, ModelActive
    <2>2. \A p \in Model!Planned : ModelLeft(p)' \subseteq ModelLeft(p)
      BY <1>7 DEF Model!Tick, Model!call, ModelLeft, ModelActive, ModelAhead
    <2> QED BY <1>t, <1>n, <1>7, <2>1, <2>2, ModelQuietOK DEF Model!Tick
  <1> QED BY <1>0, <1>1, <1>2, <1>3, <1>4, <1>5, <1>6, <1>7 DEF Model!Next

LEMMA ModelIInvHolds == ASSUME Model!ConstantsOK PROVE Model!Spec => []ModelIInv
  <1>1. Model!Init => ModelIInv BY ModelInitIInv
  <1>2. ModelIInv /\ [Model!Next]_(Model!vars) => ModelIInv'
    BY ModelNextTypes, ModelNextBounds DEF ModelIInv
  <1> QED BY <1>1, <1>2, PTL DEF Model!Spec

LEMMA ModelCallsAreBounded ==
  ASSUME Model!ConstantsOK, ModelIInv PROVE Model!OverspendBounded /\ Model!FailuresBounded
  <1>1. Model!OverspendBounded
    BY ModelFinite, ModelNumbers DEF ModelIInv, ModelBudgetOK, Model!OverspendBounded,
        Model!ConstantsOK
  <1>2. ASSUME NEW p \in Model!Planned PROVE failures[p] <= ModelBound
    BY ModelFinite, ModelNumbers DEF ModelIInv, ModelBreakerOK
  <1>3. Model!FailuresBounded BY <1>2 DEF Model!FailuresBounded, ModelBound
  <1> QED BY <1>1, <1>3

-----------------------------------------------------------------------------
(* Request slots *)

\* The instance has the finite sets of this module.
LEMMA SlotsSameSets == ASSUME NEW S
  PROVE (Slots!IsFiniteSet(S) <=> IsFiniteSet(S)) /\ Slots!Cardinality(S) = Cardinality(S)
  BY Zenon DEF Slots!IsFiniteSet, IsFiniteSet, Slots!Cardinality, Cardinality

SlotsHolders == {r \in Requests : place[r] \in Slots!Holding}
SlotsHoldersOf(k) == {r \in Requests : place[r] \in Slots!Holding /\ Class[r] = k}

SlotsCountOK ==
    /\ total = Cardinality(SlotsHolders)
    /\ \A k \in Slots!Classes : byClass[k] = Cardinality(SlotsHoldersOf(k))

SlotsIInv == Slots!TypeOK /\ SlotsCountOK

LEMMA SlotsFinite == ASSUME Slots!ConstantsOK
  PROVE  /\ IsFiniteSet(SlotsHolders) /\ Cardinality(SlotsHolders) \in Nat
         /\ \A k \in Slots!Classes : IsFiniteSet(SlotsHoldersOf(k))
            /\ Cardinality(SlotsHoldersOf(k)) \in Nat
  <1>1. SlotsHolders \subseteq Requests
        /\ \A k \in Slots!Classes : SlotsHoldersOf(k) \subseteq Requests
    BY DEF SlotsHolders, SlotsHoldersOf
  <1> QED BY <1>1, FS_Subset, FS_CardinalityType, SlotsSameSets DEF Slots!ConstantsOK

\* A request that moves between places that hold a slot, or that hold none.
LEMMA SlotsSameHolders ==
  ASSUME Slots!ConstantsOK, SlotsIInv, UNCHANGED <<total, byClass>>,
         \A r \in Requests : place'[r] \in Slots!Holding <=> place[r] \in Slots!Holding
  PROVE  SlotsCountOK'
  <1>1. SlotsHolders' = SlotsHolders
        /\ \A k \in Slots!Classes : SlotsHoldersOf(k)' = SlotsHoldersOf(k)
    BY DEF SlotsHolders, SlotsHoldersOf
  <1> QED BY <1>1 DEF SlotsIInv, SlotsCountOK

LEMMA SlotsAcquireOK ==
  ASSUME Slots!ConstantsOK, SlotsIInv, NEW r \in Requests, place[r] = "arriving",
        Slots!Acquire(r), Slots!Move(r, "reading")
  PROVE  total' \in Nat /\ byClass' \in [Slots!Classes -> Nat] /\ SlotsCountOK'
  <1> USE DEF Slots!Holding
  <1>t. total \in Nat /\ byClass \in [Slots!Classes -> Nat]
        /\ place \in [Requests -> Slots!Holding \cup {"arriving", "ended"}]
    BY DEF SlotsIInv, Slots!TypeOK
  <1>c. PICK c \in Slots!Classes : c = Class[r] BY DEF Slots!ConstantsOK
  <1>1. total' = total + 1 /\ byClass' = [byClass EXCEPT ![c] = byClass[c] + 1]
        /\ byClass[c] \in Nat
    BY <1>c, <1>t DEF Slots!Acquire
  <1>2. place' = [place EXCEPT ![r] = "reading"] BY DEF Slots!Move
  <1>3. SlotsHolders' = SlotsHolders \cup {r} /\ r \notin SlotsHolders
    BY <1>2, <1>t DEF SlotsHolders
  <1>4. Cardinality(SlotsHolders') = Cardinality(SlotsHolders) + 1 BY <1>3, OneMore, SlotsFinite
  <1>5. SlotsHoldersOf(c)' = SlotsHoldersOf(c) \cup {r} /\ r \notin SlotsHoldersOf(c)
    BY <1>2, <1>t, <1>c DEF SlotsHoldersOf
  <1>6. Cardinality(SlotsHoldersOf(c)') = Cardinality(SlotsHoldersOf(c)) + 1
    BY <1>5, OneMore, SlotsFinite
  <1>7. ASSUME NEW k \in Slots!Classes PROVE byClass'[k] = Cardinality(SlotsHoldersOf(k)')
    <2>1. byClass[k] = Cardinality(SlotsHoldersOf(k)) BY DEF SlotsIInv, SlotsCountOK
    <2>2. CASE k = c BY <1>1, <1>6, <1>t, <2>1, <2>2
    <2>3. CASE k # c
      <3>1. SlotsHoldersOf(k)' = SlotsHoldersOf(k) BY <1>2, <1>t, <1>c, <2>3 DEF SlotsHoldersOf
      <3>2. byClass'[k] = byClass[k] BY <1>1, <1>t, <2>3
      <3> QED BY <2>1, <3>1, <3>2
    <2> QED BY <2>2, <2>3
  <1>8. total' = Cardinality(SlotsHolders') BY <1>1, <1>4 DEF SlotsIInv, SlotsCountOK
  <1>9. SlotsCountOK' BY <1>7, <1>8 DEF SlotsCountOK
  <1> QED BY <1>1, <1>t, <1>9

LEMMA SlotsReleaseOK ==
  ASSUME Slots!ConstantsOK, SlotsIInv, NEW r \in Requests, place[r] \in Slots!Holding,
        Slots!Release(r), Slots!Move(r, "ended")
  PROVE  total' \in Nat /\ byClass' \in [Slots!Classes -> Nat] /\ SlotsCountOK'
  <1> USE DEF Slots!Holding
  <1>t. total \in Nat /\ byClass \in [Slots!Classes -> Nat]
        /\ place \in [Requests -> Slots!Holding \cup {"arriving", "ended"}]
    BY DEF SlotsIInv, Slots!TypeOK
  <1>c. PICK c \in Slots!Classes : c = Class[r] BY DEF Slots!ConstantsOK
  <1>2. place' = [place EXCEPT ![r] = "ended"] BY DEF Slots!Move
  <1>3. SlotsHolders' = SlotsHolders \ {r} /\ r \in SlotsHolders BY <1>2, <1>t DEF SlotsHolders
  <1>4. Cardinality(SlotsHolders') = Cardinality(SlotsHolders) - 1
        /\ Cardinality(SlotsHolders') \in Nat
    BY <1>3, OneLess, SlotsFinite
  <1>5. SlotsHoldersOf(c)' = SlotsHoldersOf(c) \ {r} /\ r \in SlotsHoldersOf(c)
    BY <1>2, <1>t, <1>c DEF SlotsHoldersOf
  <1>6. Cardinality(SlotsHoldersOf(c)') = Cardinality(SlotsHoldersOf(c)) - 1
        /\ Cardinality(SlotsHoldersOf(c)') \in Nat
    BY <1>5, OneLess, SlotsFinite
  <1>e. total = Cardinality(SlotsHolders) /\ byClass[c] = Cardinality(SlotsHoldersOf(c))
    BY DEF SlotsIInv, SlotsCountOK
  <1>n. Cardinality(SlotsHolders) \in Nat /\ Cardinality(SlotsHoldersOf(c)) \in Nat BY SlotsFinite
  <1>p. total > 0 /\ byClass[c] > 0 BY <1>4, <1>6, <1>e, <1>n
  <1>1. total' = total - 1 /\ byClass' = [byClass EXCEPT ![c] = byClass[c] - 1]
        /\ byClass[c] - 1 \in Nat
    <2>1. byClass[c] \in Nat /\ byClass[c] - 1 \in Nat BY <1>t, <1>p
    <2>2. byClass' = [byClass EXCEPT ![c] = IF byClass[c] > 0 THEN byClass[c] - 1 ELSE 0]
      BY <1>c DEF Slots!Release
    <2>3. byClass' = [byClass EXCEPT ![c] = byClass[c] - 1] BY <1>p, <2>2
    <2>4. total' = total - 1 BY <1>p DEF Slots!Release
    <2> QED BY <2>1, <2>3, <2>4
  <1>7. ASSUME NEW k \in Slots!Classes PROVE byClass'[k] = Cardinality(SlotsHoldersOf(k)')
    <2>1. byClass[k] = Cardinality(SlotsHoldersOf(k)) BY DEF SlotsIInv, SlotsCountOK
    <2>2. CASE k = c BY <1>1, <1>6, <1>t, <2>1, <2>2
    <2>3. CASE k # c
      <3>1. SlotsHoldersOf(k)' = SlotsHoldersOf(k) BY <1>2, <1>t, <1>c, <2>3 DEF SlotsHoldersOf
      <3>2. byClass'[k] = byClass[k] BY <1>1, <1>t, <2>3
      <3> QED BY <2>1, <3>1, <3>2
    <2> QED BY <2>2, <2>3
  <1>8. total' = Cardinality(SlotsHolders') BY <1>1, <1>4, <1>e
  <1>9. SlotsCountOK' BY <1>7, <1>8 DEF SlotsCountOK
  <1> QED BY <1>1, <1>t, <1>p, <1>9

LEMMA SlotsTouchTypes ==
  ASSUME Slots!ConstantsOK, SlotsIInv, NEW bs, Slots!Touch(bs)
  PROVE  bucket' \in [Slots!Buckets -> Nat] /\ window' \in [Slots!Buckets -> 0..WindowTicks]
  <1>1. bucket \in [Slots!Buckets -> Nat] /\ window \in [Slots!Buckets -> 0..WindowTicks]
    BY DEF SlotsIInv, Slots!TypeOK
  <1>2. WindowTicks \in 0..WindowTicks BY DEF Slots!ConstantsOK
  <1>3. \A b \in Slots!Buckets : Slots!Counted(b) \in Nat BY <1>1 DEF Slots!Counted
  <1>4. \A b \in Slots!Buckets : Slots!Counted(b) + 1 \in Nat BY <1>3
  <1> QED BY <1>1, <1>2, <1>4 DEF Slots!Touch

LEMMA SlotsNextIInv ==
  ASSUME Slots!ConstantsOK, SlotsIInv, [Slots!Next]_(Slots!vars) PROVE SlotsIInv'
  <1>t. Slots!TypeOK /\ postgres' = postgres BY DEF SlotsIInv, Slots!Next, Slots!vars
  <1>0. CASE UNCHANGED Slots!vars BY <1>0, SlotsSameHolders DEF Slots!vars, SlotsIInv, Slots!TypeOK
  <1>1. ASSUME NEW r \in Requests, Slots!Admit(r) PROVE SlotsIInv'
    <2>1. bucket' \in [Slots!Buckets -> Nat] /\ window' \in [Slots!Buckets -> 0..WindowTicks]
      BY <1>1, SlotsTouchTypes DEF Slots!Admit
    <2>2. CASE Slots!Acquire(r) /\ Slots!Move(r, "reading")
      BY <1>1, <1>t, <2>1, <2>2, SlotsAcquireOK DEF Slots!Admit, SlotsIInv, Slots!TypeOK,
          Slots!Move, Slots!Holding
    <2>3. CASE UNCHANGED <<total, byClass>> /\ Slots!Move(r, "ended")
      <3>1. SlotsCountOK'
        BY <1>1, <1>t, <2>3, SlotsSameHolders DEF Slots!Admit, Slots!TypeOK, Slots!Move,
            Slots!Holding
      <3> QED BY <1>t, <2>1, <2>3, <3>1 DEF SlotsIInv, Slots!TypeOK, Slots!Move, Slots!Holding
    <2> QED BY <1>1, <2>2, <2>3 DEF Slots!Admit
  <1>2. ASSUME NEW r \in Requests, Slots!BodyRead(r) PROVE SlotsIInv'
    <2>1. SlotsCountOK'
      BY <1>2, <1>t, SlotsSameHolders DEF Slots!BodyRead, Slots!TypeOK, Slots!Move, Slots!Holding
    <2> QED BY <1>2, <1>t, <2>1 DEF Slots!BodyRead, SlotsIInv, Slots!TypeOK, Slots!Move,
        Slots!Holding
  <1>3. ASSUME NEW r \in Requests, Slots!BodyFails(r) PROVE SlotsIInv'
    BY <1>3, <1>t, SlotsReleaseOK DEF Slots!BodyFails, SlotsIInv, Slots!TypeOK, Slots!Move,
        Slots!Holding
  <1>4. ASSUME NEW r \in Requests, Slots!Authenticate(r) PROVE SlotsIInv'
    <2>1. bucket' \in [Slots!Buckets -> Nat] /\ window' \in [Slots!Buckets -> 0..WindowTicks]
      BY <1>4, SlotsTouchTypes DEF Slots!Authenticate
    <2>2. SlotsCountOK'
      BY <1>4, <1>t, SlotsSameHolders DEF Slots!Authenticate, Slots!TypeOK, Slots!Move,
          Slots!Holding
    <2> QED BY <1>4, <1>t, <2>1, <2>2 DEF Slots!Authenticate, SlotsIInv, Slots!TypeOK, Slots!Move,
        Slots!Holding
  <1>5. ASSUME NEW r \in Requests, Slots!Finish(r) PROVE SlotsIInv'
    BY <1>5, <1>t, SlotsReleaseOK DEF Slots!Finish, SlotsIInv, Slots!TypeOK, Slots!Move,
        Slots!Holding
  <1>6. CASE Slots!Tick
    <2>1. SlotsCountOK' BY <1>6, SlotsSameHolders DEF Slots!Tick
    <2>2. window' \in [Slots!Buckets -> 0..WindowTicks]
      BY <1>6, <1>t DEF Slots!Tick, Slots!TypeOK, Slots!ConstantsOK
    <2> QED BY <1>6, <1>t, <2>1, <2>2 DEF Slots!Tick, SlotsIInv, Slots!TypeOK
  <1> QED BY <1>0, <1>1, <1>2, <1>3, <1>4, <1>5, <1>6 DEF Slots!Next

LEMMA SlotsIInvHolds == ASSUME Slots!ConstantsOK PROVE Slots!Spec => []SlotsIInv
  <1>1. Slots!Init => SlotsIInv
    <2> SUFFICES ASSUME Slots!Init PROVE SlotsIInv OBVIOUS
    <2>1. SlotsHolders = {} /\ \A k \in Slots!Classes : SlotsHoldersOf(k) = {}
      BY DEF Slots!Init, SlotsHolders, SlotsHoldersOf, Slots!Holding
    <2>2. SlotsCountOK BY <2>1, FS_EmptySet DEF Slots!Init, SlotsCountOK
    <2>3. Slots!TypeOK BY DEF Slots!Init, Slots!TypeOK, Slots!ConstantsOK, Slots!Holding
    <2> QED BY <2>2, <2>3 DEF SlotsIInv
  <1> QED BY <1>1, SlotsNextIInv, PTL DEF Slots!Spec

LEMMA SlotsHoldersCounted == SlotsIInv => Slots!SlotsAccounted
  BY SlotsSameSets DEF SlotsIInv, SlotsCountOK, SlotsHolders, SlotsHoldersOf, Slots!SlotsAccounted

-----------------------------------------------------------------------------
(* The pool of the repositories *)

\* The instance has the finite sets of this module.
LEMMA PoolSameSets == ASSUME NEW S
  PROVE (Pool!IsFiniteSet(S) <=> IsFiniteSet(S)) /\ Pool!Cardinality(S) = Cardinality(S)
  BY Zenon DEF Pool!IsFiniteSet, IsFiniteSet, Pool!Cardinality, Cardinality

PoolAt(s) == {t \in Threads : thread[t] = s}

\* Whoever waits has found no connection, alive or dead, and no room for one.
PoolWaitOK == Pool!Count("waiting") > 0 => dead = 0
PoolIInv == Pool!TypeOK /\ Pool!PoolAccounted /\ Pool!NoLostWakeup /\ PoolWaitOK

LEMMA PoolCounts == ASSUME Pool!ConstantsOK, NEW s
  PROVE  IsFiniteSet(PoolAt(s)) /\ Pool!Count(s) \in Nat /\ Pool!Count(s) = Cardinality(PoolAt(s))
  <1>1. PoolAt(s) \subseteq Threads BY DEF PoolAt
  <1> QED BY <1>1, FS_Subset, FS_CardinalityType, PoolSameSets
    DEF Pool!ConstantsOK, Pool!Count, PoolAt

\* The threads in one place, when t comes, t goes, or neither.
LEMMA PoolStays ==
  ASSUME Pool!ConstantsOK, NEW s, PoolAt(s)' = PoolAt(s) PROVE Pool!Count(s)' = Pool!Count(s)
  BY DEF Pool!Count, PoolAt
LEMMA PoolComes ==
  ASSUME Pool!ConstantsOK, NEW s, NEW t, t \notin PoolAt(s), PoolAt(s)' = PoolAt(s) \cup {t}
  PROVE  Pool!Count(s)' = Pool!Count(s) + 1
  <1>1. Cardinality(PoolAt(s)') = Cardinality(PoolAt(s)) + 1 BY PoolCounts, OneMore
  <1> QED BY <1>1, PoolCounts, PoolSameSets DEF Pool!Count, PoolAt
LEMMA PoolGoes ==
  ASSUME Pool!ConstantsOK, NEW s, NEW t \in PoolAt(s), PoolAt(s)' = PoolAt(s) \ {t}
  PROVE  Pool!Count(s)' = Pool!Count(s) - 1 /\ Pool!Count(s)' \in Nat
  <1>1. Cardinality(PoolAt(s)') = Cardinality(PoolAt(s)) - 1 /\ Cardinality(PoolAt(s)') \in Nat
    BY PoolCounts, OneLess
  <1> QED BY <1>1, PoolCounts, PoolSameSets DEF Pool!Count, PoolAt
LEMMA PoolNobody == ASSUME Pool!ConstantsOK, NEW s, PoolAt(s)' = {} PROVE Pool!Count(s)' = 0
  BY FS_EmptySet, PoolSameSets DEF Pool!Count, PoolAt

\* What the places mean for the numbers.
LEMMA PoolNumbers == ASSUME Pool!ConstantsOK, PoolIInv
  PROVE  /\ MaxSize \in Nat /\ idle \in Nat /\ dead \in Nat /\ created \in Nat /\ inUse \in Nat
         /\ created <= MaxSize /\ inUse = Pool!Count("using")
            /\ created = idle + dead + inUse + Pool!Count("opening")
         /\ Pool!Count("using") \in Nat /\ Pool!Count("opening") \in Nat
            /\ Pool!Count("waiting") \in Nat
         /\ Pool!Count("waiting") > 0 => created = MaxSize /\ idle = 0 /\ ~shut /\ dead = 0
  BY PoolCounts DEF PoolIInv, Pool!TypeOK, Pool!PoolAccounted, Pool!NoLostWakeup, PoolWaitOK,
      Pool!ConstantsOK

\* The numbers alone make the invariant.
LEMMA PoolEnough ==
  ASSUME Pool!ConstantsOK, shut' \in BOOLEAN,
         thread' \in [Threads -> {"out", "waiting", "woken", "opening", "using"}],
         idle' \in Nat, dead' \in Nat, inUse' = Pool!Count("using")', created' <= MaxSize,
         created' = idle' + dead' + inUse' + Pool!Count("opening")',
         Pool!Count("waiting")' > 0 => created' = MaxSize /\ idle' = 0 /\ ~shut' /\ dead' = 0
  PROVE  PoolIInv'
  <1>1. Pool!Count("using")' \in Nat /\ Pool!Count("opening")' \in Nat
    <2>1. PoolAt("using")' \subseteq Threads /\ PoolAt("opening")' \subseteq Threads BY DEF PoolAt
    <2> QED BY <2>1, FS_Subset, FS_CardinalityType, PoolSameSets
      DEF Pool!ConstantsOK, Pool!Count, PoolAt
  <1>2. MaxSize \in Nat BY DEF Pool!ConstantsOK
  <1>3. inUse' \in Nat BY <1>1
  <1>4. idle' \in 0..MaxSize /\ dead' \in 0..MaxSize /\ inUse' \in 0..MaxSize
        /\ created' \in 0..MaxSize
    BY <1>1, <1>2, <1>3
  <1> QED BY <1>4 DEF PoolIInv, Pool!TypeOK, Pool!PoolAccounted, Pool!NoLostWakeup, PoolWaitOK

LEMMA PoolNextIInv == ASSUME Pool!ConstantsOK, PoolIInv, [Pool!Next]_(Pool!vars) PROVE PoolIInv'
  <1>t. thread \in [Threads -> {"out", "waiting", "woken", "opening", "using"}] /\ shut \in BOOLEAN
    BY DEF PoolIInv, Pool!TypeOK
  <1>0. CASE UNCHANGED Pool!vars
    <2>1. PoolAt("using")' = PoolAt("using") /\ PoolAt("opening")' = PoolAt("opening")
          /\ PoolAt("waiting")' = PoolAt("waiting")
      BY <1>0 DEF Pool!vars, PoolAt
    <2>2. Pool!Count("using")' = Pool!Count("using")
          /\ Pool!Count("opening")' = Pool!Count("opening")
          /\ Pool!Count("waiting")' = Pool!Count("waiting") BY <2>1, PoolStays
    <2> QED BY <1>0, <1>t, <2>2, PoolNumbers, PoolEnough DEF Pool!vars
  <1>1. ASSUME NEW t \in Threads, Pool!TakeIdle(t) PROVE PoolIInv'
    <2>1. t \notin PoolAt("using") /\ PoolAt("using")' = PoolAt("using") \cup {t}
          /\ PoolAt("opening")' = PoolAt("opening") /\ PoolAt("waiting")' = PoolAt("waiting")
      BY <1>1, <1>t DEF Pool!TakeIdle, Pool!Become, PoolAt
    <2>2. Pool!Count("using")' = Pool!Count("using") + 1
          /\ Pool!Count("opening")' = Pool!Count("opening")
          /\ Pool!Count("waiting")' = Pool!Count("waiting") BY <2>1, PoolComes, PoolStays
    <2>3. idle \in Nat /\ dead \in Nat /\ created \in Nat /\ MaxSize \in Nat BY PoolNumbers
    <2>4. PICK n \in 0..dead : dead' = dead - n /\ created' = created - n BY <1>1 DEF Pool!TakeIdle
    <2>5. dead' \in Nat /\ idle' = idle - 1 /\ idle' \in Nat /\ inUse' = inUse + 1 /\ shut' = shut
      BY <1>1, <2>3, <2>4 DEF Pool!TakeIdle
    <2>6. created' <= MaxSize /\ created' = idle' + dead' + inUse' + Pool!Count("opening")'
      BY <2>2, <2>3, <2>4, <2>5, PoolNumbers
    <2>7. ~(Pool!Count("waiting")' > 0) BY <1>1, <2>2, PoolNumbers DEF Pool!TakeIdle
    <2>8. thread' \in [Threads -> {"out", "waiting", "woken", "opening", "using"}]
      BY <1>1, <1>t DEF Pool!TakeIdle, Pool!Become
    <2> QED BY <1>t, <2>2, <2>5, <2>6, <2>7, <2>8, PoolNumbers, PoolEnough
  <1>2. ASSUME NEW t \in Threads, Pool!StartOpening(t) PROVE PoolIInv'
    <2>1. t \notin PoolAt("opening") /\ PoolAt("opening")' = PoolAt("opening") \cup {t}
          /\ PoolAt("using")' = PoolAt("using") /\ PoolAt("waiting")' = PoolAt("waiting")
      BY <1>2, <1>t DEF Pool!StartOpening, Pool!Become, PoolAt
    <2>2. Pool!Count("opening")' = Pool!Count("opening") + 1
          /\ Pool!Count("using")' = Pool!Count("using")
          /\ Pool!Count("waiting")' = Pool!Count("waiting") BY <2>1, PoolComes, PoolStays
    <2>3. /\ dead' = 0 /\ idle = 0 /\ idle' = 0 /\ inUse' = inUse /\ shut' = shut
          /\ created' = created - dead + 1 /\ created - dead < MaxSize
      BY <1>2 DEF Pool!StartOpening
    <2>4. created' <= MaxSize /\ created' = idle' + dead' + inUse' + Pool!Count("opening")'
      BY <2>2, <2>3, PoolNumbers
    <2>5. ~(Pool!Count("waiting")' > 0) BY <2>2, <2>3, PoolNumbers
    <2>8. thread' \in [Threads -> {"out", "waiting", "woken", "opening", "using"}]
      BY <1>2, <1>t DEF Pool!StartOpening, Pool!Become
    <2> QED BY <1>t, <2>2, <2>3, <2>4, <2>5, <2>8, PoolNumbers, PoolEnough
  <1>3. ASSUME NEW t \in Threads, Pool!Wait(t) PROVE PoolIInv'
    <2>1. PoolAt("opening")' = PoolAt("opening") /\ PoolAt("using")' = PoolAt("using")
      BY <1>3, <1>t DEF Pool!Wait, Pool!Become, PoolAt
    <2>2. Pool!Count("opening")' = Pool!Count("opening")
          /\ Pool!Count("using")' = Pool!Count("using")
      BY <2>1, PoolStays
    <2>3. /\ dead' = 0 /\ idle = 0 /\ idle' = 0 /\ inUse' = inUse /\ shut' = shut /\ ~shut
          /\ created' = created - dead /\ created - dead = MaxSize
      BY <1>3 DEF Pool!Wait
    <2>8. thread' \in [Threads -> {"out", "waiting", "woken", "opening", "using"}]
      BY <1>3, <1>t DEF Pool!Wait, Pool!Become
    <2> QED BY <1>t, <2>2, <2>3, <2>8, PoolNumbers, PoolEnough
  <1>4. ASSUME NEW t \in Threads, Pool!RaiseClosed(t) \/ Pool!Timeout(t) PROVE PoolIInv'
    <2>1. PoolAt("opening")' = PoolAt("opening") /\ PoolAt("using")' = PoolAt("using")
          /\ PoolAt("waiting")' \subseteq PoolAt("waiting")
      BY <1>4, <1>t DEF Pool!RaiseClosed, Pool!Timeout, Pool!Become, PoolAt
    <2>2. Pool!Count("opening")' = Pool!Count("opening")
          /\ Pool!Count("using")' = Pool!Count("using")
      BY <2>1, PoolStays
    <2>3. Pool!Count("waiting")' \in Nat /\ Pool!Count("waiting")' <= Pool!Count("waiting")
      <3>1. Cardinality(PoolAt("waiting")') \in Nat
            /\ Cardinality(PoolAt("waiting")') <= Cardinality(PoolAt("waiting"))
        BY <2>1, PoolCounts, NoMore
      <3> QED BY <3>1, PoolCounts, PoolSameSets DEF Pool!Count, PoolAt
    <2>4. UNCHANGED <<idle, dead, created, inUse, shut>> BY <1>4 DEF Pool!RaiseClosed, Pool!Timeout
    <2>8. thread' \in [Threads -> {"out", "waiting", "woken", "opening", "using"}]
      BY <1>4, <1>t DEF Pool!RaiseClosed, Pool!Timeout, Pool!Become
    <2> QED BY <1>t, <2>2, <2>3, <2>4, <2>8, PoolNumbers, PoolEnough
  <1>w. ASSUME NEW t \in Threads, Pool!BecomeAndNotify(t, "out")
        PROVE  /\ Pool!Count("waiting")' = 0
               /\ thread' \in [Threads -> {"out", "waiting", "woken", "opening", "using"}]
    <2>1. PoolAt("waiting")' = {} BY <1>t, <1>w DEF Pool!BecomeAndNotify, PoolAt
    <2> QED BY <1>t, <1>w, <2>1, PoolNobody DEF Pool!BecomeAndNotify
  <1>5. ASSUME NEW t \in Threads, Pool!Opened(t), ~shut PROVE PoolIInv'
    <2>1. PoolAt("opening")' = PoolAt("opening") \ {t} /\ t \in PoolAt("opening")
          /\ PoolAt("using")' = PoolAt("using") \cup {t} /\ t \notin PoolAt("using")
             /\ PoolAt("waiting")' = PoolAt("waiting")
      BY <1>5, <1>t DEF Pool!Opened, Pool!Become, PoolAt
    <2>2. Pool!Count("opening")' = Pool!Count("opening") - 1
          /\ Pool!Count("using")' = Pool!Count("using") + 1
          /\ Pool!Count("waiting")' = Pool!Count("waiting") BY <2>1, PoolComes, PoolGoes, PoolStays
    <2>3. UNCHANGED <<idle, dead, created, shut>> /\ inUse' = inUse + 1 BY <1>5 DEF Pool!Opened
    <2>4. created' = idle' + dead' + inUse' + Pool!Count("opening")' BY <2>2, <2>3, PoolNumbers
    <2>8. thread' \in [Threads -> {"out", "waiting", "woken", "opening", "using"}]
      BY <1>5, <1>t DEF Pool!Opened, Pool!Become
    <2> QED BY <1>t, <2>2, <2>3, <2>4, <2>8, PoolNumbers, PoolEnough
  <1>6. ASSUME NEW t \in Threads, Pool!OpenFails(t) \/ (Pool!Opened(t) /\ shut) PROVE PoolIInv'
    <2>0. /\ t \in PoolAt("opening") /\ Pool!BecomeAndNotify(t, "out") /\ created' = created - 1
          /\ UNCHANGED <<idle, dead, inUse, shut>>
      BY <1>6 DEF Pool!OpenFails, Pool!Opened, PoolAt
    <2>1. PoolAt("opening")' = PoolAt("opening") \ {t} /\ PoolAt("using")' = PoolAt("using")
      BY <2>0, <1>t DEF Pool!BecomeAndNotify, PoolAt
    <2>2. Pool!Count("opening")' = Pool!Count("opening") - 1
          /\ Pool!Count("using")' = Pool!Count("using")
      BY <2>0, <2>1, PoolGoes, PoolStays
    <2>4. created' <= MaxSize /\ created' = idle' + dead' + inUse' + Pool!Count("opening")'
      BY <2>0, <2>2, PoolNumbers
    <2> QED BY <1>t, <1>w, <2>0, <2>2, <2>4, PoolNumbers, PoolEnough
  <1>7. ASSUME NEW t \in Threads, Pool!Release(t) PROVE PoolIInv'
    <2>0. t \in PoolAt("using") /\ Pool!BecomeAndNotify(t, "out") /\ UNCHANGED <<dead, shut>>
          /\ inUse' = inUse - 1
      BY <1>7 DEF Pool!Release, PoolAt
    <2>1. PoolAt("using")' = PoolAt("using") \ {t} /\ PoolAt("opening")' = PoolAt("opening")
      BY <2>0, <1>t DEF Pool!BecomeAndNotify, PoolAt
    <2>2. Pool!Count("using")' = Pool!Count("using") - 1
          /\ Pool!Count("opening")' = Pool!Count("opening")
      BY <2>0, <2>1, PoolGoes, PoolStays
    <2>3. CASE idle' = idle + 1 /\ UNCHANGED created
      <3>1. created' = idle' + dead' + inUse' + Pool!Count("opening")'
        BY <2>0, <2>2, <2>3, PoolNumbers
      <3> QED BY <1>t, <1>w, <2>0, <2>2, <2>3, <3>1, PoolNumbers, PoolEnough
    <2>4. CASE created' = created - 1 /\ UNCHANGED idle
      <3>1. created' <= MaxSize /\ created' = idle' + dead' + inUse' + Pool!Count("opening")'
        BY <2>0, <2>2, <2>4, PoolNumbers
      <3> QED BY <1>t, <1>w, <2>0, <2>2, <2>4, <3>1, PoolNumbers, PoolEnough
    <2> QED BY <1>7, <2>3, <2>4 DEF Pool!Release
  <1>8. CASE Pool!IdleDies
    <2>1. PoolAt("using")' = PoolAt("using") /\ PoolAt("opening")' = PoolAt("opening")
          /\ PoolAt("waiting")' = PoolAt("waiting")
      BY <1>8 DEF Pool!IdleDies, PoolAt
    <2>2. Pool!Count("using")' = Pool!Count("using")
          /\ Pool!Count("opening")' = Pool!Count("opening")
          /\ Pool!Count("waiting")' = Pool!Count("waiting") BY <2>1, PoolStays
    <2>3. /\ idle > 0 /\ idle' = idle - 1 /\ dead' = dead + 1
          /\ UNCHANGED <<created, inUse, shut, thread>> BY <1>8 DEF Pool!IdleDies
    <2>4. idle' \in Nat /\ dead' \in Nat BY <2>3, PoolNumbers
    <2>5. created' = idle' + dead' + inUse' + Pool!Count("opening")' BY <2>2, <2>3, PoolNumbers
    <2>6. ~(Pool!Count("waiting")' > 0) BY <2>2, <2>3, PoolNumbers
    <2> QED BY <1>t, <2>2, <2>3, <2>4, <2>5, <2>6, PoolNumbers, PoolEnough
  <1>9. CASE Pool!Close
    <2>1. PoolAt("using")' = PoolAt("using") /\ PoolAt("opening")' = PoolAt("opening")
          /\ PoolAt("waiting")' = {}
      BY <1>9, <1>t DEF Pool!Close, PoolAt
    <2>2. Pool!Count("using")' = Pool!Count("using")
          /\ Pool!Count("opening")' = Pool!Count("opening")
          /\ Pool!Count("waiting")' = 0 BY <2>1, PoolStays, PoolNobody
    <2>3. created' = created - idle - dead /\ idle' = 0 /\ dead' = 0 /\ shut' = TRUE
          /\ inUse' = inUse
      BY <1>9 DEF Pool!Close
    <2>4. created' <= MaxSize /\ created' = idle' + dead' + inUse' + Pool!Count("opening")'
      BY <2>2, <2>3, PoolNumbers
    <2>8. thread' \in [Threads -> {"out", "waiting", "woken", "opening", "using"}]
      BY <1>9, <1>t DEF Pool!Close
    <2> QED BY <2>2, <2>3, <2>4, <2>8, PoolNumbers, PoolEnough
  <1> QED BY <1>0, <1>1, <1>2, <1>3, <1>4, <1>5, <1>6, <1>7, <1>8, <1>9 DEF Pool!Next

LEMMA PoolIInvHolds == ASSUME Pool!ConstantsOK PROVE Pool!Spec => []PoolIInv
  <1>1. Pool!Init => PoolIInv
    <2> SUFFICES ASSUME Pool!Init PROVE PoolIInv OBVIOUS
    <2>1. PoolAt("using") = {} /\ PoolAt("opening") = {} /\ PoolAt("waiting") = {}
      BY DEF Pool!Init, PoolAt
    <2>2. Pool!Count("using") = 0 /\ Pool!Count("opening") = 0 /\ Pool!Count("waiting") = 0
      BY <2>1, FS_EmptySet, PoolSameSets DEF Pool!Count, PoolAt
    <2>3. MaxSize \in Nat /\ 0 \in 0..MaxSize BY DEF Pool!ConstantsOK
    <2>4. Pool!TypeOK BY <2>3 DEF Pool!Init, Pool!TypeOK
    <2>5. Pool!PoolAccounted BY <2>2 DEF Pool!Init, Pool!PoolAccounted
    <2> QED BY <2>2, <2>4, <2>5 DEF PoolIInv, Pool!NoLostWakeup, PoolWaitOK
  <1> QED BY <1>1, PoolNextIInv, PTL DEF Pool!Spec

LEMMA PoolCounted == PoolIInv => Pool!PoolAccounted /\ Pool!NoLostWakeup
  BY DEF PoolIInv

-----------------------------------------------------------------------------
(* The pool of the AppSync store *)

\* The instance has the finite sets of this module.
LEMMA AppPoolSameSets == ASSUME NEW S
  PROVE (AppPool!IsFiniteSet(S) <=> IsFiniteSet(S)) /\ AppPool!Cardinality(S) = Cardinality(S)
  BY Zenon DEF AppPool!IsFiniteSet, IsFiniteSet, AppPool!Cardinality, Cardinality

AppPoolPlaces == {"out", "looking", "dropping", "dropping_again", "creating",
           "waiting", "using", "discarding", "returning"}
\* The connections that threads have, by what they do with them.
AppPoolOwning == {"using", "returning", "discarding", "dropping", "dropping_again"}
AppPoolOwned == {u \in Users : user[u] \in AppPoolOwning}

AppPoolIInv == AppPool!TypeOK /\ AppPool!PoolAccounted

\* Nobody is in two places.
LEMMA AppPoolSumsUp == ASSUME AppPool!ConstantsOK, NEW w
  PROVE  LET in(s) == {u \in Users : w[u] = s}
             all == {u \in Users : w[u] \in AppPoolOwning}
         IN  /\ IsFiniteSet(all) /\ Cardinality(all) \in Nat
             /\ \A s \in AppPoolOwning : Cardinality(in(s)) \in Nat
             /\ Cardinality(all) = Cardinality(in("using")) + Cardinality(in("returning"))
                    + Cardinality(in("discarding")) + Cardinality(in("dropping"))
                    + Cardinality(in("dropping_again"))
  <1> DEFINE in(s) == {u \in Users : w[u] = s}
             A == in("using")
             B == A \cup in("returning")
             C == B \cup in("discarding")
             D == C \cup in("dropping")
             E == D \cup in("dropping_again")
  <1>f. \A s \in AppPoolOwning : IsFiniteSet(in(s)) /\ Cardinality(in(s)) \in Nat
    <2>1. \A s \in AppPoolOwning : in(s) \subseteq Users OBVIOUS
    <2> HIDE DEF in
    <2> QED BY <2>1, FS_Subset, FS_CardinalityType, AppPoolSameSets DEF AppPool!ConstantsOK
  <1>1. IsFiniteSet(B) /\ Cardinality(B) = Cardinality(A) + Cardinality(in("returning"))
    <2>1. A \cap in("returning") = {} OBVIOUS
    <2> HIDE DEF in
    <2> QED BY <1>f, <2>1, Apart DEF AppPoolOwning
  <1>2. IsFiniteSet(C) /\ Cardinality(C) = Cardinality(B) + Cardinality(in("discarding"))
    <2>1. B \cap in("discarding") = {} OBVIOUS
    <2> HIDE DEF B, in
    <2> QED BY <1>f, <1>1, <2>1, Apart DEF AppPoolOwning
  <1>3. IsFiniteSet(D) /\ Cardinality(D) = Cardinality(C) + Cardinality(in("dropping"))
    <2>1. C \cap in("dropping") = {} OBVIOUS
    <2> HIDE DEF C, in
    <2> QED BY <1>f, <1>2, <2>1, Apart DEF AppPoolOwning
  <1>4. IsFiniteSet(E) /\ Cardinality(E) = Cardinality(D) + Cardinality(in("dropping_again"))
    <2>1. D \cap in("dropping_again") = {} OBVIOUS
    <2> HIDE DEF D, in
    <2> QED BY <1>f, <1>3, <2>1, Apart DEF AppPoolOwning
  <1>5. {u \in Users : w[u] \in AppPoolOwning} = E BY DEF AppPoolOwning
  <1> HIDE DEF in, B, C, D, E
  <1>6. Cardinality(E)
          = Cardinality(in("using")) + Cardinality(in("returning"))
            + Cardinality(in("discarding")) + Cardinality(in("dropping"))
            + Cardinality(in("dropping_again"))
    BY <1>f, <1>1, <1>2, <1>3, <1>4 DEF AppPoolOwning
  <1> QED BY <1>f, <1>4, <1>5, <1>6, FS_CardinalityType DEF in

LEMMA AppPoolOwnedIs == ASSUME AppPool!ConstantsOK
  PROVE  /\ IsFiniteSet(AppPoolOwned) /\ Cardinality(AppPoolOwned) \in Nat
            /\ \A s \in AppPoolOwning : AppPool!Where(s) \in Nat
         /\ Cardinality(AppPoolOwned)
              = AppPool!Where("using") + AppPool!Where("returning") + AppPool!Where("discarding")
                + AppPool!Where("dropping") + AppPool!Where("dropping_again")
  BY AppPoolSumsUp, AppPoolSameSets DEF AppPoolOwned, AppPool!Where
LEMMA AppPoolOwnedIsNext == ASSUME AppPool!ConstantsOK
  PROVE  /\ Cardinality(AppPoolOwned') \in Nat /\ \A s \in AppPoolOwning : AppPool!Where(s)' \in Nat
         /\ Cardinality(AppPoolOwned')
              = AppPool!Where("using")' + AppPool!Where("returning")' + AppPool!Where("discarding")'
                + AppPool!Where("dropping")' + AppPool!Where("dropping_again")'
  BY AppPoolSumsUp, AppPoolSameSets DEF AppPoolOwned, AppPool!Where

LEMMA AppPoolNumbers == ASSUME AppPool!ConstantsOK, AppPoolIInv
  PROVE  /\ Size \in Nat /\ pooled \in Nat /\ broken \in Nat /\ made \in Nat /\ made <= Size
         /\ Cardinality(AppPoolOwned) \in Nat /\ made = pooled + broken + Cardinality(AppPoolOwned)
  <1>2. pooled \in Nat /\ broken \in Nat /\ made \in Nat /\ Size \in Nat /\ made <= Size
    BY DEF AppPoolIInv, AppPool!TypeOK, AppPool!ConstantsOK
  <1> QED BY <1>2, AppPoolOwnedIs DEF AppPoolIInv, AppPool!PoolAccounted, AppPoolOwning

\* The numbers alone make the invariant.
LEMMA AppPoolEnough ==
  ASSUME AppPool!ConstantsOK, ending' \in BOOLEAN, user' \in [Users -> AppPoolPlaces],
         pooled' \in Nat, broken' \in Nat, made' <= Size,
         made' = pooled' + broken' + Cardinality(AppPoolOwned')
  PROVE  AppPoolIInv'
  <1>1. /\ Cardinality(AppPoolOwned') \in Nat
        /\ Cardinality(AppPoolOwned')
             = AppPool!Where("using")' + AppPool!Where("returning")' + AppPool!Where("discarding")'
               + AppPool!Where("dropping")' + AppPool!Where("dropping_again")'
    BY AppPoolOwnedIsNext
  <1>2. Size \in Nat BY DEF AppPool!ConstantsOK
  <1>3. pooled' \in 0..Size /\ broken' \in 0..Size /\ made' \in 0..Size BY <1>1, <1>2
  <1>4. \A s \in AppPoolOwning : AppPool!Where(s)' \in Nat BY AppPoolOwnedIsNext
  <1>5. AppPool!PoolAccounted' BY <1>1, <1>4 DEF AppPool!PoolAccounted, AppPoolOwning
  <1> QED BY <1>3, <1>5 DEF AppPoolIInv, AppPool!TypeOK, AppPoolPlaces

\* Whoever goes takes a connection along, or gives one up, or neither.
LEMMA AppPoolTakes ==
  ASSUME AppPool!ConstantsOK, AppPool!TypeOK, NEW u \in Users, NEW s \in AppPoolOwning,
        user[u] \notin AppPoolOwning, AppPool!Be(u, s)
  PROVE  Cardinality(AppPoolOwned') = Cardinality(AppPoolOwned) + 1
      /\ user' \in [Users -> AppPoolPlaces]
  <1>1. u \notin AppPoolOwned /\ AppPoolOwned' = AppPoolOwned \cup {u}
    BY DEF AppPoolOwned, AppPool!TypeOK, AppPool!Be, AppPoolOwning
  <1>2. user' \in [Users -> AppPoolPlaces]
    BY DEF AppPool!TypeOK, AppPool!Be, AppPoolOwning, AppPoolPlaces
  <1> QED BY <1>1, <1>2, AppPoolOwnedIs, OneMore
LEMMA AppPoolGives ==
  ASSUME AppPool!ConstantsOK, AppPool!TypeOK, NEW u \in Users,
        NEW s \in AppPoolPlaces \ AppPoolOwning, user[u] \in AppPoolOwning, AppPool!Be(u, s)
  PROVE  Cardinality(AppPoolOwned') = Cardinality(AppPoolOwned) - 1
      /\ user' \in [Users -> AppPoolPlaces]
         /\ Cardinality(AppPoolOwned') \in Nat
  <1>1. u \in AppPoolOwned /\ AppPoolOwned' = AppPoolOwned \ {u}
    BY DEF AppPoolOwned, AppPool!TypeOK, AppPool!Be, AppPoolOwning, AppPoolPlaces
  <1>2. user' \in [Users -> AppPoolPlaces]
    BY DEF AppPool!TypeOK, AppPool!Be, AppPoolOwning, AppPoolPlaces
  <1> QED BY <1>1, <1>2, AppPoolOwnedIs, OneLess
LEMMA AppPoolKeeps ==
  ASSUME AppPool!ConstantsOK, AppPool!TypeOK, NEW u \in Users, NEW s \in AppPoolPlaces,
        user[u] \in AppPoolOwning <=> s \in AppPoolOwning, AppPool!Be(u, s)
  PROVE  Cardinality(AppPoolOwned') = Cardinality(AppPoolOwned)
      /\ user' \in [Users -> AppPoolPlaces]
  <1>1. AppPoolOwned' = AppPoolOwned BY DEF AppPoolOwned, AppPool!TypeOK, AppPool!Be
  <1>2. user' \in [Users -> AppPoolPlaces] BY DEF AppPool!TypeOK, AppPool!Be, AppPoolPlaces
  <1> QED BY <1>1, <1>2

LEMMA AppPoolNextIInv ==
  ASSUME AppPool!ConstantsOK, AppPoolIInv, [AppPool!Next]_(AppPool!vars) PROVE AppPoolIInv'
  <1> USE DEF AppPoolOwning, AppPoolPlaces
  <1>t. AppPool!TypeOK /\ ending \in BOOLEAN /\ user \in [Users -> AppPoolPlaces]
    BY DEF AppPoolIInv, AppPool!TypeOK
  <1>s. CASE UNCHANGED user /\ ending' \in BOOLEAN /\ pooled' \in Nat /\ broken' \in Nat
             /\ made' <= Size
             /\ made' - pooled' - broken' = made - pooled - broken /\ made' \in Int
    <2>1. AppPoolOwned' = AppPoolOwned BY <1>s DEF AppPoolOwned
    <2>2. made' = pooled' + broken' + Cardinality(AppPoolOwned') BY <1>s, <2>1, AppPoolNumbers
    <2> QED BY <1>t, <1>s, <2>2, AppPoolEnough
  <1>0. CASE UNCHANGED AppPool!vars BY <1>t, <1>s, <1>0, AppPoolNumbers DEF AppPool!vars
  <1>1. ASSUME NEW u \in Users, AppPool!Acquire(u) \/ AppPool!QueueEmpty(u) \/ AppPool!WaitEnds(u)
               \/ AppPool!Finish(u) PROVE AppPoolIInv'
    <2>1. UNCHANGED <<pooled, broken, made, ending>>
      BY <1>1 DEF AppPool!Acquire, AppPool!QueueEmpty, AppPool!WaitEnds, AppPool!Finish
    <2>2. Cardinality(AppPoolOwned') = Cardinality(AppPoolOwned)
          /\ user' \in [Users -> AppPoolPlaces]
      BY <1>1, <1>t, AppPoolKeeps DEF AppPool!Acquire, AppPool!QueueEmpty, AppPool!WaitEnds,
          AppPool!Finish
    <2> QED BY <1>t, <2>1, <2>2, AppPoolNumbers, AppPoolEnough
  <1>2. ASSUME NEW u \in Users, AppPool!Get(u) PROVE AppPoolIInv'
    <2>1. /\ pooled > 0 /\ pooled' = pooled - 1 /\ UNCHANGED <<broken, made, ending>>
      BY <1>2 DEF AppPool!Get
    <2>2. Cardinality(AppPoolOwned') = Cardinality(AppPoolOwned) + 1
          /\ user' \in [Users -> AppPoolPlaces]
      BY <1>2, <1>t, AppPoolTakes DEF AppPool!Get
    <2>3. pooled' \in Nat /\ made' = pooled' + broken' + Cardinality(AppPoolOwned')
      BY <2>1, <2>2, AppPoolNumbers
    <2> QED BY <1>t, <2>1, <2>2, <2>3, AppPoolNumbers, AppPoolEnough
  <1>3. ASSUME NEW u \in Users, AppPool!GetBroken(u) PROVE AppPoolIInv'
    <2>1. broken > 0 /\ broken' = broken - 1 /\ UNCHANGED <<pooled, made, ending>>
      BY <1>3 DEF AppPool!GetBroken
    <2>2. Cardinality(AppPoolOwned') = Cardinality(AppPoolOwned) + 1
          /\ user' \in [Users -> AppPoolPlaces]
      BY <1>3, <1>t, AppPoolTakes DEF AppPool!GetBroken
    <2>3. broken' \in Nat /\ made' = pooled' + broken' + Cardinality(AppPoolOwned')
      BY <2>1, <2>2, AppPoolNumbers
    <2> QED BY <1>t, <2>1, <2>2, <2>3, AppPoolNumbers, AppPoolEnough
  <1>4. ASSUME NEW u \in Users, AppPool!Drop(u) \/ AppPool!Discard(u) PROVE AppPoolIInv'
    <2>1. made' = made - 1 /\ UNCHANGED <<pooled, broken, ending>>
      BY <1>4 DEF AppPool!Drop, AppPool!Discard
    <2>2. Cardinality(AppPoolOwned') = Cardinality(AppPoolOwned) - 1
          /\ user' \in [Users -> AppPoolPlaces]
      BY <1>4, <1>t, AppPoolGives DEF AppPool!Drop, AppPool!Discard
    <2>3. made' <= Size /\ made' = pooled' + broken' + Cardinality(AppPoolOwned')
      BY <2>1, <2>2, AppPoolNumbers
    <2> QED BY <1>t, <2>1, <2>2, <2>3, AppPoolNumbers, AppPoolEnough
  <1>5. ASSUME NEW u \in Users, AppPool!Create(u) PROVE AppPoolIInv'
    <2>0. user[u] = "creating" /\ UNCHANGED <<pooled, broken, ending>> BY <1>5 DEF AppPool!Create
    <2>1. CASE made < Size /\ made' = made + 1 /\ AppPool!Be(u, "using")
      <3>1. Cardinality(AppPoolOwned') = Cardinality(AppPoolOwned) + 1
            /\ user' \in [Users -> AppPoolPlaces]
        BY <2>0, <2>1, <1>t, AppPoolTakes
      <3>2. made' <= Size /\ made' = pooled' + broken' + Cardinality(AppPoolOwned')
        BY <2>0, <2>1, <3>1, AppPoolNumbers
      <3> QED BY <1>t, <2>0, <3>1, <3>2, AppPoolNumbers, AppPoolEnough
    <2>2. CASE (AppPool!Be(u, "out") \/ AppPool!Be(u, "waiting")) /\ UNCHANGED made
      <3>1. Cardinality(AppPoolOwned') = Cardinality(AppPoolOwned)
            /\ user' \in [Users -> AppPoolPlaces]
        BY <2>0, <2>2, <1>t, AppPoolKeeps
      <3> QED BY <1>t, <2>0, <2>2, <3>1, AppPoolNumbers, AppPoolEnough
    <2> QED BY <1>5, <2>1, <2>2 DEF AppPool!Create
  <1>6. ASSUME NEW u \in Users, AppPool!PutBack(u) PROVE AppPoolIInv'
    <2>1. pooled' = pooled + 1 /\ UNCHANGED <<broken, made, ending>> BY <1>6 DEF AppPool!PutBack
    <2>2. Cardinality(AppPoolOwned') = Cardinality(AppPoolOwned) - 1
          /\ user' \in [Users -> AppPoolPlaces]
      BY <1>6, <1>t, AppPoolGives DEF AppPool!PutBack
    <2>3. pooled' \in Nat /\ made' = pooled' + broken' + Cardinality(AppPoolOwned')
      BY <2>1, <2>2, AppPoolNumbers
    <2> QED BY <1>t, <2>1, <2>2, <2>3, AppPoolNumbers, AppPoolEnough
  <1>7. CASE AppPool!IdleBreaks
    <2>1. pooled > 0 /\ pooled' = pooled - 1 /\ broken' = broken + 1
          /\ UNCHANGED <<made, ending, user>>
      BY <1>7 DEF AppPool!IdleBreaks
    <2>2. /\ pooled' \in Nat /\ broken' \in Nat /\ made' <= Size /\ made' \in Int
          /\ made' - pooled' - broken' = made - pooled - broken BY <2>1, AppPoolNumbers
    <2> QED BY <1>t, <1>s, <2>1, <2>2
  <1>8. CASE AppPool!Close BY <1>t, <1>s, <1>8, AppPoolNumbers DEF AppPool!Close
  <1>9. CASE AppPool!Drain
    <2>1. /\ made' = made - 1 /\ UNCHANGED <<ending, user>>
          /\ \/ pooled > 0 /\ pooled' = pooled - 1 /\ UNCHANGED broken
             \/ broken > 0 /\ broken' = broken - 1 /\ UNCHANGED pooled
      BY <1>9 DEF AppPool!Drain
    <2>2. /\ pooled' \in Nat /\ broken' \in Nat /\ made' <= Size /\ made' \in Int
          /\ made' - pooled' - broken' = made - pooled - broken BY <2>1, AppPoolNumbers
    <2> QED BY <1>t, <1>s, <2>1, <2>2
  <1> QED BY <1>0, <1>1, <1>2, <1>3, <1>4, <1>5, <1>6, <1>7, <1>8, <1>9 DEF AppPool!Next

LEMMA AppPoolIInvHolds == ASSUME AppPool!ConstantsOK PROVE AppPool!Spec => []AppPoolIInv
  <1>1. AppPool!Init => AppPoolIInv
    <2> SUFFICES ASSUME AppPool!Init PROVE AppPoolIInv OBVIOUS
    <2>1. \A s \in AppPoolOwning : {u \in Users : user[u] = s} = {}
      BY DEF AppPool!Init, AppPoolOwning
    <2>2. \A s \in AppPoolOwning : AppPool!Where(s) = 0
      BY <2>1, FS_EmptySet, AppPoolSameSets DEF AppPool!Where
    <2>3. Size \in Nat /\ 0 \in 0..Size BY DEF AppPool!ConstantsOK
    <2>4. AppPool!TypeOK BY <2>3 DEF AppPool!Init, AppPool!TypeOK
    <2>5. AppPool!PoolAccounted BY <2>2 DEF AppPool!Init, AppPool!PoolAccounted, AppPoolOwning
    <2> QED BY <2>4, <2>5 DEF AppPoolIInv
  <1> QED BY <1>1, AppPoolNextIInv, PTL DEF AppPool!Spec

LEMMA AppPoolCounted == AppPoolIInv => AppPool!PoolAccounted
  BY DEF AppPoolIInv

-----------------------------------------------------------------------------
(* The job queue *)

JobThms == INSTANCE JobQueueProofs WITH
    Postgres <- TRUE, created <- rows, key <- dedupe, status <- jobStatus, errors <- jobErrors

\* The queue of Guards is the one that JobQueueProofs is about.
LEMMA JobsSame ==
  /\ Jobs!Init <=> JobThms!Init
  /\ [Jobs!Next]_(Jobs!vars) => [JobThms!Next]_(JobThms!vars)
  /\ JobThms!TypeOK <=> Jobs!TypeOK
  /\ JobThms!StatusMatchesRetries <=> Jobs!StatusMatchesRetries
  <1>1. Jobs!Init <=> JobThms!Init
    BY Zenon
    DEF Jobs!Init, Jobs!Jobs, Jobs!NoJob, JobThms!Init, JobThms!Jobs, JobThms!NoJob
  <1>2. Jobs!Next => JobThms!Next
    BY ZenonT(60)
    DEF Jobs!Backoff, Jobs!Jobs, Jobs!NoJob, Jobs!Status, Jobs!rows, Jobs!loop, Jobs!bounds,
        Jobs!vars, Jobs!Exists, Jobs!Stale, Jobs!SetFailed, Jobs!SetFailedIfThere,
        Jobs!SetClaimed, Jobs!Ready, Jobs!Oldest, Jobs!Goto, Jobs!Init, Jobs!Enqueue, Jobs!Start,
        Jobs!RecoverRow, Jobs!RecoverRaises, Jobs!RunForever, Jobs!ClaimNext, Jobs!Handled,
        Jobs!HandlerRaises, Jobs!Complete, Jobs!FailLocked, Jobs!FailRead, Jobs!FailWrite,
        Jobs!FailRaises, Jobs!StoreRaises, Jobs!Crash, Jobs!StopDuringClaim, Jobs!AdminCall,
              Jobs!Guarded,
        Jobs!AdminWrite, Jobs!Holds, Jobs!Tick, Jobs!Step, Jobs!Next, JobThms!Backoff,
        JobThms!Jobs, JobThms!NoJob, JobThms!Status, JobThms!rows, JobThms!loop, JobThms!bounds,
        JobThms!vars, JobThms!Exists, JobThms!Stale, JobThms!SetFailed, JobThms!SetFailedIfThere,
        JobThms!SetClaimed, JobThms!Ready, JobThms!Oldest, JobThms!Goto, JobThms!Init,
              JobThms!Enqueue,
        JobThms!Start, JobThms!RecoverRow, JobThms!RecoverRaises, JobThms!RunForever,
        JobThms!ClaimNext, JobThms!Handled, JobThms!HandlerRaises, JobThms!Complete,
        JobThms!FailLocked, JobThms!FailRead, JobThms!FailWrite, JobThms!FailRaises,
        JobThms!StoreRaises, JobThms!Crash, JobThms!StopDuringClaim, JobThms!AdminCall,
              JobThms!Guarded,
        JobThms!AdminWrite, JobThms!Holds, JobThms!Tick, JobThms!Step, JobThms!Next
  <1>3. Jobs!vars = JobThms!vars /\ Jobs!vars' = JobThms!vars'
    BY Zenon DEF Jobs!vars, Jobs!rows, Jobs!loop, Jobs!bounds,
                 JobThms!vars, JobThms!rows, JobThms!loop, JobThms!bounds
  <1>4. JobThms!TypeOK <=> Jobs!TypeOK
    BY Zenon
    DEF Jobs!TypeOK, Jobs!Jobs, Jobs!NoJob, Jobs!Status, JobThms!TypeOK, JobThms!Jobs,
        JobThms!NoJob, JobThms!Status
  <1>5. JobThms!StatusMatchesRetries <=> Jobs!StatusMatchesRetries
    BY Zenon DEF Jobs!StatusMatchesRetries, Jobs!Jobs, JobThms!StatusMatchesRetries, JobThms!Jobs
  <1> QED BY <1>1, <1>2, <1>3, <1>4, <1>5

LEMMA JobsMayBackOff == \A n \in 1..MaxRetries : JobThms!Backoff(n) \in Nat \ {0}
  BY JobsAssumption DEF Jobs!Backoff, JobThms!Backoff

LEMMA JobsTypesHold == Jobs!Spec => []Jobs!TypeOK
  <1>1. JobThms!Spec => []JobThms!TypeOK 
    BY JobsAssumption, JobsMayBackOff, JobThms!TypeCorrect
  <1> QED BY <1>1, JobsSame, PTL DEF Jobs!Spec, JobThms!Spec

LEMMA JobsStatusHolds == Jobs!Spec => []Jobs!StatusMatchesRetries
  <1>1. JobThms!Spec => []JobThms!StatusMatchesRetries
    BY JobsAssumption, JobsMayBackOff, JobThms!StatusRetriesAgree
  <1> QED BY <1>1, JobsSame, PTL DEF Jobs!Spec, JobThms!Spec

-----------------------------------------------------------------------------
(* The composition *)

LEMMA GuardSteps ==
  ASSUME [Next]_vars
  PROVE  /\ [Key!Next]_(Key!vars) /\ [Claim!Next]_(Claim!vars) /\ [Session!Next]_(Session!vars)
         /\ [Model!Next]_(Model!vars) /\ [Slots!Next]_(Slots!vars) /\ [Pool!Next]_(Pool!vars)
         /\ [AppPool!Next]_(AppPool!vars) /\ [Jobs!Next]_(Jobs!vars)
  <1>1. UNCHANGED <<keyVars, postgres>> => UNCHANGED Key!vars BY DEF keyVars, Key!vars
  <1>2. UNCHANGED <<claimVars, postgres>> => UNCHANGED Claim!vars
    BY DEF claimVars, Claim!vars, Claim!records, Claim!ghosts
  <1>3. UNCHANGED sessionVars => UNCHANGED Session!vars BY DEF sessionVars, Session!vars
  <1>4. UNCHANGED modelVars => UNCHANGED Model!vars BY DEF modelVars, Model!vars
  <1>5. UNCHANGED <<slotVars, postgres>> => UNCHANGED Slots!vars BY DEF slotVars, Slots!vars
  <1>6. UNCHANGED poolVars => UNCHANGED Pool!vars BY DEF poolVars, Pool!vars
  <1>7. UNCHANGED appPoolVars => UNCHANGED AppPool!vars BY DEF appPoolVars, AppPool!vars
  <1>8. UNCHANGED jobVars => UNCHANGED Jobs!vars
    BY DEF jobVars, Jobs!vars, Jobs!rows, Jobs!loop, Jobs!bounds
  <1>9. UNCHANGED guardVars => UNCHANGED <<keyVars, claimVars, sessionVars, modelVars, slotVars,
                                           poolVars, appPoolVars, jobVars>>
    BY DEF guardVars
  <1>10. Next => UNCHANGED postgres BY DEF Next
  <1>11. UNCHANGED vars => UNCHANGED <<guardVars, postgres>> BY DEF vars
  <1> QED BY <1>1, <1>2, <1>3, <1>4, <1>5, <1>6, <1>7, <1>8, <1>9, <1>10, <1>11
    DEF Next, GuardStep, KeyStep, ClaimStep, SessionStep, ModelStep, SlotStep, PoolStep,
        AppPoolStep, JobStep

LEMMA Components ==
  Spec => /\ Key!Spec /\ Claim!Spec /\ Session!Spec /\ Model!Spec
          /\ Slots!Spec /\ Pool!Spec /\ AppPool!Spec /\ Jobs!Spec
  <1>1. Init => /\ Key!Init /\ Claim!Init /\ Session!Init /\ Model!Init
                /\ Slots!Init /\ Pool!Init /\ AppPool!Init /\ Jobs!Init
    BY DEF Init
  <1>2. [Next]_vars => /\ [Key!Next]_(Key!vars) /\ [Claim!Next]_(Claim!vars)
                       /\ [Session!Next]_(Session!vars) /\ [Model!Next]_(Model!vars)
                       /\ [Slots!Next]_(Slots!vars) /\ [Pool!Next]_(Pool!vars)
                       /\ [AppPool!Next]_(AppPool!vars) /\ [Jobs!Next]_(Jobs!vars)
    BY GuardSteps
  <1> QED BY <1>1, <1>2, PTL
    DEF Spec, Key!Spec, Claim!Spec, Session!Spec, Model!Spec, Slots!Spec, Pool!Spec,
        AppPool!Spec, Jobs!Spec

\* The invariants of the guards.
GuardsIInv ==
    KeyIInv /\ ClaimIInv /\ SessionIInv /\ ModelIInv /\ SlotsIInv /\ PoolIInv /\ AppPoolIInv

LEMMA GuardsIInvHolds == Spec => []GuardsIInv
  <1>1. Spec => []KeyIInv BY GuardsAssumption, KeyIInvHolds, Components, PTL
  <1>2. Spec => []ClaimIInv BY GuardsAssumption, ClaimIInvHolds, Components, PTL
  <1>3. Spec => []SessionIInv BY GuardsAssumption, SessionIInvHolds, Components, PTL
  <1>4. Spec => []ModelIInv BY GuardsAssumption, ModelIInvHolds, Components, PTL
  <1>5. Spec => []SlotsIInv BY GuardsAssumption, SlotsIInvHolds, Components, PTL
  <1>6. Spec => []PoolIInv BY GuardsAssumption, PoolIInvHolds, Components, PTL
  <1>7. Spec => []AppPoolIInv BY GuardsAssumption, AppPoolIInvHolds, Components, PTL
  <1> QED BY <1>1, <1>2, <1>3, <1>4, <1>5, <1>6, <1>7, PTL DEF GuardsIInv

\* Every component has its types, for any number of callers, sessions, threads, files ...
THEOREM TypesHold == Spec => []TypeOK
  <1>1. Spec => []Jobs!TypeOK BY JobsTypesHold, Components, PTL
  <1>2. UpkeepIInv => UpkeepTypeOK
    BY DEF UpkeepIInv, FilesIInv, AuditIInv, ReleasesIInv, UpgradeIInv, MemoryIInv, HookIInv,
        UpkeepTypeOK
  <1>3. GuardsIInv /\ UpkeepTypeOK /\ Jobs!TypeOK => TypeOK
    BY DEF GuardsIInv, KeyIInv, ClaimIInv, SessionIInv, ModelIInv, SlotsIInv, PoolIInv, AppPoolIInv,
           TypeOK
  <1> QED BY <1>1, <1>2, <1>3, UpkeepIInvHolds, GuardsIInvHolds, PTL

\* The requests of one key have one effect, and one more for each row that expired, failed
\* or was written over, and as long as there is none of these every answer is that of the
\* first; so have the deliveries and retries of one BigSeller event.
THEOREM EffectNeedsCauseHolds == Spec => []EffectNeedsCause
  <1>1. GuardsIInv => EffectNeedsCause
    BY GuardsAssumption, KeyEffectCaused, ClaimEventsKept DEF GuardsIInv, EffectNeedsCause
  <1> QED BY <1>1, GuardsIInvHolds, PTL

\* What is acknowledged is there, or somebody has it in hand, or its loss is excused by
\* a cause that is named: an event of BigSeller, an answered write of a project, the
\* messages of a webhook delivery.
THEOREM AcknowledgedIsNotLostHolds == Spec => []AcknowledgedIsNotLost
  <1>1. GuardsIInv /\ UpkeepIInv => AcknowledgedIsNotLost
    BY GuardsAssumption, UpkeepAssumption, ClaimEventsKept, FilesFilesStand, HookWebhooksCounted
    DEF GuardsIInv, UpkeepIInv, AcknowledgedIsNotLost
  <1> QED BY <1>1, GuardsIInvHolds, UpkeepIInvHolds, PTL

\* Whatever is requested, approved, revoked and expires, in any order: who is elevated
\* opened the session with the owner token, or two others granted it with theirs, and
\* it is neither expired nor revoked.
THEOREM UsableWasGrantedHolds == Spec => []UsableWasGranted
  <1>1. GuardsIInv => UsableWasGranted
    BY SessionUsableIsGranted DEF GuardsIInv, UsableWasGranted
  <1> QED BY <1>1, GuardsIInvHolds, PTL

\* Calls in progress together pass the daily budget by at most what they themselves
\* spend, and fail a profile at most that often past its threshold.
THEOREM CallsBoundedHolds == Spec => []CallsBounded
  <1>1. GuardsIInv => CallsBounded
    BY GuardsAssumption, ModelCallsAreBounded DEF GuardsIInv, CallsBounded
  <1> QED BY <1>1, GuardsIInvHolds, PTL

\* The counters of requests and connections are the requests and connections there are,
\* no thread waits while there is a connection for it, and no bucket lets more
\* deliveries pass than its limit.
THEOREM SlotsAccountedHolds == Spec => []SlotsAccounted
  <1>1. GuardsIInv /\ UpkeepIInv => SlotsAccounted
    BY UpkeepAssumption, SlotsHoldersCounted, PoolCounted, AppPoolCounted, HookWebhooksCounted
    DEF GuardsIInv, UpkeepIInv, SlotsAccounted
  <1> QED BY <1>1, GuardsIInvHolds, UpkeepIInvHolds, PTL

\* The status of a job and its retry count agree, also when handlers outlive their lease.
THEOREM StatusMatchesRetriesHolds == Spec => []StatusMatchesRetries
  BY JobsStatusHolds, Components, PTL DEF StatusMatchesRetries
=============================================================================
