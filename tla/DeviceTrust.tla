---------------------------- MODULE DeviceTrust ----------------------------
(***************************************************************************)
(* How a device of the AppSync store comes to be trusted and stops being   *)
(* so: registration, enrollment, challenge, signed requests, approval key, *)
(* revocation (appsync/store.py, with the checks the routes make first).   *)
(*                                                                         *)
(* One device: no call reads the record of another.  trust_level follows   *)
(* credential_status everywhere and is left out; organisations, and the    *)
(* device token, which nothing compares, too.                              *)
(***************************************************************************)
EXTENDS Integers

CONSTANTS
    Keys,           \* public keys whose owners may sign
    NoKey,
    Challenges,     \* challenges issued in the enrollment
    Requests,       \* requests a device signs, each with a nonce of its own
    Skew,           \* device_signature_max_skew_seconds, in ticks
    TTL,            \* device_request_nonce_ttl_seconds, in ticks
    Life,           \* ticks an enrollment or a challenge stays open
    Durable         \* FALSE: the JSON store, which keeps nonces in memory only

ConstantsOK == Skew \in Nat /\ TTL \in Nat /\ TTL > 2 * Skew /\ Life \in Nat /\ NoKey \notin Keys

VARIABLES
    key,            \* DeviceRecord.public_key
    cred,           \* credential_status, "none" when there is no such device
    revokedAt,      \* revoked_at is set
    approvalKey,    \* approval_public_key is set
    enrollment, enrollKey, enrollLeft,
    challenge, challengeLeft,
    signedBy,       \* the key a request was signed with
    offset,         \* its timestamp less the clock of the store, in ticks
    nonce,          \* ticks its nonce stays in device_request_nonces
    accepted,       \* history: how many times the store accepted it
    todo,           \* requests accepted whose handler has not gone on yet
    proved          \* history: keys that signed a challenge

device == <<key, cred, revokedAt, approvalKey>>
enrolling == <<enrollment, enrollKey, enrollLeft, challenge, challengeLeft>>
requests == <<signedBy, offset, nonce, accepted, todo>>
vars == <<device, enrolling, requests, proved>>

AnyKey == Keys \cup {NoKey}
Less(n) == IF n = 0 THEN 0 ELSE n - 1

----------------------------------------------------------------------------
Init ==
    /\ key = NoKey /\ cred = "none" /\ revokedAt = FALSE /\ approvalKey = FALSE
    /\ enrollment = "none" /\ enrollKey = NoKey /\ enrollLeft = 0
    /\ challenge = [c \in Challenges |-> "none"] /\ challengeLeft = [c \in Challenges |-> 0]
    /\ signedBy = [r \in Requests |-> NoKey] /\ offset = [r \in Requests |-> 0]
    /\ nonce = [r \in Requests |-> 0] /\ accepted = [r \in Requests |-> 0]
    /\ todo = {} /\ proved = {}

\* Mutant of MayRegister: the key of a verified device may be replaced.
MayRegisterVerified(k) == cred # "revoked" /\ ~revokedAt
\* Who may register again: nobody after a revocation, and no other key once verified.
MayRegister(k) ==
    /\ cred # "revoked" /\ ~revokedAt
    /\ k \notin {NoKey, key} => cred # "verified"

\* register_device, with or without a public key.
Register(k) ==
    /\ MayRegister(k)
    /\ key' = IF k = NoKey THEN key ELSE k
    /\ cred' = IF k \notin {NoKey, key} THEN "enrolled"
               ELSE IF cred = "none" THEN "pending" ELSE cred
    /\ UNCHANGED <<revokedAt, approvalKey, enrolling, requests, proved>>

StartEnrollment ==
    /\ enrollment = "none"
    /\ enrollment' = "pending" /\ enrollLeft' = Life
    /\ UNCHANGED <<device, enrollKey, challenge, challengeLeft, requests, proved>>

\* complete_device_enrollment: too late it only marks the enrollment.
CompleteEnrollment(k) ==
    /\ enrollment = "pending"
    /\ IF enrollLeft = 0
       THEN enrollment' = "expired" /\ UNCHANGED enrollKey
       ELSE enrollment' = "completed" /\ enrollKey' = k
    /\ UNCHANGED <<device, enrollLeft, challenge, challengeLeft, requests, proved>>

IssueChallenge(c) ==
    /\ enrollment \in {"pending", "completed"}
    /\ challenge[c] = "none"
    /\ challenge' = [challenge EXCEPT ![c] = "pending"]
    /\ challengeLeft' = [challengeLeft EXCEPT ![c] = Life]
    /\ UNCHANGED <<device, enrollment, enrollKey, enrollLeft, requests, proved>>

\* verify_device_challenge, answered by the owner of the key that it looks up.
\* It does not look at revoked_at, nor at the status of the enrollment.
VerifyChallenge(c) ==
    LET k == IF key # NoKey THEN key ELSE enrollKey IN
    /\ challenge[c] = "pending"
    /\ IF challengeLeft[c] = 0
       THEN challenge' = [challenge EXCEPT ![c] = "expired"] /\ UNCHANGED <<cred, enrollment, proved>>
       ELSE /\ k # NoKey
            /\ challenge' = [challenge EXCEPT ![c] = "verified"]
            /\ cred' = IF cred = "none" THEN "none" ELSE "verified"
            /\ enrollment' = "completed"
            /\ proved' = proved \cup {k}
    /\ UNCHANGED <<key, revokedAt, approvalKey, enrollKey, enrollLeft, challengeLeft, requests>>

Revoke ==
    /\ cred # "none"
    /\ cred' = "revoked" /\ revokedAt' = TRUE
    /\ UNCHANGED <<key, approvalKey, enrolling, requests, proved>>

\* The owner of a key signs a request, by a clock that may be wrong.
Sign(r, k, o) ==
    /\ signedBy[r] = NoKey
    /\ signedBy' = [signedBy EXCEPT ![r] = k]
    /\ offset' = [offset EXCEPT ![r] = o]
    /\ UNCHANGED <<device, enrolling, nonce, accepted, todo, proved>>

\* What verify_device_request_signature asks of a device.
\* Mutant of Trusted: the credential alone decides.
TrustedCredential == cred = "verified"
Trusted == ~revokedAt /\ cred = "verified"

\* Mutant of Fresh: a nonce is forgotten although its request is in the window.
FreshWindow(r) == -Skew <= offset[r] /\ offset[r] <= Skew
Fresh(r) == -Skew <= offset[r] /\ offset[r] <= Skew /\ nonce[r] = 0

\* verify_device_request_signature: the request may come any number of times.
Accept(r) ==
    /\ Trusted
    /\ key # NoKey /\ signedBy[r] = key
    /\ Fresh(r)
    /\ nonce' = [nonce EXCEPT ![r] = TTL]
    /\ accepted' = [accepted EXCEPT ![r] = IF @ = 2 THEN 2 ELSE @ + 1]
    /\ todo' = todo \cup {r}
    /\ UNCHANGED <<device, enrolling, signedBy, offset, proved>>

\* register_approval_key, a store call of its own after Accept: another replica
\* may have revoked the device in between.  The key is write-once.
RegisterApprovalKey(r) ==
    /\ r \in todo
    /\ approvalKey' = (approvalKey \/ Trusted)
    /\ todo' = todo \ {r}
    /\ UNCHANGED <<key, cred, revokedAt, enrolling, signedBy, offset, nonce, accepted, proved>>

\* The process restarts.
Restart ==
    /\ nonce' = IF Durable THEN nonce ELSE [r \in Requests |-> 0]
    /\ todo' = {}
    /\ UNCHANGED <<device, enrolling, signedBy, offset, accepted, proved>>

Tick ==
    /\ enrollLeft' = Less(enrollLeft)
    /\ challengeLeft' = [c \in Challenges |-> Less(challengeLeft[c])]
    /\ offset' = [r \in Requests |->
         IF signedBy[r] = NoKey \/ offset[r] < -Skew THEN offset[r] ELSE offset[r] - 1]
    /\ nonce' = [r \in Requests |-> Less(nonce[r])]
    /\ UNCHANGED <<device, enrollment, enrollKey, challenge, signedBy, accepted, todo, proved>>

Next ==
    \/ \E k \in AnyKey : Register(k)
    \/ \E k \in Keys : CompleteEnrollment(k)
    \/ StartEnrollment \/ Revoke \/ Restart \/ Tick
    \/ \E c \in Challenges : IssueChallenge(c) \/ VerifyChallenge(c)
    \/ \E r \in Requests, k \in Keys, o \in -(Skew + 1)..(Skew + 1) : Sign(r, k, o)
    \/ \E r \in Requests : Accept(r) \/ RegisterApprovalKey(r)

Spec == Init /\ [][Next]_vars

----------------------------------------------------------------------------
TypeOK ==
    /\ key \in AnyKey /\ enrollKey \in AnyKey
    /\ cred \in {"none", "pending", "enrolled", "verified", "revoked"}
    /\ revokedAt \in BOOLEAN /\ approvalKey \in BOOLEAN
    /\ enrollment \in {"none", "pending", "completed", "expired"} /\ enrollLeft \in 0..Life
    /\ challenge \in [Challenges -> {"none", "pending", "verified", "expired"}]
    /\ challengeLeft \in [Challenges -> 0..Life]
    /\ signedBy \in [Requests -> AnyKey]
    /\ offset \in [Requests -> -(Skew + 1)..(Skew + 1)]
    /\ nonce \in [Requests -> 0..TTL] /\ accepted \in [Requests -> 0..2]
    /\ todo \subseteq Requests /\ proved \subseteq Keys

\* A revoked device gets nothing more: no request accepted, no key and no
\* approval key changed, although a challenge that was open when it was revoked
\* can still be answered and makes its credential "verified" again.
RevokedStaysOut ==
    [][revokedAt => accepted' = accepted /\ key' = key /\ approvalKey' = approvalKey]_vars

\* The store accepts a request once, however often it comes and whatever the
\* clock of the device says, as long as the nonces survive.
AcceptedOnce == \A r \in Requests : accepted[r] <= 1

\* A device is trusted only with a key whose owner has answered a challenge.
KeyProved == cred = "verified" /\ key # NoKey => key \in proved
=============================================================================
