------------------------------- MODULE StepUp --------------------------------
(***************************************************************************)
(* verification/grants.py and access/stepup.py, for one user and one       *)
(* scope: completing a factor against a challenge writes a grant and mints *)
(* a token, both for MaxAge seconds; the admin gate accepts the grant, a   *)
(* presented token, or a proof pinned onto the session, which is fresh for *)
(* MaxAge seconds after it was pinned.                                     *)
(*                                                                         *)
(* Keys of the cache are modelled by the seconds they have left, 0 for no  *)
(* key; the session's timestamp by its age. The writes of one call take no *)
(* time that the clock shows, but the process may die between them.        *)
(***************************************************************************)
EXTENDS Naturals

CONSTANTS
    Verifiers,       \* requests that answer a challenge
    MaxAge,          \* max_age of grants and of the session's proof
    MaxAttempts

VARIABLES
    challenge,       \* failed attempts recorded, or NoChallenge
    grant, token,    \* seconds left
    pin,             \* age of the session's proof, Stale when useless
    proof,           \* seconds since a factor was last completed
    verifier         \* what each request holds

vars == <<challenge, grant, token, pin, proof, verifier>>

NoChallenge == MaxAttempts
Stale       == MaxAge + 1
LongAgo     == 2 * MaxAge
Idle        == [at |-> "idle", copy |-> 0]

TypeOK ==
    /\ challenge \in 0 .. MaxAttempts
    /\ grant \in 0 .. MaxAge
    /\ token \in 0 .. MaxAge
    /\ pin \in 0 .. Stale
    /\ proof \in 0 .. LongAgo
    /\ verifier \in [Verifiers -> [at : {"idle", "holding", "consumed", "granted", "minted"},
                                   copy : 0 .. MaxAttempts - 1]]

Init ==
    /\ challenge = NoChallenge
    /\ grant = 0
    /\ token = 0
    /\ pin = Stale
    /\ proof = LongAgo
    /\ verifier = [v \in Verifiers |-> Idle]

Goes(v, place) == verifier' = [verifier EXCEPT ![v].at = place]
Returns(v)     == verifier' = [verifier EXCEPT ![v] = Idle]

-----------------------------------------------------------------------------
(* has_grant(), with the token the client holds. *)
HasGrant == grant > 0 \/ token > 0

(* session_step_up_fresh() *)
SessionFresh == pin <= MaxAge

(* has_fresh_step_up(): what the admin gate asks. *)
HasFreshStepUp == HasGrant \/ SessionFresh

(* A protected view refuses and stores a challenge. One challenge is       *)
(* followed at a time; each has a key of its own.                          *)
CreateChallenge ==
    /\ ~HasGrant
    /\ challenge = NoChallenge
    /\ \A v \in Verifiers : verifier[v].at = "idle"
    /\ challenge' = 0
    /\ UNCHANGED <<grant, token, pin, proof, verifier>>

(* The user answers: the auth service reads the challenge. *)
GetChallenge(v) ==
    /\ verifier[v].at = "idle"
    /\ challenge # NoChallenge
    /\ verifier' = [verifier EXCEPT ![v] = [at |-> "holding", copy |-> challenge]]
    /\ UNCHANGED <<challenge, grant, token, pin, proof>>

(* record_failed_attempt(): delete at the limit, or write the copy back. *)
RecordFailedAttempt(v) ==
    /\ verifier[v].at = "holding"
    /\ challenge' = verifier[v].copy + 1
    /\ Returns(v)
    /\ UNCHANGED <<grant, token, pin, proof>>

(* complete_challenge(): the factor was right; the challenge goes ... *)
Consume(v) ==
    /\ verifier[v].at = "holding"
    /\ challenge' = NoChallenge
    /\ proof' = 0
    /\ Goes(v, "consumed")
    /\ UNCHANGED <<grant, token, pin>>

(* ... the grant is written ... *)
GrantVerification(v) ==
    /\ verifier[v].at = "consumed"
    /\ grant' = MaxAge
    /\ Goes(v, "granted")
    /\ UNCHANGED <<challenge, token, pin, proof>>

(* ... and the token, which the client keeps. *)
MintToken(v) ==
    /\ verifier[v].at = "granted"
    /\ token' = MaxAge
    /\ Goes(v, "minted")
    /\ UNCHANGED <<challenge, grant, pin, proof>>

(* The host's view pins the proof onto a session, or there is none. *)
RecordInSession(v) ==
    /\ verifier[v].at = "minted"
    /\ pin' \in {0, pin}
    /\ Returns(v)
    /\ UNCHANGED <<challenge, grant, token, proof>>

(* The cache is down, or the process dies, between two writes. *)
Break(v) ==
    /\ verifier[v].at # "idle"
    /\ Returns(v)
    /\ UNCHANGED <<challenge, grant, token, pin, proof>>

-----------------------------------------------------------------------------
(* Mutant: the session's own proof is good enough to be pinned again. *)
AdoptFresh ==
    /\ HasFreshStepUp
    /\ pin' = 0
    /\ UNCHANGED <<challenge, grant, token, proof, verifier>>

(* adopt_step_up_token(): an admin view was given a token; a grant will    *)
(* do. The proof is pinned as of now.                                      *)
AdoptStepUpToken ==
    /\ HasGrant
    /\ pin' = 0
    /\ UNCHANGED <<challenge, grant, token, proof, verifier>>

(* revoke_grants(), drop_verification_token(), drop_challenge() or the     *)
(* challenge's TTL, and the end of the session: one record each.           *)
RevokeGrants ==
    /\ grant > 0
    /\ grant' = 0
    /\ UNCHANGED <<challenge, token, pin, proof, verifier>>

DropToken ==
    /\ token > 0
    /\ token' = 0
    /\ UNCHANGED <<challenge, grant, pin, proof, verifier>>

DropChallenge ==
    /\ challenge # NoChallenge
    /\ challenge' = NoChallenge
    /\ UNCHANGED <<grant, token, pin, proof, verifier>>

EndSession ==
    /\ pin # Stale
    /\ pin' = Stale
    /\ UNCHANGED <<challenge, grant, token, proof, verifier>>

Left(n)         == IF n > 0 THEN n - 1 ELSE 0
Older(n, limit) == IF n < limit THEN n + 1 ELSE limit

(* A second passes, outside complete_challenge(). *)
Tick ==
    /\ \A v \in Verifiers : verifier[v].at \in {"idle", "holding"}
    /\ grant' = Left(grant)
    /\ token' = Left(token)
    /\ pin' = Older(pin, Stale)
    /\ proof' = Older(proof, LongAgo)
    /\ UNCHANGED <<challenge, verifier>>

Next ==
    \/ \E v \in Verifiers :
          \/ GetChallenge(v) \/ RecordFailedAttempt(v) \/ Consume(v)
          \/ GrantVerification(v) \/ MintToken(v) \/ RecordInSession(v) \/ Break(v)
    \/ CreateChallenge \/ AdoptStepUpToken
    \/ RevokeGrants \/ DropToken \/ DropChallenge \/ EndSession \/ Tick

Spec == Init /\ [][Next]_vars

-----------------------------------------------------------------------------
(* "Step-up decides whether it was re-proven recently" (stepup.py:6): when *)
(* the admin gate opens, the user's own factor was completed less than     *)
(* twice MaxAge ago. Once is not enough: a token adopted at the end of its *)
(* life is pinned as of now, with a MaxAge of its own.                     *)
ProvenRecently == HasFreshStepUp => proof < 2 * MaxAge
=============================================================================
