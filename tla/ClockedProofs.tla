---------------------------- MODULE ClockedProofs ----------------------------
(***************************************************************************)
(* Theorems about the components of Services that a clock runs in, or that *)
(* count attempts: for any lifetimes, delays, budgets and thresholds, and  *)
(* any number of requests, verifiers and threads. Each component has an    *)
(* inductive invariant that relates the ages of what is stored to the ages *)
(* of what was read; what a run of MCServices checks follows from it.      *)
(***************************************************************************)
EXTENDS Services, FiniteSetTheorems, TLAPS

-----------------------------------------------------------------------------
(* The behaviours of one component in the composition: it moves as its     *)
(* own Next says, or stands still.                                         *)

LEMMA RunsOneTimeCode == ServicesSpec => OneTimeCode!Spec
<1>1. ServicesInit => OneTimeCode!Init
  BY DEF ServicesInit
<1>2. [ServicesNext]_Services_vars => [OneTimeCode!Next]_OneTimeCode!vars
  BY DEF ServicesNext, Services_vars, Code_vars, OneTimeCode!vars
<1> QED
  BY <1>1, <1>2, PTL DEF ServicesSpec, OneTimeCode!Spec

LEMMA RunsStepUp == ServicesSpec => StepUp!Spec
<1>1. ServicesInit => StepUp!Init
  BY DEF ServicesInit
<1>2. [ServicesNext]_Services_vars => [StepUp!Next]_StepUp!vars
  BY DEF ServicesNext, Services_vars, StepUp_vars, StepUp!vars
<1> QED
  BY <1>1, <1>2, PTL DEF ServicesSpec, StepUp!Spec

LEMMA RunsPolicyCache == ServicesSpec => PolicyCache!Spec
<1>1. ServicesInit => PolicyCache!Init
  BY DEF ServicesInit
<1>2. [ServicesNext]_Services_vars => [PolicyCache!Next]_PolicyCache!vars
  BY DEF ServicesNext, Services_vars, Policy_vars, PolicyCache!vars
<1> QED
  BY <1>1, <1>2, PTL DEF ServicesSpec, PolicyCache!Spec

LEMMA RunsConsumerLiveness == ServicesSpec => ConsumerLiveness!Spec
<1>1. ServicesInit => ConsumerLiveness!Init
  BY DEF ServicesInit
<1>2. [ServicesNext]_Services_vars => [ConsumerLiveness!Next]_ConsumerLiveness!vars
  BY DEF ServicesNext, Services_vars, Loop_vars, ConsumerLiveness!vars
<1> QED
  BY <1>1, <1>2, PTL DEF ServicesSpec, ConsumerLiveness!Spec

LEMMA RunsWorkspaceDoors == ServicesSpec => WorkspaceDoors!Spec
<1>1. ServicesInit => WorkspaceDoors!Init
  BY DEF ServicesInit
<1>2. [ServicesNext]_Services_vars => [WorkspaceDoors!Next]_WorkspaceDoors!vars
  BY DEF ServicesNext, Services_vars, Door_vars, WorkspaceDoors!vars
<1> QED
  BY <1>1, <1>2, PTL DEF ServicesSpec, WorkspaceDoors!Spec

LEMMA RunsNetIntel == ServicesSpec => NetIntel!Spec
<1>1. ServicesInit => NetIntel!Init
  BY DEF ServicesInit
<1>2. [ServicesNext]_Services_vars => [NetIntel!Next]_NetIntel!vars
  BY DEF ServicesNext, Services_vars, IP_vars, NetIntel!vars
<1> QED
  BY <1>1, <1>2, PTL DEF ServicesSpec, NetIntel!Spec

LEMMA RunsShadowUser == ServicesSpec => ShadowUser!Spec
<1>1. ServicesInit => ShadowUser!Init
  BY DEF ServicesInit
<1>2. [ServicesNext]_Services_vars => [ShadowUser!Next]_ShadowUser!vars
  BY DEF ServicesNext, Services_vars, Shadow_vars, ShadowUser!vars
<1> QED
  BY <1>1, <1>2, PTL DEF ServicesSpec, ShadowUser!Spec

-----------------------------------------------------------------------------
(* Step-up *)

(* A grant, and a token, has no more left than a proof of its age could     *)
(* have; a session's proof was less than ProofAge old when it was pinned;  *)
(* and a factor that is being completed was completed just now.            *)
StepUpInv ==
    /\ StepUp!TypeOK
    /\ grant > 0 => proof + grant <= ProofAge
    /\ token > 0 => proof + token <= ProofAge
    /\ pin <= ProofAge => proof < pin + ProofAge
    /\ \A v \in Verifiers :
          verifier[v].at \in {"consumed", "granted", "minted"} => proof = 0

LEMMA StepUpInit == StepUp!Init => StepUpInv
BY ServicesAssumption DEF StepUpInv, StepUp!TypeOK, StepUp!Init, StepUp!NoChallenge,
   StepUp!Stale, StepUp!LongAgo, StepUp!Idle

(* A step of one request: what it holds, and what it writes. *)
LEMMA VerifierSteps ==
    ASSUME StepUpInv, NEW v \in Verifiers,
           \/ StepUp!GetChallenge(v) \/ StepUp!RecordFailedAttempt(v) \/ StepUp!Consume(v)
           \/ StepUp!GrantVerification(v) \/ StepUp!MintToken(v)
           \/ StepUp!RecordInSession(v) \/ StepUp!Break(v)
    PROVE  StepUpInv'
<1> USE ServicesAssumption DEF StepUpInv, StepUp!TypeOK, StepUp!NoChallenge, StepUp!Stale,
        StepUp!LongAgo, StepUp!Idle, StepUp!Goes, StepUp!Returns
<1>1. CASE StepUp!GetChallenge(v)
  <2>1. challenge \in 0 .. MaxGuesses - 1
    BY <1>1 DEF StepUp!GetChallenge
  <2>2. [at |-> "holding", copy |-> challenge]
            \in [at : {"idle", "holding", "consumed", "granted", "minted"},
                 copy : 0 .. MaxGuesses - 1]
    BY <2>1
  <2>3. verifier' = [verifier EXCEPT ![v] = [at |-> "holding", copy |-> challenge]]
    BY <1>1 DEF StepUp!GetChallenge
  <2>4. verifier' \in [Verifiers -> [at : {"idle", "holding", "consumed", "granted", "minted"},
                                     copy : 0 .. MaxGuesses - 1]]
    BY <2>2, <2>3
  <2>5. \A w \in Verifiers : verifier'[w].at \in {"consumed", "granted", "minted"} => proof = 0
    BY <2>3
  <2> QED
    BY <1>1, <2>4, <2>5 DEF StepUp!GetChallenge
<1>2. CASE StepUp!RecordFailedAttempt(v)
  BY <1>2 DEF StepUp!RecordFailedAttempt
<1>3. CASE StepUp!Consume(v)
  BY <1>3 DEF StepUp!Consume
<1>4. CASE StepUp!GrantVerification(v)
  BY <1>4 DEF StepUp!GrantVerification
<1>5. CASE StepUp!MintToken(v)
  BY <1>5 DEF StepUp!MintToken
<1>6. CASE StepUp!RecordInSession(v)
  <2>1. /\ verifier[v].at = "minted" /\ pin' \in {0, pin}
        /\ verifier' = [verifier EXCEPT ![v] = StepUp!Idle]
        /\ UNCHANGED <<challenge, grant, token, proof>>
    BY <1>6 DEF StepUp!RecordInSession
  <2>2. proof = 0 /\ pin \in 0 .. StepUp!Stale /\ ProofAge \in Nat \ {0}
    BY <2>1
  <2>3. pin' \in 0 .. StepUp!Stale /\ (pin' <= ProofAge => proof < pin' + ProofAge)
    <3> HIDE DEF StepUpInv, StepUp!TypeOK
    <3>1. CASE pin' = 0
      BY <2>2, <3>1
    <3>2. CASE pin' = pin
      BY <2>2, <3>2
    <3> QED
      BY <2>1, <3>1, <3>2
  <2>4. StepUp!Idle \in [at : {"idle", "holding", "consumed", "granted", "minted"},
                         copy : 0 .. MaxGuesses - 1]
        /\ StepUp!Idle.at = "idle"
    OBVIOUS
  <2> QED
    BY <2>1, <2>2, <2>3, <2>4
<1>7. CASE StepUp!Break(v)
  BY <1>7 DEF StepUp!Break
<1> QED
  BY <1>1, <1>2, <1>3, <1>4, <1>5, <1>6, <1>7

LEMMA StepUpTick == StepUpInv /\ StepUp!Tick => StepUpInv'
BY ServicesAssumption DEF StepUpInv, StepUp!TypeOK, StepUp!Tick, StepUp!Left, StepUp!Older,
   StepUp!Stale, StepUp!LongAgo

(* The inductive invariant of proofs on their way from a factor to a       *)
(* session, through the records of verification/grants.py.                 *)
THEOREM StepUpInvariant == StepUp!Spec => []StepUpInv
<1>1. StepUpInv /\ [StepUp!Next]_StepUp!vars => StepUpInv'
  <2> SUFFICES ASSUME StepUpInv, [StepUp!Next]_StepUp!vars PROVE StepUpInv'
    OBVIOUS
  <2> USE ServicesAssumption DEF StepUpInv, StepUp!TypeOK, StepUp!NoChallenge, StepUp!Stale
  <2>1. CASE StepUp!CreateChallenge
    BY <2>1 DEF StepUp!CreateChallenge
  <2>2. CASE StepUp!AdoptStepUpToken
    BY <2>2 DEF StepUp!AdoptStepUpToken, StepUp!HasGrant, StepUp!LongAgo
  <2>3. CASE StepUp!RevokeGrants
    BY <2>3 DEF StepUp!RevokeGrants
  <2>4. CASE StepUp!DropToken
    BY <2>4 DEF StepUp!DropToken
  <2>5. CASE StepUp!DropChallenge
    BY <2>5 DEF StepUp!DropChallenge
  <2>6. CASE StepUp!EndSession
    BY <2>6 DEF StepUp!EndSession
  <2>7. CASE StepUp!Tick
    BY <2>7, StepUpTick
  <2>8. CASE UNCHANGED StepUp!vars
    BY <2>8 DEF StepUp!vars
  <2> QED
    BY <2>1, <2>2, <2>3, <2>4, <2>5, <2>6, <2>7, <2>8, VerifierSteps DEF StepUp!Next
<1> QED
  BY <1>1, StepUpInit, PTL DEF StepUp!Spec

(* "Step-up decides whether it was re-proven recently" (access/stepup.py:6): *)
(* for any ProofAge and any number of requests at a challenge, the admin   *)
(* gate opens only for a factor completed less than twice ProofAge ago.    *)
THEOREM ServicesProvenRecently == ServicesSpec => []ProvenRecently
<1>1. StepUpInv => ProvenRecently
  BY ServicesAssumption DEF StepUpInv, StepUp!TypeOK, StepUp!LongAgo, StepUp!Stale,
     ProvenRecently, StepUp!ProvenRecently, StepUp!HasFreshStepUp, StepUp!HasGrant,
     StepUp!SessionFresh
<1> QED
  BY <1>1, StepUpInvariant, RunsStepUp, PTL

-----------------------------------------------------------------------------
(* The policy cache *)

(* A cached answer is as old as its key, and as the request that stored it *)
(* was then; and one that is old differs from the preference only if the   *)
(* preference is as young as that.                                         *)
PolicyInv ==
    /\ PolicyCache!TypeOK
    /\ \A r \in Requests : asking[r].at = "answered" =>
          asking[r].answer = disabled \/ since <= asking[r].age
    /\ left > 0 => cached = disabled \/ since + left <= PolicyTTL + PolicyDelay

PolicyRequests == [at : {"idle", "calling", "answered"}, answer : BOOLEAN, age : 0 .. PolicyDelay]

LEMMA PolicyIdle == PolicyCache!Idle \in PolicyRequests
BY ServicesAssumption DEF PolicyCache!Idle, PolicyRequests

LEMMA PolicyInit == PolicyCache!Init => PolicyInv
<1> SUFFICES ASSUME PolicyCache!Init PROVE PolicyInv
  OBVIOUS
<1>1. asking \in [Requests -> PolicyRequests]
  BY PolicyIdle DEF PolicyCache!Init
<1>2. PolicyCache!TypeOK
  <2>1. since \in 0 .. PolicyCache!LongAgo /\ left \in 0 .. PolicyTTL
    BY ServicesAssumption DEF PolicyCache!Init, PolicyCache!LongAgo
  <2>2. disabled \in BOOLEAN /\ cached \in BOOLEAN
    BY DEF PolicyCache!Init
  <2> QED
    BY <1>1, <2>1, <2>2 DEF PolicyCache!TypeOK, PolicyRequests
<1>3. left = 0 /\ \A r \in Requests : asking[r].at = "idle"
  BY DEF PolicyCache!Init, PolicyCache!Idle
<1> QED
  BY <1>2, <1>3 DEF PolicyInv

LEMMA PolicySteps ==
    ASSUME PolicyInv, NEW r \in Requests,
           \/ PolicyCache!Miss(r) \/ PolicyCache!Answer(r) \/ PolicyCache!Unavailable(r)
           \/ PolicyCache!Store(r)
    PROVE  PolicyInv'
<1> USE ServicesAssumption DEF PolicyInv, PolicyCache!TypeOK, PolicyCache!Idle, PolicyCache!LongAgo
<1>1. CASE PolicyCache!Miss(r)
  BY <1>1 DEF PolicyCache!Miss
<1>2. CASE PolicyCache!Answer(r)
  BY <1>2 DEF PolicyCache!Answer
<1>3. CASE PolicyCache!Unavailable(r)
  <2>1. asking' \in [Requests -> PolicyRequests]
    BY <1>3, PolicyIdle DEF PolicyCache!Unavailable, PolicyRequests
  <2> QED
    BY <1>3, <2>1 DEF PolicyCache!Unavailable, PolicyRequests
<1>4. CASE PolicyCache!Store(r)
  <2>1. asking' \in [Requests -> PolicyRequests]
    BY <1>4, PolicyIdle DEF PolicyCache!Store, PolicyRequests
  <2>2. cached' \in BOOLEAN /\ left' = PolicyTTL
    BY <1>4 DEF PolicyCache!Store
  <2>3. cached' = disabled' \/ since' + left' <= PolicyTTL + PolicyDelay
    BY <1>4 DEF PolicyCache!Store
  <2>4. PolicyCache!TypeOK'
    BY <1>4, <2>1, <2>2 DEF PolicyCache!Store, PolicyRequests
  <2>5. \A q \in Requests : asking'[q].at = "answered" =>
            asking'[q].answer = disabled' \/ since' <= asking'[q].age
    BY <1>4 DEF PolicyCache!Store
  <2> QED
    BY <2>3, <2>4, <2>5
<1> QED
  BY <1>1, <1>2, <1>3, <1>4

LEMMA PolicyTick == PolicyInv /\ PolicyCache!Tick => PolicyInv'
<1> SUFFICES ASSUME PolicyInv, PolicyCache!Tick PROVE PolicyInv'
  OBVIOUS
<1> USE ServicesAssumption DEF PolicyInv, PolicyCache!TypeOK, PolicyCache!Tick,
        PolicyCache!LongAgo
<1>1. PolicyCache!TypeOK'
  OBVIOUS
<1>2. \A r \in Requests : asking'[r].at = "answered" =>
          asking'[r].answer = disabled' \/ since' <= asking'[r].age
  OBVIOUS
<1>3. left' > 0 => cached' = disabled' \/ since' + left' <= PolicyTTL + PolicyDelay
  OBVIOUS
<1> QED
  BY <1>1, <1>2, <1>3

(* The inductive invariant of the policy cache. *)
THEOREM PolicyInvariant == PolicyCache!Spec => []PolicyInv
<1>1. PolicyInv /\ [PolicyCache!Next]_PolicyCache!vars => PolicyInv'
  <2> SUFFICES ASSUME PolicyInv, [PolicyCache!Next]_PolicyCache!vars PROVE PolicyInv'
    OBVIOUS
  <2> USE ServicesAssumption DEF PolicyInv, PolicyCache!TypeOK, PolicyCache!LongAgo
  <2>1. CASE PolicyCache!Change
    BY <2>1 DEF PolicyCache!Change
  <2>2. CASE PolicyCache!Invalidate
    BY <2>2 DEF PolicyCache!Invalidate
  <2>3. CASE PolicyCache!Tick
    BY <2>3, PolicyTick
  <2>4. CASE UNCHANGED PolicyCache!vars
    BY <2>4 DEF PolicyCache!vars
  <2> QED
    BY <2>1, <2>2, <2>3, <2>4, PolicySteps DEF PolicyCache!Next
<1> QED
  BY <1>1, PolicyInit, PTL DEF PolicyCache!Spec

(* "A user who turns a scope ON can be unprotected in a peer for up to     *)
(* that window" (policy.py:101), for any TTL, delay and number of requests: *)
(* what decides a request is the preference of at most so long ago.        *)
THEOREM ServicesProtectedInTime == ServicesSpec => []ProtectedInTime
<1>1. PolicyInv => ProtectedInTime
  <2> SUFFICES ASSUME PolicyInv, since >= PolicyTTL + PolicyDelay
               PROVE  /\ left > 0 => cached = disabled
                      /\ \A r \in Requests : asking[r].at = "answered" =>
                            asking[r].answer = disabled
    BY DEF ProtectedInTime, PolicyCache!ProtectedInTime
  <2> QED
    BY ServicesAssumption DEF PolicyInv, PolicyCache!TypeOK
<1> QED
  BY <1>1, PolicyInvariant, RunsPolicyCache, PTL

-----------------------------------------------------------------------------
(* Consumer liveness *)

(* The ages agree: what is spent in a handler is never part of apart, and  *)
(* is taken out of unassigned; while the heartbeat says "handling" it is   *)
(* as old as the handler, and it says "poll" since partitions were last    *)
(* seen. Once a question to the brokers is under way it was not answered,  *)
(* so that up is younger.                                                  *)
LoopInv ==
    /\ ConsumerLiveness!TypeOK
    /\ loop = "polling" => apart = unassigned /\ running = 0
    /\ loop = "handling" =>
          /\ apart = 0 /\ unassigned = running /\ assigned
          /\ beat = [state |-> "handling", age |-> running]
    /\ loop = "exited" => fatal \/ (apart >= StallWindow /\ up > 0)
    /\ loop # "handling" => beat.state # "handling" /\ (beat.state = "poll" => beat.age >= apart)
    /\ loop # "exited" /\ probed < ProbeInterval => up <= probed + 1
    /\ loop = "polling" /\ apart >= StallWindow + polled => up <= ProbeInterval + polled

LEMMA LoopInit == ConsumerLiveness!Init => LoopInv
<1> SUFFICES ASSUME ConsumerLiveness!Init PROVE LoopInv
  OBVIOUS
<1>1. ConsumerLiveness!Long \in Nat \ {0}
  BY ServicesAssumption DEF ConsumerLiveness!Long
<1>2. beat \in [state : {"none", "poll", "handling"}, age : 0 .. ConsumerLiveness!Long]
  BY <1>1 DEF ConsumerLiveness!Init, ConsumerLiveness!NoBeat
<1>3. ConsumerLiveness!TypeOK
  <2>1. member \in BOOLEAN /\ assigned \in BOOLEAN /\ fatal \in BOOLEAN
    BY DEF ConsumerLiveness!Init
  <2>2. /\ loop \in {"polling", "handling", "exited"}
        /\ unassigned \in 0 .. ConsumerLiveness!Long /\ apart \in 0 .. ConsumerLiveness!Long
        /\ up \in 0 .. ConsumerLiveness!Long
        /\ running \in 0 .. MaxRun /\ polled \in 0 .. PollTimeout
        /\ probed \in 0 .. ProbeInterval
    BY <1>1, ServicesAssumption DEF ConsumerLiveness!Init
  <2> QED
    BY <1>2, <2>1, <2>2 DEF ConsumerLiveness!TypeOK
<1>4. /\ loop = "polling" /\ apart = 0 /\ unassigned = 0 /\ running = 0
      /\ polled = 0 /\ probed = ProbeInterval /\ beat.state = "none"
  BY DEF ConsumerLiveness!Init, ConsumerLiveness!NoBeat
<1> QED
  BY <1>3, <1>4, ServicesAssumption DEF LoopInv

LEMMA LoopTick == LoopInv /\ ConsumerLiveness!Tick => LoopInv'
<1> SUFFICES ASSUME LoopInv, ConsumerLiveness!Tick PROVE LoopInv'
  OBVIOUS
<1> DEFINE Long == ConsumerLiveness!Long
<1> USE DEF LoopInv, ConsumerLiveness!TypeOK
<1>1. Long \in Nat /\ Long >= MaxRun + StallWindow + ProbeInterval + PollTimeout /\ MaxRun \in Nat
  BY ServicesAssumption DEF ConsumerLiveness!Long
<1> HIDE DEF Long
<1>2. \A n \in 0 .. Long : ConsumerLiveness!Older(n) \in 0 .. Long
                           /\ ConsumerLiveness!Older(n) = IF n < Long THEN n + 1 ELSE n
  BY <1>1 DEF ConsumerLiveness!Older, Long
<1>3. loop \in {"polling", "handling"} /\ UNCHANGED <<loop, member, assigned, fatal>>
  BY DEF ConsumerLiveness!Tick
<1>4. /\ unassigned \in 0 .. Long /\ unassigned' \in 0 .. Long
      /\ apart \in 0 .. Long /\ apart' \in 0 .. Long
      /\ up \in 0 .. Long /\ up' \in 0 .. Long
      /\ unassigned' = ConsumerLiveness!Older(unassigned)
      /\ apart' = IF loop = "polling" THEN ConsumerLiveness!Older(apart) ELSE apart
      /\ up' = IF up > 0 THEN ConsumerLiveness!Older(up) ELSE 0
  BY <1>1, <1>2 DEF ConsumerLiveness!Tick, Long
<1>5. /\ running \in 0 .. MaxRun /\ running' \in 0 .. MaxRun
      /\ running' = IF loop = "handling" THEN running + 1 ELSE running
      /\ polled' \in 0 .. PollTimeout
      /\ polled' = IF loop = "polling" THEN polled + 1 ELSE polled
      /\ probed' \in 0 .. ProbeInterval
      /\ probed' = IF probed < ProbeInterval THEN probed + 1 ELSE probed
  BY <1>3, ServicesAssumption DEF ConsumerLiveness!Tick
<1>6. beat' \in [state : {"none", "poll", "handling"}, age : 0 .. Long]
  BY <1>1, <1>2 DEF ConsumerLiveness!Tick, Long
<1>7. /\ beat'.state = beat.state
      /\ beat.state # "none" => beat'.age = ConsumerLiveness!Older(beat.age)
  BY DEF ConsumerLiveness!Tick, ConsumerLiveness!NoBeat
<1>8. ConsumerLiveness!TypeOK'
  BY <1>3, <1>4, <1>5, <1>6 DEF Long
<1>9. loop = "polling" => apart' = unassigned' /\ running' = 0
  BY <1>4, <1>5
<1>10. loop = "handling" =>
          /\ apart' = 0 /\ unassigned' = running' /\ assigned'
          /\ beat' = [state |-> "handling", age |-> running']
  <2> SUFFICES ASSUME loop = "handling"
               PROVE  /\ apart' = 0 /\ unassigned' = running' /\ assigned'
                      /\ beat' = [state |-> "handling", age |-> running']
    OBVIOUS
  <2>1. running < MaxRun /\ running < Long
    BY <1>1, <1>5, ServicesAssumption DEF ConsumerLiveness!Tick
  <2>2. apart' = 0 /\ unassigned' = running'
    BY <2>1, <1>2, <1>4, <1>5
  <2>3. beat'.state = "handling" /\ beat'.age = running'
    BY <2>1, <1>1, <1>2, <1>5, <1>7
  <2> QED
    BY <2>2, <2>3, <1>3, <1>6
<1>11. loop # "handling" =>
          beat'.state # "handling" /\ (beat'.state = "poll" => beat'.age >= apart')
  <2> SUFFICES ASSUME loop = "polling", beat.state = "poll"
               PROVE  beat'.age >= apart'
    BY <1>3, <1>7
  <2>1. beat.age \in 0 .. Long /\ beat.age >= apart
    BY DEF Long
  <2>2. beat'.age = ConsumerLiveness!Older(beat.age)
    BY <1>7
  <2> QED
    BY <2>1, <2>2, <1>1, <1>2, <1>4
<1>12. probed' < ProbeInterval => up' <= probed' + 1
  BY <1>1, <1>2, <1>3, <1>4, <1>5, ServicesAssumption
<1>13. loop = "polling" /\ apart' >= StallWindow + polled' => up' <= ProbeInterval + polled'
  BY <1>1, <1>2, <1>4, <1>5, ServicesAssumption
<1> QED
  BY <1>3, <1>8, <1>9, <1>10, <1>11, <1>12, <1>13

(* The inductive invariant of the consume loop and its heartbeat. *)
THEOREM LoopInvariant == ConsumerLiveness!Spec => []LoopInv
<1>1. LoopInv /\ [ConsumerLiveness!Next]_ConsumerLiveness!vars => LoopInv'
  <2> SUFFICES ASSUME LoopInv, [ConsumerLiveness!Next]_ConsumerLiveness!vars PROVE LoopInv'
    OBVIOUS
  <2>0. ConsumerLiveness!Long \in Nat \ {0}
    BY ServicesAssumption DEF ConsumerLiveness!Long
  <2> USE ServicesAssumption, <2>0 DEF LoopInv, ConsumerLiveness!TypeOK
  <2>1. CASE ConsumerLiveness!Join
    BY <2>1 DEF ConsumerLiveness!Join
  <2>2. CASE ConsumerLiveness!LoseAssignment
    BY <2>2 DEF ConsumerLiveness!LoseAssignment
  <2>3. CASE ConsumerLiveness!BrokersTurn
    BY <2>3 DEF ConsumerLiveness!BrokersTurn
  <2>4. CASE ConsumerLiveness!OnBrokerError
    BY <2>4 DEF ConsumerLiveness!OnBrokerError
  <2>5. CASE ConsumerLiveness!Poll
    BY <2>5 DEF ConsumerLiveness!Poll, ConsumerLiveness!RecordPoll, ConsumerLiveness!StallReason
  <2>6. CASE ConsumerLiveness!PollMessage
    BY <2>6 DEF ConsumerLiveness!PollMessage
  <2>7. CASE ConsumerLiveness!LeaveHandler
    BY <2>7 DEF ConsumerLiveness!LeaveHandler, ConsumerLiveness!Handled
  <2>8. CASE ConsumerLiveness!Tick
    BY <2>8, LoopTick
  <2>9. CASE UNCHANGED ConsumerLiveness!vars
    BY <2>9 DEF ConsumerLiveness!vars
  <2> QED
    BY <2>1, <2>2, <2>3, <2>4, <2>5, <2>6, <2>7, <2>8, <2>9 DEF ConsumerLiveness!Next
<1> QED
  BY <1>1, LoopInit, PTL DEF ConsumerLiveness!Spec

(* "Work in progress is not a stall" (liveness.py:51): whatever a handler  *)
(* takes, the process is ended only for a fatal error or for a whole       *)
(* window of polling without partitions, and the probe spares a handler    *)
(* within its budget.                                                      *)
THEOREM ServicesWorkSpared == ServicesSpec => []WorkSpared
<1>1. LoopInv => WorkSpared
  BY DEF LoopInv, WorkSpared, ConsumerLiveness!WorkSpared, ConsumerLiveness!BusConsumerAlive
<1> QED
  BY <1>1, LoopInvariant, RunsConsumerLiveness, PTL

(* "A consumer with no partitions is not alive" (liveness.py:1): the other *)
(* half, for any window, probe interval and poll timeout.                  *)
THEOREM ServicesStallFound == ServicesSpec => []StallFound
<1>1. LoopInv => StallFound
  BY ServicesAssumption DEF LoopInv, ConsumerLiveness!TypeOK, StallFound,
     ConsumerLiveness!StallFound, ConsumerLiveness!BusConsumerAlive, ConsumerLiveness!Long
<1> QED
  BY <1>1, LoopInvariant, RunsConsumerLiveness, PTL

-----------------------------------------------------------------------------
(* One-time codes *)

CodePlaces   == {"idle", "reading", "matched", "missed", "blocking"}
CodeRecords  == [code : 0 .. MaxCodes, attempts : 0 .. Budget]
CodeCheckers == [at : CodePlaces, shows : 0 .. MaxCodes, copy : CodeRecords, late : BOOLEAN]

(* A record, and a copy that digits were compared with, is of a code that  *)
(* was issued, and has attempts left.                                      *)
Standing(r) == r.code \in 1 .. issued /\ r.attempts < Budget

CodeTypes ==
    /\ issued \in 0 .. MaxCodes /\ blocked \in BOOLEAN
    /\ {accepted, refuted, overlaps} \subseteq [1 .. MaxCodes -> Nat]
    /\ record \in CodeRecords /\ (record.code # 0 => Standing(record))
    /\ checker \in [Checkers -> CodeCheckers]
    /\ \A c \in Checkers :
          checker[c].at \in {"matched", "missed"} => Standing(checker[c].copy)

LEMMA CodeTypesTypeOK == CodeTypes => OneTimeCode!TypeOK
BY DEF CodeTypes, Standing, OneTimeCode!TypeOK, CodePlaces, CodeRecords, CodeCheckers,
   OneTimeCode!Records, OneTimeCode!Codes

LEMMA CodeShapes ==
    /\ OneTimeCode!NoRecord \in CodeRecords /\ OneTimeCode!NoRecord.code = 0
    /\ OneTimeCode!Idle \in CodeCheckers /\ OneTimeCode!Idle.at = "idle"
<1>1. OneTimeCode!NoRecord \in CodeRecords /\ OneTimeCode!NoRecord.code = 0
  BY ServicesAssumption DEF OneTimeCode!NoRecord, CodeRecords
<1> QED
  BY <1>1, ServicesAssumption
  DEF OneTimeCode!Idle, OneTimeCode!Request, CodeCheckers, CodePlaces

LEMMA CodeTypesInit == OneTimeCode!Init => CodeTypes
<1> SUFFICES ASSUME OneTimeCode!Init PROVE CodeTypes
  OBVIOUS
<1>1. blocked \in BOOLEAN
  BY DEF OneTimeCode!Init
<1>2. issued \in 0 .. MaxCodes /\ {accepted, refuted, overlaps} \subseteq [1 .. MaxCodes -> Nat]
  BY ServicesAssumption DEF OneTimeCode!Init, OneTimeCode!Codes
<1> QED
  BY <1>1, <1>2, CodeShapes DEF OneTimeCode!Init, CodeTypes

(* One request moves, to k: what has to be shown of it. *)
LEMMA CheckerMoves ==
    ASSUME CodeTypes, NEW c \in Checkers, NEW k \in CodeCheckers,
           checker' = [checker EXCEPT ![c] = k],
           k.at \in {"matched", "missed"} => Standing(k.copy),
           UNCHANGED issued
    PROVE  /\ checker' \in [Checkers -> CodeCheckers]
           /\ \A d \in Checkers :
                 checker'[d].at \in {"matched", "missed"} => Standing(checker[d].copy)'
BY DEF CodeTypes, Standing

LEMMA VerdictTypes ==
    ASSUME CodeTypes, NEW c \in Checkers, checker[c].copy.code \in 1 .. issued
    PROVE  /\ OneTimeCode!CountOverlap(c) => overlaps' \in [1 .. MaxCodes -> Nat]
           /\ OneTimeCode!Refute(c) => {refuted', overlaps'} \subseteq [1 .. MaxCodes -> Nat]
           /\ accepted' = [accepted EXCEPT ![checker[c].copy.code] = @ + 1] =>
                 accepted' \in [1 .. MaxCodes -> Nat]
<1> DEFINE n == checker[c].copy.code
<1>1. n \in 1 .. MaxCodes
  <2>1. issued \in 0 .. MaxCodes /\ MaxCodes \in Nat
    BY ServicesAssumption DEF CodeTypes
  <2> QED
    BY <2>1
<1>2. {accepted, refuted, overlaps} \subseteq [1 .. MaxCodes -> Nat]
  BY DEF CodeTypes
<1>3. ASSUME NEW f \in [1 .. MaxCodes -> Nat]
      PROVE  [f EXCEPT ![n] = @ + 1] \in [1 .. MaxCodes -> Nat]
  <2>1. f[n] + 1 \in Nat
    BY <1>1
  <2> QED
    BY <2>1
<1> QED
  <2>1. OneTimeCode!CountOverlap(c) => overlaps' \in [1 .. MaxCodes -> Nat]
    BY <1>2, <1>3 DEF OneTimeCode!CountOverlap
  <2>2. refuted' = [refuted EXCEPT ![n] = @ + 1] => refuted' \in [1 .. MaxCodes -> Nat]
    BY <1>2, <1>3
  <2>3. accepted' = [accepted EXCEPT ![n] = @ + 1] => accepted' \in [1 .. MaxCodes -> Nat]
    BY <1>2, <1>3
  <2> QED
    BY <2>1, <2>2, <2>3 DEF OneTimeCode!Refute

(* A step of one request in check(). *)
LEMMA CheckerTypes ==
    ASSUME CodeTypes, NEW c \in Checkers,
           \/ \E n \in 0 .. issued : OneTimeCode!Begin(c, n)
           \/ OneTimeCode!Look(c) \/ OneTimeCode!Spend(c) \/ OneTimeCode!Exhaust(c)
           \/ OneTimeCode!Block(c) \/ OneTimeCode!WriteBack(c) \/ OneTimeCode!StoreDown(c)
    PROVE  CodeTypes'
<1>0. blocked \in BOOLEAN /\ checker[c] \in CodeCheckers /\ record \in CodeRecords
      /\ issued \in 0 .. MaxCodes
  BY DEF CodeTypes
<1>1. ASSUME NEW n \in 0 .. issued, OneTimeCode!Begin(c, n) PROVE CodeTypes'
  <2>1. OneTimeCode!Request("reading", n) \in CodeCheckers
        /\ OneTimeCode!Request("reading", n).at = "reading"
    <3>1. n \in 0 .. MaxCodes /\ OneTimeCode!NoRecord \in CodeRecords
      BY <1>0, CodeShapes, ServicesAssumption
    <3> QED
      BY <3>1 DEF CodeCheckers, CodePlaces, OneTimeCode!Request
  <2>2. PICK k \in CodeCheckers : checker' = [checker EXCEPT ![c] = k] /\ k.at = "reading"
    BY <1>1, <2>1 DEF OneTimeCode!Begin
  <2>3. UNCHANGED <<record, blocked, issued, accepted, refuted, overlaps>>
    BY <1>1 DEF OneTimeCode!Begin
  <2> QED
    BY <2>2, <2>3, CheckerMoves DEF CodeTypes, Standing
<1>2. CASE OneTimeCode!Look(c)
  <2>1. PICK k \in CodeCheckers :
           /\ checker' = [checker EXCEPT ![c] = k]
           /\ k.at \in {"matched", "missed"} => k.copy = record /\ record.code # 0
    BY <1>0, <1>2, CodeShapes DEF OneTimeCode!Look, OneTimeCode!Return, CodeCheckers, CodePlaces
  <2>2. UNCHANGED <<record, blocked, issued, accepted, refuted, overlaps>>
    BY <1>2 DEF OneTimeCode!Look
  <2> QED
    BY <2>1, <2>2, CheckerMoves DEF CodeTypes, Standing
<1>3. CASE OneTimeCode!Spend(c)
  <2>1. /\ checker' = [checker EXCEPT ![c] = OneTimeCode!Idle]
        /\ record' = OneTimeCode!NoRecord /\ UNCHANGED <<blocked, issued, refuted>>
    BY <1>3 DEF OneTimeCode!Spend, OneTimeCode!Return
  <2>2. {accepted', overlaps'} \subseteq [1 .. MaxCodes -> Nat]
    BY <1>3, VerdictTypes DEF OneTimeCode!Spend, CodeTypes, Standing
  <2> QED
    BY <2>1, <2>2, CheckerMoves, CodeShapes DEF CodeTypes
<1>4. CASE OneTimeCode!Exhaust(c)
  <2>0. [checker[c] EXCEPT !.at = "blocking"] \in CodeCheckers
        /\ [checker[c] EXCEPT !.at = "blocking"].at = "blocking"
    BY <1>0 DEF CodeCheckers, CodePlaces
  <2>1. PICK k \in CodeCheckers : checker' = [checker EXCEPT ![c] = k] /\ k.at = "blocking"
    BY <1>4, <2>0 DEF OneTimeCode!Exhaust
  <2>2. /\ record' = OneTimeCode!NoRecord /\ UNCHANGED <<blocked, issued, accepted>>
        /\ checker[c].copy.code \in 1 .. issued /\ OneTimeCode!Refute(c)
    BY <1>4 DEF OneTimeCode!Exhaust, CodeTypes, Standing
  <2> QED
    BY <2>1, <2>2, CheckerMoves, VerdictTypes, CodeShapes DEF CodeTypes
<1>5. CASE OneTimeCode!Block(c)
  <2>1. blocked' \in BOOLEAN
    BY <1>5 DEF OneTimeCode!Block
  <2> QED
    BY <1>5, <2>1, CheckerMoves, CodeShapes
    DEF CodeTypes, Standing, OneTimeCode!Block, OneTimeCode!Return
<1>6. CASE OneTimeCode!WriteBack(c)
  <2>0. checker[c].copy \in CodeRecords
    BY <1>0 DEF CodeCheckers
  <2>1. checker[c].copy \in CodeRecords /\ Standing(checker[c].copy)
        /\ checker[c].copy.attempts + 1 < Budget
    <3>1. Standing(checker[c].copy) /\ ~(checker[c].copy.attempts + 1 >= Budget)
      BY <1>6 DEF OneTimeCode!WriteBack, OneTimeCode!Exhausted, CodeTypes
    <3> QED
      BY <2>0, <3>1, ServicesAssumption DEF CodeRecords
  <2>2. record' \in CodeRecords /\ record'.code = checker[c].copy.code
        /\ record'.attempts = checker[c].copy.attempts + 1
    BY <1>6, <2>1, ServicesAssumption DEF OneTimeCode!WriteBack, CodeRecords
  <2>3. /\ checker' = [checker EXCEPT ![c] = OneTimeCode!Idle]
        /\ UNCHANGED <<blocked, issued, accepted>> /\ OneTimeCode!Refute(c)
    BY <1>6 DEF OneTimeCode!WriteBack, OneTimeCode!Return
  <2> QED
    BY <2>1, <2>2, <2>3, CheckerMoves, VerdictTypes, CodeShapes DEF CodeTypes, Standing
<1>7. CASE OneTimeCode!StoreDown(c)
  BY <1>7, CheckerMoves, CodeShapes DEF CodeTypes, Standing, OneTimeCode!StoreDown,
     OneTimeCode!Return
<1> QED
  BY <1>1, <1>2, <1>3, <1>4, <1>5, <1>6, <1>7

LEMMA CodeTypesStep == CodeTypes /\ [OneTimeCode!Next]_OneTimeCode!vars => CodeTypes'
<1> SUFFICES ASSUME CodeTypes, [OneTimeCode!Next]_OneTimeCode!vars PROVE CodeTypes'
  OBVIOUS
<1>1. CASE OneTimeCode!Issue
  <2>1. /\ issued' \in 0 .. MaxCodes /\ issued' = issued + 1 /\ issued \in Nat
        /\ UNCHANGED <<blocked, checker, accepted, refuted, overlaps>>
    BY <1>1, ServicesAssumption DEF OneTimeCode!Issue, CodeTypes
  <2>2. record' \in CodeRecords /\ record'.code = issued' /\ record'.attempts = 0
    BY <1>1, <2>1, ServicesAssumption DEF OneTimeCode!Issue, CodeRecords
  <2>3. Standing(record)'
    BY <2>1, <2>2, ServicesAssumption DEF Standing
  <2>4. \A c \in Checkers :
           checker'[c].at \in {"matched", "missed"} => Standing(checker[c].copy)'
    BY <2>1, <2>2 DEF CodeTypes, Standing
  <2> QED
    BY <2>1, <2>2, <2>3, <2>4 DEF CodeTypes
<1>2. CASE OneTimeCode!Discard
  BY <1>2, CodeShapes DEF OneTimeCode!Discard, CodeTypes, Standing
<1>3. CASE OneTimeCode!Unblock
  <2>1. blocked' \in BOOLEAN
    BY <1>3 DEF OneTimeCode!Unblock
  <2> QED
    BY <1>3, <2>1 DEF OneTimeCode!Unblock, CodeTypes, Standing
<1>4. CASE UNCHANGED OneTimeCode!vars
  BY <1>4 DEF OneTimeCode!vars, CodeTypes, Standing
<1> QED
  BY <1>1, <1>2, <1>3, <1>4, CheckerTypes DEF OneTimeCode!Next

(* The types, for any number of requests that overlap. *)
THEOREM CodeTypesInvariant == OneTimeCode!Spec => []CodeTypes
BY CodeTypesInit, CodeTypesStep, PTL DEF OneTimeCode!Spec

(* A request holds a copy of the record, and will give a verdict on it. *)
Holding(c) == checker[c].at \in {"matched", "missed"}

(* Two requests hold copies of one code's record. *)
Overlap(c, d) ==
    c # d /\ Holding(c) /\ Holding(d) /\ checker[c].copy.code = checker[d].copy.code

(* A record accounts for its code: but for the verdicts of late requests,  *)
(* none was OK and no more were given than its attempts say.               *)
Accounts(r) ==
    /\ accepted[r.code] <= overlaps[r.code]
    /\ accepted[r.code] + refuted[r.code] <= overlaps[r.code] + r.attempts

(* ... or one more was given. *)
OneShort(r) == accepted[r.code] + refuted[r.code] <= overlaps[r.code] + r.attempts + 1

Unmet(n) == accepted[n] = 0 /\ refuted[n] = 0 /\ overlaps[n] = 0

(* The record accounts for its code, and so do the copies of it as long as *)
(* a request that was not late holds one; at most one such request does.   *)
CodeInv ==
    /\ CodeTypes
    /\ BudgetKept
    /\ \A n \in 1 .. MaxCodes : n > issued => Unmet(n)
    /\ record.code # 0 => Accounts(record)
    /\ \A c \in Checkers : Holding(c) =>
          /\ OneShort(checker[c].copy)
          /\ ~checker[c].late => Accounts(checker[c].copy)
    /\ \A c, d \in Checkers : Overlap(c, d) /\ ~checker[c].late =>
          checker[d].late /\ Accounts(checker[d].copy)

LEMMA BudgetMeans ==
    BudgetKept <=> \A n \in 1 .. MaxCodes :
                      /\ accepted[n] <= 1 + overlaps[n]
                      /\ accepted[n] + refuted[n] <= Budget + overlaps[n]
BY DEF BudgetKept, OneTimeCode!BudgetKept, OneTimeCode!Codes

LEMMA CodeInvInit == OneTimeCode!Init => CodeInv
<1> SUFFICES ASSUME OneTimeCode!Init PROVE CodeInv
  OBVIOUS
<1>1. /\ record.code = 0 /\ \A c \in Checkers : checker[c].at = "idle"
      /\ \A n \in 1 .. MaxCodes : Unmet(n)
  BY CodeShapes DEF OneTimeCode!Init, OneTimeCode!Codes, Unmet
<1>2. BudgetKept
  BY <1>1, ServicesAssumption, BudgetMeans DEF Unmet
<1> QED
  BY <1>1, <1>2, CodeTypesInit DEF CodeInv, Holding, Overlap

(* A step that gives no verdict and stores no record. *)
LEMMA NoVerdict ==
    ASSUME CodeInv, CodeTypes', UNCHANGED <<issued, accepted, refuted, overlaps>>,
           record' = record \/ record'.code = 0,
           \A d \in Checkers : ~Holding(d)' \/ checker'[d] = checker[d]
    PROVE  CodeInv'
<1>1. BudgetKept'
  BY DEF CodeInv, BudgetKept, OneTimeCode!BudgetKept
<1>2. \A d \in Checkers : Holding(d)' => Holding(d) /\ checker'[d] = checker[d]
  BY DEF Holding
<1>3. \A n \in 1 .. MaxCodes : n > issued' => Unmet(n)'
  BY DEF CodeInv, Unmet
<1>4. record'.code # 0 => Accounts(record)'
  BY DEF CodeInv, Accounts
<1>5. \A c \in Checkers : Holding(c)' =>
         OneShort(checker[c].copy)' /\ (~checker'[c].late => Accounts(checker[c].copy)')
  BY <1>2 DEF CodeInv, OneShort, Accounts
<1>6. \A c, d \in Checkers : Overlap(c, d)' /\ ~checker'[c].late =>
         checker'[d].late /\ Accounts(checker[d].copy)'
  BY <1>2 DEF CodeInv, Overlap, Accounts
<1> QED
  BY <1>1, <1>3, <1>4, <1>5, <1>6 DEF CodeInv

(* A request takes a copy of the record. *)
LEMMA LookBudget ==
    ASSUME CodeInv, CodeTypes', NEW c \in Checkers,
           UNCHANGED <<record, issued, accepted, refuted, overlaps>>,
           record.code # 0, checker'[c].copy = record, ~Holding(c),
           checker'[c].late = OneTimeCode!Held(c, record.code),
           \A d \in Checkers : d # c => checker'[d] = checker[d]
    PROVE  CodeInv'
<1>1. BudgetKept'
  BY DEF CodeInv, BudgetKept, OneTimeCode!BudgetKept
<1>2. Accounts(record) /\ Accounts(record)' /\ Accounts(checker[c].copy)'
  BY DEF CodeInv, Accounts
<1>3. OneShort(checker[c].copy)'
  <2>1. record.code \in 1 .. MaxCodes /\ record.attempts \in Nat
    BY ServicesAssumption DEF CodeInv, CodeTypes, Standing, CodeRecords
  <2>2. {accepted, refuted, overlaps} \subseteq [1 .. MaxCodes -> Nat]
    BY DEF CodeInv, CodeTypes
  <2> QED
    BY <1>2, <2>1, <2>2 DEF Accounts, OneShort
<1>4. \A d \in Checkers : d # c => (Holding(d)' <=> Holding(d))
  BY DEF Holding
<1>5. \A d \in Checkers : Overlap(c, d)' => checker'[c].late
  BY <1>4 DEF Overlap, Holding, OneTimeCode!Held
<1>6. \A d, e \in Checkers : Overlap(d, e)' /\ ~checker'[d].late =>
         checker'[e].late /\ Accounts(checker[e].copy)'
  <2> SUFFICES ASSUME NEW d \in Checkers, NEW e \in Checkers, Overlap(d, e)', ~checker'[d].late
               PROVE  checker'[e].late /\ Accounts(checker[e].copy)'
    OBVIOUS
  <2>1. d # c
    BY <1>5
  <2>2. CASE e = c
    BY <1>2, <1>5, <2>2 DEF Overlap
  <2>3. CASE e # c
    BY <1>4, <2>1, <2>3 DEF CodeInv, Overlap, Accounts
  <2> QED
    BY <2>2, <2>3
<1>7. \A d \in Checkers : Holding(d)' =>
         OneShort(checker[d].copy)' /\ (~checker'[d].late => Accounts(checker[d].copy)')
  BY <1>2, <1>3, <1>4 DEF CodeInv, OneShort, Accounts
<1>8. \A n \in 1 .. MaxCodes : n > issued' => Unmet(n)'
  BY DEF CodeInv, Unmet
<1> QED
  BY <1>1, <1>2, <1>6, <1>7, <1>8 DEF CodeInv, Accounts

(* A request gives its verdict: one more is counted, and if the request    *)
(* was late one more overlap.                                              *)
LEMMA VerdictBudget ==
    ASSUME CodeInv, CodeTypes', NEW c \in Checkers, Holding(c), ~Holding(c)',
           NEW n, n = checker[c].copy.code, issued' = issued,
           \A d \in Checkers : d # c => checker'[d] = checker[d],
           \A m \in 1 .. MaxCodes : m # n =>
              UNCHANGED <<accepted[m], refuted[m], overlaps[m]>>,
           overlaps'[n] = overlaps[n] + (IF checker[c].late THEN 1 ELSE 0),
           \/ /\ accepted'[n] = accepted[n] + 1 /\ refuted'[n] = refuted[n]
              /\ record'.code = 0
           \/ /\ accepted'[n] = accepted[n] /\ refuted'[n] = refuted[n] + 1
              /\ \/ record'.code = 0
                 \/ record'.code = n /\ record'.attempts = checker[c].copy.attempts + 1
    PROVE  CodeInv'
<1> DEFINE a == checker[c].copy.attempts
<1>1. /\ n \in 1 .. issued /\ n \in 1 .. MaxCodes /\ issued \in Nat
      /\ a \in Nat /\ Budget \in Nat /\ a + 1 <= Budget
  <2>1. Standing(checker[c].copy) /\ checker[c] \in CodeCheckers /\ issued \in 0 .. MaxCodes
    BY DEF CodeInv, CodeTypes, Holding
  <2>2. a \in Nat /\ Budget \in Nat /\ MaxCodes \in Nat
    BY <2>1, ServicesAssumption DEF CodeCheckers, CodeRecords
  <2> QED
    BY <2>1, <2>2 DEF Standing
<1>2. accepted[n] \in Nat /\ refuted[n] \in Nat /\ overlaps[n] \in Nat
  BY <1>1 DEF CodeInv, CodeTypes
<1>3. /\ accepted[n] <= 1 + overlaps[n]
      /\ accepted[n] + refuted[n] <= Budget + overlaps[n]
      /\ accepted[n] + refuted[n] <= overlaps[n] + a + 1
      /\ ~checker[c].late =>
            accepted[n] <= overlaps[n] /\ accepted[n] + refuted[n] <= overlaps[n] + a
  BY <1>1, BudgetMeans DEF CodeInv, OneShort, Accounts
<1>4. /\ accepted'[n] <= 1 + overlaps'[n]
      /\ accepted'[n] + refuted'[n] <= Budget + overlaps'[n]
      /\ record'.code = n => Accounts(record)'
  <2>1. CASE checker[c].late
    BY <1>1, <1>2, <1>3, <2>1 DEF Accounts
  <2>2. CASE ~checker[c].late
    BY <1>1, <1>2, <1>3, <2>2 DEF Accounts
  <2> QED
    BY <2>1, <2>2
<1>5. BudgetKept'
  <2>1. \A m \in 1 .. MaxCodes : /\ accepted'[m] <= 1 + overlaps'[m]
                                 /\ accepted'[m] + refuted'[m] <= Budget + overlaps'[m]
    BY <1>4, BudgetMeans DEF CodeInv
  <2> QED
    BY <2>1 DEF BudgetKept, OneTimeCode!BudgetKept, OneTimeCode!Codes
<1>6. \A m \in 1 .. MaxCodes : m > issued' => Unmet(m)'
  BY <1>1 DEF CodeInv, Unmet
<1>7. \A d \in Checkers : Holding(d)' => d # c /\ Holding(d)
  BY DEF Holding
<1>8. ASSUME NEW d \in Checkers, Holding(d)'
      PROVE  /\ OneShort(checker[d].copy)'
             /\ ~checker'[d].late => Accounts(checker[d].copy)'
             /\ checker[c].late /\ Accounts(checker[d].copy) => Accounts(checker[d].copy)'
  <2> DEFINE r == checker[d].copy
  <2>1. d # c /\ Holding(d) /\ checker'[d] = checker[d]
    BY <1>7, <1>8
  <2>2. r.code \in 1 .. MaxCodes /\ r.attempts \in Nat
    <3>1. Standing(r) /\ checker[d] \in CodeCheckers /\ issued \in 0 .. MaxCodes
      BY <2>1 DEF CodeInv, CodeTypes, Holding
    <3> QED
      BY <3>1, ServicesAssumption DEF Standing, CodeCheckers, CodeRecords
  <2>3. OneShort(r) /\ (~checker[d].late => Accounts(r))
    BY <2>1 DEF CodeInv
  <2>4. CASE r.code # n
    BY <2>1, <2>2, <2>3, <2>4 DEF OneShort, Accounts
  <2>5. CASE r.code = n /\ checker[c].late
    BY <1>2, <2>1, <2>2, <2>3, <2>5 DEF OneShort, Accounts
  <2>6. CASE r.code = n /\ ~checker[c].late
    <3>1. checker[d].late /\ Accounts(r)
      BY <2>1, <2>6 DEF CodeInv, Overlap
    <3> QED
      BY <1>2, <2>1, <2>2, <2>6, <3>1 DEF OneShort, Accounts
  <2> QED
    BY <2>4, <2>5, <2>6
<1>9. \A d, e \in Checkers : Overlap(d, e)' /\ ~checker'[d].late =>
         checker'[e].late /\ Accounts(checker[e].copy)'
  <2> SUFFICES ASSUME NEW d \in Checkers, NEW e \in Checkers, Overlap(d, e)', ~checker'[d].late
               PROVE  checker'[e].late /\ Accounts(checker[e].copy)'
    OBVIOUS
  <2>1. /\ Overlap(d, e) /\ checker'[d] = checker[d] /\ checker'[e] = checker[e]
        /\ Holding(d)' /\ Holding(e)' /\ d # c /\ e # c
    BY <1>7 DEF Overlap
  <2>2. checker[e].late /\ Accounts(checker[e].copy)
    BY <2>1 DEF CodeInv
  <2>3. CASE checker[e].copy.code = n
    <3>1. Overlap(d, c) /\ ~checker[d].late
      BY <2>1, <2>3 DEF Overlap
    <3>2. checker[c].late
      BY <3>1 DEF CodeInv
    <3> QED
      BY <1>8, <2>1, <2>2, <3>2
  <2>4. CASE checker[e].copy.code # n
    <3>1. checker[e].copy.code \in 1 .. MaxCodes
      <4>1. Standing(checker[e].copy) /\ issued \in 0 .. MaxCodes
        BY <2>1 DEF CodeInv, CodeTypes, Overlap, Holding
      <4> QED
        BY <4>1, ServicesAssumption DEF Standing
    <3> QED
      BY <2>1, <2>2, <2>4, <3>1 DEF Accounts
  <2> QED
    BY <2>3, <2>4
<1>10. record'.code # 0 => Accounts(record)'
  BY <1>1, <1>4
<1>11. \A d \in Checkers : Holding(d)' =>
         OneShort(checker[d].copy)' /\ (~checker'[d].late => Accounts(checker[d].copy)')
  BY <1>8
<1> QED
  BY <1>5, <1>6, <1>9, <1>10, <1>11 DEF CodeInv

(* A request that returns holds nothing more. *)
LEMMA Returns ==
    ASSUME CodeTypes, NEW c \in Checkers, OneTimeCode!Return(c)
    PROVE  \A d \in Checkers : ~Holding(d)' \/ checker'[d] = checker[d]
<1>1. checker'[c].at = "idle"
  BY CodeShapes DEF CodeTypes, OneTimeCode!Return
<1>2. \A d \in Checkers : d # c => checker'[d] = checker[d]
  BY DEF CodeTypes, OneTimeCode!Return
<1> QED
  BY <1>1, <1>2 DEF Holding

(* What a verdict counts. *)
LEMMA Counts ==
    ASSUME CodeTypes, NEW c \in Checkers, Holding(c), NEW n, n = checker[c].copy.code,
           OneTimeCode!CountOverlap(c)
    PROVE  /\ n \in 1 .. MaxCodes
           /\ overlaps'[n] = overlaps[n] + (IF checker[c].late THEN 1 ELSE 0)
           /\ \A m \in 1 .. MaxCodes : m # n => overlaps'[m] = overlaps[m]
<1>1. n \in 1 .. MaxCodes /\ overlaps \in [1 .. MaxCodes -> Nat]
  <2>1. Standing(checker[c].copy) /\ issued \in 0 .. MaxCodes /\ MaxCodes \in Nat
    BY ServicesAssumption DEF CodeTypes, Holding
  <2>2. n \in 1 .. MaxCodes
    BY <2>1 DEF Standing
  <2> QED
    BY <2>2 DEF CodeTypes
<1>2. CASE checker[c].late
  BY <1>1, <1>2 DEF OneTimeCode!CountOverlap
<1>3. CASE ~checker[c].late
  BY <1>1, <1>3 DEF OneTimeCode!CountOverlap
<1> QED
  BY <1>1, <1>2, <1>3

LEMMA RefuteCounts ==
    ASSUME CodeTypes, NEW c \in Checkers, Holding(c), NEW n, n = checker[c].copy.code,
           OneTimeCode!Refute(c)
    PROVE  /\ refuted'[n] = refuted[n] + 1
           /\ \A m \in 1 .. MaxCodes : m # n => refuted'[m] = refuted[m]
BY Counts DEF OneTimeCode!Refute, CodeTypes

(* A step of one request. *)
LEMMA CheckerBudget ==
    ASSUME CodeInv, CodeTypes', NEW c \in Checkers,
           \/ \E n \in 0 .. issued : OneTimeCode!Begin(c, n)
           \/ OneTimeCode!Look(c) \/ OneTimeCode!Spend(c) \/ OneTimeCode!Exhaust(c)
           \/ OneTimeCode!Block(c) \/ OneTimeCode!WriteBack(c) \/ OneTimeCode!StoreDown(c)
    PROVE  CodeInv'
<1>0. CodeTypes /\ checker \in [Checkers -> CodeCheckers] /\ checker[c] \in CodeCheckers
  BY DEF CodeInv, CodeTypes
<1> DEFINE n == checker[c].copy.code
<1>1. ASSUME NEW k \in 0 .. issued, OneTimeCode!Begin(c, k) PROVE CodeInv'
  <2>1. \A d \in Checkers : ~Holding(d)' \/ checker'[d] = checker[d]
    <3>1. checker'[c].at = "reading"
      BY <1>0, <1>1 DEF OneTimeCode!Begin, OneTimeCode!Request
    <3>2. \A d \in Checkers : d # c => checker'[d] = checker[d]
      BY <1>0, <1>1 DEF OneTimeCode!Begin
    <3> QED
      BY <3>1, <3>2 DEF Holding
  <2>2. UNCHANGED <<record, issued, accepted, refuted, overlaps>>
    BY <1>1 DEF OneTimeCode!Begin
  <2> QED
    BY <2>1, <2>2, NoVerdict
<1>2. CASE OneTimeCode!Look(c)
  <2>1. CASE record.code = 0
    <3>1. \A d \in Checkers : ~Holding(d)' \/ checker'[d] = checker[d]
      BY <1>0, <1>2, <2>1, Returns DEF OneTimeCode!Look
    <3> QED
      BY <1>2, <3>1, NoVerdict DEF OneTimeCode!Look
  <2>2. CASE record.code # 0
    <3>1. /\ checker'[c].copy = record /\ ~Holding(c)
          /\ checker'[c].late = OneTimeCode!Held(c, record.code)
          /\ \A d \in Checkers : d # c => checker'[d] = checker[d]
      BY <1>0, <1>2, <2>2 DEF OneTimeCode!Look, Holding, CodeCheckers
    <3> QED
      BY <1>2, <2>2, <3>1, LookBudget DEF OneTimeCode!Look
  <2> QED
    BY <2>1, <2>2
<1>3. CASE OneTimeCode!Block(c) \/ OneTimeCode!StoreDown(c)
  <2>1. \A d \in Checkers : ~Holding(d)' \/ checker'[d] = checker[d]
    BY <1>0, <1>3, Returns DEF OneTimeCode!Block, OneTimeCode!StoreDown
  <2> QED
    BY <1>3, <2>1, NoVerdict DEF OneTimeCode!Block, OneTimeCode!StoreDown
<1>4. CASE OneTimeCode!Spend(c)
  <2>1. Holding(c) /\ issued' = issued /\ refuted' = refuted /\ OneTimeCode!CountOverlap(c)
    BY <1>4 DEF OneTimeCode!Spend, Holding
  <2>2. ~Holding(c)' /\ record'.code = 0 /\ \A d \in Checkers : d # c => checker'[d] = checker[d]
    BY <1>0, <1>4, CodeShapes DEF OneTimeCode!Spend, OneTimeCode!Return, Holding
  <2>3. /\ n \in 1 .. MaxCodes
        /\ overlaps'[n] = overlaps[n] + (IF checker[c].late THEN 1 ELSE 0)
        /\ \A m \in 1 .. MaxCodes : m # n => overlaps'[m] = overlaps[m]
    BY <1>0, <2>1, Counts
  <2>4. /\ accepted'[n] = accepted[n] + 1
        /\ \A m \in 1 .. MaxCodes : m # n => accepted'[m] = accepted[m]
    BY <1>0, <1>4, <2>3 DEF OneTimeCode!Spend, CodeTypes
  <2> HIDE DEF n
  <2>5. n = checker[c].copy.code
    BY DEF n
  <2> QED
    BY <2>1, <2>2, <2>3, <2>4, <2>5, VerdictBudget
<1>5. ASSUME Holding(c), ~Holding(c)', OneTimeCode!Refute(c), UNCHANGED <<issued, accepted>>,
             \A d \in Checkers : d # c => checker'[d] = checker[d],
             \/ record'.code = 0
             \/ record'.code = n /\ record'.attempts = checker[c].copy.attempts + 1
      PROVE  CodeInv'
  <2>1. OneTimeCode!CountOverlap(c)
    BY <1>5 DEF OneTimeCode!Refute
  <2>2. /\ n \in 1 .. MaxCodes
        /\ overlaps'[n] = overlaps[n] + (IF checker[c].late THEN 1 ELSE 0)
        /\ \A m \in 1 .. MaxCodes : m # n => overlaps'[m] = overlaps[m]
    BY <1>0, <1>5, <2>1, Counts
  <2>3. /\ refuted'[n] = refuted[n] + 1
        /\ \A m \in 1 .. MaxCodes : m # n => refuted'[m] = refuted[m]
    BY <1>0, <1>5, RefuteCounts
  <2> HIDE DEF n
  <2>4. n = checker[c].copy.code
    BY DEF n
  <2> QED
    BY <1>5, <2>2, <2>3, <2>4, VerdictBudget
<1>6. CASE OneTimeCode!Exhaust(c)
  <2>1. /\ Holding(c) /\ ~Holding(c)' /\ record'.code = 0
        /\ \A d \in Checkers : d # c => checker'[d] = checker[d]
    BY <1>0, <1>6, CodeShapes DEF OneTimeCode!Exhaust, Holding, CodeCheckers
  <2> QED
    BY <1>5, <1>6, <2>1 DEF OneTimeCode!Exhaust
<1>7. CASE OneTimeCode!WriteBack(c)
  <2>1. /\ Holding(c) /\ ~Holding(c)'
        /\ \A d \in Checkers : d # c => checker'[d] = checker[d]
    BY <1>0, <1>7, CodeShapes DEF OneTimeCode!WriteBack, OneTimeCode!Return, Holding
  <2>2. record'.code = n /\ record'.attempts = checker[c].copy.attempts + 1
    BY <1>0, <1>7 DEF OneTimeCode!WriteBack, CodeCheckers, CodeRecords
  <2> QED
    BY <1>5, <1>7, <2>1, <2>2 DEF OneTimeCode!WriteBack
<1> QED
  BY <1>1, <1>2, <1>3, <1>4, <1>6, <1>7

LEMMA CodeInvStep == CodeInv /\ [OneTimeCode!Next]_OneTimeCode!vars => CodeInv'
<1> SUFFICES ASSUME CodeInv, [OneTimeCode!Next]_OneTimeCode!vars PROVE CodeInv'
  OBVIOUS
<1>0. CodeTypes'
  BY CodeTypesStep DEF CodeInv
<1>1. CASE OneTimeCode!Issue
  <2>1. /\ issued' = issued + 1 /\ issued \in Nat /\ issued' \in 1 .. MaxCodes
        /\ UNCHANGED <<blocked, checker, accepted, refuted, overlaps>>
        /\ record'.code = issued' /\ record'.attempts = 0
    BY <1>1, ServicesAssumption DEF OneTimeCode!Issue, CodeInv, CodeTypes
  <2>2. Accounts(record)' /\ \A m \in 1 .. MaxCodes : m > issued' => Unmet(m)'
    BY <2>1, ServicesAssumption DEF CodeInv, Accounts, Unmet
  <2>3. BudgetKept'
    BY <2>1 DEF CodeInv, BudgetKept, OneTimeCode!BudgetKept
  <2>4. \A c \in Checkers : Holding(c)' =>
           OneShort(checker[c].copy)' /\ (~checker'[c].late => Accounts(checker[c].copy)')
    BY <2>1 DEF CodeInv, Holding, OneShort, Accounts
  <2>5. \A c, d \in Checkers : Overlap(c, d)' /\ ~checker'[c].late =>
           checker'[d].late /\ Accounts(checker[d].copy)'
    BY <2>1 DEF CodeInv, Overlap, Holding, Accounts
  <2> QED
    BY <1>0, <2>2, <2>3, <2>4, <2>5 DEF CodeInv
<1>2. CASE OneTimeCode!Discard \/ OneTimeCode!Unblock \/ UNCHANGED OneTimeCode!vars
  <2>1. /\ UNCHANGED <<issued, checker, accepted, refuted, overlaps>>
        /\ record' = record \/ record'.code = 0
    BY <1>2, CodeShapes DEF OneTimeCode!Discard, OneTimeCode!Unblock, OneTimeCode!vars
  <2> QED
    BY <1>0, <2>1, NoVerdict
<1> QED
  BY <1>0, <1>1, <1>2, CheckerBudget DEF OneTimeCode!Next

(* For any number of requests, any budget and any number of codes: what a  *)
(* code was accepted and guessed beyond its budget is owed to requests     *)
(* that read the record while another one held it (codes.py:324-347).      *)
THEOREM CodeInvariant == OneTimeCode!Spec => []CodeInv
BY CodeInvInit, CodeInvStep, PTL DEF OneTimeCode!Spec

(* No code is replayed or guessed beyond its budget by requests that do    *)
(* not overlap, and by others only once per verdict they gave late         *)
(* (codes.py:310 and :41).                                                 *)
THEOREM ServicesBudgetKept == ServicesSpec => []BudgetKept
<1>1. CodeInv => BudgetKept
  BY DEF CodeInv
<1> QED
  BY <1>1, CodeInvariant, RunsOneTimeCode, PTL

-----------------------------------------------------------------------------
(* Network intelligence *)

(* The component counts with a Cardinality of its own. *)
LEMMA SameCardinality == \A S : NetIntel!Cardinality(S) = Cardinality(S)
BY DEF NetIntel!Cardinality, Cardinality

(* The threads a call of the provider, or a failure not yet counted, is    *)
(* with.                                                                   *)
Busy == {t \in Threads : caller[t].at \in {"calling", "failed"}}

NetCallers == [at : NetIntel!Places, ip : Addresses]

(* Each call since the last success, or since the breaker opened, is one   *)
(* of the failures counted or still with its thread.                       *)
NetInv ==
    /\ failures \in 0 .. Threshold
    /\ breaker \in 0 .. NetIntel!Window
    /\ kept \in [Addresses -> 0 .. CacheTTL + NegativeTTL]
    /\ caller \in [Threads -> NetCallers]
    /\ tripped \in BOOLEAN /\ (tripped <=> failures = Threshold)
    /\ asked \in Nat /\ asked <= (IF tripped THEN 0 ELSE failures) + Cardinality(Busy)

LEMMA BusyBounds ==
    /\ IsFiniteSet(Threads) /\ Cardinality(Threads) \in Nat
    /\ IsFiniteSet(Busy) /\ Cardinality(Busy) \in Nat /\ Cardinality(Busy) <= Cardinality(Threads)
<1>1. IsFiniteSet(Threads) /\ Busy \subseteq Threads
  BY ServicesAssumption DEF Busy
<1> QED
  BY <1>1, FS_Subset, FS_CardinalityType

(* How many are busy, when one thread moves. *)
LEMMA BusyMoves ==
    ASSUME NEW t \in Threads, \A u \in Threads \ {t} : caller'[u] = caller[u]
    PROVE  /\ caller[t].at \in {"calling", "failed"} /\ caller'[t].at \in {"calling", "failed"} =>
                 Cardinality(Busy') = Cardinality(Busy)
           /\ (caller[t].at \notin {"calling", "failed"} /\
               caller'[t].at \notin {"calling", "failed"}) =>
                 Cardinality(Busy') = Cardinality(Busy)
           /\ (caller[t].at \notin {"calling", "failed"} /\
               caller'[t].at \in {"calling", "failed"}) =>
                 Cardinality(Busy') = Cardinality(Busy) + 1
           /\ (caller[t].at \in {"calling", "failed"} /\
               caller'[t].at \notin {"calling", "failed"}) =>
                 Cardinality(Busy') = Cardinality(Busy) - 1
<1>1. (caller[t].at \in {"calling", "failed"} <=> caller'[t].at \in {"calling", "failed"})
          => Busy' = Busy
  BY DEF Busy
<1>2. ASSUME caller[t].at \notin {"calling", "failed"}, caller'[t].at \in {"calling", "failed"}
      PROVE  Cardinality(Busy') = Cardinality(Busy) + 1
  <2>1. Busy' = Busy \cup {t} /\ t \notin Busy
    BY <1>2 DEF Busy
  <2> QED
    BY <2>1, BusyBounds, FS_AddElement
<1>3. ASSUME caller[t].at \in {"calling", "failed"}, caller'[t].at \notin {"calling", "failed"}
      PROVE  Cardinality(Busy') = Cardinality(Busy) - 1
  <2>1. Busy' = Busy \ {t} /\ t \in Busy
    BY <1>3 DEF Busy
  <2> QED
    BY <2>1, BusyBounds, FS_RemoveElement
<1> QED
  BY <1>1, <1>2, <1>3

LEMMA BusyNat == Cardinality(Busy') \in Nat
<1>1. IsFiniteSet(Threads) /\ Busy' \subseteq Threads
  BY ServicesAssumption DEF Busy
<1> QED
  BY <1>1, FS_Subset, FS_CardinalityType

LEMMA NetInit == NetIntel!Init => NetInv
<1> SUFFICES ASSUME NetIntel!Init PROVE NetInv
  OBVIOUS
<1>1. caller \in [Threads -> NetCallers]
  <2>1. (CHOOSE a \in Addresses : TRUE) \in Addresses
    BY ServicesAssumption
  <2> QED
    BY <2>1 DEF NetIntel!Init, NetCallers, NetIntel!Places
<1>2. tripped = FALSE /\ tripped \in BOOLEAN
  BY DEF NetIntel!Init
<1>3. NetIntel!Window \in Nat
  BY ServicesAssumption DEF NetIntel!Window
<1> QED
  BY <1>1, <1>2, <1>3, BusyBounds, ServicesAssumption DEF NetIntel!Init, NetInv

(* One thread moves to place, and the rest of its step. *)
LEMMA NetStep ==
    ASSUME NetInv, NEW t \in Threads,
           \/ \E a \in Addresses : NetIntel!Miss(t, a) \/ NetIntel!CacheRaises(t, a)
           \/ NetIntel!Skip(t) \/ NetIntel!Classify(t) \/ NetIntel!RecordSuccess(t)
           \/ NetIntel!StoreProfile(t) \/ NetIntel!Raise(t) \/ NetIntel!RecordFailure(t)
           \/ NetIntel!StoreUnknown(t)
    PROVE  NetInv'
<1>0. /\ caller \in [Threads -> NetCallers] /\ caller[t] \in NetCallers
      /\ kept \in [Addresses -> 0 .. CacheTTL + NegativeTTL]
      /\ breaker \in 0 .. NetIntel!Window /\ failures \in 0 .. Threshold
      /\ tripped \in BOOLEAN /\ (tripped <=> failures = Threshold)
      /\ asked \in Nat /\ asked <= (IF tripped THEN 0 ELSE failures) + Cardinality(Busy)
  BY DEF NetInv
<1>a. /\ NetIntel!Window \in Nat /\ Threshold \in Nat \ {0} /\ {CacheTTL, NegativeTTL} \subseteq Nat
      /\ Cardinality(Busy) \in Nat
  BY BusyBounds, ServicesAssumption DEF NetIntel!Window
<1>b. ASSUME NEW place \in NetIntel!Places, NetIntel!Goes(t, place)
      PROVE  /\ caller' \in [Threads -> NetCallers] /\ caller'[t].at = place
             /\ \A u \in Threads \ {t} : caller'[u] = caller[u]
  BY <1>0, <1>b DEF NetIntel!Goes, NetCallers
<1>1. ASSUME NEW a \in Addresses, NetIntel!Miss(t, a) \/ NetIntel!CacheRaises(t, a)
      PROVE  NetInv'
  <2>1. /\ UNCHANGED <<failures, breaker, kept, tripped, asked>> /\ caller[t].at = "idle"
        /\ \E k \in NetCallers : k.at \in {"missed", "failed"} /\ caller' = [caller EXCEPT ![t] = k]
    BY <1>0, <1>1 DEF NetIntel!Miss, NetIntel!CacheRaises, NetCallers, NetIntel!Places
  <2>2. /\ caller' \in [Threads -> NetCallers] /\ caller'[t].at \in {"missed", "failed"}
        /\ \A u \in Threads \ {t} : caller'[u] = caller[u]
    BY <1>0, <2>1
  <2>3. Cardinality(Busy') \in {Cardinality(Busy), Cardinality(Busy) + 1}
    BY <2>1, <2>2, BusyMoves
  <2> QED
    BY <1>0, <1>a, <2>1, <2>2, <2>3 DEF NetInv
<1>2. CASE NetIntel!Skip(t)
  <2>1. /\ UNCHANGED <<failures, breaker, kept, tripped, asked>> /\ caller[t].at = "missed"
        /\ NetIntel!Goes(t, "idle")
    BY <1>2 DEF NetIntel!Skip
  <2>2. /\ caller' \in [Threads -> NetCallers] /\ Cardinality(Busy') = Cardinality(Busy)
    BY <1>b, <2>1, BusyMoves DEF NetIntel!Places
  <2> QED
    BY <1>0, <1>a, <2>1, <2>2 DEF NetInv
<1>3. CASE NetIntel!Classify(t)
  <2>1. /\ UNCHANGED <<failures, breaker, kept, tripped>> /\ caller[t].at = "missed"
        /\ asked' = asked + 1 /\ NetIntel!Goes(t, "calling")
    BY <1>3 DEF NetIntel!Classify
  <2>2. /\ caller' \in [Threads -> NetCallers] /\ Cardinality(Busy') = Cardinality(Busy) + 1
    BY <1>b, <2>1, BusyMoves DEF NetIntel!Places
  <2> QED
    BY <1>0, <1>a, <2>1, <2>2 DEF NetInv
<1>4. CASE NetIntel!RecordSuccess(t)
  <2>1. /\ failures' = 0 /\ breaker' = 0 /\ asked' = 0 /\ UNCHANGED kept
        /\ caller[t].at = "calling" /\ NetIntel!Goes(t, "succeeded")
    BY <1>4 DEF NetIntel!RecordSuccess
  <2>2. tripped' = FALSE /\ tripped' \in BOOLEAN
    BY <1>4 DEF NetIntel!RecordSuccess
  <2>3. /\ caller' \in [Threads -> NetCallers] /\ Cardinality(Busy') = Cardinality(Busy) - 1
    BY <1>b, <2>1, BusyMoves DEF NetIntel!Places
  <2>4. Cardinality(Busy') \in Nat
    BY BusyNat
  <2> QED
    BY <1>0, <1>a, <2>1, <2>2, <2>3, <2>4 DEF NetInv
<1>5. CASE NetIntel!StoreProfile(t) \/ NetIntel!StoreUnknown(t)
  <2>1. /\ UNCHANGED <<failures, breaker, tripped, asked>>
        /\ caller[t].at \in {"succeeded", "counted"} /\ NetIntel!Goes(t, "idle")
    BY <1>5 DEF NetIntel!StoreProfile, NetIntel!StoreUnknown
  <2>2. /\ caller' \in [Threads -> NetCallers] /\ Cardinality(Busy') = Cardinality(Busy)
    BY <1>b, <2>1, BusyMoves DEF NetIntel!Places
  <2>3. kept' \in [Addresses -> 0 .. CacheTTL + NegativeTTL]
    BY <1>0, <1>a, <1>5 DEF NetIntel!StoreProfile, NetIntel!StoreUnknown
  <2> QED
    BY <1>0, <1>a, <2>1, <2>2, <2>3 DEF NetInv
<1>6. CASE NetIntel!Raise(t)
  <2>1. /\ UNCHANGED <<failures, breaker, kept, tripped, asked>>
        /\ caller[t].at \in {"calling", "succeeded"} /\ NetIntel!Goes(t, "failed")
    BY <1>6 DEF NetIntel!Raise
  <2>2. /\ caller' \in [Threads -> NetCallers]
        /\ Cardinality(Busy') \in {Cardinality(Busy), Cardinality(Busy) + 1}
    BY <1>b, <2>1, BusyMoves DEF NetIntel!Places
  <2> QED
    BY <1>0, <1>a, <2>1, <2>2 DEF NetInv
<1>7. CASE NetIntel!RecordFailure(t)
  <2>1. /\ caller[t].at = "failed" /\ NetIntel!Goes(t, "counted") /\ UNCHANGED kept
        /\ failures' = IF failures < Threshold THEN failures + 1 ELSE failures
    BY <1>7 DEF NetIntel!RecordFailure
  <2>2. /\ caller' \in [Threads -> NetCallers] /\ Cardinality(Busy') = Cardinality(Busy) - 1
    BY <1>b, <2>1, BusyMoves DEF NetIntel!Places
  <2>3. failures' \in 0 .. Threshold
    BY <1>0, <1>a, <2>1
  <2>4. Cardinality(Busy') \in Nat
    BY BusyNat
  <2>5. CASE failures' = Threshold
    <3>1. breaker' = NetIntel!Window /\ asked' = 0
      BY <1>7, <1>a, <2>3, <2>5 DEF NetIntel!RecordFailure
    <3>a. tripped' = TRUE
      BY <1>7, <1>a, <2>3, <2>5 DEF NetIntel!RecordFailure
    <3>2. tripped' = TRUE /\ tripped' \in BOOLEAN
      BY <3>a, Zenon
    <3> QED
      BY <1>0, <1>a, <2>1, <2>2, <2>3, <2>4, <2>5, <3>1, <3>2 DEF NetInv
  <2>6. CASE failures' # Threshold
    <3>1. UNCHANGED <<breaker, asked, tripped>>
      BY <1>7, <1>a, <2>3, <2>6 DEF NetIntel!RecordFailure
    <3>2. failures' = failures + 1 /\ failures # Threshold
      BY <1>0, <1>a, <2>1, <2>6
    <3> QED
      BY <1>0, <1>a, <2>1, <2>2, <2>3, <2>6, <3>1, <3>2 DEF NetInv
  <2> QED
    BY <2>5, <2>6
<1> QED
  BY <1>1, <1>2, <1>3, <1>4, <1>5, <1>6, <1>7

(* The inductive invariant of the breaker and the calls behind it. *)
THEOREM NetInvariant == NetIntel!Spec => []NetInv
<1>1. NetInv /\ [NetIntel!Next]_NetIntel!vars => NetInv'
  <2> SUFFICES ASSUME NetInv, [NetIntel!Next]_NetIntel!vars PROVE NetInv'
    OBVIOUS
  <2>1. CASE NetIntel!Tick
    <3>1. UNCHANGED <<failures, caller, tripped, asked>> /\ Busy' = Busy
      BY <2>1 DEF NetIntel!Tick, Busy
    <3>2. breaker' \in 0 .. NetIntel!Window /\ kept' \in [Addresses -> 0 .. CacheTTL + NegativeTTL]
      BY <2>1, ServicesAssumption DEF NetInv, NetIntel!Tick, NetIntel!Left, NetIntel!Window
    <3> QED
      BY <3>1, <3>2 DEF NetInv
  <2>2. CASE UNCHANGED NetIntel!vars
    BY <2>2 DEF NetIntel!vars, NetInv, Busy
  <2> QED
    BY <2>1, <2>2, NetStep DEF NetIntel!Next
<1> QED
  BY <1>1, NetInit, PTL DEF NetIntel!Spec

LEMMA NetBound ==
    NetInv => /\ Cardinality(Threads) \in Nat /\ asked \in Nat
              /\ asked <= Cardinality(Threads) + IF tripped THEN 0 ELSE Threshold - 1
<1> SUFFICES ASSUME NetInv
             PROVE  asked <= Cardinality(Threads) + IF tripped THEN 0 ELSE Threshold - 1
  BY BusyBounds DEF NetInv
<1>1. CASE tripped
  BY <1>1, BusyBounds DEF NetInv
<1>2. CASE ~tripped
  <2>1. failures <= Threshold - 1 /\ failures \in Nat
    BY <1>2, ServicesAssumption DEF NetInv
  <2>2. asked \in Nat /\ asked <= failures + Cardinality(Busy)
    BY <1>2 DEF NetInv
  <2>3. asked <= Cardinality(Threads) + (Threshold - 1)
    BY <2>1, <2>2, BusyBounds, ServicesAssumption
  <2> QED
    BY <1>2, <2>3
<1> QED
  BY <1>1, <1>2

LEMMA NetTypeOK == NetInv => NetIntel!TypeOK
<1> SUFFICES ASSUME NetInv PROVE NetIntel!TypeOK
  OBVIOUS
<1>1. failures \in 0 .. NetIntel!Most /\ asked \in 0 .. NetIntel!Most
  BY NetBound, SameCardinality, ServicesAssumption DEF NetInv, NetIntel!Most
<1> QED
  BY <1>1 DEF NetInv, NetIntel!TypeOK, NetCallers

(* "A single unhealthy provider cannot pile every request onto it"         *)
(* (netintel/__init__.py:51), for any number of threads and any threshold. *)
THEOREM ServicesProviderSpared == ServicesSpec => []ProviderSpared
<1>1. NetInv => ProviderSpared
  BY NetBound, SameCardinality DEF ProviderSpared, NetIntel!ProviderSpared
<1> QED
  BY <1>1, NetInvariant, RunsNetIntel, PTL

-----------------------------------------------------------------------------
(* Workspace doors *)

DoorPlaces == {"idle", "asking", "answered", "admitted", "refused", "unavailable"}
DoorVisits == [at : DoorPlaces, role : WorkspaceDoors!Answers, age : 0 .. DoorDelay]

(* An entry is as old as its key, and what it says differs from the user's *)
(* role only if the role is younger still; so for an answer under way, and *)
(* so for a verdict, which is acted upon at once; but for what is owed to  *)
(* an unreadable answer. Once the loss of the mandate was heard nothing    *)
(* the door reads says otherwise.                                          *)
DoorInv ==
    /\ door \in {"mandate", "role", "capability", "fallback"}
    /\ role \in WorkspaceDoors!Roles /\ changed \in 0 .. DoorTTL + DoorDelay
    /\ announced \in BOOLEAN /\ dropped \in BOOLEAN
    /\ entry \in [role : WorkspaceDoors!Roles, left : 0 .. DoorTTL]
    /\ misread \in 0 .. DoorTTL
    /\ visit \in [Requests -> DoorVisits]
    /\ entry.left > 0 =>
          \/ entry.role = role
          \/ changed + entry.left <= DoorTTL + DoorDelay
          \/ door = "capability" /\ entry.role = "none" /\ misread + entry.left <= DoorTTL
    /\ \A r \in Requests :
          /\ visit[r].at = "answered" =>
                visit[r].role \in {role, "unreadable"} \/ changed <= visit[r].age
          /\ visit[r].at = "admitted" => WorkspaceDoors!Opens(role) \/ changed < DoorTTL + DoorDelay
          /\ visit[r].at = "refused" =>
                \/ ~WorkspaceDoors!Opens(role)
                \/ changed < DoorTTL + DoorDelay
                \/ WorkspaceDoors!Misread
    /\ dropped =>
          /\ door = "mandate" /\ role = "none"
          /\ entry.left > 0 => entry.role = "none"
          /\ \A r \in Requests : visit[r].at # "admitted"
                                 /\ (visit[r].at = "answered" =>
                                       visit[r].role \in {"none", "unreadable"})

LEMMA DoorTypeOK == DoorInv => WorkspaceDoors!TypeOK
<1> SUFFICES ASSUME DoorInv PROVE WorkspaceDoors!TypeOK
  OBVIOUS
<1>1. DoorPlaces = {"idle", "asking", "answered"} \cup WorkspaceDoors!Verdicts
  BY DEF DoorPlaces, WorkspaceDoors!Verdicts
<1> QED
  BY <1>1 DEF DoorInv, DoorVisits, WorkspaceDoors!TypeOK, WorkspaceDoors!LongAgo

LEMMA DoorShapes ==
    /\ WorkspaceDoors!Idle \in DoorVisits /\ WorkspaceDoors!Idle.at = "idle"
    /\ WorkspaceDoors!NoEntry \in [role : WorkspaceDoors!Roles, left : 0 .. DoorTTL]
    /\ WorkspaceDoors!NoEntry.left = 0
    /\ DoorTTL \in Nat \ {0} /\ DoorDelay \in Nat
BY ServicesAssumption DEF WorkspaceDoors!Idle, WorkspaceDoors!NoEntry, WorkspaceDoors!Roles,
   WorkspaceDoors!Answers, DoorVisits, DoorPlaces

LEMMA DoorInit == WorkspaceDoors!Init => DoorInv
<1> SUFFICES ASSUME WorkspaceDoors!Init PROVE DoorInv
  OBVIOUS
<1>1. announced \in BOOLEAN /\ dropped \in BOOLEAN /\ dropped = FALSE
  BY DEF WorkspaceDoors!Init
<1>2. changed \in 0 .. DoorTTL + DoorDelay
  BY DoorShapes DEF WorkspaceDoors!Init, WorkspaceDoors!LongAgo
<1>3. /\ entry = WorkspaceDoors!NoEntry /\ misread \in 0 .. DoorTTL /\ role \in WorkspaceDoors!Roles
      /\ door \in {"mandate", "role", "capability", "fallback"}
      /\ visit \in [Requests -> DoorVisits] /\ \A r \in Requests : visit[r].at = "idle"
  BY DoorShapes DEF WorkspaceDoors!Init
<1> QED
  BY <1>1, <1>2, <1>3, DoorShapes DEF DoorInv

(* What is decided, on an answer the door may go by. *)
LEMMA DoorDecides ==
    ASSUME DoorInv, NEW r \in Requests, NEW answer \in WorkspaceDoors!Roles,
           \/ answer = role \/ changed < DoorTTL + DoorDelay
           \/ answer = "none" /\ WorkspaceDoors!Misread',
           dropped => answer = "none", UNCHANGED <<door, role>>,
           WorkspaceDoors!Decide(r, answer)
    PROVE  /\ visit' \in [Requests -> DoorVisits]
           /\ \A q \in Requests \ {r} : visit'[q] = visit[q]
           /\ visit'[r].at \in {"admitted", "refused"}
           /\ visit'[r].at = "admitted" =>
                 WorkspaceDoors!Opens(role) \/ changed < DoorTTL + DoorDelay
           /\ visit'[r].at = "refused" =>
                 \/ ~WorkspaceDoors!Opens(role)
                 \/ changed < DoorTTL + DoorDelay
                 \/ WorkspaceDoors!Misread'
           /\ dropped => visit'[r].at # "admitted"
<1>1. PICK place \in {"admitted", "refused"} :
         /\ place = IF WorkspaceDoors!Opens(answer) THEN "admitted" ELSE "refused"
         /\ visit' = [visit EXCEPT ![r] = [WorkspaceDoors!Idle EXCEPT !.at = place]]
  BY DEF WorkspaceDoors!Decide
<1>2. [WorkspaceDoors!Idle EXCEPT !.at = place] \in DoorVisits
      /\ [WorkspaceDoors!Idle EXCEPT !.at = place].at = place
  BY DoorShapes DEF DoorVisits, DoorPlaces
<1>3. /\ visit' \in [Requests -> DoorVisits] /\ visit'[r].at = place
      /\ \A q \in Requests \ {r} : visit'[q] = visit[q]
  BY <1>1, <1>2 DEF DoorInv
<1>4. (dropped => ~WorkspaceDoors!Opens(answer)) /\ ~WorkspaceDoors!Opens("none")
  BY DEF DoorInv, WorkspaceDoors!Opens
<1> QED
  BY <1>1, <1>3, <1>4

(* A step of one request. *)
LEMMA DoorSteps ==
    ASSUME DoorInv, NEW r \in Requests,
           \/ WorkspaceDoors!FindCached(r) \/ WorkspaceDoors!Ask(r) \/ WorkspaceDoors!Answer(r)
           \/ WorkspaceDoors!ReportUnavailable(r) \/ WorkspaceDoors!Store(r)
           \/ WorkspaceDoors!Distrust(r) \/ WorkspaceDoors!TakeForDenial(r)
           \/ WorkspaceDoors!Respond(r)
    PROVE  DoorInv'
<1>0. /\ visit \in [Requests -> DoorVisits] /\ visit[r] \in DoorVisits
      /\ role \in WorkspaceDoors!Roles /\ entry.role \in WorkspaceDoors!Roles
      /\ entry.left \in 0 .. DoorTTL /\ changed \in 0 .. DoorTTL + DoorDelay
      /\ visit[r].role \in WorkspaceDoors!Answers /\ visit[r].age \in 0 .. DoorDelay
      /\ misread \in 0 .. DoorTTL
  BY DEF DoorInv, DoorVisits
<1>a. ASSUME UNCHANGED <<door, role, changed, announced, dropped, entry, misread>>,
             NEW k \in DoorVisits, visit' = [visit EXCEPT ![r] = k],
             k.at \notin {"admitted", "refused"},
             k.at = "answered" => k.role \in {role, "unreadable"}
      PROVE  DoorInv'
  <2>1. /\ visit' \in [Requests -> DoorVisits] /\ visit'[r] = k
        /\ \A q \in Requests \ {r} : visit'[q] = visit[q]
    BY <1>0, <1>a
  <2> QED
    BY <1>a, <2>1 DEF DoorInv, WorkspaceDoors!Opens, WorkspaceDoors!Misread
<1>b. ASSUME NEW answer \in WorkspaceDoors!Roles, WorkspaceDoors!Decide(r, answer),
             UNCHANGED <<door, role, changed, announced, dropped>>,
             \/ answer = role \/ changed < DoorTTL + DoorDelay
             \/ answer = "none" /\ WorkspaceDoors!Misread',
             dropped => answer = "none",
             misread' \in 0 .. DoorTTL, misread' <= misread,
             \/ entry' = entry /\ misread' = misread
             \/ entry' = entry /\ door # "capability"
             \/ /\ entry' = [role |-> answer, left |-> DoorTTL]
                /\ \/ answer = role \/ changed <= DoorDelay
                   \/ door = "capability" /\ answer = "none" /\ misread' = 0
      PROVE  DoorInv'
  <2>1. /\ visit' \in [Requests -> DoorVisits]
        /\ \A q \in Requests \ {r} : visit'[q] = visit[q]
        /\ visit'[r].at \in {"admitted", "refused"}
        /\ visit'[r].at = "admitted" =>
              WorkspaceDoors!Opens(role) \/ changed < DoorTTL + DoorDelay
        /\ visit'[r].at = "refused" =>
              \/ ~WorkspaceDoors!Opens(role)
              \/ changed < DoorTTL + DoorDelay
              \/ WorkspaceDoors!Misread'
        /\ dropped => visit'[r].at # "admitted"
    BY <1>b, DoorDecides
  <2>2. /\ entry' \in [role : WorkspaceDoors!Roles, left : 0 .. DoorTTL]
        /\ entry'.left > 0 =>
              \/ entry'.role = role
              \/ changed + entry'.left <= DoorTTL + DoorDelay
              \/ door = "capability" /\ entry'.role = "none" /\ misread' + entry'.left <= DoorTTL
        /\ dropped => (entry'.left > 0 => entry'.role = "none")
    <3>1. CASE entry' = entry
      BY <1>b, <3>1 DEF DoorInv
    <3>2. CASE entry' = [role |-> answer, left |-> DoorTTL]
      <4>1. /\ entry' \in [role : WorkspaceDoors!Roles, left : 0 .. DoorTTL]
            /\ entry'.role = answer /\ entry'.left = DoorTTL
        BY <3>2, DoorShapes
      <4>2. CASE entry' = entry
        BY <3>1, <4>2
      <4>3. CASE /\ entry' # entry
                 /\ \/ answer = role \/ changed <= DoorDelay
                    \/ door = "capability" /\ answer = "none" /\ misread' = 0
        <5>1. dropped => answer = "none"
          BY <1>b
        <5>2. changed <= DoorDelay => changed + DoorTTL <= DoorTTL + DoorDelay
          BY <1>0, DoorShapes
        <5>3. misread' = 0 => misread' + DoorTTL <= DoorTTL
          BY DoorShapes
        <5> QED
          BY <4>1, <4>3, <5>1, <5>2, <5>3
      <4> QED
        BY <1>b, <4>2, <4>3
    <3> QED
      BY <1>b, <3>1, <3>2
  <2>3. WorkspaceDoors!Misread => WorkspaceDoors!Misread'
    BY <1>0, <1>b, DoorShapes DEF WorkspaceDoors!Misread
  <2>4. WorkspaceDoors!Opens(role)' <=> WorkspaceDoors!Opens(role)
    BY <1>b DEF WorkspaceDoors!Opens
  <2> HIDE DEF WorkspaceDoors!Misread, WorkspaceDoors!Opens
  <2> QED
    BY <1>b, <2>1, <2>2, <2>3, <2>4 DEF DoorInv
<1>1. CASE WorkspaceDoors!FindCached(r)
  <2>1. /\ UNCHANGED <<door, role, changed, announced, dropped, entry, misread>>
        /\ entry.left > 0 /\ WorkspaceDoors!Decide(r, entry.role)
    BY <1>1 DEF WorkspaceDoors!FindCached
  <2>2. \/ entry.role = role \/ changed < DoorTTL + DoorDelay
        \/ entry.role = "none" /\ WorkspaceDoors!Misread'
    BY <1>0, <2>1, DoorShapes DEF DoorInv, WorkspaceDoors!Misread
  <2>3. dropped => entry.role = "none"
    BY <2>1 DEF DoorInv
  <2>4. misread' \in 0 .. DoorTTL /\ misread' <= misread
    BY <1>0, <2>1
  <2> QED
    BY <1>0, <1>b, <2>1, <2>2, <2>3, <2>4
<1>2. CASE WorkspaceDoors!Ask(r)
  <2>1. [visit[r] EXCEPT !.at = "asking"] \in DoorVisits
        /\ [visit[r] EXCEPT !.at = "asking"].at = "asking"
    BY <1>0 DEF DoorVisits, DoorPlaces
  <2> QED
    BY <1>2, <1>a, <2>1 DEF WorkspaceDoors!Ask
<1>3. CASE WorkspaceDoors!Answer(r)
  <2>1. PICK answer \in {role, "unreadable"} :
           visit' = [visit EXCEPT ![r] = [at |-> "answered", role |-> answer, age |-> 0]]
    BY <1>3 DEF WorkspaceDoors!Answer
  <2>2. [at |-> "answered", role |-> answer, age |-> 0] \in DoorVisits
    BY <1>0, DoorShapes DEF DoorVisits, DoorPlaces, WorkspaceDoors!Answers
  <2>3. UNCHANGED <<door, role, changed, announced, dropped, entry, misread>>
    BY <1>3 DEF WorkspaceDoors!Answer
  <2> QED
    BY <1>a, <2>1, <2>2, <2>3
<1>4. CASE WorkspaceDoors!ReportUnavailable(r)
  <2>1. [visit[r] EXCEPT !.at = "unavailable"] \in DoorVisits
        /\ [visit[r] EXCEPT !.at = "unavailable"].at = "unavailable"
    BY <1>0 DEF DoorVisits, DoorPlaces
  <2> QED
    BY <1>4, <1>a, <2>1 DEF WorkspaceDoors!ReportUnavailable
<1>5. CASE WorkspaceDoors!Store(r)
  <2>1. /\ UNCHANGED <<door, role, changed, announced, dropped, misread>>
        /\ visit[r].at = "answered"
        /\ visit[r].role \in WorkspaceDoors!Roles /\ WorkspaceDoors!Decide(r, visit[r].role)
        /\ entry' = [role |-> visit[r].role, left |-> DoorTTL]
    BY <1>5 DEF WorkspaceDoors!Store
  <2>2. visit[r].role # "unreadable"
    BY <2>1 DEF WorkspaceDoors!Roles
  <2>3. visit[r].role = role \/ changed <= DoorDelay
    BY <1>0, <2>1, <2>2, DoorShapes DEF DoorInv
  <2>4. dropped => visit[r].role = "none"
    BY <2>1, <2>2 DEF DoorInv
  <2>5. visit[r].role = role \/ changed < DoorTTL + DoorDelay
    BY <1>0, <2>3, DoorShapes
  <2>6. misread' \in 0 .. DoorTTL /\ misread' <= misread
    BY <1>0, <2>1
  <2> QED
    BY <1>b, <2>1, <2>3, <2>4, <2>5, <2>6
<1>6. CASE WorkspaceDoors!Distrust(r)
  <2>1. [WorkspaceDoors!Idle EXCEPT !.at = "unavailable"] \in DoorVisits
        /\ [WorkspaceDoors!Idle EXCEPT !.at = "unavailable"].at = "unavailable"
    BY DoorShapes DEF DoorVisits, DoorPlaces
  <2> QED
    BY <1>6, <1>a, <2>1 DEF WorkspaceDoors!Distrust
<1>7. CASE WorkspaceDoors!TakeForDenial(r)
  <2>1. /\ UNCHANGED <<door, role, changed, announced, dropped>>
        /\ door # "mandate" /\ misread' = 0 /\ WorkspaceDoors!Decide(r, "none")
        /\ entry' = IF door = "capability" THEN [role |-> "none", left |-> DoorTTL] ELSE entry
    BY <1>7 DEF WorkspaceDoors!TakeForDenial
  <2>2. WorkspaceDoors!Misread'
    BY <2>1, DoorShapes DEF DoorInv, WorkspaceDoors!Misread
  <2>3. "none" \in WorkspaceDoors!Roles /\ misread' \in 0 .. DoorTTL /\ misread' <= misread
    BY <1>0, <2>1, DoorShapes DEF WorkspaceDoors!Roles
  <2>4. \/ entry' = entry /\ door # "capability"
        \/ entry' = [role |-> "none", left |-> DoorTTL] /\ door = "capability"
    BY <2>1
  <2> QED
    BY <1>b, <2>1, <2>2, <2>3, <2>4
<1>8. CASE WorkspaceDoors!Respond(r)
  BY <1>8, <1>a, DoorShapes DEF WorkspaceDoors!Respond
<1> QED
  BY <1>1, <1>2, <1>3, <1>4, <1>5, <1>6, <1>7, <1>8

LEMMA DoorTick == DoorInv /\ WorkspaceDoors!Tick => DoorInv'
<1> SUFFICES ASSUME DoorInv, WorkspaceDoors!Tick PROVE DoorInv'
  OBVIOUS
<1>0. /\ UNCHANGED <<door, role, announced, dropped>>
      /\ changed \in 0 .. DoorTTL + DoorDelay /\ changed' \in 0 .. DoorTTL + DoorDelay
      /\ changed' <= changed + 1
      /\ misread \in 0 .. DoorTTL /\ misread' \in 0 .. DoorTTL /\ misread' <= misread + 1
  BY DoorShapes DEF DoorInv, WorkspaceDoors!Tick, WorkspaceDoors!LongAgo
<1>1. /\ entry' \in [role : WorkspaceDoors!Roles, left : 0 .. DoorTTL]
      /\ entry'.left > 0 =>
             entry.left > 0 /\ entry'.role = entry.role /\ entry'.left = entry.left - 1
  BY DoorShapes DEF DoorInv, WorkspaceDoors!Tick
<1>2. ASSUME NEW r \in Requests
      PROVE  /\ visit[r].at \notin {"admitted", "refused", "unavailable"}
             /\ visit'[r] \in DoorVisits /\ visit'[r].at = visit[r].at
             /\ visit'[r].role = visit[r].role
             /\ visit[r].at = "answered" => visit'[r].age = visit[r].age + 1
                                            /\ visit[r].age \in Nat
  BY DoorShapes DEF DoorInv, WorkspaceDoors!Tick, DoorVisits, WorkspaceDoors!Verdicts
<1>3. visit' \in [Requests -> DoorVisits]
  BY <1>2 DEF WorkspaceDoors!Tick
<1>4. entry'.left > 0 =>
         \/ entry'.role = role
         \/ changed' + entry'.left <= DoorTTL + DoorDelay
         \/ door = "capability" /\ entry'.role = "none" /\ misread' + entry'.left <= DoorTTL
  BY <1>0, <1>1, DoorShapes DEF DoorInv
<1>5. \A r \in Requests : visit'[r].at = "answered" =>
                             visit'[r].role \in {role, "unreadable"} \/ changed' <= visit'[r].age
  BY <1>0, <1>2 DEF DoorInv
<1> QED
  BY <1>0, <1>1, <1>2, <1>3, <1>4, <1>5 DEF DoorInv

(* The inductive invariant of the doors. *)
THEOREM DoorInvariant == WorkspaceDoors!Spec => []DoorInv
<1>1. DoorInv /\ [WorkspaceDoors!Next]_WorkspaceDoors!vars => DoorInv'
  <2> SUFFICES ASSUME DoorInv, [WorkspaceDoors!Next]_WorkspaceDoors!vars PROVE DoorInv'
    OBVIOUS
  <2>1. CASE WorkspaceDoors!Change
    <3>1. /\ role' \in WorkspaceDoors!Roles /\ changed' = 0 
          /\ UNCHANGED <<door, entry, misread, visit>>
      BY <2>1 DEF WorkspaceDoors!Change
    <3>2. announced' \in BOOLEAN /\ dropped' \in BOOLEAN /\ dropped' = FALSE
      BY <2>1 DEF WorkspaceDoors!Change
    <3>3. entry.left \in 0 .. DoorTTL /\ \A r \in Requests : visit[r].age \in 0 .. DoorDelay
      BY DEF DoorInv, DoorVisits
    <3> QED
      BY <3>1, <3>2, <3>3, DoorShapes DEF DoorInv
  <2>2. CASE WorkspaceDoors!OnMandateRevoked
    <3>1. /\ door = "mandate" /\ entry' = WorkspaceDoors!NoEntry
          /\ UNCHANGED <<door, role, changed, announced, misread, visit>>
      BY <2>2 DEF WorkspaceDoors!OnMandateRevoked
    <3>2. dropped' \in BOOLEAN /\ (dropped' <=> role = "none" /\ ~WorkspaceDoors!Overtaken)
      <4>1. dropped' = (role = "none" /\ ~WorkspaceDoors!Overtaken)
        BY <2>2 DEF WorkspaceDoors!OnMandateRevoked
      <4> QED
        BY <4>1, Zenon
    <3>3. dropped' => \A r \in Requests : visit[r].at # "admitted"
                         /\ (visit[r].at = "answered" => visit[r].role \in {"none", "unreadable"})
      <4>1. \A r \in Requests : visit[r].role \in {"none", "member", "admin", "unreadable"}
        BY DEF DoorInv, DoorVisits, WorkspaceDoors!Answers, WorkspaceDoors!Roles
      <4>2. \A answer : WorkspaceDoors!Opens(answer) <=> answer \in {"member", "admin"}
        BY <3>1 DEF WorkspaceDoors!Opens
      <4>3. dropped' => \A r \in Requests :
                           /\ visit[r].at # "admitted"
                           /\ visit[r].at = "answered" => ~WorkspaceDoors!Opens(visit[r].role)
        BY <3>2 DEF WorkspaceDoors!Overtaken
      <4> QED
        BY <4>1, <4>2, <4>3
    <3>4. /\ WorkspaceDoors!Opens(role)' <=> WorkspaceDoors!Opens(role)
          /\ WorkspaceDoors!Misread' <=> WorkspaceDoors!Misread
      BY <3>1 DEF WorkspaceDoors!Opens, WorkspaceDoors!Misread
    <3>5. dropped' => role = "none"
      BY <3>2
    <3>6. entry' \in [role : WorkspaceDoors!Roles, left : 0 .. DoorTTL] /\ entry'.left = 0
      BY <3>1, DoorShapes
    <3> QED
      BY <3>1, <3>2, <3>3, <3>4, <3>5, <3>6 DEF DoorInv
  <2>3. CASE WorkspaceDoors!InvalidateMembership
    BY <2>3, DoorShapes DEF DoorInv, WorkspaceDoors!InvalidateMembership, WorkspaceDoors!Opens,
       WorkspaceDoors!Misread
  <2>4. CASE WorkspaceDoors!Tick
    BY <2>4, DoorTick
  <2>5. CASE UNCHANGED WorkspaceDoors!vars
    BY <2>5 DEF WorkspaceDoors!vars, DoorInv, WorkspaceDoors!Opens, WorkspaceDoors!Misread
  <2> QED
    BY <2>1, <2>2, <2>3, <2>4, <2>5, DoorSteps DEF WorkspaceDoors!Next
<1> QED
  BY <1>1, DoorInit, PTL DEF WorkspaceDoors!Spec

(* "The TTL is the bound on the bus failing" (mandate.py:64), for any TTL, *)
(* delay and number of requests: a verdict is the service's own word of    *)
(* bounded age, or a refusal taken from an unreadable answer, which the    *)
(* mandate's door never does and the capability's remembers for the TTL    *)
(* (workspaces.py:219-221, :377-383).                                      *)
THEOREM ServicesVerdictsStand == ServicesSpec => []VerdictsStand
<1>1. DoorInv => VerdictsStand
  BY DoorShapes DEF DoorInv, VerdictsStand, WorkspaceDoors!VerdictsStand, WorkspaceDoors!LongAgo
<1> QED
  BY <1>1, DoorInvariant, RunsWorkspaceDoors, PTL

-----------------------------------------------------------------------------
(* A person in a fleet *)

ShadowRequests == [at : {"idle", "presented", "untombstoned", "reading", "inserting",
                         "rereading", "searching", "rekeying", "saving", "admitted",
                         "loading", "minting"},
                   by : {"token", "event", "seam"},
                   found : ShadowUser!Ids \cup {"none"}]

(* What the requests of a step hold of the tokens they were shown. *)
ShadowHolds ==
    \A r \in Requests :
        /\ request[r].at = "loading" => refresh > 0
        /\ request[r].at = "presented" /\ request[r].by = "token" => access > 0
        /\ recorded /\ request[r].at = "minting" => AccessLife <= tombstone["own"]

(* From the record of a deletion on, no token anybody can show, or is about *)
(* to mint, outlives the tombstone; and a request that began after it has   *)
(* not come past the check of the tombstone.                               *)
ShadowInv ==
    /\ ShadowUser!TypeOK
    /\ account = "live" => ~recorded
    /\ late # {} => recorded
    /\ recorded => access <= tombstone["own"] /\ refresh <= tombstone["own"]
    /\ recorded /\ account = "deleting" => tombstone["own"] = ShadowUser!tombstone_ttl
    /\ ShadowHolds
    /\ \A r \in late :
          request[r].by = "token" => request[r].at \in {"idle", "presented", "loading"}
    /\ ShadowUser!TombstonesTrue

(* The lifetimes: tombstone_ttl() is floored at the refresh lifetime.      *)
LEMMA TombstoneLasts ==
    /\ AccessLife \in Nat /\ RefreshLife \in Nat /\ ShadowUser!tombstone_ttl \in Nat
    /\ AccessLife <= RefreshLife /\ RefreshLife <= ShadowUser!tombstone_ttl
    /\ AccessLife <= ShadowUser!tombstone_ttl
BY ServicesAssumption DEF ShadowUser!tombstone_ttl

LEMMA ShadowTypes ==
    ShadowUser!TypeOK =>
        /\ request \in [Requests -> ShadowRequests]
        /\ tombstone \in [{"old", "own"} -> 0 .. ShadowUser!tombstone_ttl]
        /\ access \in Nat /\ refresh \in Nat /\ tombstone["own"] \in Nat
        /\ tombstone["own"] <= ShadowUser!tombstone_ttl
        /\ access <= AccessLife /\ refresh <= RefreshLife
BY TombstoneLasts DEF ShadowUser!TypeOK, ShadowRequests, ShadowUser!Ids

LEMMA ShadowShapes ==
    /\ ShadowUser!Idle \in ShadowRequests
    /\ ShadowUser!Idle.at = "idle" /\ ShadowUser!Idle.by = "token"
    /\ \A place \in {"presented", "loading"}, by \in {"token", "event"} :
          LET k == [ShadowUser!Idle EXCEPT !.at = place, !.by = by]
          IN  k \in ShadowRequests /\ k.at = place /\ k.by = by
BY DEF ShadowUser!Idle, ShadowRequests

LEMMA ShadowInit == ShadowUser!Init => ShadowInv
<1> SUFFICES ASSUME ShadowUser!Init PROVE ShadowInv
  OBVIOUS
<1>1. /\ deactivated \in BOOLEAN /\ recorded \in BOOLEAN /\ ~recorded /\ late = {}
  BY DEF ShadowUser!Init
<1>2. request \in [Requests -> ShadowRequests] /\ \A r \in Requests : request[r].at = "idle"
  BY ShadowShapes DEF ShadowUser!Init
<1>3. /\ account = "live" /\ deletions = {} /\ access = 0 /\ refresh = 0 /\ row \in {"none", "old"}
      /\ tombstone = [i \in ShadowUser!Ids |-> 0]
  BY DEF ShadowUser!Init
<1>4. ShadowUser!TypeOK
  BY <1>1, <1>2, <1>3, TombstoneLasts DEF ShadowUser!TypeOK, ShadowRequests, ShadowUser!Ids
<1>5. ShadowHolds
  BY <1>1, <1>2 DEF ShadowHolds
<1>6. ShadowUser!TombstonesTrue
  BY <1>3 DEF ShadowUser!TombstonesTrue
<1> QED
  BY <1>1, <1>3, <1>4, <1>5, <1>6 DEF ShadowInv

(* A step in which requests stand still, tokens are not made younger than  *)
(* they were, and the tombstone of the person stands as it did.            *)
LEMMA ShadowStands ==
    ASSUME ShadowInv, request' = request, late' \in {late, {}}, ShadowUser!TypeOK',
           tombstone'["own"] = tombstone["own"], deletions \subseteq deletions',
           access <= access', refresh <= refresh',
           \A i \in ShadowUser!Ids : tombstone'[i] > 0 => i \in deletions',
           account' = "live" => ~recorded', recorded' => recorded, late' # {} => recorded',
           recorded' => access' <= tombstone["own"] /\ refresh' <= tombstone["own"],
           recorded' /\ account' = "deleting" => account = "deleting"
    PROVE  ShadowInv'
<1>1. ShadowHolds'
  <2> SUFFICES ASSUME NEW r \in Requests
               PROVE  /\ request[r].at = "loading" => refresh' > 0
                      /\ request[r].at = "presented" /\ request[r].by = "token" => access' > 0
                      /\ recorded' /\ request[r].at = "minting" => AccessLife <= tombstone'["own"]
    BY DEF ShadowHolds
  <2> QED
    BY TombstoneLasts, ShadowTypes DEF ShadowInv, ShadowHolds, ShadowUser!TypeOK
<1>2. \A r \in late' :
          request'[r].by = "token" => request'[r].at \in {"idle", "presented", "loading"}
  BY DEF ShadowInv
<1>3. recorded' /\ account' = "deleting" => tombstone'["own"] = ShadowUser!tombstone_ttl
  BY DEF ShadowInv
<1>4. ShadowUser!TombstonesTrue'
  BY DEF ShadowUser!TombstonesTrue
<1>5. ShadowUser!tombstone_ttl' = ShadowUser!tombstone_ttl
  BY DEF ShadowUser!tombstone_ttl
<1> QED
  BY <1>1, <1>2, <1>3, <1>4, <1>5 DEF ShadowInv

(* A step that writes the person's tombstone anew, requests standing still. *)
LEMMA ShadowWrites ==
    ASSUME ShadowInv, UNCHANGED <<request, late, access, refresh>>, ShadowUser!TypeOK',
           tombstone' = [tombstone EXCEPT !["own"] = ShadowUser!tombstone_ttl],
           deletions' = deletions \cup {"own"}, account' # "live", recorded'
    PROVE  ShadowInv'
<1>1. tombstone'["own"] = ShadowUser!tombstone_ttl /\ tombstone'["old"] = tombstone["old"]
  BY ShadowTypes DEF ShadowInv
<1>2. ShadowHolds'
  BY <1>1, TombstoneLasts DEF ShadowInv, ShadowHolds
<1>3. ShadowUser!TombstonesTrue'
  BY <1>1 DEF ShadowInv, ShadowUser!TombstonesTrue, ShadowUser!Ids
<1>4. access' <= tombstone'["own"] /\ refresh' <= tombstone'["own"]
  BY <1>1, TombstoneLasts, ShadowTypes DEF ShadowInv
<1>5. ShadowUser!tombstone_ttl' = ShadowUser!tombstone_ttl
  BY DEF ShadowUser!tombstone_ttl
<1> QED
  BY <1>1, <1>2, <1>3, <1>4, <1>5 DEF ShadowInv

(* The issuer, the consumer's own deletion, and the clock. *)
LEMMA IssuerSteps ==
    ASSUME ShadowInv,
           \/ ShadowUser!SignIn \/ ShadowUser!Delete \/ ShadowUser!Commit \/ ShadowUser!Rollback
           \/ ShadowUser!Restore \/ ShadowUser!LiftTombstone \/ ShadowUser!DeactivateUser
           \/ ShadowUser!LiftDeactivation \/ ShadowUser!EraseRow
    PROVE  ShadowInv'
<1> USE DEF ShadowUser!fleet
<1>0. /\ ShadowUser!TypeOK /\ ShadowUser!TombstonesTrue
      /\ request \in [Requests -> ShadowRequests]
      /\ tombstone \in [{"old", "own"} -> 0 .. ShadowUser!tombstone_ttl]
      /\ access \in Nat /\ refresh \in Nat /\ tombstone["own"] \in Nat
      /\ tombstone["own"] <= ShadowUser!tombstone_ttl
      /\ access <= AccessLife /\ refresh <= RefreshLife
      /\ ShadowUser!tombstone_ttl' = ShadowUser!tombstone_ttl
  BY ShadowTypes DEF ShadowInv, ShadowUser!tombstone_ttl
<1>1. CASE ShadowUser!SignIn
  <2>1. ShadowUser!TypeOK'
    BY <1>0, <1>1, TombstoneLasts DEF ShadowUser!SignIn, ShadowUser!TypeOK
  <2>2. recorded => account = "deleting"
    BY <1>0, <1>1 DEF ShadowInv, ShadowUser!SignIn, ShadowUser!TypeOK
  <2>3. recorded => access' <= tombstone["own"] /\ refresh' <= tombstone["own"]
    BY <1>1, <2>2, TombstoneLasts DEF ShadowInv, ShadowUser!SignIn
  <2>4. access <= access' /\ refresh <= refresh'
    BY <1>0, <1>1 DEF ShadowUser!SignIn
  <2>5. UNCHANGED <<account, deletions, tombstone, recorded, request, late>>
    BY <1>1 DEF ShadowUser!SignIn
  <2>6. \A i \in ShadowUser!Ids : tombstone'[i] > 0 => i \in deletions'
    BY <1>0, <2>5 DEF ShadowUser!TombstonesTrue
  <2> QED
    BY <2>1, <2>3, <2>4, <2>5, <2>6, ShadowStands DEF ShadowInv
<1>2. CASE ShadowUser!Delete
  <2>1. /\ account = "live" /\ account' = "deleting" /\ deletions' = deletions \cup {"own"}
        /\ UNCHANGED <<deactivated, access, refresh, row, request, late>>
    BY <1>2 DEF ShadowUser!Delete
  <2>2. CASE tombstone' = [tombstone EXCEPT !["own"] = ShadowUser!tombstone_ttl] /\ recorded'
    <3>1. recorded' \in BOOLEAN
      BY <1>2 DEF ShadowUser!Delete, ShadowUser!TombstoneUser, ShadowUser!TypeOK, ShadowInv
    <3>2. ShadowUser!TypeOK'
      BY <1>0, <2>1, <2>2, <3>1, TombstoneLasts DEF ShadowUser!TypeOK, ShadowUser!Ids
    <3> QED
      BY <2>1, <2>2, <3>2, ShadowWrites
  <2>3. CASE UNCHANGED <<tombstone, recorded>>
    <3>1. ShadowUser!TypeOK'
      BY <1>0, <2>1, <2>3 DEF ShadowUser!TypeOK, ShadowUser!Ids
    <3>2. ~recorded
      BY <2>1 DEF ShadowInv
    <3>3. \A i \in ShadowUser!Ids : tombstone'[i] > 0 => i \in deletions'
      BY <1>0, <2>1, <2>3 DEF ShadowUser!TombstonesTrue
    <3> QED
      BY <1>0, <2>1, <2>3, <3>1, <3>2, <3>3, ShadowStands DEF ShadowInv
  <2>4. \/ tombstone' = [tombstone EXCEPT !["own"] = ShadowUser!tombstone_ttl] /\ recorded'
        \/ UNCHANGED <<tombstone, recorded>>
    BY <1>2 DEF ShadowUser!Delete, ShadowUser!TombstoneUser
  <2> QED
    BY <2>2, <2>3, <2>4
<1>3. CASE ShadowUser!Commit \/ ShadowUser!Rollback \/ ShadowUser!Restore
           \/ ShadowUser!DeactivateUser \/ ShadowUser!LiftDeactivation
  <2>1. /\ UNCHANGED <<deletions, tombstone, access, refresh, row, request>>
        /\ late' \in {late, {}}
        /\ account' \in {"live", "deleted", account} /\ account' \in {"live", "deleting", "deleted"}
    BY <1>0, <1>3 DEF ShadowUser!Commit, ShadowUser!Rollback, ShadowUser!Restore,
       ShadowUser!DeactivateUser, ShadowUser!LiftDeactivation, ShadowUser!TypeOK
  <2>2. deactivated' \in BOOLEAN /\ recorded' \in BOOLEAN
    BY <1>0, <1>3 DEF ShadowUser!Commit, ShadowUser!Rollback, ShadowUser!Restore,
       ShadowUser!DeactivateUser, ShadowUser!LiftDeactivation, ShadowUser!TypeOK
  <2>3. /\ recorded' => recorded
        /\ account' = "live" => ~recorded'
        /\ late' # {} => recorded'
        /\ account' = "deleting" => account = "deleting"
    BY <1>3 DEF ShadowInv, ShadowUser!Commit, ShadowUser!Rollback, ShadowUser!Restore,
       ShadowUser!DeactivateUser, ShadowUser!LiftDeactivation
  <2>4. ShadowUser!TypeOK'
    BY <1>0, <2>1, <2>2 DEF ShadowUser!TypeOK
  <2>5. \A i \in ShadowUser!Ids : tombstone'[i] > 0 => i \in deletions'
    BY <1>0, <2>1 DEF ShadowUser!TombstonesTrue
  <2> QED
    BY <1>0, <2>1, <2>3, <2>4, <2>5, ShadowStands DEF ShadowInv
<1>4. CASE ShadowUser!LiftTombstone
  <2>1. /\ account = "live" /\ tombstone' = [tombstone EXCEPT !["own"] = 0]
        /\ UNCHANGED <<account, deletions, deactivated, access, refresh, row, request,
                       recorded, late>>
    BY <1>4 DEF ShadowUser!LiftTombstone
  <2>2. ~recorded /\ late = {}
    BY <2>1 DEF ShadowInv
  <2>3. tombstone'["own"] = 0 /\ tombstone'["old"] = tombstone["old"]
    BY <1>0, <2>1
  <2>4. ShadowUser!TypeOK'
    BY <1>0, <2>1, TombstoneLasts DEF ShadowUser!TypeOK, ShadowUser!Ids
  <2>5. ShadowHolds'
    BY <2>1, <2>2 DEF ShadowInv, ShadowHolds
  <2>6. ShadowUser!TombstonesTrue'
    BY <1>0, <2>1, <2>3 DEF ShadowUser!TombstonesTrue, ShadowUser!Ids
  <2> QED
    BY <2>1, <2>2, <2>4, <2>5, <2>6 DEF ShadowInv
<1>5. CASE ShadowUser!EraseRow
  <2>1. /\ account = "deleted" /\ row \in {"old", "own"} /\ row' = "none"
        /\ deletions' = deletions \cup {row}
        /\ UNCHANGED <<account, deactivated, access, refresh, request, late>>
    BY <1>0, <1>5 DEF ShadowUser!EraseRow, ShadowUser!TypeOK, ShadowUser!Ids
  <2>2. recorded' \in BOOLEAN
    BY <1>0, <1>5 DEF ShadowUser!EraseRow, ShadowUser!TombstoneUser, ShadowUser!TypeOK
  <2>3. CASE row = "own" /\ tombstone' = [tombstone EXCEPT !["own"] = ShadowUser!tombstone_ttl]
             /\ recorded'
    <3>1. ShadowUser!TypeOK'
      BY <1>0, <2>1, <2>2, <2>3, TombstoneLasts DEF ShadowUser!TypeOK, ShadowUser!Ids
    <3> QED
      BY <2>1, <2>3, <3>1, ShadowWrites
  <2>4. CASE recorded' = recorded
             /\ \/ UNCHANGED tombstone
                \/ /\ row = "old"
                   /\ tombstone' = [tombstone EXCEPT !["old"] = ShadowUser!tombstone_ttl]
    <3>1. tombstone'["own"] = tombstone["own"]
      BY <1>0, <2>4
    <3>2. ShadowUser!TypeOK'
      BY <1>0, <2>1, <2>2, <2>4, TombstoneLasts DEF ShadowUser!TypeOK, ShadowUser!Ids
    <3>3. \A i \in ShadowUser!Ids : tombstone'[i] > 0 => i \in deletions'
      BY <1>0, <2>1, <2>4, <3>1 DEF ShadowUser!TombstonesTrue, ShadowUser!Ids
    <3> QED
      BY <1>0, <2>1, <2>4, <3>1, <3>2, <3>3, ShadowStands DEF ShadowInv
  <2>5. \/ tombstone' = [tombstone EXCEPT ![row] = ShadowUser!tombstone_ttl]
           /\ recorded' = (recorded \/ row = "own")
        \/ UNCHANGED <<tombstone, recorded>>
    BY <1>5 DEF ShadowUser!EraseRow, ShadowUser!TombstoneUser
  <2>6. row = "old" => (recorded \/ row = "own") = recorded
    BY <1>0 DEF ShadowUser!TypeOK
  <2> QED
    BY <2>1, <2>3, <2>4, <2>5, <2>6
<1> QED
  BY <1>1, <1>2, <1>3, <1>4, <1>5

LEMMA ShadowTick ==
    ASSUME ShadowInv, ShadowUser!Tick
    PROVE  ShadowInv'
<1>1. /\ account # "deleting" /\ \A r \in Requests : request[r].at = "idle"
      /\ access' = ShadowUser!Left(access) /\ refresh' = ShadowUser!Left(refresh)
      /\ tombstone' = [i \in ShadowUser!Ids |-> ShadowUser!Left(tombstone[i])]
      /\ UNCHANGED <<account, deletions, deactivated, row, request, recorded, late>>
  BY DEF ShadowUser!Tick
<1>2. \A m, n \in Nat : /\ ShadowUser!Left(m) \in Nat /\ ShadowUser!Left(m) <= m
                        /\ m <= n => ShadowUser!Left(m) <= ShadowUser!Left(n)
  BY DEF ShadowUser!Left
<1>3. \A i \in ShadowUser!Ids : tombstone'[i] = ShadowUser!Left(tombstone[i])
  BY <1>1
<1>4. \A i \in ShadowUser!Ids : tombstone[i] \in Nat /\ tombstone[i] <= ShadowUser!tombstone_ttl
  BY TombstoneLasts DEF ShadowInv, ShadowUser!TypeOK
<1>5. ShadowUser!TypeOK'
  <2>1. tombstone' \in [ShadowUser!Ids -> 0 .. ShadowUser!tombstone_ttl]
    BY <1>1, <1>2, <1>4, TombstoneLasts
  <2>2. access' \in 0 .. AccessLife /\ refresh' \in 0 .. RefreshLife
    BY <1>1, <1>2, TombstoneLasts DEF ShadowInv, ShadowUser!TypeOK
  <2>3. ShadowUser!tombstone_ttl' = ShadowUser!tombstone_ttl
    BY DEF ShadowUser!tombstone_ttl
  <2> QED
    BY <1>1, <2>1, <2>2, <2>3 DEF ShadowInv, ShadowUser!TypeOK, ShadowUser!Ids
<1>6. recorded => access' <= tombstone'["own"] /\ refresh' <= tombstone'["own"]
  BY <1>1, <1>2, <1>3, <1>4, ShadowTypes DEF ShadowInv, ShadowUser!Ids
<1>7. ShadowHolds'
  BY <1>1 DEF ShadowHolds
<1>8. ShadowUser!TombstonesTrue'
  BY <1>1, <1>2, <1>3, <1>4 DEF ShadowInv, ShadowUser!TombstonesTrue
<1> QED
  BY <1>1, <1>5, <1>6, <1>7, <1>8 DEF ShadowInv

(* A request moves on, or ends: the records stand, and no token fades.     *)
LEMMA ShadowMoves ==
    ASSUME ShadowInv, NEW r \in Requests, NEW k \in ShadowRequests,
           request' = [request EXCEPT ![r] = k],
           UNCHANGED <<account, deletions, tombstone, deactivated, recorded, refresh, late>>,
           row' \in ShadowUser!Ids \cup {"none"}, access' \in {access, AccessLife},
           access' # access => request[r].at = "minting",
           k.at # "loading", k.at = "presented" => k.by # "token",
           k.at = "minting" => request[r].at = "loading" /\ tombstone["own"] = 0,
           k.by = "token" => k.at = "idle" \/ (request[r].at # "idle" /\ request[r].by = "token"),
           k.by = "token" /\ request[r].at \in {"presented", "loading"} /\ k.at # "idle" =>
               tombstone["own"] = 0
    PROVE  ShadowInv'
<1>0. /\ request \in [Requests -> ShadowRequests] /\ tombstone["own"] \in Nat
      /\ access \in Nat /\ refresh \in Nat /\ access <= AccessLife
  BY ShadowTypes DEF ShadowInv
<1>1. /\ request' \in [Requests -> ShadowRequests] /\ request'[r] = k
      /\ \A q \in Requests \ {r} : request'[q] = request[q]
  BY <1>0
<1>2. ShadowUser!TypeOK'
  <2>1. access' \in 0 .. AccessLife
    BY <1>0, TombstoneLasts
  <2>2. ShadowUser!tombstone_ttl' = ShadowUser!tombstone_ttl
    BY DEF ShadowUser!tombstone_ttl
  <2> QED
    BY <1>1, <2>1, <2>2 DEF ShadowInv, ShadowUser!TypeOK, ShadowRequests, ShadowUser!Ids
<1>3. recorded => access' <= tombstone["own"] /\ refresh <= tombstone["own"]
  BY <1>0 DEF ShadowInv, ShadowHolds
<1>4. ASSUME recorded,
             \/ request[r].at = "loading"
             \/ request[r].at = "presented" /\ request[r].by = "token"
      PROVE  tombstone["own"] # 0
  BY <1>0, <1>4 DEF ShadowInv, ShadowHolds
<1>5. ShadowHolds'
  <2> SUFFICES ASSUME NEW q \in Requests
               PROVE  /\ request'[q].at = "loading" => refresh > 0
                      /\ request'[q].at = "presented" /\ request'[q].by = "token" => access' > 0
                      /\ recorded /\ request'[q].at = "minting" => AccessLife <= tombstone["own"]
    BY DEF ShadowHolds
  <2>1. CASE q = r
    BY <1>1, <1>4, <2>1
  <2>2. CASE q # r
    <3>1. access > 0 => access' > 0
      BY <1>0
    <3> QED
      BY <1>1, <2>2, <3>1 DEF ShadowInv, ShadowHolds
  <2> QED
    BY <2>1, <2>2
<1>6. \A q \in late :
          request'[q].by = "token" => request'[q].at \in {"idle", "presented", "loading"}
  <2> SUFFICES ASSUME NEW q \in late, request'[q].by = "token"
               PROVE  request'[q].at \in {"idle", "presented", "loading"}
    OBVIOUS
  <2>1. recorded /\ q \in Requests
    BY DEF ShadowInv, ShadowUser!TypeOK
  <2>2. CASE q = r
    BY <1>1, <1>4, <2>1, <2>2 DEF ShadowInv
  <2> QED
    BY <1>1, <2>1, <2>2 DEF ShadowInv
<1>7. ShadowUser!TombstonesTrue'
  BY DEF ShadowInv, ShadowUser!TombstonesTrue
<1>8. ShadowUser!tombstone_ttl' = ShadowUser!tombstone_ttl
  BY DEF ShadowUser!tombstone_ttl
<1> QED
  BY <1>2, <1>3, <1>5, <1>6, <1>7, <1>8 DEF ShadowInv

(* A request begins, on a token that is good for a while or on an event.   *)
LEMMA ShadowBegins ==
    ASSUME ShadowInv, NEW r \in Requests,
           NEW place \in {"presented", "loading"}, NEW by \in {"token", "event"},
           ShadowUser!Begins(r, place, by),
           UNCHANGED <<account, deletions, tombstone, deactivated, recorded, access, refresh, row>>,
           place = "loading" => refresh > 0,
           place = "presented" /\ by = "token" => access > 0
    PROVE  ShadowInv'
<1> DEFINE k == [ShadowUser!Idle EXCEPT !.at = place, !.by = by]
<1>0. request \in [Requests -> ShadowRequests]
  BY ShadowTypes DEF ShadowInv
<1>1. k \in ShadowRequests /\ k.at = place /\ k.by = by
  BY ShadowShapes
<1>2. request' = [request EXCEPT ![r] = k] /\ late' = IF recorded THEN late \cup {r} ELSE late \ {r}
  BY DEF ShadowUser!Begins
<1> HIDE DEF k
<1>3. /\ request' \in [Requests -> ShadowRequests] /\ request'[r] = k
      /\ \A q \in Requests \ {r} : request'[q] = request[q]
  BY <1>0, <1>1, <1>2
<1>4. late' \subseteq Requests /\ (late' # {} => recorded) /\ \A q \in late' : q = r \/ q \in late
  BY <1>2 DEF ShadowInv, ShadowUser!TypeOK
<1>8. ShadowUser!tombstone_ttl' = ShadowUser!tombstone_ttl
  BY DEF ShadowUser!tombstone_ttl
<1>5. ShadowUser!TypeOK'
  BY <1>3, <1>4, <1>8 DEF ShadowInv, ShadowUser!TypeOK, ShadowRequests, ShadowUser!Ids
<1>6. ShadowHolds'
  BY <1>1, <1>3 DEF ShadowInv, ShadowHolds
<1>7. \A q \in late' :
          request'[q].by = "token" => request'[q].at \in {"idle", "presented", "loading"}
  BY <1>1, <1>3, <1>4 DEF ShadowInv, ShadowUser!TypeOK
<1>9. ShadowUser!TombstonesTrue'
  BY DEF ShadowInv, ShadowUser!TombstonesTrue
<1> QED
  BY <1>4, <1>5, <1>6, <1>7, <1>8, <1>9 DEF ShadowInv

LEMMA RequestSteps ==
    ASSUME ShadowInv, NEW r \in Requests,
           \/ ShadowUser!PresentRefresh(r) \/ ShadowUser!LoadUserByUid(r)
           \/ ShadowUser!GenerateAccessToken(r) \/ ShadowUser!PresentAccess(r)
           \/ ShadowUser!PresentEvent(r) \/ ShadowUser!CheckTombstone(r)
           \/ ShadowUser!CheckDeactivated(r) \/ ShadowUser!EventReads(r) \/ ShadowUser!ReadRow(r)
           \/ ShadowUser!Insert(r) \/ ShadowUser!Reread(r) \/ ShadowUser!Search(r)
           \/ ShadowUser!Rekey(r) \/ ShadowUser!Save(r) \/ ShadowUser!Serve(r)
    PROVE  ShadowInv'
<1> USE DEF ShadowUser!fleet
<1>0. /\ request \in [Requests -> ShadowRequests] /\ request[r] \in ShadowRequests
      /\ row \in ShadowUser!Ids \cup {"none"}
  BY ShadowTypes DEF ShadowInv, ShadowUser!TypeOK
<1>1. CASE ShadowUser!PresentRefresh(r)
  BY <1>1, ShadowBegins DEF ShadowUser!PresentRefresh
<1>2. CASE ShadowUser!PresentAccess(r)
  BY <1>2, ShadowBegins DEF ShadowUser!PresentAccess
<1>3. CASE ShadowUser!PresentEvent(r)
  BY <1>3, ShadowBegins DEF ShadowUser!PresentEvent
<1>4. ASSUME NEW place \in {"untombstoned", "reading", "inserting", "rereading", "searching",
                            "rekeying", "saving", "admitted", "minting"},
             ShadowUser!Goes(r, place)
      PROVE  /\ request' = [request EXCEPT ![r] = [request[r] EXCEPT !.at = place]]
             /\ [request[r] EXCEPT !.at = place] \in ShadowRequests
             /\ [request[r] EXCEPT !.at = place].at = place
             /\ [request[r] EXCEPT !.at = place].by = request[r].by
  BY <1>0, <1>4 DEF ShadowUser!Goes, ShadowRequests
<1>5. ASSUME NEW place \in {"untombstoned", "reading", "inserting", "rereading", "searching",
                            "rekeying", "saving", "admitted"},
             ShadowUser!Goes(r, place),
             UNCHANGED <<account, deletions, tombstone, deactivated, recorded, refresh,
                         access, late>>,
             row' \in ShadowUser!Ids \cup {"none"},
             request[r].at \notin {"idle", "loading"},
             request[r].at = "presented" => tombstone["own"] = 0
      PROVE  ShadowInv'
  <2> DEFINE k == [request[r] EXCEPT !.at = place]
  <2>1. /\ request' = [request EXCEPT ![r] = k] /\ k \in ShadowRequests
        /\ k.at = place /\ k.by = request[r].by
    BY <1>4, <1>5
  <2> HIDE DEF k
  <2> QED
    BY <1>0, <1>5, <2>1, ShadowMoves DEF ShadowRequests
<1>6. ASSUME ShadowUser!Returns(r),
             UNCHANGED <<account, deletions, tombstone, deactivated, recorded, refresh, late>>,
             row' \in ShadowUser!Ids \cup {"none"}, access' \in {access, AccessLife},
             access' # access => request[r].at = "minting"
      PROVE  ShadowInv'
  <2> DEFINE k == ShadowUser!Idle
  <2>1. request' = [request EXCEPT ![r] = k] /\ k \in ShadowRequests /\ k.at = "idle"
    BY <1>6, ShadowShapes DEF ShadowUser!Returns
  <2> HIDE DEF k
  <2> QED
    BY <1>0, <1>6, <2>1, ShadowMoves DEF ShadowRequests
<1>7. CASE ShadowUser!LoadUserByUid(r)
  <2>1. CASE ShadowUser!Goes(r, "minting") /\ tombstone["own"] = 0
    <3> DEFINE k == [request[r] EXCEPT !.at = "minting"]
    <3>1. /\ request' = [request EXCEPT ![r] = k] /\ k \in ShadowRequests
          /\ k.at = "minting" /\ k.by = request[r].by
      BY <1>4, <2>1
    <3>2. UNCHANGED <<account, deletions, tombstone, deactivated, recorded, refresh, access,
                      late, row>>
          /\ request[r].at = "loading"
      BY <1>7 DEF ShadowUser!LoadUserByUid
    <3> HIDE DEF k
    <3> QED
      BY <1>0, <2>1, <3>1, <3>2, ShadowMoves
  <2> QED
    BY <1>0, <1>6, <1>7, <2>1 DEF ShadowUser!LoadUserByUid
<1>8. CASE ShadowUser!GenerateAccessToken(r)
  BY <1>0, <1>6, <1>8 DEF ShadowUser!GenerateAccessToken
<1>9. CASE ShadowUser!CheckTombstone(r) \/ ShadowUser!CheckDeactivated(r)
  BY <1>0, <1>5, <1>6, <1>9 DEF ShadowUser!CheckTombstone, ShadowUser!CheckDeactivated
<1>10. CASE ShadowUser!EventReads(r)
  <2> DEFINE k == [request[r] EXCEPT !.at = "presented", !.by = "seam"]
  <2>1. k \in ShadowRequests /\ k.at = "presented" /\ k.by = "seam"
    BY <1>0 DEF ShadowRequests
  <2>2. CASE row # "own"
    <3>1. request' = [request EXCEPT ![r] = k]
      BY <1>0, <1>10, <2>2 DEF ShadowUser!EventReads
    <3>2. UNCHANGED <<account, deletions, tombstone, deactivated, recorded, refresh, access,
                      late, row>>
      BY <1>10 DEF ShadowUser!EventReads
    <3> HIDE DEF k
    <3> QED
      BY <1>0, <2>1, <3>1, <3>2, ShadowMoves
  <2>3. CASE row = "own"
    BY <1>0, <1>6, <1>10, <2>3 DEF ShadowUser!EventReads
  <2> QED
    BY <2>2, <2>3
<1>11. CASE ShadowUser!ReadRow(r) \/ ShadowUser!Reread(r)
  BY <1>0, <1>5, <1>11 DEF ShadowUser!ReadRow, ShadowUser!Reread
<1>12. CASE ShadowUser!Insert(r) \/ ShadowUser!Save(r)
  BY <1>0, <1>5, <1>12 DEF ShadowUser!Insert, ShadowUser!Save, ShadowUser!Ids
<1>13. CASE ShadowUser!Search(r)
  <2>1. UNCHANGED <<account, deletions, tombstone, deactivated, recorded, refresh, access,
                    late, row>>
        /\ request[r].at = "searching"
    BY <1>13 DEF ShadowUser!Search
  <2>2. CASE row = "none"
    BY <1>0, <1>6, <1>13, <2>1, <2>2 DEF ShadowUser!Search, ShadowUser!Returns
  <2>3. CASE row = "own"
    BY <1>0, <1>5, <1>13, <2>1, <2>3 DEF ShadowUser!Search, ShadowUser!Goes
  <2>4. CASE row = "old"
    <3> DEFINE k == [request[r] EXCEPT !.at = "rekeying", !.found = "old"]
    <3>1. k \in ShadowRequests /\ k.at = "rekeying" /\ k.by = request[r].by
      BY <1>0 DEF ShadowRequests, ShadowUser!Ids
    <3>2. request' = [request EXCEPT ![r] = k]
      BY <1>0, <1>13, <2>4 DEF ShadowUser!Search
    <3> HIDE DEF k
    <3> QED
      BY <1>0, <2>1, <3>1, <3>2, ShadowMoves
  <2> QED
    BY <1>0, <2>2, <2>3, <2>4 DEF ShadowUser!Ids
<1>14. CASE ShadowUser!Rekey(r)
  <2>1. UNCHANGED <<account, deletions, tombstone, deactivated, recorded, refresh, access, late>>
        /\ request[r].at = "rekeying"
    BY <1>14 DEF ShadowUser!Rekey
  <2>2. CASE row = "own"
    BY <1>0, <1>6, <1>14, <2>1, <2>2 DEF ShadowUser!Rekey, ShadowUser!Replaces
  <2>3. CASE row # "own"
    <3> DEFINE k == [request[r] EXCEPT !.at = "saving", !.found = "none"]
    <3>1. k \in ShadowRequests /\ k.at = "saving" /\ k.by = request[r].by
      BY <1>0 DEF ShadowRequests, ShadowUser!Ids
    <3>2. request' = [request EXCEPT ![r] = k] /\ row' = "own"
      BY <1>0, <1>14, <2>3 DEF ShadowUser!Rekey, ShadowUser!Replaces
    <3> HIDE DEF k
    <3> QED
      BY <1>0, <2>1, <3>1, <3>2, ShadowMoves DEF ShadowUser!Ids
  <2> QED
    BY <2>2, <2>3
<1>15. CASE ShadowUser!Serve(r)
  BY <1>0, <1>6, <1>15 DEF ShadowUser!Serve
<1> QED
  BY <1>1, <1>2, <1>3, <1>7, <1>8, <1>9, <1>10, <1>11, <1>12, <1>13, <1>14, <1>15

(* The inductive invariant of a person in a fleet. *)
THEOREM ShadowInvariant == ShadowUser!Spec => []ShadowInv
<1>1. ShadowInv /\ [ShadowUser!Next]_ShadowUser!vars => ShadowInv'
  <2> SUFFICES ASSUME ShadowInv, [ShadowUser!Next]_ShadowUser!vars PROVE ShadowInv'
    OBVIOUS
  <2>1. CASE UNCHANGED ShadowUser!vars
    BY <2>1 DEF ShadowUser!vars, ShadowInv, ShadowHolds, ShadowUser!TypeOK,
       ShadowUser!TombstonesTrue, ShadowUser!tombstone_ttl
  <2> QED
    BY <2>1, IssuerSteps, ShadowTick, RequestSteps DEF ShadowUser!Next
<1> QED
  BY <1>1, ShadowInit, PTL DEF ShadowUser!Spec

(* "A deleted account cannot be re-created from its own token"             *)
(* (tombstone.py:1), whatever the lifetimes, an access token's being the   *)
(* shorter, and however many requests are under way: a request that begins *)
(* after the record is never admitted on a token, also when the tombstone  *)
(* has expired.                                                            *)
THEOREM ServicesDeletionStands == ServicesSpec => []DeletionStands
<1>1. ShadowInv => DeletionStands
  BY DEF ShadowInv, DeletionStands, ShadowUser!DeletionStands
<1> QED
  BY <1>1, ShadowInvariant, RunsShadowUser, PTL

(* No tombstone without a deletion somebody asked for: a re-key, an insert *)
(* lost to another, an event that comes late announce nothing.             *)
THEOREM ServicesTombstonesTrue == ServicesSpec => []TombstonesTrue
<1>1. ShadowInv => TombstonesTrue
  BY DEF ShadowInv, TombstonesTrue
<1> QED
  BY <1>1, ShadowInvariant, RunsShadowUser, PTL
=============================================================================
