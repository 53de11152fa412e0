------------------------------- MODULE Services -------------------------------
(***************************************************************************)
(* Twelve components that share no state, checked side by side: focus,     *)
(* chosen at the start and never changed, says which of them runs, so that *)
(* their states add up instead of multiplying.  EmitTransaction is         *)
(* extended, the others are instances.                                     *)
(***************************************************************************)
EXTENDS EmitTransaction

CONSTANTS
    Threads, Calls, NoCall, Limit, MaxFaults,          \* Gateway
    Checkers, MaxCodes, Budget,                        \* OneTimeCode
    Verifiers, ProofAge, MaxGuesses,                   \* StepUp
    Requests, PolicyTTL, PolicyDelay,                  \* PolicyCache
    MaxAttempts,                                       \* DurableReply
    AccessLife, RefreshLife, TombstoneTTL,             \* ShadowUser, of the same requests
    StallWindow, ProbeInterval, PollTimeout, MaxAge,   \* ConsumerLiveness
    HandlerBudget, MaxRun,
    Signals, Answerers,                                \* Erasure
    Writers, Rows, PageSize, MaxRevision,              \* RevisionSync
    DoorTTL, DoorDelay,                                \* WorkspaceDoors, of the same requests
    Addresses, Threshold, CacheTTL, NegativeTTL        \* NetIntel, in the same threads

(* Durations and numbers are natural; what is a limit on something that    *)
(* happens is not 0. Rows and answerers exist, and are finitely many. A    *)
(* cache with a lifetime of 0 stores nothing and a stall window of 0       *)
(* switches the rule off: neither is meant here. An access token is not    *)
(* meant to outlive the refresh token (tombstone.py:93).                    *)
ASSUME ServicesAssumption ==
    /\ IsFiniteSet(Threads) /\ {Limit, MaxFaults} \subseteq Nat
    /\ MaxCodes \in Nat /\ Budget \in Nat \ {0}
    /\ ProofAge \in Nat \ {0} /\ MaxGuesses \in Nat \ {0}
    /\ PolicyTTL \in Nat \ {0} /\ {PolicyDelay, MaxAttempts} \subseteq Nat
    /\ {AccessLife, RefreshLife, TombstoneTTL} \subseteq Nat /\ AccessLife <= RefreshLife
    /\ {MaxAge, HandlerBudget, MaxRun} \subseteq Nat
    /\ {StallWindow, ProbeInterval, PollTimeout} \subseteq Nat \ {0}
    /\ IsFiniteSet(Answerers) /\ Answerers # {}
    /\ IsFiniteSet(Rows) /\ Rows # {} /\ PageSize \in Nat \ {0} /\ MaxRevision \in Nat
    /\ DoorTTL \in Nat \ {0} /\ DoorDelay \in Nat
    /\ Addresses # {} /\ Threshold \in Nat \ {0} /\ {CacheTTL, NegativeTTL} \subseteq Nat

VARIABLES
    focus,
    status, overdue, thread, used, runs, log, disturbed, faults,
    record, blocked, issued, checker, accepted, refuted, overlaps,
    challenge, grant, token, pin, proof, verifier,
    disabled, since, cached, left, asking,
    attempt, call, work, shelf, objects, owed, promised,
    account, deletions, tombstone, deactivated, access, refresh, row, request,
    recorded, late,
    loop, member, assigned, unassigned, running, polled, probed, fatal, up, beat, apart,
    mirror, fan, receipted,
    revision, deleted, locked, pending, client, have,
    door, role, changed, announced, dropped, entry, misread, visit,
    failures, breaker, kept, caller, tripped, asked

Gateway          == INSTANCE Gateway
OneTimeCode      == INSTANCE OneTimeCode
StepUp           == INSTANCE StepUp WITH MaxAge <- ProofAge, MaxAttempts <- MaxGuesses
PolicyCache      == INSTANCE PolicyCache WITH
                        TTL <- PolicyTTL, Delay <- PolicyDelay, request <- asking
DurableReply     == INSTANCE DurableReply
ShadowUser       == INSTANCE ShadowUser
ConsumerLiveness == INSTANCE ConsumerLiveness WITH Window <- StallWindow
Erasure          == INSTANCE Erasure WITH row <- mirror
RevisionSync     == INSTANCE RevisionSync
WorkspaceDoors   == INSTANCE WorkspaceDoors WITH
                        TTL <- DoorTTL, Delay <- DoorDelay, since <- changed, request <- visit
NetIntel         == INSTANCE NetIntel WITH open <- breaker, left <- kept

Gateway_vars == <<status, overdue, thread, used, runs, log, disturbed, faults>>
Code_vars    == <<record, blocked, issued, checker, accepted, refuted, overlaps>>
StepUp_vars  == <<challenge, grant, token, pin, proof, verifier>>
Policy_vars  == <<disabled, since, cached, left, asking>>
Reply_vars   == <<attempt, call, work, shelf, objects, owed, promised>>
Shadow_vars  == <<account, deletions, tombstone, deactivated, access, refresh,
                  row, request, recorded, late>>
Loop_vars    == <<loop, member, assigned, unassigned, running, polled, probed,
                  fatal, up, beat, apart>>
Erasure_vars == <<mirror, fan, receipted>>
Sync_vars    == <<revision, deleted, locked, pending, client, have>>
Door_vars    == <<door, role, changed, announced, dropped, entry, misread, visit>>
IP_vars      == <<failures, breaker, kept, caller, tripped, asked>>

Services_vars ==
    <<focus, vars, Gateway_vars, Code_vars, StepUp_vars, Policy_vars, Reply_vars,
      Shadow_vars, Loop_vars, Erasure_vars, Sync_vars, Door_vars, IP_vars>>

Components ==
    {"emit", "gateway", "code", "stepup", "policy", "reply", "shadow", "loop",
     "erasure", "sync", "doors", "netintel"}

ServicesInit ==
    /\ focus \in Components
    /\ Gateway!Init /\ OneTimeCode!Init /\ StepUp!Init /\ PolicyCache!Init
    /\ DurableReply!Init /\ ShadowUser!Init /\ ConsumerLiveness!Init /\ Erasure!Init
    /\ Init /\ RevisionSync!Init /\ WorkspaceDoors!Init /\ NetIntel!Init
    /\ focus # "emit"    => mode = "error"
    /\ focus # "sync"    => client.api = "pages" /\ client.include_deleted
    /\ focus # "doors"   => door = "mandate" /\ role = "none"
    /\ focus # "shadow"  => row = "none"
    /\ focus # "loop"    => up = 0
    /\ focus # "erasure" => mirror = "absent"

ServicesNext ==
    \/ /\ focus = "emit" /\ Next
       /\ UNCHANGED <<focus, Gateway_vars, Code_vars, StepUp_vars, Policy_vars, Reply_vars,
                      Shadow_vars, Loop_vars, Erasure_vars, Sync_vars, Door_vars, IP_vars>>
    \/ /\ focus = "gateway" /\ Gateway!Next
       /\ UNCHANGED <<focus, vars, Code_vars, StepUp_vars, Policy_vars, Reply_vars,
                      Shadow_vars, Loop_vars, Erasure_vars, Sync_vars, Door_vars, IP_vars>>
    \/ /\ focus = "code" /\ OneTimeCode!Next
       /\ UNCHANGED <<focus, vars, Gateway_vars, StepUp_vars, Policy_vars, Reply_vars,
                      Shadow_vars, Loop_vars, Erasure_vars, Sync_vars, Door_vars, IP_vars>>
    \/ /\ focus = "stepup" /\ StepUp!Next
       /\ UNCHANGED <<focus, vars, Gateway_vars, Code_vars, Policy_vars, Reply_vars, Shadow_vars,
                      Loop_vars, Erasure_vars, Sync_vars, Door_vars, IP_vars>>
    \/ /\ focus = "policy" /\ PolicyCache!Next
       /\ UNCHANGED <<focus, vars, Gateway_vars, Code_vars, StepUp_vars, Reply_vars, Shadow_vars,
                      Loop_vars, Erasure_vars, Sync_vars, Door_vars, IP_vars>>
    \/ /\ focus = "reply" /\ DurableReply!Next
       /\ UNCHANGED <<focus, vars, Gateway_vars, Code_vars, StepUp_vars, Policy_vars, Shadow_vars,
                      Loop_vars, Erasure_vars, Sync_vars, Door_vars, IP_vars>>
    \/ /\ focus = "shadow" /\ ShadowUser!Next
       /\ UNCHANGED <<focus, vars, Gateway_vars, Code_vars, StepUp_vars, Policy_vars, Reply_vars,
                      Loop_vars, Erasure_vars, Sync_vars, Door_vars, IP_vars>>
    \/ /\ focus = "loop" /\ ConsumerLiveness!Next
       /\ UNCHANGED <<focus, vars, Gateway_vars, Code_vars, StepUp_vars, Policy_vars, Reply_vars,
                      Shadow_vars, Erasure_vars, Sync_vars, Door_vars, IP_vars>>
    \/ /\ focus = "erasure" /\ Erasure!Next
       /\ UNCHANGED <<focus, vars, Gateway_vars, Code_vars, StepUp_vars, Policy_vars, Reply_vars,
                      Shadow_vars, Loop_vars, Sync_vars, Door_vars, IP_vars>>
    \/ /\ focus = "sync" /\ RevisionSync!Next
       /\ UNCHANGED <<focus, vars, Gateway_vars, Code_vars, StepUp_vars, Policy_vars, Reply_vars,
                      Shadow_vars, Loop_vars, Erasure_vars, Door_vars, IP_vars>>
    \/ /\ focus = "doors" /\ WorkspaceDoors!Next
       /\ UNCHANGED <<focus, vars, Gateway_vars, Code_vars, StepUp_vars, Policy_vars, Reply_vars,
                      Shadow_vars, Loop_vars, Erasure_vars, Sync_vars, IP_vars>>
    \/ /\ focus = "netintel" /\ NetIntel!Next
       /\ UNCHANGED <<focus, vars, Gateway_vars, Code_vars, StepUp_vars, Policy_vars, Reply_vars,
                      Shadow_vars, Loop_vars, Erasure_vars, Sync_vars, Door_vars>>

ServicesSpec == ServicesInit /\ [][ServicesNext]_Services_vars

(* Every variable of every component has its type. *)
ServicesTypeOK ==
    /\ TypeOK /\ RevisionSync!TypeOK /\ WorkspaceDoors!TypeOK /\ NetIntel!TypeOK
    /\ Gateway!TypeOK /\ OneTimeCode!TypeOK /\ StepUp!TypeOK /\ PolicyCache!TypeOK
    /\ DurableReply!TypeOK /\ ShadowUser!TypeOK /\ ConsumerLiveness!TypeOK /\ Erasure!TypeOK

(* The properties of the components, as each module states them. *)
RunsOnce        == Gateway!RunsOnce
LogAgrees       == Gateway!LogAgrees
BudgetKept      == OneTimeCode!BudgetKept
ProvenRecently  == StepUp!ProvenRecently
ProtectedInTime == PolicyCache!ProtectedInTime
OwedIsHeard     == DurableReply!OwedIsHeard
DeletionStands  == ShadowUser!DeletionStands
TombstonesTrue  == ShadowUser!TombstonesTrue
WorkSpared      == ConsumerLiveness!WorkSpared
StallFound      == ConsumerLiveness!StallFound
ReceiptEarned   == Erasure!ReceiptEarned
AnsweredOnce    == Erasure!AnsweredOnce
ReaderComplete  == RevisionSync!ReaderComplete
DeletionsHonoured == RevisionSync!DeletionsHonoured
VerdictsStand   == WorkspaceDoors!VerdictsStand
ProviderSpared  == NetIntel!ProviderSpared
SyncComplete    == RevisionSync!SyncComplete
=============================================================================
