----------------------------- MODULE PolicyCache -----------------------------
(***************************************************************************)
(* verification/policy.py: whether a user switched the protection of a     *)
(* scope off is stored by the auth service and cached, for TTL seconds, in *)
(* each service that enforces it. A request that misses the cache asks the *)
(* auth service and stores the answer; invalidate_policy_cache() reaches   *)
(* this service's cache only where the writer runs here.                   *)
(*                                                                         *)
(* The key is modelled by the seconds it has left. A request is done with  *)
(* its call, and with storing the answer, in Delay seconds.                *)
(***************************************************************************)
EXTENDS Naturals

CONSTANTS
    Requests,
    TTL,             \* POLICY_CACHE_TTL
    Delay            \* longest time from the answer to its being stored

VARIABLES
    disabled,        \* the user's preference, at the auth service
    since,           \* seconds since it last changed
    cached,          \* the cached policy: disabled or not
    left,            \* seconds the key has left
    request          \* what each request is doing, and for how long

vars == <<disabled, since, cached, left, request>>

LongAgo == TTL + Delay + 1
Idle    == [at |-> "idle", answer |-> FALSE, age |-> 0]

TypeOK ==
    /\ disabled \in BOOLEAN
    /\ since \in 0 .. LongAgo
    /\ cached \in BOOLEAN
    /\ left \in 0 .. TTL
    /\ request \in [Requests -> [at : {"idle", "calling", "answered"},
                                 answer : BOOLEAN, age : 0 .. Delay]]

Init ==
    /\ disabled = FALSE
    /\ since = LongAgo
    /\ cached = FALSE
    /\ left = 0
    /\ request = [r \in Requests |-> Idle]

(* The user changes the preference. *)
Change ==
    /\ disabled' = ~disabled
    /\ since' = 0
    /\ UNCHANGED <<cached, left, request>>

(* The key is gone, and the request calls the auth service ... (One that   *)
(* finds the key is decided by it and changes nothing.)                    *)
Miss(r) ==
    /\ request[r].at = "idle"
    /\ left = 0
    /\ request' = [request EXCEPT ![r].at = "calling"]
    /\ UNCHANGED <<disabled, since, cached, left>>

(* ... which reads the preference ... *)
Answer(r) ==
    /\ request[r].at = "calling"
    /\ request' = [request EXCEPT ![r] = [at |-> "answered", answer |-> disabled, age |-> 0]]
    /\ UNCHANGED <<disabled, since, cached, left>>

(* Mutant: the last answer known is served, and kept, while the service is *)
(* away.                                                                   *)
UnavailableStale(r) ==
    /\ request[r].at = "calling"
    /\ left' = TTL
    /\ request' = [request EXCEPT ![r] = Idle]
    /\ UNCHANGED <<disabled, since, cached>>

(* ... or cannot be reached: nothing is cached, and the request takes the  *)
(* safe side of its level.                                                 *)
Unavailable(r) ==
    /\ request[r].at = "calling"
    /\ request' = [request EXCEPT ![r] = Idle]
    /\ UNCHANGED <<disabled, since, cached, left>>

(* The answer is cached, also when the cache was invalidated meanwhile, and *)
(* decides the request.                                                     *)
Store(r) ==
    /\ request[r].at = "answered"
    /\ cached' = request[r].answer
    /\ left' = TTL
    /\ request' = [request EXCEPT ![r] = Idle]
    /\ UNCHANGED <<disabled, since>>

(* invalidate_policy_cache(), in this service. *)
Invalidate ==
    /\ left > 0
    /\ left' = 0
    /\ UNCHANGED <<disabled, since, cached, request>>

Tick ==
    /\ \A r \in Requests : request[r].at = "answered" => request[r].age < Delay
    /\ since' = IF since < LongAgo THEN since + 1 ELSE since
    /\ left' = IF left > 0 THEN left - 1 ELSE 0
    /\ request' = [r \in Requests |->
           IF request[r].at = "answered" THEN [request[r] EXCEPT !.age = @ + 1] ELSE request[r]]
    /\ UNCHANGED <<disabled, cached>>

Next ==
    \/ Change \/ Invalidate \/ Tick
    \/ \E r \in Requests : Miss(r) \/ Answer(r) \/ Unavailable(r) \/ Store(r)

Spec == Init /\ [][Next]_vars

-----------------------------------------------------------------------------
(* "A user who turns a scope ON can be unprotected in a peer for up to     *)
(* that window" (policy.py:101): what decides a request, cached or just    *)
(* answered, is the preference of no more than TTL and Delay seconds ago,  *)
(* also when an answer is stored over an invalidation.                     *)
ProtectedInTime ==
    since >= TTL + Delay =>
        /\ left > 0 => cached = disabled
        /\ \A r \in Requests : request[r].at = "answered" => request[r].answer = disabled
=============================================================================
