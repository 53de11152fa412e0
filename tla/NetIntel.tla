------------------------------- MODULE NetIntel -------------------------------
(***************************************************************************)
(* netintel/__init__.py: classify_ip() in the threads of one process, with *)
(* its cache of profiles per address and the circuit breaker in front of   *)
(* the provider. Each error on the way - of the provider or of the cache - *)
(* counts against the provider, whose breaker opens at the Threshold-th in *)
(* a row; any success closes it and forgets them. Once the time is up the  *)
(* count stands, so that the next failure opens it again.                  *)
(*                                                                         *)
(* Profiles are left out: a cache entry is the seconds it has left.        *)
(***************************************************************************)
EXTENDS Naturals, FiniteSets

CONSTANTS
    Threads, Addresses,
    Threshold,       \* _BREAKER_THRESHOLD
    CacheTTL,        \* CACHE_TTL
    NegativeTTL      \* NEGATIVE_CACHE_TTL

VARIABLES
    failures,        \* recorded since the last success
    open,            \* seconds the breaker stays open, 0 when it is closed
    left,            \* seconds each address's cache entry has left
    caller,          \* where each thread is, and for which address
    tripped,         \* the breaker has opened since the last success
    asked            \* calls of the provider since then, or since it last opened

vars == <<failures, open, left, caller, tripped, asked>>

Window == IF NegativeTTL > 1 THEN NegativeTTL ELSE 1
Most   == Threshold + Cardinality(Threads)
Places == {"idle", "missed", "calling", "succeeded", "failed", "counted"}

TypeOK ==
    /\ failures \in 0 .. Most
    /\ open \in 0 .. Window
    /\ left \in [Addresses -> 0 .. CacheTTL + NegativeTTL]
    /\ caller \in [Threads -> [at : Places, ip : Addresses]]
    /\ tripped \in BOOLEAN
    /\ asked \in 0 .. Most

Init ==
    /\ failures = 0
    /\ open = 0
    /\ left = [a \in Addresses |-> 0]
    /\ caller = [t \in Threads |-> [at |-> "idle", ip |-> CHOOSE a \in Addresses : TRUE]]
    /\ tripped = FALSE
    /\ asked = 0

Goes(t, place) == caller' = [caller EXCEPT ![t].at = place]

-----------------------------------------------------------------------------
(* cache.get(): an address that is found is answered at once. *)
Miss(t, a) ==
    /\ caller[t].at = "idle"
    /\ left[a] = 0
    /\ caller' = [caller EXCEPT ![t] = [at |-> "missed", ip |-> a]]
    /\ UNCHANGED <<failures, open, left, tripped, asked>>

CacheRaises(t, a) ==
    /\ caller[t].at = "idle"
    /\ caller' = [caller EXCEPT ![t] = [at |-> "failed", ip |-> a]]
    /\ UNCHANGED <<failures, open, left, tripped, asked>>

(* _breaker_is_open() *)
Skip(t) ==
    /\ caller[t].at = "missed"
    /\ open > 0
    /\ Goes(t, "idle")
    /\ UNCHANGED <<failures, open, left, tripped, asked>>

(* Mutant: a breaker whose time is up starts to count anew. *)
ClassifyAnew(t) ==
    /\ caller[t].at = "missed"
    /\ open = 0
    /\ failures' = IF failures >= Threshold THEN 0 ELSE failures
    /\ asked' = asked + 1
    /\ Goes(t, "calling")
    /\ UNCHANGED <<open, left, tripped>>

Classify(t) ==
    /\ caller[t].at = "missed"
    /\ open = 0
    /\ asked' = asked + 1
    /\ Goes(t, "calling")
    /\ UNCHANGED <<failures, open, left, tripped>>

(* _breaker_record_success(), also of a call that began before it opened. *)
RecordSuccess(t) ==
    /\ caller[t].at = "calling"
    /\ failures' = 0
    /\ open' = 0
    /\ tripped' = FALSE
    /\ asked' = 0
    /\ Goes(t, "succeeded")
    /\ UNCHANGED left

StoreProfile(t) ==
    /\ caller[t].at = "succeeded"
    /\ left' = [left EXCEPT ![caller[t].ip] = CacheTTL]
    /\ Goes(t, "idle")
    /\ UNCHANGED <<failures, open, tripped, asked>>

(* The provider raises, or the cache does when the profile is stored. *)
Raise(t) ==
    /\ caller[t].at \in {"calling", "succeeded"}
    /\ Goes(t, "failed")
    /\ UNCHANGED <<failures, open, left, tripped, asked>>

(* _breaker_record_failure(), under its lock. The count goes on where no   *)
(* one tells it from Threshold.                                            *)
RecordFailure(t) ==
    /\ caller[t].at = "failed"
    /\ failures' = IF failures < Threshold THEN failures + 1 ELSE failures
    /\ IF failures' >= Threshold
       THEN open' = Window /\ tripped' = TRUE /\ asked' = 0
       ELSE UNCHANGED <<open, tripped, asked>>
    /\ Goes(t, "counted")
    /\ UNCHANGED left

(* The unknown profile is remembered for the address, if the cache can. *)
StoreUnknown(t) ==
    /\ caller[t].at = "counted"
    /\ \/ NegativeTTL > 0 /\ left' = [left EXCEPT ![caller[t].ip] = NegativeTTL]
       \/ UNCHANGED left
    /\ Goes(t, "idle")
    /\ UNCHANGED <<failures, open, tripped, asked>>

Left(n) == IF n > 0 THEN n - 1 ELSE 0

Tick ==
    /\ open' = Left(open)
    /\ left' = [a \in Addresses |-> Left(left[a])]
    /\ UNCHANGED <<failures, caller, tripped, asked>>

Next ==
    \/ Tick
    \/ \E t \in Threads :
          \/ \E a \in Addresses : Miss(t, a) \/ CacheRaises(t, a)
          \/ Skip(t) \/ Classify(t) \/ RecordSuccess(t) \/ StoreProfile(t)
          \/ Raise(t) \/ RecordFailure(t) \/ StoreUnknown(t)

Spec == Init /\ [][Next]_vars

-----------------------------------------------------------------------------
(* "A single unhealthy provider cannot pile every request onto it"         *)
(* (netintel/__init__.py:51): from one success on a provider is asked no   *)
(* more than Threshold - 1 times and once by each thread before it is left *)
(* alone, and from then on once by each thread per window.                 *)
ProviderSpared ==
    asked <= Cardinality(Threads) + IF tripped THEN 0 ELSE Threshold - 1
=============================================================================
