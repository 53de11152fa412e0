---------------------------- MODULE AtLeastOnce ----------------------------
(***************************************************************************)
(* What the transactional outbox promises its callers, and nothing of how: *)
(* an event exists once its transaction committed, subscribers only ever   *)
(* receive events that exist, an event is written off ("settled") only     *)
(* when it has been received, and every event is received eventually.      *)
(* An event may be received any number of times.                           *)
(***************************************************************************)
EXTENDS FiniteSets

CONSTANT Events                     \* the events that may ever be emitted

VARIABLES stored,                   \* events whose transaction committed
          delivered,                \* events the subscribers received
          settled                   \* events nobody will deliver again

vars == <<stored, delivered, settled>>

Init ==
    /\ stored = {}
    /\ delivered = {}
    /\ settled = {}

(* A transaction commits with the events it wrote. *)
Publish(S) ==
    /\ stored' = stored \cup S
    /\ UNCHANGED <<delivered, settled>>

(* Subscribers receive D and the events W are written off, in one step:    *)
(* a relay whose subscribers write to the same database commits both       *)
(* together.                                                               *)
Progress(D, W) ==
    /\ D \subseteq stored
    /\ W \subseteq delivered \cup D
    /\ delivered' = delivered \cup D
    /\ settled' = settled \cup W
    /\ UNCHANGED stored

Next ==
    \/ \E S \in SUBSET Events : Publish(S)
    \/ \E D, W \in SUBSET Events : Progress(D, W)

Safety == Init /\ [][Next]_vars

(* Every stored event is received. *)
Delivery == \A e \in Events : (e \in stored) ~> (e \in delivered)

Spec == Safety /\ Delivery
=============================================================================
