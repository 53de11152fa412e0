------------------------------ MODULE Consumer ------------------------------
(***************************************************************************)
(* The consume loops of bus/backends: one consumer group over one topic,   *)
(* read through Kafka (one partition), NATS JetStream or Redis Streams.    *)
(*                                                                         *)
(* The three loops promise the same thing - acknowledge only what was      *)
(* handled, or confirmed in the dead-letter topic - and acknowledge        *)
(* differently: Kafka commits an offset, which covers every message below  *)
(* it, NATS and Redis acknowledge one message, and deliver it again when   *)
(* the acknowledgement does not come in time.                              *)
(*                                                                         *)
(* A message that a handler refuses as unprocessable counts as handled:    *)
(* the loop cannot tell.                                                   *)
(***************************************************************************)
EXTENDS Naturals, FiniteSets

CONSTANTS
    Workers,       \* the processes of the group
    Count,         \* bound: messages ever published to the topic
    Backends,      \* the backends a behaviour may run on
    Undecodable,   \* messages Event.from_bytes refuses
    Broken,        \* messages every handler attempt fails on
    Batch,         \* messages per fetch of NATS and Redis
    MaxFaults,     \* bound: crashes, and rebalances away from a live worker
    NoWorker

Messages == 1 .. Count

ASSUME ConsumerAssumption ==
    /\ Count \in Nat
    /\ Backends \subseteq {"kafka", "nats", "redis"}
    /\ Undecodable \subseteq Messages
    /\ Broken \subseteq Messages
    /\ Batch \in Nat \ {0}
    /\ MaxFaults \in Nat
    /\ NoWorker \notin Workers

VARIABLES
    backend,       \* the configured backend
    log,           \* messages published so far: 1 .. log
    acked,         \* messages the group will not be given again
    taken,         \* messages delivered, whose redelivery is not due yet
    owner,         \* Kafka: the worker the partition is assigned to
    position,      \* Kafka: the last offset the owner polled
    holds,         \* fetched messages each worker has still to handle
    cur,           \* the message each worker is at, 0 if none
    phase,         \* where it is with it
    handled,       \* messages some handler call succeeded on
    recorded,      \* messages record_parked counted as given up
    dlq,           \* messages in the dead-letter topic
    queued,        \* Kafka: dead letters in each worker's producer queue
    faults

brokerVars == <<backend, log, acked, taken, owner, position>>
workVars   == <<holds, cur, phase>>
fateVars   == <<handled, recorded, dlq, queued>>
vars == <<brokerVars, workVars, fateVars, faults>>

TypeOK ==
    /\ backend \in Backends
    /\ log \in 0 .. Count
    /\ acked \subseteq 1 .. log
    /\ taken \subseteq (1 .. log) \ acked
    /\ owner \in Workers \cup {NoWorker}
    /\ position \in 0 .. log
    /\ holds \in [Workers -> SUBSET (1 .. log)]
    /\ cur \in [Workers -> 0 .. log]
    /\ phase \in [Workers -> {"idle", "handling", "parking", "acking"}]
    /\ handled \subseteq Messages \ Undecodable
    /\ recorded \subseteq Messages
    /\ dlq \subseteq recorded
    /\ queued \in [Workers -> SUBSET recorded]
    /\ faults \in 0 .. MaxFaults

Init ==
    /\ backend \in Backends
    /\ log = 0
    /\ acked = {}
    /\ taken = {}
    /\ owner = NoWorker
    /\ position = 0
    /\ holds = [w \in Workers |-> {}]
    /\ cur = [w \in Workers |-> 0]
    /\ phase = [w \in Workers |-> "idle"]
    /\ handled = {}
    /\ recorded = {}
    /\ dlq = {}
    /\ queued = [w \in Workers |-> {}]
    /\ faults = 0

-----------------------------------------------------------------------------
(* The broker *)

(* A producer appends to the topic. *)
Publish ==
    /\ log < Count
    /\ log' = log + 1
    /\ UNCHANGED <<backend, acked, taken, owner, position, workVars, fateVars, faults>>

(* Mutant: the consumer resumes after what it polled last, not after what  *)
(* the group committed.                                                    *)
AssignAfterPolled(w) ==
    /\ backend = "kafka"
    /\ owner # w
    /\ phase[w] = "idle"
    /\ IF owner = NoWorker THEN faults' = faults
                           ELSE faults < MaxFaults /\ faults' = faults + 1
    /\ owner' = w
    /\ UNCHANGED <<backend, log, acked, taken, position, workVars, fateVars>>

(* Kafka assigns the partition to w, in w's poll(): it resumes after the   *)
(* last committed offset.  The owner it had, if any, is not told while it  *)
(* is in a handler.                                                        *)
Assign(w) ==
    /\ backend = "kafka"
    /\ owner # w
    /\ phase[w] = "idle"
    /\ IF owner = NoWorker THEN faults' = faults
                           ELSE faults < MaxFaults /\ faults' = faults + 1
    /\ owner' = w
    /\ position' = Cardinality(acked)
    /\ UNCHANGED <<backend, log, acked, taken, workVars, fateVars>>

(* The acknowledgement of m is overdue - ack_wait, the delay of a nak, or  *)
(* the idle time of XAUTOCLAIM passed - whoever is still busy with m.      *)
Expire(m) ==
    /\ m \in taken
    /\ taken' = taken \ {m}
    /\ UNCHANGED <<backend, log, acked, owner, position, workVars, fateVars, faults>>

(* The delivery report of a dead letter: stored, or an error, logged only. *)
Report(w, m) ==
    /\ m \in queued[w]
    /\ queued' = [queued EXCEPT ![w] = @ \ {m}]
    /\ dlq' \in {dlq, dlq \cup {m}}
    /\ UNCHANGED <<brokerVars, workVars, handled, recorded, faults>>

-----------------------------------------------------------------------------
(* The loop *)

(* m enters the loop: an undecodable message is given up at once.          *)
Enter(w, m) ==
    /\ cur' = [cur EXCEPT ![w] = m]
    /\ phase' = [phase EXCEPT ![w] = IF m \in Undecodable THEN "parking" ELSE "handling"]
    /\ recorded' = IF m \in Undecodable THEN recorded \cup {m} ELSE recorded

(* Kafka: poll() returns the next message of the partition. *)
Poll(w) ==
    /\ owner = w
    /\ phase[w] = "idle"
    /\ position < log
    /\ position' = position + 1
    /\ Enter(w, position + 1)
    /\ UNCHANGED <<backend, log, acked, taken, owner, holds, handled, dlq, queued, faults>>

(* NATS: fetch; Redis: XAUTOCLAIM, then XREADGROUP.  New messages and      *)
(* overdue ones, of a dead worker or of a slow one.                        *)
Fetch(w, S) ==
    /\ backend # "kafka"
    /\ phase[w] = "idle"
    /\ holds[w] = {}
    /\ S # {}
    /\ S \subseteq (1 .. log) \ (acked \cup taken)
    /\ Cardinality(S) <= Batch
    /\ holds' = [holds EXCEPT ![w] = S]
    /\ taken' = taken \cup S
    /\ UNCHANGED <<backend, log, acked, owner, position, cur, phase, fateVars, faults>>

(* Nothing to read: poll() or fetch timed out. *)
Idle(w) ==
    /\ phase[w] = "idle"
    /\ holds[w] = {}
    /\ IF backend = "kafka" THEN owner # w \/ position = log
                            ELSE 1 .. log \subseteq acked \cup taken
    /\ UNCHANGED vars

(* The messages of a fetch are handled one after the other. *)
Begin(w) ==
    /\ phase[w] = "idle"
    /\ \E m \in holds[w] :
          /\ \A n \in holds[w] : m <= n
          /\ holds' = [holds EXCEPT ![w] = @ \ {m}]
          /\ Enter(w, m)
    /\ UNCHANGED <<brokerVars, handled, dlq, queued, faults>>

(* An attempt of the ladder succeeded. *)
HandlerDone(w) ==
    /\ phase[w] = "handling"
    /\ cur[w] \notin Broken
    /\ handled' = handled \cup {cur[w]}
    /\ phase' = [phase EXCEPT ![w] = "acking"]
    /\ UNCHANGED <<brokerVars, holds, cur, recorded, dlq, queued, faults>>

(* Mutant: the loop parks without record_parked. *)
GiveUpUnrecorded(w) ==
    /\ phase[w] = "handling"
    /\ phase' = [phase EXCEPT ![w] = "parking"]
    /\ UNCHANGED <<brokerVars, holds, cur, fateVars, faults>>

(* Every attempt of the ladder failed; record_parked counts the message.   *)
GiveUp(w) ==
    /\ phase[w] = "handling"
    /\ phase' = [phase EXCEPT ![w] = "parking"]
    /\ recorded' = recorded \cup {cur[w]}
    /\ UNCHANGED <<brokerVars, holds, cur, handled, dlq, queued, faults>>

Leave(w) ==
    /\ cur' = [cur EXCEPT ![w] = 0]
    /\ phase' = [phase EXCEPT ![w] = "idle"]

(* The publication to the dead-letter topic returned; Kafka's producer has *)
(* only queued the message.                                                *)
Park(w) ==
    /\ phase[w] = "parking"
    /\ IF backend = "kafka"
         THEN /\ queued' = [queued EXCEPT ![w] = @ \cup {cur[w]}]
              /\ UNCHANGED dlq
         ELSE /\ dlq' = dlq \cup {cur[w]}
              /\ UNCHANGED queued
    /\ phase' = [phase EXCEPT ![w] = "acking"]
    /\ UNCHANGED <<brokerVars, holds, cur, handled, recorded, faults>>

(* Mutant: the result of the publication is not looked at. *)
ParkFailsAcked(w) ==
    /\ phase[w] = "parking"
    /\ phase' = [phase EXCEPT ![w] = "acking"]
    /\ UNCHANGED <<brokerVars, holds, cur, fateVars, faults>>

(* It raised, perhaps after the broker stored the message: no              *)
(* acknowledgement, and the loop goes on with the next message.            *)
ParkFails(w) ==
    /\ phase[w] = "parking"
    /\ Leave(w)
    /\ dlq' \in {dlq} \cup {dlq \cup {cur[w]} : b \in {backend} \ {"kafka"}}
    /\ UNCHANGED <<brokerVars, holds, handled, recorded, queued, faults>>

(* Mutant: a commit of a worker that lost the partition is accepted.       *)
AckUnfenced(w) ==
    /\ phase[w] = "acking"
    /\ acked' = IF backend = "kafka" THEN 1 .. cur[w] ELSE acked \cup {cur[w]}
    /\ taken' = taken \ {cur[w]}
    /\ Leave(w)
    /\ UNCHANGED <<backend, log, owner, position, holds, fateVars, faults>>

(* Kafka commits the offset, all messages up to cur, unless the partition  *)
(* is another's meanwhile; NATS and Redis acknowledge the message.         *)
Ack(w) ==
    /\ phase[w] = "acking"
    /\ acked' = IF backend # "kafka" THEN acked \cup {cur[w]}
                ELSE IF owner = w THEN 1 .. cur[w] ELSE acked
    /\ taken' = taken \ {cur[w]}
    /\ Leave(w)
    /\ UNCHANGED <<backend, log, owner, position, holds, fateVars, faults>>

(* The process dies; what it had fetched and what its producer had queued  *)
(* is gone.  A call to the broker that raises ends it likewise.            *)
Crash(w) ==
    /\ faults < MaxFaults
    /\ faults' = faults + 1
    /\ owner' = IF owner = w THEN NoWorker ELSE owner
    /\ holds' = [holds EXCEPT ![w] = {}]
    /\ queued' = [queued EXCEPT ![w] = {}]
    /\ Leave(w)
    /\ UNCHANGED <<backend, log, acked, taken, position, handled, recorded, dlq>>

-----------------------------------------------------------------------------
Handle(w) ==
    \/ Poll(w)
    \/ \E S \in SUBSET (1 .. log) : Fetch(w, S)
    \/ Idle(w)
    \/ Begin(w)
    \/ HandlerDone(w)
    \/ GiveUp(w)
    \/ Park(w)
    \/ ParkFails(w)
    \/ Ack(w)

Next ==
    \/ Publish
    \/ \E w \in Workers : Assign(w) \/ Handle(w) \/ Crash(w)
    \/ \E w \in Workers, m \in Messages : Report(w, m)
    \/ \E m \in Messages : Expire(m)

Spec == Init /\ [][Next]_vars

(* Workers run and are restarted, brokers redeliver what is overdue, and   *)
(* the dead-letter topic cannot refuse every attempt.                      *)
Fairness ==
    /\ WF_vars(\E w \in Workers : Assign(w) /\ owner = NoWorker)
    /\ \A w \in Workers : WF_vars(Handle(w)) /\ SF_vars(Park(w))
    /\ \A m \in Messages : WF_vars(Expire(m))

FairSpec == Spec /\ Fairness

-----------------------------------------------------------------------------
(* Properties *)

(* Nothing the group is past disappears without a trace: a handler         *)
(* succeeded on it, or the bus_dlq_total metric counted it - also a        *)
(* message that a later commit of its partition covers.                    *)
NothingLostUnrecorded == acked \subseteq handled \cup recorded

(* An acknowledged message stays so: a worker that lost the partition      *)
(* while it handled a message does not move the committed offset back.     *)
NeverRewound == [][acked \subseteq acked']_vars

(* The loops implement at-least-once delivery: what the group is past was  *)
(* handled or is in the dead-letter topic.  Kafka's commits promise less   *)
(* (NothingLostUnrecorded): there, only handled messages count as settled. *)
Promise == INSTANCE AtLeastOnce WITH
    Events    <- Messages,
    stored    <- 1 .. log,
    delivered <- handled \cup dlq,
    settled   <- IF backend = "kafka" THEN acked \cap handled ELSE acked
ImplementsAtLeastOnce == Promise!Safety

(* Every message is handled, or ends up in the dead-letter topic; on       *)
(* Kafka, or is counted as given up.                                       *)
EveryMessageMet ==
    \A m \in Messages :
        (m <= log) ~> \/ m \in handled \cup dlq
                      \/ backend = "kafka" /\ m \in recorded

(* "Commit only when the message was handled or confirmed in the DLQ -     *)
(* otherwise the offset would advance past a message that exists nowhere   *)
(* else" (bus/backends/kafka.py).                                          *)
NothingLost ==
    acked \subseteq handled \cup dlq \cup UNION {queued[w] : w \in Workers}
=============================================================================
