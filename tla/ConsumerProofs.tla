----------------------------- MODULE ConsumerProofs -----------------------------
(***************************************************************************)
(* Theorems about Consumer, for any workers, any topic, any messages that  *)
(* cannot be decoded or handled, any batch size and number of faults.      *)
(***************************************************************************)
EXTENDS Consumer, FiniteSetTheorems, TLAPS

Shapes ==
    /\ backend \in Backends
    /\ log \in 0 .. Count
    /\ acked \subseteq 1 .. log
    /\ taken \subseteq (1 .. log) \ acked
    /\ backend = "kafka" => taken = {} /\ \A w \in Workers : holds[w] = {}
    /\ owner \in Workers \cup {NoWorker}
    /\ position \in 0 .. log
    /\ holds \in [Workers -> SUBSET (1 .. log)]
    /\ cur \in [Workers -> 0 .. log]
    /\ phase \in [Workers -> {"idle", "handling", "parking", "acking"}]
    /\ handled \subseteq (1 .. log) \ Undecodable
    /\ recorded \subseteq 1 .. log
    /\ dlq \subseteq recorded
    /\ queued \in [Workers -> SUBSET recorded]
    /\ faults \in 0 .. MaxFaults

Met(m) == m \in handled \cup recorded

(* Where a worker is with its message, the message's fate is known.        *)
WorkInv ==
    \A w \in Workers :
        /\ phase[w] # "idle" => cur[w] \in 1 .. log
        /\ phase[w] = "handling" => cur[w] \notin Undecodable
        /\ phase[w] = "parking" => cur[w] \in recorded
        /\ phase[w] = "acking" => Met(cur[w])
        /\ phase[w] = "acking" /\ backend # "kafka" => cur[w] \in handled \cup dlq

(* Kafka: the committed offset is a prefix the owner is past, and the      *)
(* owner met everything up to its position, but for what it is handling.   *)
OffsetInv ==
    backend = "kafka" =>
        /\ \E n \in 0 .. position : acked = 1 .. n
        /\ owner \in Workers /\ phase[owner] # "idle" => cur[owner] = position
        /\ owner \in Workers =>
              \A m \in 1 .. position :
                  Met(m) \/ (phase[owner] = "handling" /\ m = position)

AckInv ==
    /\ \A m \in acked : Met(m)
    /\ backend # "kafka" => acked \subseteq handled \cup dlq

Inv == Shapes /\ WorkInv /\ OffsetInv /\ AckInv
-----------------------------------------------------------------------------
LEMMA InvInit == Init => Inv
<1> SUFFICES ASSUME Init PROVE Inv
  OBVIOUS
<1> USE ConsumerAssumption DEF Init
<1>1. Shapes
  <2>1. /\ holds \in [Workers -> SUBSET (1 .. log)] /\ queued \in [Workers -> SUBSET recorded]
        /\ phase \in [Workers -> {"idle", "handling", "parking", "acking"}]
    BY Zenon
  <2>2. 0 \in 0 .. log
    OBVIOUS
  <2>3. cur \in [Workers -> 0 .. log]
    BY <2>2, Zenon
  <2>4. log \in 0 .. Count /\ position \in 0 .. log /\ faults \in 0 .. MaxFaults
    OBVIOUS
  <2>5. /\ backend \in Backends /\ acked = {} /\ taken = {} /\ owner = NoWorker
        /\ handled = {} /\ recorded = {} /\ dlq = {}
    OBVIOUS
  <2> QED
    BY <2>1, <2>3, <2>4, <2>5, Zenon DEF Shapes
<1>2. WorkInv
  BY DEF WorkInv
<1>3. OffsetInv
  <2>1. acked = 1 .. 0 /\ 0 \in 0 .. position /\ owner \notin Workers
    OBVIOUS
  <2> QED
    BY <2>1 DEF OffsetInv
<1>4. AckInv
  BY DEF AckInv
<1> QED
  BY <1>1, <1>2, <1>3, <1>4 DEF Inv

LEMMA PublishStep ==
    ASSUME Inv, Publish
    PROVE  Inv'
<1> USE ConsumerAssumption DEF Inv, Publish, brokerVars, workVars, fateVars, Messages
<1>1. Shapes'
  BY DEF Shapes
<1>2. WorkInv'
  BY DEF Shapes, WorkInv, Met
<1>3. OffsetInv'
  BY DEF Shapes, WorkInv, OffsetInv, Met
<1>4. AckInv'
  BY DEF Shapes, WorkInv, AckInv, Met
<1> QED
  BY <1>1, <1>2, <1>3, <1>4

LEMMA AssignStep ==
    ASSUME Inv, NEW w \in Workers, Assign(w)
    PROVE  Inv'
<1> USE ConsumerAssumption DEF Inv, Assign, brokerVars, workVars, fateVars, Messages
<1>0. PICK n \in 0 .. position : backend = "kafka" => acked = 1 .. n
  <2>1. 0 \in 0 .. position
    BY DEF Shapes
  <2> QED
    BY <2>1 DEF OffsetInv
<1>n. n \in Nat /\ Cardinality(1 .. n) = n
  <2>1. n \in Nat
    BY <1>0 DEF Shapes
  <2>2. Cardinality(1 .. n) = IF 1 > n THEN 0 ELSE n - 1 + 1
    BY <2>1, FS_Interval
  <2> QED
    BY <2>1, <2>2
<1>p. position' = n /\ acked = 1 .. n /\ n \in 0 .. log
  BY <1>0, <1>n DEF Shapes
<1>1. Shapes'
  <2>1. faults' \in 0 .. MaxFaults /\ owner' \in Workers
    BY DEF Shapes
  <2>2. position' \in 0 .. log
    BY <1>p
  <2> QED
    BY <2>1, <2>2 DEF Shapes
<1>2. WorkInv'
  BY DEF Shapes, WorkInv, Met
<1>3. OffsetInv'
  <2>1. \A m \in 1 .. n : Met(m)
    BY <1>p DEF AckInv
  <2>2. phase'[w] = "idle" /\ owner' = w
    OBVIOUS
  <2>3. n \in 0 .. position' /\ acked' = 1 .. n
    BY <1>n, <1>p
  <2> QED
    BY <1>p, <2>1, <2>2, <2>3 DEF OffsetInv, Met
<1>4. AckInv'
  BY DEF Shapes, WorkInv, AckInv, Met
<1> QED
  BY <1>1, <1>2, <1>3, <1>4

LEMMA ExpireStep ==
    ASSUME Inv, NEW m \in Messages, Expire(m)
    PROVE  Inv'
<1> USE ConsumerAssumption DEF Inv, Expire, brokerVars, workVars, fateVars, Messages
<1>1. Shapes'
  BY DEF Shapes
<1>2. WorkInv'
  BY DEF Shapes, WorkInv, Met
<1>3. OffsetInv'
  BY DEF Shapes, WorkInv, OffsetInv, Met
<1>4. AckInv'
  BY DEF Shapes, WorkInv, AckInv, Met
<1> QED
  BY <1>1, <1>2, <1>3, <1>4

LEMMA ReportStep ==
    ASSUME Inv, NEW w \in Workers, NEW m \in Messages, Report(w, m)
    PROVE  Inv'
<1> USE ConsumerAssumption DEF Inv, Report, brokerVars, workVars, fateVars, Messages
<1>1. Shapes'
  BY DEF Shapes
<1>2. WorkInv'
  BY DEF Shapes, WorkInv, Met
<1>3. OffsetInv'
  BY DEF Shapes, WorkInv, OffsetInv, Met
<1>4. AckInv'
  BY DEF Shapes, WorkInv, AckInv, Met
<1> QED
  BY <1>1, <1>2, <1>3, <1>4

LEMMA PollStep ==
    ASSUME Inv, NEW w \in Workers, Poll(w)
    PROVE  Inv'
<1> USE ConsumerAssumption DEF Inv, Poll, brokerVars, workVars, fateVars, Messages, Enter
<1>1. Shapes'
  BY DEF Shapes
<1>2. WorkInv'
  BY DEF Shapes, WorkInv, Met
<1>3. OffsetInv'
  BY DEF Shapes, WorkInv, OffsetInv, Met
<1>4. AckInv'
  BY DEF Shapes, WorkInv, AckInv, Met
<1> QED
  BY <1>1, <1>2, <1>3, <1>4

LEMMA FetchStep ==
    ASSUME Inv, NEW w \in Workers, NEW S \in SUBSET (1 .. log), Fetch(w, S)
    PROVE  Inv'
<1> USE ConsumerAssumption DEF Inv, Fetch, brokerVars, workVars, fateVars, Messages
<1>1. Shapes'
  BY DEF Shapes
<1>2. WorkInv'
  BY DEF Shapes, WorkInv, Met
<1>3. OffsetInv'
  BY DEF Shapes, WorkInv, OffsetInv, Met
<1>4. AckInv'
  BY DEF Shapes, WorkInv, AckInv, Met
<1> QED
  BY <1>1, <1>2, <1>3, <1>4

LEMMA BeginStep ==
    ASSUME Inv, NEW w \in Workers, Begin(w)
    PROVE  Inv'
<1> USE ConsumerAssumption DEF Inv, Begin, brokerVars, workVars, fateVars, Messages, Enter
<1>1. Shapes'
  BY DEF Shapes
<1>2. WorkInv'
  BY DEF Shapes, WorkInv, Met
<1>3. OffsetInv'
  <2>1. CASE backend = "kafka"
    <3>1. holds[w] = {}
      BY <2>1 DEF Shapes
    <3>2. PICK m \in holds[w] : \A n \in holds[w] : m <= n
      BY Zenon
    <3> QED
      BY <3>1, <3>2
  <2>2. CASE backend # "kafka"
    BY <2>2 DEF OffsetInv
  <2> QED
    BY <2>1, <2>2
<1>4. AckInv'
  BY DEF Shapes, WorkInv, AckInv, Met
<1> QED
  BY <1>1, <1>2, <1>3, <1>4

LEMMA HandlerDoneStep ==
    ASSUME Inv, NEW w \in Workers, HandlerDone(w)
    PROVE  Inv'
<1> USE ConsumerAssumption DEF Inv, HandlerDone, brokerVars, workVars, fateVars, Messages
<1>1. Shapes'
  <2>1. phase' \in [Workers -> {"idle", "handling", "parking", "acking"}]
    BY DEF Shapes
  <2>2. handled' \subseteq (1 .. log) \ Undecodable
    BY DEF Shapes, WorkInv
  <2>3. UNCHANGED <<backend, log, acked, taken, owner, position, holds, cur, recorded,
                    dlq, queued, faults>>
    OBVIOUS
  <2> QED
    BY <2>1, <2>2, <2>3 DEF Shapes
<1>2. WorkInv'
  BY DEF Shapes, WorkInv, Met
<1>3. OffsetInv'
  BY DEF Shapes, WorkInv, OffsetInv, Met
<1>4. AckInv'
  BY DEF Shapes, WorkInv, AckInv, Met
<1> QED
  BY <1>1, <1>2, <1>3, <1>4

LEMMA GiveUpStep ==
    ASSUME Inv, NEW w \in Workers, GiveUp(w)
    PROVE  Inv'
<1> USE ConsumerAssumption DEF Inv, GiveUp, brokerVars, workVars, fateVars, Messages
<1>1. Shapes'
  <2>1. phase' \in [Workers -> {"idle", "handling", "parking", "acking"}]
    BY DEF Shapes
  <2>2. recorded' \subseteq 1 .. log /\ recorded \subseteq recorded'
    BY DEF Shapes, WorkInv
  <2>3. queued' \in [Workers -> SUBSET recorded']
    BY <2>2 DEF Shapes
  <2>4. UNCHANGED <<backend, log, acked, taken, owner, position, holds, cur, handled,
                    dlq, faults>>
    OBVIOUS
  <2> QED
    BY <2>1, <2>2, <2>3, <2>4 DEF Shapes
<1>2. WorkInv'
  BY DEF Shapes, WorkInv, Met
<1>3. OffsetInv'
  BY DEF Shapes, WorkInv, OffsetInv, Met
<1>4. AckInv'
  BY DEF Shapes, WorkInv, AckInv, Met
<1> QED
  BY <1>1, <1>2, <1>3, <1>4

LEMMA ParkStep ==
    ASSUME Inv, NEW w \in Workers, Park(w)
    PROVE  Inv'
<1> USE ConsumerAssumption DEF Inv, Park, brokerVars, workVars, fateVars, Messages
<1>1. Shapes'
  <2>1. phase' \in [Workers -> {"idle", "handling", "parking", "acking"}]
    BY DEF Shapes
  <2>2. cur[w] \in recorded
    BY DEF WorkInv
  <2>3. dlq' \subseteq recorded
    BY <2>2 DEF Shapes
  <2>4. queued' \in [Workers -> SUBSET recorded]
    BY <2>2 DEF Shapes
  <2>5. UNCHANGED <<backend, log, acked, taken, owner, position, holds, cur, handled,
                    recorded, faults>>
    OBVIOUS
  <2> QED
    BY <2>1, <2>2, <2>3, <2>4, <2>5 DEF Shapes
<1>2. WorkInv'
  BY DEF Shapes, WorkInv, Met
<1>3. OffsetInv'
  BY DEF Shapes, WorkInv, OffsetInv, Met
<1>4. AckInv'
  BY DEF Shapes, WorkInv, AckInv, Met
<1> QED
  BY <1>1, <1>2, <1>3, <1>4

LEMMA ParkFailsStep ==
    ASSUME Inv, NEW w \in Workers, ParkFails(w)
    PROVE  Inv'
<1> USE ConsumerAssumption DEF Inv, ParkFails, brokerVars, workVars, fateVars, Messages, Leave
<1>1. Shapes'
  <2>1. phase' \in [Workers -> {"idle", "handling", "parking", "acking"}]
    BY DEF Shapes
  <2>2. cur' \in [Workers -> 0 .. log]
    BY DEF Shapes
  <2>3. dlq' \subseteq recorded
    BY DEF Shapes, WorkInv
  <2>4. UNCHANGED <<backend, log, acked, taken, owner, position, holds, handled,
                    recorded, queued, faults>>
    OBVIOUS
  <2> QED
    BY <2>1, <2>2, <2>3, <2>4 DEF Shapes
<1>2. WorkInv'
  BY DEF Shapes, WorkInv, Met
<1>3. OffsetInv'
  BY DEF Shapes, WorkInv, OffsetInv, Met
<1>4. AckInv'
  BY DEF Shapes, WorkInv, AckInv, Met
<1> QED
  BY <1>1, <1>2, <1>3, <1>4

LEMMA AckStep ==
    ASSUME Inv, NEW w \in Workers, Ack(w)
    PROVE  Inv'
<1> USE ConsumerAssumption DEF Inv, Ack, brokerVars, workVars, fateVars, Messages, Leave
<1>0. cur[w] \in 1 .. log /\ Met(cur[w]) /\ log \in Nat
  BY DEF WorkInv, Shapes
<1>c. acked' \subseteq 1 .. log
  <2>1. 1 .. cur[w] \subseteq 1 .. log /\ acked \cup {cur[w]} \subseteq 1 .. log
    <3> HIDE DEF Ack
    <3>1. acked \subseteq 1 .. log
      BY DEF Shapes
    <3>2. 1 .. cur[w] \subseteq 1 .. log
      BY <1>0
    <3> QED
      BY <1>0, <3>1, <3>2, Zenon
  <2>2. \/ acked' = acked \/ acked' = 1 .. cur[w] \/ acked' = acked \cup {cur[w]}
    BY Zenon
  <2> QED
    BY <2>1, <2>2, Zenon DEF Shapes
<1>1. Shapes'
  <2>1. phase' \in [Workers -> {"idle", "handling", "parking", "acking"}]
    BY DEF Shapes
  <2>2. cur' \in [Workers -> 0 .. log]
    BY DEF Shapes
  <2>3. taken' \subseteq (1 .. log) \ acked'
    BY <1>0 DEF Shapes
  <2>4. backend = "kafka" => taken' = {}
    BY DEF Shapes
  <2>5. UNCHANGED <<backend, log, owner, position, holds, handled, recorded, dlq,
                    queued, faults>>
    OBVIOUS
  <2> QED
    BY <1>c, <2>1, <2>2, <2>3, <2>4, <2>5 DEF Shapes
<1>2. WorkInv'
  BY DEF Shapes, WorkInv, Met
<1>3. OffsetInv'
  BY DEF Shapes, WorkInv, OffsetInv, Met
<1>4. AckInv'
  <2>1. CASE backend # "kafka"
    BY <1>0, <2>1 DEF AckInv, WorkInv, Met
  <2>2. CASE backend = "kafka" /\ owner # w
    BY <2>2 DEF AckInv, Met
  <2>3. CASE backend = "kafka" /\ owner = w
    <3>1. cur[w] = position /\ \A m \in 1 .. position : Met(m)
      BY <2>3 DEF OffsetInv
    <3> QED
      BY <2>3, <3>1 DEF AckInv, Met
  <2> QED
    BY <2>1, <2>2, <2>3
<1> QED
  BY <1>1, <1>2, <1>3, <1>4

LEMMA CrashStep ==
    ASSUME Inv, NEW w \in Workers, Crash(w)
    PROVE  Inv'
<1> USE ConsumerAssumption DEF Inv, Crash, brokerVars, workVars, fateVars, Messages, Leave
<1>1. Shapes'
  BY DEF Shapes
<1>2. WorkInv'
  BY DEF Shapes, WorkInv, Met
<1>3. OffsetInv'
  BY DEF Shapes, WorkInv, OffsetInv, Met
<1>4. AckInv'
  BY DEF Shapes, WorkInv, AckInv, Met
<1> QED
  BY <1>1, <1>2, <1>3, <1>4

-----------------------------------------------------------------------------
(* No action takes an acknowledgement back, and none undoes what was done. *)
Grows ==
    /\ log <= log' /\ backend' = backend
    /\ acked \subseteq acked'
    /\ handled \subseteq handled' /\ dlq \subseteq dlq'
    /\ log' # log => UNCHANGED <<acked, handled, dlq>>

LEMMA AckGrows ==
    ASSUME Inv, NEW w \in Workers, Ack(w)
    PROVE  Grows
<1> USE DEF Inv, Ack, fateVars
<1>1. acked \subseteq acked'
  <2>1. CASE backend # "kafka" \/ owner # w
    BY <2>1
  <2>2. CASE backend = "kafka" /\ owner = w
    <3>1. PICK n \in 0 .. position : acked = 1 .. n
      BY <2>2 DEF OffsetInv
    <3>2. cur[w] = position /\ acked' = 1 .. position
      BY <2>2 DEF OffsetInv
    <3> QED
      BY <3>1, <3>2 DEF Shapes
  <2> QED
    BY <2>1, <2>2
<1>2. UNCHANGED <<log, backend, handled, dlq>> /\ log <= log
  BY ConsumerAssumption DEF Shapes
<1> QED
  BY <1>1, <1>2 DEF Grows

LEMMA StepGrows == Inv /\ [Next]_vars => Grows
<1> SUFFICES ASSUME Inv, [Next]_vars PROVE Grows
  OBVIOUS
<1> USE DEF brokerVars, workVars, fateVars, Leave, Enter
<1>0. log \in Nat
  BY ConsumerAssumption DEF Inv, Shapes
<1>1. CASE UNCHANGED vars
  BY <1>0, <1>1 DEF vars, Grows
<1>2. CASE Publish
  BY <1>0, <1>2 DEF Publish, Grows
<1>3. ASSUME NEW w \in Workers, Assign(w) \/ Crash(w) PROVE Grows
  BY <1>0, <1>3 DEF Assign, Crash, Grows
<1>4. ASSUME NEW w \in Workers, Handle(w) PROVE Grows
  <2>1. CASE Poll(w)
    BY <1>0, <2>1 DEF Poll, Grows
  <2>2. CASE \E S \in SUBSET (1 .. log) : Fetch(w, S)
    BY <1>0, <2>2 DEF Fetch, Grows
  <2>3. CASE Idle(w)
    BY <1>0, <2>3 DEF Idle, vars, Grows
  <2>4. CASE Begin(w)
    BY <1>0, <2>4 DEF Begin, Grows
  <2>5. CASE HandlerDone(w)
    BY <1>0, <2>5 DEF HandlerDone, Grows
  <2>6. CASE GiveUp(w)
    BY <1>0, <2>6 DEF GiveUp, Grows
  <2>7. CASE Park(w)
    BY <1>0, <2>7 DEF Park, Grows
  <2>8. CASE ParkFails(w)
    BY <1>0, <2>8 DEF ParkFails, Grows
  <2>9. CASE Ack(w)
    BY <2>9, AckGrows
  <2> QED
    BY <1>4, <2>1, <2>2, <2>3, <2>4, <2>5, <2>6, <2>7, <2>8, <2>9 DEF Handle
<1>5. ASSUME NEW w \in Workers, NEW m \in Messages, Report(w, m) PROVE Grows
  BY <1>0, <1>5 DEF Report, Grows
<1>6. ASSUME NEW m \in Messages, Expire(m) PROVE Grows
  BY <1>0, <1>6 DEF Expire, Grows
<1> QED
  BY <1>1, <1>2, <1>3, <1>4, <1>5, <1>6 DEF Next

LEMMA NextStep == Inv /\ [Next]_vars => Inv'
<1> SUFFICES ASSUME Inv, [Next]_vars PROVE Inv'
  OBVIOUS
<1>1. CASE UNCHANGED vars
  <2> USE <1>1 DEF vars, brokerVars, workVars, fateVars, Inv
  <2>1. Shapes'
    BY DEF Shapes
  <2>2. WorkInv'
    BY DEF WorkInv, Met
  <2>3. OffsetInv'
    BY DEF OffsetInv, Met
  <2>4. AckInv'
    BY DEF AckInv, Met
  <2> QED
    BY <2>1, <2>2, <2>3, <2>4
<1>2. CASE Publish
  BY <1>2, PublishStep
<1>3. ASSUME NEW w \in Workers, Assign(w) \/ Handle(w) \/ Crash(w) PROVE Inv'
  <2>1. CASE Idle(w)
    BY <1>1, <2>1 DEF Idle
  <2> QED
    BY <1>3, <2>1, AssignStep, PollStep, FetchStep, BeginStep, HandlerDoneStep, GiveUpStep,
       ParkStep, ParkFailsStep, AckStep, CrashStep DEF Handle
<1>4. CASE \E w \in Workers, m \in Messages : Report(w, m)
  BY <1>4, ReportStep
<1>5. CASE \E m \in Messages : Expire(m)
  BY <1>5, ExpireStep
<1> QED
  BY <1>1, <1>2, <1>3, <1>4, <1>5 DEF Next

(* The inductive invariant of the loops (bus/backends): what a worker is to *)
(* acknowledge was handled or given up, and a Kafka offset is a prefix of   *)
(* messages of which each was.                                              *)
THEOREM ConsumerInvariant == Spec => []Inv
BY InvInit, NextStep, PTL DEF Spec

(* Every variable has its type, in any group on any backend. *)
THEOREM ConsumerTypes == Spec => []TypeOK
<1>1. Inv => TypeOK
  BY ConsumerAssumption DEF Inv, Shapes, TypeOK, Messages
<1> QED
  BY <1>1, ConsumerInvariant, PTL

(* No message the group is past disappears unhandled and uncounted: a      *)
(* later commit of the partition covers only messages that were met.       *)
THEOREM ConsumerNothingLostUnrecorded == Spec => []NothingLostUnrecorded
<1>1. Inv => NothingLostUnrecorded
  BY DEF Inv, AckInv, Met, NothingLostUnrecorded
<1> QED
  BY <1>1, ConsumerInvariant, PTL

(* A worker that lost its partition never moves the committed offset back. *)
THEOREM ConsumerNeverRewound == Spec => NeverRewound
<1>1. Inv /\ [Next]_vars => [acked \subseteq acked']_vars
  BY StepGrows DEF Grows
<1> QED
  BY <1>1, ConsumerInvariant, PTL DEF Spec, NeverRewound

-----------------------------------------------------------------------------
(* Every step is a step of AtLeastOnce, or stutters. *)
LEMMA StepOfPromise ==
    ASSUME Inv, Inv', [Next]_vars
    PROVE  [Promise!Next]_(Promise!vars)
<1> DEFINE Delivered == handled \cup dlq
           Settled   == IF backend = "kafka" THEN acked \cap handled ELSE acked
<1>1. Grows
  BY StepGrows
<1>2. CASE log' # log
  <2>1. 1 .. log' = 1 .. log \cup (1 .. log') /\ 1 .. log' \in SUBSET Messages
    BY <1>1, ConsumerAssumption DEF Grows, Inv, Shapes, Messages
  <2>2. UNCHANGED <<Delivered, Settled>>
    BY <1>1, <1>2 DEF Grows
  <2>3. Promise!Publish(1 .. log')
    BY <2>1, <2>2 DEF Promise!Publish
  <2> QED
    BY <2>1, <2>3 DEF Promise!Next
<1>3. CASE log' = log
  <2>1. Delivered' \subseteq 1 .. log /\ Settled' \subseteq Delivered'
    BY <1>1, <1>3 DEF Inv, Shapes, AckInv, Grows
  <2>2. Delivered \subseteq Delivered' /\ Settled \subseteq Settled'
    BY <1>1 DEF Grows
  <2>3. Delivered' \in SUBSET Messages /\ Settled' \in SUBSET Messages
    BY <2>1, ConsumerAssumption DEF Inv, Shapes, Messages
  <2>4. Promise!Progress(Delivered', Settled')
    BY <1>3, <2>1, <2>2 DEF Promise!Progress
  <2> QED
    BY <2>3, <2>4 DEF Promise!Next
<1> QED
  BY <1>2, <1>3

(* The loops deliver at least once: what the group is past was handled or  *)
(* is in the dead-letter topic; on Kafka this holds of handled messages.   *)
THEOREM ConsumerImplementsAtLeastOnce == Spec => ImplementsAtLeastOnce
<1>1. Init => Promise!Init
  BY DEF Init, Promise!Init
<1> QED
  BY <1>1, ConsumerInvariant, StepOfPromise, PTL
  DEF Spec, ImplementsAtLeastOnce, Promise!Safety
=================================================================================
