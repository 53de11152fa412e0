---------------------------- MODULE OutboxProofs ----------------------------
(***************************************************************************)
(* Theorems about Outbox, for any set of events and relays, any transport  *)
(* and any batch size.                                                     *)
(***************************************************************************)
EXTENDS Outbox, TLAPS

(* What a relay works on, it holds locked; nobody else holds it, and       *)
(* nobody else settles it.                                                 *)
RelayInv ==
    /\ \A r \in Relays : todo[r] \subseteq batch[r] /\ sent[r] \subseteq batch[r]
    /\ \A r \in Relays : batch[r] \subseteq stored
    /\ \A r \in Relays : effects[r] \subseteq sent[r]
    /\ \A r \in Relays : pc[r] = "idle" => batch[r] = {}
    /\ \A r, s \in Relays : r # s => batch[r] \cap batch[s] = {}
    /\ RelayRowsUnsettled

(* Whatever is being delivered was committed. *)
StoredInv ==
    /\ \A e \in Events : fc[e] # "off" => e \in stored
    /\ \A p \in Procs, e \in Events : queued[p][e] > 0 => e \in stored

SafeInv == TypeOK /\ RelayInv /\ StoredInv

(* An event whose report is never an error, once published, is received,   *)
(* or will be with the relay's commit, or is still in the producer's       *)
(* queue; past the flush the queue is no longer an excuse.                 *)
DeliveryInv ==
    /\ SettledWasDelivered
    /\ \A e \in Events \ Rejectable :
          fc[e] = "published" => e \in delivered \/ queued[Web][e] > 0
    /\ \A e \in Events \ Rejectable : fc[e] = "confirmed" => e \in delivered
    /\ \A r \in Relays : \A e \in sent[r] \ Rejectable :
          e \in delivered \/ e \in effects[r] \/ queued[r][e] > 0
    /\ \A r \in Relays :
          pc[r] = "confirmed" => sent[r] \ Rejectable \subseteq delivered \cup effects[r]
-----------------------------------------------------------------------------
(* Every step keeps the types. *)
LEMMA TypeStep ==
    ASSUME TypeOK, RelayInv, StoredInv, [Next]_vars
    PROVE  TypeOK'
<1> USE OutboxAssumption DEF TypeOK, RelayInv, StoredInv, rowVars, webVars, relayVars, vars, Procs, FcStates, PcStates
<1>1. ASSUME NEW S \in SUBSET Events, Commit(S) PROVE TypeOK'
  BY <1>1 DEF Commit
<1>2. ASSUME NEW e \in Events, LoadRow(e) PROVE TypeOK'
  BY <1>2 DEF LoadRow
<1>3. ASSUME NEW e \in Events, PublishFirst(e) PROVE TypeOK'
  <2>1. queued' \in [Procs -> [Events -> 0 .. MaxQueued]]
    <3>1. \/ queued' = queued
          \/ /\ queued[Web][e] < MaxQueued
             /\ queued' = [queued EXCEPT ![Web][e] = queued[Web][e] + 1]
      BY <1>3 DEF PublishFirst, Queues
    <3>2. CASE queued' = queued
      BY <3>2
    <3>3. CASE /\ queued[Web][e] < MaxQueued
               /\ queued' = [queued EXCEPT ![Web][e] = queued[Web][e] + 1]
      BY <3>3
    <3> QED
      BY <3>1, <3>2, <3>3
  <2>2. delivered' \subseteq stored /\ fc' \in [Events -> FcStates]
    BY <1>3 DEF PublishFirst, Queues
  <2>3. UNCHANGED <<rowVars, seen, relayVars, crashes>>
    BY <1>3 DEF PublishFirst, Queues
  <2> QED
    BY <2>1, <2>2, <2>3
<1>4. ASSUME NEW e \in Events, RaiseFirst(e) PROVE TypeOK'
  BY <1>4 DEF RaiseFirst
<1>5. ASSUME NEW e \in Events, ConfirmFirst(e) PROVE TypeOK'
  BY <1>5 DEF ConfirmFirst, Drained
<1>6. ASSUME NEW e \in Events, UnconfirmedFirst(e) PROVE TypeOK'
  BY <1>6 DEF UnconfirmedFirst
<1>7. ASSUME NEW e \in Events, MarkDispatchedFirst(e) PROVE TypeOK'
  BY <1>7 DEF MarkDispatchedFirst, Locked
<1>8. ASSUME NEW e \in Events, MarkFailedFirst(e) PROVE TypeOK'
  BY <1>8 DEF MarkFailedFirst, Bump, Locked
<1>9. ASSUME NEW e \in Events, Tick(e) PROVE TypeOK'
  BY <1>9 DEF Tick
<1>10. ASSUME NEW r \in Relays, NEW S \in SUBSET Events, SelectRows(r, S) PROVE TypeOK'
  BY <1>10 DEF SelectRows, Candidates, Locked
<1>11. ASSUME NEW r \in Relays, NEW e \in Events, PublishRow(r, e) PROVE TypeOK'
  <2>1. CASE e \in InProcess
    <3>1. /\ effects' = [effects EXCEPT ![r] = effects[r] \cup {e}]
          /\ UNCHANGED <<queued, delivered>>
      BY <1>11, <2>1 DEF PublishRow, Publishes, Queues
    <3>2. /\ todo' = [todo EXCEPT ![r] = todo[r] \ {e}]
          /\ sent' = [sent EXCEPT ![r] = sent[r] \cup {e}]
          /\ UNCHANGED <<rowVars, webVars, pc, batch, crashes>>
      BY <1>11 DEF PublishRow
    <3> QED
      BY <3>1, <3>2
  <2>2. CASE Publishes(e)
    BY <1>11, <2>2 DEF PublishRow, Publishes, Queues, Turn
  <2>3. CASE Queues(e)
    <3>1. /\ queued[r][e] < MaxQueued
          /\ queued' = [queued EXCEPT ![r][e] = queued[r][e] + 1]
          /\ UNCHANGED <<delivered, effects>>
      BY <1>11, <2>3 DEF PublishRow, Publishes, Queues
    <3>2. queued' \in [Procs -> [Events -> 0 .. MaxQueued]]
      BY <3>1
    <3>3. /\ todo' \in [Relays -> SUBSET Events]
          /\ sent' \in [Relays -> SUBSET Events]
          /\ UNCHANGED <<rowVars, webVars, pc, batch, crashes>>
      BY <1>11 DEF PublishRow, Publishes, Queues
    <3> QED
      BY <3>1, <3>2, <3>3
  <2> QED
    BY <2>1, <2>2, <2>3 DEF Publishes, Queues
<1>12. ASSUME NEW r \in Relays, NEW e \in Events, RaiseRow(r, e) PROVE TypeOK'
  BY <1>12 DEF RaiseRow, Turn
<1>13. ASSUME NEW r \in Relays, NEW e \in Events, AbortPass(r, e) PROVE TypeOK'
  BY <1>13 DEF AbortPass, Rollback
<1>14. ASSUME NEW r \in Relays, EmptyPass(r) PROVE TypeOK'
  BY <1>14 DEF EmptyPass, Candidates, Locked
<1>15. ASSUME NEW r \in Relays, ConfirmBatch(r) PROVE TypeOK'
  BY <1>15 DEF ConfirmBatch, Drained
<1>16. ASSUME NEW r \in Relays, UnconfirmedBatch(r) PROVE TypeOK'
  BY <1>16 DEF UnconfirmedBatch
<1>17. ASSUME NEW r \in Relays, CommitPass(r) PROVE TypeOK'
  BY <1>17 DEF CommitPass, Rollback, Bump
<1>18. ASSUME NEW r \in Relays, CrashRelay(r) PROVE TypeOK'
  BY <1>18 DEF CrashRelay, Rollback
<1>19. ASSUME NEW p \in Procs, NEW e \in Events, BrokerAck(p, e) PROVE TypeOK'
  BY <1>19 DEF BrokerAck
<1>20. ASSUME NEW p \in Procs, NEW e \in Events, BrokerReject(p, e) PROVE TypeOK'
  BY <1>20 DEF BrokerReject
<1>21. ASSUME CrashWeb PROVE TypeOK'
  BY <1>21 DEF CrashWeb
<1>22. ASSUME UNCHANGED vars PROVE TypeOK'
  BY <1>22 DEF vars
<1> QED
  BY <1>1, <1>2, <1>3, <1>4, <1>5, <1>6, <1>7, <1>8, <1>9, <1>10, <1>11, <1>12, <1>13, <1>14, <1>15, <1>16, <1>17, <1>18, <1>19, <1>20, <1>21, <1>22 DEF Next, FirstChance, RelayPass

(* Every step delivers only what was committed. *)
LEMMA StoredStep ==
    ASSUME TypeOK, RelayInv, StoredInv, [Next]_vars
    PROVE  StoredInv'
<1> USE OutboxAssumption DEF TypeOK, RelayInv, StoredInv, rowVars, webVars, relayVars, vars, Procs, FcStates
<1>1. ASSUME NEW S \in SUBSET Events, Commit(S) PROVE StoredInv'
  BY <1>1 DEF Commit
<1>2. ASSUME NEW e \in Events, LoadRow(e) PROVE StoredInv'
  BY <1>2 DEF LoadRow
<1>3. ASSUME NEW e \in Events, PublishFirst(e) PROVE StoredInv'
  <2>1. e \in stored /\ UNCHANGED stored
    BY <1>3 DEF PublishFirst, Queues
  <2>2. fc' = [fc EXCEPT ![e] = "published"]
    BY <1>3 DEF PublishFirst, Queues
  <2>3. queued' = queued \/ queued' = [queued EXCEPT ![Web][e] = queued[Web][e] + 1]
    BY <1>3 DEF PublishFirst, Queues
  <2>4. ASSUME NEW p \in Procs, NEW f \in Events, queued'[p][f] > 0 PROVE f \in stored
    <3>1. CASE f = e
      BY <2>1, <3>1
    <3>2. CASE f # e
      <4>1. queued'[p][f] = queued[p][f]
        BY <2>3, <3>2
      <4> QED
        BY <4>1, <2>4
    <3> QED
      BY <3>1, <3>2
  <2> QED
    BY <2>1, <2>2, <2>4
<1>4. ASSUME NEW e \in Events, RaiseFirst(e) PROVE StoredInv'
  BY <1>4 DEF RaiseFirst
<1>5. ASSUME NEW e \in Events, ConfirmFirst(e) PROVE StoredInv'
  BY <1>5 DEF ConfirmFirst, Drained
<1>6. ASSUME NEW e \in Events, UnconfirmedFirst(e) PROVE StoredInv'
  BY <1>6 DEF UnconfirmedFirst
<1>7. ASSUME NEW e \in Events, MarkDispatchedFirst(e) PROVE StoredInv'
  BY <1>7 DEF MarkDispatchedFirst, Locked
<1>8. ASSUME NEW e \in Events, MarkFailedFirst(e) PROVE StoredInv'
  BY <1>8 DEF MarkFailedFirst, Bump, Locked
<1>9. ASSUME NEW e \in Events, Tick(e) PROVE StoredInv'
  BY <1>9 DEF Tick
<1>10. ASSUME NEW r \in Relays, NEW S \in SUBSET Events, SelectRows(r, S) PROVE StoredInv'
  BY <1>10 DEF SelectRows, Candidates, Locked
<1>11. ASSUME NEW r \in Relays, NEW e \in Events, PublishRow(r, e) PROVE StoredInv'
  <2>1. CASE e \in InProcess
    BY <1>11, <2>1 DEF PublishRow, Publishes, Queues
  <2>2. CASE Publishes(e)
    BY <1>11, <2>2 DEF PublishRow, Publishes, Queues
  <2>3. CASE Queues(e)
    <3>1. /\ queued' = [queued EXCEPT ![r][e] = queued[r][e] + 1]
          /\ UNCHANGED <<stored, fc>>
      BY <1>11, <2>3 DEF PublishRow, Publishes, Queues
    <3>2. e \in stored
      BY <1>11 DEF PublishRow, Publishes, Queues, Turn
    <3> QED
      BY <3>1, <3>2
  <2> QED
    BY <2>1, <2>2, <2>3 DEF Publishes, Queues
<1>12. ASSUME NEW r \in Relays, NEW e \in Events, RaiseRow(r, e) PROVE StoredInv'
  BY <1>12 DEF RaiseRow
<1>13. ASSUME NEW r \in Relays, NEW e \in Events, AbortPass(r, e) PROVE StoredInv'
  BY <1>13 DEF AbortPass, Rollback
<1>14. ASSUME NEW r \in Relays, EmptyPass(r) PROVE StoredInv'
  BY <1>14 DEF EmptyPass, Candidates, Locked
<1>15. ASSUME NEW r \in Relays, ConfirmBatch(r) PROVE StoredInv'
  BY <1>15 DEF ConfirmBatch, Drained
<1>16. ASSUME NEW r \in Relays, UnconfirmedBatch(r) PROVE StoredInv'
  BY <1>16 DEF UnconfirmedBatch
<1>17. ASSUME NEW r \in Relays, CommitPass(r) PROVE StoredInv'
  BY <1>17 DEF CommitPass, Rollback, Bump
<1>18. ASSUME NEW r \in Relays, CrashRelay(r) PROVE StoredInv'
  BY <1>18 DEF CrashRelay, Rollback
<1>19. ASSUME NEW p \in Procs, NEW e \in Events, BrokerAck(p, e) PROVE StoredInv'
  BY <1>19 DEF BrokerAck
<1>20. ASSUME NEW p \in Procs, NEW e \in Events, BrokerReject(p, e) PROVE StoredInv'
  BY <1>20 DEF BrokerReject
<1>21. ASSUME CrashWeb PROVE StoredInv'
  BY <1>21 DEF CrashWeb
<1>22. ASSUME UNCHANGED vars PROVE StoredInv'
  BY <1>22 DEF vars
<1> QED
  BY <1>1, <1>2, <1>3, <1>4, <1>5, <1>6, <1>7, <1>8, <1>9, <1>10, <1>11, <1>12, <1>13, <1>14, <1>15, <1>16, <1>17, <1>18, <1>19, <1>20, <1>21, <1>22 DEF Next, FirstChance, RelayPass

(* Every step respects the row locks. *)
LEMMA RelayStep ==
    ASSUME TypeOK, RelayInv, [Next]_vars
    PROVE  RelayInv'
<1> USE OutboxAssumption DEF TypeOK, RelayInv, RelayRowsUnsettled, rowVars, webVars, relayVars, vars, PcStates
<1>1. ASSUME NEW S \in SUBSET Events, Commit(S) PROVE RelayInv'
  BY <1>1 DEF Commit
<1>2. ASSUME NEW e \in Events, LoadRow(e) PROVE RelayInv'
  BY <1>2 DEF LoadRow
<1>3. ASSUME NEW e \in Events, PublishFirst(e) PROVE RelayInv'
  BY <1>3 DEF PublishFirst, Queues
<1>4. ASSUME NEW e \in Events, RaiseFirst(e) PROVE RelayInv'
  BY <1>4 DEF RaiseFirst
<1>5. ASSUME NEW e \in Events, ConfirmFirst(e) PROVE RelayInv'
  BY <1>5 DEF ConfirmFirst, Drained
<1>6. ASSUME NEW e \in Events, UnconfirmedFirst(e) PROVE RelayInv'
  BY <1>6 DEF UnconfirmedFirst
<1>7. ASSUME NEW e \in Events, MarkDispatchedFirst(e) PROVE RelayInv'
  BY <1>7 DEF MarkDispatchedFirst, Locked
<1>8. ASSUME NEW e \in Events, MarkFailedFirst(e) PROVE RelayInv'
  BY <1>8 DEF MarkFailedFirst, Bump, Locked
<1>9. ASSUME NEW e \in Events, Tick(e) PROVE RelayInv'
  BY <1>9 DEF Tick
<1>10. ASSUME NEW r \in Relays, NEW S \in SUBSET Events, SelectRows(r, S) PROVE RelayInv'
  BY <1>10 DEF SelectRows, Candidates, Locked
<1>11. ASSUME NEW r \in Relays, NEW e \in Events, PublishRow(r, e) PROVE RelayInv'
  <2>1. CASE e \in InProcess
    BY <1>11, <2>1 DEF PublishRow, Publishes, Queues, Turn
  <2>2. CASE Publishes(e)
    BY <1>11, <2>2 DEF PublishRow, Publishes, Queues, Turn
  <2>3. CASE Queues(e)
    BY <1>11, <2>3 DEF PublishRow, Publishes, Queues, Turn
  <2> QED
    BY <2>1, <2>2, <2>3 DEF Publishes, Queues
<1>12. ASSUME NEW r \in Relays, NEW e \in Events, RaiseRow(r, e) PROVE RelayInv'
  BY <1>12 DEF RaiseRow
<1>13. ASSUME NEW r \in Relays, NEW e \in Events, AbortPass(r, e) PROVE RelayInv'
  BY <1>13 DEF AbortPass, Rollback
<1>14. ASSUME NEW r \in Relays, EmptyPass(r) PROVE RelayInv'
  BY <1>14 DEF EmptyPass, Candidates, Locked
<1>15. ASSUME NEW r \in Relays, ConfirmBatch(r) PROVE RelayInv'
  BY <1>15 DEF ConfirmBatch, Drained
<1>16. ASSUME NEW r \in Relays, UnconfirmedBatch(r) PROVE RelayInv'
  BY <1>16 DEF UnconfirmedBatch
<1>17. ASSUME NEW r \in Relays, CommitPass(r) PROVE RelayInv'
  BY <1>17 DEF CommitPass, Rollback, Bump
<1>18. ASSUME NEW r \in Relays, CrashRelay(r) PROVE RelayInv'
  BY <1>18 DEF CrashRelay, Rollback
<1>19. ASSUME NEW p \in Procs, NEW e \in Events, BrokerAck(p, e) PROVE RelayInv'
  BY <1>19 DEF BrokerAck
<1>20. ASSUME NEW p \in Procs, NEW e \in Events, BrokerReject(p, e) PROVE RelayInv'
  BY <1>20 DEF BrokerReject
<1>21. ASSUME CrashWeb PROVE RelayInv'
  BY <1>21 DEF CrashWeb
<1>22. ASSUME UNCHANGED vars PROVE RelayInv'
  BY <1>22 DEF vars
<1> QED
  BY <1>1, <1>2, <1>3, <1>4, <1>5, <1>6, <1>7, <1>8, <1>9, <1>10, <1>11, <1>12, <1>13, <1>14, <1>15, <1>16, <1>17, <1>18, <1>19, <1>20, <1>21, <1>22 DEF Next, FirstChance, RelayPass


(* Every step keeps the promise, as long as no delivery report is an error. *)
LEMMA DeliveryStep ==
    ASSUME TypeOK, RelayInv, DeliveryInv, [Next]_vars
    PROVE  DeliveryInv'
<1> USE OutboxAssumption DEF TypeOK, RelayInv, DeliveryInv, SettledWasDelivered, rowVars, webVars, relayVars, vars, Procs
<1>1. ASSUME NEW S \in SUBSET Events, Commit(S) PROVE DeliveryInv'
  BY <1>1 DEF Commit
<1>2. ASSUME NEW e \in Events, LoadRow(e) PROVE DeliveryInv'
  BY <1>2 DEF LoadRow
<1>3. ASSUME NEW e \in Events, PublishFirst(e) PROVE DeliveryInv'
  <2>1. CASE ~Queues(e)
    BY <1>3, <2>1 DEF PublishFirst, Queues
  <2>2. CASE Queues(e)
    <3>1. /\ queued' = [queued EXCEPT ![Web][e] = queued[Web][e] + 1]
          /\ fc' = [fc EXCEPT ![e] = "published"]
          /\ UNCHANGED <<rowVars, relayVars, delivered>>
      BY <1>3, <2>2 DEF PublishFirst, Queues
    <3>2. /\ queued'[Web][e] > 0
          /\ \A p \in Procs, f \in Events : queued'[p][f] >= queued[p][f]
      BY <3>1
    <3>3. \A f \in Events \ Rejectable : fc'[f] = "published" => f \in delivered' \/ queued'[Web][f] > 0
      BY <3>1, <3>2
    <3>4. \A r \in Relays : \A f \in sent'[r] \ Rejectable :
             f \in delivered' \/ f \in effects'[r] \/ queued'[r][f] > 0
      BY <3>1, <3>2
    <3> QED
      BY <3>1, <3>3, <3>4
  <2> QED
    BY <2>1, <2>2
<1>4. ASSUME NEW e \in Events, RaiseFirst(e) PROVE DeliveryInv'
  BY <1>4 DEF RaiseFirst
<1>5. ASSUME NEW e \in Events, ConfirmFirst(e) PROVE DeliveryInv'
  BY <1>5 DEF ConfirmFirst, Drained
<1>6. ASSUME NEW e \in Events, UnconfirmedFirst(e) PROVE DeliveryInv'
  BY <1>6 DEF UnconfirmedFirst
<1>7. ASSUME NEW e \in Events, MarkDispatchedFirst(e) PROVE DeliveryInv'
  BY <1>7 DEF MarkDispatchedFirst
<1>8. ASSUME NEW e \in Events, MarkFailedFirst(e) PROVE DeliveryInv'
  BY <1>8 DEF MarkFailedFirst
<1>9. ASSUME NEW e \in Events, Tick(e) PROVE DeliveryInv'
  BY <1>9 DEF Tick
<1>10. ASSUME NEW r \in Relays, NEW S \in SUBSET Events, SelectRows(r, S) PROVE DeliveryInv'
  BY <1>10 DEF SelectRows
<1>11. ASSUME NEW r \in Relays, NEW e \in Events, PublishRow(r, e) PROVE DeliveryInv'
  <2>1. CASE e \in InProcess
    BY <1>11, <2>1 DEF PublishRow, Publishes, Queues
  <2>2. CASE Publishes(e)
    BY <1>11, <2>2 DEF PublishRow, Publishes, Queues
  <2>3. CASE Queues(e)
    <3>1. /\ queued' = [queued EXCEPT ![r][e] = queued[r][e] + 1]
          /\ UNCHANGED <<delivered, effects>>
      BY <1>11, <2>3 DEF PublishRow, Publishes, Queues
    <3>2. /\ pc[r] = "publishing"
          /\ sent' = [sent EXCEPT ![r] = sent[r] \cup {e}]
          /\ UNCHANGED <<rowVars, webVars, pc, batch>>
      BY <1>11 DEF PublishRow, Publishes, Queues
    <3>3. /\ queued'[r][e] > 0
          /\ \A p \in Procs, f \in Events : queued'[p][f] >= queued[p][f]
      BY <3>1
    <3>4. \A q \in Relays : \A f \in sent'[q] \ Rejectable :
             f \in delivered' \/ f \in effects'[q] \/ queued'[q][f] > 0
      BY <3>1, <3>2, <3>3
    <3>5. \A f \in Events \ Rejectable : fc'[f] = "published" => f \in delivered' \/ queued'[Web][f] > 0
      BY <3>1, <3>2, <3>3
    <3> QED
      BY <3>1, <3>2, <3>4, <3>5
  <2> QED
    BY <2>1, <2>2, <2>3 DEF Publishes, Queues
<1>12. ASSUME NEW r \in Relays, NEW e \in Events, RaiseRow(r, e) PROVE DeliveryInv'
  BY <1>12 DEF RaiseRow
<1>13. ASSUME NEW r \in Relays, NEW e \in Events, AbortPass(r, e) PROVE DeliveryInv'
  BY <1>13 DEF AbortPass, Rollback
<1>14. ASSUME NEW r \in Relays, EmptyPass(r) PROVE DeliveryInv'
  BY <1>14 DEF EmptyPass
<1>15. ASSUME NEW r \in Relays, ConfirmBatch(r) PROVE DeliveryInv'
  BY <1>15 DEF ConfirmBatch, Drained
<1>16. ASSUME NEW r \in Relays, UnconfirmedBatch(r) PROVE DeliveryInv'
  BY <1>16 DEF UnconfirmedBatch
<1>17. ASSUME NEW r \in Relays, CommitPass(r) PROVE DeliveryInv'
  BY <1>17 DEF CommitPass, Rollback
<1>18. ASSUME NEW r \in Relays, CrashRelay(r) PROVE DeliveryInv'
  BY <1>18 DEF CrashRelay, Rollback
<1>19. ASSUME NEW p \in Procs, NEW e \in Events, BrokerAck(p, e) PROVE DeliveryInv'
  BY <1>19 DEF BrokerAck
<1>20. ASSUME NEW p \in Procs, NEW e \in Events, BrokerReject(p, e) PROVE DeliveryInv'
  BY <1>20 DEF BrokerReject
<1>21. ASSUME CrashWeb PROVE DeliveryInv'
  BY <1>21 DEF CrashWeb
<1>22. ASSUME UNCHANGED vars PROVE DeliveryInv'
  BY <1>22 DEF vars
<1> QED
  BY <1>1, <1>2, <1>3, <1>4, <1>5, <1>6, <1>7, <1>8, <1>9, <1>10, <1>11, <1>12, <1>13, <1>14, <1>15, <1>16, <1>17, <1>18, <1>19, <1>20, <1>21, <1>22 DEF Next, FirstChance, RelayPass

(* The initial state satisfies all of it. *)
LEMMA InitInv == Init => SafeInv /\ DeliveryInv
BY OutboxAssumption DEF Init, SafeInv, TypeOK, RelayInv, StoredInv, DeliveryInv,
   SettledWasDelivered, RelayRowsUnsettled, FcStates, PcStates, Procs

(* The types, and with them that only committed events are received.      *)
THEOREM OutboxSafe == Spec => []SafeInv
<1>1. Init => SafeInv
  BY InitInv
<1>2. SafeInv /\ [Next]_vars => SafeInv'
  BY TypeStep, StoredStep, RelayStep DEF SafeInv
<1> QED
  BY <1>1, <1>2, PTL DEF Spec

(* Type correctness of the whole delivery, commit to dispatched_at.       *)
THEOREM OutboxTypes == Spec => []TypeOK
BY OutboxSafe, PTL DEF SafeInv

(* No row a relay holds is settled behind its back, whatever the number   *)
(* of relays and whatever crashes.                                         *)
THEOREM RelayRowsStayUnsettled == Spec => []RelayRowsUnsettled
BY OutboxSafe, PTL DEF SafeInv, RelayInv

(* Confirmed means delivered: with a transport that reports every loss,   *)
(* dispatched_at is only ever set on an event that was received.          *)
THEOREM DispatchedWasDelivered ==
    Spec => []SettledWasDelivered
<1>1. Init => SafeInv /\ DeliveryInv
  BY InitInv
<1>2. SafeInv /\ DeliveryInv /\ [Next]_vars => (SafeInv /\ DeliveryInv)'
  BY TypeStep, StoredStep, RelayStep, DeliveryStep DEF SafeInv
<1>3. DeliveryInv => SettledWasDelivered
  BY DEF DeliveryInv
<1> QED
  BY <1>1, <1>2, <1>3, PTL DEF Spec

(* dispatched_at is never cleared, by any interleaving of stale first     *)
(* chances and relays, errors in delivery reports included.               *)
THEOREM NeverReopened == Spec => NeverUnsettled
<1>1. [Next]_vars => [dispatched \subseteq dispatched']_vars
  BY DEF Next, FirstChance, RelayPass, vars, rowVars, webVars, relayVars, Commit,
     LoadRow, PublishFirst, RaiseFirst, ConfirmFirst, UnconfirmedFirst,
     MarkDispatchedFirst, MarkFailedFirst, SelectRows, EmptyPass, PublishRow,
     RaiseRow, AbortPass, ConfirmBatch, UnconfirmedBatch, CommitPass, CrashRelay,
     BrokerAck, BrokerReject, Tick, CrashWeb
<1> QED
  BY <1>1, PTL DEF Spec, NeverUnsettled
(* Every step either commits events or leaves the committed ones alone and *)
(* only adds to what is received and what is dispatched.                   *)
LEMMA StepShape ==
    ASSUME [Next]_vars
    PROVE  \/ /\ \E S \in SUBSET Events : stored' = stored \cup S
              /\ UNCHANGED <<delivered, dispatched>>
           \/ /\ UNCHANGED stored
              /\ delivered \subseteq delivered'
              /\ dispatched \subseteq dispatched'
<1>1. ASSUME NEW S \in SUBSET Events, Commit(S)
      PROVE  stored' = stored \cup S /\ UNCHANGED <<delivered, dispatched>>
  BY <1>1 DEF Commit, relayVars
<1>2. ASSUME \/ \E e \in Events : FirstChance(e) \/ Tick(e)
             \/ \E r \in Relays : RelayPass(r) \/ CrashRelay(r)
             \/ \E p \in Procs, e \in Events : BrokerAck(p, e) \/ BrokerReject(p, e)
             \/ CrashWeb
             \/ UNCHANGED vars
      PROVE  /\ UNCHANGED stored
             /\ delivered \subseteq delivered'
             /\ dispatched \subseteq dispatched'
  BY <1>2 DEF FirstChance, RelayPass, vars, rowVars, LoadRow, PublishFirst,
     RaiseFirst, ConfirmFirst, UnconfirmedFirst, MarkDispatchedFirst,
     MarkFailedFirst, SelectRows, EmptyPass, PublishRow, RaiseRow, AbortPass,
     ConfirmBatch, UnconfirmedBatch, CommitPass, CrashRelay, BrokerAck,
     BrokerReject, Tick, CrashWeb
<1> QED
  BY <1>1, <1>2 DEF Next

(* The outbox, first chances, relays, crashes and all, implements          *)
(* at-least-once delivery when the transport reports every loss.           *)
THEOREM OutboxImplementsAtLeastOnce ==
    Spec => ImplementsAtLeastOnce
<1> DEFINE Kept(S) == S \ Rejectable
<1>1. Init => Promise!Init
  BY DEF Init, Promise!Init
<1>2. ASSUME SafeInv', DeliveryInv', [Next]_vars
      PROVE  [Promise!Next]_(Promise!vars)
  <2>1. /\ Kept(delivered') \subseteq Kept(stored')
        /\ Kept(dispatched') \subseteq Kept(delivered')
        /\ stored' \subseteq Events
    BY <1>2 DEF SafeInv, TypeOK, DeliveryInv, SettledWasDelivered
  <2>2. CASE /\ \E S \in SUBSET Events : stored' = stored \cup S
             /\ UNCHANGED <<delivered, dispatched>>
    <3>1. PICK S \in SUBSET Events : stored' = stored \cup S
      BY <2>2
    <3>2. Kept(stored') = Kept(stored) \cup Kept(S)
      BY <3>1
    <3>3. Promise!Publish(Kept(S))
      BY <2>2, <3>2 DEF Promise!Publish
    <3> QED
      BY <3>3 DEF Promise!Next
  <2>3. CASE /\ UNCHANGED stored
             /\ delivered \subseteq delivered'
             /\ dispatched \subseteq dispatched'
    <3> DEFINE D == Kept(delivered') \ Kept(delivered)
               W == Kept(dispatched') \ Kept(dispatched)
    <3>1. /\ Kept(delivered') = Kept(delivered) \cup D
          /\ Kept(dispatched') = Kept(dispatched) \cup W
          /\ Kept(stored') = Kept(stored)
      BY <2>3
    <3>2. D \subseteq Kept(stored) /\ W \subseteq Kept(delivered) \cup D
      BY <2>1, <2>3
    <3>3. Promise!Progress(D, W)
      BY <3>1, <3>2 DEF Promise!Progress
    <3>4. D \in SUBSET (Events \ Rejectable) /\ W \in SUBSET (Events \ Rejectable)
      BY <2>1
    <3> QED
      BY <3>3, <3>4 DEF Promise!Next
  <2> QED
    BY <1>2, <2>2, <2>3, StepShape
<1>3. Init => SafeInv /\ DeliveryInv
  BY InitInv
<1>4. SafeInv /\ DeliveryInv /\ [Next]_vars => (SafeInv /\ DeliveryInv)'
  BY TypeStep, StoredStep, RelayStep, DeliveryStep DEF SafeInv
<1> QED
  BY <1>1, <1>2, <1>3, <1>4, PTL DEF Spec, ImplementsAtLeastOnce, Promise!Safety
=============================================================================
