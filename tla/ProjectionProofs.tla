-------------------------- MODULE ProjectionProofs --------------------------
(***************************************************************************)
(* Theorems about Projection, for any keys, consumers, bounds, and any     *)
(* positions that do not decrease with the revision: equal positions, as   *)
(* timestamps may be, are enough for safety.                               *)
(***************************************************************************)
EXTENDS Projection, TLAPS

(* Nothing anybody holds is newer than the owner's row. *)
KnownRevisions ==
    /\ \A k \in Key : table[k].rev <= source[k] /\ copied[k] <= source[k]
    /\ \A c \in Consumers : worker[c].phase # "idle" =>
          /\ worker[c].key \in Key
          /\ worker[c].rev \in 1 .. source[worker[c].key]
          /\ worker[c].phase # "absent" => Exists(worker[c].key)

(* A deleted row stays as it was until the rebuild ends, and what the      *)
(* rebuild inserts in its place is not older; what it inserts elsewhere    *)
(* replaces nothing.                                                       *)
RebuildInv ==
    /\ ~rebuilding => removed = {} /\ left = {} /\ \A k \in Key : copied[k] = 0
    /\ \A k \in removed :
          /\ ~Locked(k)
          /\ Exists(k)
          /\ k \notin left => table[k].rev <= copied[k]
    /\ \A k \in Key : copied[k] # 0 /\ k \notin removed => ~Exists(k)

Inv == TypeOK /\ KnownRevisions /\ RebuildInv
-----------------------------------------------------------------------------
(* An event that is not stale is of a later revision than the row. *)
LEMMA NewerPosition ==
    ASSUME TypeOK, NEW k \in Key, NEW r \in Revisions, Exists(k), ~Stale(k, r)
    PROVE  table[k].rev < r
<1>1. table[k].rev \in Revisions
  BY ProjectionAssumption DEF TypeOK, Exists, Revisions
<1>2. ~(Position[k][r] <= Position[k][table[k].rev])
  BY DEF Stale
<1>3. r # table[k].rev /\ ~(r < table[k].rev)
  BY <1>1, <1>2, ProjectionAssumption
<1> QED
  BY <1>1, <1>3 DEF Revisions

LEMMA InvInit == Init => Inv
<1> SUFFICES ASSUME Init PROVE Inv
  OBVIOUS
<1> USE ProjectionAssumption DEF Init
<1>1. TypeOK
  <2>1. worker \in [Consumers -> [phase : Phases, key : Key \cup {NoKey}, rev : 0 .. MaxRevision]]
    BY DEF Idle, Phases
  <2>2. table \in [Key -> [rev : 0 .. MaxRevision, event : 0 .. MaxRevision]]
    BY DEF NoRow
  <2>0. 0 \in 0 .. MaxRevision
    OBVIOUS
  <2>3. source \in [Key -> 0 .. MaxRevision]
    BY <2>0, Zenon
  <2>4. copied \in [Key -> 0 .. MaxRevision]
    BY <2>0, Zenon
  <2>5. rebuilds \in 0 .. MaxRebuilds /\ faults \in 0 .. MaxFaults
    OBVIOUS
  <2>6. rebuilding \in BOOLEAN /\ acked \subseteq Key \X Revisions /\ removed \subseteq Key /\ left \subseteq Key
    BY Zenon
  <2> QED
    BY <2>1, <2>2, <2>3, <2>4, <2>5, <2>6, Zenon DEF TypeOK
<1>2. \A k \in Key : table[k].rev = 0
  BY DEF NoRow
<1>3. \A c \in Consumers : worker[c].phase = "idle"
  BY DEF Idle
<1>4. KnownRevisions
  BY <1>2, <1>3 DEF KnownRevisions
<1>5. RebuildInv
  BY DEF RebuildInv
<1> QED
  BY <1>1, <1>4, <1>5 DEF Inv

(* Revisions and rows only move forward, step by step. *)
Forward ==
    \A k \in Key : table[k].rev <= table'[k].rev /\ table'[k].rev <= source'[k]

LEMMA ChangeStep ==
    ASSUME Inv, NEW k \in Key, Change(k)
    PROVE  Inv'
<1> USE ProjectionAssumption DEF Inv, TypeOK, rebuildVars
<1>1. TypeOK'
  BY DEF Change
<1>2. KnownRevisions'
  BY DEF Change, KnownRevisions, Exists
<1>3. RebuildInv'
  BY DEF Change, RebuildInv, Exists, Locked
<1> QED
  BY <1>1, <1>2, <1>3

LEMMA LookUpStep ==
    ASSUME Inv, NEW c \in Consumers, NEW k \in Key, NEW r \in Revisions, LookUp(c, k, r)
    PROVE  Inv'
<1> USE ProjectionAssumption DEF Inv, TypeOK, rebuildVars
<1>1. worker'[c].key = k /\ worker'[c].rev = r
      /\ worker'[c].phase \in {"absent", "waiting", "locked"}
      /\ (worker'[c].phase = "locked" => k \notin removed)
  BY DEF LookUp
<1>2. \A d \in Consumers : d # c => worker'[d] = worker[d]
  BY DEF LookUp
<1>6. worker'[c].phase # "absent" => Exists(k)
  BY DEF LookUp
<1>3. TypeOK'
  <2>1. worker' \in [Consumers -> [phase : Phases, key : Key \cup {NoKey}, rev : 0 .. MaxRevision]]
    BY DEF LookUp, Phases, Revisions
  <2> QED
    BY <2>1 DEF LookUp
<1>4. KnownRevisions'
  BY <1>1, <1>2, <1>6 DEF LookUp, KnownRevisions, Exists
<1>5. RebuildInv'
  <2>1. \A j \in removed : ~Locked(j)'
    BY <1>1, <1>2 DEF LookUp, RebuildInv, Locked
  <2> QED
    BY <2>1 DEF LookUp, RebuildInv, Exists
<1> QED
  BY <1>3, <1>4, <1>5

LEMMA ResumeStep ==
    ASSUME Inv, NEW c \in Consumers, Resume(c)
    PROVE  Inv'
<1> USE ProjectionAssumption DEF Inv, TypeOK, rebuildVars
<1>1. worker'[c].key = worker[c].key /\ worker'[c].rev = worker[c].rev
      /\ worker[c].key \notin removed /\ worker'[c].phase = "locked"
      /\ \A d \in Consumers : d # c => worker'[d] = worker[d]
  BY DEF Resume
<1>2. TypeOK'
  BY DEF Resume, Phases
<1>3. KnownRevisions'
  BY <1>1 DEF Resume, KnownRevisions, Exists
<1>4. RebuildInv'
  <2>1. \A j \in removed : ~Locked(j)'
    BY <1>1 DEF Resume, RebuildInv, Locked
  <2> QED
    BY <2>1 DEF Resume, RebuildInv, Exists
<1> QED
  BY <1>2, <1>3, <1>4

(* A consumer that goes idle locks nothing more. *)
LEMMA GoesIdle ==
    ASSUME Inv, NEW c \in Consumers, worker' = [worker EXCEPT ![c] = Idle], NEW j \in Key,
           ~Locked(j)
    PROVE  ~Locked(j)'
BY DEF Inv, TypeOK, Locked, Idle

LEMMA UpsertStep ==
    ASSUME Inv, NEW c \in Consumers, Upsert(c)
    PROVE  Inv' /\ Forward
<1> USE ProjectionAssumption DEF Inv, TypeOK, rebuildVars
<1> DEFINE k == worker[c].key
           r == worker[c].rev
<1>1. k \in Key /\ r \in 1 .. source[k] /\ Exists(k) /\ k \notin removed /\ copied[k] = 0
  <2>1. k \in Key /\ r \in 1 .. source[k] /\ Exists(k)
    BY DEF Upsert, KnownRevisions
  <2>2. Locked(k)
    BY DEF Upsert, Locked
  <2> QED
    BY <2>1, <2>2 DEF RebuildInv
<1>2. r \in Revisions
  BY <1>1 DEF Revisions
<1>3. \A j \in Key : j # k => table'[j] = table[j]
  BY DEF Upsert
<1>4. table'[k] = table[k] \/ (table'[k].rev = r /\ table'[k].event = r /\ ~Stale(k, r))
  BY <1>1 DEF Upsert
<1>5. table[k].rev <= table'[k].rev
  BY <1>1, <1>2, <1>4, NewerPosition DEF Exists
<1>6. table' \in [Key -> [rev : 0 .. MaxRevision, event : 0 .. MaxRevision]]
  BY <1>1, <1>2 DEF Upsert, Revisions
<1>7. TypeOK'
  BY <1>1, <1>2, <1>6 DEF Upsert, Acknowledge, Idle, Phases
<1>8. Forward
  BY <1>1, <1>3, <1>4, <1>5 DEF Forward, Upsert, KnownRevisions
<1>9. KnownRevisions'
  <2>1. \A d \in Consumers : worker'[d].phase # "idle" => worker'[d] = worker[d]
    BY DEF Upsert, Acknowledge, Idle
  <2>2. \A j \in Key : Exists(j) => Exists(j)'
    BY <1>6, <1>8 DEF Forward, Exists
  <2> QED
    BY <1>8, <2>1, <2>2 DEF Forward, Upsert, KnownRevisions
<1>10. RebuildInv'
  <2>1. \A j \in removed : ~Locked(j)'
    BY GoesIdle DEF Upsert, Acknowledge, RebuildInv
  <2> QED
    BY <1>1, <1>3, <2>1 DEF Upsert, RebuildInv, Exists
<1> QED
  BY <1>7, <1>8, <1>9, <1>10

LEMMA CreateStep ==
    ASSUME Inv, NEW c \in Consumers, Create(c)
    PROVE  Inv' /\ Forward
<1> USE ProjectionAssumption DEF Inv, TypeOK, rebuildVars
<1> DEFINE k == worker[c].key
           r == worker[c].rev
<1>1. k \in Key /\ r \in 1 .. source[k] /\ k \notin removed /\ copied[k] = 0
  BY DEF Create, KnownRevisions
<1>2. r \in Revisions
  BY <1>1 DEF Revisions
<1>3. worker' = [worker EXCEPT ![c] = Idle]
  BY DEF Create, Acknowledge, Refuse
<1>4. \A j \in Key : j # k => table'[j] = table[j]
  BY DEF Create
<1>5. table'[k] = table[k] \/ (table[k].rev = 0 /\ table'[k].rev = r /\ table'[k].event = r)
  BY <1>1 DEF Create, Exists
<1>6. table' \in [Key -> [rev : 0 .. MaxRevision, event : 0 .. MaxRevision]]
  <2>1. r \in 0 .. MaxRevision
    BY <1>2 DEF Revisions
  <2>2. table' = table \/ table' = [table EXCEPT ![k] = [rev |-> r, event |-> r]]
    BY DEF Create
  <2>3. [rev |-> r, event |-> r] \in [rev : 0 .. MaxRevision, event : 0 .. MaxRevision]
    BY <2>1, Zenon
  <2>4. k \in Key /\ table \in [Key -> [rev : 0 .. MaxRevision, event : 0 .. MaxRevision]]
    BY <1>1
  <2> HIDE ProjectionAssumption DEF Inv, TypeOK, k, r
  <2> QED
    BY <2>2, <2>3, <2>4
<1>7. TypeOK'
  <2>1. acked' \subseteq Key \X Revisions
    BY <1>1, <1>2 DEF Create, Acknowledge, Refuse
  <2> QED
    BY <1>3, <1>6, <2>1 DEF Create, Idle, Phases
<1>8. Forward
  BY <1>1, <1>4, <1>5 DEF Forward, Create, KnownRevisions
<1>9. KnownRevisions'
  <2>1. \A d \in Consumers : worker'[d].phase # "idle" => worker'[d] = worker[d]
    BY <1>3 DEF Idle
  <2>2. \A j \in Key : Exists(j) => Exists(j)'
    BY <1>6, <1>8 DEF Forward, Exists
  <2> QED
    BY <1>8, <2>1, <2>2 DEF Forward, Create, KnownRevisions
<1>10. RebuildInv'
  <2>1. \A j \in removed : ~Locked(j)'
    BY <1>3, GoesIdle DEF RebuildInv
  <2> QED
    BY <1>1, <1>4, <2>1 DEF Create, RebuildInv, Exists
<1> QED
  BY <1>7, <1>8, <1>9, <1>10

LEMMA DieStep ==
    ASSUME Inv, NEW c \in Consumers, Die(c)
    PROVE  Inv'
<1> USE ProjectionAssumption DEF Inv, TypeOK, rebuildVars
<1>1. TypeOK'
  BY DEF Die, Idle, Phases
<1>2. KnownRevisions'
  <2>1. \A d \in Consumers : worker'[d].phase # "idle" => worker'[d] = worker[d]
    BY DEF Die, Idle
  <2> QED
    BY <2>1 DEF Die, KnownRevisions, Exists
<1>3. RebuildInv'
  <2>1. \A j \in removed : ~Locked(j)'
    BY GoesIdle DEF Die, RebuildInv
  <2> QED
    BY <2>1 DEF Die, RebuildInv, Exists
<1> QED
  BY <1>1, <1>2, <1>3

LEMMA StartRebuildStep ==
    ASSUME Inv, StartRebuild
    PROVE  Inv'
<1> USE ProjectionAssumption DEF Inv, TypeOK, rebuildVars
<1>1. TypeOK'
  BY DEF StartRebuild
<1>2. KnownRevisions'
  BY DEF StartRebuild, KnownRevisions, Exists
<1>3. RebuildInv'
  BY DEF StartRebuild, RebuildInv, Exists, Locked
<1> QED
  BY <1>1, <1>2, <1>3

(* A rebuild that ends without a new table leaves everything as it was. *)
LEMMA AbandonStep ==
    ASSUME Inv, Close(table), UNCHANGED worker, faults' \in 0 .. MaxFaults
    PROVE  Inv'
<1> USE ProjectionAssumption DEF Inv, TypeOK, rebuildVars
<1>1. TypeOK'
  <2>1. copied' \in [Key -> 0 .. MaxRevision]
    BY DEF Close
  <2> QED
    BY <2>1 DEF Close
<1>2. KnownRevisions'
  BY DEF Close, KnownRevisions, Exists
<1>3. RebuildInv'
  BY DEF Close, RebuildInv
<1> QED
  BY <1>1, <1>2, <1>3

LEMMA CopyPageStep ==
    ASSUME Inv, NEW k \in Key, CopyPage(k)
    PROVE  Inv' /\ UNCHANGED table
<1> USE ProjectionAssumption DEF Inv, TypeOK, rebuildVars
<1>1. CASE source[k] # 0 /\ Exists(k) /\ k \notin removed
  BY <1>1, AbandonStep DEF CopyPage, Close
<1>2. CASE ~(source[k] # 0 /\ Exists(k) /\ k \notin removed)
  <2>1. TypeOK'
    BY <1>2 DEF CopyPage
  <2>2. KnownRevisions'
    BY <1>2 DEF CopyPage, KnownRevisions, Exists
  <2>3. rebuilding
    BY DEF CopyPage, RebuildInv
  <2>4. RebuildInv'
    <3>1. copied' = [copied EXCEPT ![k] = source[k]] /\ left' = left \ {k}
          /\ UNCHANGED <<source, table, worker, rebuilding, removed>>
      BY <1>2 DEF CopyPage
    <3>2. \A j \in removed : ~Locked(j)' /\ Exists(j)'
      BY <3>1 DEF RebuildInv, Locked, Exists
    <3>3. \A j \in removed : j \notin left' => table'[j].rev <= copied'[j]
      BY <3>1 DEF RebuildInv, KnownRevisions
    <3>4. \A j \in Key : copied'[j] # 0 /\ j \notin removed' => ~Exists(j)'
      BY <1>2, <3>1 DEF RebuildInv, Exists
    <3> QED
      BY <2>3, <3>1, <3>2, <3>3, <3>4 DEF RebuildInv
  <2> QED
    BY <1>2, <2>1, <2>2, <2>4 DEF CopyPage
<1> QED
  BY <1>1, <1>2

LEMMA CommitRebuildStep ==
    ASSUME Inv, CommitRebuild
    PROVE  Inv' /\ Forward
<1> USE ProjectionAssumption DEF Inv, TypeOK, rebuildVars
<1>1. table' = Rebuilt /\ left = {} /\ UNCHANGED <<source, acked, rebuilds, faults>>
  BY DEF CommitRebuild, Close
<1>2. \A j \in Key : table[j].rev <= table'[j].rev /\ table'[j].rev <= source[j]
  BY <1>1 DEF Rebuilt, RebuildInv, KnownRevisions, Exists, NoRow
<1>3. table' \in [Key -> [rev : 0 .. MaxRevision, event : 0 .. MaxRevision]]
  BY <1>1 DEF Rebuilt, NoRow
<1>4. \A d \in Consumers :
        /\ worker'[d].key = worker[d].key /\ worker'[d].rev = worker[d].rev
        /\ worker'[d].phase \in {"absent", worker[d].phase}
        /\ worker'[d].phase = "absent" => worker[d].phase # "idle"
  BY DEF CommitRebuild, Phases
<1>5. TypeOK'
  <2>1. worker' \in [Consumers -> [phase : Phases, key : Key \cup {NoKey}, rev : 0 .. MaxRevision]]
    BY DEF CommitRebuild, Phases
  <2>2. copied' \in [Key -> 0 .. MaxRevision]
    BY DEF CommitRebuild, Close
  <2>3. rebuilding' = FALSE /\ removed' = {} /\ left' = {}
    BY DEF CommitRebuild, Close
  <2> QED
    BY <1>1, <1>3, <2>1, <2>2, <2>3
<1>6. KnownRevisions'
  <2>1. \A j \in Key : Exists(j) => Exists(j)'
    BY <1>2, <1>3 DEF Exists
  <2>2. \A d \in Consumers : worker'[d].phase # "idle" => worker[d].phase # "idle"
    BY <1>4
  <2>3. \A d \in Consumers : worker'[d].phase \notin {"idle", "absent"} =>
            worker[d].phase \notin {"idle", "absent"}
    BY <1>4
  <2> QED
    BY <1>1, <1>2, <1>4, <2>1, <2>2, <2>3 DEF KnownRevisions, CommitRebuild, Close
<1>7. RebuildInv'
  BY DEF RebuildInv, CommitRebuild, Close
<1> QED
  BY <1>1, <1>2, <1>5, <1>6, <1>7 DEF Forward
-----------------------------------------------------------------------------
(* A step of the projection keeps the invariant, and is the owner's change *)
(* or moves the table forward.                                             *)
LEMMA StepOK ==
    ASSUME Inv, Next
    PROVE  Inv' /\ (UNCHANGED table \/ (UNCHANGED source /\ Forward))
<1>1. ASSUME NEW k \in Key, Change(k) PROVE Inv' /\ UNCHANGED table
  BY <1>1, ChangeStep DEF Change
<1>2. ASSUME NEW k \in Key, CopyPage(k) PROVE Inv' /\ UNCHANGED table
  BY <1>2, CopyPageStep
<1>3. ASSUME NEW c \in Consumers, NEW k \in Key, NEW r \in Revisions, LookUp(c, k, r)
      PROVE  Inv' /\ UNCHANGED table
  BY <1>3, LookUpStep DEF LookUp
<1>4. ASSUME NEW c \in Consumers, Resume(c) \/ Die(c) PROVE Inv' /\ UNCHANGED table
  BY <1>4, ResumeStep, DieStep DEF Resume, Die
<1>5. ASSUME NEW c \in Consumers, Upsert(c) \/ Create(c)
      PROVE  Inv' /\ UNCHANGED source /\ Forward
  BY <1>5, UpsertStep, CreateStep DEF Upsert, Create
<1>6. CASE StartRebuild
  BY <1>6, StartRebuildStep DEF StartRebuild
<1>7. CASE CommitRebuild
  BY <1>7, CommitRebuildStep DEF CommitRebuild, Close
<1>8. CASE FailRebuild
  <2>1. faults' \in 0 .. MaxFaults
    BY <1>8, ProjectionAssumption DEF FailRebuild, Inv, TypeOK
  <2> QED
    BY <1>8, <2>1, AbandonStep DEF FailRebuild, Close
<1> QED
  BY <1>1, <1>2, <1>3, <1>4, <1>5, <1>6, <1>7, <1>8 DEF Next

LEMMA Stutter ==
    ASSUME Inv, UNCHANGED vars
    PROVE  Inv'
BY DEF vars, rebuildVars, Inv, TypeOK, KnownRevisions, RebuildInv, Exists, Locked

LEMMA InvAlways == Spec => []Inv
<1>1. Inv /\ [Next]_vars => Inv'
  BY StepOK, Stutter
<1> QED
  BY <1>1, InvInit, PTL DEF Spec

(* Rows, consumers and the open rebuild keep their shapes. *)
THEOREM ProjectionTypes == Spec => []TypeOK
<1>1. Inv => TypeOK
  BY DEF Inv
<1> QED
  BY <1>1, InvAlways, PTL

(* The projection implements the read model: under redelivery, reordering, *)
(* concurrent first events, rebuilds and failures, for any positions that  *)
(* do not decrease, what readers see is a revision the owner committed and *)
(* never an older one than before (comm/projections.py apply_event,        *)
(* rebuild).                                                               *)
THEOREM ProjectionFollowsOwner == Spec => FollowsOwner
<1> DEFINE shown == [k \in Key |-> table[k].rev]
<1>1. Init => Promise!Init
  BY DEF Init, Promise!Init, NoRow
<1>2. ASSUME Inv, [Next]_vars
      PROVE  [Promise!Next]_(Promise!vars)
  <2>1. CASE UNCHANGED vars
    BY <2>1 DEF vars, rebuildVars, Promise!vars
  <2>2. ASSUME NEW k \in Key, Change(k) PROVE Promise!Next
    BY <2>2 DEF Change, Promise!Next, Promise!Change
  <2>3. CASE UNCHANGED source /\ Forward /\ Inv'
    <3>1. shown' \in [Key -> Nat]
      BY <2>3, ProjectionAssumption DEF Inv, TypeOK
    <3>2. \A k \in Key : shown[k] <= shown'[k] /\ shown'[k] <= source[k]
      BY <2>3 DEF Forward
    <3> QED
      BY <2>3, <3>1, <3>2 DEF Promise!Next, Promise!Refresh
  <2>4. CASE Next /\ UNCHANGED source /\ UNCHANGED table
    BY <2>4 DEF Promise!vars
  <2>5. Next => UNCHANGED source \/ \E k \in Key : Change(k)
    BY DEF Next, CopyPage, Close, LookUp, Resume, Upsert, Create, Die, StartRebuild,
           CommitRebuild, FailRebuild
  <2> QED
    BY <1>2, <2>1, <2>2, <2>3, <2>4, <2>5, StepOK
<1> QED
  BY <1>1, <1>2, InvAlways, PTL DEF Spec, FollowsOwner, Promise!Safety
=============================================================================
