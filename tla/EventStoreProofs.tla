-------------------------- MODULE EventStoreProofs --------------------------
(***************************************************************************)
(* Theorems about EventStore, for any threads, events, backends' routes,   *)
(* merges, buffer and page sizes.                                          *)
(***************************************************************************)
EXTENDS EventStore, FiniteSetTheorems, TLAPS

(* OnePlace, said of one event. *)
PlaceOf(e) ==
    LET settled == e \in stored \cup erased \cup lost IN
    /\ author[e] # NoThread <=>
         e \in pending \/ settled \/ \E t \in Threads : e \in InFlight(t)
    /\ \A t \in Threads : e \in InFlight(t) =>
        /\ e \notin batch[t] \cap uncommitted[t]
        /\ e \notin pending /\ ~settled
        /\ \A u \in Threads \ {t} : e \notin InFlight(u)
    /\ e \in pending => ~settled
    /\ e \in stored => e \notin erased /\ e \notin lost
    /\ e \in erased => e \notin lost

(* A thread that left the write has nothing left to write; one that is     *)
(* appending or in a transaction answers for nothing, so that a batch that *)
(* answers for something is committed as it is written; only a rekey pages.*)
CallInv ==
    \A t \in Threads :
        /\ at[t] # "writing" => batch[t] = {}
        /\ at[t] = "idle" \/ inTx[t] \/ call[t] = <<"append">> => covered[t] = {}
        /\ at[t] \in {"paging", "committing"} => call[t][1] = "rekey"

(* What a flush answers for is still in its batch or has reached the store.*)
FlushInv ==
    \A t \in Threads : covered[t] \subseteq stored \cup erased \cup lost \cup batch[t]

Inv == TypeOK /\ CallInv /\ OnePlace /\ FlushInv
-----------------------------------------------------------------------------
(* A thread that is not in a query, purge or rekey counts as appending. *)
LEMMA AppendCall == <<"append">> \in Calls
BY DEF Calls

(* A rekey has a pair of subjects to merge. *)
LEMMA RekeyCall ==
    ASSUME NEW c \in Calls, c[1] = "rekey"
    PROVE  c[2] \in Merges /\ c[2][1] \in Subjects /\ c[2][2] \in Subjects
BY EventStoreAssumption DEF Calls

(* OnePlace is PlaceOf of every event. *)
LEMMA PlaceOfEach ==
    ASSUME OnePlace, NEW e \in Events
    PROVE  PlaceOf(e)
<1>1. e \in Appended <=> author[e] # NoThread
  BY DEF Appended
<1>2. e \in UNION {InFlight(t) : t \in Threads} <=> \E t \in Threads : e \in InFlight(t)
  OBVIOUS
<1> QED
  BY <1>1, <1>2 DEF OnePlace, PlaceOf

LEMMA PlaceOfAll ==
    ASSUME TypeOK', \A e \in Events : PlaceOf(e)'
    PROVE  OnePlace'
<1>1. (Appended = pending \cup stored \cup erased \cup lost
                  \cup UNION {InFlight(t) : t \in Threads})'
  <2>1. (UNION {InFlight(t) : t \in Threads})' \subseteq Events
    BY DEF TypeOK, InFlight
  <2>2. \A e \in Events : e \in (UNION {InFlight(t) : t \in Threads})'
                          <=> \E t \in Threads : e \in InFlight(t)'
    OBVIOUS
  <2>3. \A e \in Events : e \in Appended' <=> author'[e] # NoThread
    BY DEF Appended
  <2>4. Appended' \subseteq Events /\ pending' \subseteq Events /\ stored' \subseteq Events
        /\ erased' \subseteq Events /\ lost' \subseteq Events
    BY DEF TypeOK, Appended
  <2>5. \A e \in Events : e \in Appended' <=>
           e \in pending' \/ e \in (UNION {InFlight(t) : t \in Threads})'
           \/ e \in stored' \/ e \in erased' \/ e \in lost'
    BY <2>2, <2>3 DEF PlaceOf
  <2> QED
    BY <2>1, <2>4, <2>5
<1>2. \A t \in Threads : InFlight(t)' \subseteq Events /\ batch'[t] \subseteq Events
  BY DEF TypeOK, InFlight
<1>3. ASSUME NEW t \in Threads
      PROVE  (/\ batch[t] \cap uncommitted[t] = {}
              /\ InFlight(t) \cap (pending \cup stored \cup erased \cup lost) = {}
              /\ \A u \in Threads \ {t} : InFlight(t) \cap InFlight(u) = {})'
  <2>1. batch'[t] \subseteq InFlight(t)'
    BY DEF InFlight
  <2> QED
    BY <1>2, <2>1 DEF PlaceOf
<1>4. (/\ pending \cap (stored \cup erased \cup lost) = {}
       /\ stored \cap (erased \cup lost) = {}
       /\ erased \cap lost = {})'
  BY DEF PlaceOf, TypeOK
<1> QED
  BY <1>1, <1>3, <1>4 DEF OnePlace

-----------------------------------------------------------------------------
(* Every step keeps the types. *)
LEMMA TypeStep ==
    ASSUME TypeOK, CallInv, [Next]_vars
    PROVE  TypeOK'
<1> USE DEF TypeOK, bufVars, ctlVars, txnVars, rowVars, movVars
<1>1. ASSUME Age PROVE TypeOK'
  BY <1>1 DEF Age
<1>2. ASSUME Crash PROVE TypeOK'
  <2>1. lost' \subseteq Events
    BY <1>2 DEF Crash, InFlight
  <2> QED
    BY <1>2, <2>1, AppendCall DEF Crash
<1>3. ASSUME NEW t \in Threads, NEW S \in SUBSET Events, Extend(t, S) PROVE TypeOK'
  <2> DEFINE all == pending \cup S
  <2>1. /\ author' = [x \in Events |-> IF x \in S THEN t ELSE author[x]]
        /\ S \subseteq Events
        /\ UNCHANGED <<call, inTx, uncommitted, stored, subject, erased, page, moved, lost, covered>>
    BY <1>3 DEF Extend, Appended, bufVars, ctlVars, txnVars, rowVars, movVars
  <2>nonempty. S # {}
    <3>1. Cardinality(S) \in 1 .. MaxExtend
      BY <1>3 DEF Extend
    <3>2. 0 \notin 1 .. MaxExtend
      BY EventStoreAssumption
    <3>3. S = {} => Cardinality(S) = 0
      BY FS_EmptySet, Zenon
    <3> QED
      BY <3>1, <3>2, <3>3, Zenon
  <2>2. CASE batch' = [batch EXCEPT ![t] = all] /\ pending' = {} /\ aged' = FALSE
             /\ at' = [at EXCEPT ![t] = "writing"]
    BY <2>1, <2>2
  <2>3. CASE pending' = all /\ UNCHANGED <<aged, at, batch>>
    BY <2>1, <2>3, <2>nonempty
  <2> QED
    BY <1>3, <2>2, <2>3 DEF Extend, Take
<1>4. ASSUME NEW t \in Threads, NEW c \in Calls, Enter(t, c) PROVE TypeOK'
  <2>1. Take(t, pending) /\ UNCHANGED <<uncommitted, inTx, stored, subject, erased, page, moved, author, lost>>
        /\ call' = [call EXCEPT ![t] = c]
        /\ covered' = [covered EXCEPT ![t] = pending \cup stored \cup erased \cup lost]
    BY <1>4 DEF Enter
  <2> QED
    BY <2>1 DEF Take
<1>5. ASSUME NEW t \in Threads, NEW b \in Backends, WriteBackend(t, b) PROVE TypeOK'
  BY <1>5 DEF WriteBackend
<1>6. ASSUME NEW t \in Threads, NEW b \in Backends, WriteFails(t, b) PROVE TypeOK'
  BY <1>6, AppendCall DEF WriteFails, Return, InFlight
<1>7. ASSUME NEW t \in Threads, Written(t) PROVE TypeOK'
  BY <1>7 DEF Written
<1>8. ASSUME NEW t \in Threads, BeginTx(t) PROVE TypeOK'
  BY <1>8 DEF BeginTx
<1>9. ASSUME NEW t \in Threads, EndTx(t) PROVE TypeOK'
  BY <1>9 DEF EndTx
<1>10. ASSUME NEW t \in Threads, Query(t) PROVE TypeOK'
  BY <1>10, AppendCall DEF Query, Return
<1>11. ASSUME NEW t \in Threads, Purge(t) PROVE TypeOK'
  BY <1>11, AppendCall DEF Purge, Return, RowsAbout
<1>12. ASSUME NEW t \in Threads, ReadPage(t) PROVE TypeOK'
  BY <1>12 DEF ReadPage, RowsAbout
<1>13. ASSUME NEW t \in Threads, WritePage(t) PROVE TypeOK'
  BY <1>13 DEF WritePage
<1>14. ASSUME NEW t \in Threads, CommitRekey(t) PROVE TypeOK'
  <2>1. call[t][1] = "rekey"
    BY <1>14 DEF CommitRekey, CallInv
  <2>2. call[t][2][2] \in Subjects
    BY <2>1, RekeyCall
  <2>3. subject' \in [Events -> Subjects]
    BY <1>14, <2>2 DEF CommitRekey
  <2> QED
    BY <1>14, <2>3, AppendCall DEF CommitRekey, Return
<1>15. ASSUME NEW t \in Threads, RekeyFails(t) PROVE TypeOK'
  BY <1>15, AppendCall DEF RekeyFails, Return
<1>16. ASSUME UNCHANGED vars PROVE TypeOK'
  BY <1>16 DEF vars
<1> QED
  BY <1>1, <1>2, <1>3, <1>4, <1>5, <1>6, <1>7, <1>8, <1>9, <1>10, <1>11, <1>12, <1>13, <1>14, <1>15, <1>16 DEF Next

(* Every step keeps where the calls may be. *)
LEMMA CallStep ==
    ASSUME TypeOK, CallInv, [Next]_vars
    PROVE  CallInv'
<1> USE DEF TypeOK, CallInv, bufVars, ctlVars, txnVars, rowVars, movVars
<1>1. ASSUME Age PROVE CallInv'
  BY <1>1 DEF Age
<1>2. ASSUME Crash PROVE CallInv'
  BY <1>2 DEF Crash
<1>3. ASSUME NEW t \in Threads, NEW S \in SUBSET Events, Extend(t, S) PROVE CallInv'
  <2>1. UNCHANGED <<call, inTx, covered>> /\ at[t] = "idle"
        /\ at' \in {at, [at EXCEPT ![t] = "writing"]}
        /\ \E B \in SUBSET Events : batch' = [batch EXCEPT ![t] = B]
    BY <1>3 DEF Extend, Take
  <2>2. at'[t] # "writing" => batch' = batch
    BY <1>3 DEF Extend, Take
  <2> QED
    BY <2>1, <2>2
<1>4. ASSUME NEW t \in Threads, NEW c \in Calls, Enter(t, c) PROVE CallInv'
  BY <1>4 DEF Enter, Take
<1>5. ASSUME NEW t \in Threads, NEW b \in Backends, WriteBackend(t, b) PROVE CallInv'
  BY <1>5 DEF WriteBackend
<1>6. ASSUME NEW t \in Threads, NEW b \in Backends, WriteFails(t, b) PROVE CallInv'
  BY <1>6 DEF WriteFails, Return
<1>7. ASSUME NEW t \in Threads, Written(t) PROVE CallInv'
  BY <1>7 DEF Written
<1>8. ASSUME NEW t \in Threads, BeginTx(t) PROVE CallInv'
  BY <1>8 DEF BeginTx
<1>9. ASSUME NEW t \in Threads, EndTx(t) PROVE CallInv'
  BY <1>9 DEF EndTx
<1>10. ASSUME NEW t \in Threads, Query(t) PROVE CallInv'
  BY <1>10 DEF Query, Return
<1>11. ASSUME NEW t \in Threads, Purge(t) PROVE CallInv'
  BY <1>11 DEF Purge, Return
<1>12. ASSUME NEW t \in Threads, ReadPage(t) PROVE CallInv'
  BY <1>12 DEF ReadPage
<1>13. ASSUME NEW t \in Threads, WritePage(t) PROVE CallInv'
  BY <1>13 DEF WritePage
<1>14. ASSUME NEW t \in Threads, CommitRekey(t) PROVE CallInv'
  BY <1>14 DEF CommitRekey, Return
<1>15. ASSUME NEW t \in Threads, RekeyFails(t) PROVE CallInv'
  BY <1>15 DEF RekeyFails, Return
<1>16. ASSUME UNCHANGED vars PROVE CallInv'
  BY <1>16 DEF vars
<1> QED
  BY <1>1, <1>2, <1>3, <1>4, <1>5, <1>6, <1>7, <1>8, <1>9, <1>10, <1>11, <1>12, <1>13, <1>14, <1>15, <1>16 DEF Next

(* A step that moves no event leaves each where it is. *)
LEMMA PlaceFrame ==
    ASSUME NEW e \in Events, PlaceOf(e),
           UNCHANGED <<pending, batch, uncommitted, stored, erased, lost, author>>
    PROVE  PlaceOf(e)'
BY DEF PlaceOf, InFlight

(* Every step moves an event from one place to one other. *)
LEMMA PlaceStep ==
    ASSUME TypeOK, CallInv, OnePlace, [Next]_vars
    PROVE  OnePlace'
<1> SUFFICES ASSUME NEW e \in Events PROVE PlaceOf(e)'
  BY TypeStep, PlaceOfAll
<1>0. PlaceOf(e)
  BY PlaceOfEach
<1>1. ASSUME Age PROVE PlaceOf(e)'
  BY <1>1, <1>0, PlaceFrame DEF Age, bufVars, ctlVars, txnVars, rowVars, movVars
<1>2. ASSUME Crash PROVE PlaceOf(e)'
  BY <1>2, <1>0 DEF Crash, TypeOK, PlaceOf, InFlight, bufVars, ctlVars, txnVars, rowVars, movVars
<1>3. ASSUME NEW t \in Threads, NEW S \in SUBSET Events, Extend(t, S) PROVE PlaceOf(e)'
  <2> DEFINE all == pending \cup S
  <2>1. /\ author' = [x \in Events |-> IF x \in S THEN t ELSE author[x]]
        /\ S \subseteq Events /\ \A x \in S : author[x] = NoThread
        /\ UNCHANGED <<call, inTx, uncommitted, stored, subject, erased, page, moved, lost, covered>>
    BY <1>3 DEF Extend, Appended, bufVars, ctlVars, txnVars, rowVars, movVars
  <2>2. CASE batch' = [batch EXCEPT ![t] = all] /\ pending' = {} /\ aged' = FALSE
             /\ at' = [at EXCEPT ![t] = "writing"]
    <3>1. at[t] # "writing" /\ batch[t] = {}
      BY <1>3 DEF Extend, CallInv
    <3>2. InFlight(t)' = all \cup InFlight(t)
      BY <2>1, <2>2, <3>1 DEF InFlight, TypeOK
    <3>3. \A u \in Threads \ {t} : InFlight(u)' = InFlight(u)
      BY <2>1, <2>2 DEF InFlight, TypeOK
    <3> QED
      BY <1>0, <2>1, <2>2, <3>1, <3>2, <3>3, EventStoreAssumption DEF TypeOK, PlaceOf, InFlight
  <2>3. CASE pending' = all /\ UNCHANGED <<aged, at, batch>>
    BY <1>0, <2>1, <2>3, EventStoreAssumption DEF TypeOK, PlaceOf, InFlight
  <2> QED
    BY <1>3, <2>2, <2>3 DEF Extend, Take
<1>4. ASSUME NEW t \in Threads, NEW c \in Calls, Enter(t, c) PROVE PlaceOf(e)'
  BY <1>4, <1>0 DEF Enter, TypeOK, PlaceOf, InFlight, bufVars, ctlVars, txnVars, rowVars, movVars, Take, CallInv
<1>5. ASSUME NEW t \in Threads, NEW b \in Backends, WriteBackend(t, b) PROVE PlaceOf(e)'
  BY <1>5, <1>0 DEF WriteBackend, TypeOK, PlaceOf, InFlight, bufVars, ctlVars, txnVars, rowVars, movVars
<1>6. ASSUME NEW t \in Threads, NEW b \in Backends, WriteFails(t, b) PROVE PlaceOf(e)'
  BY <1>6, <1>0 DEF WriteFails, TypeOK, PlaceOf, InFlight, bufVars, ctlVars, txnVars, rowVars, movVars, Return
<1>7. ASSUME NEW t \in Threads, Written(t) PROVE PlaceOf(e)'
  BY <1>7, <1>0, PlaceFrame DEF Written, bufVars, ctlVars, txnVars, rowVars, movVars
<1>8. ASSUME NEW t \in Threads, BeginTx(t) PROVE PlaceOf(e)'
  BY <1>8, <1>0, PlaceFrame DEF BeginTx, bufVars, ctlVars, txnVars, rowVars, movVars
<1>9. ASSUME NEW t \in Threads, EndTx(t) PROVE PlaceOf(e)'
  BY <1>9, <1>0 DEF EndTx, TypeOK, PlaceOf, InFlight, bufVars, ctlVars, txnVars, rowVars, movVars
<1>10. ASSUME NEW t \in Threads, Query(t) PROVE PlaceOf(e)'
  BY <1>10, <1>0, PlaceFrame DEF Query, bufVars, ctlVars, txnVars, rowVars, movVars
<1>11. ASSUME NEW t \in Threads, Purge(t) PROVE PlaceOf(e)'
  BY <1>11, <1>0 DEF Purge, TypeOK, PlaceOf, InFlight, bufVars, ctlVars, txnVars, rowVars, movVars, Return, RowsAbout
<1>12. ASSUME NEW t \in Threads, ReadPage(t) PROVE PlaceOf(e)'
  BY <1>12, <1>0, PlaceFrame DEF ReadPage, bufVars, ctlVars, txnVars, rowVars, movVars
<1>13. ASSUME NEW t \in Threads, WritePage(t) PROVE PlaceOf(e)'
  BY <1>13, <1>0, PlaceFrame DEF WritePage, bufVars, ctlVars, txnVars, rowVars, movVars
<1>14. ASSUME NEW t \in Threads, CommitRekey(t) PROVE PlaceOf(e)'
  BY <1>14, <1>0, PlaceFrame DEF CommitRekey, bufVars, ctlVars, txnVars, rowVars, movVars
<1>15. ASSUME NEW t \in Threads, RekeyFails(t) PROVE PlaceOf(e)'
  BY <1>15, <1>0, PlaceFrame DEF RekeyFails, bufVars, ctlVars, txnVars, rowVars, movVars
<1>16. ASSUME UNCHANGED vars PROVE PlaceOf(e)'
  BY <1>16, <1>0, PlaceFrame DEF vars, bufVars, ctlVars, txnVars, rowVars, movVars
<1> QED
  BY <1>1, <1>2, <1>3, <1>4, <1>5, <1>6, <1>7, <1>8, <1>9, <1>10, <1>11, <1>12, <1>13, <1>14, <1>15, <1>16 DEF Next

(* Every step keeps what the flushes answer for. *)
LEMMA FlushStep ==
    ASSUME TypeOK, CallInv, FlushInv, [Next]_vars
    PROVE  FlushInv'
<1> USE DEF TypeOK, CallInv, FlushInv, InFlight, bufVars, ctlVars, txnVars, rowVars, movVars
<1>1. ASSUME Age PROVE FlushInv'
  BY <1>1 DEF Age
<1>2. ASSUME Crash PROVE FlushInv'
  BY <1>2 DEF Crash
<1>3. ASSUME NEW t \in Threads, NEW S \in SUBSET Events, Extend(t, S) PROVE FlushInv'
  <2>1. UNCHANGED <<call, inTx, stored, erased, lost, covered>> /\ at[t] = "idle"
        /\ \E B \in SUBSET Events : batch' = [batch EXCEPT ![t] = B]
    BY <1>3 DEF Extend, Take
  <2> QED
    BY <2>1
<1>4. ASSUME NEW t \in Threads, NEW c \in Calls, Enter(t, c) PROVE FlushInv'
  BY <1>4 DEF Enter, Take
<1>5. ASSUME NEW t \in Threads, NEW b \in Backends, WriteBackend(t, b) PROVE FlushInv'
  BY <1>5 DEF WriteBackend
<1>6. ASSUME NEW t \in Threads, NEW b \in Backends, WriteFails(t, b) PROVE FlushInv'
  BY <1>6 DEF WriteFails, Return
<1>7. ASSUME NEW t \in Threads, Written(t) PROVE FlushInv'
  BY <1>7 DEF Written
<1>8. ASSUME NEW t \in Threads, BeginTx(t) PROVE FlushInv'
  BY <1>8 DEF BeginTx
<1>9. ASSUME NEW t \in Threads, EndTx(t) PROVE FlushInv'
  BY <1>9 DEF EndTx
<1>10. ASSUME NEW t \in Threads, Query(t) PROVE FlushInv'
  BY <1>10 DEF Query, Return
<1>11. ASSUME NEW t \in Threads, Purge(t) PROVE FlushInv'
  BY <1>11 DEF Purge, Return, RowsAbout
<1>12. ASSUME NEW t \in Threads, ReadPage(t) PROVE FlushInv'
  BY <1>12 DEF ReadPage
<1>13. ASSUME NEW t \in Threads, WritePage(t) PROVE FlushInv'
  BY <1>13 DEF WritePage
<1>14. ASSUME NEW t \in Threads, CommitRekey(t) PROVE FlushInv'
  BY <1>14 DEF CommitRekey, Return
<1>15. ASSUME NEW t \in Threads, RekeyFails(t) PROVE FlushInv'
  BY <1>15 DEF RekeyFails, Return
<1>16. ASSUME UNCHANGED vars PROVE FlushInv'
  BY <1>16 DEF vars
<1> QED
  BY <1>1, <1>2, <1>3, <1>4, <1>5, <1>6, <1>7, <1>8, <1>9, <1>10, <1>11, <1>12, <1>13, <1>14, <1>15, <1>16 DEF Next
-----------------------------------------------------------------------------
LEMMA InvInit == Init => Inv
<1> SUFFICES ASSUME Init PROVE Inv
  OBVIOUS
<1>1. TypeOK /\ CallInv /\ FlushInv
  BY AppendCall, FS_EmptySet, EventStoreAssumption DEF Init, TypeOK, CallInv, FlushInv
<1>2. \A t \in Threads : InFlight(t) = {}
  BY DEF Init, InFlight
<1>3. Appended = {}
  BY DEF Init, Appended
<1>4. OnePlace
  BY <1>2, <1>3 DEF Init, OnePlace
<1> QED
  BY <1>1, <1>4 DEF Inv

LEMMA InvStep == Inv /\ [Next]_vars => Inv'
BY TypeStep, CallStep, PlaceStep, FlushStep DEF Inv

LEMMA InvAlways == Spec => []Inv
BY InvInit, InvStep, PTL DEF Spec

(* The variables keep their types: _oldest_at is set only while something  *)
(* is pending, and every call is one the store offers.                     *)
THEOREM EventStoreTypes == Spec => []TypeOK
<1>1. Inv => TypeOK
  BY DEF Inv
<1> QED
  BY <1>1, InvAlways, PTL

(* No event is dropped or stored twice: each one that was appended is in   *)
(* exactly one place, whatever the threads do to the buffer.               *)
THEOREM EventInOnePlace == Spec => []OnePlace
<1>1. Inv => OnePlace
  BY DEF Inv
<1> QED
  BY <1>1, InvAlways, PTL

(* A query, purge or rekey reaches the backend only after everything that  *)
(* was buffered when it was called.                                        *)
THEOREM FlushedBeforeBackend == Spec => []FlushCovers
<1>1. Inv => FlushCovers
  <2> SUFFICES ASSUME Inv, NEW t \in Threads, at[t] \in {"ready", "paging", "committing"}
               PROVE  covered[t] \subseteq stored \cup erased \cup lost
    BY DEF FlushCovers
  <2>1. batch[t] = {}
    BY DEF Inv, CallInv
  <2> QED
    BY <2>1 DEF Inv, FlushInv
<1> QED
  BY <1>1, InvAlways, PTL

(* The buffer never holds a full batch nobody has taken. *)
THEOREM BufferStaysBelowSize ==
    ASSUME IsFiniteSet(Events)
    PROVE  Spec => []BufferBounded
<1>1. Init => BufferBounded
  BY FS_EmptySet, EventStoreAssumption DEF Init, BufferBounded
<1>2. Inv /\ BufferBounded /\ [Next]_vars => BufferBounded'
  <2> SUFFICES ASSUME Inv, BufferBounded, [Next]_vars PROVE BufferBounded'
    OBVIOUS
  <2>1. Cardinality({}) = 0 /\ 0 < Size
    BY FS_EmptySet, EventStoreAssumption
  <2>2. ASSUME pending' = {} PROVE BufferBounded'
    <3>1. Cardinality(pending') = 0
      BY <2>1, <2>2, Zenon
    <3> QED
      BY <2>1, <3>1 DEF BufferBounded
  <2>3. ASSUME UNCHANGED pending PROVE BufferBounded'
    BY <2>3 DEF BufferBounded
  <2>4. ASSUME NEW t \in Threads, NEW S \in SUBSET Events, Extend(t, S)
        PROVE  BufferBounded'
    <3> DEFINE all == pending \cup S
    <3>1. CASE pending' = {}
      BY <2>2, <3>1
    <3>2. CASE pending' = all /\ ~(Cardinality(all) >= Size)
      <4>1. IsFiniteSet(all)
        BY FS_Subset DEF Inv, TypeOK
      <4>2. Cardinality(all) \in Nat
        BY <4>1, FS_CardinalityType
      <4>3. Cardinality(all) < Size
        BY <3>2, <4>2, EventStoreAssumption
      <4> QED
        BY <3>2, <4>3, Zenon DEF BufferBounded
    <3> QED
      BY <2>4, <3>1, <3>2 DEF Extend, Take
  <2>5. \/ pending' = {} \/ UNCHANGED pending
        \/ \E t \in Threads, S \in SUBSET Events : Extend(t, S)
    BY DEF Next, Age, Crash, Enter, Take, WriteBackend, WriteFails, Written, BeginTx,
           EndTx, Query, Purge, ReadPage, WritePage, CommitRekey, RekeyFails, bufVars, vars
  <2> QED
    BY <2>2, <2>3, <2>4, <2>5
<1> QED
  BY <1>1, <1>2, InvAlways, PTL DEF Spec

-----------------------------------------------------------------------------
(* What a rekey answers for and has not updated has another subject by the *)
(* time it commits.                                                        *)
RekeyInv ==
    \A t \in Threads : at[t] = "committing" =>
        \A e \in (covered[t] \cap stored) \ Routed :
            subject[e] # call[t][2][1] \/ e \in moved[t]

(* Nothing that is purged or lost comes back. *)
LEMMA GoneStaysGone ==
    ASSUME [Next]_vars
    PROVE  erased \subseteq erased' /\ lost \subseteq lost'
BY Zenon DEF Next, vars, bufVars, ctlVars, txnVars, rowVars, movVars, Age, Crash, Extend, Enter,
       Take, Return, WriteBackend, WriteFails, Written, BeginTx, EndTx, Query, Purge,
       ReadPage, WritePage, CommitRekey, RekeyFails

(* Only the commit of a rekey changes subjects. *)
LEMMA SubjectsChange ==
    ASSUME [Next]_vars
    PROVE  subject' = subject \/ \E u \in Threads : CommitRekey(u)
BY Zenon DEF Next, vars, bufVars, ctlVars, txnVars, rowVars, movVars, Age, Crash, Extend, Enter,
       Take, Return, WriteBackend, WriteFails, Written, BeginTx, EndTx, Query, Purge,
       ReadPage, WritePage, RekeyFails

(* A thread gets to the commit by reading an empty page, and a thread that *)
(* stays there keeps its call.                                             *)
LEMMA Committing ==
    ASSUME TypeOK, CallInv, [Next]_vars, NEW t \in Threads, at'[t] = "committing"
    PROVE  \/ ReadPage(t)
           \/ /\ at[t] = "committing"
              /\ call'[t] = call[t]
              /\ covered'[t] = covered[t]
              /\ moved'[t] = moved[t]
<1> USE DEF TypeOK, CallInv, bufVars, ctlVars, txnVars, rowVars, movVars
<1> DEFINE Goal == \/ ReadPage(t)
                   \/ /\ at[t] = "committing"
                      /\ call'[t] = call[t]
                      /\ covered'[t] = covered[t]
                      /\ moved'[t] = moved[t]
<1>1. ASSUME Age PROVE Goal
  BY <1>1 DEF Age
<1>2. ASSUME Crash PROVE Goal
  BY <1>2 DEF Crash
<1>3. ASSUME NEW u \in Threads, NEW S \in SUBSET Events, Extend(u, S) PROVE Goal
  BY <1>3 DEF Extend, Take
<1>4. ASSUME NEW u \in Threads, NEW c \in Calls, Enter(u, c) PROVE Goal
  BY <1>4 DEF Enter, Take
<1>5. ASSUME NEW u \in Threads, NEW b \in Backends, WriteBackend(u, b) PROVE Goal
  BY <1>5 DEF WriteBackend
<1>6. ASSUME NEW u \in Threads, NEW b \in Backends, WriteFails(u, b) PROVE Goal
  BY <1>6 DEF WriteFails, Return
<1>7. ASSUME NEW u \in Threads, Written(u) PROVE Goal
  BY <1>7 DEF Written
<1>8. ASSUME NEW u \in Threads, BeginTx(u) PROVE Goal
  BY <1>8 DEF BeginTx
<1>9. ASSUME NEW u \in Threads, EndTx(u) PROVE Goal
  BY <1>9 DEF EndTx
<1>10. ASSUME NEW u \in Threads, Query(u) PROVE Goal
  BY <1>10 DEF Query, Return
<1>11. ASSUME NEW u \in Threads, Purge(u) PROVE Goal
  BY <1>11 DEF Purge, Return
<1>12. ASSUME NEW u \in Threads, ReadPage(u) PROVE Goal
  BY <1>12 DEF ReadPage
<1>13. ASSUME NEW u \in Threads, WritePage(u) PROVE Goal
  BY <1>13 DEF WritePage
<1>14. ASSUME NEW u \in Threads, CommitRekey(u) PROVE Goal
  BY <1>14 DEF CommitRekey, Return
<1>15. ASSUME NEW u \in Threads, RekeyFails(u) PROVE Goal
  BY <1>15 DEF RekeyFails, Return
<1>16. ASSUME UNCHANGED vars PROVE Goal
  BY <1>16 DEF vars
<1> QED
  BY <1>1, <1>2, <1>3, <1>4, <1>5, <1>6, <1>7, <1>8, <1>9, <1>10, <1>11, <1>12, <1>13, <1>14, <1>15, <1>16 DEF Next

(* A subject nothing is merged into is empty once a rekey leaves it.       *)
LEMMA RekeyStep ==
    ASSUME \A m, n \in Merges : m[1] # n[2],
           Inv, RekeyInv, [Next]_vars
    PROVE  RekeyInv'
<1> SUFFICES ASSUME NEW t \in Threads, at'[t] = "committing", NEW e \in Events,
                    e \in covered'[t], e \in stored', e \notin Routed,
                    subject'[e] = call'[t][2][1]
             PROVE  e \in moved'[t]
  BY TypeStep DEF RekeyInv, Inv, TypeOK
<1>1. CASE ReadPage(t)
  BY <1>1 DEF ReadPage, RowsAbout, Inv, TypeOK, bufVars, rowVars
<1>2. CASE /\ at[t] = "committing"
           /\ call'[t] = call[t] /\ covered'[t] = covered[t] /\ moved'[t] = moved[t]
  <2>1. call[t] \in Calls /\ call[t][1] = "rekey" /\ batch[t] = {}
    BY <1>2 DEF Inv, TypeOK, CallInv
  <2>2. call[t][2] \in Merges
    BY <2>1, RekeyCall
  <2>3. e \in stored
    <3>1. e \in stored \cup erased \cup lost
      BY <1>2, <2>1 DEF Inv, FlushInv
    <3>2. e \notin erased' /\ e \notin lost'
      BY PlaceStep DEF Inv, OnePlace
    <3> QED
      BY <3>1, <3>2, GoneStaysGone
  <2>4. CASE subject' = subject
    BY <1>2, <2>3, <2>4 DEF RekeyInv
  <2>5. ASSUME NEW u \in Threads, CommitRekey(u) PROVE e \in moved'[t]
    <3>1. call[u] \in Calls /\ call[u][1] = "rekey"
      BY <2>5 DEF CommitRekey, Inv, TypeOK, CallInv
    <3>2. call[u][2] \in Merges
      BY <3>1, RekeyCall
    <3>3. subject'[e] = subject[e]
      BY <1>2, <2>2, <2>5, <3>2 DEF CommitRekey
    <3> QED
      BY <1>2, <2>3, <3>3 DEF RekeyInv
  <2> QED
    BY <2>4, <2>5, SubjectsChange
<1> QED
  BY <1>1, <1>2, Committing DEF Inv

(* A rekey that commits leaves no row its flush answers for under the old  *)
(* subject, as long as no other rekey merges into that subject.            *)
THEOREM RekeyLeavesNone ==
    ASSUME \A m, n \in Merges : m[1] # n[2]
    PROVE  Spec => RekeyMovesAll
<1>1. Init => RekeyInv
  BY DEF Init, RekeyInv
<1>2. Inv /\ RekeyInv /\ [Next]_vars => RekeyInv'
  BY RekeyStep
<1>3. Inv /\ RekeyInv /\ [Next]_vars =>
        [\A t \in Threads : CommitRekey(t) =>
            \A e \in (covered[t] \cap stored) \ Routed : subject'[e] # call[t][2][1]]_vars
  <2> SUFFICES ASSUME Inv, RekeyInv, NEW t \in Threads, CommitRekey(t), NEW e \in Events,
                      e \in (covered[t] \cap stored) \ Routed
               PROVE  subject'[e] # call[t][2][1]
    BY DEF Inv, TypeOK
  <2>1. call[t] \in Calls /\ call[t][1] = "rekey"
    BY DEF CommitRekey, Inv, TypeOK, CallInv
  <2>2. call[t][2] \in Merges
    BY <2>1, RekeyCall
  <2> QED
    BY <2>2 DEF CommitRekey, RekeyInv
<1> QED
  BY <1>1, <1>2, <1>3, InvAlways, PTL DEF Spec, RekeyMovesAll
=============================================================================
