------------------------- MODULE EmitTransactionProofs -------------------------
(***************************************************************************)
(* Theorems about EmitTransaction, for any units of work, any depth of     *)
(* nesting, every setting and any number of crashes.                       *)
(***************************************************************************)
EXTENDS EmitTransaction, TLAPS

(* Where writes are: a mutation lies at one level, and is not committed;   *)
(* an event lies where its mutation does, or further in, or describes a    *)
(* committed mutation.                                                     *)
PlaceInv ==
    /\ \A l \in Levels : muts[l] \cap saved = {}
    /\ \A l, m \in Levels : l # m => muts[l] \cap muts[m] = {}
    /\ \A l, r \in Levels : r < l => muts[l] \cap rows[r] = {}
    /\ \A r \in Levels : \A u \in rows[r] : u \in saved \/ \E l \in Levels : u \in muts[l]
    /\ stored \subseteq saved

(* The row of a unit and its mutation are undone together: no savepoint    *)
(* lies between them. Or the transaction is marked, down to the mutation.  *)
Bound(u, l) ==
    \/ \E r \in l .. open : u \in rows[r] /\ \A k \in own : ~(l < k /\ k <= r)
    \/ broken /\ \A k \in own : k <= l

JoinInv ==
    /\ \A u \in joined : u \in stored \/ \E l \in Levels : u \in muts[l]
    /\ \A u \in joined : \A l \in Levels : u \in muts[l] => Bound(u, l)

Inv == TypeOK /\ PlaceInv /\ JoinInv
-----------------------------------------------------------------------------
LEMMA InvInit == Init => Inv
<1> SUFFICES ASSUME Init PROVE Inv
  OBVIOUS
<1> USE EmitAssumption DEF Init
<1>1. TypeOK
  <2>1. muts \in [Levels -> SUBSET Units] /\ rows \in [Levels -> SUBSET Units]
    BY Zenon
  <2>2. open \in 0 .. MaxDepth /\ own \subseteq 1 .. open /\ ~(open > 0)
        /\ crashes \in 0 .. MaxCrashes
    OBVIOUS
  <2>3. \A l \in Levels : muts[l] = {} /\ rows[l] = {}
    OBVIOUS
  <2>4. mode \in Modes /\ broken = FALSE /\ raising = FALSE /\ saved = {} /\ stored = {}
        /\ ready = {} /\ dispatched = {} /\ joined = {}
    OBVIOUS
  <2> QED
    BY <2>1, <2>2, <2>3, <2>4, Zenon DEF TypeOK
<1>2. PlaceInv
  BY DEF PlaceInv
<1>3. JoinInv
  BY DEF JoinInv
<1> QED
  BY <1>1, <1>2, <1>3 DEF Inv

LEMMA EnterStep ==
    ASSUME Inv, NEW savepoint \in BOOLEAN, Enter(savepoint)
    PROVE  Inv'
<1> USE EmitAssumption DEF Inv, Enter, txVars, dbVars, Levels
<1>1. TypeOK'
  BY DEF TypeOK
<1>2. PlaceInv'
  BY DEF TypeOK, PlaceInv
<1>3. JoinInv'
  BY DEF TypeOK, PlaceInv, JoinInv, Bound
<1> QED
  BY <1>1, <1>2, <1>3

(* Closing a block that keeps its writes moves them one level out. *)
LEMMA MergeMoves ==
    ASSUME TypeOK, open > 1, Merge
    PROVE  /\ muts' \in [Levels -> SUBSET Units] /\ rows' \in [Levels -> SUBSET Units]
           /\ muts'[open] = {} /\ muts'[open - 1] = muts[open - 1] \cup muts[open]
           /\ rows'[open] = {} /\ rows'[open - 1] = rows[open - 1] \cup rows[open]
           /\ \A l \in Levels \ {open - 1, open} : muts'[l] = muts[l] /\ rows'[l] = rows[l]
           /\ open \in Levels /\ open - 1 \in Levels
BY EmitAssumption DEF TypeOK, Merge, Levels

LEMMA MergeKeepsPlaces ==
    ASSUME TypeOK, PlaceInv, open > 1, Merge, UNCHANGED dbVars
    PROVE  PlaceInv'
<1>1. /\ muts' \in [Levels -> SUBSET Units] /\ rows' \in [Levels -> SUBSET Units]
      /\ muts'[open] = {} /\ muts'[open - 1] = muts[open - 1] \cup muts[open]
      /\ rows'[open] = {} /\ rows'[open - 1] = rows[open - 1] \cup rows[open]
      /\ \A l \in Levels \ {open - 1, open} : muts'[l] = muts[l] /\ rows'[l] = rows[l]
      /\ open \in Levels /\ open - 1 \in Levels
  BY MergeMoves
<1>2. open \in Nat
  BY DEF TypeOK
<1>3. \A l \in Levels : l > open => muts[l] = {} /\ rows[l] = {}
  BY DEF TypeOK
<1> USE DEF dbVars
<1>4. \A l \in Levels : muts'[l] \cap saved' = {}
  BY <1>1, <1>2 DEF PlaceInv
<1>5. \A l, m \in Levels : l # m => muts'[l] \cap muts'[m] = {}
  BY <1>1, <1>2 DEF PlaceInv
<1>6. \A l, r \in Levels : r < l => muts'[l] \cap rows'[r] = {}
  <2> SUFFICES ASSUME NEW l \in Levels, NEW r \in Levels, r < l,
                      NEW u, u \in muts'[l], u \in rows'[r]
               PROVE  FALSE
    OBVIOUS
  <2>0. l \in Nat /\ r \in Nat
    BY DEF Levels
  <2>1. l # open /\ r # open
    BY <1>1
  <2>2. l < open
    BY <1>1, <1>2, <1>3, <2>0, <2>1
  <2>3. r < open - 1 /\ u \in rows[r]
    BY <1>1, <1>2, <2>0, <2>2
  <2>4. PICK m \in Levels : m \in {l, open} /\ u \in muts[m]
    BY <1>1, <2>1
  <2>5. r < m
    BY <1>2, <2>0, <2>2, <2>3, <2>4
  <2> QED
    BY <2>3, <2>4, <2>5 DEF PlaceInv
<1>7. \A r \in Levels : \A u \in rows'[r] : u \in saved' \/ \E l \in Levels : u \in muts'[l]
  <2> SUFFICES ASSUME NEW r \in Levels, NEW u, u \in rows'[r], u \notin saved
               PROVE  \E l \in Levels : u \in muts'[l]
    OBVIOUS
  <2>1. PICK q \in Levels : u \in rows[q]
    BY <1>1
  <2>2. PICK l \in Levels : u \in muts[l]
    BY <2>1 DEF PlaceInv
  <2> QED
    BY <1>1, <2>2
<1> QED
  BY <1>4, <1>5, <1>6, <1>7 DEF PlaceInv

(* A unit stays bound to its mutation when both move out, or one of them.  *)
LEMMA MergeKeepsJoins ==
    ASSUME Inv, open > 1, Merge, Close, UNCHANGED <<stored, joined>>, broken => broken',
           broken => open \notin own
    PROVE  JoinInv'
<1> USE DEF Inv
<1>1. /\ muts'[open] = {} /\ muts'[open - 1] = muts[open - 1] \cup muts[open]
      /\ rows'[open] = {} /\ rows'[open - 1] = rows[open - 1] \cup rows[open]
      /\ \A l \in Levels \ {open - 1, open} : muts'[l] = muts[l] /\ rows'[l] = rows[l]
      /\ open \in Levels /\ open - 1 \in Levels
  BY MergeMoves
<1>2. open \in Nat /\ open' = open - 1 /\ own' = own \ {open}
  BY DEF TypeOK, Close
<1>3. \A k \in own : k \in Nat /\ k <= open
  BY DEF TypeOK
<1>4. ASSUME NEW u \in joined PROVE u \in stored \/ \E l \in Levels : u \in muts'[l]
  BY <1>1, <1>4 DEF JoinInv
<1>5. ASSUME NEW u \in joined, NEW l \in Levels, u \in muts'[l] PROVE Bound(u, l)'
  <2>0. l \in Nat /\ l # open
    BY <1>1, <1>5 DEF Levels
  <2>1. PICK m \in Levels : u \in muts[m] /\ (m = l \/ (m = open /\ l = open - 1))
    BY <1>1, <1>5
  <2>2. m \in Nat /\ l <= m /\ m <= open /\ l < open
    <3>1. m \in Nat
      BY DEF Levels
    <3>2. ~(m > open)
      BY <2>1 DEF TypeOK
    <3> QED
      BY <1>2, <2>0, <2>1, <3>1, <3>2
  <2>3. Bound(u, m)
    BY <2>1 DEF JoinInv
  <2>4. CASE \E r \in m .. open : u \in rows[r] /\ \A k \in own : ~(m < k /\ k <= r)
    <3>1. PICK r \in m .. open : u \in rows[r] /\ \A k \in own : ~(m < k /\ k <= r)
      BY <2>4
    <3>2. r \in Levels /\ r \in Nat
      BY <1>1, <1>2, <2>1, <2>2, <3>1, EmitAssumption DEF Levels
    <3>3. CASE r = open
      <4>1. u \in rows'[open - 1] /\ open - 1 \in l .. open'
        BY <1>1, <1>2, <2>0, <2>2, <3>1, <3>3
      <4>2. \A k \in own' : ~(l < k /\ k <= open - 1)
        BY <1>2, <1>3, <2>0, <2>1, <2>2, <3>1, <3>3
      <4> QED
        BY <4>1, <4>2 DEF Bound
    <3>4. CASE r # open
      <4>1. m = l /\ r \in l .. open'
        BY <1>2, <2>0, <2>1, <2>2, <3>1, <3>2, <3>4
      <4>2. u \in rows'[r]
        BY <1>1, <3>1, <3>2, <3>4
      <4>3. \A k \in own' : ~(l < k /\ k <= r)
        BY <1>2, <3>1, <4>1
      <4> QED
        BY <4>1, <4>2, <4>3 DEF Bound
    <3> QED
      BY <3>3, <3>4
  <2>5. CASE broken /\ \A k \in own : k <= m
    <3>1. broken' /\ open \notin own /\ own' = own
      BY <1>2, <2>5
    <3>2. \A k \in own' : k <= l
      <4>1. CASE m = l
        BY <2>5, <3>1, <4>1
      <4>2. CASE m = open /\ l = open - 1
        BY <1>2, <1>3, <3>1, <4>2
      <4> QED
        BY <2>1, <4>1, <4>2
    <3> QED
      BY <3>1, <3>2 DEF Bound
  <2> QED
    BY <2>3, <2>4, <2>5 DEF Bound
<1> QED
  BY <1>4, <1>5 DEF JoinInv

LEMMA ExitNestedStep ==
    ASSUME Inv, ExitNested
    PROVE  Inv'
<1> USE EmitAssumption DEF Inv, ExitNested
<1>1. TypeOK'
  BY MergeMoves DEF Close, TypeOK, dbVars, Levels
<1>2. PlaceInv'
  BY MergeKeepsPlaces
<1>3. JoinInv'
  BY MergeKeepsJoins DEF dbVars
<1> QED
  BY <1>1, <1>2, <1>3

LEMMA CommitStep ==
    ASSUME Inv, Commit
    PROVE  Inv'
<1> USE EmitAssumption DEF Inv, Commit, txVars, dbVars, Levels, Close
<1>1. TypeOK'
  BY DEF TypeOK
<1>2. PlaceInv'
  BY DEF TypeOK, PlaceInv
<1>3. JoinInv'
  BY DEF TypeOK, PlaceInv, JoinInv, Bound
<1> QED
  BY <1>1, <1>2, <1>3

LEMMA CommitFailsStep ==
    ASSUME Inv, CommitFails
    PROVE  Inv'
<1> USE EmitAssumption DEF Inv, CommitFails, txVars, dbVars, Levels, Close, Discard
<1>1. TypeOK'
  BY DEF TypeOK
<1>2. PlaceInv'
  BY DEF TypeOK, PlaceInv
<1>3. JoinInv'
  BY DEF TypeOK, PlaceInv, JoinInv, Bound
<1> QED
  BY <1>1, <1>2, <1>3

(* A block that is undone takes the units with it whose mutation it holds. *)
LEMMA DiscardStep ==
    ASSUME Inv, open > 0, open \in own, Discard, Close, UNCHANGED <<dbVars, ready, dispatched>>,
           broken' = FALSE, raising' \in BOOLEAN, UNCHANGED <<mode, crashes>>
    PROVE  Inv'
<1> USE EmitAssumption DEF Inv, dbVars
<1>1. /\ open \in Levels /\ open' = open - 1 /\ own' = own \ {open}
      /\ muts' \in [Levels -> SUBSET Units] /\ rows' \in [Levels -> SUBSET Units]
      /\ muts'[open] = {} /\ rows'[open] = {}
      /\ \A l \in Levels \ {open} : muts'[l] = muts[l] /\ rows'[l] = rows[l]
      /\ joined' = joined \ muts[open]
  BY DEF Discard, Close, TypeOK, Levels
<1>2. TypeOK'
  <2>1. open' \in 0 .. MaxDepth /\ own' \subseteq 1 .. open'
    BY <1>1 DEF TypeOK
  <2>2. open' > 0 => 1 \in own'
    BY <1>1 DEF TypeOK
  <2>3. \A l \in Levels : l > open' => muts'[l] = {} /\ rows'[l] = {}
    BY <1>1 DEF TypeOK, Levels
  <2> QED
    BY <1>1, <2>1, <2>2, <2>3 DEF TypeOK
<1>3. PlaceInv'
  <2>1. \A l \in Levels : muts'[l] \subseteq muts[l] /\ rows'[l] \subseteq rows[l]
    BY <1>1
  <2>2. ASSUME NEW r \in Levels, NEW u \in rows'[r], u \notin saved
        PROVE  \E l \in Levels : u \in muts'[l]
    <3>1. r # open /\ u \in rows[r]
      BY <1>1, <2>2
    <3>2. PICK l \in Levels : u \in muts[l]
      BY <2>2, <3>1 DEF PlaceInv
    <3>3. ~(r < l)
      BY <3>1, <3>2 DEF PlaceInv
    <3>4. ~(r > open)
      BY <3>1 DEF TypeOK
    <3>5. l # open
      BY <1>1, <3>1, <3>3, <3>4 DEF Levels
    <3> QED
      BY <1>1, <3>2, <3>5
  <2> QED
    BY <2>1, <2>2 DEF PlaceInv
<1>4. JoinInv'
  <2>1. ASSUME NEW u \in joined' PROVE u \in stored \/ \E l \in Levels : u \in muts'[l]
    BY <1>1, <2>1 DEF JoinInv
  <2>2. ASSUME NEW u \in joined', NEW l \in Levels, u \in muts'[l] PROVE Bound(u, l)'
    <3>1. u \in joined /\ l # open /\ u \in muts[l]
      BY <1>1, <2>2
    <3>2. l \in Nat /\ l < open
      <4>1. ~(l > open)
        BY <3>1 DEF TypeOK
      <4> QED
        BY <1>1, <3>1, <4>1 DEF Levels
    <3>3. ~(\A k \in own : k <= l)
      BY <1>1, <3>2 DEF Levels
    <3>4. PICK r \in l .. open : u \in rows[r] /\ \A k \in own : ~(l < k /\ k <= r)
      BY <3>1, <3>3 DEF JoinInv, Bound
    <3>5. r < open /\ r \in Levels
      BY <1>1, <3>2, <3>4 DEF Levels
    <3> QED
      BY <1>1, <3>2, <3>4, <3>5 DEF Bound, Levels
  <2> QED
    BY <2>1, <2>2 DEF JoinInv
<1> QED
  BY <1>2, <1>3, <1>4

LEMMA ExitUndoneStep ==
    ASSUME Inv, ExitUndone
    PROVE  Inv'
<1>1. CASE open \in own /\ Discard /\ broken' = FALSE
  BY <1>1, DiscardStep DEF ExitUndone, dbVars, Inv, TypeOK
<1>2. CASE open \notin own /\ Merge /\ broken' = TRUE /\ UNCHANGED joined
  <2> USE <1>2, EmitAssumption DEF Inv, ExitUndone
  <2>1. open > 1
    BY DEF TypeOK
  <2>2. TypeOK'
    <3>1. muts' \in [Levels -> SUBSET Units] /\ rows' \in [Levels -> SUBSET Units]
          /\ \A l \in Levels : l > open' => muts'[l] = {} /\ rows'[l] = {}
      BY <2>1, MergeMoves DEF Close, TypeOK, Levels
    <3>2. open' \in 0 .. MaxDepth /\ open' > 0 /\ own' \subseteq 1 .. open' /\ 1 \in own'
      BY <2>1 DEF Close, TypeOK
    <3> QED
      BY <3>1, <3>2 DEF TypeOK, dbVars
  <2>3. PlaceInv'
    BY <2>1, MergeKeepsPlaces
  <2>4. JoinInv'
    BY <2>1, MergeKeepsJoins DEF dbVars
  <2> QED
    BY <2>2, <2>3, <2>4
<1> QED
  BY <1>1, <1>2 DEF ExitUndone

LEMMA MutateStep ==
    ASSUME Inv, NEW u \in Units, Mutate(u)
    PROVE  Inv'
<1> USE EmitAssumption DEF Inv, Mutate, txVars, dbVars, Levels, Pending
<1>0. \A l \in Levels : u \notin muts[l]
  BY DEF TypeOK
<1>1. TypeOK'
  <2>1. CASE open = 0
    BY <2>1 DEF TypeOK
  <2>2. CASE open # 0 /\ broken
    BY <2>2 DEF TypeOK
  <2>3. CASE open # 0 /\ ~broken
    BY <2>3 DEF TypeOK
  <2> QED
    BY <2>1, <2>2, <2>3
<1>2. PlaceInv'
  <2>0. \A r \in Levels : u \notin rows[r]
    BY <1>0 DEF PlaceInv
  <2>1. CASE open = 0
    BY <1>0, <2>0, <2>1 DEF TypeOK, PlaceInv
  <2>2. CASE open # 0 /\ broken
    BY <2>2 DEF TypeOK, PlaceInv
  <2>3. CASE open # 0 /\ ~broken
    <3>1. /\ open \in Levels
          /\ muts'[open] = muts[open] \cup {u}
          /\ \A l \in Levels \ {open} : muts'[l] = muts[l]
          /\ rows' = rows /\ saved' = saved /\ stored' = stored /\ u \notin saved
      BY <2>3 DEF TypeOK
    <3> QED
      BY <1>0, <2>0, <3>1 DEF PlaceInv
  <2> QED
    BY <2>1, <2>2, <2>3
<1>3. JoinInv'
  BY DEF TypeOK, PlaceInv, JoinInv, Bound
<1> QED
  BY <1>1, <1>2, <1>3

LEMMA RaiseStep ==
    ASSUME Inv, Raise
    PROVE  Inv'
<1> USE EmitAssumption DEF Inv, Raise, txVars, dbVars, Levels
<1>1. TypeOK'
  <2>1. CASE UNCHANGED broken
    BY <2>1 DEF TypeOK
  <2>2. CASE open > 0 /\ broken' = TRUE
    BY <2>2 DEF TypeOK
  <2> QED
    BY <2>1, <2>2
<1>2. PlaceInv'
  BY DEF TypeOK, PlaceInv
<1>3. JoinInv'
  BY DEF TypeOK, PlaceInv, JoinInv, Bound
<1> QED
  BY <1>1, <1>2, <1>3

LEMMA SwallowStep ==
    ASSUME Inv, Swallow
    PROVE  Inv'
<1> USE EmitAssumption DEF Inv, Swallow, txVars, dbVars, Levels
<1>1. TypeOK'
  BY DEF TypeOK
<1>2. PlaceInv'
  BY DEF TypeOK, PlaceInv
<1>3. JoinInv'
  BY DEF TypeOK, PlaceInv, JoinInv, Bound
<1> QED
  BY <1>1, <1>2, <1>3

LEMMA EmitStep ==
    ASSUME Inv, NEW u \in Units, Emit(u)
    PROVE  Inv'
<1> USE EmitAssumption DEF Inv, Emit, txVars, dbVars, Levels, Pending, Emittable, Joins,
       Doomed
<1>1. TypeOK'
  BY DEF TypeOK
<1>2. PlaceInv'
  BY DEF TypeOK, PlaceInv
<1>3. JoinInv'
  BY DEF TypeOK, PlaceInv, JoinInv, Bound
<1> QED
  BY <1>1, <1>2, <1>3

LEMMA EmitFailsStep ==
    ASSUME Inv, NEW u \in Units, EmitFails(u)
    PROVE  Inv'
<1> USE EmitAssumption DEF Inv, EmitFails, txVars, dbVars, Levels, Pending, Emittable,
       Joins, Doomed
<1>1. TypeOK'
  BY DEF TypeOK
<1>2. PlaceInv'
  BY DEF TypeOK, PlaceInv
<1>3. JoinInv'
  <2>1. /\ broken' = TRUE
        /\ UNCHANGED <<open, own, muts, rows, stored>>
        /\ joined' \subseteq joined \cup {u}
    OBVIOUS
  <2>2. ASSUME NEW v \in joined' PROVE v \in stored \/ \E l \in Levels : v \in muts[l]
    <3>1. CASE v \in joined
      BY <3>1 DEF JoinInv
    <3>2. CASE v \notin joined
      BY <2>2, <3>2 DEF TypeOK
    <3> QED
      BY <3>1, <3>2
  <2>3. ASSUME NEW v \in joined', NEW l \in Levels, v \in muts[l] PROVE Bound(v, l)'
    <3>1. CASE v \in joined
      <4>1. Bound(v, l)
        BY <2>3, <3>1 DEF JoinInv
      <4> QED
        BY <2>1, <4>1 DEF Bound
    <3>2. CASE v \notin joined
      <4>1. v = u /\ \E m \in 1 .. open : (\A k \in own : k <= m) /\ u \in muts[m]
        BY <2>3, <3>2
      <4>2. PICK m \in 1 .. open : (\A k \in own : k <= m) /\ u \in muts[m]
        BY <4>1
      <4>3. m = l
        BY <2>3, <4>1, <4>2 DEF TypeOK, PlaceInv
      <4> QED
        BY <2>1, <4>1, <4>2, <4>3 DEF Bound
    <3> QED
      BY <3>1, <3>2
  <2> QED
    BY <2>1, <2>2, <2>3 DEF JoinInv
<1> QED
  BY <1>1, <1>2, <1>3

LEMMA EmitOutsideStep ==
    ASSUME Inv, NEW u \in Units, EmitOutside(u)
    PROVE  Inv'
<1> USE EmitAssumption DEF Inv, EmitOutside, txVars, dbVars, Levels, Pending, Emittable
<1>1. TypeOK'
  BY DEF TypeOK
<1>2. PlaceInv'
  BY DEF TypeOK, PlaceInv
<1>3. JoinInv'
  BY DEF TypeOK, PlaceInv, JoinInv, Bound
<1> QED
  BY <1>1, <1>2, <1>3

LEMMA DispatchStep ==
    ASSUME Inv, NEW u \in Units, Dispatch(u)
    PROVE  Inv'
<1> USE EmitAssumption DEF Inv, Dispatch, txVars, dbVars, Levels
<1>1. TypeOK'
  BY DEF TypeOK
<1>2. PlaceInv'
  BY DEF TypeOK, PlaceInv
<1>3. JoinInv'
  BY DEF TypeOK, PlaceInv, JoinInv, Bound
<1> QED
  BY <1>1, <1>2, <1>3

LEMMA CrashStep ==
    ASSUME Inv, Crash
    PROVE  Inv'
<1> USE EmitAssumption DEF Inv, Crash, txVars, dbVars, Levels, Pending
<1>1. TypeOK'
  <2>1. muts' \in [Levels -> SUBSET Units] /\ rows' \in [Levels -> SUBSET Units]
    BY Zenon
  <2>2. open' \in 0 .. MaxDepth /\ own' \subseteq 1 .. open' /\ ~(open' > 0)
        /\ crashes' \in 0 .. MaxCrashes
    BY DEF TypeOK
  <2>3. \A l \in Levels : muts'[l] = {} /\ rows'[l] = {}
    OBVIOUS
  <2>4. broken' = FALSE /\ raising' = FALSE /\ ready' = {} /\ joined' \subseteq joined
    OBVIOUS
  <2> QED
    BY <2>1, <2>2, <2>3, <2>4 DEF TypeOK
<1>2. PlaceInv'
  BY DEF TypeOK, PlaceInv
<1>3. JoinInv'
  BY DEF TypeOK, PlaceInv, JoinInv, Bound
<1> QED
  BY <1>1, <1>2, <1>3

-----------------------------------------------------------------------------
LEMMA NextStep == Inv /\ [Next]_vars => Inv'
<1> SUFFICES ASSUME Inv, [Next]_vars PROVE Inv'
  OBVIOUS
<1>1. CASE UNCHANGED vars
  BY <1>1 DEF vars, txVars, dbVars, Inv, TypeOK, PlaceInv, JoinInv, Bound
<1>2. CASE Atomic
  BY <1>2, EnterStep, ExitNestedStep, CommitStep, CommitFailsStep, ExitUndoneStep DEF Atomic
<1>3. CASE Caller
  BY <1>3, MutateStep, EmitStep, EmitFailsStep, EmitOutsideStep, RaiseStep, SwallowStep
  DEF Caller
<1>4. CASE \E u \in Units : Dispatch(u)
  BY <1>4, DispatchStep
<1>5. CASE Crash
  BY <1>5, CrashStep
<1> QED
  BY <1>1, <1>2, <1>3, <1>4, <1>5 DEF Next

(* The inductive invariant of nested atomic blocks: where a mutation and    *)
(* its row are pending, and that no savepoint lies between them unless the  *)
(* transaction is marked for rollback down to it (comm/actions.py:103).     *)
THEOREM EmitInvariant == Spec => []Inv
BY InvInit, NextStep, PTL DEF Spec

(* Every variable has its type, at any depth of blocks (comm/actions.py). *)
THEOREM EmitTypes == Spec => []TypeOK
BY EmitInvariant, PTL DEF Inv

(* "They commit together or not at all" (comm/actions.py): a mutation      *)
(* whose emit() was called where both are undone together is not committed *)
(* without its event, however the blocks nest and whoever swallows what.   *)
THEOREM EmitMutationCarriesEvent == Spec => []MutationCarriesEvent
<1>1. Inv => MutationCarriesEvent
  BY DEF Inv, PlaceInv, JoinInv, MutationCarriesEvent
<1> QED
  BY <1>1, EmitInvariant, PTL

(* No event of an uncommitted mutation is ever in the outbox.              *)
THEOREM EmitEventNeverLies == Spec => []EventNeverLies
<1>1. Inv => EventNeverLies
  BY DEF Inv, PlaceInv, EventNeverLies
<1> QED
  BY <1>1, EmitInvariant, PTL

-----------------------------------------------------------------------------
(* Every step is a step of AtLeastOnce, or stutters. *)
LEMMA StepOfPromise ==
    ASSUME Inv, [Next]_vars
    PROVE  [Promise!Next]_(Promise!vars)
<1> USE DEF Promise!vars, Inv
<1>1. CASE UNCHANGED <<stored, dispatched>>
  BY <1>1
<1>2. CASE stored' \in SUBSET Units /\ stored \subseteq stored' /\ dispatched' = dispatched
  <2>1. Promise!Publish(stored')
    BY <1>2 DEF Promise!Publish
  <2> QED
    BY <1>2, <2>1 DEF Promise!Next
<1>3. CASE \E u \in Units : Dispatch(u)
  <2>1. PICK u \in Units : Dispatch(u)
    BY <1>3
  <2>2. Promise!Progress({u}, {})
    BY <2>1 DEF Promise!Progress, Dispatch, dbVars, TypeOK
  <2> QED
    BY <2>2 DEF Promise!Next
<1>4. CASE UNCHANGED vars
  BY <1>1, <1>4 DEF vars, dbVars
<1>5. CASE Atomic
  <2>1. CASE \E savepoint \in BOOLEAN : Enter(savepoint)
    BY <1>1, <2>1 DEF Enter, dbVars
  <2>2. CASE ExitNested
    BY <1>1, <2>2 DEF ExitNested, dbVars
  <2>3. CASE Commit
    BY <1>2, <2>3, CommitStep DEF Commit, TypeOK
  <2>4. CASE CommitFails
    BY <1>1, <2>4 DEF CommitFails, dbVars
  <2>5. CASE ExitUndone
    BY <1>1, <2>5 DEF ExitUndone, dbVars
  <2> QED
    BY <1>5, <2>1, <2>2, <2>3, <2>4, <2>5 DEF Atomic
<1>6. CASE Caller
  <2>1. ASSUME NEW u \in Units, Mutate(u) PROVE UNCHANGED <<stored, dispatched>>
    BY <2>1 DEF Mutate
  <2>2. ASSUME NEW u \in Units, Emit(u) PROVE UNCHANGED <<stored, dispatched>>
    BY <2>2 DEF Emit, dbVars
  <2>3. ASSUME NEW u \in Units, EmitFails(u) PROVE UNCHANGED <<stored, dispatched>>
    BY <2>3 DEF EmitFails, dbVars
  <2>4. ASSUME NEW u \in Units, EmitOutside(u)
        PROVE  stored' \in SUBSET Units /\ stored \subseteq stored' /\ dispatched' = dispatched
    BY <2>4 DEF EmitOutside, TypeOK
  <2>5. ASSUME Raise \/ Swallow PROVE UNCHANGED <<stored, dispatched>>
    BY <2>5 DEF Raise, Swallow, dbVars
  <2> QED
    BY <1>1, <1>2, <1>6, <2>1, <2>2, <2>3, <2>4, <2>5 DEF Caller
<1>7. CASE Crash
  BY <1>1, <1>7 DEF Crash, dbVars
<1> QED
  BY <1>3, <1>4, <1>5, <1>6, <1>7 DEF Next

(* What emit() writes is at-least-once's events: an event exists from the  *)
(* commit of its transaction on, and is dispatched only then.              *)
THEOREM EmitImplementsAtLeastOnce == Spec => ImplementsAtLeastOnce
<1>1. Init => Promise!Init
  BY DEF Init, Promise!Init
<1> QED
  BY <1>1, EmitInvariant, StepOfPromise, PTL DEF Spec, ImplementsAtLeastOnce, Promise!Safety
===============================================================================
