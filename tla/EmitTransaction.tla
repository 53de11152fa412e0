-------------------------- MODULE EmitTransaction --------------------------
(***************************************************************************)
(* emit() and mutate_and_emit() of comm/actions.py inside the transaction  *)
(* of one thread: nested atomic blocks, with and without savepoints, over  *)
(* Django's connection state (external: an own savepoint per block, one    *)
(* needs_rollback flag for the connection).                                *)
(*                                                                         *)
(* A unit of work is a mutation and the event that describes it.  The      *)
(* caller is free: it opens blocks, mutates, emits, lets exceptions pass   *)
(* or swallows them, in any order.                                         *)
(***************************************************************************)
EXTENDS Naturals, FiniteSets

CONSTANTS
    Units,         \* mutations, and the events that describe them
    Modes,         \* values of EMIT_OUTSIDE_ATOMIC a behaviour may run under
    MaxDepth,      \* bound: nested atomic blocks
    MaxCrashes     \* bound: process deaths

ASSUME EmitAssumption ==
    /\ Modes \subseteq {"allow", "warn", "error"}
    /\ MaxDepth \in Nat \ {0}
    /\ MaxCrashes \in Nat

VARIABLES
    mode,          \* EMIT_OUTSIDE_ATOMIC
    open,          \* atomic blocks open on the connection
    own,           \* blocks that can be rolled back by themselves
    muts,          \* uncommitted mutations of each block
    rows,          \* uncommitted outbox rows, with their on_commit callback
    broken,        \* needs_rollback
    raising,       \* an exception is on its way up
    saved,         \* committed mutations
    stored,        \* committed outbox rows
    ready,         \* rows whose on_commit callback has still to run
    dispatched,    \* rows handed to dispatch_one
    joined,        \* units whose emit() ran where their mutation was pending
    crashes

txVars   == <<open, own, muts, rows, broken>>
dbVars   == <<saved, stored>>
vars == <<mode, txVars, raising, dbVars, ready, dispatched, joined, crashes>>

Levels == 1 .. MaxDepth

TypeOK ==
    /\ mode \in Modes
    /\ open \in 0 .. MaxDepth
    /\ own \subseteq 1 .. open
    /\ open > 0 => 1 \in own
    /\ muts \in [Levels -> SUBSET Units]
    /\ rows \in [Levels -> SUBSET Units]
    /\ \A l \in Levels : l > open => muts[l] = {} /\ rows[l] = {}
    /\ broken \in BOOLEAN
    /\ broken => open > 0
    /\ raising \in BOOLEAN
    /\ saved \subseteq Units
    /\ stored \subseteq Units
    /\ ready \subseteq stored
    /\ dispatched \subseteq stored
    /\ joined \subseteq Units
    /\ crashes \in 0 .. MaxCrashes

Init ==
    /\ mode \in Modes
    /\ open = 0
    /\ own = {}
    /\ muts = [l \in Levels |-> {}]
    /\ rows = [l \in Levels |-> {}]
    /\ broken = FALSE
    /\ raising = FALSE
    /\ saved = {}
    /\ stored = {}
    /\ ready = {}
    /\ dispatched = {}
    /\ joined = {}
    /\ crashes = 0

(* Mutations and rows in the open transaction. *)
Pending(f) == UNION {f[l] : l \in 1 .. open}

(* The levels that are undone when needs_rollback is acted upon: from the  *)
(* innermost block with a savepoint of its own.                            *)
Doomed == {l \in 1 .. open : \A k \in own : k <= l}

-----------------------------------------------------------------------------
(* transaction.atomic() *)

(* A block opens; inside a transaction it gets a savepoint if it asks for  *)
(* one and the transaction is not already to be rolled back.               *)
Enter(savepoint) ==
    /\ ~raising
    /\ open < MaxDepth
    /\ open' = open + 1
    /\ own' = IF open = 0 \/ (savepoint /\ ~broken) THEN own \cup {open + 1} ELSE own
    /\ UNCHANGED <<mode, muts, rows, broken, raising, dbVars, ready, dispatched,
                   joined, crashes>>

Close ==
    /\ open' = open - 1
    /\ own' = own \ {open}

(* Writes of the innermost block become its parent's. *)
Merge ==
    /\ muts' = [muts EXCEPT ![open] = {}, ![open - 1] = @ \cup muts[open]]
    /\ rows' = [rows EXCEPT ![open] = {}, ![open - 1] = @ \cup rows[open]]

Discard ==
    /\ muts' = [muts EXCEPT ![open] = {}]
    /\ rows' = [rows EXCEPT ![open] = {}]
    /\ joined' = joined \ muts[open]

(* A nested block ends well. *)
ExitNested ==
    /\ ~raising /\ ~broken
    /\ open > 1
    /\ Merge
    /\ Close
    /\ UNCHANGED <<mode, broken, raising, dbVars, ready, dispatched, joined, crashes>>

(* The outermost block ends well: COMMIT, and the callbacks are due. *)
Commit ==
    /\ ~raising /\ ~broken
    /\ open = 1
    /\ saved' = saved \cup muts[1]
    /\ stored' = stored \cup rows[1]
    /\ ready' = ready \cup rows[1]
    /\ muts' = [muts EXCEPT ![1] = {}]
    /\ rows' = [rows EXCEPT ![1] = {}]
    /\ Close
    /\ UNCHANGED <<mode, broken, raising, dispatched, joined, crashes>>

(* COMMIT is refused. *)
CommitFails ==
    /\ ~raising /\ ~broken
    /\ open = 1
    /\ Discard
    /\ Close
    /\ raising' = TRUE
    /\ UNCHANGED <<mode, broken, dbVars, ready, dispatched, crashes>>

(* A block ends with an exception, or with needs_rollback set (and then    *)
(* without a word): it is undone if it can be, else its parent must be.    *)
ExitUndone ==
    /\ raising \/ broken
    /\ open > 0
    /\ Close
    /\ \/ /\ open \in own
          /\ Discard
          /\ broken' = FALSE
       \/ /\ open \notin own
          /\ Merge
          /\ broken' = TRUE
          /\ UNCHANGED joined
    /\ UNCHANGED <<mode, raising, dbVars, ready, dispatched, crashes>>

-----------------------------------------------------------------------------
(* The caller *)

(* A mutation: committed at once outside a block; refused in a transaction *)
(* that is to be rolled back.                                              *)
Mutate(u) ==
    /\ ~raising
    /\ u \notin saved \cup Pending(muts)
    /\ IF open = 0 THEN saved' = saved \cup {u} /\ UNCHANGED <<muts, raising>>
       ELSE IF broken THEN raising' = TRUE /\ UNCHANGED <<saved, muts>>
       ELSE /\ muts' = [muts EXCEPT ![open] = @ \cup {u}]
            /\ UNCHANGED <<saved, raising>>
    /\ UNCHANGED <<mode, open, own, rows, broken, stored, ready, dispatched,
                   joined, crashes>>

(* The body raises something of its own - the emitter of a block that is   *)
(* gone, too (RuntimeError) - perhaps a database error that Django marks.  *)
Raise ==
    /\ ~raising
    /\ raising' = TRUE
    /\ \/ UNCHANGED broken
       \/ open > 0 /\ broken' = TRUE
    /\ UNCHANGED <<mode, open, own, muts, rows, dbVars, ready, dispatched,
                   joined, crashes>>

(* An except clause takes the exception. *)
Swallow ==
    /\ raising
    /\ raising' = FALSE
    /\ UNCHANGED <<mode, txVars, dbVars, ready, dispatched, joined, crashes>>

-----------------------------------------------------------------------------
(* emit() *)

(* The event of a mutation that was made, not yet emitted. *)
Emittable(u) == u \in (saved \cup Pending(muts)) \ (stored \cup Pending(rows))

(* u's mutation is undone if the transaction is marked here. *)
Joins(u) == \E l \in Doomed : u \in muts[l]

(* Mutant: the row is dispatched by emit(), not by on_commit.              *)
EmitDispatchesNow(u) ==
    /\ ~raising /\ ~broken
    /\ open > 0
    /\ Emittable(u)
    /\ rows' = [rows EXCEPT ![open] = @ \cup {u}]
    /\ dispatched' = dispatched \cup {u}
    /\ joined' = IF Joins(u) THEN joined \cup {u} ELSE joined
    /\ UNCHANGED <<mode, open, own, muts, broken, raising, dbVars, ready, crashes>>

(* Mutant: the row goes out on a connection of its own.                    *)
EmitDetached(u) ==
    /\ ~raising /\ ~broken
    /\ open > 0
    /\ Emittable(u)
    /\ stored' = stored \cup {u}
    /\ joined' = IF Joins(u) THEN joined \cup {u} ELSE joined
    /\ UNCHANGED <<mode, txVars, raising, saved, ready, dispatched, crashes>>

(* The payload is valid and the row is written, with its callback. *)
Emit(u) ==
    /\ ~raising /\ ~broken
    /\ open > 0
    /\ Emittable(u)
    /\ rows' = [rows EXCEPT ![open] = @ \cup {u}]
    /\ joined' = IF Joins(u) THEN joined \cup {u} ELSE joined
    /\ UNCHANGED <<mode, open, own, muts, broken, raising, dbVars, ready,
                   dispatched, crashes>>

(* Mutant: set_rollback is forgotten. *)
EmitFailsUnmarked(u) ==
    /\ ~raising
    /\ open > 0
    /\ Emittable(u)
    /\ raising' = TRUE
    /\ joined' = IF Joins(u) THEN joined \cup {u} ELSE joined
    /\ UNCHANGED <<mode, txVars, dbVars, ready, dispatched, crashes>>

(* Validation or the INSERT fails - always, when the transaction is        *)
(* broken: it is marked for rollback before the exception leaves.          *)
EmitFails(u) ==
    /\ ~raising
    /\ open > 0
    /\ Emittable(u)
    /\ broken' = TRUE
    /\ raising' = TRUE
    /\ joined' = IF Joins(u) THEN joined \cup {u} ELSE joined
    /\ UNCHANGED <<mode, open, own, muts, rows, dbVars, ready, dispatched, crashes>>

(* Outside a block: the row commits by itself, unless it fails or the      *)
(* setting forbids it.                                                     *)
EmitOutside(u) ==
    /\ ~raising
    /\ open = 0
    /\ Emittable(u)
    /\ \/ /\ mode # "error"
          /\ stored' = stored \cup {u}
          /\ ready' = ready \cup {u}
          /\ UNCHANGED raising
       \/ /\ raising' = TRUE
          /\ UNCHANGED <<stored, ready>>
    /\ UNCHANGED <<mode, txVars, saved, dispatched, joined, crashes>>

(* The on_commit callback runs; _dispatch_row never raises. *)
Dispatch(u) ==
    /\ u \in ready
    /\ open = 0
    /\ ready' = ready \ {u}
    /\ dispatched' = dispatched \cup {u}
    /\ UNCHANGED <<mode, txVars, raising, dbVars, joined, crashes>>

(* The process dies. *)
Crash ==
    /\ crashes < MaxCrashes
    /\ crashes' = crashes + 1
    /\ open' = 0
    /\ own' = {}
    /\ muts' = [l \in Levels |-> {}]
    /\ rows' = [l \in Levels |-> {}]
    /\ broken' = FALSE
    /\ raising' = FALSE
    /\ ready' = {}
    /\ joined' = joined \ Pending(muts)
    /\ UNCHANGED <<mode, dbVars, dispatched>>

-----------------------------------------------------------------------------
Atomic ==
    \/ \E savepoint \in BOOLEAN : Enter(savepoint)
    \/ ExitNested
    \/ Commit
    \/ CommitFails
    \/ ExitUndone

Caller ==
    \/ \E u \in Units : \/ Mutate(u)
                        \/ Emit(u)
                        \/ EmitFails(u)
                        \/ EmitOutside(u)
    \/ Raise
    \/ Swallow

Next == Atomic \/ Caller \/ (\E u \in Units : Dispatch(u)) \/ Crash

Spec == Init /\ [][Next]_vars

-----------------------------------------------------------------------------
(* Properties *)

(* "They commit together or not at all": a mutation whose emit() was       *)
(* called in its block - or in a block that fails with it - is never       *)
(* committed without its event, whoever swallowed which exception.         *)
MutationCarriesEvent == joined \cap saved \subseteq stored

(* "The event never lies about state that was not committed". *)
EventNeverLies == stored \subseteq saved

(* The rows are at-least-once's events: they exist from the commit on, and *)
(* nothing is dispatched from a transaction or a savepoint that is undone. *)
Promise == INSTANCE AtLeastOnce WITH
    Events    <- Units,
    delivered <- dispatched,
    settled   <- {}
ImplementsAtLeastOnce == Promise!Safety
=============================================================================
