----------------------------- MODULE EventStore -----------------------------
(***************************************************************************)
(* The append-only event store of eventstore/: the threads of one process  *)
(* append to a shared WriteBuffer, whichever thread fills or flushes it    *)
(* writes the batch outside the buffer's lock, and readers, purges and     *)
(* rekeys flush first.                                                     *)
(*                                                                         *)
(* A thread may append inside a database transaction of its own; the rows  *)
(* of the batch it writes then share that transaction's fate.  BUFFER_SYNC *)
(* is the case Size = 1.  Reading, purging and rekeying act on the default *)
(* backend, from outside a transaction.                                    *)
(***************************************************************************)
EXTENDS Naturals, FiniteSets

CONSTANTS
    Threads,       \* of the process
    NoThread,      \* the author of an event that was not appended yet
    Events,        \* events that may be appended; also the ids of their rows
    Routed,        \* events of a stream that ROUTES sends to another backend
    Subjects,      \* values of the subject key in the payloads
    Merges,        \* pairs <<from, to>> a rekey may be called with
    Size,          \* BUFFER_SIZE
    MaxExtend,     \* bound: events appended by one call
    PageSize       \* batch_size of rekey

ASSUME EventStoreAssumption ==
    /\ NoThread \notin Threads
    /\ Routed \subseteq Events
    /\ Merges \subseteq Subjects \X Subjects
    /\ \A m \in Merges : m[1] # m[2]
    /\ Size \in Nat \ {0}
    /\ MaxExtend \in Nat \ {0}
    /\ PageSize \in Nat \ {0}

VARIABLES
    pending,       \* the buffer: _pending
    aged,          \* the oldest pending event is older than the interval
    at,            \* where each thread is
    call,          \* what it was called for
    batch,         \* events it took from the buffer and has to write
    inTx,          \* it is inside a transaction of its own
    uncommitted,   \* rows it wrote there
    stored,        \* committed rows
    subject,       \* subject key of each event
    page,          \* rows a rekey read and has to update
    moved,         \* rows its transaction updated
    author,        \* which thread appended an event
    erased,        \* rows purged
    lost,          \* events that never reached the store
    covered        \* events a call's flush answers for

bufVars  == <<pending, aged>>
ctlVars  == <<at, call>>
txnVars  == <<inTx, uncommitted>>
movVars  == <<page, moved>>
rowVars  == <<stored, subject, erased>>
vars == <<bufVars, ctlVars, batch, txnVars, rowVars, movVars, author, lost, covered>>

Calls == {<<"append">>, <<"query">>}
         \cup {<<"purge", x>> : x \in Subjects}
         \cup {<<"rekey", m>> : m \in Merges}

Backends == {"default", "routed"}
RowsOf(b) == IF b = "routed" THEN Routed ELSE Events \ Routed

TypeOK ==
    /\ pending \subseteq Events
    /\ aged \in BOOLEAN
    /\ at \in [Threads -> {"idle", "writing", "ready", "paging", "committing"}]
    /\ call \in [Threads -> Calls]
    /\ batch \in [Threads -> SUBSET Events]
    /\ inTx \in [Threads -> BOOLEAN]
    /\ uncommitted \in [Threads -> SUBSET Events]
    /\ stored \subseteq Events
    /\ subject \in [Events -> Subjects]
    /\ page \in [Threads -> SUBSET Events]
    /\ moved \in [Threads -> SUBSET Events]
    /\ author \in [Events -> Threads \cup {NoThread}]
    /\ erased \subseteq Events
    /\ lost \subseteq Events
    /\ covered \in [Threads -> SUBSET Events]
    /\ aged => pending # {}

Init ==
    /\ pending = {}
    /\ aged = FALSE
    /\ at = [t \in Threads |-> "idle"]
    /\ call = [t \in Threads |-> <<"append">>]
    /\ batch = [t \in Threads |-> {}]
    /\ inTx = [t \in Threads |-> FALSE]
    /\ uncommitted = [t \in Threads |-> {}]
    /\ stored = {}
    /\ subject \in [Events -> Subjects]
    /\ page = [t \in Threads |-> {}]
    /\ moved = [t \in Threads |-> {}]
    /\ author = [e \in Events |-> NoThread]
    /\ erased = {}
    /\ lost = {}
    /\ covered = [t \in Threads |-> {}]

Appended == {e \in Events : author[e] # NoThread}

(* Events taken from the buffer that are not, or not for certain, stored.  *)
InFlight(t) == batch[t] \cup uncommitted[t]

-----------------------------------------------------------------------------
(* The buffer *)

(* The interval passes: time.monotonic() against _oldest_at. *)
Age ==
    /\ pending # {}
    /\ ~aged
    /\ aged' = TRUE
    /\ UNCHANGED <<pending, ctlVars, batch, txnVars, rowVars, movVars, author,
                   lost, covered>>

(* Mutant: the batch is written while it is still in the buffer. *)
TakeCopies(t, all) ==
    /\ batch' = [batch EXCEPT ![t] = all]
    /\ pending' = all
    /\ UNCHANGED aged
    /\ at' = [at EXCEPT ![t] = "writing"]

(* _take_locked: the thread leaves with everything that is pending. *)
Take(t, all) ==
    /\ batch' = [batch EXCEPT ![t] = all]
    /\ pending' = {}
    /\ aged' = FALSE
    /\ at' = [at EXCEPT ![t] = "writing"]

(* append() and append_batch(): extend, and take the batch if it is due. *)
Extend(t, S) ==
    LET all == pending \cup S IN
    /\ at[t] = "idle"
    /\ S \subseteq Events \ Appended
    /\ Cardinality(S) \in 1 .. MaxExtend
    /\ author' = [e \in Events |-> IF e \in S THEN t ELSE author[e]]
    /\ IF aged \/ Cardinality(all) >= Size
       THEN Take(t, all)
       ELSE pending' = all /\ UNCHANGED <<aged, at, batch>>
    /\ UNCHANGED <<call, txnVars, rowVars, movVars, lost, covered>>

(* Mutant: the call reaches the backend without a flush. *)
EnterUnflushed(t, c) ==
    /\ at[t] = "idle"
    /\ ~inTx[t]
    /\ c \in Calls \ {<<"append">>}
    /\ call' = [call EXCEPT ![t] = c]
    /\ at' = [at EXCEPT ![t] = "writing"]
    /\ covered' = [covered EXCEPT ![t] = pending \cup stored \cup erased \cup lost]
    /\ UNCHANGED <<bufVars, batch, txnVars, rowVars, movVars, author, lost>>

(* query, purge, rekey: flush() takes what is pending, then the backend.   *)
Enter(t, c) ==
    /\ at[t] = "idle"
    /\ ~inTx[t]
    /\ c \in Calls \ {<<"append">>}
    /\ call' = [call EXCEPT ![t] = c]
    /\ Take(t, pending)
    /\ covered' = [covered EXCEPT ![t] = pending \cup stored \cup erased \cup lost]
    /\ UNCHANGED <<txnVars, rowVars, movVars, author, lost>>

(* The call is over. *)
Return(t) ==
    /\ at' = [at EXCEPT ![t] = "idle"]
    /\ call' = [call EXCEPT ![t] = <<"append">>]
    /\ covered' = [covered EXCEPT ![t] = {}]

-----------------------------------------------------------------------------
(* _flush_batch, outside the lock *)

(* One backend stores its part of the batch in one bulk_create. *)
WriteBackend(t, b) ==
    LET rows == batch[t] \cap RowsOf(b) IN
    /\ at[t] = "writing"
    /\ rows # {}
    /\ batch' = [batch EXCEPT ![t] = @ \ rows]
    /\ IF inTx[t] /\ b = "default"
       THEN uncommitted' = [uncommitted EXCEPT ![t] = @ \cup rows] /\ UNCHANGED stored
       ELSE stored' = stored \cup rows /\ UNCHANGED uncommitted
    /\ UNCHANGED <<bufVars, ctlVars, inTx, subject, erased, movVars, author, lost,
                   covered>>

(* A backend raises: what is left of the batch is gone with the exception, *)
(* and a transaction broken by it is rolled back.                          *)
WriteFails(t, b) ==
    /\ at[t] = "writing"
    /\ batch[t] \cap RowsOf(b) # {}
    /\ IF inTx[t] /\ b = "default"
       THEN /\ lost' = lost \cup InFlight(t)
            /\ uncommitted' = [uncommitted EXCEPT ![t] = {}]
            /\ inTx' = [inTx EXCEPT ![t] = FALSE]
       ELSE /\ lost' = lost \cup batch[t]
            /\ UNCHANGED txnVars
    /\ batch' = [batch EXCEPT ![t] = {}]
    /\ Return(t)
    /\ UNCHANGED <<bufVars, rowVars, movVars, author>>

(* The batch is written: append() returns, the others reach the backend. *)
Written(t) ==
    /\ at[t] = "writing"
    /\ batch[t] = {}
    /\ at' = [at EXCEPT ![t] = IF call[t] = <<"append">> THEN "idle" ELSE "ready"]
    /\ UNCHANGED <<bufVars, call, batch, txnVars, rowVars, movVars, author, lost,
                   covered>>

-----------------------------------------------------------------------------
(* Transactions of the callers *)

BeginTx(t) ==
    /\ at[t] = "idle"
    /\ ~inTx[t]
    /\ inTx' = [inTx EXCEPT ![t] = TRUE]
    /\ UNCHANGED <<bufVars, ctlVars, batch, uncommitted, rowVars, movVars, author,
                   lost, covered>>

EndTx(t) ==
    /\ at[t] = "idle"
    /\ inTx[t]
    /\ inTx' = [inTx EXCEPT ![t] = FALSE]
    /\ uncommitted' = [uncommitted EXCEPT ![t] = {}]
    /\ \/ stored' = stored \cup uncommitted[t] /\ UNCHANGED lost
       \/ lost' = lost \cup uncommitted[t] /\ UNCHANGED stored
    /\ UNCHANGED <<bufVars, ctlVars, batch, subject, erased, movVars, author, covered>>

-----------------------------------------------------------------------------
(* The default backend *)

(* Committed rows whose payload has this subject. *)
RowsAbout(x) == {e \in stored \ Routed : subject[e] = x}

(* Rows another transaction has updated are locked until it ends. *)
LockedFor(t) == UNION {moved[u] : u \in Threads \ {t}}

Query(t) ==
    /\ at[t] = "ready"
    /\ call[t] = <<"query">>
    /\ Return(t)
    /\ UNCHANGED <<bufVars, batch, txnVars, rowVars, movVars, author, lost>>

Purge(t) ==
    /\ at[t] = "ready"
    /\ call[t][1] = "purge"
    /\ LET rows == RowsAbout(call[t][2]) IN
        /\ rows \cap LockedFor(t) = {}
        /\ stored' = stored \ rows
        /\ erased' = erased \cup rows
    /\ Return(t)
    /\ UNCHANGED <<bufVars, batch, txnVars, subject, movVars, author, lost>>

(* Mutant: one page is taken for all of them. *)
ReadOnePage(t) ==
    /\ at[t] \in {"ready", "paging"}
    /\ call[t][1] = "rekey"
    /\ page[t] = {}
    /\ LET rows == RowsAbout(call[t][2][1]) \ moved[t] IN
        IF rows = {} \/ at[t] = "paging"
        THEN at' = [at EXCEPT ![t] = "committing"] /\ UNCHANGED page
        ELSE /\ at' = [at EXCEPT ![t] = "paging"]
             /\ \E e \in rows : page' = [page EXCEPT ![t] = {e}]
    /\ UNCHANGED <<bufVars, call, batch, txnVars, rowVars, moved, author, lost, covered>>

(* The first page of rows still under the old subject, as this transaction *)
(* sees them, read without a lock; none left: the transaction may commit.  *)
ReadPage(t) ==
    /\ at[t] \in {"ready", "paging"}
    /\ call[t][1] = "rekey"
    /\ page[t] = {}
    /\ LET rows == RowsAbout(call[t][2][1]) \ moved[t] IN
        IF rows = {} THEN at' = [at EXCEPT ![t] = "committing"] /\ UNCHANGED page
        ELSE /\ at' = [at EXCEPT ![t] = "paging"]
             /\ \E P \in SUBSET rows :
                /\ P # {} /\ Cardinality(P) <= PageSize
                /\ Cardinality(P) < PageSize => P = rows
                /\ page' = [page EXCEPT ![t] = P]
    /\ UNCHANGED <<bufVars, call, batch, txnVars, rowVars, moved, author, lost, covered>>

(* bulk_update by primary key: waits for locks, skips rows deleted since,  *)
(* and writes the payload it read.                                         *)
WritePage(t) ==
    /\ at[t] = "paging"
    /\ page[t] # {}
    /\ page[t] \cap LockedFor(t) = {}
    /\ moved' = [moved EXCEPT ![t] = @ \cup (page[t] \cap stored)]
    /\ page' = [page EXCEPT ![t] = {}]
    /\ UNCHANGED <<bufVars, ctlVars, batch, txnVars, rowVars, author, lost, covered>>

CommitRekey(t) ==
    /\ at[t] = "committing"
    /\ subject' = [e \in Events |-> IF e \in moved[t] THEN call[t][2][2] ELSE subject[e]]
    /\ moved' = [moved EXCEPT ![t] = {}]
    /\ Return(t)
    /\ UNCHANGED <<bufVars, batch, txnVars, stored, erased, page, author, lost>>

(* A statement fails, or the database breaks a deadlock: all or nothing. *)
RekeyFails(t) ==
    /\ at[t] \in {"paging", "committing"}
    /\ moved' = [moved EXCEPT ![t] = {}]
    /\ page' = [page EXCEPT ![t] = {}]
    /\ Return(t)
    /\ UNCHANGED <<bufVars, batch, txnVars, rowVars, author, lost>>

(* The process dies with its buffer, its batches and its transactions. *)
Crash ==
    /\ lost' = lost \cup pending \cup UNION {InFlight(t) : t \in Threads}
    /\ pending' = {}
    /\ aged' = FALSE
    /\ at' = [t \in Threads |-> "idle"]
    /\ call' = [t \in Threads |-> <<"append">>]
    /\ batch' = [t \in Threads |-> {}]
    /\ inTx' = [t \in Threads |-> FALSE]
    /\ uncommitted' = [t \in Threads |-> {}]
    /\ page' = [t \in Threads |-> {}]
    /\ moved' = [t \in Threads |-> {}]
    /\ covered' = [t \in Threads |-> {}]
    /\ UNCHANGED <<rowVars, author>>

-----------------------------------------------------------------------------
Next ==
    \/ Age
    \/ Crash
    \/ \E t \in Threads :
        \/ \E S \in SUBSET Events : Extend(t, S)
        \/ \E c \in Calls : Enter(t, c)
        \/ \E b \in Backends : WriteBackend(t, b) \/ WriteFails(t, b)
        \/ Written(t)
        \/ BeginTx(t)
        \/ EndTx(t)
        \/ Query(t)
        \/ Purge(t)
        \/ ReadPage(t)
        \/ WritePage(t)
        \/ CommitRekey(t)
        \/ RekeyFails(t)

Spec == Init /\ [][Next]_vars

-----------------------------------------------------------------------------
(* Properties *)

(* Every event is in one place at a time - buffered, in one thread's       *)
(* hands, stored, purged or lost with an exception, a rollback or the      *)
(* process - so that none is dropped or stored twice by two threads that   *)
(* append, fill and flush at the same time.                                *)
OnePlace ==
    /\ Appended = pending \cup stored \cup erased \cup lost
                  \cup UNION {InFlight(t) : t \in Threads}
    /\ \A t \in Threads :
        /\ batch[t] \cap uncommitted[t] = {}
        /\ InFlight(t) \cap (pending \cup stored \cup erased \cup lost) = {}
        /\ \A u \in Threads \ {t} : InFlight(t) \cap InFlight(u) = {}
    /\ pending \cap (stored \cup erased \cup lost) = {}
    /\ stored \cap (erased \cup lost) = {}
    /\ erased \cap lost = {}

(* The buffer never holds a full batch that nobody has taken. *)
BufferBounded == Cardinality(pending) < Size

(* When a call reaches the backend, whatever was buffered when it began is *)
(* there, purged or lost: a purge or a rekey cannot be followed by a row   *)
(* that was waiting in the buffer.                                         *)
FlushCovers ==
    \A t \in Threads : at[t] \in {"ready", "paging", "committing"} =>
        covered[t] \subseteq stored \cup erased \cup lost

(* A rekey moves every row its flush answers for, or none: after the       *)
(* commit none of them has the old subject, however many pages it took and *)
(* whatever other threads did meanwhile.                                   *)
RekeyMovesAll ==
    [][\A t \in Threads : CommitRekey(t) =>
        \A e \in (covered[t] \cap stored) \ Routed : subject'[e] # call[t][2][1]]_vars

(* "Reads flush first, so a caller always sees its own writes": when a     *)
(* thread is about to read, nothing it appended is anywhere else.          *)
OwnWritesVisible ==
    \A t \in Threads : at[t] = "ready" =>
        \A e \in Events : author[e] = t => e \in stored \cup erased \cup lost
=============================================================================
