----------------------------- MODULE Projection -----------------------------
(***************************************************************************)
(* comm/projections.py: one remote-mode projection, a table of another     *)
(* service's rows. Consumers of the owner's events run apply_event, each   *)
(* in a transaction of its own; rebuild() clears the table and fills it    *)
(* from the owner's snapshot Function, page by page, in one transaction.   *)
(*                                                                         *)
(* Events are delivered at least once and in any order. The payload of an  *)
(* event is abstracted to the revision of the source row it speaks of, and *)
(* a row of the table to the revision it shows; revision 0 is no row.      *)
(*                                                                         *)
(* The database is at READ COMMITTED: what a transaction wrote is          *)
(* invisible to the others until it commits, row locks and the unique      *)
(* index on projection_key make them wait, and a SELECT FOR UPDATE that    *)
(* waited for a row whose deletion then commits finds nothing.             *)
(***************************************************************************)
EXTENDS Naturals, FiniteSets

CONSTANTS
    Key,             \* values of the payload field source_key
    Consumers,       \* processes and threads that run apply_event
    MaxRevision,     \* bound: changes of a source row
    Position,        \* Projection.position of the event of each revision of a row
    MaxRebuilds,     \* bound: calls of rebuild()
    MaxFaults,       \* bound: handlers and exports that die half way
    NoKey

Revisions == 1 .. MaxRevision

ASSUME ProjectionAssumption ==
    /\ NoKey \notin Key
    /\ MaxRevision \in Nat
    /\ MaxRebuilds \in Nat
    /\ MaxFaults \in Nat
    /\ Position \in [Key -> [Revisions -> Nat]]
    /\ \A k \in Key : \A r, s \in Revisions :
          r < s => Position[k][r] <= Position[k][s]

VARIABLES
    source,          \* the owner's revision of each row
    table,           \* committed rows: the revision shown, the last event applied
    acked,           \* events some consumer acknowledged, as <<key, revision>>
    worker,          \* what each consumer is doing
    rebuilding,      \* whether a rebuild's transaction is open
    removed,         \* keys whose rows it deleted
    copied,          \* revisions it inserted
    left,            \* keys its cursor has not passed
    rebuilds, faults

rebuildVars == <<rebuilding, removed, copied, left, rebuilds>>
vars == <<source, table, acked, worker, rebuildVars, faults>>

NoRow == [rev |-> 0, event |-> 0]
Idle  == [phase |-> "idle", key |-> NoKey, rev |-> 0]

Phases == {"idle", "waiting", "absent", "locked"}

(* Rows, workers and the open rebuild have the shapes the code gives them. *)
TypeOK ==
    /\ source \in [Key -> 0 .. MaxRevision]
    /\ table \in [Key -> [rev : 0 .. MaxRevision, event : 0 .. MaxRevision]]
    /\ acked \subseteq Key \X Revisions
    /\ worker \in [Consumers -> [phase : Phases, key : Key \cup {NoKey},
                                 rev : 0 .. MaxRevision]]
    /\ rebuilding \in BOOLEAN
    /\ removed \subseteq Key
    /\ copied \in [Key -> 0 .. MaxRevision]
    /\ left \subseteq Key
    /\ rebuilds \in 0 .. MaxRebuilds
    /\ faults \in 0 .. MaxFaults

Init ==
    /\ source = [k \in Key |-> 0]
    /\ table = [k \in Key |-> NoRow]
    /\ acked = {}
    /\ worker = [c \in Consumers |-> Idle]
    /\ rebuilding = FALSE
    /\ removed = {}
    /\ copied = [k \in Key |-> 0]
    /\ left = {}
    /\ rebuilds = 0
    /\ faults = 0

Exists(k) == table[k].rev # 0

(* Rows some apply_event holds FOR UPDATE. *)
Locked(k) == \E c \in Consumers : worker[c].phase = "locked" /\ worker[c].key = k

(* The owner commits a change of a row and emits its event. *)
Change(k) ==
    /\ source[k] < MaxRevision
    /\ source' = [source EXCEPT ![k] = @ + 1]
    /\ UNCHANGED <<table, acked, worker, rebuildVars, faults>>

-----------------------------------------------------------------------------
(* apply_event *)

(* A consumer is given an event, for the first time or again, and runs the *)
(* locking SELECT.                                                         *)
LookUp(c, k, r) ==
    /\ worker[c] = Idle
    /\ r \in 1 .. source[k]
    /\ ~Locked(k)
    /\ worker' = [worker EXCEPT ![c] =
           [phase |-> IF ~Exists(k) THEN "absent"
                      ELSE IF k \in removed THEN "waiting" ELSE "locked",
            key |-> k, rev |-> r]]
    /\ UNCHANGED <<source, table, acked, rebuildVars, faults>>

(* The rebuild it waited for rolled back: the old row is still there. *)
Resume(c) ==
    /\ worker[c].phase = "waiting"
    /\ worker[c].key \notin removed
    /\ ~Locked(worker[c].key)
    /\ worker' = [worker EXCEPT ![c].phase = "locked"]
    /\ UNCHANGED <<source, table, acked, rebuildVars, faults>>

(* Mutant: only exact redeliveries are recognised. *)
StaleById(k, r) == table[k].event = r

(* An exact redelivery, or an event that is not newer than the row. *)
Stale(k, r) ==
    \/ table[k].event = r
    \/ Position[k][r] <= Position[k][table[k].rev]

Acknowledge(c, k, r) ==
    /\ acked' = acked \cup {<<k, r>>}
    /\ worker' = [worker EXCEPT ![c] = Idle]

(* The row is there: skip or save, commit, and return to the consume loop. *)
Upsert(c) ==
    LET k == worker[c].key
        r == worker[c].rev
    IN  /\ worker[c].phase = "locked"
        /\ table' = IF Stale(k, r) THEN table
                    ELSE [table EXCEPT ![k] = [rev |-> r, event |-> r]]
        /\ Acknowledge(c, k, r)
        /\ UNCHANGED <<source, rebuildVars, faults>>

(* Mutant: the conflict is read as "somebody else applied it". *)
RefuseSilently(c, k, r) == Acknowledge(c, k, r)

(* What becomes of an event whose INSERT the unique index refused: the     *)
(* handler raises and the event is delivered again.                        *)
Refuse(c, k, r) ==
    /\ worker' = [worker EXCEPT ![c] = Idle]
    /\ UNCHANGED acked

(* The row was absent: the INSERT waits for the open rebuild where that    *)
(* deleted or inserted the key.                                            *)
Create(c) ==
    LET k == worker[c].key
        r == worker[c].rev
    IN  /\ worker[c].phase = "absent"
        /\ k \notin removed
        /\ copied[k] = 0
        /\ IF Exists(k)
           THEN /\ Refuse(c, k, r)
                /\ UNCHANGED table
           ELSE /\ table' = [table EXCEPT ![k] = [rev |-> r, event |-> r]]
                /\ Acknowledge(c, k, r)
        /\ UNCHANGED <<source, rebuildVars, faults>>

(* The process dies, or the database fails the statement. *)
Die(c) ==
    /\ worker[c] # Idle
    /\ faults < MaxFaults
    /\ faults' = faults + 1
    /\ worker' = [worker EXCEPT ![c] = Idle]
    /\ UNCHANGED <<source, table, acked, rebuildVars>>

-----------------------------------------------------------------------------
(* rebuild *)

(* BEGIN and DELETE, which waits for the rows apply_event has locked. *)
StartRebuild ==
    /\ ~rebuilding
    /\ rebuilds < MaxRebuilds
    /\ \A k \in Key : ~Locked(k)
    /\ rebuilding' = TRUE
    /\ removed' = {k \in Key : Exists(k)}
    /\ left' = Key
    /\ rebuilds' = rebuilds + 1
    /\ UNCHANGED <<source, table, acked, worker, copied, faults>>

Close(outcome) ==
    /\ rebuilding' = FALSE
    /\ removed' = {}
    /\ left' = {}
    /\ copied' = [k \in Key |-> 0]
    /\ table' = outcome
    /\ UNCHANGED <<source, acked, rebuilds>>

(* One page of the snapshot, read from the owner now, and its bulk_create: *)
(* a row that a consumer committed since the DELETE refuses it.            *)
CopyPage(k) ==
    /\ k \in left
    /\ IF source[k] # 0 /\ Exists(k) /\ k \notin removed
       THEN Close(table) /\ UNCHANGED <<worker, faults>>
       ELSE /\ copied' = [copied EXCEPT ![k] = source[k]]
            /\ left' = left \ {k}
            /\ UNCHANGED <<source, table, acked, worker, rebuilding, removed,
                           rebuilds, faults>>

(* The table after COMMIT. *)
Rebuilt ==
    [k \in Key |-> IF copied[k] # 0 THEN [rev |-> copied[k], event |-> 0]
                   ELSE IF k \in removed THEN NoRow ELSE table[k]]

CommitRebuild ==
    /\ rebuilding
    /\ left = {}
    /\ Close(Rebuilt)
    /\ worker' = [c \in Consumers |->
           IF worker[c].phase = "waiting" /\ worker[c].key \in removed
           THEN [worker[c] EXCEPT !.phase = "absent"] ELSE worker[c]]
    /\ UNCHANGED faults

(* The export raises, or the process dies: nothing was changed. *)
FailRebuild ==
    /\ rebuilding
    /\ faults < MaxFaults
    /\ faults' = faults + 1
    /\ Close(table)
    /\ UNCHANGED worker

Next ==
    \/ \E k \in Key : Change(k) \/ CopyPage(k)
    \/ \E c \in Consumers :
          \/ \E k \in Key, r \in Revisions : LookUp(c, k, r)
          \/ Resume(c) \/ Upsert(c) \/ Create(c) \/ Die(c)
    \/ StartRebuild \/ CommitRebuild \/ FailRebuild

Spec == Init /\ [][Next]_vars

(* Handlers and rebuilds return, and what was not acknowledged is given to *)
(* a consumer again, also between redeliveries of other events.            *)
Fairness ==
    /\ \A c \in Consumers : WF_vars(Resume(c)) /\ WF_vars(Upsert(c)) /\ WF_vars(Create(c))
    /\ \A k \in Key : WF_vars(CopyPage(k))
    /\ WF_vars(CommitRebuild)
    /\ \A k \in Key, r \in Revisions :
          SF_vars(<<k, r>> \notin acked /\ \E c \in Consumers : LookUp(c, k, r))

FairSpec == Spec /\ Fairness

-----------------------------------------------------------------------------
(* Under redelivery, reordering and rebuilds a row never shows an older    *)
(* revision than it did, nor one the owner did not commit, and never goes  *)
(* away (projections.py:25 "a stale event never overwrites fresher state", *)
(* :531 the all-or-nothing rebuild).                                       *)
Promise == INSTANCE ReadModel WITH copy <- [k \in Key |-> table[k].rev]

FollowsOwner == Promise!Safety

(* What the owner committed is overtaken in the end: of each of its        *)
(* revisions the table shows that one or one whose position is no lower,   *)
(* also when an event's INSERT met a rebuild or another first event of its *)
(* key. It is no more than that: among revisions of one position the table *)
(* may keep an older one for ever, as an event that ties with the row is   *)
(* skipped and acknowledged (projections.py:370). The default position is  *)
(* a timestamp in milliseconds (projections.py:180), where ties do occur.  *)
CatchesUp ==
    \A k \in Key, r \in Revisions :
        (source[k] = r) ~>
            (Exists(k) /\ Position[k][table[k].rev] >= Position[k][r])
=============================================================================
