---------------------------- MODULE RevisionSync ----------------------------
(***************************************************************************)
(* Revision sync: RevisionMixin of django/models.py on PostgreSQL, the     *)
(* endpoint of django/api/revision.py, and a client that follows it.       *)
(*                                                                         *)
(* Writers save rows in transactions of one or more saves; each save takes *)
(* the table's advisory lock, which is held until the outermost COMMIT.    *)
(* (Elsewhere a mutex of the process holds the same span for a save that   *)
(* is not inside an outer transaction.)  save(update_fields=...) without   *)
(* "revision" changes nothing here, and rows are never deleted for good.   *)
(* A read of the endpoint is four statements in a row, in no transaction.  *)
(***************************************************************************)
EXTENDS Naturals, FiniteSetsExt

CONSTANTS
    Writers,         \* connections that save rows
    Rows,            \* rows of the table
    PageSize,
    MaxRevision      \* bound: revisions issued

VARIABLES
    revision,        \* committed revision of each row, 0 before it exists
    deleted,         \* rows whose committed deleted flag is set
    locked,          \* who holds pg_advisory_xact_lock
    pending,         \* what each open transaction has written
    client,          \* how it reads, where it is, what it was told
    have             \* the revision of the client's copy of each row, 0: none

vars == <<revision, deleted, locked, pending, client, have>>

Revisions == 0 .. MaxRevision
Writes    == [row : Rows, revision : Revisions, deleted : BOOLEAN]

TypeOK ==
    /\ revision \in [Rows -> Revisions]
    /\ deleted \subseteq Rows
    /\ locked \subseteq Writers /\ Cardinality(locked) <= 1
    /\ pending \in [Writers -> SUBSET Writes]
    /\ client.api \in {"changes", "pages"} /\ client.include_deleted \in BOOLEAN
    /\ client.at \in {"idle", "counting", "reading", "asking", "listing"}
    /\ client.initial \in BOOLEAN /\ client.since <= client.cursor
    /\ {client.since, client.cursor, client.global_max} \subseteq Revisions
    /\ client.page \in 1 .. Cardinality(Rows) /\ client.count \in 0 .. Cardinality(Rows)
    /\ have \in [Rows -> Revisions]

Init ==
    /\ revision = [r \in Rows |-> 0]
    /\ deleted = {}
    /\ locked = {}
    /\ pending = [w \in Writers |-> {}]
    /\ client \in [api : {"changes", "pages"}, include_deleted : BOOLEAN,
                   at : {"idle"}, initial : {TRUE}, since : {0}, cursor : {0},
                   page : {1}, count : {0}, global_max : {0}]
    /\ client.api = "changes" => client.include_deleted
    /\ have = [r \in Rows |-> 0]

(* MAX(revision) of what is committed, and of the transaction's own rows. *)
MaxCommitted == Max({revision[r] : r \in Rows})
MaxSeen(w)   == Max({MaxCommitted} \cup {p.revision : p \in pending[w]})

-----------------------------------------------------------------------------
(* Writers *)

(* Mutant: the number is issued without the lock. *)
IssuesUnlocked(w) == TRUE

(* The table's lock is free, or already this transaction's. *)
Issues(w) == locked \subseteq {w}

(* save(), soft_delete() or restore(): MAX + 1 under the lock. *)
Save(w, r, d) ==
    /\ Issues(w)
    /\ MaxSeen(w) < MaxRevision
    /\ locked' = {w}
    /\ pending' = [pending EXCEPT ![w] =
          {p \in @ : p.row # r} \cup {[row |-> r, revision |-> MaxSeen(w) + 1, deleted |-> d]}]
    /\ UNCHANGED <<revision, deleted, client, have>>

Written(w, r) == {p \in pending[w] : p.row = r}

Commit(w) ==
    /\ pending[w] # {}
    /\ revision' = [r \in Rows |-> Max({revision[r]} \cup {p.revision : p \in Written(w, r)})]
    /\ deleted' = {r \in Rows : IF Written(w, r) = {} THEN r \in deleted
                                ELSE \E p \in Written(w, r) : p.deleted}
    /\ pending' = [pending EXCEPT ![w] = {}]
    /\ locked' = locked \ {w}
    /\ UNCHANGED <<client, have>>

Rollback(w) ==
    /\ pending[w] # {}
    /\ pending' = [pending EXCEPT ![w] = {}]
    /\ locked' = locked \ {w}
    /\ UNCHANGED <<revision, deleted, client, have>>

-----------------------------------------------------------------------------
(* The client *)

Shown(r)  == IF r \in deleted THEN 0 ELSE revision[r]
Copies(S) == [r \in Rows |-> IF r \in S THEN Shown(r) ELSE have[r]]

(* The endpoint's queryset, and what min_revision leaves of it. *)
Listed   == {r \in Rows : r \in deleted => client.include_deleted}
Matching == {r \in Listed : revision[r] > client.cursor}

(* get_changes_since() in one statement; the last revision is the cursor. *)
ReadChanges ==
    /\ client.api = "changes"
    /\ Matching # {}
    /\ have' = Copies(Matching)
    /\ client' = [client EXCEPT !.cursor = Max({revision[r] : r \in Matching})]
    /\ UNCHANGED <<revision, deleted, locked, pending>>

StartSync ==
    /\ client.api = "pages" /\ client.at = "idle"
    /\ client' = [client EXCEPT !.at = "counting", !.page = 1]
    /\ UNCHANGED <<revision, deleted, locked, pending, have>>

(* The paginator counts; a page that is no longer there is a 404. *)
CountRows ==
    /\ client.at = "counting"
    /\ LET count == Cardinality(Matching) IN
          client' = [client EXCEPT
              !.count = count,
              !.at = IF client.page > 1 /\ (client.page - 1) * PageSize >= count
                     THEN "idle" ELSE "reading"]
    /\ UNCHANGED <<revision, deleted, locked, pending, have>>

(* The rows of the page, by revision, up to the count. *)
OnPage(r) ==
    LET position == Cardinality({q \in Matching : revision[q] < revision[r]}) IN
    /\ (client.page - 1) * PageSize <= position
    /\ position < client.page * PageSize /\ position < client.count

ReadPage ==
    /\ client.at = "reading"
    /\ have' = Copies({r \in Matching : OnPage(r)})
    /\ client' = [client EXCEPT !.at = "asking"]
    /\ UNCHANGED <<revision, deleted, locked, pending>>

GlobalMax ==
    /\ client.at = "asking"
    /\ client' = [client EXCEPT !.global_max = MaxCommitted, !.at = "listing"]
    /\ UNCHANGED <<revision, deleted, locked, pending, have>>

(* Mutant: deleted rows are looked for in the filtered queryset. *)
deleted_ids_filtered ==
    IF client.initial THEN {} ELSE {r \in deleted \cap Matching : revision[r] > client.cursor}

(* Deleted rows above min_revision, of the whole table; without a          *)
(* min_revision there are none.                                            *)
deleted_ids ==
    IF client.initial THEN {} ELSE {r \in deleted : revision[r] > client.cursor}

(* The response: the client drops what was deleted, and asks for the next  *)
(* page or stores global_max as the min_revision of its next sync.         *)
Respond ==
    /\ client.at = "listing"
    /\ have' = [r \in Rows |-> IF r \in deleted_ids THEN 0 ELSE have[r]]
    /\ client' = IF client.page * PageSize < client.count
                 THEN [client EXCEPT !.at = "counting", !.page = @ + 1]
                 ELSE [client EXCEPT !.at = "idle", !.initial = FALSE,
                          !.cursor = client.global_max,
                          !.since = IF client.initial THEN client.global_max ELSE client.cursor]
    /\ UNCHANGED <<revision, deleted, locked, pending>>

Next ==
    \/ \E w \in Writers :
          \/ \E r \in Rows, d \in BOOLEAN : Save(w, r, d)
          \/ Commit(w)
          \/ Rollback(w)
    \/ ReadChanges
    \/ StartSync \/ CountRows \/ ReadPage \/ GlobalMax \/ Respond

Spec == Init /\ [][Next]_vars

-----------------------------------------------------------------------------
Complete == \A r \in Rows : revision[r] \in 1 .. client.cursor => have[r] = Shown(r)

(* "Two concurrent saves can never share a number (a duplicate would make  *)
(* get_changes_since skip one of them forever)", and numbers are           *)
(* commit-ordered (models.py:65): who reads the changes in one statement   *)
(* has every row up to the last revision it saw, as it is now.             *)
ReaderComplete == client.api = "changes" => Complete

(* Soft deletion "allows clients to know what was removed" (models.py:48): *)
(* after a sync with a min_revision, the client has no copy of a row that  *)
(* was deleted up to the global_max it stored, whatever was deleted and    *)
(* restored between the statements of the response, on whichever page.     *)
DeletionsHonoured ==
    client.at = "idle" =>
        \A r \in deleted : client.since < revision[r] /\ revision[r] <= client.cursor =>
            have[r] = 0

(* "A sync client that saw revision N can never later miss N-1"            *)
(* (models.py:104), for a client that follows the endpoint's documented    *)
(* flow: a row up to the stored global_max is had as it is.                *)
SyncComplete == client.at = "idle" => Complete
=============================================================================
