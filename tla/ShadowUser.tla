------------------------------ MODULE ShadowUser ------------------------------
(***************************************************************************)
(* One person in a fleet: the account at the issuer, the row a consumer    *)
(* service mirrors from tokens (django/jwt/utils.py) or from events        *)
(* (django/users/shadow.py), and the records a deletion or a deactivation  *)
(* leaves in the revocation cache that all services share (django/jwt,     *)
(* tombstone.py and deactivation.py). A token is good for its lifetime     *)
(* wherever it is shown, so a consumer learns of a deletion from the       *)
(* tombstone alone, and the tombstone expires.                             *)
(*                                                                         *)
(* Requests take their checks and their queries one at a time; the clock   *)
(* counts lifetimes, which are long beside a request, and stands still     *)
(* while one is under way. The consumer may hold a row of this person      *)
(* under an id the issuer has changed since ("old").                       *)
(***************************************************************************)
EXTENDS Naturals

CONSTANTS
    Requests,
    AccessLife,      \* JWT_ACCESS_TOKEN_LIFETIME
    RefreshLife,     \* JWT_REFRESH_TOKEN_LIFETIME
    TombstoneTTL     \* STAPEL_JWT_TOMBSTONE_TTL as configured

VARIABLES
    account,         \* the account at the issuer
    deletions,       \* ids whose row somebody asked to delete
    tombstone,       \* seconds left of each id's tombstone
    deactivated,     \* the deactivation record
    access, refresh, \* seconds left of the newest tokens
    row,             \* the id under which the consumer has the person
    request,         \* where each request is, what brought it, the id it found
    recorded,        \* a tombstone was written for the account's deletion
    late             \* requests that began after that

vars == <<account, deletions, tombstone, deactivated, access, refresh, row,
          request, recorded, late>>
fleet == <<account, deletions, tombstone, deactivated, recorded>>

Ids  == {"old", "own"}
Idle == [at |-> "idle", by |-> "token", found |-> "none"]

(* tombstone_ttl(): the configured value is floored at the refresh lifetime. *)
tombstone_ttl == IF TombstoneTTL > RefreshLife THEN TombstoneTTL ELSE RefreshLife

TypeOK ==
    /\ account \in {"live", "deleting", "deleted"}
    /\ deletions \subseteq Ids
    /\ tombstone \in [Ids -> 0 .. tombstone_ttl]
    /\ deactivated \in BOOLEAN
    /\ access \in 0 .. AccessLife
    /\ refresh \in 0 .. RefreshLife
    /\ row \in Ids \cup {"none"}
    /\ request \in [Requests -> [at : {"idle", "presented", "untombstoned", "reading",
                                       "inserting", "rereading", "searching", "rekeying",
                                       "saving", "admitted", "loading", "minting"},
                                 by : {"token", "event", "seam"},
                                 found : Ids \cup {"none"}]]
    /\ recorded \in BOOLEAN
    /\ late \subseteq Requests

Init ==
    /\ account = "live"
    /\ deletions = {}
    /\ tombstone = [i \in Ids |-> 0]
    /\ deactivated = FALSE
    /\ access = 0
    /\ refresh = 0
    /\ row \in {"none", "old"}
    /\ request = [r \in Requests |-> Idle]
    /\ recorded = FALSE
    /\ late = {}

Goes(r, place) == request' = [request EXCEPT ![r].at = place]
Returns(r)     == request' = [request EXCEPT ![r] = Idle]
Begins(r, place, by) ==
    /\ request[r].at = "idle"
    /\ request' = [request EXCEPT ![r] = [Idle EXCEPT !.at = place, !.by = by]]
    /\ late' = IF recorded THEN late \cup {r} ELSE late \ {r}

-----------------------------------------------------------------------------
(* The issuer *)

(* create_tokens(). *)
SignIn ==
    /\ account # "deleted"
    /\ access' = AccessLife
    /\ refresh' = RefreshLife
    /\ UNCHANGED <<fleet, row, request, late>>

(* tombstone_user(): the write may be refused, which is only logged. *)
TombstoneUser(i) ==
    \/ tombstone' = [tombstone EXCEPT ![i] = tombstone_ttl] /\ recorded' = (recorded \/ i = "own")
    \/ UNCHANGED <<tombstone, recorded>>

(* The row is deleted, and post_delete runs before the transaction ends. *)
Delete ==
    /\ account = "live"
    /\ account' = "deleting"
    /\ deletions' = deletions \cup {"own"}
    /\ TombstoneUser("own")
    /\ UNCHANGED <<deactivated, access, refresh, row, request, late>>

Commit ==
    /\ account = "deleting"
    /\ account' = "deleted"
    /\ UNCHANGED <<deletions, tombstone, deactivated, access, refresh, row,
                   request, recorded, late>>

(* The tombstone is not taken back with the deletion. *)
Rollback ==
    /\ account = "deleting"
    /\ account' = "live"
    /\ recorded' = FALSE
    /\ late' = {}
    /\ UNCHANGED <<deletions, tombstone, deactivated, access, refresh, row, request>>

(* A row deleted by mistake is restored from a backup ... *)
Restore ==
    /\ account = "deleted"
    /\ account' = "live"
    /\ recorded' = FALSE
    /\ late' = {}
    /\ UNCHANGED <<deletions, tombstone, deactivated, access, refresh, row, request>>

(* ... and lift_tombstones, at the issuer, lifts what stands for a live row. *)
LiftTombstone ==
    /\ account = "live"
    /\ tombstone["own"] > 0
    /\ tombstone' = [tombstone EXCEPT !["own"] = 0]
    /\ UNCHANGED <<account, deletions, deactivated, access, refresh, row, request,
                   recorded, late>>

(* post_save published is_active, as it was saved; or the record expired. *)
DeactivateUser ==
    /\ account = "live"
    /\ ~deactivated
    /\ deactivated' = TRUE
    /\ UNCHANGED <<account, deletions, tombstone, access, refresh, row, request,
                   recorded, late>>

LiftDeactivation ==
    /\ deactivated
    /\ deactivated' = FALSE
    /\ UNCHANGED <<account, deletions, tombstone, access, refresh, row, request,
                   recorded, late>>

-----------------------------------------------------------------------------
(* A refresh, at the issuer or at a consumer that may refresh.             *)

PresentRefresh(r) ==
    /\ refresh > 0
    /\ Begins(r, "loading", "token")
    /\ UNCHANGED <<fleet, access, refresh, row>>

(* Some row answers the query: the issuer's, or the consumer's copy. *)
HasRow == account # "deleted" \/ row = "own"

(* Mutant: the loader asks for the row alone. *)
LoadByRow(r) ==
    /\ request[r].at = "loading"
    /\ \/ HasRow /\ Goes(r, "minting")
       \/ Returns(r)
    /\ UNCHANGED <<fleet, access, refresh, row, late>>

(* load_user_by_uid(): the tombstone, then the row; a store that fails     *)
(* refuses. Whether the row is active is the issuer's to know.             *)
LoadUserByUid(r) ==
    /\ request[r].at = "loading"
    /\ \/ tombstone["own"] = 0 /\ HasRow /\ Goes(r, "minting")
       \/ Returns(r)
    /\ UNCHANGED <<fleet, access, refresh, row, late>>

GenerateAccessToken(r) ==
    /\ request[r].at = "minting"
    /\ access' = AccessLife
    /\ Returns(r)
    /\ UNCHANGED <<fleet, refresh, row, late>>

-----------------------------------------------------------------------------
(* A request at the consumer: get_or_create_user_from_jwt() *)

PresentAccess(r) ==
    /\ access > 0
    /\ Begins(r, "presented", "token")
    /\ UNCHANGED <<fleet, access, refresh, row>>

(* ensure_shadow_user(): an event of this person arrives, however late;    *)
(* the same records are read, and read again by the seam it calls when     *)
(* there is no row.                                                        *)
PresentEvent(r) ==
    /\ Begins(r, "presented", "event")
    /\ UNCHANGED <<fleet, access, refresh, row>>

(* Both records are read before any claim is believed. *)
CheckTombstone(r) ==
    /\ request[r].at = "presented"
    /\ \/ tombstone["own"] = 0 /\ Goes(r, "untombstoned")
       \/ Returns(r)
    /\ UNCHANGED <<fleet, access, refresh, row, late>>

CheckDeactivated(r) ==
    /\ request[r].at = "untombstoned"
    /\ \/ ~deactivated /\ Goes(r, "reading")
       \/ Returns(r)
    /\ UNCHANGED <<fleet, access, refresh, row, late>>

(* The row, or DoesNotExist. A row whose claims changed is saved, unless   *)
(* by an event: that leaves a row alone.                                   *)
EventReads(r) ==
    /\ request[r].at = "reading" /\ request[r].by = "event"
    /\ IF row = "own" THEN Returns(r)
       ELSE request' = [request EXCEPT ![r].at = "presented", ![r].by = "seam"]
    /\ UNCHANGED <<fleet, access, refresh, row, late>>

ReadRow(r) ==
    /\ request[r].at = "reading" /\ request[r].by # "event"
    /\ \E place \in IF row = "own" THEN {"admitted", "saving"} ELSE {"inserting"} : Goes(r, place)
    /\ UNCHANGED <<fleet, access, refresh, row, late>>

(* The first contact: create, which a row under either id prevents. *)
Insert(r) ==
    /\ request[r].at = "inserting"
    /\ IF row = "none" THEN row' = "own" /\ Goes(r, "saving")
       ELSE UNCHANGED row /\ Goes(r, "rereading")
    /\ UNCHANGED <<fleet, access, refresh, late>>

(* The loser of a race takes the winner's row. *)
Reread(r) ==
    /\ request[r].at = "rereading"
    /\ \E place \in IF row = "own" THEN {"admitted", "saving"} ELSE {"searching"} : Goes(r, place)
    /\ UNCHANGED <<fleet, access, refresh, row, late>>

(* By phone, e-mail or name; the ids are compared as text. *)
Search(r) ==
    /\ request[r].at = "searching"
    /\ request' = [request EXCEPT ![r] =
           CASE row = "none" -> Idle
             [] row = "own"  -> [@ EXCEPT !.at = "admitted"]
             [] row = "old"  -> [@ EXCEPT !.at = "rekeying", !.found = row]]
    /\ UNCHANGED <<fleet, access, refresh, row, late>>

(* Delete and create, in one transaction; where another request has the    *)
(* row by now the insert fails, and with it the request.                   *)
Replaces(r) ==
    IF row = "own" THEN UNCHANGED row /\ Returns(r)
    ELSE row' = "own" /\ request' = [request EXCEPT ![r].at = "saving", ![r].found = "none"]

(* Mutant: the delete of a re-key is announced like any other. *)
RekeyAnnounced(r) ==
    /\ request[r].at = "rekeying"
    /\ Replaces(r)
    /\ TombstoneUser(request[r].found)
    /\ UNCHANGED <<account, deletions, deactivated, access, refresh, late>>

(* shadow_rekey() keeps the receiver quiet. *)
Rekey(r) ==
    /\ request[r].at = "rekeying"
    /\ Replaces(r)
    /\ UNCHANGED <<fleet, access, refresh, late>>

(* save() updates the row, or inserts it where it has gone meanwhile. *)
Save(r) ==
    /\ request[r].at = "saving"
    /\ row' = "own"
    /\ Goes(r, "admitted")
    /\ UNCHANGED <<fleet, access, refresh, late>>

Serve(r) ==
    /\ request[r].at = "admitted"
    /\ Returns(r)
    /\ UNCHANGED <<fleet, access, refresh, row, late>>

(* The consumer's own rows of a deleted account are deleted. *)
EraseRow ==
    /\ account = "deleted"
    /\ row # "none"
    /\ row' = "none"
    /\ deletions' = deletions \cup {row}
    /\ TombstoneUser(row)
    /\ UNCHANGED <<account, deactivated, access, refresh, request, late>>

Left(n) == IF n > 0 THEN n - 1 ELSE 0

Tick ==
    /\ account # "deleting"
    /\ \A r \in Requests : request[r].at = "idle"
    /\ access > 0 \/ refresh > 0 \/ \E i \in Ids : tombstone[i] > 0
    /\ access' = Left(access)
    /\ refresh' = Left(refresh)
    /\ tombstone' = [i \in Ids |-> Left(tombstone[i])]
    /\ UNCHANGED <<account, deletions, deactivated, row, request, recorded, late>>

Next ==
    \/ SignIn \/ Delete \/ Commit \/ Rollback \/ Restore \/ LiftTombstone
    \/ DeactivateUser \/ LiftDeactivation \/ EraseRow \/ Tick
    \/ \E r \in Requests :
          \/ PresentRefresh(r) \/ LoadUserByUid(r) \/ GenerateAccessToken(r)
          \/ PresentAccess(r) \/ PresentEvent(r) \/ CheckTombstone(r)
          \/ CheckDeactivated(r) \/ EventReads(r) \/ ReadRow(r) \/ Insert(r) \/ Reread(r) \/ Search(r) \/ Rekey(r)
          \/ Save(r) \/ Serve(r)

Spec == Init /\ [][Next]_vars

-----------------------------------------------------------------------------
(* "A deleted account cannot be re-created from its own token"             *)
(* (tombstone.py:1): a request that begins after the deletion was recorded *)
(* is not admitted on a token, while the tombstone lasts or later; by the  *)
(* time it expires nothing that could be shown has been minted anywhere.   *)
DeletionStands ==
    \A r \in late : ~(request[r].at = "admitted" /\ request[r].by = "token")

(* A tombstone stands only for an id whose row somebody asked to delete:   *)
(* mirroring a person, in whatever order first contacts, repairs of an old *)
(* id and deletions interleave, announces nothing.                         *)
TombstonesTrue == \A i \in Ids : tombstone[i] > 0 => i \in deletions
=============================================================================
