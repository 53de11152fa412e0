---------------------------- MODULE WorkspaceDoors ----------------------------
(***************************************************************************)
(* The three questions a service asks stapel-workspaces about one user,    *)
(* and caches for TTL seconds: does the user hold a mandate anywhere       *)
(* (django/mandate.py), which role has the user in a workspace, and may    *)
(* the user do a thing there (django/workspaces.py). A question that could *)
(* not be asked is no verdict: 503, not 403, and nothing is remembered.    *)
(* An answer without the key or the role the client looks for is no verdict *)
(* for the mandate only: the other doors take it for a denial, and the one *)
(* for capabilities remembers it.                                          *)
(* Losing the mandate is announced, and the announcement drops the cached  *)
(* answer; it may come late, twice or never.                               *)
(*                                                                         *)
(* A behaviour is about one door, and the one cache entry it reads. Where  *)
(* the Function for capabilities is not wired, the membership and a table  *)
(* of built-in roles decide. The user is in one workspace at most.         *)
(***************************************************************************)
EXTENDS Naturals

CONSTANTS
    Requests,
    TTL,             \* CACHE_TTL_SECONDS, mandate_cache_seconds()
    Delay            \* longest time from the answer to its being stored

VARIABLES
    door,            \* which question, and how it travels
    role,            \* the user's role, at the workspaces service
    since,           \* seconds since it last changed
    announced,       \* a revocation was announced
    dropped,         \* ... and the last one dropped the entry, with no answer under way
    entry,           \* the cached answer, and the seconds it has left
    misread,         \* seconds since an unreadable answer was taken for a denial
    request          \* what each request is doing, and with which answer

vars == <<door, role, since, announced, dropped, entry, misread, request>>

Roles    == {"none", "member", "admin"}
Answers  == Roles \cup {"unreadable"}
Verdicts == {"admitted", "refused", "unavailable"}
LongAgo  == TTL + Delay
NoEntry  == [role |-> "none", left |-> 0]
Idle     == [at |-> "idle", role |-> "none", age |-> 0]

TypeOK ==
    /\ door \in {"mandate", "role", "capability", "fallback"}
    /\ role \in Roles
    /\ since \in 0 .. LongAgo
    /\ announced \in BOOLEAN
    /\ dropped \in BOOLEAN
    /\ entry \in [role : Roles, left : 0 .. TTL]
    /\ misread \in 0 .. TTL
    /\ request \in [Requests -> [at : {"idle", "asking", "answered"} \cup Verdicts,
                                 role : Answers, age : 0 .. Delay]]

Init ==
    /\ door \in {"mandate", "role", "capability", "fallback"}
    /\ role \in Roles
    /\ since = LongAgo
    /\ announced = FALSE
    /\ dropped = FALSE
    /\ entry = NoEntry
    /\ misread = TTL
    /\ request = [r \in Requests |-> Idle]

(* What the door asks of a role: any at all, or one that is enough, as the *)
(* Function, ROLE_HIERARCHY and BUILTIN_ROLES agree.                       *)
Opens(answer) ==
    IF door = "mandate" THEN answer \in {"member", "admin"} ELSE answer = "admin"

Decide(r, answer) ==
    request' = [request EXCEPT ![r] =
        [Idle EXCEPT !.at = IF Opens(answer) THEN "admitted" ELSE "refused"]]

-----------------------------------------------------------------------------
(* mandate_state(), require_role(), require_capability() *)

FindCached(r) ==
    /\ request[r].at = "idle"
    /\ entry.left > 0
    /\ Decide(r, entry.role)
    /\ UNCHANGED <<door, role, since, announced, dropped, entry, misread>>

Ask(r) ==
    /\ request[r].at = "idle"
    /\ entry.left = 0
    /\ request' = [request EXCEPT ![r].at = "asking"]
    /\ UNCHANGED <<door, role, since, announced, dropped, entry, misread>>

(* The peer says which role it is, or says something else: no object, no   *)
(* key, a 200 without a role.                                              *)
Answer(r) ==
    /\ request[r].at = "asking"
    /\ \E answer \in {role, "unreadable"} :
          request' = [request EXCEPT ![r] = [at |-> "answered", role |-> answer, age |-> 0]]
    /\ UNCHANGED <<door, role, since, announced, dropped, entry, misread>>

(* The peer is away, slow, broken, or knows no such route. *)
ReportUnavailable(r) ==
    /\ request[r].at = "asking"
    /\ request' = [request EXCEPT ![r].at = "unavailable"]
    /\ UNCHANGED <<door, role, since, announced, dropped, entry, misread>>

(* The answer is remembered, also one the announcement has overtaken. *)
Store(r) ==
    /\ request[r].at = "answered"
    /\ request[r].role \in Roles
    /\ entry' = [role |-> request[r].role, left |-> TTL]
    /\ Decide(r, request[r].role)
    /\ UNCHANGED <<door, role, since, announced, dropped, misread>>

(* _ask() of the mandate looks for the key. *)
Distrust(r) ==
    /\ request[r].at = "answered"
    /\ request[r].role = "unreadable"
    /\ door = "mandate"
    /\ request' = [request EXCEPT ![r] = [Idle EXCEPT !.at = "unavailable"]]
    /\ UNCHANGED <<door, role, since, announced, dropped, entry, misread>>

(* get_membership() returns None, and require_capability() remembers       *)
(* "__deny__" as for an answer that says no.                               *)
TakeForDenial(r) ==
    /\ request[r].at = "answered"
    /\ request[r].role = "unreadable"
    /\ door # "mandate"
    /\ entry' = IF door = "capability" THEN [role |-> "none", left |-> TTL] ELSE entry
    /\ misread' = 0
    /\ Decide(r, "none")
    /\ UNCHANGED <<door, role, since, announced, dropped>>

Respond(r) ==
    /\ request[r].at \in Verdicts
    /\ request' = [request EXCEPT ![r] = Idle]
    /\ UNCHANGED <<door, role, since, announced, dropped, entry, misread>>

-----------------------------------------------------------------------------
(* The workspaces service changes the role, and announces its loss. *)
Change ==
    /\ role' \in Roles \ {role}
    /\ since' = 0
    /\ announced' = (announced \/ role' = "none")
    /\ dropped' = FALSE
    /\ UNCHANGED <<door, entry, misread, request>>

(* A request was admitted, or is about to be. *)
Overtaken ==
    \E r \in Requests :
        \/ request[r].at = "admitted"
        \/ request[r].at = "answered" /\ Opens(request[r].role)

(* Mutant: what is dropped is not the entry the door reads. *)
OnMandateRevokedElsewhere ==
    /\ announced /\ door = "mandate"
    /\ dropped' = (role = "none" /\ ~Overtaken)
    /\ UNCHANGED <<door, role, since, announced, entry, misread, request>>

(* _on_mandate_revoked(): the entry goes. Where the cache cannot be        *)
(* reached nothing changes, and the event counts as handled.               *)
OnMandateRevoked ==
    /\ announced /\ door = "mandate"
    /\ entry' = NoEntry
    /\ dropped' = (role = "none" /\ ~Overtaken)
    /\ UNCHANGED <<door, role, since, announced, misread, request>>

(* invalidate_membership_cache(), by a writer in this process; it does not *)
(* know the entries of capabilities.                                       *)
InvalidateMembership ==
    /\ door \in {"role", "fallback"}
    /\ entry' = NoEntry
    /\ UNCHANGED <<door, role, since, announced, dropped, misread, request>>

(* A verdict is acted upon at once. *)
Tick ==
    /\ \A r \in Requests :
          /\ request[r].at \notin Verdicts
          /\ request[r].at = "answered" => request[r].age < Delay
    /\ since' = IF since < LongAgo THEN since + 1 ELSE since
    /\ misread' = IF misread < TTL THEN misread + 1 ELSE misread
    /\ entry' = IF entry.left > 1 THEN [entry EXCEPT !.left = @ - 1] ELSE NoEntry
    /\ request' = [r \in Requests |->
           IF request[r].at = "answered" THEN [request[r] EXCEPT !.age = @ + 1] ELSE request[r]]
    /\ UNCHANGED <<door, role, announced, dropped>>

Next ==
    \/ \E r \in Requests :
          \/ FindCached(r) \/ Ask(r) \/ Answer(r) \/ ReportUnavailable(r)
          \/ Store(r) \/ Distrust(r) \/ TakeForDenial(r) \/ Respond(r)
    \/ Change \/ OnMandateRevoked \/ InvalidateMembership \/ Tick

Spec == Init /\ [][Next]_vars

-----------------------------------------------------------------------------
(* An unreadable answer was taken for a denial, just now or, where that is *)
(* remembered, less than TTL ago. It never is where the mandate is asked.  *)
Misread ==
    \/ door = "capability" /\ misread < TTL
    \/ door \in {"role", "fallback"} /\ misread = 0

(* "The TTL is the bound on the bus failing" (mandate.py:64): a verdict is *)
(* the workspaces service's own of no more than TTL and Delay ago; and no  *)
(* door that asks for the mandate opens once its loss was heard, unless an *)
(* answer was under way then. That is less than "three answers, never two" *)
(* (workspaces.py:11): apart from the mandate a refusal may also be an     *)
(* unreadable answer, for one response at the doors that ask for the role  *)
(* (:219-221), for TTL at the one for capabilities (:377-383). It is never *)
(* an outage, nor does anything but the service's word admit.              *)
VerdictsStand ==
    \A r \in Requests :
        /\ since >= LongAgo =>
              /\ request[r].at = "admitted" => Opens(role)
              /\ request[r].at = "refused" => ~Opens(role) \/ Misread
        /\ dropped => request[r].at # "admitted"
=============================================================================
