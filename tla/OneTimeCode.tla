----------------------------- MODULE OneTimeCode -----------------------------
(***************************************************************************)
(* verification/codes.py: the one-time code of one identifier and purpose, *)
(* a record in the cache with its attempt counter inside, and the block    *)
(* beside it. check() is get, compare, then delete or set: the cache has   *)
(* no compare-and-set, so requests for one identifier that overlap act on  *)
(* copies. Every cache call may fail, which check() reports as UNAVAILABLE *)
(* and never as a verdict.                                                 *)
(*                                                                         *)
(* Codes are numbered as they are issued; presenting 0 stands for digits   *)
(* that are no code. A key's TTL is an event: the key goes away.           *)
(***************************************************************************)
EXTENDS Naturals

CONSTANTS
    Checkers,        \* requests that may be in check() at once
    MaxCodes,        \* bound: codes issued
    Budget           \* max_attempts

VARIABLES
    record,          \* the record under the code key
    blocked,         \* whether the block key stands
    issued,          \* codes issued so far
    checker,         \* where each request is, what it presents, what it read
    accepted,        \* OK verdicts, per code
    refuted,         \* verdicts that told a wrong guess apart, per code
    overlaps         \* verdicts of either kind of late requests, per code

vars == <<record, blocked, issued, checker, accepted, refuted, overlaps>>

Codes    == 1 .. MaxCodes
NoRecord == [code |-> 0, attempts |-> 0]
Records  == [code : 0 .. MaxCodes, attempts : 0 .. Budget]
Request(at, n) == [at |-> at, shows |-> n, copy |-> NoRecord, late |-> FALSE]
Idle     == Request("idle", 0)

TypeOK ==
    /\ record \in Records
    /\ record.code # 0 => record.code <= issued /\ record.attempts < Budget
    /\ blocked \in BOOLEAN
    /\ issued \in 0 .. MaxCodes
    /\ checker \in [Checkers -> [at : {"idle", "reading", "matched", "missed", "blocking"},
                                 shows : 0 .. MaxCodes, copy : Records, late : BOOLEAN]]
    /\ {accepted, refuted, overlaps} \subseteq [Codes -> Nat]

Init ==
    /\ record = NoRecord
    /\ blocked = FALSE
    /\ issued = 0
    /\ checker = [c \in Checkers |-> Idle]
    /\ accepted = [n \in Codes |-> 0]
    /\ refuted = [n \in Codes |-> 0]
    /\ overlaps = [n \in Codes |-> 0]

(* issue(): replaces the pending record, attempts and all. *)
Issue ==
    /\ issued < MaxCodes
    /\ issued' = issued + 1
    /\ record' = [code |-> issued + 1, attempts |-> 0]
    /\ UNCHANGED <<blocked, checker, accepted, refuted, overlaps>>

-----------------------------------------------------------------------------
(* check() *)

Return(c) == checker' = [checker EXCEPT ![c] = Idle]

(* The block is read first; while it stands nothing else is looked at. *)
Begin(c, n) ==
    /\ checker[c].at = "idle"
    /\ ~blocked
    /\ checker' = [checker EXCEPT ![c] = Request("reading", n)]
    /\ UNCHANGED <<record, blocked, issued, accepted, refuted, overlaps>>

(* Some other request holds a copy of the code's record. *)
Held(c, n) ==
    \E d \in Checkers \ {c} :
        checker[d].at \in {"matched", "missed"} /\ checker[d].copy.code = n

(* The record is read and compared: nothing there, a match, a mismatch. A  *)
(* request that reads what another one still holds is late.                *)
Look(c) ==
    /\ checker[c].at = "reading"
    /\ IF record.code = 0 THEN Return(c)
       ELSE checker' = [checker EXCEPT
               ![c].at = IF record.code = checker[c].shows THEN "matched" ELSE "missed",
               ![c].copy = record, ![c].late = Held(c, record.code)]
    /\ UNCHANGED <<record, blocked, issued, accepted, refuted, overlaps>>

(* The verdict of a late request is counted as one. *)
CountOverlap(c) ==
    overlaps' = IF checker[c].late THEN [overlaps EXCEPT ![checker[c].copy.code] = @ + 1]
                ELSE overlaps

(* A match: the key is deleted, whatever is under it by now, and OK. *)
Spend(c) ==
    /\ checker[c].at = "matched"
    /\ record' = NoRecord
    /\ accepted' = [accepted EXCEPT ![checker[c].copy.code] = @ + 1]
    /\ CountOverlap(c)
    /\ Return(c)
    /\ UNCHANGED <<blocked, issued, refuted>>

(* A wrong guess is told apart. *)
Refute(c) ==
    /\ refuted' = [refuted EXCEPT ![checker[c].copy.code] = @ + 1]
    /\ CountOverlap(c)

(* Mutant: the budget is compared with the attempts before this one. *)
ExhaustedBefore(copy) == copy.attempts >= Budget

(* This mismatch is the last the copy's budget allows. *)
Exhausted(copy) == copy.attempts + 1 >= Budget

(* The record is destroyed; the verdict is BLOCKED once the block stands. *)
Exhaust(c) ==
    /\ checker[c].at = "missed"
    /\ Exhausted(checker[c].copy)
    /\ record' = NoRecord
    /\ Refute(c)
    /\ checker' = [checker EXCEPT ![c].at = "blocking"]
    /\ UNCHANGED <<blocked, issued, accepted>>

Block(c) ==
    /\ checker[c].at = "blocking"
    /\ blocked' = TRUE
    /\ Return(c)
    /\ UNCHANGED <<record, issued, accepted, refuted, overlaps>>

(* The copy is written back with one more attempt, over whatever is there. *)
WriteBack(c) ==
    /\ checker[c].at = "missed"
    /\ ~Exhausted(checker[c].copy)
    /\ record' = [checker[c].copy EXCEPT !.attempts = @ + 1]
    /\ Refute(c)
    /\ Return(c)
    /\ UNCHANGED <<blocked, issued, accepted>>

(* A cache call of check() fails: UNAVAILABLE. *)
StoreDown(c) ==
    /\ checker[c].at # "idle"
    /\ Return(c)
    /\ UNCHANGED <<record, blocked, issued, accepted, refuted, overlaps>>

-----------------------------------------------------------------------------
(* discard(), the TTL, or a restart of the cache. *)
Discard ==
    /\ record.code # 0
    /\ record' = NoRecord
    /\ UNCHANGED <<blocked, issued, checker, accepted, refuted, overlaps>>

(* unblock(), or the end of the penalty. *)
Unblock ==
    /\ blocked
    /\ blocked' = FALSE
    /\ UNCHANGED <<record, issued, checker, accepted, refuted, overlaps>>

Next ==
    \/ Issue \/ Discard \/ Unblock
    \/ \E c \in Checkers :
          \/ \E n \in 0 .. issued : Begin(c, n)
          \/ Look(c) \/ Spend(c) \/ Exhaust(c) \/ Block(c) \/ WriteBack(c) \/ StoreDown(c)

Spec == Init /\ [][Next]_vars

-----------------------------------------------------------------------------
(* The entry is spent by a match, "the code cannot be replayed"            *)
(* (codes.py:310), and its attempt budget "lives inside the entry" (:41).  *)
(* Of overlapping requests neither holds, as check() reads, compares and   *)
(* then deletes or sets (:324-347). What does hold: a code is accepted     *)
(* once, and reaches no more verdicts than its budget, except for at most  *)
(* one more per verdict given to a request that had read the record while  *)
(* another one held it. Requests that do not overlap, stale write-backs    *)
(* over a deletion or a resend, outages and lifted blocks add nothing.     *)
BudgetKept ==
    \A n \in Codes :
        /\ accepted[n] <= 1 + overlaps[n]
        /\ accepted[n] + refuted[n] <= Budget + overlaps[n]
=============================================================================
