------------------------------- MODULE Gateway -------------------------------
(***************************************************************************)
(* gateway/service.py: a privileged verb whose policy asks for             *)
(* confirmation is parked as a PendingAction row; confirm() resolves the   *)
(* row - approves, rejects or finds it expired - and an approved call goes *)
(* through policy again before its handler runs. Every outcome is meant to *)
(* leave one line on the audit stream, whose sink may fail.                *)
(*                                                                         *)
(* invoke() and confirm() run in threads of the control plane and take no  *)
(* row locks: confirm() reads the row, decides from what it read, and      *)
(* writes with one UPDATE conditional on status = pending.                 *)
(***************************************************************************)
EXTENDS Naturals

CONSTANTS
    Calls,           \* parked calls, named by the id of their row
    Threads,
    Limit,           \* the verb's rate_limit
    MaxFaults,       \* bound: failures of the sink and deaths of a thread
    NoCall

VARIABLES
    status,          \* PendingAction.status, "none" before the row exists
    overdue,         \* rows whose expires_at has passed
    thread,          \* where each thread is, and for which call
    used,            \* the counter of the rate window
    runs,            \* how often the handler ran
    log,             \* lines of the audit stream, as <<call, decision>>
    disturbed,       \* calls a fault has hit
    faults

vars == <<status, overdue, thread, used, runs, log, disturbed, faults>>

(* "resolved" is a denial with reason confirmation_resolved. *)
Decisions == {"pending", "executed", "denied", "rejected", "expired", "resolved"}
Statuses  == {"none", "pending", "executed", "failed", "rejected", "expired"}
Places    == {"idle", "checking", "parking", "running", "expiring", "rejecting",
              "claiming", "telling", "failing"}

(* ok: the handler did not raise; claimed: this thread won the row. *)
Idle == [at |-> "idle", of |-> NoCall, line |-> "pending", ok |-> TRUE, claimed |-> FALSE]

TypeOK ==
    /\ status \in [Calls -> Statuses]
    /\ overdue \subseteq Calls
    /\ thread \in [Threads -> [at : Places, of : Calls \cup {NoCall},
                               line : Decisions, ok : BOOLEAN, claimed : BOOLEAN]]
    /\ used \in 0 .. Limit + 1
    /\ runs \in [Calls -> Nat]
    /\ log \subseteq Calls \X Decisions
    /\ disturbed \subseteq Calls
    /\ faults \in 0 .. MaxFaults

Init ==
    /\ status = [c \in Calls |-> "none"]
    /\ overdue = {}
    /\ thread = [t \in Threads |-> Idle]
    /\ used = 0
    /\ runs = [c \in Calls |-> 0]
    /\ log = {}
    /\ disturbed = {}
    /\ faults = 0

Goes(t, place) == thread' = [thread EXCEPT ![t].at = place]
Tells(t, line) == thread' = [thread EXCEPT ![t].at = "telling", ![t].line = line]
Leaves(t)      == thread' = [thread EXCEPT ![t] = Idle]

(* UPDATE .. WHERE status = 'pending'. *)
Resolve(c, outcome) == status' = [status EXCEPT ![c] = outcome]

-----------------------------------------------------------------------------
(* invoke() *)

(* A container or a service asks for the verb. *)
Ask(t, c) ==
    /\ thread[t].at = "idle"
    /\ status[c] = "none"
    /\ \A u \in Threads : thread[u].of # c
    /\ thread' = [thread EXCEPT ![t] = [Idle EXCEPT !.at = "checking", !.of = c]]
    /\ UNCHANGED <<status, overdue, used, runs, log, disturbed, faults>>

(* The registry, the schema and the tiers allow the call or deny it; then  *)
(* the limiter counts it, and there may be no handler for it.              *)
Check(t) ==
    /\ thread[t].at = "checking"
    /\ \/ Tells(t, "denied") /\ UNCHANGED used
       \/ /\ used' = IF used <= Limit THEN used + 1 ELSE used
          /\ \/ used < Limit /\ Goes(t, IF thread[t].claimed THEN "running" ELSE "parking")
             \/ (used >= Limit \/ thread[t].claimed) /\ Tells(t, "denied")
    /\ UNCHANGED <<status, overdue, runs, log, disturbed, faults>>

(* require_confirmation: the row is created. *)
Park(t) ==
    /\ thread[t].at = "parking"
    /\ Resolve(thread[t].of, "pending")
    /\ Tells(t, "pending")
    /\ UNCHANGED <<overdue, used, runs, log, disturbed, faults>>

(* The handler does its work, and returns or raises. *)
Run(t) ==
    /\ thread[t].at = "running"
    /\ runs' = [runs EXCEPT ![thread[t].of] = @ + 1]
    /\ \E ok \in BOOLEAN :
          thread' = [thread EXCEPT ![t].at = "telling", ![t].line = "executed", ![t].ok = ok]
    /\ UNCHANGED <<status, overdue, used, log, disturbed, faults>>

-----------------------------------------------------------------------------
(* confirm() *)

(* The row is read, and the decision follows from the copy. *)
ReadRow(t, c) ==
    /\ thread[t].at = "idle"
    /\ status[c] # "none"
    /\ \E place \in IF status[c] # "pending" THEN {"telling"}
                    ELSE IF c \in overdue THEN {"expiring"}
                    ELSE {"rejecting", "claiming"} :
          thread' = [thread EXCEPT ![t] =
              [Idle EXCEPT !.at = place, !.of = c, !.line = "resolved"]]
    /\ UNCHANGED <<status, overdue, used, runs, log, disturbed, faults>>

(* Told as expired also when another thread resolved the row meanwhile. *)
Expire(t) ==
    /\ thread[t].at = "expiring"
    /\ IF status[thread[t].of] = "pending" THEN Resolve(thread[t].of, "expired")
       ELSE UNCHANGED status
    /\ Tells(t, "expired")
    /\ UNCHANGED <<overdue, used, runs, log, disturbed, faults>>

(* Mutant: the rejection is told whether or not the UPDATE found the row. *)
RejectUnchecked(t) ==
    /\ thread[t].at = "rejecting"
    /\ IF status[thread[t].of] = "pending" THEN Resolve(thread[t].of, "rejected")
       ELSE UNCHANGED status
    /\ Tells(t, "rejected")
    /\ UNCHANGED <<overdue, used, runs, log, disturbed, faults>>

(* The loser of the race raises, without a line. *)
Reject(t) ==
    /\ thread[t].at = "rejecting"
    /\ IF status[thread[t].of] = "pending"
       THEN Resolve(thread[t].of, "rejected") /\ Tells(t, "rejected")
       ELSE Leaves(t) /\ UNCHANGED status
    /\ UNCHANGED <<overdue, used, runs, log, disturbed, faults>>

(* Mutant: the row is saved, not updated where it is pending. *)
ClaimUnchecked(t) ==
    /\ thread[t].at = "claiming"
    /\ Resolve(thread[t].of, "executed")
    /\ thread' = [thread EXCEPT ![t].at = "checking", ![t].claimed = TRUE]
    /\ UNCHANGED <<overdue, used, runs, log, disturbed, faults>>

(* The claim; the winner enters invoke() with the row. *)
Claim(t) ==
    /\ thread[t].at = "claiming"
    /\ IF status[thread[t].of] = "pending"
       THEN /\ Resolve(thread[t].of, "executed")
            /\ thread' = [thread EXCEPT ![t].at = "checking", ![t].claimed = TRUE]
       ELSE Leaves(t) /\ UNCHANGED status
    /\ UNCHANGED <<overdue, used, runs, log, disturbed, faults>>

(* invoke() raised: the row is marked failed, whatever happened in it. *)
Fail(t) ==
    /\ thread[t].at = "failing"
    /\ Resolve(thread[t].of, "failed")
    /\ Leaves(t)
    /\ UNCHANGED <<overdue, used, runs, log, disturbed, faults>>

-----------------------------------------------------------------------------
(* audit.record() *)

(* After its line a claimed call that was denied, or raised, is an         *)
(* exception in confirm().                                                 *)
Told(t, raises) == IF thread[t].claimed /\ raises THEN Goes(t, "failing") ELSE Leaves(t)

Tell(t) ==
    /\ thread[t].at = "telling"
    /\ log' = log \cup {<<thread[t].of, thread[t].line>>}
    /\ Told(t, thread[t].line = "denied" \/ ~thread[t].ok)
    /\ UNCHANGED <<status, overdue, used, runs, disturbed, faults>>

Fault(t) ==
    /\ faults < MaxFaults
    /\ faults' = faults + 1
    /\ disturbed' = disturbed \cup {thread[t].of}

(* The sink raises: AuditFailure, also for a call that was executed. *)
SinkFails(t) ==
    /\ thread[t].at = "telling"
    /\ Fault(t)
    /\ Told(t, TRUE)
    /\ UNCHANGED <<status, overdue, used, runs, log>>

Crash(t) ==
    /\ thread[t].at # "idle"
    /\ Fault(t)
    /\ Leaves(t)
    /\ UNCHANGED <<status, overdue, used, runs, log>>

-----------------------------------------------------------------------------
(* expires_at passes. *)
ExpiryPasses(c) ==
    /\ status[c] # "none"
    /\ c \notin overdue
    /\ overdue' = overdue \cup {c}
    /\ UNCHANGED <<status, thread, used, runs, log, disturbed, faults>>

(* The next rate window begins. *)
NextWindow ==
    /\ used > 0
    /\ used' = 0
    /\ UNCHANGED <<status, overdue, thread, runs, log, disturbed, faults>>

Next ==
    \/ \E t \in Threads :
          \/ \E c \in Calls : Ask(t, c) \/ ReadRow(t, c)
          \/ Check(t) \/ Park(t) \/ Run(t)
          \/ Expire(t) \/ Reject(t) \/ Claim(t) \/ Fail(t)
          \/ Tell(t) \/ SinkFails(t) \/ Crash(t)
    \/ \E c \in Calls : ExpiryPasses(c)
    \/ NextWindow

Spec == Init /\ [][Next]_vars

-----------------------------------------------------------------------------
(* "Claim atomically so two approvals cannot double-execute"               *)
(* (service.py:244): the handler of a parked call runs at most once, only  *)
(* for the row's one approval, and never for a row that was rejected or    *)
(* expired, however the confirmations, the clock and the faults fall.      *)
RunsOnce ==
    \A c \in Calls : runs[c] <= 1 /\ (runs[c] = 1 => status[c] \in {"executed", "failed"})

Unattended(c) == c \notin disturbed /\ \A t \in Threads : thread[t].of # c

(* The audit stream agrees with the rows: a rejection told is one that     *)
(* happened, an execution told is one run, and a resolution nobody is      *)
(* still working on, and no fault has hit, has been told.                  *)
LogAgrees ==
    \A c \in Calls :
        /\ <<c, "rejected">> \in log => status[c] = "rejected"
        /\ <<c, "executed">> \in log => runs[c] = 1
        /\ Unattended(c) =>
              /\ status[c] # "none" => <<c, "pending">> \in log
              /\ status[c] \in {"executed", "rejected", "expired"} => <<c, status[c]>> \in log
              /\ status[c] = "failed" => log \cap {<<c, "denied">>, <<c, "executed">>} # {}
=============================================================================
