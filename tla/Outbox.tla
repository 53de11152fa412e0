------------------------------- MODULE Outbox -------------------------------
(***************************************************************************)
(* Delivery of the transactional outbox: comm/actions.py from the commit   *)
(* of the emitting transaction on, and django/outbox/relay.py.             *)
(*                                                                         *)
(* Every event has one row.  Two kinds of actor deliver rows: the process  *)
(* that committed the transaction tries once, right after the commit       *)
(* (dispatch_one, no row lock, each UPDATE its own transaction), and relay *)
(* processes sweep due rows (dispatch_pending, one transaction that holds  *)
(* the rows' locks from SELECT .. FOR UPDATE SKIP LOCKED to COMMIT).       *)
(*                                                                         *)
(* Time is abstract: a row is due or it is not; a failure makes it not     *)
(* due, Tick makes it due again (next_attempt_at passed).                  *)
(***************************************************************************)
EXTENDS Naturals, FiniteSets

CONSTANTS
    Events,        \* the events that may be emitted, one outbox row each
    Relays,        \* the processes that run dispatch_outbox
    Web,           \* the process whose threads commit transactions
    InProcess,     \* events whose subscribers run where they are dispatched
    Async,         \* events routed to an asynchronous producer (Kafka)
    Poison,        \* events whose delivery never succeeds
    BreaksTx,      \* an in-process failure is a database error in the tx
    Rejectable,    \* events whose delivery report may be an error
    BatchLimits,   \* rows a pass may take (--batch, the limit of dispatch_pending)
    Times,         \* values of created_at
    MaxAttempts,   \* bound: attempts saturates where the backoff is flat
    MaxQueued,     \* bound: copies of one event in one producer queue
    MaxCrashes     \* bound: process crashes in one behaviour

ASSUME OutboxAssumption ==
    /\ Web \notin Relays
    /\ InProcess \subseteq Events
    /\ Async \subseteq Events \ InProcess
    /\ Poison \subseteq Events
    /\ BreaksTx \in BOOLEAN
    /\ Rejectable \subseteq Async
    /\ BatchLimits \subseteq Nat \ {0} /\ BatchLimits # {}
    /\ Times \subseteq Nat
    /\ MaxAttempts \in Nat \ {0}
    /\ MaxQueued \in Nat \ {0}
    /\ MaxCrashes \in Nat

Procs == Relays \cup {Web}

VARIABLES
    created,       \* created_at of each event's row, fixed when it is written
    stored,        \* committed rows
    dispatched,    \* rows with dispatched_at set
    attempts,      \* attempts column
    due,           \* rows with next_attempt_at <= now
    fc,            \* first-chance delivery of each event: where it is
    seen,          \* attempts as the first-chance thread read it
    pc,            \* where each relay is
    batch,         \* rows each relay has locked
    todo,          \* rows of the batch not yet published
    sent,          \* rows of the batch published without an exception
    queued,        \* copies in each process's producer queue, unreported
    delivered,     \* events whose subscribers' work, or broker copy, is durable
    effects,       \* subscribers' work inside each relay's open transaction
    crashes        \* crashes so far

rowVars   == <<created, stored, dispatched, attempts, due>>
webVars   == <<fc, seen>>
relayVars == <<pc, batch, todo, sent, effects>>
vars == <<rowVars, webVars, relayVars, queued, delivered, crashes>>

FcStates == {"off", "committed", "loaded", "published", "confirmed", "failed"}
PcStates == {"idle", "publishing", "confirmed", "unconfirmed"}

TypeOK ==
    /\ created \in [Events -> Times]
    /\ stored \subseteq Events
    /\ dispatched \subseteq stored
    /\ attempts \in [Events -> 0 .. MaxAttempts]
    /\ due \subseteq stored
    /\ fc \in [Events -> FcStates]
    /\ seen \in [Events -> 0 .. MaxAttempts]
    /\ pc \in [Relays -> PcStates]
    /\ batch \in [Relays -> SUBSET Events]
    /\ todo \in [Relays -> SUBSET Events]
    /\ sent \in [Relays -> SUBSET Events]
    /\ effects \in [Relays -> SUBSET Events]
    /\ queued \in [Procs -> [Events -> 0 .. MaxQueued]]
    /\ delivered \subseteq stored
    /\ crashes \in 0 .. MaxCrashes

Init ==
    /\ created \in [Events -> Times]
    /\ stored = {}
    /\ dispatched = {}
    /\ attempts = [e \in Events |-> 0]
    /\ due = {}
    /\ fc = [e \in Events |-> "off"]
    /\ seen = [e \in Events |-> 0]
    /\ pc = [r \in Relays |-> "idle"]
    /\ batch = [r \in Relays |-> {}]
    /\ todo = [r \in Relays |-> {}]
    /\ sent = [r \in Relays |-> {}]
    /\ effects = [r \in Relays |-> {}]
    /\ queued = [p \in Procs |-> [e \in Events |-> 0]]
    /\ delivered = {}
    /\ crashes = 0

(* Rows some relay's transaction holds locked. *)
Locked == UNION {batch[r] : r \in Relays}

(* The attempts column after one more failure; saturating, as the backoff  *)
(* min(2 ** attempts, 300 s) does.                                         *)
Bump(n) == IF n < MaxAttempts THEN n + 1 ELSE n

(* How deliver() gets an event out: to subscribers in this process, to a   *)
(* broker that answers, or into the queue of an asynchronous producer      *)
(* (a routing bus takes each topic to its own broker).                     *)
Publishes(e) == e \notin InProcess \cup Async
Queues(e)    == e \in Async

(* Its failure is a database error in the dispatching transaction. *)
Breaks(e) == BreaksTx /\ e \in InProcess

(* Mutant: the flush is not waited for. *)
DrainedUnasked(p) == TRUE

(* The producer of process p has reported on everything it was given. *)
Drained(p) == \A e \in Events : queued[p][e] = 0

-----------------------------------------------------------------------------
(* The emitting transaction commits: its rows appear, due at once, and the *)
(* on_commit callbacks are registered.  The order of the callbacks of one  *)
(* transaction is left open; so is the order of created_at, which is taken *)
(* inside the transactions and not at their commits.                       *)
Commit(S) ==
    /\ S # {}
    /\ S \cap stored = {}
    /\ stored' = stored \cup S
    /\ due' = due \cup S
    /\ fc' = [e \in Events |-> IF e \in S THEN "committed" ELSE fc[e]]
    /\ UNCHANGED <<created, dispatched, attempts, seen, relayVars, queued, delivered, crashes>>

-----------------------------------------------------------------------------
(* dispatch_one *)

(* Read the row, unlocked; a row already dispatched needs nothing. *)
LoadRow(e) ==
    /\ fc[e] = "committed"
    /\ fc' = [fc EXCEPT ![e] = IF e \in dispatched THEN "off" ELSE "loaded"]
    /\ seen' = [seen EXCEPT ![e] = IF e \in dispatched THEN seen[e] ELSE attempts[e]]
    /\ UNCHANGED <<rowVars, relayVars, queued, delivered, crashes>>

(* deliver() returned.  In-process and synchronous transports are done;    *)
(* an asynchronous producer only queued the message.                       *)
PublishFirst(e) ==
    /\ fc[e] = "loaded"
    /\ e \notin Poison
    /\ fc' = [fc EXCEPT ![e] = "published"]
    /\ IF Queues(e)
         THEN /\ queued[Web][e] < MaxQueued
              /\ queued' = [queued EXCEPT ![Web][e] = @ + 1]
              /\ UNCHANGED delivered
         ELSE /\ delivered' = delivered \cup {e}
              /\ UNCHANGED queued
    /\ UNCHANGED <<rowVars, seen, relayVars, crashes>>

(* deliver() raised.  A synchronous broker may have stored the message and *)
(* lost the acknowledgement.                                               *)
RaiseFirst(e) ==
    /\ fc[e] = "loaded"
    /\ fc' = [fc EXCEPT ![e] = "failed"]
    /\ \/ UNCHANGED delivered
       \/ /\ Publishes(e)
          /\ delivered' = delivered \cup {e}
    /\ UNCHANGED <<rowVars, seen, relayVars, queued, crashes>>

(* flush() answered 0: nothing of this process is still queued. *)
ConfirmFirst(e) ==
    /\ fc[e] = "published"
    /\ Drained(Web)
    /\ fc' = [fc EXCEPT ![e] = "confirmed"]
    /\ UNCHANGED <<rowVars, seen, relayVars, queued, delivered, crashes>>

(* flush() timed out with messages left, or raised. *)
UnconfirmedFirst(e) ==
    /\ fc[e] = "published"
    /\ Async # {}
    /\ fc' = [fc EXCEPT ![e] = "failed"]
    /\ UNCHANGED <<rowVars, seen, relayVars, queued, delivered, crashes>>

(* _mark_dispatched: UPDATE dispatched_at, last_error; waits for the row.  *)
MarkDispatchedFirst(e) ==
    /\ fc[e] = "confirmed"
    /\ e \notin Locked
    /\ fc' = [fc EXCEPT ![e] = "off"]
    /\ seen' = [seen EXCEPT ![e] = 0]
    /\ dispatched' = dispatched \cup {e}
    /\ UNCHANGED <<created, stored, attempts, due, relayVars, queued, delivered, crashes>>

(* _mark_failed: UPDATE attempts, next_attempt_at, last_error from the row *)
(* as it was read; dispatched_at is not among the updated fields.          *)
MarkFailedFirst(e) ==
    /\ fc[e] = "failed"
    /\ e \notin Locked
    /\ fc' = [fc EXCEPT ![e] = "off"]
    /\ attempts' = [attempts EXCEPT ![e] = Bump(seen[e])]
    /\ due' = due \ {e}
    /\ seen' = [seen EXCEPT ![e] = 0]
    /\ UNCHANGED <<created, stored, dispatched, relayVars, queued, delivered, crashes>>

-----------------------------------------------------------------------------
(* dispatch_pending *)

(* Mutants: a SELECT that does not skip locked rows; a relay that gives a  *)
(* row up after MaxAttempts failures.                                      *)
CandidatesUnlocked == (stored \ dispatched) \cap due
CandidatesNotExhausted ==
    {e \in ((stored \ dispatched) \cap due) \ Locked : attempts[e] < MaxAttempts}

(* Rows due, undispatched and unlocked. *)
Candidates == ((stored \ dispatched) \cap due) \ Locked

(* Lock the oldest of them, as many as the pass may take; rows of one      *)
(* created_at come in any order.                                           *)
SelectRows(r, S) ==
    /\ pc[r] = "idle"
    /\ S # {}
    /\ S \subseteq Candidates
    /\ \E limit \in BatchLimits :
          Cardinality(S) = limit \/ (Cardinality(S) < limit /\ S = Candidates)
    /\ \A e \in S, d \in Candidates \ S : created[e] <= created[d]
    /\ pc' = [pc EXCEPT ![r] = "publishing"]
    /\ batch' = [batch EXCEPT ![r] = S]
    /\ todo' = [todo EXCEPT ![r] = S]
    /\ UNCHANGED <<rowVars, webVars, sent, effects, queued, delivered, crashes>>

(* A pass that finds nothing due. *)
EmptyPass(r) ==
    /\ pc[r] = "idle"
    /\ Candidates = {}
    /\ UNCHANGED vars

(* The batch is gone through in the order of created_at. *)
Turn(r, e) == e \in todo[r] /\ \A d \in todo[r] : created[e] <= created[d]

(* _publish_row succeeded; in-process subscribers wrote through the        *)
(* relay's own transaction.                                                *)
PublishRow(r, e) ==
    /\ pc[r] = "publishing"
    /\ Turn(r, e)
    /\ e \notin Poison
    /\ todo' = [todo EXCEPT ![r] = @ \ {e}]
    /\ sent' = [sent EXCEPT ![r] = @ \cup {e}]
    /\ \/ /\ e \in InProcess
          /\ effects' = [effects EXCEPT ![r] = @ \cup {e}]
          /\ UNCHANGED <<queued, delivered>>
       \/ /\ Publishes(e)
          /\ delivered' = delivered \cup {e}
          /\ UNCHANGED <<queued, effects>>
       \/ /\ Queues(e)
          /\ queued[r][e] < MaxQueued
          /\ queued' = [queued EXCEPT ![r][e] = @ + 1]
          /\ UNCHANGED <<delivered, effects>>
    /\ UNCHANGED <<rowVars, webVars, pc, batch, crashes>>

(* _publish_row failed and marked the row failed inside the transaction.   *)
RaiseRow(r, e) ==
    /\ pc[r] = "publishing"
    /\ Turn(r, e)
    /\ ~Breaks(e)
    /\ todo' = [todo EXCEPT ![r] = @ \ {e}]
    /\ \/ UNCHANGED delivered
       \/ /\ Publishes(e)
          /\ delivered' = delivered \cup {e}
    /\ UNCHANGED <<rowVars, webVars, pc, batch, sent, effects, queued, crashes>>

(* A relay leaves its transaction without committing: locks released,      *)
(* marks and subscribers' writes undone.                                   *)
Rollback(r) ==
    /\ pc' = [pc EXCEPT ![r] = "idle"]
    /\ batch' = [batch EXCEPT ![r] = {}]
    /\ todo' = [todo EXCEPT ![r] = {}]
    /\ sent' = [sent EXCEPT ![r] = {}]
    /\ effects' = [effects EXCEPT ![r] = {}]

(* The subscriber's exception was a database error: the connection is      *)
(* marked for rollback, _mark_failed's own UPDATE raises, and the          *)
(* exception leaves dispatch_pending and ends the command, which flushes   *)
(* its producer on the way out (router.py:140) and is started again.       *)
AbortPass(r, e) ==
    /\ pc[r] = "publishing"
    /\ Turn(r, e)
    /\ Breaks(e)
    /\ Rollback(r)
    /\ UNCHANGED <<rowVars, webVars, queued, delivered, crashes>>

(* One flush for the whole batch. *)
ConfirmBatch(r) ==
    /\ pc[r] = "publishing"
    /\ todo[r] = {}
    /\ sent[r] # {}
    /\ Drained(r)
    /\ pc' = [pc EXCEPT ![r] = "confirmed"]
    /\ UNCHANGED <<rowVars, webVars, batch, todo, sent, effects, queued, delivered, crashes>>

UnconfirmedBatch(r) ==
    /\ pc[r] = "publishing"
    /\ todo[r] = {}
    /\ sent[r] = {} \/ Async # {}
    /\ pc' = [pc EXCEPT ![r] = "unconfirmed"]
    /\ UNCHANGED <<rowVars, webVars, batch, todo, sent, effects, queued, delivered, crashes>>

(* COMMIT with the marks of the pass: the published rows dispatched when   *)
(* the flush confirmed them, every other row of the batch failed.          *)
CommitPass(r) ==
    /\ pc[r] \in {"confirmed", "unconfirmed"}
    /\ LET done == IF pc[r] = "confirmed" THEN sent[r] ELSE {}
           bad  == batch[r] \ done
       IN /\ dispatched' = dispatched \cup done
          /\ attempts' = [e \in Events |->
                            IF e \in bad THEN Bump(attempts[e]) ELSE attempts[e]]
          /\ due' = due \ bad
    /\ delivered' = delivered \cup effects[r]
    /\ Rollback(r)
    /\ UNCHANGED <<created, stored, webVars, queued, crashes>>

-----------------------------------------------------------------------------
(* The transport and the clock *)

(* The broker stored a queued message; its delivery report is a success.   *)
BrokerAck(p, e) ==
    /\ queued[p][e] > 0
    /\ queued' = [queued EXCEPT ![p][e] = @ - 1]
    /\ delivered' = delivered \cup {e}
    /\ UNCHANGED <<rowVars, webVars, relayVars, crashes>>

(* The delivery report is an error: _delivery_callback logs it, and the    *)
(* message is no longer counted by flush().                                *)
BrokerReject(p, e) ==
    /\ e \in Rejectable
    /\ queued[p][e] > 0
    /\ queued' = [queued EXCEPT ![p][e] = @ - 1]
    /\ UNCHANGED <<rowVars, webVars, relayVars, delivered, crashes>>

(* next_attempt_at passes. *)
Tick(e) ==
    /\ e \in stored \ due
    /\ due' = due \cup {e}
    /\ UNCHANGED <<created, stored, dispatched, attempts, webVars, relayVars, queued, delivered,
                   crashes>>

(* The committing process dies: its first chances and its producer queue   *)
(* are gone.                                                               *)
CrashWeb ==
    /\ crashes < MaxCrashes
    /\ crashes' = crashes + 1
    /\ fc' = [e \in Events |-> "off"]
    /\ seen' = [e \in Events |-> 0]
    /\ queued' = [queued EXCEPT ![Web] = [e \in Events |-> 0]]
    /\ UNCHANGED <<rowVars, relayVars, delivered>>

(* A relay dies: the database rolls its transaction back. *)
CrashRelay(r) ==
    /\ crashes < MaxCrashes
    /\ crashes' = crashes + 1
    /\ Rollback(r)
    /\ queued' = [queued EXCEPT ![r] = [e \in Events |-> 0]]
    /\ UNCHANGED <<rowVars, webVars, delivered>>

-----------------------------------------------------------------------------
FirstChance(e) ==
    \/ LoadRow(e)
    \/ PublishFirst(e)
    \/ RaiseFirst(e)
    \/ ConfirmFirst(e)
    \/ UnconfirmedFirst(e)
    \/ MarkDispatchedFirst(e)
    \/ MarkFailedFirst(e)

RelayPass(r) ==
    \/ \E S \in SUBSET Events : SelectRows(r, S)
    \/ EmptyPass(r)
    \/ \E e \in Events : PublishRow(r, e) \/ RaiseRow(r, e) \/ AbortPass(r, e)
    \/ ConfirmBatch(r)
    \/ UnconfirmedBatch(r)
    \/ CommitPass(r)

Next ==
    \/ \E S \in SUBSET Events : Commit(S)
    \/ \E e \in Events : FirstChance(e) \/ Tick(e)
    \/ \E r \in Relays : RelayPass(r) \/ CrashRelay(r)
    \/ \E p \in Procs, e \in Events : BrokerAck(p, e) \/ BrokerReject(p, e)
    \/ CrashWeb

Spec == Init /\ [][Next]_vars

(* The relay command loops for ever and the clock moves; the threads of    *)
(* the web process run; a broker offered a message again and again takes   *)
(* it once, and a flush asked again and again finds the queue empty once.  *)
(* Subscribers in the process may fail for ever, and a row whose turn does *)
(* not come because of them is not published.                              *)
Fairness ==
    /\ \A e \in Events : WF_vars(FirstChance(e)) /\ WF_vars(Tick(e))
    /\ \A r \in Relays : WF_vars(RelayPass(r)) /\ SF_vars(ConfirmBatch(r))
    /\ \A r \in Relays, e \in Events \ InProcess : SF_vars(PublishRow(r, e))
    /\ \A p \in Procs, e \in Events : WF_vars(BrokerAck(p, e))

FairSpec == Spec /\ Fairness
-----------------------------------------------------------------------------
(* Properties *)

Healthy == Events \ Poison

(* dispatched_at is the outbox's one claim about the outside world: a row  *)
(* marked dispatched, by either actor, is one whose subscribers' work is   *)
(* durable or whose message the broker stored (_confirm_delivery), unless  *)
(* its delivery report was an error: flush() does not tell (README).       *)
SettledWasDelivered == dispatched \ Rejectable \subseteq delivered

(* No row a relay holds is settled behind its back, neither by another     *)
(* relay (skip_locked) nor by a first chance that read the row before the  *)
(* relay locked it: its UPDATE waits for the lock.                         *)
RelayRowsUnsettled == \A r \in Relays : batch[r] \cap dispatched = {}

(* dispatched_at is never cleared: a first chance that failed on a stale   *)
(* copy of the row does not reopen the row a relay settled meanwhile.      *)
NeverUnsettled == [][dispatched \subseteq dispatched']_vars

(* The outbox implements at-least-once delivery: events exist from the     *)
(* commit on, are received only then, and are written off only after.      *)
Promise == INSTANCE AtLeastOnce WITH
    Events    <- Events \ Rejectable,
    stored    <- stored \ Rejectable,
    delivered <- delivered \ Rejectable,
    settled   <- dispatched \ Rejectable
ImplementsAtLeastOnce == Promise!Safety

(* The relay goes through rows in the order of created_at, in one          *)
(* transaction: a row no younger than e whose subscribers break that       *)
(* transaction ends each pass before e's turn, and stays due.              *)
HeldUp(e) == \E d \in stored \ dispatched : Breaks(d) /\ created[d] <= created[e]

(* Every committed event that rides the bus is received, whatever crashed  *)
(* between its commit and its first chance, and beside younger in-process  *)
(* events whose subscribers abort every pass they are part of. What can    *)
(* keep it from being received is an older one of those, and only as long  *)
(* as that fails: it is received, or held up for ever.                     *)
BusDelivered ==
    \A e \in Healthy \ InProcess : (e \in stored) ~> (e \in delivered \/ []HeldUp(e))

(* Rows are "retried by the relay until they succeed" (models.py): every   *)
(* row that can be delivered is eventually settled.                        *)
HealthySettles == \A e \in Healthy : (e \in stored) ~> (e \in dispatched)
=============================================================================
