------------------------------ MODULE TaskStore ------------------------------
(***************************************************************************)
(* The Task primitive: comm/tasks.py over the table of                     *)
(* django/taskstore/models.py, with the command sweep_tasks.               *)
(*                                                                         *)
(* start() inserts a row and its announcement in one transaction; a worker *)
(* that hears the announcement claims the row, runs the handler outside    *)
(* any lock and writes the outcome from the copy it loaded at the claim;   *)
(* the sweep reads the expired rows once and rewrites them one by one.     *)
(* None of the outcome writes looks at the row's state again.              *)
(*                                                                         *)
(* Time is abstract: a row's backoff is running or over (held), its        *)
(* deadline is ahead or past (overdue).  A handler makes at most one call  *)
(* of a paid Function; the answer is put on the shelf of the overflow      *)
(* store under the key the call named before it is published.              *)
(***************************************************************************)
EXTENDS Naturals, FiniteSets

CONSTANTS
    Tasks,         \* ids that start() may create
    Keys,          \* dedupe keys
    Callers,       \* threads that call start()
    Workers,       \* threads that run execute()
    Deadlines,     \* tasks started with deadline_seconds
    MaxTries,      \* max_attempts
    Grace,         \* TASK_UNANSWERED_RETRIES
    CanCrash,      \* workers and sweeps may die
    Lossy,         \* an announcement may be lost between relay and claim
    MaxTasks,      \* bound: rows that exist when start() is called
    NoTask, NoKey, NoCall

ASSUME TaskStoreAssumption ==
    /\ Deadlines \subseteq Tasks
    /\ MaxTries \in Nat \ {0}
    /\ Grace \in Nat
    /\ CanCrash \in BOOLEAN
    /\ Lossy \in BOOLEAN
    /\ MaxTasks \in Nat
    /\ NoTask \notin Tasks
    /\ NoKey \notin Keys
    /\ NoCall \notin Keys \cup {NoKey}

VARIABLES
    state,         \* the state column; "none" before the INSERT
    key,           \* dedupe_key
    attempts,      \* attempts column
    held,          \* rows whose not_before is ahead
    overdue,       \* rows whose deadline is past
    named,         \* rows whose ledger names the call ("$calls")
    announced,     \* tasks with a task.requested outstanding somewhere
    completed,     \* tasks whose task.completed was emitted
    failed,        \* tasks whose task.failed was emitted
    wants,         \* key each caller is about to insert
    job,           \* task each worker runs
    tries,         \* attempts in the worker's copy of the row
    phase,         \* where the worker's handler is
    ledger,        \* workers whose copy of the ledger names the call
    asked,         \* calls the provider has received and not answered
    shelved,       \* answers in the overflow store
    heard,         \* tasks some handler of which received an answer
    sweep,         \* where the sweep is
    expired,       \* rows the sweep read as expired, still to handle
    seen,          \* their attempts as read
    seenNamed,     \* those whose ledger, as read, names the call
    due            \* rows the sweep read as due retries

rowVars    == <<state, key, attempts, held, overdue, named>>
eventVars  == <<announced, completed, failed>>
workVars   == <<job, tries, phase, ledger>>
replyVars  == <<asked, shelved, heard>>
sweepVars  == <<sweep, expired, seen, seenNamed, due>>
vars == <<rowVars, eventVars, wants, workVars, replyVars, sweepVars>>

Live     == {"pending", "running"}
Terminal == {"done", "failed"}
Phases   == {"idle", "running", "unanswered", "waiting", "answered"}

TypeOK ==
    /\ state \in [Tasks -> {"none"} \cup Live \cup Terminal]
    /\ key \in [Tasks -> Keys \cup {NoKey}]
    /\ attempts \in [Tasks -> Nat]
    /\ held \subseteq Tasks
    /\ overdue \subseteq Deadlines
    /\ named \subseteq Tasks
    /\ announced \subseteq Tasks
    /\ completed \subseteq Tasks
    /\ failed \subseteq Tasks
    /\ wants \in [Callers -> Keys \cup {NoKey, NoCall}]
    /\ job \in [Workers -> Tasks \cup {NoTask}]
    /\ tries \in [Workers -> Nat]
    /\ phase \in [Workers -> Phases]
    /\ ledger \subseteq Workers
    /\ asked \subseteq Tasks
    /\ shelved \subseteq Tasks
    /\ heard \subseteq Tasks
    /\ sweep \in {"idle", "expired", "due"}
    /\ expired \subseteq Deadlines
    /\ seen \in [Tasks -> Nat]
    /\ seenNamed \subseteq Tasks
    /\ due \subseteq Tasks

Init ==
    /\ state = [t \in Tasks |-> "none"]
    /\ key = [t \in Tasks |-> NoKey]
    /\ attempts = [t \in Tasks |-> 0]
    /\ held = {}
    /\ overdue = {}
    /\ named = {}
    /\ announced = {}
    /\ completed = {}
    /\ failed = {}
    /\ wants = [c \in Callers |-> NoCall]
    /\ job = [w \in Workers |-> NoTask]
    /\ tries = [w \in Workers |-> 0]
    /\ phase = [w \in Workers |-> "idle"]
    /\ ledger = {}
    /\ asked = {}
    /\ shelved = {}
    /\ heard = {}
    /\ sweep = "idle"
    /\ expired = {}
    /\ seen = [t \in Tasks |-> 0]
    /\ seenNamed = {}
    /\ due = {}

(* Rows of the partial unique index taskrec_live_dedupe_key under k. *)
LiveWith(k) == {t \in Tasks : state[t] \in Live /\ key[t] = k}

(* Mutant: the model lost its UniqueConstraint. *)
NoIndex(t, k) == TRUE

(* The index accepts t as a live row under k. *)
IndexAllows(t, k) == k = NoKey \/ LiveWith(k) \subseteq {t}

-----------------------------------------------------------------------------
(* start() *)

(* The optimistic SELECT found no live task under k; without a key there   *)
(* is nothing to look for.                                                 *)
StartSelect(c, k) ==
    /\ wants[c] = NoCall
    /\ Cardinality({t \in Tasks : state[t] # "none"}) < MaxTasks
    /\ k = NoKey \/ LiveWith(k) = {}
    /\ wants' = [wants EXCEPT ![c] = k]
    /\ UNCHANGED <<rowVars, eventVars, workVars, replyVars, sweepVars>>

(* INSERT and task.requested in one transaction. *)
StartInsert(c, t) ==
    /\ wants[c] # NoCall
    /\ state[t] = "none"
    /\ IndexAllows(t, wants[c])
    /\ state' = [state EXCEPT ![t] = "pending"]
    /\ key' = [key EXCEPT ![t] = wants[c]]
    /\ announced' = announced \cup {t}
    /\ wants' = [wants EXCEPT ![c] = NoCall]
    /\ UNCHANGED <<attempts, held, overdue, named, completed, failed,
                   workVars, replyVars, sweepVars>>

(* IntegrityError: another caller won; its id is returned, or the error    *)
(* when that task is already finished.                                     *)
StartRefused(c) ==
    /\ wants[c] \in Keys
    /\ LiveWith(wants[c]) # {}
    /\ wants' = [wants EXCEPT ![c] = NoCall]
    /\ UNCHANGED <<rowVars, eventVars, workVars, replyVars, sweepVars>>

-----------------------------------------------------------------------------
(* Time *)

(* not_before passes. *)
BackoffExpires(t) ==
    /\ t \in held
    /\ held' = held \ {t}
    /\ UNCHANGED <<state, key, attempts, overdue, named, eventVars, wants,
                   workVars, replyVars, sweepVars>>

(* The deadline passes. *)
DeadlinePasses(t) ==
    /\ t \in Deadlines \ overdue
    /\ state[t] # "none"
    /\ overdue' = overdue \cup {t}
    /\ UNCHANGED <<state, key, attempts, held, named, eventVars, wants,
                   workVars, replyVars, sweepVars>>

-----------------------------------------------------------------------------
(* execute(): the claim *)

(* Mutant: the claim takes a RUNNING row too, to rescue crashed attempts.  *)
ClaimableRunning(t) == state[t] \in Live /\ t \notin held

(* SELECT .. FOR UPDATE of a PENDING row whose backoff is over finds t. *)
Claimable(t) == state[t] = "pending" /\ t \notin held

(* Mutant: the claim forgets to count the attempt. *)
ClaimUncounted(w, t) ==
    /\ t \in announced
    /\ job[w] = NoTask
    /\ Claimable(t)
    /\ \E left \in {announced, announced \ {t}} : announced' = left
    /\ state' = [state EXCEPT ![t] = "running"]
    /\ attempts' = attempts
    /\ job' = [job EXCEPT ![w] = t]
    /\ tries' = [tries EXCEPT ![w] = attempts[t]]
    /\ phase' = [phase EXCEPT ![w] = "running"]
    /\ ledger' = IF t \in named THEN ledger \cup {w} ELSE ledger \ {w}
    /\ UNCHANGED <<key, held, overdue, named, completed, failed, wants,
                   replyVars, sweepVars>>

(* Worker w hears the announcement and claims the row.  Delivery is at     *)
(* least once: the announcement may come again.                            *)
Claim(w, t) ==
    /\ t \in announced
    /\ job[w] = NoTask
    /\ Claimable(t)
    /\ \E left \in {announced, announced \ {t}} : announced' = left
    /\ state' = [state EXCEPT ![t] = "running"]
    /\ attempts' = [attempts EXCEPT ![t] = @ + 1]
    /\ job' = [job EXCEPT ![w] = t]
    /\ tries' = [tries EXCEPT ![w] = attempts[t] + 1]
    /\ phase' = [phase EXCEPT ![w] = "running"]
    /\ ledger' = IF t \in named THEN ledger \cup {w} ELSE ledger \ {w}
    /\ UNCHANGED <<key, held, overdue, named, completed, failed, wants,
                   replyVars, sweepVars>>

(* Not PENDING, or its backoff is running: the announcement is spent. *)
Decline(t) ==
    /\ t \in announced
    /\ ~Claimable(t)
    /\ announced' = announced \ {t}
    /\ UNCHANGED <<rowVars, completed, failed, wants, workVars, replyVars,
                   sweepVars>>

(* The consumer dies between the relay and the claim, having acknowledged. *)
Lose(t) ==
    /\ Lossy
    /\ t \in announced
    /\ announced' = announced \ {t}
    /\ UNCHANGED <<rowVars, completed, failed, wants, workVars, replyVars,
                   sweepVars>>

-----------------------------------------------------------------------------
(* The handler's call of a paid Function *)

(* name_call: the ledger goes to the row at once. *)
NameCall(w) ==
    /\ ledger' = ledger \cup {w}
    /\ named' = IF w \in ledger THEN named ELSE named \cup {job[w]}

(* An earlier attempt was answered: the stored reply is taken, not paid.   *)
CallTakesStored(w) ==
    /\ phase[w] = "running"
    /\ job[w] \in shelved
    /\ NameCall(w)
    /\ phase' = [phase EXCEPT ![w] = "answered"]
    /\ shelved' = shelved \ {job[w]}
    /\ heard' = heard \cup {job[w]}
    /\ UNCHANGED <<state, key, attempts, held, overdue, eventVars, wants,
                   job, tries, asked, sweepVars>>

(* Nothing stored: the request goes out. *)
CallAsks(w) ==
    /\ phase[w] = "running"
    /\ job[w] \notin shelved
    /\ NameCall(w)
    /\ phase' = [phase EXCEPT ![w] = "waiting"]
    /\ asked' = asked \cup {job[w]}
    /\ UNCHANGED <<state, key, attempts, held, overdue, eventVars, wants,
                   job, tries, shelved, heard, sweepVars>>

(* Nothing stored and nobody serves the Function: FunctionNotRegistered.   *)
CallUnanswered(w) ==
    /\ phase[w] = "running"
    /\ job[w] \notin shelved
    /\ NameCall(w)
    /\ phase' = [phase EXCEPT ![w] = "unanswered"]
    /\ UNCHANGED <<state, key, attempts, held, overdue, eventVars, wants,
                   job, tries, replyVars, sweepVars>>

(* The provider finishes and persists its reply before publishing it. *)
Serve(t) ==
    /\ t \in asked
    /\ asked' = asked \ {t}
    /\ shelved' = shelved \cup {t}
    /\ UNCHANGED <<rowVars, eventVars, wants, workVars, heard, sweepVars>>

(* The reply reaches the caller by wire, and the stored copy stays; or the *)
(* wait fails and the stored copy is taken.                                *)
HearReply(w) ==
    /\ phase[w] = "waiting"
    /\ job[w] \in shelved
    /\ phase' = [phase EXCEPT ![w] = "answered"]
    /\ \/ shelved' = shelved
       \/ shelved' = shelved \ {job[w]}
    /\ heard' = heard \cup {job[w]}
    /\ UNCHANGED <<rowVars, eventVars, wants, job, tries, ledger, asked,
                   sweepVars>>

-----------------------------------------------------------------------------
(* execute(): the outcome, written from the copy loaded at the claim *)

Leave(w) ==
    /\ job' = [job EXCEPT ![w] = NoTask]
    /\ tries' = [tries EXCEPT ![w] = 0]
    /\ phase' = [phase EXCEPT ![w] = "idle"]
    /\ ledger' = ledger \ {w}

(* The handler returned or raised: it waits for no answer it could take.   *)
Stopped(w) ==
    /\ phase[w] # "idle"
    /\ ~(phase[w] = "waiting" /\ job[w] \in shelved)

(* DONE, the cleared ledger and task.completed in one transaction; the     *)
(* replies the copy of the ledger names are discarded.                     *)
Complete(w) ==
    LET t == job[w] IN
    /\ phase[w] \in {"running", "answered"}
    /\ state' = [state EXCEPT ![t] = "done"]
    /\ completed' = completed \cup {t}
    /\ named' = named \ {t}
    /\ shelved' = IF w \in ledger THEN shelved \ {t} ELSE shelved
    /\ Leave(w)
    /\ UNCHANGED <<key, attempts, held, overdue, announced, failed, wants,
                   asked, heard, sweepVars>>

(* Mutant: the comparison is <=. *)
MayRetryOnceMore(w) ==
    \/ tries[w] <= MaxTries
    \/ phase[w] = "unanswered" /\ tries[w] < MaxTries + Grace

(* The attempt is not the last; a call nobody received has grace. *)
MayRetry(w) ==
    \/ tries[w] < MaxTries
    \/ phase[w] = "unanswered" /\ tries[w] < MaxTries + Grace

(* _requeue: PENDING with a backoff, re-announced, in one transaction. *)
Requeue(w) ==
    LET t == job[w] IN
    /\ Stopped(w)
    /\ MayRetry(w)
    /\ IndexAllows(t, key[t])
    /\ state' = [state EXCEPT ![t] = "pending"]
    /\ held' = held \cup {t}
    /\ announced' = announced \cup {t}
    /\ Leave(w)
    /\ UNCHANGED <<key, attempts, overdue, named, completed, failed, wants,
                   replyVars, sweepVars>>

(* The row was failed meanwhile and its key taken by a newer task: the     *)
(* UPDATE violates the index and execute() raises.                         *)
RequeueRefused(w) ==
    /\ Stopped(w)
    /\ MayRetry(w)
    /\ ~IndexAllows(job[w], key[job[w]])
    /\ Leave(w)
    /\ UNCHANGED <<rowVars, eventVars, wants, replyVars, sweepVars>>

(* _park: on any attempt when the payload is refused or the reply is too   *)
(* large, on the last one otherwise.                                       *)
Park(w) ==
    LET t == job[w] IN
    /\ Stopped(w)
    /\ state' = [state EXCEPT ![t] = "failed"]
    /\ failed' = failed \cup {t}
    /\ Leave(w)
    /\ UNCHANGED <<key, attempts, held, overdue, named, announced, completed,
                   wants, replyVars, sweepVars>>

(* The worker dies, or the outcome's own transaction raises. *)
WorkerCrash(w) ==
    /\ CanCrash
    /\ job[w] # NoTask
    /\ Leave(w)
    /\ UNCHANGED <<rowVars, eventVars, wants, replyVars, sweepVars>>

-----------------------------------------------------------------------------
(* sweep_tasks *)

(* Mutant: only PENDING rows expire, a RUNNING one has a worker. *)
SweepReadPending ==
    /\ sweep = "idle"
    /\ sweep' = "expired"
    /\ expired' = {t \in overdue : state[t] = "pending"}
    /\ seen' = [t \in Tasks |-> IF t \in expired' THEN attempts[t] ELSE 0]
    /\ seenNamed' = expired' \cap named
    /\ UNCHANGED <<rowVars, eventVars, wants, workVars, replyVars, due>>

(* Every expired row is read at once. *)
SweepReadExpired ==
    /\ sweep = "idle"
    /\ sweep' = "expired"
    /\ expired' = {t \in overdue : state[t] \in Live}
    /\ seen' = [t \in Tasks |-> IF t \in expired' THEN attempts[t] ELSE 0]
    /\ seenNamed' = expired' \cap named
    /\ UNCHANGED <<rowVars, eventVars, wants, workVars, replyVars, due>>

(* The row, as read, names a call that is answered, and has attempts left. *)
Recoverable(t) == t \in seenNamed \cap shelved /\ seen[t] < MaxTries

(* PENDING again, with a new deadline, re-announced: one transaction.      *)
SweepRecover(t) ==
    /\ t \in expired
    /\ Recoverable(t)
    /\ IndexAllows(t, key[t])
    /\ state' = [state EXCEPT ![t] = "pending"]
    /\ held' = held \ {t}
    /\ overdue' = overdue \ {t}
    /\ announced' = announced \cup {t}
    /\ expired' = expired \ {t}
    /\ UNCHANGED <<key, attempts, named, completed, failed, wants, workVars,
                   replyVars, sweep, seen, seenNamed, due>>

(* The row finished meanwhile and its key is taken: the command dies. *)
SweepRecoverRefused(t) ==
    /\ t \in expired
    /\ Recoverable(t)
    /\ ~IndexAllows(t, key[t])
    /\ sweep' = "idle"
    /\ expired' = {}
    /\ seen' = [u \in Tasks |-> 0]
    /\ seenNamed' = {}
    /\ UNCHANGED <<rowVars, eventVars, wants, workVars, replyVars, due>>

(* Mutant: the sweep fails the rows and leaves the events to a later loop. *)
SweepFailSilent(t) ==
    /\ t \in expired
    /\ ~Recoverable(t)
    /\ state' = [state EXCEPT ![t] = "failed"]
    /\ expired' = expired \ {t}
    /\ UNCHANGED <<key, attempts, held, overdue, named, eventVars, wants,
                   workVars, replyVars, sweep, seen, seenNamed, due>>

(* FAILED with reason deadline_exceeded, and task.failed. *)
SweepFail(t) ==
    /\ t \in expired
    /\ ~Recoverable(t)
    /\ state' = [state EXCEPT ![t] = "failed"]
    /\ failed' = failed \cup {t}
    /\ expired' = expired \ {t}
    /\ UNCHANGED <<key, attempts, held, overdue, named, announced, completed,
                   wants, workVars, replyVars, sweep, seen, seenNamed, due>>

(* Mutant: a retry is due only while its backoff runs. *)
SweepReadHeld ==
    /\ sweep = "expired"
    /\ expired = {}
    /\ sweep' = "due"
    /\ due' = {t \in held : state[t] = "pending" /\ attempts[t] > 0}
    /\ UNCHANGED <<rowVars, eventVars, wants, workVars, replyVars, expired,
                   seen, seenNamed>>

(* The due retries are read at once; a first attempt is not among them. *)
SweepReadDue ==
    /\ sweep = "expired"
    /\ expired = {}
    /\ sweep' = "due"
    /\ due' = {t \in Tasks : Claimable(t) /\ attempts[t] > 0}
    /\ UNCHANGED <<rowVars, eventVars, wants, workVars, replyVars, expired,
                   seen, seenNamed>>

(* task.requested again, whatever became of the row since. *)
SweepReannounce(t) ==
    /\ t \in due
    /\ announced' = announced \cup {t}
    /\ due' = due \ {t}
    /\ UNCHANGED <<rowVars, completed, failed, wants, workVars, replyVars,
                   sweep, expired, seen, seenNamed>>

(* The run is over. *)
SweepEnd ==
    /\ sweep = "due"
    /\ due = {}
    /\ sweep' = "idle"
    /\ seen' = [t \in Tasks |-> 0]
    /\ seenNamed' = {}
    /\ UNCHANGED <<rowVars, eventVars, wants, workVars, replyVars, expired, due>>

(* The command dies between two rows. *)
SweepCrash ==
    /\ CanCrash
    /\ sweep # "idle"
    /\ sweep' = "idle"
    /\ expired' = {}
    /\ seen' = [t \in Tasks |-> 0]
    /\ seenNamed' = {}
    /\ due' = {}
    /\ UNCHANGED <<rowVars, eventVars, wants, workVars, replyVars>>

-----------------------------------------------------------------------------
Start == \E c \in Callers :
    \/ \E k \in Keys \cup {NoKey} : StartSelect(c, k)
    \/ \E t \in Tasks : StartInsert(c, t)
    \/ StartRefused(c)

Time == \E t \in Tasks : BackoffExpires(t) \/ DeadlinePasses(t)

Work(w) ==
    \/ \E t \in Tasks : Claim(w, t)
    \/ CallTakesStored(w)
    \/ CallAsks(w)
    \/ CallUnanswered(w)
    \/ HearReply(w)
    \/ Complete(w)
    \/ Requeue(w)
    \/ RequeueRefused(w)
    \/ Park(w)

Sweep ==
    \/ SweepReadExpired
    \/ \E t \in Tasks : \/ SweepRecover(t)
                        \/ SweepRecoverRefused(t)
                        \/ SweepFail(t)
                        \/ SweepReannounce(t)
    \/ SweepReadDue
    \/ SweepEnd

Next ==
    \/ Start
    \/ Time
    \/ \E t \in Tasks : Decline(t) \/ Lose(t) \/ Serve(t)
    \/ \E w \in Workers : Work(w) \/ WorkerCrash(w)
    \/ Sweep
    \/ SweepCrash

Spec == Init /\ [][Next]_vars

(* Time passes, consumers consume, providers answer, handlers return, and  *)
(* the beat schedules the sweep; nobody is obliged to call start().        *)
(* Announcements get lost and processes die, but not for ever at the same  *)
(* place: a claim, a sweep's rewrite, or its second loop is not prevented  *)
(* each time it could be made.                                             *)
Fairness ==
    /\ WF_vars(Time)
    /\ WF_vars(\E t \in Tasks : Decline(t) \/ Serve(t))
    /\ \A w \in Workers : WF_vars(Work(w))
    /\ SF_vars(\E w \in Workers, t \in Tasks : Claim(w, t))
    /\ WF_vars(Sweep)
    /\ SF_vars(\E t \in Tasks : SweepRecover(t) \/ SweepFail(t))
    /\ SF_vars(SweepReadDue)
    /\ SF_vars(\E t \in Tasks : SweepReannounce(t))

LiveSpec == Spec /\ Fairness

-----------------------------------------------------------------------------
(* Safety *)

(* Two live tasks never share a dedupe key, whatever races: two start()    *)
(* past their SELECTs, a start() and a stale _requeue or recovery.         *)
LiveKeyUnique ==
    \A t, u \in Tasks :
        /\ state[t] \in Live /\ state[u] \in Live
        /\ key[t] = key[u] /\ key[t] # NoKey
        => t = u

(* Two handlers running the same task hold different attempt numbers: a    *)
(* number is given out by one claim and never again.                       *)
AttemptNumbersUnique ==
    \A v, w \in Workers :
        job[v] = job[w] /\ job[v] # NoTask /\ tries[v] = tries[w] => v = w

(* A task nobody has ever run is announced: the sweep will not do it.      *)
FirstRunAnnounced ==
    Lossy \/ \A t \in Tasks :
        state[t] = "pending" /\ attempts[t] = 0 => t \in announced

(* The outcome a row shows was announced, each outcome by its own event,   *)
(* whoever wrote it and however often it was rewritten.                    *)
OutcomeAnnounced ==
    \A t \in Tasks : /\ state[t] = "done" => t \in completed
                     /\ state[t] = "failed" => t \in failed

(* A task without a deadline is run by one worker at a time, whatever is   *)
(* redelivered, lost or swept and whoever crashes.                         *)
OneHandlerPerTask ==
    \A v, w \in Workers :
        job[v] = job[w] /\ job[v] # NoTask /\ job[v] \notin Deadlines => v = w

(* With no deadlines, a dedupe key has at most one handler at work.        *)
OneHandlerPerKey ==
    Deadlines = {} =>
        \A v, w \in Workers :
            /\ job[v] # NoTask /\ job[w] # NoTask
            /\ key[job[v]] = key[job[w]] /\ key[job[v]] # NoKey
            => v = w

(* Without a deadline a task is tried max_attempts times, and then only    *)
(* when nobody received its call.                                          *)
AttemptsBounded ==
    \A t \in Tasks \ Deadlines : attempts[t] <= MaxTries + Grace

(* Without a deadline a finished task stays finished as it is.             *)
OutcomeFinal ==
    [][\A t \in Tasks \ Deadlines :
          state[t] \in Terminal => state'[t] = state[t]]_state

(* Nobody claims a row while its backoff runs. *)
BackoffHonoured ==
    [][\A t \in Tasks :
          state[t] = "pending" /\ state'[t] = "running" => t \notin held]_vars

-----------------------------------------------------------------------------
(* Liveness, under Fairness *)

(* A retry is never stranded: its announcement may be lost, the sweep sees *)
(* the column.                                                             *)
RetryTaken ==
    \A t \in Tasks :
        state[t] = "pending" /\ attempts[t] > 0 ~> state[t] # "pending"

(* A task with a deadline settles for good, workers and sweeps crashing or *)
(* not; one without, if nothing crashes and nothing is lost.               *)
Settles ==
    \A t \in Tasks :
        t \in Deadlines \/ (~CanCrash /\ ~Lossy) =>
            (state[t] # "none" ~> [](state[t] \in Terminal))

-----------------------------------------------------------------------------
(* "Execution claims the record atomically" (comm/tasks.py): one execution *)
(* at a time.  The sweep's rewrite of a RUNNING row does not keep it.      *)
OneExecution ==
    \A v, w \in Workers : job[v] = job[w] /\ job[v] # NoTask => v = w
=============================================================================
