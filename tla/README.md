# TLA+ models of stapel-core

stapel-core is the framework under a fleet of Django services: events and
tasks between services (`comm/`, `bus/`), an append-only event log
(`eventstore/`), and the parts every service needs (tokens, access, gateway,
erasure, configuration, observability). This directory holds TLA+ models of
its concurrent core, the TLC configurations that check them on small
instances, and TLAPS proofs of the results that should hold for every
instance. Names in the modules are those of the code; `PROJECT.json` maps each
definition to the lines it stands for, and lists hazards, runs, mutants and
theorems.

To check a run: `tlc -workers 2 -config MCOutboxLive.cfg MCOutbox`. The
components that are small by themselves are put together in `Services` and
checked by `MCServices`. To check the proofs: `tlapm TaskStoreProofs.tla`.

## 1. The system

| Part | State it keeps | Operations | Interacts with |
|---|---|---|---|
| emit (`comm/actions.py`, `comm/atomic.py`) | Django's connection: open blocks, savepoints, `needs_rollback`, `on_commit` callbacks | `emit`, `mutate_and_emit`, `_emit_via_outbox` | writes the rows the outbox delivers |
| Outbox (`django/outbox/`) | rows: `dispatched_at`, `attempts`, `next_attempt_at` | first chance `dispatch_one`, relay `dispatch_pending` | in-process subscribers, the bus; rows locked by concurrent relays |
| Bus (`bus/`) | producer queues, offsets, pending entries, dead-letter topics | `publish`, `flush`, three consume loops | the outbox above, handlers below |
| Tasks (`comm/tasks.py`, `django/taskstore/`) | rows: state, attempts, `not_before`, deadline, dedupe key, call ledger | `start`, `execute`, `_requeue`, `_park`, `sweep_tasks` | announced through emit; answers on the shelf of `comm/overflow.py` |
| Event store (`eventstore/`) | per-process write buffer, rows, subject keys in payloads | `append`, `flush`, `query`, `purge`, `rekey`, `rollup` | shared by the threads of a process; written on the caller's connection |
| Projections (`comm/projections.py`) | read-model rows with a position and the last event applied | `apply_event`, `rebuild`, `drift_check` | fed by the consume loops |
| Revision sync (`django/models.py`, `django/api/revision.py`) | `revision` and `deleted` columns, an advisory lock per table | `save`, `soft_delete`, `restore`, `get_changes_since`, the paginated endpoint | clients that keep a copy and a `min_revision` |
| Functions (`comm/functions.py`, `overflow.py`, `nats.py`, `http.py`) | replies on the shelf, with a key and a TTL; large frames in an object store | call, serve, `put_durable_reply`, `take_durable_reply` | tasks, gateway |
| Consumer liveness (`bus/liveness.py`) | clocks of assignment, poll, handler; probe cache; heartbeat file | `check`, `give_up` | the Kafka loop |
| Gateway (`gateway/`) | `PendingAction` rows, rate-limit counters, audit stream | `invoke`, `confirm` | event store |
| Erasure (`gdpr/`, `comm/delivery_scope.py`) | owners, receipts claimed per delivery | `erase`, `reparent_on_merge` | emit, event store (`purge`, `rekey`) |
| Verification (`verification/`, `access/stepup.py`) | cache records: code, attempts, block, cooldown; challenges, grants, tokens; the session's proof; the cached policy | `issue`, `check`, `consume`, `grant_verification`, `adopt_step_up_token`, `is_scope_disabled` | the admin's step-up gate, the auth service |
| Revocation and shadow users (`core/`, `django/jwt/`, `django/users/`) | blacklist, deactivation and tombstone keys in a fleet-wide cache; a mirrored user row per service | `deactivate_user`, `tombstone_user`, refresh, first contact, repair of an old id, `upsert_shadow_user` | signals of the user table; erasure |
| Workspaces and mandates (`django/workspaces.py`, `mandate.py`) | cached answers about a user, for 30 seconds | `mandate_state`, `require_role`, `require_capability`, the drops | the workspaces service, by Function, HTTP and broadcast; permission classes |
| Network intelligence (`netintel/`) | profiles per address, failures in a row, the breaker's window | `classify_ip` | a provider; the threads of a process |
| Access, config, secrets, observability, REST, admin, i18n, flows, media, net, lint | settings, registries, counters, caches | mostly functional | - |

What makes it hard:

* **Everything is at least once.** Events, announcements, dead letters and
  receipts may come twice, late, or after the state they speak of is gone.
* **Nobody holds a lock for the length of a handler.** The first chance, task
  handlers, the sweep and rekey act on copies they read some steps earlier.
* **Transactions are shared.** In-process subscribers run inside the relay's
  transaction, buffered events of other threads inside the caller's, failed
  emits break the connection of whoever is around them.
* **Acknowledgements differ.** A Kafka commit covers every offset below it, a
  NATS ack one message, a Redis entry may be claimed from a slow live worker.
* **Processes die** between any two of these steps.

Correctness, per part:

* emit: a mutation and its event commit together; nothing is dispatched for
  work that was undone.
* Outbox: marked dispatched means delivered; never reopened; what rides the
  bus arrives, unless an older row that breaks every pass holds it up; relays
  and first chances keep off each other's rows.
* Bus: acknowledged means handled or dead-lettered; offsets do not move back;
  every message is met.
* Tasks: one handler per task and key, bounded attempts, final and announced
  outcomes, no stranded retry, deadlines settle.
* Event store: no event dropped or duplicated by the buffer; a call sees what
  was buffered before it; a merge moves everything or nothing.
* Projections: the newest position wins, under redelivery and rebuild; a row
  never goes back or away, and catches up with every position.
* Revision sync: who has seen revision N misses nothing below it; deletions
  reach the client.
* Gateway: a confirmed action runs once and leaves one audit record.
* Durable replies: a paid answer is heard, and not paid for again.
* Consumer liveness: work in progress is never taken for a stall, and a
  consumer without partitions is always found.
* Erasure: a receipt is true of the row; one per fan-out.
* Verification: a code is accepted once and within its budget, overlapping
  guesses aside; a gate opens only for a proof of bounded age; a policy that was
  switched on protects soon.
* Revocation: no token of a deleted account is admitted after the deletion was
  recorded; a tombstone only stands for what somebody asked to delete.
* Workspaces and mandates: a door opens on the workspaces service's own answer
  of bounded age only, never takes an outage for a refusal, and a revoked mandate
  opens nothing once its loss was heard.
* Network intelligence: a failing provider is left alone.

## 2. The plan

Written, in this order:

1. `Outbox`, with `AtLeastOnce` as its abstract promise, and `OutboxProofs`.
2. `TaskStore` and `TaskStoreProofs`.
3. `Consumer`, on the same abstract promise, and `ConsumerProofs`.
4. `EmitTransaction`, on the same abstract promise, and `EmitTransactionProofs`.
5. `EventStore` and `EventStoreProofs`.
6. `Projection`, with `ReadModel` as its abstract promise, and
   `ProjectionProofs`.
7. `Gateway`; `DurableReply`; `ConsumerLiveness`.
8. `OneTimeCode`, `StepUp`, `PolicyCache`; `ShadowUser`; `Erasure`;
   `RevisionSync`; `WorkspaceDoors`; `NetIntel`.
9. `Services`, which has `EmitTransaction` and the modules of 7 and 8 side by
   side, with `ClockedProofs` (the components with clocks and counted attempts)
   and `ServicesProofs` (the others, and the types of all).

Left, most important first:

10. `EmitTransaction` with a second connection and nested units; `EventStore`
    with chained merges (whether `rekey` is idempotent).
11. `OneTimeCode` with its send cooldown and hourly window.
12. `DurableReply` composed with `TaskStore`, whose `shelved`, `Serve` and
    `HearReply` are its abstraction; the HTTP transport.
13. The cache of `data.json` (`django/api/revision.py:352`); the alert
    throttle of `observability/throttle.py`; bans.
14. Pure operators against a reference: the backoff ladder, anchor pages, topic
    routing, the window of `rollup`.
15. Proofs: an abstract specification for the doors and the policy cache (an
    answer of bounded age) that both are shown to implement.

## 3. The modules

### AtLeastOnce

The promise three components make: an event is stored when its transaction
commits, is delivered only after that, possibly many times, and is written off
(settled) only after it was delivered. `Outbox`, `Consumer` and
`EmitTransaction` instantiate it with their own variables and check
`Promise!Safety` as a property.

### Outbox (`comm/actions.py`, `django/outbox/relay.py`, `bus/backends/kafka.py`)

One row per event, four columns (`stored`, `dispatched`, `attempts`, `due`).
The committing process tries once (`LoadRow`, `PublishFirst`, `RaiseFirst`,
`ConfirmFirst`, ..., the steps of `dispatch_one`: no lock, one transaction per
UPDATE, values from the copy it read: `seen`). Each relay runs
`dispatch_pending`: `SelectRows` locks a batch, skipping what others lock,
`PublishRow`/`RaiseRow` go through it, `ConfirmBatch`/`UnconfirmedBatch` is the
flush, `CommitPass` writes everything, `AbortPass` is the pass a database error
of an in-process subscriber rolls back. `queued` holds the copies in each
process's producer; the broker acknowledges (`BrokerAck`), or refuses
(`BrokerReject`), which the code only logs.

A row has a `created_at`, and the relay takes rows, and goes through them, in
its order: `SelectRows` takes the first of what it may lock, up to a limit of
`BatchLimits`, and a row is published at its `Turn`. Rows of equal `created_at`
may come in either order.

Events are of three kinds: `InProcess` (subscribers run in the dispatching
process; their work is durable when its transaction is), `Async` (Kafka), and
the rest (a bus whose publish answers). Time is `due`; `attempts` saturates at
`MaxAttempts`, where the backoff is flat and nothing depends on it any more.

### TaskStore (`comm/tasks.py`, `django/taskstore/`, `sweep_tasks`)

`StartSelect`/`StartInsert`/`StartRefused` are `start()` with its optimistic
SELECT and the partial unique index; `Claim` and `Decline` are the
`SELECT FOR UPDATE` of `execute`; `CallAsks`, `CallTakesStored`,
`CallUnanswered`, `Serve` and `HearReply` are the handler's call of a paid
Function with its ledger and the shelf; `Complete`, `Requeue`,
`RequeueRefused` and `Park` write the outcome from the copy loaded at the claim
(`tries`, `ledger`), without looking at the row again, as the code does. The
sweep reads the expired rows once (`expired`, `seen`, `seenNamed`) and rewrites
them one by one (`SweepRecover`, `SweepFail`), then reads and re-announces the
due retries. `announced` is the whole path from the outbox row to the worker:
an announcement may be taken any number of times before it is spent
(`Claim`), and lost (`Lose`) where the consumer acknowledged and died. The
safety run follows one key with both tasks under it and lets only the task with
a deadline make a call (`Narrowed` in `MCTaskStore`), with no grace for an
unanswered one; the theorems have neither restriction.

Abstracted: a handler makes at most one call; `SweepReadDue` reads all due
retries where the command takes `--batch` of them; backoff and deadlines are
running or over; the outcome callback, checkpoint values and the inline
dispatch of `start()` are left out.

### Consumer (`bus/backends/kafka.py`, `nats.py`, `redis_streams.py`, `bus/dlq.py`)

The three loops in one module, because they share the ladder and differ in the
acknowledgement: `backend` is chosen at the start and never changes. Kafka:
`Poll` by `position` of the partition's `owner`, `Ack` sets the committed
offset (every message up to it); a rebalance (`Assign`) may take the partition
from a worker in the middle of a handler. NATS and Redis: `Fetch` a batch,
`Ack` one message, `Expire` makes an unacknowledged one available again, also
while the first worker still holds it. `GiveUp`, `Park` and `ParkFails` are the
dead-lettering; on Kafka the dead letter is only `queued` until `Report`.

### EmitTransaction (`comm/actions.py`, `comm/atomic.py`)

One thread, nested `atomic()` blocks to `MaxDepth`, each with a savepoint of
its own or not (`own`), Django's `needs_rollback` (`broken`), an exception on
its way (`raising`), the mutations and outbox rows each level would undo, and
the `on_commit` callbacks (`ready`). The caller is free to mutate, emit, raise
and swallow in any order. `joined` are the units whose `emit()` ran where their
mutation was pending and is undone with it; `MutationCarriesEvent` is about
those.

### EventStore (`eventstore/__init__.py`, `buffer.py`, `backends/postgres.py`)

The threads of one process share `pending` and the age of its oldest event
(`aged`). `Extend` is `append`/`append_batch`; the thread that finds the buffer
due takes everything (`Take`) and writes it outside the lock, backend by
backend (`WriteBackend`, `WriteFails`: the rest of the batch is lost with the
exception). `Enter` is the flush in front of `query`, `purge` and `rekey`. A
thread may be inside a transaction of its own (`BeginTx`, `EndTx`): rows it
writes, its own or not, share its fate. `rekey` reads the first page of what is
left (`ReadPage`, no lock), updates it by primary key (`WritePage`, waiting for
row locks), and commits or fails as a whole. Rows of purges and merges are
identified by the subject in their payload; the rest of the payload, the time
index and the filters are left out. `BUFFER_SYNC` is `Size = 1`.

`covered` remembers what was pending or stored when a call began, for
`FlushCovers` and `RekeyMovesAll`.

### Projection and ReadModel (`comm/projections.py`)

`ReadModel` is the promise: a copy of each of the owner's rows that never shows
an older revision than before, nor one the owner has not reached, and never
goes away. `Projection` has the owner's revisions (`source`), the committed
`table`, the consumers in `apply_event` (`LookUp`, the SELECT FOR UPDATE, which
waits for a row lock or finds nothing; `Upsert`, `Create` and `Refuse`, the
unique index at work; `Die`) and one rebuild in a transaction of its own, page
by page (`StartRebuild`, `CopyPage`, `CommitRebuild`, `FailRebuild`), while the
owner goes on. `Position` maps the revisions of each row to positions that grow
with them but may be equal, as timestamps may: an event that ties with the row
is skipped, be it a redelivery or a change (section 5). `CatchesUp` is about
positions for that reason. In the run one row has positions that grow, and all
changes of the other have the same.

### Gateway (`gateway/service.py`, `audit.py`, `policy.py`, `ratelimit.py`)

Threads of the control plane in `invoke()` (`Ask`, `Check`, `Park`) and
`confirm()` (`ReadRow`, then `Expire`, `Reject` or `Claim`: UPDATEs conditional
on PENDING; an approved call is checked again, and `Run`). `Tell` is the audit
line, whose sink may raise; a raising sink after the handler ran makes the row
FAILED. The stream is a set, so that a line told twice is not seen. The
database, the clock and the rate window are the environment.

### OneTimeCode, StepUp, PolicyCache (`verification/`, `access/stepup.py`)

`OneTimeCode` is the record of one identifier and purpose with its budget, and
the block beside it, one cache call per action: `Look`, `Spend`, `Exhaust` and
`Block`, `WriteBack`, with the store failing between any two. Requests overlap
and act on copies, as the cache has no compare-and-set: a code may be accepted
twice, and a budget be exceeded. `late` marks a request that read the record
while another one held it (`Held`), and `overlaps` counts the verdicts of such
requests, for `BudgetKept` alone: nothing else adds to a budget.

`StepUp` follows one proof through its places: a challenge, a grant, a token,
and the session's timestamp, each with a lifetime of its own (of one length,
`ProofAge`, where the code may configure several), and two requests that answer
the same challenge. `PolicyCache` is the answer of the auth service, kept for
`TTL` seconds, under requests that are late in storing it. Both count seconds; a
request takes at most `Delay` of them, or none.

### DurableReply (`comm/nats.py`, `overflow.py`, `functions.py`, `serve_functions`)

One keyed call inside a task over NATS: the attempt looks on the shelf (`Take`,
`FindNothing`), asks, and looks again when it heard nothing (`Timeout`); the
provider's `Execute`, `Persist`, `Fit` (a large answer becomes a reference into
the store) and `Publish`; readers that fail, replies that are lost, keys that
expire. Attempts of a task run one at a time; the provider may still work for
an attempt that gave up.

### ShadowUser (`django/jwt/`, `django/users/shadow.py`)

One person: the `account` at the issuer, with its deletion inside a transaction
that may roll back; the records in the fleet's cache (`tombstone` with the
seconds it has left, `deactivated`); the newest access and refresh token; a
consumer's mirrored `row`, which may stand under an id the issuer has replaced;
requests that go from check to check and from query to query (`PresentAccess`,
`CheckTombstone`, `ReadRow`, `Insert`, `Reread`, `Search`, `Replaces`, `Rekey`,
`Save`, `Serve`; `PresentRefresh`, `LoadByRow`, `GenerateAccessToken`;
`PresentEvent`). The clock stands still while a request is under way, since
lifetimes are hours and requests are not. The revocation store is reachable:
without it requests are refused (`STAPEL_BLACKLIST_FAIL_OPEN` off).

### ConsumerLiveness (`bus/liveness.py`, `bus_consumer_alive`)

Ages in seconds: of the assignment, the poll, the handler, the question to the
brokers and the heartbeat file. `Join`, `LoseAssignment` and `BrokersTurn` are
the truth, which the loop learns in `Poll` and from the client's fatal error;
`StallReason` is the rule, `LeaveHandler` the credit a handler gives back. The
Kafka loop, where `check()` follows `record_poll()`; the probe is called
without `--max-handler-age`.

### Erasure (`gdpr/owners.py`, `identity.py`, `comm/actions.py`, `delivery_scope.py`)

One person, the identity mirror's row, and two signals for the same erasure
(`gdpr.erasure.requested` and `user.deleted`), each delivered at least once to
every answerer of the section: `Begin`, `Save`, `EmitReceipt`, `Commit` in one
transaction, `Undone`, `UndoneButSent` (its mutant), `Crash`. The claim
(`claimed`) belongs to one delivery. `ReparentOnMerge` is the merge beside it.
The person is not brought back by an action here: that gate is `ShadowUser`.

### RevisionSync (`django/models.py`, `django/api/revision.py`)

Writers save rows in transactions of any length; each save takes the table's
advisory lock and `MAX(revision) + 1`, and keeps the lock until COMMIT
(PostgreSQL; elsewhere a mutex covers the same span for a save outside an outer
transaction). The client reads either with `get_changes_since` (one statement)
or through the endpoint, whose response is four statements without a
transaction: `CountRows`, `ReadPage`, `GlobalMax`, `Respond`; it asks for all
pages and stores the last response's `global_max`. `DeletionsHonoured` is about
an incremental sync, by its `since`: an initial one lists no deletions. Rows are
never hard-deleted; rows of revision 0, from before the migration, are left out.

### WorkspaceDoors (`django/workspaces.py`, `django/mandate.py`)

One user and one door at a time: `mandate_state`, `require_role`,
`require_capability` by Function, or its fallback to the membership and the
table of built-in roles. `FindCached`, `Ask`, `Answer`, `ReportUnavailable` (a
question that could not be asked: 503, nothing stored) and `Store` are the
requests; `Change` is the workspaces service. An answer may also be unreadable
(no key, no object, a 200 without a role): `Distrust` is the mandate's client,
which reports it as no verdict, `TakeForDenial` the others, which refuse, and
for a capability remember the refusal. `misread` is how long ago that was.
`OnMandateRevoked` is the broadcast, which may come late, more than once or
never, and may fail to drop the entry; only the mandate's entry is dropped by
it. `InvalidateMembership` is the local drop, which leaves the capability's
entry. A role is the whole of a readable answer; an answer waits at most `Delay`
seconds to be stored, a verdict is acted upon at once.

### NetIntel (`netintel/__init__.py`)

`classify_ip()` in several threads: the cache of profiles (its seconds only), the
failures in a row and the breaker's window. The lock covers each look at the
breaker (`Skip`, `Classify`) and each record (`RecordSuccess`,
`RecordFailure`), not the call between them, so that an old call may close or
reopen it. An error of the cache counts as one of the provider's
(`CacheRaises`). `asked` counts calls, for `ProviderSpared` alone.

### Services and MCServices

`EmitTransaction` and eleven instances in one specification. They share no state,
so their product would only multiply states that have nothing to do with each
other: `focus`, chosen at the start and never changed, says which one runs, and
the states add up. Each component has the variables, initial states and steps
of its module, unchanged; only initial values that no other component can see
(`mode`, the client's API, ...) are fixed while another has the focus.
`Services` is the composition, with the assumption on all constants, and what
the theorems are about; `MCServices` adds only the symmetry of its instance.

## 4. What is checked

| Run | Instance | Distinct states | Shows |
|---|---|---|---|
| outbox_safety | 2 relays, 2 events, one with error reports, 1 crash | 893 k | `RelayRowsUnsettled` |
| outbox_live | 1 relay, batches of 1 and 2, a Kafka event and an in-process one that may abort passes, either the older, 1 crash | 254 k | `BusDelivered`, refinement of `AtLeastOnce` |
| outbox_poison_tx | an in-process event that always breaks the transaction | violation | `HealthySettles` |
| tasks_safety | 2 tasks on 1 key, one with a deadline, 2 workers, lost announcements | 543 k | `OneHandlerPerTask`, `AttemptsBounded`, `LiveKeyUnique`, `OutcomeAnnounced`, `OutcomeFinal` |
| tasks_live | 1 task with or without a deadline, 2 workers, crashes | 85 k | `AttemptNumbersUnique`, `RetryTaken`, `Settles` |
| tasks_overlap | a deadline passes under a live handler | violation | `OneExecution` |
| consumer | 2 workers, 2 messages, the first undecodable, 2 faults, 3 brokers | 46 k | refinement, `NothingLostUnrecorded`, `NeverRewound`, `EveryMessageMet` |
| consumer_kafka_commit | the same on Kafka | violation | `NothingLost` |
| eventstore | 2 threads, 3 events (one routed), buffer of 2, pages of 1, 1 merge | 2.3 M | `OnePlace`, `FlushCovers`, `RekeyMovesAll` |
| projection | 2 consumers, 2 keys, 2 revisions, equal positions of one key, 1 rebuild, 1 fault | 90 k | refinement of `ReadModel` (`FollowsOwner`), `CatchesUp` |
| services | the twelve components of `Services`, below | 767 k | their type invariant and 18 properties |
| revision_sync | the same | violation | `SyncComplete` |

The type invariants of `Outbox`, `TaskStore`, `EventStore`, `Projection`,
`Consumer` and `EmitTransaction`, `BufferBounded` and some others are proved
(section 6), as parts of invariants that were first checked by TLC, and not
run again.

`SettledWasDelivered` (marked dispatched means delivered) and `NeverUnsettled`
(a mark stays) are proved too, and are what the outbox's refinement of
`AtLeastOnce` says of `settled`, so that `outbox_live` checks them with it.

In `services`:

| Component | Instance | Shows |
|---|---|---|
| EmitTransaction | 2 units, 3 nested blocks, schema errors raised or warned of, 1 crash | `MutationCarriesEvent`, `EventNeverLies`, refinement of `AtLeastOnce` |
| Gateway | 2 threads, 1 parked call, 1 fault, rate limit 1 | `RunsOnce`, `LogAgrees` |
| OneTimeCode | 2 overlapping requests, 2 codes of budget 2, outages, resends, a lifted block | `BudgetKept` |
| StepUp | 2 verifiers, lifetimes of 3 | `ProvenRecently` |
| PolicyCache | 2 requests, TTL 3, calls up to 2 | `ProtectedInTime` |
| DurableReply | 3 attempts | `OwedIsHeard` |
| ShadowUser | 2 requests, access 2, refresh 3, a tombstone configured too short | `DeletionStands`, `TombstonesTrue` |
| ConsumerLiveness | window 4, probe interval 3, handlers of up to 6 against a budget of 3 | `WorkSpared`, `StallFound` |
| Erasure | 2 signals, 2 answerers | `ReceiptEarned`, `AnsweredOnce` |
| RevisionSync | 2 writers, 2 rows, 3 revisions, pages of 1, either API | `ReaderComplete`, `DeletionsHonoured` |
| WorkspaceDoors | 2 requests, 4 doors, TTL 3, answers up to 2 late or unreadable | `VerdictsStand` |
| NetIntel | 2 threads, 2 addresses, threshold 3, profiles kept 2, unknown ones 1 | `ProviderSpared` |

Why these bounds are enough to meet the interesting cases: two relays, workers
or threads are enough for every pairwise race, and the actors of one module only
meet in pairs on a row; two rows let one row's failure hurt another, one key
shared by two tasks lets a revived row collide; two attempts give a first, a
retried and a last one; a buffer of two with calls of up to two events is below,
at and above its size; two ages of rows, and batches of one and two of them, put
the row that breaks a pass before, beside and behind the one on the bus (where
`Ranked` in `MCOutbox` leaves out two equal rows of the second age); pages
of one make a rekey of two rows take two pages. In `services`, lifetimes differ
where the code's may, a handler outlasts window and budget, three attempts leave
one to hear what the first was owed while the provider still works for the
second, three revisions let a row be deleted and restored between two pages of
one row, and three blocks put one without a savepoint between two that have one.
`MaxAttempts`, `MaxQueued`, `MaxCrashes`, `MaxFaults`, `MaxTasks`, `MaxExtend`,
`MaxDepth`, `MaxCodes`, `MaxRun`, `MaxRevision`, `MaxRebuilds` and `Count` bound
the state space and nothing else. Every property of a passing run has a mutant:
a definition of the code's model with a plausible mistake (`Mutant:` in the
modules), under which TLC finds the property violated.

Symmetry (threads, workers or requests are interchangeable) is used in runs
without liveness properties only. Deadlock is checked everywhere but in
`services` and `revision_sync`, two configurations of the one composition, where
the task of a durable reply has a last attempt.

### Fairness

* Outbox: the first chance runs unless the process dies; the clock passes
  `next_attempt_at`; `dispatch_outbox` loops for ever; brokers answer. Strong
  fairness on the publication of a bus event at its turn, and on an empty flush:
  a relay that comes to a bus row again and again publishes it, and the flush
  does not find the queue non-empty for ever. Whether its turn comes is not
  assumed. Nor is anything of in-process subscribers, which may fail for ever.
* TaskStore: time passes, consumers consume, providers answer, handlers return,
  the beat schedules the sweep. Claims, the sweep's rewrites and its second
  loop are strongly fair: crashes and losses do not hit the same step each
  time. Nobody has to call `start()`.
* Consumer: workers run and are restarted, brokers redeliver what is overdue,
  and the dead-letter topic cannot refuse every attempt.
* Projection: handlers and rebuilds return (weak); an event that nobody has
  acknowledged is given to a consumer again, strongly fair because consumers
  are busy with other events between its redeliveries. Rebuilds and faults are
  never forced, and are bounded.
* EmitTransaction and EventStore have no liveness property: what a crash or a
  failing write loses is not retried by anyone. The other components of
  `Services` are driven by requests nobody has to make; what must happen in
  time (a stall is found, a policy protects, a proof ages out) is stated as a
  bound on clocks, an invariant.

## 5. Where the code and its documents differ

Shown by a run:

* `outbox_poison_tx`: failures "are retried by the relay until they succeed"
  (`django/outbox/models.py:5`). In-process subscribers run in the relay's
  transaction without a savepoint; a database error there rolls back the whole
  pass, also the record of the failure, and healthy rows selected with it are
  delivered again on each pass and never settled.
* `tasks_overlap`: "Execution claims the record atomically" (`comm/tasks.py:21`)
  and the sweep's comment that a row with a stored reply is work "whose
  delivery was lost". The reply stays on the shelf after it was delivered by
  wire, so a live handler past its deadline is taken for a dead one and runs
  beside its replacement.
* `consumer_kafka_commit`: "Commit only when the message was handled or
  confirmed in the DLQ" (`bus/backends/kafka.py:255`). The dead letter is only
  queued when the offset is committed, and a withheld commit is overtaken by
  the next message's.
* `revision_sync`: "a sync client that saw revision N can never later miss
  N-1" (`django/models.py:99`), and the client is told to store `global_max`
  (`django/api/revision.py:30`). `global_max` is read after the page, by a
  statement of its own (`revision.py:103`): a row committed between the two is
  below what the client stores and in no page. `ReaderComplete` shows that
  `get_changes_since` itself keeps the promise.

Seen while modelling, without a run of their own (see the hazards):

* Bus. A delivery report that is an error still lets `flush()` return 0
  (`bus/backends/kafka.py:98`), though `bus/base.py:59` gives 0 the meaning
  "everything delivered": the row is marked dispatched. The constant
  `Rejectable` makes this explicit; the outbox's promise is stated and proved
  for the other events.
* Outbox. A row whose subscribers fail with a database error rolls back the
  record of its failure and is taken again by each pass, which never comes to the
  rows behind it: in the same batch (`django/outbox/relay.py:131`), or beyond a
  full one (`:125`). An event on the bus that lost its first chance to a crash
  then waits for as long. `BusDelivered` says that nothing but a row no younger,
  in process and undispatched for ever, can do this (`HeldUp`).
  A fan-out runs all handlers of an event again when one failed
  (`comm/actions.py:277`).
* emit. A failed emit in a nested block with its own savepoint, swallowed by
  the outer block, lets the outer mutation commit without its event
  (`comm/actions.py:66`); `mutate_and_emit(using=...)` opens its block on one
  connection and emits on the default one.
* Tasks. With a deadline, an overlapping older handler requeues by its own
  attempt number, and the row is tried more often than `max_attempts`. The
  sweep fails a task whose attempts are used up without a look at the shelf
  (`sweep_tasks.py:93`).
* Event store. "Reads flush first, so a caller always sees its own writes"
  (`eventstore/__init__.py:31`), but a flush does not wait for a batch another
  thread took. A batch is written on the caller's connection, and goes with the
  caller's transaction when that is rolled back, whoever's events are in it
  (`eventstore/backends/postgres.py:86`). `rekey` is called idempotent
  (`eventstore/base.py:222`), but a redelivered x to y that read its page before
  y to z committed puts the row back on y.
* Projections. An event whose position is equal to the row's is skipped and
  acknowledged, whatever it says (`comm/projections.py:370`). The position is by
  default the event's timestamp in milliseconds (`:180`), so of two changes in
  one millisecond the newest may never be shown: until the next change of the row
  or a rebuild. A `sequence_field` that grows with each change has no such ties.
* Revision sync. Pages are offsets into an order that every save changes: a row
  saved between two pages moves the others up, and one is in no page. A row
  deleted between the page of an initial sync and its `global_max` is in no
  later list of deletions. `data.json` is cached for five minutes under a key
  without a revision, and then pinned for 30 days under whatever revision was
  asked for (`django/api/revision.py:352`).
* Verification. "The code cannot be replayed" (`verification/codes.py:310`), and
  its budget "lives inside the entry" (`:41`), but the cache has no
  compare-and-set: two overlapping checks may accept one code twice, a mismatch
  written back after the match revives it, and a budget is exceeded (`:347`). By
  how much is what `BudgetKept` states: by the verdicts of requests that read the
  record while another request held it.
* Revocation. A tombstone is written before the deletion commits; when that is
  rolled back it refuses a live account until it is lifted
  (`django/jwt/tombstone.py:249`). An event that outlives the tombstone, or the
  `save()` of a request that was admitted before the erasure, can bring a row
  back (`django/users/shadow.py:133`, `django/jwt/utils.py:567` and `:817`).
  A tombstone is kept for the refresh lifetime, as that of "the longest-lived
  credential that can still name a deleted uid" (`django/jwt/tombstone.py:93`).
  Were access tokens configured to live longer, TLC finds one admitted after the
  tombstone has expired; the start-up check compares the tombstone with the
  refresh lifetime only (`django/blacklist_checks.py:207`).
* Mandates. "Grants may lag; revocations may not" (`django/mandate.py:68`), but
  an answer fetched before the loss is stored after the broadcast dropped the
  entry (`:353`), and admits for another TTL. `VerdictsStand` says how long, and
  that nothing else can. `invalidate_membership_cache` leaves the capability's
  verdict for up to 30 seconds (`django/workspaces.py:386`).
* Workspaces. "Three answers, never two" (`django/workspaces.py:11`), but an
  answer that says nothing is a refusal: `require_capability` remembers
  `__deny__` for 30 seconds for a result without `allowed`, for none at all, and
  for `allowed` without a role (`:377`), and `get_membership` returns `None` for
  a 200 without a role also when it is strict (`:219`). Only the mandate's client
  looks for the key (`django/mandate.py:305`). `VerdictsStand` has this as its
  exception (`Misread`), for exactly as long.
* Network intelligence. When the breaker's time is up all threads get through,
  and a cache that raises opens it although the provider is well
  (`netintel/__init__.py:221`); `ProviderSpared` counts both in.
* Erasure. A `TypeError` or `ValueError` from inside an erase callable is read
  as an unusable key: the work is undone, the delivery acknowledged, and the
  claim spent, so that no answerer sends a receipt (`gdpr/owners.py:351`;
  `refused` in the model). Two signals handled at once give the row two
  pseudonyms, one after the other (`gdpr/identity.py:212`).
* Liveness. After a broker outage longer than the window the process ends at
  the first probe that is answered, before the group can assign anything:
  `brokers_down_since` is kept but not used in the rule (`bus/liveness.py:210`,
  `:474`). Nothing is lost by the restart, and `WorkSpared` allows it.

## 6. What is proved

The proofs hold for every value of the constants that the modules' assumptions
allow (sets of any size, any bounds).

**OutboxProofs.** `SafeInv` joins the types, "delivered only if stored", and the
lock discipline: batches of different relays are disjoint, a relay's batch is
undispatched, and a first chance that would settle a row waits for its lock.
`DeliveryInv` adds what each actor may believe: a first chance or a relay that
confirmed has a delivery in `delivered`, or in its own open transaction
(`effects`), for each event that cannot be rejected. It is needed because
`SettledWasDelivered` alone says nothing about the steps between publish and
UPDATE. From them: `OutboxTypes`, `RelayRowsStayUnsettled`,
`DispatchedWasDelivered`, `NeverReopened`, and `OutboxImplementsAtLeastOnce`,
where every step is a step of `AtLeastOnce` or a stutter.

**TaskStoreProofs.** `WorkInv`: a worker with a task holds a number the row has
counted, unique per task. `RowInv`: held rows were run, unrun rows are
announced, shown outcomes were announced. `FreeInv`: for a task without a
deadline the worker's copy is the row (it is RUNNING, with that attempt
number), because only the sweep rewrites a row behind a worker's back and it
only rewrites rows with deadlines. From these nine theorems: keys, attempt
numbers, exclusive handlers per task and per key, bounded attempts, final
outcomes, backoffs, announcements. Deadlines are not assumed away:
`DedupeKeysUnique`, `AttemptNumbersNeverShared` and `OutcomesAnnounced` hold
with them.

**EventStoreProofs.** `CallInv` ties the place of a thread to what it may hold:
only a writer has a batch; an appending thread, or one in a transaction,
answers for nothing, so that a batch somebody answers for is committed as it is
written. `FlushInv`: what a flush answers for is in its batch or has reached
the store. `OnePlace` is proved event by event (`PlaceOf`). From these:
`EventStoreTypes`, `EventInOnePlace`, `FlushedBeforeBackend`;
`BufferStaysBelowSize` with finitely many events (the cardinality of the buffer
means nothing otherwise); and `RekeyLeavesNone`, from `RekeyInv`: from the empty
page to the commit, nothing a rekey answers for can get the old subject. It
needs that no merge leads into a subject that is merged away: with chained
merges another rekey's commit brings rows to the old subject meanwhile, and
the property is false.

**ConsumerProofs.** `Shapes` (types, and that only brokers with an
acknowledgement per message have messages out), `WorkInv` (a worker that
acknowledges has met its message; on NATS and Redis handled or parked it),
`OffsetInv` (on Kafka what is acknowledged is a prefix the owner is past, and
the owner met everything up to its position but what it is handling; this is
what makes a stale worker's commit harmless) and `AckInv` (what is acknowledged
was met). From them `ConsumerTypes`, `ConsumerNothingLostUnrecorded`,
`ConsumerNeverRewound` and `ConsumerImplementsAtLeastOnce`.

**EmitTransactionProofs.** `PlaceInv`: a pending mutation belongs to one open
block, its row lies at that block or further in, and what is stored is saved.
`JoinInv` is what makes `MutationCarriesEvent` inductive: for each joined unit
no block with a savepoint lies between its mutation and its row (`Bound`), or
the transaction is already marked for rollback down to the mutation's level.
From them `EmitTypes`, `EmitMutationCarriesEvent`, `EmitEventNeverLies` and
`EmitImplementsAtLeastOnce`, for any depth of nesting.

**ProjectionProofs.** The invariant joins the types, `KnownRevisions` (rows,
copies and the events at work never run ahead of the owner) and `RebuildInv` (a
row a rebuild deleted is locked by nobody and stays as it was until the rebuild
ends, and what is inserted in its place is not older). `ProjectionFollowsOwner`
is the refinement of `ReadModel`, for any `Position` that grows with the
revisions of each row, equal positions included; the lemma `NewerPosition` is
the only place where positions matter.

### The components of `Services`

Each component's invariant is proved of the component's own specification, for
instance `Gateway!Spec => []GatewayInv`. The lemmas `RunsGateway`,
`RunsStepUp`, ... say that a behaviour of `ServicesSpec` is one of each
component (it moves as its own `Next` says, or stands still), which makes the
theorems statements about `ServicesSpec` and the very definitions `services`
checks.

**ServicesProofs.**

* Gateway. `GatewayClaims`: a thread that won a row works on a resolved call,
  alone, and has not run the handler before; a call without a row has one
  thread. From it `ServicesRunsOnce`. `GatewayLogInv` adds that a line about to
  be told is true (`GatewayLines`), and that each outcome is on the stream,
  about to be put there, or disturbed by a fault (`GatewayOwed`). From it
  `ServicesLogAgrees`.
* Erasure. `ErasureRowInv`: an answer past its save has erased the row or holds
  the write that does. `ErasureClaimInv`: a claim is a receipt sent, one on its
  way, or an answer that failed; and a fan-out that called somebody has a
  claim, or an answer that failed. From them `ServicesReceiptEarned` and
  `ServicesAnsweredOnce`.
* Durable replies. `ReplyInv`: what is on the shelf is an answer, and whole (a
  reference could be read once only); what is owed is on it; and an attempt that
  was promised one is on its way to it or holds it. `OwedIsHeard` speaks of the
  attempt's place alone, and is not inductive: `Take` and `Hear` need to know
  what they find. From it `ServicesOwedIsHeard`, for any number of attempts.
* Revision sync. `SyncInv`: numbers still to be committed are above all that
  is, one transaction at a time has any (the advisory lock), and neither cursor
  nor `global_max` of the client is above what is committed. The first two make
  "commit-ordered" inductive; the last is what keeps `ReaderComplete` when a
  transaction commits behind a reader. From it `ServicesReaderComplete` and
  `ServicesDeletionsHonoured`, for any number of writers, rows, saves to a
  transaction and pages. That `MAX(revision)` is a maximum (`LargestBelow`,
  `RevisionMax`: a nonempty bounded set of numbers has one) follows from the
  well-foundedness of `<`, which the library states without an operator
  parameter.
* `ServicesTypes`: the type invariant of the twelve, from theirs.

**ClockedProofs.** What runs on clocks is inductive once ages are tied together.

* Step-up. A grant, and a token, has no more left than its proof's age allows:
  `proof + grant <= ProofAge`; a session's proof was younger than `ProofAge`
  when it was pinned. Each hand-over starts a lifetime of its own, so the sum
  grows to twice `ProofAge` and no further: `ServicesProvenRecently`.
* Policy cache and doors. An answer that is stored, under way or decided upon
  differs from the truth only if the truth is younger than the answer (`since <=
  age`; `since + left <= TTL + Delay`), or, at a door, if an unreadable one was
  taken for it: then the entry and `misread` add up to `TTL` at most, and it
  refuses. From it `ServicesProtectedInTime` and `ServicesVerdictsStand`; for
  the mandate also that, once its loss was heard with no answer under way,
  nothing the door reads says otherwise.
* Consumer liveness. `LoopInv` ties the clocks of partitions, poll, handler,
  brokers' answers and heartbeat: time in a handler is never part of `apart`,
  and an unanswered question is as old as the probe. `ServicesWorkSpared` and
  `ServicesStallFound` are two halves of one rule, for any window, probe
  interval and poll timeout.
* One-time codes. A record accounts for its code: but for `overlaps`, nothing
  was accepted and no more verdicts were given than it has attempts. So do the
  copies of it, as long as a request that was not late holds one, and at most
  one such request does. From it `ServicesBudgetKept`, for any number of
  requests that overlap in any way.
* Network intelligence. `asked <= failures + Cardinality(Busy)`: each call since
  the last success is a failure counted, or still with its thread, which gives
  `ServicesProviderSpared` for any threshold and finite set of threads.
* Shadow users. From the record of a deletion on, no token that somebody can
  show, or is about to mint, outlives the tombstone; a request that began later
  has not come past its check. So when the tombstone is gone the tokens are,
  which is why `ServicesDeletionStands` needs no bound on time.
  `ServicesTombstonesTrue` is inductive beside it.

### What is assumed

`ServicesAssumption`, `OutboxAssumption`, ... are named where the constants are
declared, and evaluated by TLC on each run. Beyond the types of the constants:

* threads are finitely many, because `ProviderSpared` counts them; rows are
  finitely many, because pages and counts do, and there is one;
* a section has some answerer: an empty fan-out is acknowledged without a
  receipt, and `AnsweredOnce` would be false;
* `PolicyTTL`, `DoorTTL` and `StallWindow` are not 0, where the code
  switches the cache or the rule off; and `Budget`, `ProofAge`, `MaxGuesses`,
  `PageSize`, `ProbeInterval`, `PollTimeout` and `Threshold`, limits on
  something that happens, are not 0;
* `AccessLife <= RefreshLife`: the code takes the refresh token for the
  longest-lived credential (`django/jwt/tombstone.py:93`) and floors the
  tombstone at its lifetime alone. The defaults are an hour and a week
  (`django/settings.py:214`); nothing enforces the order, and without it
  `DeletionStands` is false (section 5);
* `TombstoneTTL`, delays, the number of calls, signals, writers, requests and
  verifiers are arbitrary. The other bounds (`MaxRevision`, `MaxCodes`, ...) are
  arbitrary natural numbers.

### Only model-checked

All safety properties and refinements that the passing runs check are theorems.
The five liveness properties (`BusDelivered`, `RetryTaken`, `Settles`,
`EveryMessageMet`, `CatchesUp`) are not: they rest on fairness, hence on
`ENABLED`, and are beyond the prover. The bounds on clocks (`StallFound`,
`ProtectedInTime`, `VerdictsStand`, `ProvenRecently`) state what must happen in
time as safety, and are proved.

## 7. What is not modelled

`PROJECT.json` lists every part with the reason. In short:

* What section 2 still has, and of modelled parts: checkpoint values, the
  outcome callback and the inline dispatch of tasks; topic provisioning and
  graceful shutdown of the loops; pagination, `rollup`, retention and partitions
  of the event store; scope tokens and the HTTP door of the gateway; the send
  cooldown of codes; bans and revoked single tokens; export and the probe of
  erasure; groups, scope and the personal workspace.
* Registries, start-up checks, schemas, linters, generators, translations,
  settings and the REST, admin and navigation layers are most of the repository's
  lines. They run once at start, or compute a response from a request, and have
  no concurrent state: there is nothing in them for these tools to find that a
  unit test would not.
* Tokens' cryptography, parsing, external providers (mail, captcha, media, IP
  databases, translation) and cache backends would have to be assumed rather
  than translated.
* Observability is best effort by design and nothing depends on it.

The database is assumed to give row locks, atomic commits and the unique indexes
the models declare, at PostgreSQL's READ COMMITTED; a cache gives single keys,
set and read atomically, that expire.
