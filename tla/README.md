# Formal model of ClientOps

TLA+ modules, TLC configurations and TLAPS proofs for the two programs of this
repository: *ClientOps Relay* (n8n workflows over PostgreSQL, with a policy
engine in C) and *ClientOpsCRM* (a command-line CRM over SQLite). The modules
are written from the code; documentation is quoted only where it disagrees.

## 1. Inventory

| Part | State | Operations | Correct when |
| --- | --- | --- | --- |
| Relay database (`database/schema.sql`) | `leads`, `lead_activity`, `delivery_outbox`, `settings`, `workflow_failures` | `ingest_lead`, `claim_outbox`, `authorize_delivery`, `complete_outbox`, `fail_outbox`, `schedule_due_followups`, `enqueue_daily_digest`, `mark_lead_contacted`, `purge_expired_data`, `record_workflow_failure` | a delivery has one end; a stale worker changes nothing; a contacted request is not reminded of; the event log tells what happened; data past retention goes |
| Outbox dispatcher (`scripts/build-workflows.mjs`) | the items of one n8n execution | claim, authorize, send by SMTP or ntfy, complete or defer | no row in two hands; delivered means received; every row ends |
| Scheduled workflows | none | SLA monitor, daily digest, retention | overdue requests are escalated; one digest a day |
| API intake and mark-contacted workflows | none beyond one call | validate, qualify, store, answer | one ticket per key; the same ticket for a retry; 409 only for a changed body; calls for one key never wait for ever |
| Policy engine (`policy-engine/src`) | none (pure) | category, score, pre-policy, final route | documented precedence of routes; ties go to review |
| Policy server, companion (`policy-engine/server.mjs`, `companion/server.mjs`) | requests in flight, child processes, shared readiness probe, stop flag | qualify, health, readiness, shutdown | the concurrency limit holds and recovers; every request ends; answers come from the pinned engine; a stop ends the process and its engines |
| Bootstrap and upgrade (`scripts/bootstrap-n8n*.{sh,mjs}`, `database/migrate.sh`) | workflows and credentials in n8n, backup, marker | preflight, backup, unpublish, import, publish, verify | a customized workflow is never overwritten; what is replaced is in a backup; a restart at any step completes |
| Local CRM (`crm/src/clientops_crm.cpp`) | one SQLite file | accounts, contacts, leads, deals, tasks, notes, audit, import | a closed deal or task stays closed; the timeline tells what happened; audit names the right actor; conversions and imports are whole |
| Launcher, renderers, release tooling, vendored cJSON | files | sequential generation | covered by the repository's tests; not modelled |

How they interact: a webhook starts the intake execution, which calls the
policy service over HTTP and then one function of the database. All workflows
share nothing but the database; each database function is one transaction.
Executions of the dispatcher overlap, and the dispatcher, the SLA monitor, the
contact webhook and retention meet in the same rows. Providers (SMTP, ntfy)
answer late, never, or after having taken the message. The CRM's processes
share one SQLite file and meet the Relay only through an export that
`crm/scripts/import-relay.sh` reads.

What is hard here: leases that outlive or are outlived by their workers;
contact, escalation, retention and delivery racing for the same alert; limits
on attempts compared at three places; calls repeated after lost answers;
row keys whose uniqueness must survive deletion; a service that counts requests
while their bodies, children and timers end in any order; an upgrade that may
stop anywhere and be retried around an operator's own changes; and command
processes whose statements interleave in one file. `PROJECT.json` lists each
hazard at its line with the properties aimed at it.

## 2. Modules

| Module | Models | Kind |
| --- | --- | --- |
| `RelayOutbox` | `database/schema.sql`: each function that writes leads, activity or outbox is one action; environment actions for the clock | component |
| `OutboxPromise` | what an outbox promises, without leases, attempts or time | abstract |
| `RelayOutboxRefines` | the mapping of `RelayOutbox` to `OutboxPromise` | refinement |
| `Dispatcher` | extends `RelayOutbox` with the executions of workflow 20, n8n's time limit, crashes, and the providers | composition |
| `RelayIntake` | workflow 01 and `ingest_lead` step by step: repeated sendings, repeated tries, sessions that outlive their caller, the advisory lock, purge | component |
| `Companion` | `companion/server.mjs`: requests, child processes, readiness, shutdown | component |
| `Bootstrap` | `clientops up`: the bootstrap script and its helper, run as preflight and as install, with the operator around them | component |
| `CrmSessions` | command processes of the CRM over one SQLite file, statement by statement | component |
| `RelayIntakeProofs` | types, the inductive invariant and the safety properties of `RelayIntake`, proved | proofs |
| `BootstrapProofs` | types, the inductive invariant and the safety properties of `Bootstrap`, proved | proofs |
| `CompanionProofs` | types, the inductive invariants and the safety properties of `Companion`, proved | proofs |
| `CrmProofs` | types, the inductive invariants and the safety properties of `CrmSessions`, proved | proofs |
| `RelayOutboxTypes` | the type invariant, proved | proofs |
| `RelayOutboxProofs` | the inductive invariant and the safety properties, proved | proofs |
| `RelayRefinementProofs` | the refinement, proved | proofs |
| `DispatcherProofs` | types, the inductive invariant and the safety properties of `Dispatcher`, and that it keeps to `RelayOutbox`, proved | proofs |
| `MCRelayOutbox`, `MCDispatcher`, `MCRelayIntake`, `MCCompanion`, `MCBootstrap`, `MCCrmSessions` | instances for TLC | checking |

### RelayOutbox

A row is named by what its dedupe key says: `<<lead, kind>>` or
`<<day, "daily_digest">>`. Times are flags: a lease is `live` until
`LeasesExpire`, a deferred row is `ready` after `BackoffElapses`, `slaDue` and
`aged` are raised by `SlaFallsDue`, `LeadAges` and `RowAges`. The lease token
is the ordinal of the lease on its row, which is as fresh as a UUID. The
variable `leases` is a history: every lease granted, its worker, and what
became of it; properties speak of it and no guard of the code's reads it,
except that a token is fresh and that whoever presents a token was given it.

A call that raises or changes nothing (a lease no longer held, a ticket
already contacted or unknown, missing settings) is a stuttering step here;
`Dispatcher` models what the caller does with it. `ClaimOutbox` has all three
statements of `claim_outbox`; `Selections` keeps the order by priority and the
limit, and leaves the order among equals open; `locked` are the rows that SKIP
LOCKED passes over. The second statement, which cancels alerts of contacted
requests, is modelled and never finds a row: `ContactSilencesAlert` shows that
`mark_lead_contacted` leaves none. A lead's surviving rows after its purge have
no lead (`LeadPresent` is false), as after SET NULL.

### Dispatcher

One execution: claim a batch; authorize each row of it; then SMTP, then ntfy,
each sending all its rows, recording the accepted ones, then deferring the
refused ones. A raising `complete_outbox` or `fail_outbox` ends the execution,
because those nodes have no error output. `Send` is a channel node with its
three tries: the provider may have taken more copies than the node knows.
`Crash` covers a stopped process, a failing query, and n8n's stop at
`executionTimeout`; that n8n does stop an execution at its limit is taken at
its word (`Minute`). Time is counted in ticks shared by leases and executions.
The channel Prepare Delivery Failure serves for an unsupported channel is
unreachable: the CHECK on `channel` admits the two that are routed. Retention
is left out of this composition (its scale is months) and covered by
`RelayOutbox`.

### RelayIntake

`RelayOutbox` takes `ingest_lead` as one action; this module opens it up, since
its hazards lie between its statements. A *sending* is one HTTP request of a
client, `exec` its n8n execution, a *session* one call of `ingest_lead` by one
try of the store node. `StoreFails` is what the node sees when its connection
breaks: it tries again while the first session may still be anywhere, or may
have committed. A session takes the advisory lock (`LockKey`), looks the key up
(`Lookup`, which also answers replays and conflicts), then inserts and commits
(`Insert`), or rolls back (`Abort`, which includes missing delivery settings).
Validation and the policy's answer are one step, `Qualify`: they touch nothing
shared, and the policy node's own tries only read. A policy response that
`ingest_lead` does not support raises before the lock, and is tried again.

`issued` is a history of all tickets with the executions that were running
when each was made (`peers`). Purge waits for those to end: retention is at
least seven days (the check in `purge_expired_data`), executions stop after a
minute, and it is assumed that no statement runs on for a week. A reply that
nobody waits for any more is forgotten, which keeps the state space small and
hides nothing: no step reads it. A request sent once under a new key can
be answered 200 instead of 201: the node's second try finds the ticket of its
first (`Lookup` after a lost `StoreReturns`). The ticket is the right one.

### Companion

A handler is one connection with at most one request. A caller's request is in
its `body`, then in its `engine`; a watcher's runs the two children of
`verifyPolicyReady` (`version`, `validate`) and awaits its own promise, or
awaits somebody else's. `inFlight`, `activeChildren`, `readinessPromise`,
`readinessCheckedAt` (as an age) and `shuttingDown` (in `server`) are the
module's variables of those names. A child's `fate` is what was done to it;
`Settled` is what its promise then comes to: a timeout wins over a full output,
and a child that was sent SIGTERM may have finished first. The limits on bytes
and the shape of a body are outcomes: `BodyEnds` may find it too large or not
UTF-8, `Printed` may be an answer, a refusal, or nothing valid.

`ReplaceEngine` installs another binary or configuration under the running
service, which is what the pinned version is there for. `sincePinned` and
`sinceValid` are histories: how long ago the answer was still true. Two
remarks that the properties are shaped by. A probe older than the cache time is
not awaited but doubled, so the number of probes is bounded by their duration
over the cache time and not by one (`EnginesBounded`). And an exit with code 0
may leave several engines running: a body that ends after the stop signal still
starts a child, a version child that finishes in spite of its SIGTERM is
followed by the second one, and the server closes without waiting for clients
that have left. `NoEngineForgotten` says that these are the only cases, that
all of them belong to clients that have left, and how many there can be: as
many callers' as there are slots, and as many watchers' as there can be probes
begun within one process timeout before the signal.

### Bootstrap

One step per command of `bootstrap-n8n.sh`; the helper's commands are the
operators over a plan (`Importable`, `Publishable`, `Ready`, ...). `mode` tells
the preflight from the run that installs; between them compose lets
`database-migrate` run. `set -e` makes every failing command the end of the
run, which is the same step as a stop of the host: `Stop`, possible at every
step. A single n8n command is taken as atomic. Contents are the four classes
`createPlan` distinguishes, `missing`, `stock-v1`, `current`, `customized`; a
draft saved in the editor leaves the older version active (`older`), which is
why the code compares `versionId` with `activeVersionId`: a draft may hold the
shipped content while an older version is still published, and then only that
comparison tells (`PublishedCurrent`). `saved` is a history of the contents in
complete backups. A directory that was not renamed does not count as one.

`OperatorChanges` happens between runs only: a first start and an upgrade begin
from a stopped stack, and n8n itself starts after `n8n-init` has succeeded. An
`up` beside a running n8n would let an edit fall between the plan and the
import; that is outside this model.

### CrmSessions

A command is `set_actor` and then its own statements. `Write` is SQLite: a
statement outside a transaction commits alone; a writer beside a transaction,
or on a snapshot that is no longer the newest, is refused. The second case is
what matters: the `SELECT` at the start of `deal move`, `win`, `lost` and of
`task done`, `cancel` is never finished, its `Statement` lives to the end of
the function, and so it pins the snapshot (`Pinned`). The guarded UPDATE that
follows, whose number of rows nobody looks at, therefore fails when another
process has committed in between, instead of changing no row and reporting
success. `TimelineIsTrue` rests on this; the mutant that finishes the statement
breaks it. The price is a command refused although the other process touched
another record, or, between the UPDATE and its activity, a change that is made
and reported as failed; the timeline then lacks the event, never the reverse.

An import of the Relay's leads runs with `--skip-existing`, as
`import-relay.sh` does. `lead convert` takes a lead that is `new` as well as
one that is `qualified`, as the code does. The account of a conversion goes the
way of its contact and is left out.

## 3. Runs

| Run | Question | Bounds | Result |
| --- | --- | --- | --- |
| `outbox` (`MCRelayOutbox.cfg`) | do the transactions, in any order, keep the invariants, the three action properties and the promise? | one lead (urgent, with draft, or spam), its three rows, one worker, two attempts, batch of two | holds, 170 726 states |
| `outbox_live` | are overdue requests escalated and old rows deleted? | one lead, one day, one attempt | holds, 12 920 states |
| `dispatcher` | do overlapping executions with crashes and lost answers keep leases apart, record only what was received, and stop alerts after a contact? | two workers, two rows, two attempts, lease of two ticks, limit of one | holds, 315 653 states |
| `dispatcher_live` | does every queued delivery end? | one worker, two lead rows and a digest, two attempts, crashes | holds, 162 014 states |
| `intake` | are answers true, does the lock suffice, is there one ticket whatever is lost or repeated? | one key, two bodies with one digest, three sendings, two tries each | holds, 1 280 764 states |
| `intake_live` | does every call of `ingest_lead` end? | one sending with the code's three tries, a refused body under another key | holds, 3 103 states |
| `dispatcher_record` | is every sent row recorded or deferred, absent crashes? | as `dispatcher`, three rows, no faults | violated (finding 1) |
| `companion` | are slots exact and answers fresh? | two callers for one slot, two watchers, three kinds of engine, process timeout of one tick, cache time of three, shutdown after two | holds, 667 987 states |
| `companion_live` | do overlapping probes keep their bound, does a stop forget no engine, does every request end, the process too, and does readiness recover? | one caller, three watchers, process timeout of two ticks, cache time of three, shutdown after one | holds, 133 814 states |
| `bootstrap` | are operators' changes kept and replaced workflows saved, is success true, and does trying again succeed? | two workflows, one credential, three changes, two stops | holds, 1 338 829 states |
| `crm` | do racing commands keep records, timeline and transactions consistent? | two processes of two commands each, two leads of one contact, ten kinds of command | holds, 1 790 571 states |
| `crm_actor` | does an audit row name the actor of its command? | as `crm`, one lead | violated (finding 2) |

Why the bounds suffice. Transactions touch one lead and its rows, or treat
rows independently except for the limit of a batch; one lead gives all three
kinds of lead rows, and a batch smaller than their number makes rows wait. In
`outbox` one worker identity is enough because tokens of any age are presented
in any order: a worker with an old and a new lease on the same row is the
hardest case for fencing, and the mutant that fences by worker alone is found.
Two attempts have a first, a last, and an expired last one; the code's six add
only more of the first. URGENT uses both channels and has an SLA, SPAM has
neither deliveries nor SLA. The theorems hold for every bound. In
`dispatcher_live` a limit of zero ticks means an execution ends or crashes
within the tick it started in; longer executions are in `dispatcher`. Copies
received are counted to two, which tells none, one and more apart. Deadlock is
checked in the runs of the outbox and the dispatcher: the schedules never stop.
The intake stops when its clients have used up their sendings, so there it is
not. In `intake` two bodies with equal digests make the digest useless, three
sendings give an overlap of equal and of unequal bodies, and a second try per
sending a session whose caller has left; more tries repeat the second.

In `companion` one slot for two callers has a full and a free limit; a third
caller would be refused like the second. Its cache time is longer than a probe
can take, so that answers are shared after they have settled. The engines are
the pinned one, one whose configuration broke and one of another version. In
`companion_live` a probe may take four ticks, two for each child, and is shared
for three only, so that probes overlap: `EnginesBounded` then allows two, which
is reached, and a third watcher is there who could start one too many. In the
same run an orderly exit that leaves the engines of a caller and of a watcher
is reached, and `NoEngineForgotten` allows one of each. The engine is never
replaced there; it may hang or print too much. The shutdown
timeout is shorter than a process timeout, the other way round than in the code
(five seconds and two): the forced exit then comes while children still run,
and an orderly exit has one tick to come before it. `EnginesBoundedHolds` and
`NoEngineForgottenHolds` are for any times. In
`bootstrap` two workflows can be in different classes, and one of them handled
while the other is not; three changes suffice to customize, publish and delete,
or to undo; two stops put a failure in the recovery from a failure. In `crm`
two commands of each process give a command that finds what another left half
done; two leads with one email meet in one contact.

Fairness. `Fairness` says the schedules keep running and time passes: the
dispatcher polls every minute, the monitor every five, retention daily, and
some poll meets no locked row (transactions are short). Nothing is assumed of
workers in `FairSpec`: they may all crash. `DispatchFairness` adds that n8n
goes on with an execution it has started; a crash may always come first, so
`EveryJobSettles` rests on the limit of attempts and not on success.

In `RelayIntake`, `Fairness` says that a session's statements go on and that a
lock that keeps coming free is granted to each waiter (PostgreSQL queues them).
An execution need not go on.

In `Companion`, `Fairness` says that time passes, that timers fire, that a child
which was killed closes, and that Node ends a connection whose body does not
come (`requestTimeout`), as long as it listens: its checks stop with
`server.close`. Engines may hang and clients may stay for ever. In `Bootstrap`
it says that the operator starts again until it succeeds and that a run goes
on; stops are bounded. `CrmSessions` has no liveness property: a command may be
refused again and again, and the code promises nothing else.

Mutants. Every property of a passing run has a mutant: an operator marked
`Bug:` beside the definition it replaces, under which TLC finds the property
violated.

## 4. Proofs

All theorems are for arbitrary sets and limits. Those of the outbox (any leads,
days, workers, routes, drafts and attempts) rest on the assumptions
`RouteAssumption`, `MaxAttemptsAssumption` and `NobodyAssumption` of
`RelayOutbox`:

* `TypeCorrect`: `Spec => []TypeOK`. The one delicate case is the counter of
  attempts, bounded because a claim needs an attempt left.
* `LeaseDisciplineHolds`, `ContactSilencesAlertHolds`, `OneOutcomePerRowHolds`,
  from the inductive invariant
  `IInv == TypeOK /\ GoodRows /\ ContactSilencesAlert /\ KeysAreFresh`.
  `GoodRow(row, h)` relates one row to its lease history; it joins
  `LeaseDiscipline` and `OneOutcomePerRow` because each needs the other: a
  recorded outcome is the last because only the newest lease can record, and
  the newest lease is the row's because a finished row is never leased.
  `KeysAreFresh` is needed because an inserted row starts with no attempts: if
  a key could be inserted again after retention deleted its row, the counter
  and the history would part. It says that no row precedes its
  request, no alert its escalation and no lease its row. Lemmas first show what
  each operation on a row does to `GoodRow` (`WithdrawnRow`, `LeasedRow`, `RecordedRow`, `InsertedRow`,
  `PurgedRow`, `FlaggedRow`), then one lemma per transaction.
* `StaleLeaseIsInertHolds`, `LiveLeaseIsSafeHolds`, `NoKeyReturnsHolds`: the
  three action properties, from the same invariant. For the last, the three
  transactions that insert are looked at one by one (`InsertStep`): what each
  of them requires, beside `ON CONFLICT DO NOTHING`, excludes a deleted row.
* `ActivityTellsHistoryHolds`, from `IInv`, the property itself and `Unused`: a
  request not yet created is not escalated and has no activity. The
  property counts, but no induction over the length of a history is needed:
  the set of recorded outcomes is finite, and one step adds at most one pair
  to it, beside one line of activity.
* `OutboxKeepsPromise`: `Spec => KeepsPromise`. Every transaction is a step of
  `OutboxPromise` or stutters; `ContactSilencesAlert` is what makes the second
  statement of a claim stutter, and what makes an authorization that cancels
  an alert concern a deleted request only.

* `DispatcherProofs`, from the same and `TicksAssumption`, which says that an
  execution's limit is shorter than a lease (two minutes and five):
  `DispatchTypeCorrect`, `LeaseOutlivesExecutionHolds`, `OneHolderHolds`,
  `DeliveredWasReceivedHolds`, `AlertQuietAfterContactHolds`. `HandsHold` is
  `LeaseOutlivesExecution` with its reason: an item's lease is never older than
  the execution that holds it, so the execution is stopped first.
  `IdleHandsEmpty` says that what is in hand is in the hand of a running
  execution, and `AcceptedWasReceived` carries the provider's answer to the
  step that records it. `OneHolder` is part of the invariant itself: a claim
  never grants a row that is in somebody's hand, because its lease is live or
  it is a silenced alert, which is no longer selected (`ClaimEffect`). `DispatcherKeepsRelay`, `DispatchSpec => Spec`,
  shows by cases (`StepBelow`) that every step of an execution is a transaction
  of `RelayOutbox` or leaves the database alone, so every theorem above holds
  under the dispatcher too.
* `RelayIntakeProofs`, from `ClientAssumption`, `TriesAssumption` and
  `NobodyAssumption` of `RelayIntake`: `IntakeTypeCorrect`, then
  `UniqueIndexIsIdleHolds`, `AnswersOwnRequestHolds`, `ConflictIsRealHolds` and
  `NoTwinTicketHolds` from one invariant. `LockInv` says that a session past
  the lock still holds it and that one about to insert has an empty key;
  `ReplyInv` says that every reply on its way, not only those heard, is true of
  the tickets, which only grow; `PeerInv` says that a purged ticket's peers
  have ended. The last needs `StartInv`, because "ended" must be for good: an
  execution is never started twice and only a running one opens sessions.
  `QuietStep` sums up the nodes that touch no shared state, so that their
  cases are argued once.
* `BootstrapProofs`, from `BootstrapAssumption` (finitely many workflows, at
  least one): `BootstrapTypeCorrect`, `SuccessMeansInstalledHolds`,
  `OperatorWorkIsKeptHolds` and `SavedBeforeReplacedHolds`. Their invariant says
  what a run may rely on at each step. `PlanIsFound`: until the first write the
  plan is what n8n holds, since nobody edits during a run. `GuardHolds`:
  nothing past the guard runs beside a customized workflow. `BackupIsSealed`:
  from the guard on, every content of the plan is in a complete backup.
  `LoopsAsPlanned`: what the import loop has still to replace is as planned,
  and what it has handled is there. `MigratedFirst`, `InstallInMode` and
  `VerifiedLast` tie success to the migration and to the verification of what
  n8n then holds. The short path of an installed system needs `PlanIsFound`
  alone: its plan is ready, so n8n is.
* `CompanionProofs`, from `HandlerAssumption`, `EngineAssumption` and
  `LimitAssumption` of `Companion`: `CompanionTypeCorrect`, `SlotsExactHolds`,
  `NoEngineForgottenHolds`, `AnswersAreFreshHolds` and `EnginesBoundedHolds`. That the counter neither
  leaks nor falls below zero is one fact with its exactness, so `SlotsExact` is
  part of the invariant that gives the types. `LiveIsBusy` and `ActiveIsLive`
  say whose child lives; `StoppedChildren`, that only children begun after the
  stop signal still run, is what a stop leaves to the exit, and `EachAccounted`
  what the exit leaves: their clients have gone. `FreshInv` builds
  on these and ages every piece of evidence on its way to an answer: the image
  a child was started from (`ImagesRecent`), what a probe's first child printed
  (`SeenRecent`), and the shared probe and its value (`SharedRecent`).
  `EnginesBounded` counts probes: `RowInv` says that there is a function that
  gives each running probe the time since its start (`StartAges`), no longer
  than its two children may take, and a cache time apart from every other's; so
  the probes fall into different intervals of that length. `NoEngineForgotten`
  counts in the same way (`SpacedBound`, `LeftBounds`): no probe starts after
  the stop signal, and one whose child the signal did not reach was at its
  first child then, so all that are left began within one process timeout
  before the signal (`Signalled` says which steps keep this so).
* `CrmProofs`, from `LeadAssumption`, `EmailAssumption`, `NobodyAssumption`,
  `MaxCommandsAssumption` and `OpsAssumption` of `CrmSessions`:
  `CrmTypeCorrect`, `TransactionsAreWholeHolds`, `ClosedStaysClosedHolds` and
  `TimelineIsTrueHolds`.
  `PendingFits` says how far the open transaction has come from the committed
  file, which, as long as it is open, nobody else can change: after the link, a
  conversion is one deal, one contact and one status away; an import is the
  rows it has read away. So the commit leaves a whole file, by legal steps.
  `StepFits` says which commands come to which statement. `LoneWrite`,
  `InnerWrite`, `QuietStep` and `GivesUpStep` are the four forms of a step:
  outside a transaction, inside one, without a write, and giving up.
  `TInv` is the invariant behind `TimelineIsTrue`. `TrueTo` relates a record's
  audit and timeline without counting: each has at most one entry of a command,
  and the timeline's are among the audit's. It is kept by appending to either
  (`AuditAppend`, `TimelineAppend`); the rest says when each append is allowed.
  `Outside` and `Inside` say which entries of its own a command has already
  written, in the committed file or in its transaction. `Snapshot` is why
  nobody needs to count the rows of the UPDATE: as long as the snapshot that
  the unfinished SELECT pins is the newest, the record is as it was read and
  the audit ends with the entry that is about to be told of, under the actor
  that was read; once it is not, SQLite refuses to write (`SnapshotOutdated`).

Every safety property of a passing run, invariant or action property, is thus
proved, and TLC checked the inductive invariants on small instances before they
were proved. Only model-checked: the liveness properties `OverdueIsEscalated`,
`AgedRowsArePurged`, `EveryJobSettles`, `EveryCallEnds`, `EveryRequestEnds`,
`ShutdownEnds`, `ReadinessRecovers` and `UpgradeCompletes`, since fairness and
ENABLED are outside the prover's reach.

## 5. Findings

1. `SentIsRecorded` (`docs/architecture.md:70`). A contact that arrives after
   an alert was sent and before it is recorded makes `complete_outbox` raise;
   the execution ends, and the other rows it has sent stay leased and are sent
   again. No crash is needed.
2. `AuditNamesItsActor` (`docs/crm/03_CLI_API_REFERENCE.md:9`). The actor is
   one row of the shared file, written by each command in a statement of its
   own; a command that starts while another is at work, even one that only
   lists, puts its name on the other's audit rows.

## 6. Not modelled, and the plan

Order of work, the most important behaviour first:

1. `ContactLocks`: the order of row locks of `complete_outbox`, `fail_outbox`,
   `mark_lead_contacted` and `purge_expired_data`.
2. `PolicyRouting`: the rules and router as pure functions over bounded inputs
   against the documented precedence.
3. The digest's window, and the CRM's add commands and pipelines.

Not planned: `record_workflow_failure` (an insert nothing reads), the SaaS
adapter (calls without state), the policy HTTP server (the companion's
admission and processes, with nothing shared but `inFlight`), configuration
parsing, the launcher, renderers and release tooling (sequential, tested),
vendored cJSON. n8n, PostgreSQL and
the providers are external: transactions are taken as serializable per
function (except `ingest_lead`, whose statements `RelayIntake` separates), and
`$('Claim Outbox').item` as the claim paired with its item.
