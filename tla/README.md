# A verification project for Ops-Solutions

Ops-Solutions is a multi-tenant reporting service over HubSpot: an API
(`apps/api`), a worker (`apps/worker`) and a web front end (`apps/web`) that
share a PostgreSQL database and a Redis with BullMQ queues. This directory holds
TLA+ models of the parts whose correctness depends on the order of concurrent
steps, the TLC configurations that check them, and theorems about them that the
TLA+ proof system checks. Paths below are relative to the repository.

## 1. Inventory

### The system's components

| Component (code) | State it keeps | Operations | Modelled |
| --- | --- | --- | --- |
| Onboarding readiness snapshots (`apps/api/src/onboarding-readiness*.js`) | rows of `onboarding_readiness_snapshots` | evaluate, persist under an advisory lock, prune | `ReadinessIncidents` |
| Readiness regression monitor (`readiness-regression-monitor.js`) | the workspace's row of `readiness_regression_incidents` | load the newest snapshot, classify, persist; operator acknowledges or resolves | `ReadinessIncidents`, abstractly `IncidentLifecycle` |
| Readiness notifications and dead letters (`readiness-regression-notifications.js`, `readiness-delivery-dead-letter.js`) | rows of `readiness_regression_deliveries`, `last_notified_at` | recover stale claims, enqueue, claim, send, complete, fail, requeue | `ReadinessDeliveries`, abstractly `NotificationPromise` |
| HubSpot webhook intake (`sync-operations-base.js`) | `hubspot_webhook_events`, archived flag of `crm_records`, queue jobs | journal, archive on a deletion, add the job, mark queued | `WebhookJournal` |
| Targeted webhook synchronization (`apps/worker/src/targeted-sync.js`, `worker.js`) | the same events, `crm_records`, the job's attempts | claim, start, fetch, store, archive, complete, fail, retry | `WebhookJournal` |
| Webhook recovery CLI (`webhook-recovery-cli.js`) | the same events | retry (select, add a job, requeue), ignore | `WebhookJournal` |
| Workspace synchronization (`apps/worker/src/sync.js`, `hubspot.js`) | cursors, `crm_records`, queue jobs | full and incremental passes, scheduler, manual request | partly: `WorkspaceSync` (no associations, owners, pipelines, `sync_runs`, tokens) |
| Report cache (`report-cache*.js`, worker's `report-cache-events.js`) | in-memory entries and loads in flight, Redis messages | read, load, expire, invalidate | `ReportCache` |
| Background exports (`background-exports.js`) | `report_export_jobs`, queue jobs, an hourly counter | request, attempt, retry, stall, expire | `ReportExports`, abstractly `ExportLifecycle` |
| Scheduled reports and their e-mail (`scheduled-reports.js`, `email-delivery.js`) | schedules, executions | poll, edit, promote, claim, send, settle | `ScheduledDeliveries`, `NextRun` |
| Operational alerts (`operational-alerts.js`) | rules, events | claim due rules, evaluate, notify, test, edit | `OperationalAlerts` |
| Data SLA monitor (`data-sla-monitor.js`) | incidents keyed by the fingerprint of their breaches | evaluate, save, acknowledge, resolve | `DataSla` |
| Accounts, sessions, password recovery (`customer-auth.js`, `account-security.js`, `session-security.js`, `password-recovery.js`) | password, sessions, trusted devices, reset tokens | sign up, sign in, revoke, cap, forgot, reset | partly: `AccountSessions` (no verification of addresses, sign-in by HubSpot, rate limits) |
| New-device notices (`new-device-notifications.js`) | notices of sign-ins | discover, claim, mail, settle | `DeviceNotices` |
| Members and invitations (`customer-auth.js`, `customer-workspaces.js`) | roles, invitations | change a role, remove, leave, invite, accept, revoke | `WorkspaceMembers` |
| Billing and quotas (`billing.js`, `report-exports.js`) | subscription, usage of the month | trial, plans, cancellation, check and count of an export | `BillingQuota` |
| Connection, discovery and mapping (`server.js`, `hubspot.js`, `discovery.js`, `auto-mapping.js`, `semantic.js`, `mapping-wizard.js`) | OAuth states, tokens, discovery runs, suggestions, mappings and their versions | connect, refresh, discover, save, approve, restore | partly: `PortalMappings` (one field; scoring is a constant) |
| Retention budgets (`retention-budget.js`) | imports and their rows | upload, match, activate, delete, report | `RetentionBudget` |
| Saved views (`saved-views.js`) | views and the default of a user | create, update, duplicate, delete | `SavedViews` |
| Revenue, operating and object reports (`revenue-reporting.js`, `agreed-reporting*.js`, `object-reporting.js`, `extended-object-reporting.js`, `analytics*.js`) | none of their own | count, break down and list records | partly: `CrmRecords`, `RevenueReports`, `OperatingReports`, `ObjectReports`, `SdrDashboard` (which record is counted and listed; no sums, order, limits) |
| Dashboard page (`apps/web/components/sdr/CommandCenterV2.tsx`) | selection, answers shown | handlers that await several requests | `CommandCenter` |
| Files, preferences, readiness queries and other routes | single rows | format a file, write a preference, read | no: section 7 |
| Tenant integrity audit | none | read-only queries | no |
| Analytics maintenance | a Redis key per interval | `ANALYZE` | no: no other part reads its result |
| Other pages of the web application | none | pages and proxies | no: section 7 |
| Deployment, backup and monitoring scripts | lock file, timers | start the monitors and senders | no: they are the source of two assumptions, section 5 |

`PROJECT.json` lists the same components with their files.

### How they interact

* **Readiness chain.** An evaluation (a customer's or an administrator's
  request, or the hourly fleet evaluation) computes a report, and inserts a
  snapshot in a transaction that takes an advisory lock of the workspace. The
  hourly monitor reads the newest snapshot *before* it takes its own lock, and
  moves the incident. The hourly sender reads the incident twice, in two
  INSERTs that commit one after the other, and claims rows until nothing is
  due. Three processes, three timers, and two administrators' commands share
  these three tables; only foreign keys and `WHERE` clauses connect them.
* **Webhook chain.** A request journals a batch of events, one statement after
  the other without a transaction, archives deleted records at once, adds a
  BullMQ job whose id repeats within 30 seconds, and marks *all* received events
  of the workspace as queued. The worker claims the oldest events that are
  queued or failed, fetches each record once and settles the claimed events.
  The CLI requeues or ignores events while all of this goes on.
* **Synchronization and reports.** The scheduler and the API add jobs that one
  worker takes; a pass writes the mirror and its cursor, and the worker publishes
  an invalidation that drops the workspace's entries of every API process's cache,
  if it arrives. Reports read the mirror, through the mapping of the
  workspace; the dashboard page shows the answers of several requests at once.
* **Exports and their e-mail.** A user's request or a poll of the schedules inserts
  an export row, commits, and then adds a job; workers in every API process
  write the row, and the delivery loops read it, promote the execution it belongs
  to, claim it and send its artifact. Nothing but statuses in rows connects them.
* **A workspace's own tables.** Members, sessions, quotas, mappings, budgets, views
  and alert rules share no state with one another beyond the workspace's id. Their
  requests interleave only with requests of their own kind and with the timers
  of all API processes.

### Which behaviours are hard, and what is correct

The full list is `hazards` in `PROJECT.json`, each at its line. For each modelled
component:

* *Snapshots and incident.* Stale rows, transactions dated before they get the
  lock, operators between two monitor runs, pruning under foreign keys that
  restrict. Correct means: a regression is counted once; only a ready snapshot closes
  an incident; the incident never goes back to an older snapshot; what stays the
  newest regression is recorded by the next run that gets to the workspace.
* *Notifications.* Two senders, of which one is slow and its claim is taken
  over, one that dies, a provider whose answer is lost, an operator who
  requeues. Correct means: nothing is announced without a cause, what is
  delivered stays delivered, `last_notified_at` is not set for a message
  that was not delivered, and every due row is settled.
* *Webhooks.* Events delivered twice, late, or in the wrong order; requests that
  fail in the middle; runs that fail, abort or die; a CLI whose selection is
  old. Correct means: a completed event has reached the mirror, no event is
  forgotten by a run that lives, and settled events stay settled.
* *Synchronization.* The list that a pass pages through changes while it is read,
  failed types keep their cursors, workers die. Correct means: a full pass misses
  nothing that stayed, and the mirror catches up when the portal rests, as far as the
  page limit of a pass reaches.
* *Report cache.* Loads finish after the invalidation that should have dropped
  them, messages are lost, loads are shared. Correct means: an answer is not older
  than the time to live and one load; a dropped report is not stored again.
* *Exports and schedules.* An attempt whose lock is lost goes on beside the next
  one, jobs stall, rows expire, several processes poll with clocks that differ
  while the schedule is edited, two loops send one report. Correct means: an
  artifact stays until it expires, a finished job has decided its row (unless
  its last attempt could not even write that), an
  occurrence is exported once and not forgotten, and "delivered" is justified.
* *Requests that check and then write* (quotas, owners, default views, budgets,
  mappings, alert rules, SLA incidents, device notices, passwords). What was read
  is stale when it is used. Correct means: either the check still holds, or the
  overlap that broke it is exactly the one that the property names.
* *Reports.* A number, its breakdown and the list behind it come from different
  statements. Correct means: they count the same records.
* *Dashboard.* Answers arrive in any order. Correct means: what is shown belongs
  to what is selected.

## 2. Modules

| Module | Models | Extends or instantiates |
| --- | --- | --- |
| `IncidentLifecycle` | what the incident shows its readers: status, latest snapshot, counted regressions | |
| `ReadinessIncidents` | evaluators, snapshots, pruning, monitor runs, operator | implements `IncidentLifecycle` |
| `NotificationPromise` | what the notifications promise: owed, accepted, told | |
| `ReadinessDeliveries` | senders, claims, provider, requeue, *composed with* `IncidentLifecycle` | implements `NotificationPromise` |
| `WebhookJournal` | portal, requests, queue jobs, worker runs, CLI, mirror | |
| `ExportLifecycle` | what a row of `report_export_jobs` shows its readers | |
| `ReportExports` | requests, queue jobs, workers, locks, expiry | implements `ExportLifecycle` |
| `ScheduledDeliveries` | schedule, pollers, executions, delivery loops, *composed with* `ExportLifecycle` | |
| `NextRun` | `computeNextRun`, beside what the next run should be | |
| `WorkspaceSync` | portal, scheduler, queue, passes, cursors, mirror | |
| `ReportCache` | requests, entries, loads in flight, invalidations | |
| `BillingQuota`, `OperationalAlerts`, `AccountSessions`, `WorkspaceMembers`, `DeviceNotices`, `DataSla`, `PortalMappings`, `RetentionBudget`, `SavedViews` | the tables of a workspace or an account, and the requests and timers that write them | |
| `CommandCenter` | handlers, requests and answers of the dashboard page | |
| `CrmRecords` | a mirrored record as the reports read it | |
| `RevenueReports`, `OperatingReports`, `ObjectReports`, `SdrDashboard` | for each number, breakdown and list: whether a record is in it | `CrmRecords` |
| `Workspace` | the tables, the schedules and the reports of one workspace side by side | all of a workspace's modules, `NextRun` and the reports |
| `MCReadinessDeliveries`, `MCReports`, `MCSync`, `MCWorkspace` | symmetry, areas and samples for TLC | |
| `ReadinessIncidentsProofs`, `ReadinessDeliveriesProofs`, `WebhookJournalProofs` | theorems about the module they are named for | |
| `ReportsProofs` | theorems about `ReportExports`, `ScheduledDeliveries` and `MCReports` | |
| `SynchronizationProofs` | theorems about `WorkspaceSync`, `ReportCache` and `MCSync` | |
| `AccountProofs` | theorems about `AccountSessions`, `WorkspaceMembers` and `DeviceNotices` | |
| `WorkspaceProofs` | theorems about the tables of a workspace and the dashboard page | |
| `CompositionProofs` | theorems about `NextRun`, the reports and `Workspace` | `WorkspaceProofs`, `AccountProofs` by instance |

`ReadinessDeliveries` does not carry the evaluators and monitors of
`ReadinessIncidents`. It is composed with the life cycle that module is shown,
and for monitor runs that do not overlap proved, to implement: an incident that
may be moved at any time in any way the life cycle allows.

### ReadinessIncidents

| Action | Code |
| --- | --- |
| `WorkspaceChanges` | whatever changes the verdict of an evaluation |
| `EvaluateReadiness`, `BeginSnapshot`, `PersistReadinessSnapshot`, `EvaluatorFails` | `evaluateAndPersistReadiness`: the report before the transaction, `BEGIN` (which fixes `NOW()`, the default of `created_at`), the lock with the read and the insert, a rollback |
| `PruneReadinessSnapshots` | `pruneReadinessSnapshots` with `--apply`, aborted when a candidate is referenced |
| `LoadLatestSnapshot`, `PersistWorkspaceState` | `loadLatestSnapshots`, then per workspace a transaction under the lock: resolve, leave, or upsert the regression |
| `MonitorPassesOver`, `MonitorFails` | a run whose query leaves the workspace out (`ORDER BY created_at ASC LIMIT`), and one in which the transaction of this workspace, or of one before it, throws, which ends the loop |
| `AcknowledgeIncident`, `ResolveIncident` | `transitionReadinessRegressionIncident` |

A snapshot's identity is its `created_at`, counted in transactions that have
begun; a report is ready or blocked. `last_detected_at` always equals the
`created_at` of `latest_snapshot_id` and is not kept twice. `counted` is a
history variable: the snapshots that have added to `occurrences`; `reached` is
another: whether the last monitor run got to the workspace. One workspace
suffices, because locks, keys and transactions are per workspace. Two things
reach across the fleet: the monitor's LIMIT and loop, whose effect on one workspace
is `MonitorPassesOver` and `MonitorFails`, and the pruning, whose abort for other
workspaces' sake is a hazard with a note.

### ReadinessDeliveries

A run of `processReadinessNotifications` is a sender that goes through the
phases idle, recovered, enqueuing, claiming, claimed and accepted. Each phase
is left by the statement or transaction it is named for:
`RecoverStaleDeliveries`, `EnqueueRegression`, `EnqueueRecovery`,
`ClaimDelivery` (which fails a row of a workspace without recipients),
`SendAccepted` or `SendFails`, `CompleteDelivery` or `CompletionFails`,
`RunEnds`. `SenderDies` may come anywhere, and also stands for a statement that
fails before a claim, which ends the run. `RequeueReadinessDelivery` is the
dead-letter command. `next_attempt_at` and `claimed_at` are not kept: every row
that may be due may be chosen, and every claim may be found stale, also one
whose sender is only slow. That is more than the code allows at any one
moment, and no less.

### WebhookJournal

| Actions | Code |
| --- | --- |
| `PortalChanges` | HubSpot (external): a record is changed, restored, deleted or associated |
| `ReceiveBatch`, `JournalEvent`, `ArchiveOnArrival`, `AddJob`, `MarkQueued`, `NothingToQueue`, `RequestFails` | `queueWebhookSyncs`, statement by statement |
| `TakeJob`, `JobEnds` (in `RunEnds`) | BullMQ (external): active, attempts, retry |
| `ClaimWebhookEvents`, `ClaimFails`, `StartRun`, `StartFails` | `claimWebhookEvents` and what follows it outside the `try` |
| `ArchiveDeleted`, `FetchRecord`, `StoreAnswer`, `RecordFails` | one record of the loop |
| `CompleteEvents`, `FailEvents`, `CloseRun`, `RunAborts`, `WorkerDies` | settling, the handler of the run, a crash |
| `SelectRetry`, `RequeueSelection`, `IgnoreEvents` | the recovery CLI |

An event *is* the number of the portal's change it reports. A mirrored record is
the number of the change it shows and whether it is shown; an archived record
and a missing one look the same to every report. Not kept: the associations of a
record, `sync_runs`, `hubspot_connections`, unsupported object types,
`received_at` (any claimable events may be the oldest). Whether a portal is
connected is chosen per request. The job that a CLI retry adds is a
synchronization of the whole workspace, which does not read the journal.
`stranded` is a history variable: the events of runs that died, or failed where
no handler of theirs could settle them.

### ReportExports and ScheduledDeliveries

| Actions | Code |
| --- | --- |
| `RequestExport`, `RefuseExport`, `AddJob` | `POST .../exports`: the counter of the hour, the INSERT, `queue.add`, which may land without being answered |
| `TakeJob`, `CheckRow`, `MarkProcessing`, `StoreArtifact`, `FailAttempt`, `EndRun` | an attempt of `processBackgroundExportJob` and what BullMQ does with its result; the UPDATE that stores may land without being answered |
| `ThrowUnrecorded` | a statement that throws where nothing records it: the SELECT or the UPDATE before the `try`, or the UPDATE of the `catch` |
| `LoseLock`, `RecoverStalled`, `WorkerDies`, `ExpireArtifact` | a run that outlives its lock, the stalled check, a crash, the expiry of artifacts |
| `SelectDue`, `SkipSchedule`, `RunSchedule`, `AddExport`, `AddFails` | `runDueSchedules`: the select, the transaction of one schedule, `queue.add` after COMMIT |
| `PatchSchedule`, `DeleteSchedule`, `TimePasses` | the owner's requests, the clock |
| `PromoteCompletedExports`, `ClaimExecution`, `SendAccepted`, `SendFails`, `CannotSend`, `CompleteDelivery`, `NoteSuccess`, `CompletionFails`, `FailDelivery` | a tick of the delivery loop, statement by statement |

A worker runs one job and carries what it read of it. Status updates are as
unconditional as in the code, so an overtaken run writes beside its successor.
`unwritten` is a history variable: the rows whose last attempt threw unrecorded.
`ScheduledDeliveries` has `ExportLifecycle`'s rows instead of jobs and workers:
they may move in any way that `ReportExports` is proved to implement. Time is
counted in occurrences; the clock of a process may be behind by `Skew`.
`next_delivery_attempt_at` is not kept, as any row may be due.

### WorkspaceSync and ReportCache

A record is the stamp of its last modification, a page is asked for by offset (incremental)
or by the last id (full), a cursor is the newest stamp seen less an overlap. `BeginType`,
`FetchPage`, `PersistPage`, `UpdateCursor` and `EndRun` are a run; `TypeFails` is a failed
request, which ends the pass of its type and goes on with the next (the run then fails as a
whole and is tried again, unless the type was skipped); `PersistPage` fails a type in the
same way when the pass has reached `PageLimit` and there is more; `WorkerDies` leaves a row of
`sync_runs` behind. `ReportCache` runs `execute` up to its first await in `Request`, reads
the database in `LoaderReads`, and settles in `LoadSucceeds` or `LoadFails`. A report is the
version of the data it was computed from; `overtaken` marks one whose load ran when an
invalidation arrived. The order of insertion in the JavaScript `Map` of entries is the
`seat` of each entry, counted from 1; eviction takes the lowest seats.

### A workspace's tables

Each module has one action per statement, or per transaction where the
statements of one cannot be seen apart; a request keeps what it has read in its
own record until it uses it. Abstractions worth knowing: a password is the number of times one was set
(`AccountSessions`); the metric of a rule breaches or does not (`OperationalAlerts`);
an SLA evaluation finds a set of breaches (`DataSla`); one semantic field, two
portals (`PortalMappings`); a line of a budget file is a key and a value
(`RetentionBudget`), merged line by line as `validateRetentionRows` does, and matched in
the four statements of `matchImport`, between which the mirror, other uploads and
activations may move; sessions are
ordered by the place of their `last_seen_at` (`AccountSessions`); a view is its name and whether it is the default, and
transactions wait for the row locks and unique indexes of PostgreSQL (`SavedViews`);
statuses that only a payment provider would set are never set, because no code sets
them (`BillingQuota`). In `DeviceNotices` the INSERT of the event
`login.new_device_notified` is always refused, because the CHECK constraint of
`account-security.js` does not list that action.

### Reports

The SQL of a report is translated into conditions on *one* record and its
associated records: counted, in this segment, listed. Two statements agree on a
database if they agree on every record, so no set of records is needed. `NULL` is
`None`, and a condition that SQL leaves null is not satisfied; in `SdrDashboard` a
compiled rule is true, false or null, and `"error"` when it names a field that is not mapped. Texts such as
`hs_is_closed` are taken in lower case, as HubSpot writes them, although some statements apply `LOWER` and the compiled
rules do not. A query to which a value is
given that it does not use has no answer, as PostgreSQL refuses it (`Answered` in
`CrmRecords`). In `OperatingReports` that concerns the queries of a mapped lead quality and of a
mapped renewal date, which `buildOperatingReports` awaits with all others, so the whole pack
has no answer (`OperatingPack`), and the list of late renewals (`OperatingQuery`); a list whose
mapping is missing is answered 409 (`Required`).

## 3. Runs

| Run | Question | Answer |
| --- | --- | --- |
| `incidents` | Does the incident count, close and move as its readers rely on, and is a regression that stays newest recorded by a run that gets to it? | yes |
| `deliveries` | Do two senders keep the promise over an incident that moves under them? | yes |
| `deliveries_settle` | Does every due notification end delivered or with its attempts used up? | yes |
| `webhooks` | Are completed events mirrored, none forgotten by a live run, settled ones left alone? | yes |
| `reports` | Do export jobs keep their life cycle and settle, but for a last attempt that throws unrecorded; is each occurrence exported once, none forgotten, and its mail justified? | yes |
| `sync` | Does a full pass miss nothing, does the mirror catch up within the page limit, and is the cache no staler than it says? | yes |
| `workspace` | Do the tables of a workspace keep what they promise under interleaved requests, do next runs and reports agree with their definitions, and does the page show what is selected? | yes |
| `stale_claims` | Is every claim left in `sending` recovered? | no |
| `history_order` | Is the history of snapshots in the order of their transitions? | no |
| `overlapping_monitors` | Is a regression counted once when monitor runs overlap? | no |
| `stranded_events` | Does every claimed event leave `processing`? | no |
| `acknowledged_events` | Are the events of an acknowledged batch queued? | no |

### Bounds, and why they are enough

* `incidents`: two evaluators, one monitor, four snapshot transactions,
  pruning that keeps one. Two regressions need four snapshots (ready, blocked,
  ready, blocked), so counting, reopening and a stale row between two
  regressions all happen; two evaluators give every order of begin and insert.
  Runs may pass the workspace over, or fail before it, any number of times.
* `deliveries`: two senders, two snapshots, two attempts, one death. Two
  attempts make a claim that is taken over and one that is the last; two
  snapshots give a regression with its recovery, and a second regression
  after a delivered one. The senders are interchangeable and the properties are
  safety properties, so the senders are a symmetry set. Manual requeues are left
  to the next run.
* `deliveries_settle`: one snapshot, two senders, one death, one manual requeue.
  The rows of different snapshots share nothing but the turns of a claim, which
  the fairness of each key covers.
* `webhooks`: one record, two changes, one request at a time, two
  30-second windows, a job tried twice, one use of the CLI and one fault.
  Events of different records meet only in the limit of a claim and in one
  record's failure beside another's success; `ClaimLimit` is 2, so it does not
  bite (in `stranded_events` it is 1). The actions are `changed` and `deleted`:
  `association_changed` only changes the name of the job, and the worker handles
  it like a change. Requests fail and are delivered again, so a second request
  at the same time adds the same statements in other orders; the proofs cover
  any number of them.
* `MaxFaults` is at most 2 because BullMQ gives a job up after it has stalled
  more often than `maxStalledCount`, and giving up is not modelled.

* `reports`: three areas, explored one at a time, since an export job and a
  schedule meet only in the row that `ExportLifecycle` describes. *Exports*: two requests, two workers, two
  attempts, one stall allowed, two deaths, one run that outlives its lock: enough
  for an attempt overtaken by its successor, a last attempt that dies, and a job
  that stalls out. *Polling*: two pollers, three exports, two occurrences, a clock
  behind by one, daily and two-daily schedules, one edit, one crash. *Sending*: one
  occurrence, one poller (with two, the executions are the same rows), two loops, two attempts, one
  edit, one crash.
* `sync`: two parts that share no variable. *Sync*: three records with pages of
  one, so that a record can move between pages, and two pages to a pass, so that
  passes also meet the limit; three stamps, and an overlap of
  one; one disturbance (a deletion, a failed request, a crash or a manual
  request) at every possible moment. That a type falls due for a full pass is
  considered between runs only (`DueBetweenRuns`): a pass reads it once, at its
  beginning. *Cache*: three requests, two keys in a cache of one entry, two units to
  live, three of time, one change of the data.
* `workspace`: twelve areas that share no state, explored one at a time: the sum of
  their states rather than the product. Every area has two actors for each kind of
  request that can race (three users for roles and invitations, two portals with two OAuth flows,
  two discoveries and one saver for mappings), and the limit that can be met is met:
  quotas of one and two exports for two exporters, a session cap of one, two attempts
  of a notice, three suggestions. Flows and discoveries begin in the order of
  their names (`InTurn`), as they differ in nothing else. `next run` and `reports`
  have one state per sample: zones on both sides of UTC whose summer time begins
  and ends at any hour around midnight and at noon, local hours around midnight, and
  months of five days so that an occurrence lies in another month; records around the
  edges of the period, of the month and of the ageing limits, with every property that a
  condition reads present and missing, under workspaces with and without an approved
  lead quality and renewal date. The run takes two to three minutes.

`CHECK_DEADLOCK FALSE` stands where a system may really stop under its bounds: in
`reports`, `sync` and `workspace`, where requests, faults and time run out; in
`stale_claims`, where all senders may be done, and in `stranded_events`,
where nothing is left to do after the event is stranded. The violated runs use
the smallest bounds that show the disagreement.

### What the violated runs show

* `history_order` (`onboarding-readiness.js:218`). `created_at` is the start of
  the transaction and the lock is taken afterwards. The evaluation that began
  second may insert first, and the other one's `previous_ready` is the verdict
  of a later row. `docs/ONBOARDING_READINESS_HISTORY.md:30` says the lock prevents it.
* `overlapping_monitors` (`readiness-regression-monitor.js:147`). The upsert
  compares only with the last recorded snapshot. One monitor writes a newer
  regression, one that loaded earlier writes an older one over it, a third run
  counts the newer one again. `docs/READINESS_INCIDENT_IDEMPOTENCY.md:3` and `:25` say
  a snapshot counts at most once, also from overlapping hosts.
* `stale_claims` (`readiness-regression-notifications.js:87`). The claim counts
  the attempt, the recovery wants attempts left: a crash in the last attempt
  leaves the row in `sending`, where no command finds it.
  `docs/READINESS_REGRESSION_NOTIFICATIONS.md:12` says such claims are recovered.
* `stranded_events` (`targeted-sync.js:217`). An error between the claim and the
  `try` leaves the events in `processing`, and neither a later run nor the CLI
  takes them. `docs/TARGETED_WEBHOOK_SYNC.md:15` says failed events stay retryable.
* `acknowledged_events` (`sync-operations-base.js:325`). A batch that fails
  after the INSERT and before `queue.add` is only a set of duplicates when it is
  delivered again: it is answered 204 with its events still `received`.
  `docs/HUBSPOT_WEBHOOKS.md:38` says 204 means journaled and queued.

Smaller observations that no run claims are among the hazards with a note: a
retry of the CLI may queue events that were completed after it selected them; a
regression followed by a second blocked snapshot before the monitor runs is never
recorded; a job id that is still known swallows a wake-up; a record deleted and
restored in one batch stays archived. One more was met and is not modelled:
`readiness-delivery-dead-letter.js:57-59` selects `i.score`, `i.blockers` and
`i.warnings`, columns that the schema of incidents
(`readiness-regression-monitor.js:33-67`) does not create.

## 4. Properties

Every module has one type invariant. The others:

* `OccurrencesCountRegressions` – `occurrences` is the number of distinct
  regressions counted, and each of them is still a row.
* `SystemResolutionIsReady` – what the monitor resolved points at a ready
  snapshot that exists, also with stale rows and pruning.
* `ImplementsLifecycle` – `ReadinessIncidents` refines `IncidentLifecycle`:
  `latest` never goes back, a regression is newer than all that was recorded, only
  a regression reopens.
* `LatestRegressionIsRecorded` – a regression leads to its record, to a newer
  snapshot, or to monitor runs that from then on never get to the workspace.
* `NotificationsHaveCause`, `NotifiedMeansDelivered`, `DeliveredIsFinal` – relate
  rows, the incident and `last_notified_at` over retries and late answers.
* `KeepsPromise` – `ReadinessDeliveries` refines `NotificationPromise`: recorded
  once, handed over only while recorded and not told, told only what was
  accepted.
* `DeliveriesSettle` – every due row is settled.
* `CompletedIsMirrored`, `ProcessingIsHeld`, `SettledIsFinal` – see section 1.

`CompletedIsMirrored` leaves records alone that exist again after a deletion:
coalescing decides for the deletion, and an archive on arrival may come after the
restored record was stored. It is checked and proved for one worker; with two, their
fetches may be stored in opposite orders, as nothing guards the version.

Exports and schedules:

* `FinishedIsDecided` – attempts are counted in the row and by the queue: a job the
  queue is done with has a decided row, unless it stalled out, a run outlived its
  lock, or its last attempt threw where nothing records it.
* `ImplementsExportLifecycle` – the row refines `ExportLifecycle`: an artifact
  stays until it expires, an expired row is never written again.
* `ExportsSettle` – every job in the queue gets its row decided, stalls out, or ends with
  such a throw.
* `OneExportPerOccurrence`, `OccurrencesRun` – an occurrence is exported once,
  whatever overlaps, and is not forgotten while the schedule is left alone.
* `DeliveriesAreJustified` – relates an execution to its export and to what
  the provider accepted, and bounds the messages.

Synchronization and cache:

* `FullPassIsComplete` – see section 1.
* `MirrorCatchesUp` – of each type, the records that the pages of one full pass can hold
  are in the end mirrored as they are, also when every pass of a type throws at its
  limit.
* `StalenessIsBounded`, `InvalidationSticks` – an answer is never older than its
  time to live and one load; a dropped report returns only by a load that was
  running when the invalidation arrived.

A workspace:

* `OvershootIsBounded` – the month exceeds the highest limit the workspace
  had by less than the number of clients that export at once.
* `BreachIsReported` – a rule that shows a breach has told of it, unless two
  evaluations met or one was cut short.
* `SessionsFollowPassword` – a session of an older password belongs to a login
  that had verified it before the change; every later password was set with a token of
  its own.
* `OwnerlessOnlyByRace` – the last owner is lost only by two overlapping requests.
* `NoticesAreBounded` – messages about a sign-in never exceed the attempts,
  and the first sign-in has none, with loops that overlap and die.
* `LastVerdictStands` – the incidents follow the snapshot that was saved last.
* `ApprovedIsMapped` – a suggestion shown as approved is the mapping in use, whatever
  order a discovery, a save and a rollback commit in.
* `BudgetStands` – at most one active budget, one once there was one (with the
  one exception it names), no line of a file lost or counted twice, and matched and
  unmatched accounts of a report that make up all of them, unless the import was activated
  before its matches were counted.
* `DefaultStands` – the default view is the one chosen last; no request that
  fails or races leaves two or none.
* `NextRunsAreRight`, `ReportsAgree` – the code's computations against their
  definitions: the next run is later than now, at the hour that the wall clock
  of the zone shows unless summer time skips it, and leaves no run of the frequency out;
  a number that is answered agrees with the list and the breakdown behind it, and of the lists
  that need a mapping, the priority list is part of the untouched contacts, no renewal is both upcoming and
  delayed, and none that is not won is missing from all lists.
* `PageIsOfSelection` – once nothing is awaited, the page shows what is selected,
  with the overlaps it names.

Several of these name exceptions. Each exception is a behaviour the code
really has, found by TLC when the property was stated without it, and is described
in section 7.

For each property of a passing run `PROJECT.json` names a plausible bug (a lost
guard, a wrong status, an off-by-one) that makes it fail. Those variants stand
next to the definition they change, under "Faulty variant", and are used by
nothing else.

## 5. Assumptions and fairness

* **One monitor at a time** (`OneMonitor` in the proofs, `Monitors = {m1}` in
  `incidents`). `scripts/run-ops-monitoring-check.sh:48-53` takes a lock file,
  so the runs that the timers of one host start do not overlap. Runs started by
  hand or on another host are not covered; `overlapping_monitors` shows
  what happens then.
* **One worker** (`OneWorker`, `Workers = {w1}`). The queue's worker has
  concurrency 1 (`apps/worker/src/worker.js:128`) and the deployment has one
  replica. `HeldCorrect` does not need it; `SettledCorrect` and
  `MirroredCorrect` do.
* **Monitor fairness.** A timer starts the monitor every hour
  (`scripts/install-ops-monitoring.sh`) and a run ends: weak fairness of loading the
  workspace *or* passing it over, and of persisting *or* failing. That a run ever gets to the
  workspace is not assumed, since neither LIMIT nor the loop guarantees it. Nothing is
  assumed of evaluators, operators or pruning.
* **Sender fairness.** A sender does not stop between two steps for ever, because
  the timer starts it again and calls to the provider have a timeout. A claim
  that stays in `sending` becomes old enough for some run, and a due row gets its
  turn, since the claim orders by `next_attempt_at`: strong fairness of recovery
  and of the claim of each key.
* **Worker fairness** (only in `stranded_events`): weak fairness of a worker's
  steps, whose calls to HubSpot and to the database have timeouts. A failure of
  a start is never forced; TLC's counterexample takes it by choice, as the code may.
* **Export fairness**: weak fairness of every worker's steps and of the stalled
  check, which BullMQ runs every 30 seconds; strong fairness of taking each
  job, since a queue hands out its jobs in order and a retry may be waiting when a
  worker is free, again and again. Deaths and lost locks are not fair and bounded.
* **Poller fairness**: weak fairness of a poll's steps; the timer polls every 60
  seconds. Nothing is assumed of the delivery loops, the clock or the owner:
  `OccurrencesRun` starts from an occurrence that is due.
* **Synchronization fairness**: the interval passes, a type falls due for a full
  pass, the scheduler looks (every five minutes) and a run goes on: weak. A waiting
  job is taken: strong for each name, because the worker may be busy with another one
  when it looks.
* **One synchronization at a time** in `WorkspaceSync`: the worker's concurrency is 1, as above.
* **PostgreSQL** is read committed with row locks; a statement is atomic.

## 6. Proofs

TLAPS checks these for every value of the constants that the named assumptions
allow: any number of evaluators, senders, requests, records and events.

| Theorem | States | Assumes |
| --- | --- | --- |
| `ReadinessIncidentsProofs!TypeCorrect` | `TypeOK` | |
| `SystemResolution` | `SystemResolutionIsReady` | nothing about monitors: they may overlap |
| `OccurrencesCorrect` | `OccurrencesCountRegressions` | `OneMonitor` |
| `LifecycleCorrect` | `ImplementsLifecycle` | `OneMonitor` |
| `ReadinessDeliveriesProofs!DeliveryTypeCorrect` | `DeliveryTypeOK` | |
| `CauseCorrect`, `NotifiedCorrect` | `NotificationsHaveCause`, `NotifiedMeansDelivered` | |
| `DeliveredIsFinalCorrect` | `DeliveredIsFinal` | |
| `PromiseKept` | `KeepsPromise` | |
| `WebhookJournalProofs!TypeCorrect` | `TypeOK`, and that only events that have happened are held | |
| `HeldCorrect` | `ProcessingIsHeld` | any number of workers |
| `SettledCorrect` | `SettledIsFinal` | `OneWorker` |
| `MirroredCorrect` | `CompletedIsMirrored` | `OneWorker` |
| `ReportsProofs!ExportTypeCorrect`, `ScheduleTypeCorrect`, `ReportsTypeCorrect` | the types, together `ReportsTypeOK` | |
| `FinishedDecidedCorrect` | `FinishedIsDecided` | |
| `LifecycleImplemented` | `ImplementsExportLifecycle` | |
| `OneExportCorrect` | `OneExportPerOccurrence` | |
| `DeliveriesCorrect` | `DeliveriesAreJustified` | |
| `SynchronizationProofs!SyncTypeCorrect`, `CacheTypeCorrect`, `SyncPartsTypeCorrect` | the types, together `SyncPartsTypeOK` | |
| `FullPassCorrect` | `FullPassIsComplete` | |
| `StalenessCorrect`, `InvalidationCorrect` | `StalenessIsBounded`, `InvalidationSticks` | |
| `AccountProofs!SessionsTypeCorrect`, `MembersTypeCorrect`, `NoticesTypeCorrect` | the types | |
| `PasswordCorrect` | `SessionsFollowPassword` | |
| `OwnerlessCorrect` | `OwnerlessOnlyByRace` | |
| `NoticesBoundedCorrect` | `NoticesAreBounded` | |
| `WorkspaceProofs!BillingTypeCorrect`, `SlaTypeCorrect`, `AlertTypeCorrect`, `PortalTypeCorrect`, `BudgetTypeCorrect`, `ViewsTypeCorrect`, `PageTypeCorrect` | the types | |
| `OvershootCorrect` | `OvershootIsBounded` | |
| `LastVerdictCorrect` | `LastVerdictStands` | |
| `BreachCorrect` | `BreachIsReported` | |
| `ApprovedCorrect` | `ApprovedIsMapped` | |
| `BudgetCorrect` | `BudgetStands` | |
| `DefaultCorrect` | `DefaultStands` | |
| `PageCorrect` | `PageIsOfSelection` | |
| `CompositionProofs!NextRunCorrect`, `NextRunsCorrect` | `NextRunIsRight` for every query, `NextRunsAreRight` | |
| `ReportsAgreeOnRecord`, `ReportsAgreeCorrect` | the agreement on any one record, `ReportsAgree` | |
| `WorkspaceTypeCorrect`, `WorkspaceCorrect` | `WorkspaceTypeOK`; what is proved of each component, in the workspace that composes them | |

Besides `OneMonitor` and `OneWorker`, which section 5 explains, the theorems rest only
on the assumptions that the modules state about their constants: which sets are finite,
which are numbers, and that a value that stands for "none" is not one of the others. With
them every safety property of a passing run is proved.

The arguments:

* **Incidents.** `OccurrencesCountRegressions` is not inductive: the upsert
  compares only with `latest`, so one has to know that a loaded row is not older
  than what is recorded. `HistoryInv` says so: rows have begun
  (`RowsHaveBegun`), the snapshot recorded last still exists (`LatestExists`,
  because pruning is refused for it), a loaded row is not older than `latest`
  (`LoadedIsNotOlder`, which is where one monitor is used), and what was counted
  is not newer than `latest` (`CountedIsPast`). A regression that is written is
  then new, and cardinality grows by one. The same invariant maps each step to
  a step or a stutter of `IncidentLifecycle`.
* **Deliveries.** The invariants relate a sender's phase to its key, a row's
  status to what was accepted, and recorded keys to the life cycle's history.
  `DeliveredIsFinal` rests on `WHERE status='sending'` in completion and failure
  and on `Due`, `Recoverable` and the requeue never choosing a delivered row.
  Each sender step then maps to `Owe`, `Accept`, `Tell` or a stutter.
* **Webhooks.** `ProcessingIsHeld` needs to know what a run still has to settle.
  `HeldInv` fits a run's data to its phase (`PhasesFit`: nothing failed that was
  not claimed, no answer outside the loop) and says that an event in processing
  is owed by some run or stranded (`ProcessingIsOwed`; after the first UPDATE only
  the failed events are owed). For `SettledIsFinal`, `OpenInv` adds the converse:
  what a run owes is processing, or queued by a retry (`HeldAreOpen`), so that the
  UPDATEs by id, which do not look at the status, meet only events that are not
  settled unless the CLI had selected them. Two workers could break that.
  `CompletedIsMirrored` needs the events on their way. `MirrorInv` says that an answer
  which waits to be stored is not older than the mirror, than what was completed of its
  record, and than the events of its own run (`AnswersAreNewest`: they happened before
  the fetch); that what a run has worked off is mirrored before it is completed
  (`WorkedOffIsMirrored`); and that nothing is archived without a deletion
  (`MirrorIsPast`). A second worker would falsify `AnswersAreNewest`.
* **Exports.** `FinishedIsDecided` compares two counts of attempts, the row's and the
  queue's. `ExportInv` ties a worker's run to its job (`RunInOrder`), says what a
  run will still write or has written (`RunDecides`), that a job that nobody has
  overtaken has one holder (`OneHolder`), and that a job exists only after its
  request has inserted the row (`RequestInOrder`); a run of the last attempt that threw has written
  `failed` or is among the `unwritten`. The shape of the rows is all that
  the refinement needs: each write is `Start`, `Store` or `Fail` of a live row,
  `Expire`, or a stutter.
* **Schedules.** `ExportsAreRecorded` says that while a schedule exists the occurrence
  of every export has its row in `scheduled_report_executions`, so the unique index refuses a second export.
  For the e-mail, `SendsAreCounted` counts the messages of an occurrence
  together with the loops that hold its claim, against the attempts of the row: a claim adds
  one to both, a message moves one. `SendersAreJustified` and `RowsAreJustified` carry
  the artifact from the export to the row and to the loop.
* **Synchronization.** `FullPassFits` says what a full pass has done so far: of the records
  up to the last id it has asked for, each that is as it was when the pass began
  is in the mirror or in the page in hand. A search answers in the order of ids and leaves
  no record out before its last one, so a page that is stored moves the bound.
* **Cache.** `ReportFits` says of an entry how old its value may be in terms of its
  expiry, and that it is not older than the invalidation that arrived last unless its load
  was overtaken; `LoadsFit` says the same of a load that has read. A request that
  waits for another's load has asked within its duration (`WaitsFit`).
* **Sessions.** A login that has verified a password, or holds a session, has the
  password in force or was under way when another was set (`SignInsFit`); the
  deletion of all sessions in the transaction of a reset is what preserves it. `SpentFits`
  says that a token that set a password is consumed, and none did so twice.
* **Quota.** `QuotaInv` adds that the current plan is among those the workspace
  has had and that months to come have no usage. An export joins those in flight
  only when the usage is below the current limit; recording moves one from in flight to
  used, so the sum does not grow.
* **Members.** `CheckStands` says that while nothing raced, the owner count that a request
  has read is still true when it writes; a pending invitation is for someone
  who is not a member, so accepting cannot demote an owner.
* **Notices.** `NoticesInv` counts the messages of a sign-in together with the loops
  that are about to send one: `mails[n] + Cardinality(Announcing(n)) <= attempts`. A
  claim adds one to both sides, sending moves one on the left.
* **Data SLA.** `SavingSeesActive`: a run that is saving its snapshot and was not
  overtaken has seen every active incident, so resolving what it saw leaves none.

* **Alerts.** Without overlap or abort there is one evaluation (`OneEvaluation`) and the state
  it compares with is the rule's (`EvaluationFits`); between the event and the UPDATE of
  the rule the two may differ, which `BreachIsTold` excepts.
* **Mappings.** Saves of a field lock its row (`OneWriter`), and the one that writes reaches every
  suggestion that is approved (`WriterReachesApproved`).
* **Budget.** `MergeIsExact` is about every file. The merge of the first n lines is exact, and
  one more line keeps it so (`LineKeepsMerge`): it is rejected, opens a row or
  joins one. `UploadsApart` says that an import is matched by one upload only, so its four statements run
  once each; `UploadFits` that an upload on its way to the counter has not written it and
  remembers the number of rows its status statement matched; `ImportFits` that a counter which
  was written is the number of matched rows, and that an active import has its counter or was
  activated `early`. `AnswerFits` carries it to the two reads of a report.
* **Views.** The unique indexes and the row locks of PostgreSQL become `WrittenFits`,
  `WrittenApart` and `OneHolder`: what a transaction has written but not committed would keep the
  indexes if it committed next.
* **Page.** `CountsFit` bounds the versions by the clicks; `ReportFits`, `OperatingFits` and
  `PreferencesFit` say that the call with the latest version, if it is still under way, is of the selection,
  and otherwise what is shown is.
* **Next run.** Whether a candidate fits is decided by the offset at the candidate, and two
  candidates that fit are at least 23 hours apart; one of the next days of the
  schedule always fits. `TheHourIsShown`: the second look at the offset goes wrong
  only at the hour that summer time skips.
* **Reports.** For every number, table and list the set of its members among the
  values a record can take is characterised; the lemmas `...Listed` compare the
  characterisations, and `OneOrNone` turns membership into the counts that add up. Where a request may
  be refused, `AnsweredIsResult` says that an answer is the set of the numbers and no other.
* **Workspace.** A step of `Workspace` is a step of each component or leaves its
  variables unchanged (`WorkspaceSteps`), so its behaviours are behaviours of each
  component and their theorems hold of it.

What recursive functions compute is proved by the least counterexample: the set of
places where the claim fails has a least member (`LeastNumber`, from the well-foundedness of `<`),
and the step from the place before contradicts it.

**Only model-checked** are the liveness properties (`LatestRegressionIsRecorded`,
`DeliveriesSettle`, `ExportsSettle`, `OccurrencesRun`, `MirrorCatchesUp`): they rest on
fairness and `ENABLED`, which the prover does not treat. What the violated runs refute is shown
by TLC's counterexamples alone.

## 7. What is not modelled, and what was observed

### Not modelled

* Of modelled components: associations, owners and pipelines of a
  synchronization, rows of `sync_runs`; the scoring of properties and the values
  of a mapping; sums, rates, orders and limits of reports; verification of
  addresses, sign-in by HubSpot, rate limits; quotas other than exports, which
  are checked the same way.
* Formatting of files (`xlsx-export.js`, `pdf-export.js`), preferences (one row, the
  last writer wins), read-only queries (readiness routes, the tenant integrity audit).
* Analytics maintenance: `ANALYZE` under a Redis key; no part reads a result.
* The other pages of the web application: they load as the command centre does,
  with one request and fewer guards, or only render.
* Deployment, backup and monitoring scripts: shell; two assumptions come from them.

### Observations

Behaviours met while modelling. The models contain them, or leave them out as said, and
the properties name those they must except. No run claims them, mostly because no
document promises otherwise.

*Monitor.* The fleet query takes the workspaces whose newest snapshot is oldest
(`readiness-regression-monitor.js:86-87`; 500 by default, `run-ops-monitoring-check.sh:18`; the
examples of `docs/READINESS_REGRESSION_INCIDENTS.md:19` use 200), so beyond the limit those evaluated last
are left out. A workspace whose transaction throws ends the run for all that follow it.

*Exports and e-mail.* A crash between COMMIT and `queue.add`, or an export that expires
before it is promoted, leaves an execution in `exporting`. A crash on the last
attempt leaves it in `ready_for_delivery` with its attempts used up. The scheduled queue
sets no `defaultJobOptions`. If the second UPDATE of `completeDelivery` fails, the delivered execution
is written as failed and sent again. An export whose last attempt throws before the `try` or in the UPDATE of the
`catch` (`background-exports.js:146`, `:159`, `:195`) stays `queued` or `processing` with its job gone. PATCH of a schedule does not check the
ownership of its view.

*Alerts and quotas.* An alert whose mail fails is not tried again and is then suppressed by
its cooldown; overlapping evaluations lose recoveries. `cancel_at_period_end` is stored
and never acted on. The limit of workspaces can be exceeded in the way of the exports'.

*Synchronization.* A full pass with more pages than `maxPagesPerRun` stores what it has read and throws
(`sync.js:299`); its cursor does not move, so every later full pass ends there too, and so does
an incremental one after 100 pages (`:348`). `docs/CRM_SYNC.md:103` says that such searches must fall back to a full
reconciliation: the code asks for one in the message and waits until one is due. The incremental cursor can pass a record that moved
between two pages; only a full pass repairs it. `MAX(last_success_at)` hides a
type that keeps failing; a 401 counts as skipped. A full pass never archives a record that HubSpot
deleted: `docs/HUBSPOT_WEBHOOKS.md:65` and `docs/CRM_SYNC.md:102` differ about it.
After a crash a row of `sync_runs` stays `running`, and `POST /sync` is refused.
`clearWorkspace` leaves loads in flight. The lock of the analytics maintenance is kept after a crash.

*Accounts and members.* A login that verified the old password before a reset inserts its
session after it. Two requests for a reset leave two live tokens. The session
cap is a SELECT and then a DELETE. Two requests may each see the other's owner and
both leave. An invitation may be accepted while it is being revoked.

*Notices and SLA.* Because its event is refused, a device notice that was mailed is taken
for failed and mailed again, up to five times. An older SLA incident stays active until the
workspace is healthy again; a run that loaded early may save over a later one.

*Mapping, budgets, views.* An approval by an administrator and automatic mapping write no version. Two
discoveries at once end in a unique violation (23505) and a connection in `error`; a
refresh that overlaps a reconnection overwrites its tokens; a crash leaves a
discovery `running`; a rejected suggestion comes back. A budget import that is deleted between
its insertion and its activation leaves no active budget and an answer 500; two
activations may deadlock; matches are not refreshed when the mirror moves. The four statements of
`matchImport` (`retention-budget.js:279`, `:291`, `:309`, `:320`) commit one by one: an import that is activated
before the last, by a manager or after the upload broke off, is reported with its rows
no longer unmatched and none matched. The loser of two
requests for a default view gets 23505, answered as "name exists".

*Reports.* Queries that pass a value no expression uses are refused by PostgreSQL. Once a lead quality is mapped,
`agreed-reporting-core.js:525-533` has 12 values and uses 10; once a renewal date is, `:661-697` has 13 and uses 12 in the
first query and leaves `$11` and `$12` out of the second: either mapping leaves the whole pack without an answer. The list of
late renewals (`:897-921`) leaves `$10` and `$11` out; `object-reporting.js:471` has 4 values and uses
`$1` and `$4`. A call without a disposition whose `hs_call_status` says connected is listed (`agreed-reporting-core.js:793`) and
not counted (`agreed-reporting.js:174`). Object drilldowns and exports of some
keys ignore the period. Cards of the operating reports open drilldowns that follow outgoing
associations only; "Deals at risk" opens the list of deals without a next activity; outcomes are
mapped in the number and raw in the list; `cleanDimension` trims keys; owner performance joins
by `owner_id` or `user_id`; the priority list has no unique order; the funnel's steps
count archived contacts; the open pipeline leaves out deals whose `hs_is_closed` is missing.

*Dashboard.* A handler that waits for views or workspaces numbers its report request only
afterwards; a report that is dropped still starts the operating reports and
preferences; `loadDrilldown` here, in `AgreedReportsPanel` and in `RevenueCommandCenter` numbers
nothing; a failed request for preferences keeps those of another workspace; `deleteView`
ignores a refusal; `ObjectIntelligenceWorkspace` does not abort a list when the workspace changes.
`docs/DASHBOARD_CATALOG.md:32` speaks of the cancellation of stale requests.

### What is left of the plan

1. Action properties of the workspace's tables, such as what a session or an import may never
   become again, stated, checked and proved from the invariants of section 6.
2. `WorkspaceSync`: associations, archiving and `sync_runs`, and its composition with
   the mirror of `WebhookJournal`.
3. A run whose properties follow a token through refreshes by the API and the worker at
   once, which needs assumptions about HubSpot's rotation of refresh tokens.
4. Registration, verification of addresses and sign-in by HubSpot in `AccountSessions`.

## 8. Running it

    tlc -workers 2 -config MCReadinessIncidents.cfg ReadinessIncidents.tla
    tlc -workers 2 -config MCReports.cfg MCReports.tla
    tlapm ReportsProofs.tla

The largest run, `workspace`, takes one to two minutes, and the longest proof,
`CompositionProofs`, three. `PROJECT.json` lists every
run with its module and configuration, every faulty
variant, every theorem, and for each definition the lines of the source it models.
