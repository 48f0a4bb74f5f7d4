# Verification of Sunsethue Helper

TLA+ models of the parts of Sunsethue Helper where several actors meet on shared
state, or where one actor may stop halfway: the Worker, its web page and the scripts
that deploy it. They are model-checked with TLC on small instances, with theorems
checked by TLAPS for every value of the constants. Paths of the form `worker/...` are relative to
the repository.

Contents: [the system](#the-system), [modules](#modules-and-the-code-they-model),
[runs](#runs), [bounds](#bounds), [fairness](#fairness), [proofs](#proofs),
[findings](#findings), [what is not modelled](#what-is-not-modelled),
[plan](#plan), [how to run](#how-to-run).

## The system

A Cloudflare Worker (`worker/`) answers the owner's `/api/*` requests and runs
once an hour as a cron. Its state is one D1 (SQLite) database and a few
documents in Cloudflare Secrets Store. A Pages Function (`functions/api`) proxies
the browser's requests to it through a service binding, and a second Worker,
credential-admin, holds the token that may write Secrets Store and is called by
RPC. There is one owner, but nothing makes requests, crons and RPCs exclude each
other: each `await` is a point where another invocation may run or where this one
may end, and only a single D1 statement or a `batch` is atomic.

| Component | State | Operations | Meets |
|---|---|---|---|
| Outbox and dispatcher (`notifications/dispatcher.js`, `db.js`) | `notification_outbox` rows: status, attempts, lease, backoff | enqueue with the run, select a batch, claim, call the provider, complete, fail | reports that enqueue, other dispatchers (every cron, manual triggers, tests and retries start one), retries |
| Manual retry (`db.js`, `api.js`) | `manualAttempts`, `lastManualRetryAt` of a row | check, then put a failed row back | dispatchers, other retries |
| Report pipeline and scheduler (`services/scheduler.js`, `services/report.js`) | `report_execution_lock`, `scheduled_occurrences`, `runs` | claim the occurrence, claim the lock, fetch forecasts, enqueue, dispatch, record, release, bind | duplicate crons, the owner's trigger, the outbox |
| Channel settings and credentials (`notifications/settings.js`, `notifications/webhook.js`, `routes/webhook.js`, `api.js`) | the single row of `notification_settings`, `provider_credential_status`, the secrets | save settings, update and remove credentials, note a webhook delivery | each other, credential-admin |
| credential-admin (`worker/credential-admin/`) | the secrets | read, PATCH with retries, wait until active | callers that give up after 15 s |
| Alert policy (`services/report.js`, `notifications/rules.js`, `helpers.js`) | none of its own | which channel gets which locations and events, as alert or report | rules, settings, application settings |
| Locations and rules (`db.js`, `repositories/notification-rules.js`) | `locations`, `location_notification_rules` | add with default rules, edit, delete, save and copy rules | reports that write forecasts back |
| Browser push (`notifications/webpush.js`, `repositories/webpush.js`, `public/features/browser-notifications.js`, `scripts/webpush-setup.mjs`) | `web_push_subscriptions`, the browser's push manager, the VAPID key pair | register and check, rename, disable, delete, note a delivery, rotate the key | the browser, deliveries, the operator |
| History and retention (`notifications/history.js`, `repositories/history.js`, `db.js`) | all history tables | count, export, clear, hourly prune | foreign keys to runs, deliveries in flight |
| Weekly self-test and health (`services/selftest.js`, `notifications/health.js`) | `health_check_runs` | passive or active test, read-only aggregate | occurrence keys, the outbox |
| Limiters (`db.js`, `api.js`) | three singleton rows | claim a slot, then test a channel, suggest an address or change credentials | concurrent requests |
| Schedule and application settings (`notifications/application-settings.js`, `public/features/schedule.js`) | `application_settings`, what each page shows | edit, validate, save | pages of other versions, the scheduler |
| Locations page (`public/app.js`, `public/features/thresholds.js`) | the list, the drawer's form, the drawer's rules and schedule | open, add, save, edit in place, delete, change rules | the Worker, whose answers come in any order |
| Access script (`scripts/cloudflare-access.mjs`) | the account's Access applications and policies, a snapshot file | snapshot, plan, apply, verify, rollback | an account that holds what earlier commands left |
| Deployment (`.github/workflows`, `scripts/*`) | D1's schema, two Workers, Pages | migrate, deploy, verify, release, roll back | reruns, each other |
| Transports (`notifications/email.js`, `pushover.js`, `webhook.js`) | none | one provider call | dispatcher |
| Authentication, HTTP, proxy (`auth.js`, `http.js`, `functions/api`) | a cache of key sets | verify, filter, answer | none |
| Forecast client, geocoding, setup and audit scripts, rest of the page | none that lasts | fetch; read and print; show | the API |

What makes each of these that is modelled correct, and what is hard about it:

* Outbox: a delivery is marked sent only if a provider took it; nobody takes a
  live lease or a settled row from under its holder; every delivery is settled
  in the end. Hard: leases that expire during a call, dispatchers that die, D1
  errors with the write applied or not, counts read before the claim.
* Manual retry: a cap and a cooldown. Hard: SELECT then UPDATE.
* Reports: one report per occurrence, one generation at a time, an occurrence
  bound to its own successful run. Hard: crons delivered twice, the local hour
  that repeats when clocks go back, a lock that outlives or is outlived by its
  holder, a failure after the report was committed.
* Channels: three stores that no transaction covers must agree again after any
  failure. Hard: read-modify-write of one row by four kinds of writers, an RPC
  that is given up but not cancelled.
* Locations, rules and alerts: at most ten locations, a bulk change reaches all
  of them or can be repeated, an alert is about the locations whose rules say so.
  Hard: bulk changes of a statement per row that may stop halfway or overlap with
  edits, a report that reads the locations minutes before it reads their rules.

* Devices: the page tells the truth about its registration, a device that was
  switched off stays off unless somebody wants it on. Hard: two statements per
  registration, two read-modify-writes of a row, identifiers drawn before the upsert.
* Retention: nothing unsettled is deleted, an audit row is true. Hard: three calls
  per clearing, a foreign key that can fail a whole batch, deliveries in flight.
* Limiters: winners are an interval apart. Hard: two statements, no row at first.
* Self-test: once a day. Hard: hours that repeat, settings that change meanwhile.
* Settings: no page is refused for what another page did. Hard: old pages that
  know fewer fields, a read and a write apart.
* Locations page: the drawer is about one location. Hard: answers that arrive
  after the owner went on.
* Access script: apply, whatever it starts from, ends in a state that verify
  accepts, and the owner is never locked out. Hard: it may stop at each of its calls.
* Deployment: the live Worker finds its schema, a verified run left a matching pair.
  Hard: failed steps, jobs run again alone, rollbacks.

The hazards of the code, each with its line and the properties that watch it,
are listed in `PROJECT.json`; those without a property say why. Four of them the code
simply has, and no document says that it does not, so that no property can forbid them; what is
checked is the other side:

* a removal between the check of a transport and the write of the settings: `SaveFailsClosed`
  is about a save with no other writer in flight;
* a note on a device that was read before the device was disabled enables it again:
  `RevivedKnowingly` says that nothing else does, unasked;
* two first registrations of one endpoint, one of which is told an identifier that no row has:
  `VerdictFitsDevice` is about a page alone at its endpoint;
* an unsettled delivery of an aged run holds up the whole prune batch:
  `UnsettledUntouched` says that it is not lost by it.

Nor does `RemovalHeals` keep a removed channel off when another request writes the row back:
that is finding 3, and `EnabledOnPurpose` says what it takes.

## Modules and the code they model

### `Outbox`, with `DispatchTime` and `DeliveryLifecycle`

`outbox` maps each job to its row; a job that is not yet enqueued is `"absent"`.
`disp` is the local state of each invocation of `dispatchPendingNotifications`:
`now`, read once for the whole batch as in the code, the rest `todo` of the
selected snapshot rows, the current job and the answer. `req` is the state of
each retry request between its SELECT and its UPDATE. `accepted` is a history
variable, true when a provider has taken the message. `clock` is `Date.now()`.

| Action | Code |
|---|---|
| `Enqueue` | `createRunAndOutbox`, one D1 batch |
| `StartDispatch`, `CronDispatch`, `SelectJobs` | `dispatchPendingNotifications` up to `getOutboxJobs` (oldest first, LIMIT) |
| `Claim`, `ClaimThrows` | `claimOutboxJob`, and the next candidate when it changes no row |
| `Deliver` | the provider call: accepted, retryable or terminal failure; a failure of either kind may be reported for a message that was accepted, since `sendPushover` takes a 200 whose body it cannot read for a rejection |
| `Complete`, `CompleteThrows` | `completeOutboxJob`, fenced by the token; when it throws the catch records a failure |
| `Fail`, `FailThrows` | `failOutboxJob` with the backoff, fenced; when it throws the batch ends |
| `Crash`, `RetryCrash` | the Worker is killed at an await |
| `BeginRetry`, `RetrySelect`, `RetryUpdate` | `retryFailedDelivery`; the dispatch its route starts next is a `StartDispatch` |
| `Tick` | time passes; a provider call that has a timeout does not outlast it |

`DispatchTime` holds the backoff table (`nextAttemptAt`), `DeliveryLifecycle` the
abstract specification: what the owner may rely on, with no leases, clocks or
dispatchers.

`Prompt` selects one of two environments: FALSE, arbitrary delays everywhere (safety);
TRUE, D1 answers within a tick and crons come on time (liveness, the counting of attempts, and
the lease finding, which thus needs no slow database). `Untimed` jobs have a provider call
with no timeout: browser push, and a webhook whose response body trickles, since
`sendWebhook` clears its timer before it reads the body.

Rows leave the table only by retention (90 days) and by the owner clearing
history, both restricted to settled rows by their WHERE clauses; these deletions
are in `Retention`; `SentIsFinal` speaks of rows that are there.

### `Reports`, with `OccurrenceLifecycle`

`inv` is the state of each invocation, cron or manual; its name doubles as its
lease token and its run. `lock` is the row of `report_execution_lock`, `occ` the
occurrence keys with the run bound to them, `runs` what each invocation has
recorded. `KeyAt` gives the occurrence key of each instant, so that an instance
can repeat a local hour. Actions follow `handleScheduledReport` and
`runAndSendReport` statement by statement: `CronStarts`, `Prepared` (dispatch,
prune, settings), `ClaimOccurrence`, `UpdateLock`, `InsertLock`, `Generated`,
`Enqueued`, `Dispatched`, `FailureRecorded`, `ReleaseLock`, `BindRun`, and their
failures `ClaimOccurrenceThrows`, `LockThrows`, `BodyThrows`, `FailureLost`,
`ReleaseLost`, `Crash`.

`OccurrenceLifecycle` is the abstract specification of a scheduled report: which occurrences have
been taken, which cron has reported or failed for each, which run each names, and in which order
that may happen, with no locks or stages.

### `Channels`

`secret` (Secrets Store), `status` (`provider_credential_status`) and `settings`
(the row of `notification_settings`) are the three stores. `req` holds each
request's place, the document it writes and the settings row it has read.
`RpcChannels` are email and Pushover, written by credential-admin; `Webhook` is
written by the Worker itself where the binding has a `put()`. `putBinding` is
chosen initially and fixed: in production a Secrets Store binding only reads, and
then a webhook update answers 503, a removal leaves the secret in place and the
operator sets it with Cloudflare's tools (`Provision`, external).

`BeginUpdate`, `BeginRetainingUpdate`, `BeginRemove`, `BeginSave`, `BeginDeliver`
start the four kinds of requests. `Put`, `PutAgain`, `Activated` are the PATCH,
its retry and `waitForActive`; `UpsertStatus` the status row; `Check`, `Checked`
the transport checks of `saveSettings`; `ReadSettings`, `WriteSettings` the
read-modify-write of the settings row; `Abort` any error or kill at any await,
`LatePut` a PATCH that lands after its caller gave up, any number of times as long as
`apiRequest` retries it. The order differs by channel as in
the code: RPC channels note the status before they disable the channel, the
webhook after.

`clean` is history: no conflicting request was in flight with this one. What a
request must achieve is required of clean ones; what may never be wrong is required always.

`ChannelsAudit` adds the set of channels whose removal was the last word.

### `Alerts`

Pure operators, one per function: `Validated` (`validateRulePatch`), `Meets`
(`qualityMeetsThreshold`), `Qualifies` (`evaluateLocationForThreshold`),
`Effective` and `Filtered` (the rules of a channel, `filterResultsForChannel`) and
`Planned`, which channel gets what: bypass for tests, the whole report where one is
scheduled, else an alert about the qualifying locations, or a row that is skipped.

### `Places`

`place` and `rules` are the tables `locations` and `location_notification_rules`;
of a forecast it matters only whether it is for the coordinates its location
has. `req` is the state of each request of several statements, `rep` that of
the one report under way.

| Action | Code |
|---|---|
| `UpdateLocation`, `DeleteLocation`, `SaveRule`, `SwitchChannel` | the requests of one statement; deletion cascades to rules |
| `InsertLocation`, `ReadMasters`, `WriteRule` | `addLocation`: the capped INSERT, the settings row, one INSERT OR IGNORE per channel |
| `ReadSource`, `ListForCopy`, `WriteRule` | `copyLocationRulesToAll`, one upsert per location and channel |
| `ListForReset`, `ReadMasters`, `WriteRule` | action `reset-defaults` |
| `AllWritten`, `End` | the answer; or an error or kill at any await, what is written staying |
| `BeginReport`, `Fetch`, `WriteForecast`, `AllStored` | `generateReport`: locations read, fetched, written back |
| `EndReport` | `enqueueNotifications` reads the rules and plans with `Alerts`; or any failure |

`clean` is history as in `Channels`; `unmoved` are the due locations that the owner
has not moved since the report read them.

### `Devices`

`subscription` is what a browser's push manager holds, `device` the table by
endpoint (a unique column), `madeFor` the key each endpoint was made for. `tab` is a
page's registration together with the request it makes, which goes on when the
page gives up. A registration is a SELECT for the identifier and an upsert
that keeps the identifier of a row that is there (`SelectExisting`, `UpsertRow`),
after which the page looks itself up in the list by identifier or name
(`VerifyRegistration`). `note` and `change` are the dispatcher's note of an outcome
and the owner's PATCH, each a read of the row and a write of all its columns
(`ReadForNote`, `WriteNote`, `ReadForChange`, `WriteChange`). `StoreKey`, `KeyActive`,
`ActivationTimeout` and `Redeploy` are a rotation by `webpush-setup`. What the
push service answers (`Answers`) is external.

### `Retention`

`run`, `delivery` and `check` are tables whose rows are fresh, aged or gone;
`clearing` is a request with its scopes and counts, `audit` the audit rows.
`PruneOperationalData` is the cron's batch, `CountScope`, `ClearHistoryScopes` and
`InsertAuditEvent` the calls of a clearing; `ReferencesHeld` is the foreign key, which
fails a batch as a whole. `Deliver` stands for what `Outbox` does in detail. `excused`
is history: what had left the scope, or was held by an unsettled delivery, when
the deletion came.

### `Limiters`

`request` carries the time at which it began, `lastRequestedAt` is the limiter's
row. `UpdateSlot` and `InsertSlot` are the two statements of `claimNotificationTestSlot`
and its siblings; `CheckChannel` and `Serve` what the routes do before and after.

### `SelfTest`

`cronTest` follows `maybeRunWeeklySelfTest`: read the settings, claim the day's occurrence,
test, and in active mode enqueue and dispatch everything that waits, and record.
The owner changes `setup` at any time. Crons come late and overlap.

### `Settings`

`form` is what each open page shows, `put` its request with the row that the Worker read
for it; `Inherited` and `Valid` are the Worker's merge and checks, and `Reconciled` the
page's own. `OldPages` leave out the report fields.

### `Console`

`kept` is the Worker's set of locations, `page` what the owner sees, `calls` the
requests under way with the answers that have not arrived. Every handler of an answer is an
action, on the page as it is by then.

### `AccessSetup`

`account` is the state of the Access applications, `accessRun` the running command and its
local variables. Each write to the account goes on to the next call or, its answer
lost or the process dead, ends the command (`Continue`); `CommandDies` is a call that is
refused, or a death before it.

### `Deployment`

`d1` is the set of tables and added columns, `worker` and `pages` what was uploaded,
which is newest and which is live. `deployRun` is the run under way with its step,
`passed` the jobs that succeeded in each commit's run, so that a failed run can be
run again from the job that failed. `rollbackRun` is a rollback. Both share a
concurrency group (`NobodyRuns`).

### Model-checking modules

`MCOutbox`, `MCReports`, `MCChannels`, `MCPlaces`, `MCDevices` and `MCParts` give the
constants their values (backoff tables, occurrence keys, accounts, symmetry sets); the
`.cfg` files name them. `MCParts` runs eight modules in one state space: each
behaviour picks its part, whose steps are the only ones taken. The parts share no variable.

## Runs

| Run | Shows |
|---|---|
| `outbox_safety` | Two dispatchers, two deliveries, a fault, stale snapshots. `SentMeansAccepted`, `AttemptsLeft`, `ExclusiveWhileLeased`, `LeaseHonoured` |
| `outbox_retry` | Two overlapping retries, three dispatchers, a fault, D1 prompt: `ImplementsLifecycle` (refinement of `DeliveryLifecycle`); `ManualRetryOvershoot`, the bound that the code gives in place of the cap; `AttemptsNeverLost`: a dispatcher writes the count of an old snapshot, but the fencing and the backoff keep it from going back; only the owner's retry resets it |
| `outbox_live` | With crons on time and one kill or D1 error, every delivery is settled (`EventuallySettled`), with a LIMIT smaller than the queue |
| `outbox_batch` | What remains of the comment of finding 1 (`ExclusiveInTime`). Batches of two out of three deliveries, one of them slower, a lease of three ticks: a first call is in time; a second call is if both are quick; after the slow one, or if it is the slow one, it is not, and then a second dispatcher does call at the same time |
| `outbox_lease` | Finding 1 |
| `reports_safety` | Two crons in one repeated local hour, a manual trigger, unbounded delays, two faults: `LockHonoured`, `ExclusiveWhileLocked`, `ImplementsOccurrences` (refinement of `OccurrenceLifecycle`: one report for each occurrence); `CronLeavesRun`: a cron leaves a run unless it fails itself or comes while another's lock is in force, so that a cron or a manual trigger that died with the lock, or never ends, costs nothing after its expiry |
| `reports_overlap` | Finding 2 |
| `channels` | Two requests of any kinds on an RPC channel and the webhook, aborted anywhere, a late PATCH that may land again: `EnabledOnPurpose`, `NamesWereStored`, `UpdateHeals`, `RemovalHeals`, `SaveFailsClosed`. Deadlock is checked |
| `removed_channel` | Finding 3 |
| `places` | Two of adding, copying, resetting and a report overlap with edits, rule changes and deletions, and fail anywhere: `AtMostCap`, `DefaultsNeverOverwrite`, `BulkChangesReachAll`, `ForecastsFit`; `AlertsFollowRules`: the locations of an alert, read minutes before the rules, are those that the rules let qualify, whatever was edited or deleted in between. Deadlock is checked |
| `parts` | One part per behaviour. Access: `ApplyLeadsToVerified`, `ApplyKeepsOwner`. Deployment: `SchemaAhead`, `VerifiedPairMatches`. Devices: `VerdictFitsDevice`, `RevivedKnowingly`. Retention: `UnsettledUntouched`, `ClearedIsGone`. Limiters: `Spaced`. Self-test: `OneTestADay`. Settings: `RefusedOnlyWithoutTimes`. Locations page: `FormAndDrawerAgree` |
| `push_rotation` | Finding 4 |

Every property of a passing run has a mutant in `PROJECT.json`: a plausible bug in
one definition (operators named `Bad...`), under which TLC finds the property
violated. The runs of `Outbox` and `Reports` do not check deadlock: the
clock is bounded and an invocation runs once, so both models really stop. Neither
does `parts`: limiters, crons and deletions come to an end.

## Bounds

| Bound | Value | Why it is enough |
|---|---|---|
| `Dispatchers`, `Crons` + `Manuals`, `Requests` | 2 or 3 | every race in the code is between two holders of one row, but for a lost count, which takes a third dispatcher; the proofs cover any number |
| `Jobs` | 2 (1 with retries, 3 in `outbox_batch`) | a second row is what makes a batch outlast its first lease; a third makes batches that fit in the lease and batches that do not |
| `Lease`, `LockTime`, `ProviderTimeout`, `Cooldown` | 1 to 3 ticks | only the order of events relative to expiry matters |
| `MaxTime` | 2 to 12 | a lease is taken, expires and is taken over; for liveness all retries and one lease recovery fit |
| `MaxFaults` | 0, 1 or 2 | a kill, or a D1 error with its write applied or not, at every await; two for reports, where a kill and a lost release combine |
| `MaxAttempts`, `RetryDelays` | 2 or 3 (1 in `outbox_batch`) | first, middle and last entry of the table; a retried delivery is in another batch, so `outbox_batch` does without; in `outbox_retry` no wait after a failure is 0, as in the code |
| `MaxManualRetries` | 1 | the cap is reached by one retry and passed by the second |
| `Credentials`, `MaxLate` | 1 | configured against not; one PATCH in flight beyond its caller. Confusing two credentials is covered by the proofs |
| `Ids`, `Cap` | 3, 2 | the cap is reached and two adds compete for the last place; a third identifier after a deletion |
| `Places`' `Channels` | 1 | the rules of a channel are read and written independently of the others' |
| `MaxInFlight` | 2 | two series of statements overlapping, one of which may be the report; single-statement requests come in between at will |
| `OwnRules`, `Forecasts` | 1, 3 | with the defaults, on or off, rules that differ; an error, a forecast below the threshold, one above |
| `Commits`, `Tables`, `Columns` | 2 each | a commit that needs a table and columns the other does not: one in a new table, one in an old one; a run of the older commit may come again |
| `Tabs`, `Endpoints`, `MaxDrawn`, `MaxBusy` | 2 | two pages of one browser race for a row, and a subscription that is lost is replaced; two things under way are enough for every race, three only add a bystander |
| `MaxKey` | 1 (2 in `push_rotation`) | a second key is needed only to rotate |
| `Runs`, `Deliveries`, `Clearings` | 1, 2, 1 | two deliveries of one run settle differently; the cron prunes next to the clearing. The proofs cover any number |
| `Requests` of `Limiters`, `Interval`, `MaxNow` | 3, 2, 3 | two compete for one slot, one for another; a request is older than the last winner |
| `Crons` of `SelfTest`, `LastTick` | 2, 2 | an hour that comes twice and one after it |
| `Slots`, `MaxSlots`, `Pages` | 2 | all of a schedule may be shared, partly shared or disjoint; one page of each version |
| `Sites`, `MaxCalls` | 2 | an answer about one location meets the other; two answers in either order |
| `AccessAccounts`, `IssuedFirst`, `MaxPolicies` | 11 accounts, 2, 4 | none, ours, foreign and public policies, two applications; a new policy may be added, restored and added again |
| `LastEnqueue` | 0 | reports enqueue at the start, in any number of batches |

## Fairness

The other runs assume none. `outbox_live`: weak fairness of each dispatcher's own
steps (an invocation that is not killed goes on), strong fairness of crons
starting and of the clock (the platform starts a cron every hour, and not
infinitely many steps fit in a tick). Reports, HTTP dispatches and the owner are
not fair; kills and D1 errors may occur up to the bound. It uses `Prompt`: D1 answers in
bounded time, without which the code promises nothing. `reports_safety`: weak fairness of the
steps of a cron that is running, whatever the delays; neither crons nor the
owner need to come, a manual trigger may stop anywhere and the clock too.

## Proofs

Eight modules of proofs, all checked by TLAPS with no unproved leaf. Every safety invariant
and action property that a passing run checks is a theorem, and so are both refinements.
Assumptions are the named ASSUMEs of the modules, which TLC evaluates on every run:
distinct sentinels, positive lease times and intervals, a nonempty backoff table; that
`Requests`, `Slots` and `AppIds` are finite, where something is counted; that an account
which the Access script meets gives each policy an identifier of its own, as Cloudflare
does (`AccessAssumption`). The bounds on time, faults and late PATCHes are arbitrary constants.

`OutboxProofs`, for any jobs, dispatchers and retry requests:

* `TypeCorrect`: `TypeOK`, strengthened by "a dispatch in a call knows its job".
* `SentStays` (`SentIsFinal`, in no run, since the lifecycle says more), `LeasesHonoured`: every change of a row is one of a few row steps
  (claimed, settled by the token's holder, retried from failed); `LeaseInv` adds
  that a row with a token is processing and no dispatch's `now` is in the future.
* `SentWasAccepted`: with `AnswerKnown`, a dispatch that records success had its
  message accepted.
* `AttemptsBounded`: a waiting row has fewer than `MaxAttempts` attempts.
* `DeliveriesExclusive`: the invariant `Entitled`, a dispatch in a call whose
  lease is not over holds the row's token with the expiry it asked for; two such dispatches
  would hold one token. This is what the code does guarantee in place of the
  comment refuted by finding 1.
* `EarlyCallsExclusive` says when the comment does hold. Two hypotheses: `Prompt`, and that no
  call is without a timeout (`Untimed = {}`). The invariant `InPace` bounds the time since a
  dispatch began by `spent`, what the calls that it has made may take, each by its channel: while
  they fit in the lease, it is not over, and `Entitled` does the rest. Web Push and
  webhook jobs are `Untimed`; how long a call of the other channels may last is in finding 1.
* `OutboxImplementsLifecycle`: refinement, initial states and each step.
* `AttemptsKept`: two hypotheses, `Prompt` and `BackoffPositive` (no wait after a
  failure is 0, which `notifications/dispatcher.js` satisfies). The invariant
  `Counted` says of an unretried row that the counts which dispatchers remember are older the
  earlier they began, and that a dispatcher which may write the row, or yet claim it, has
  missed one attempt at most. A SELECT that takes longer than the backoff breaks that, see
  [findings](#findings).
* `RetriesOvershoot` from `RetriesBounded`: the count and the requests that have passed the check,
  together, stay below the cap plus the number of requests.

`ReportsProofs`, for any crons, manual triggers and repetition of keys:

* `TypeCorrect`, `OneReport`, `BoundRuns` from `RunInv`: what each place of an
  invocation says about its occurrence and its run, one claimant per key, and a
  bound run is its own claimant's.
* `OneReport` (`OneReportPerOccurrence`) and `BoundRuns` (`OccurrenceNamesItsRun`) are in no run,
  since `ImplementsOccurrences` says more: an occurrence is claimed once, and names the report
  of its own cron, and only if that did not fail.
* `ReportsImplementOccurrences`: refinement, each step from `RunInv`, since past its claim what is
  recorded for an occurrence is what its one cron recorded.
* `LocksHonoured` from `LockInv`; `GenerationsExclusive` from `HeldInv`: an
  invocation that generates within its lock's time holds the lock.
* `OneGeneration`: with `Prompt` and stages that end within the lock's time
  (`StageTime < LockTime`), `SingleGeneration` holds, which finding 2 refutes without that bound.
  `PaceInv`: an invocation is at a stage no longer than the stage may take, so its lock's time is
  not over. While D1 is prompt, a timeout on the forecasts as a whole is thus all that the code
  lacks.

`ChannelsProofs`, for any channels, credentials, requests and late PATCHes. The
properties are not inductive: that a save fails closed depends on no other
request having written since its check. `IInv` is the conjunction of
`Stage` (what a place says of the request's kind and document), `History` (what
is written, or read to be written, has been in the secret), `Isolated` (nothing
in conflict with a clean request is in flight, no late PATCH aims at it) and
`Progress` (what a clean request has achieved at its place). Each part is
preserved using the earlier ones; five theorems follow, among them `EnabledConfigured`
(`EnabledWasConfigured`, in no run: it tells only a save without its check from one with it).
`EnabledByOverlap` (`EnabledOnPurpose`) bounds finding 3: a channel that nobody asked
to enable is enabled only by a row read while it was on, and only if another writer of the row
was in flight with that request. By `RowCurrent`, the row that a clean request has read is the row
still; so no failure halfway, no late PATCH and no retry does it, and writing the row under a
condition on what was read would close it.

`PlacesProofs`, for any locations, channels, rules, forecasts and requests, and any
cap:

* `TypeCorrect`, `CapKept`, `DefaultsStay`.
* `ForecastsKept`, with `StoreInv`: at the writing stage, whatever has been written
  fits, and no due location is one that was never added.
* `AlertsFollow` (`AlertsFollowRules`); `StricterSendsLess` (a higher threshold never sends more) and
  `ReportCoversAlert` (a scheduled report that replaces an alert is about all it
  would have been about) are theorems about `Alerts` alone.
* `BulkReachesAll`, from `BulkInv`: at each stage of a clean request, which rows it has still
  to write (`Aims`), and that all others are as it wants them (`Holds`). The steps of others fall
  in two kinds, those that end its cleanness and those that leave what it aims at alone.

`PartsProofs`, for the parts that one short invariant each settles:

* Limiters, for any requests and intervals: `WinnersSpaced`. The row alone does
  not say that winners are apart; `WinnersRecorded` does, that the row is not older than
  any winner, and `Begun`, that no request has the time 0 that stands for no row.
* Self-test, for any crons, calendar and changes of settings: `OneTestEachDay` from
  `OccurrencesHeld`: each test under way or recorded has its own claimed occurrence, under the time
  zone and the instant the cron began with.
* Settings, for any hours, channels and pages: `RefusedForTimes` from `Sound`: of what a page sends
  and of the row it is merged with, all that the Worker checks except that there are times.
* Locations page, for any locations and any number of calls: `DrawerAgrees`, which is inductive.
* The composition of `MCParts`: `PartsStep`, a step of any part is for every other part a step of
  its own specification or a stutter; hence `PartsTypeCorrect`, from the eight theorems
  about the types of the parts.

`RetentionProofs`, for any runs, deliveries and clearings:

* `ReferencesKept` and `UnsettledKept`, from `TablesHold` (with `RunFirst`, no delivery before its
  run) and the lemma `DeletionKeeps` about any batch that the foreign key lets through.
* `AuditTrue`: `Counts` says that what a request has counted was written, so
  that at the deletion it is in scope, excused or gone, and that gone rows stay gone.

`SetupProofs`, for any commits and schemas, and any account:

* `SchemaFirst`: `Ahead`, D1 has what every Worker ever uploaded requires, not only
  the live one, since a rollback may choose any; and what every commit requires whose schema
  job has succeeded, since that job is not run again.
* `VerifiedTogether`: `Stage` and `Undisturbed`, with `Exclusive` for the concurrency group.
* `ApplyVerified`, `OwnerKept`: `Applying` says what each place of an apply has established, in
  particular that while policies are left to delete, one that admits the owner is not among them;
  `Numbered`, that identifiers of policies are not given out twice, without which deleting the
  others could delete the one that is to stay; `Rolling`, where a rollback may be. The lemmas about
  sequences of policies (`PolicyDeleted`, `PolicyRewritten`, `PolicyAdded`) come first.

`DevicesProofs`, for any pages, browsers and endpoints:

* `VerdictsFit`: the verdict is about a row found by identifier or name. `IdsDistinct`
  says that identifiers in the table, held by pages, and between pages belong to one
  endpoint each, `OwnRow` that a page alone at its endpoint holds its row's.
* `RevivalsKnown`: of all steps only three can enable a row, each with its reason.

Only model-checked: `EventuallySettled` and `CronLeavesRun`, since liveness is out of the
prover's reach, and the four properties that the code violates, whose counterexamples are the result.

## Findings

Each is a run expected to violate one property that quotes the repository.

1. `outbox_lease`: leases are counted from the start of the batch, so a slow batch
   claims its later rows with leases that are short or over and a second
   dispatcher delivers them at the same time; `dispatcher.js:9` says this cannot
   happen. Needs no fault and no slow database. The comment gives an SMTP call 30
   seconds, but reading the password, connecting and sending have 5, 30 and 30
   (`email.js:145-159`): of a batch of e-mails only the first call is sure to end within the
   lease, of a batch of Pushover messages (5 and 10 seconds) the first seven, of a mixture
   those until the sum reaches 120 (`EarlyCallsExclusive`); after a call without a timeout, none.
2. `reports_overlap`: the forecast fetches have no timeout and the lock is not
   renewed, so two triggers can generate at once.
3. `removed_channel`: a request that read the settings row before a removal
   writes it back after, and the channel is enabled again without credentials.
   In production the writer is a webhook delivery.
4. `push_rotation`: a browser that registers again after the VAPID key was rotated keeps
   its old subscription (`browser-notifications.js:241`), is told that it is enabled,
   and every push to it is refused, which disables the row.

Met, with no run of their own:

* Outbox. Overlapping manual retries, with a terminal failure between their
  UPDATEs, pass the hard cap (`db.js:342`, `db.js:367`), by at most one each:
  `ManualRetryOvershoot`. A dispatcher with a snapshot from before the owner's retry writes its
  old count over the reset one (`dispatcher.js:65`, `db.js:343`). With three dispatchers that overlap, and a
  SELECT that takes longer than the backoff, one also writes an old count over one that
  another has raised since: hence `Prompt` in `outbox_retry` and `AttemptsKept`.
  `README.md:186` gives the lease as one minute where the code has two.
* Channels. `disableNotificationChannel` leaves `webhookMaskedHostname`, from
  which `publicSettings` and health go on to call the webhook configured.
* Rules. A channel with no rules counts every location in, so when the last location with
  a rule there is deleted during a report, the alert goes out about it even if its rule was
  Never; and a location left without a rule there by a failed add is silenced as soon as
  another gets one. Before the first save of settings a new location takes the
  missing master switches as on, reset-defaults as off.
* Devices. A registration under the name of an older, disabled row makes the page report a
  failure (`browser-notifications.js:307-312`), which is why `VerdictFitsDevice` asks for a name
  of its own.
* History. Counts are taken before the deletion. Clearing the scope "runs" alone fails
  as long as a settled delivery refers to a run without an unsettled one.
* Limiters. A first request that is slow between its UPDATE and its INSERT is refused
  although no other was let through within the interval before it; winners are apart by their own
  clocks, not by arrival; a test whose channel is disabled after the check takes a
  slot and answers 500, since `jobs[0]` is undefined.
* Settings. `fetchApiCredits` is called with arguments it does not take
  (`routes/application-settings.js:27`, `sunsethue.js:133`), so remaining credits are never
  shown. A scheduled report is never sent at a time that no location checks, which
  custom times of all locations allow. Edits made while a page saves are lost.
* Deployment. `getLatestWorkerVersion` and `deployments[0]` list the newest upload, which after a rollback
  is not what is live; a job of an older run that is run again after a later deployment can
  leave Worker and Pages at different commits and still verify.
* Locations page. An older list that arrives last overwrites a newer one; a search result or
  position that comes late fills in the form of another location (`app.js:921-1013`); two
  times added in quick succession to a schedule lose one; the answer to a submit closes
  whatever drawer is open by then.

## What is not modelled

Message contents, SMTP, HTTP and cryptography are I/O. Authentication and request
validation are per-request and keep no state. Recipient and Pushover
preferences are data that no property tells apart. `Channels` has no limiter in front of
credential changes: leaving it out only adds interleavings, since it lets
mutations start ten seconds apart and each may last longer. The limiter is in `Limiters`.

The Worker's health report, the history's export and the forecast dashboard only read. The
forecast client and geocoding are calls without state; `Reports` has them as one stage.
Setup, audit and configuration scripts read, print or write one file. Of the page,
the address search, the activity list and the channel forms are left out: they have no
state beyond one request, but for what the findings name.

`SelfTest` and `Reports` each claim occurrences of their own: the keys carry the kind, so that
neither can take the other's. `Console`, `Settings` and `Devices` are pages of one
site but share no state in it, and each lets the rest of the Worker change what it reads.

## Plan

Done: the core (`Outbox`, `Reports`, `Channels`, `Alerts` with `Places`), and around it the
devices, retention, limiters, self-test, settings and locations page, the Access script and the
pipeline. What would add most next:

1. Liveness of the Access script and of retention (an aged, settled run is pruned in the end),
   under the fairness of hourly crons.

## How to run

    tlc -workers 2 -config MCOutbox_safety.cfg MCOutbox
    tlapm OutboxProofs.tla

The largest runs, `outbox_safety` and `channels`, have some two million states each.
