------------------------------ MODULE Outbox ------------------------------
(***************************************************************************)
(* The notification outbox: rows of the D1 table notification_outbox, the  *)
(* concurrent invocations of dispatchPendingNotifications that drain it    *)
(* (worker/notifications/dispatcher.js, worker/db.js) and the owner's      *)
(* manual retries (POST /api/notification-deliveries/:id/retry).           *)
(*                                                                         *)
(* One D1 statement is one atomic step; every other actor may move between *)
(* two statements of the same handler, at each `await`.  A Worker may be   *)
(* killed at any await, a D1 call may fail with its write applied or not,  *)
(* and a provider call may report a failure for a message it accepted.     *)
(* Time is a global clock, the Date.now() of every invocation; each        *)
(* dispatch reads it once and uses that value for its whole batch.         *)
(***************************************************************************)
EXTENDS Integers, Sequences, FiniteSets, DispatchTime

CONSTANTS
  Jobs,            \* outbox rows that a report may create
  Dispatchers,     \* invocations of dispatchPendingNotifications
  HttpDispatchers, \* those that an HTTP handler may start; a cron may start any
  Requests,        \* invocations of the manual retry handler
  NoOne,           \* SQL NULL in leaseToken
  Limit,           \* deps.limit ?? 20: the LIMIT of getOutboxJobs
  ProviderTimeout, \* the longest the provider call of each job may last, by its channel
  Untimed,         \* jobs whose provider call has no timeout (web push)
  Cooldown,        \* MANUAL_RETRY_COOLDOWN_MS
  MaxManualRetries,\* MAX_MANUAL_RETRIES
  Prompt,          \* TRUE: D1 answers before the clock moves, crons start on time
  CronPeriod,      \* ticks between two crons (of interest when Prompt)
  MaxFaults,       \* bound: how many times a Worker is killed or a D1 call fails
  LastEnqueue,     \* bound: reports enqueue no later than this
  MaxTime          \* bound: the clock stops here

ASSUME OutboxAssumption ==
  /\ NoOne \notin Dispatchers /\ NoOne \notin Jobs
  /\ HttpDispatchers \subseteq Dispatchers
  /\ Limit \in Nat \ {0}
  /\ ProviderTimeout \in [Jobs -> Nat]
  /\ Untimed \subseteq Jobs
  /\ Cooldown \in Nat /\ MaxManualRetries \in Nat \ {0} /\ IsFiniteSet(Requests)
  /\ Prompt \in BOOLEAN
  /\ CronPeriod \in Nat \ {0}
  /\ MaxFaults \in Nat /\ LastEnqueue \in Nat /\ MaxTime \in Nat

VARIABLES
  clock,     \* Date.now(), in ticks
  outbox,    \* the rows of notification_outbox
  disp,      \* local state of each dispatchPendingNotifications invocation
  req,       \* local state of each manual retry request
  accepted,  \* history: has a provider accepted the job's message
  cronAt,    \* the time of the last cron that was started
  faults     \* bound: how many faults have occurred

vars == <<clock, outbox, disp, req, accepted, cronAt, faults>>

Null == -1                        \* SQL NULL in a time column
Time == Nat
NullableTime == Time \cup {Null}

Status == {"absent", "pending", "processing", "sent", "failed"}

Row == [status : Status, attempts : Nat, nextAttemptAt : Time,
        lockedUntil : NullableTime, leaseToken : Dispatchers \cup {NoOne},
        manualAttempts : Nat, lastManualRetryAt : NullableTime]

\* What a dispatch remembers of a row it selected: it is used, stale or not,
\* until the dispatch is done with the row.
Candidate == [id : Jobs, attempts : Nat, nextAttemptAt : Time]

Result == {"none", "ok", "retryable", "terminal"}

\* A dispatcher stands for one invocation after another.  Its own identity
\* serves as the lease token: the token is fresh for each claim in the code,
\* and here a dispatcher has one claim in flight, its last.  "spent" is how long
\* the calls of its batch may have taken, the present one included.
Dispatch == [pc : {"idle", "select", "claim", "deliver", "record"},
             now : Time, todo : SUBSET Candidate, job : Jobs \cup {NoOne},
             attempts : Nat, since : Time, spent : Nat, result : Result]

Request == [pc : {"idle", "select", "update"}, job : Jobs \cup {NoOne}, now : Time]

TypeOK == /\ clock \in Time
          /\ outbox \in [Jobs -> Row]
          /\ disp \in [Dispatchers -> Dispatch]
          /\ req \in [Requests -> Request]
          /\ accepted \in [Jobs -> BOOLEAN]
          /\ cronAt \in Time
          /\ faults \in Nat

AbsentRow == [status |-> "absent", attempts |-> 0, nextAttemptAt |-> 0,
              lockedUntil |-> Null, leaseToken |-> NoOne,
              manualAttempts |-> 0, lastManualRetryAt |-> Null]

IdleDispatch == [pc |-> "idle", now |-> 0, todo |-> {}, job |-> NoOne,
                 attempts |-> 0, since |-> 0, spent |-> 0, result |-> "none"]

IdleRequest == [pc |-> "idle", job |-> NoOne, now |-> 0]

Init == /\ clock = 0
        /\ outbox = [j \in Jobs |-> AbsentRow]
        /\ disp = [d \in Dispatchers |-> IdleDispatch]
        /\ req = [r \in Requests |-> IdleRequest]
        /\ accepted = [j \in Jobs |-> FALSE]
        /\ cronAt = 0
        /\ faults = 0

---------------------------------------------------------------------------
(* A report writes its outbox rows in one batch (createRunAndOutbox); their *)
(* nextAttemptAt is the report's generatedAt, some moment up to now.        *)

Enqueue == \E js \in SUBSET Jobs, at \in 0..clock :
  /\ js # {} /\ clock <= LastEnqueue
  /\ \A j \in js : outbox[j].status = "absent"
  /\ outbox' = [j \in Jobs |->
                  IF j \in js
                  THEN [AbsentRow EXCEPT !.status = "pending", !.nextAttemptAt = at]
                  ELSE outbox[j]]
  /\ UNCHANGED <<clock, disp, req, accepted, cronAt, faults>>

---------------------------------------------------------------------------
(* dispatchPendingNotifications.                                           *)

\* Broken variants, each a plausible slip in the code, are named Bad...; no
\* specification uses them.

\* Broken: an expired lease is never recovered.
BadClaimableNoRecovery(row, now) == row.status = "pending" /\ row.nextAttemptAt <= now

\* Broken: a leased row may be claimed before its lease runs out.
BadClaimableEarly(row, now) ==
  row.status = "processing" \/ (row.status = "pending" /\ row.nextAttemptAt <= now)

\* The WHERE clause shared by getOutboxJobs and claimOutboxJob.
Claimable(row, now) ==
  \/ row.status = "pending" /\ row.nextAttemptAt <= now
  \/ row.status = "processing" /\ row.lockedUntil # Null /\ row.lockedUntil <= now

\* ORDER BY nextAttemptAt ASC LIMIT ?: the batches the query may return.
\* Rows that tie may come back in any order.
Batches(now) ==
  LET due == {j \in Jobs : Claimable(outbox[j], now)}
  IN  {b \in SUBSET due :
         /\ Cardinality(b) <= Limit
         /\ b # due => Cardinality(b) = Limit
         /\ \A j \in b, k \in due \ b :
               outbox[j].nextAttemptAt <= outbox[k].nextAttemptAt}

Snapshot(j) == [id |-> j, attempts |-> outbox[j].attempts,
                nextAttemptAt |-> outbox[j].nextAttemptAt]

Heads(todo) == {c \in todo : \A k \in todo : c.nextAttemptAt <= k.nextAttemptAt}

\* The loop goes on with the candidates left, or the invocation returns.
Continue(d, rest) ==
  disp' = [disp EXCEPT ![d] =
             IF rest = {} THEN IdleDispatch
             ELSE [@ EXCEPT !.pc = "claim", !.todo = rest, !.job = NoOne,
                            !.attempts = 0, !.since = 0, !.result = "none"]]

Return(d) == disp' = [disp EXCEPT ![d] = IdleDispatch]

\* `const now = deps.now ?? Date.now()`, by an HTTP handler or a cron.
Begin(d) == /\ disp[d].pc = "idle"
            /\ disp' = [disp EXCEPT ![d] = [@ EXCEPT !.pc = "select", !.now = clock]]
            /\ UNCHANGED <<clock, outbox, req, accepted, faults>>

StartDispatch(d) == d \in HttpDispatchers /\ Begin(d) /\ UNCHANGED cronAt

\* The scheduled handler dispatches before anything else it does.
CronDispatch(d) == /\ clock % CronPeriod = 0
                   /\ cronAt # clock
                   /\ Begin(d)
                   /\ cronAt' = clock

SelectJobs(d) ==
  /\ disp[d].pc = "select"
  /\ \E b \in Batches(disp[d].now) : Continue(d, {Snapshot(j) : j \in b})
  /\ UNCHANGED <<clock, outbox, req, accepted, cronAt, faults>>

\* The guarded UPDATE of claimOutboxJob: the row as a winning claim leaves it.
Leased(j, d) == [outbox EXCEPT ![j] = [@ EXCEPT !.status = "processing",
                                               !.lockedUntil = disp[d].now + Lease,
                                               !.leaseToken = d]]

Invoke(d, c) == [disp[d] EXCEPT !.pc = "deliver", !.todo = @ \ {c}, !.job = c.id,
                                !.attempts = c.attempts, !.since = clock,
                                !.spent = @ + ProviderTimeout[c.id]]

\* Broken: the claim trusts the SELECT and does not test the row again.
BadClaimWonUnguarded(d, c) ==
  /\ outbox' = Leased(c.id, d)
  /\ disp' = [disp EXCEPT ![d] = Invoke(d, c)]

ClaimWon(d, c) ==
  /\ Claimable(outbox[c.id], disp[d].now)
  /\ outbox' = Leased(c.id, d)
  /\ disp' = [disp EXCEPT ![d] = Invoke(d, c)]

ClaimLost(d, c) ==
  /\ ~Claimable(outbox[c.id], disp[d].now)
  /\ Continue(d, disp[d].todo \ {c})
  /\ UNCHANGED outbox

Claim(d) == /\ disp[d].pc = "claim"
            /\ \E c \in Heads(disp[d].todo) : ClaimWon(d, c) \/ ClaimLost(d, c)
            /\ UNCHANGED <<clock, req, accepted, cronAt, faults>>

\* The provider's answer.  No error tells whether the message was taken: not a
\* retryable one (a timeout, a 5xx, a broken connection), and not a terminal one
\* either, since Pushover's 200 with a body that cannot be read is one.
Deliver(d) ==
  /\ disp[d].pc = "deliver"
  /\ \E result \in Result \ {"none"}, taken \in BOOLEAN :
       /\ result = "ok" => taken
       /\ disp' = [disp EXCEPT ![d] = [@ EXCEPT !.pc = "record", !.result = result]]
       /\ accepted' = [accepted EXCEPT ![disp[d].job] = @ \/ taken]
  /\ UNCHANGED <<clock, outbox, req, cronAt, faults>>

\* Broken: the writes are fenced by the status alone.
BadHoldsLeaseNoToken(d, j) == outbox[j].status = "processing"

\* WHERE id = ? AND status = 'processing' AND leaseToken = ?
HoldsLease(d, j) == outbox[j].status = "processing" /\ outbox[j].leaseToken = d

\* Broken: a status that the table does not have.
BadSentRow(row) == [row EXCEPT !.status = "delivered", !.lockedUntil = Null, !.leaseToken = NoOne]

SentRow(row) == [row EXCEPT !.status = "sent", !.lockedUntil = Null, !.leaseToken = NoOne]

\* completeOutboxJob; LEASE_LOST when its WHERE matches nothing.
CompleteOutboxJob(d) ==
  LET j == disp[d].job IN
  outbox' = IF HoldsLease(d, j) THEN [outbox EXCEPT ![j] = SentRow(@)] ELSE outbox

\* Broken: an error that may be retried is taken for a delivery.
BadComplete(d) == /\ disp[d].pc = "record" /\ disp[d].result \in {"ok", "retryable"}
                  /\ CompleteOutboxJob(d)
                  /\ Continue(d, disp[d].todo)
                  /\ UNCHANGED <<clock, req, accepted, cronAt, faults>>

Complete(d) == /\ disp[d].pc = "record" /\ disp[d].result = "ok"
               /\ CompleteOutboxJob(d)
               /\ Continue(d, disp[d].todo)
               /\ UNCHANGED <<clock, req, accepted, cronAt, faults>>

\* Broken: one attempt too many.
BadFailedRow(row, d) ==
  LET attempts == disp[d].attempts + 1
      terminal == disp[d].result = "terminal" \/ attempts > MaxAttempts
  IN  [row EXCEPT !.status = IF terminal THEN "failed" ELSE "pending",
                  !.attempts = attempts,
                  !.nextAttemptAt = NextAttemptAt(disp[d].now, attempts),
                  !.lockedUntil = Null, !.leaseToken = NoOne]

FailedRow(row, d) ==
  LET attempts == disp[d].attempts + 1
      terminal == disp[d].result = "terminal" \/ attempts >= MaxAttempts
  IN  [row EXCEPT !.status = IF terminal THEN "failed" ELSE "pending",
                  !.attempts = attempts,
                  !.nextAttemptAt = NextAttemptAt(disp[d].now, attempts),
                  !.lockedUntil = Null, !.leaseToken = NoOne]

\* failOutboxJob, fenced in the same way.
FailOutboxJob(d) ==
  LET j == disp[d].job IN
  outbox' = IF HoldsLease(d, j) THEN [outbox EXCEPT ![j] = FailedRow(@, d)] ELSE outbox

Fail(d) == /\ disp[d].pc = "record" /\ disp[d].result \in {"retryable", "terminal"}
           /\ FailOutboxJob(d)
           /\ Continue(d, disp[d].todo)
           /\ UNCHANGED <<clock, req, accepted, cronAt, faults>>

---------------------------------------------------------------------------
(* Faults of a dispatch: a D1 call that throws, its write applied or not,   *)
(* and the death of the Worker.                                            *)

Fault == faults < MaxFaults /\ faults' = faults + 1

\* The claim throws out of the loop; the row may have been leased.
ClaimThrows(d) ==
  /\ Fault
  /\ disp[d].pc = "claim"
  /\ \E c \in Heads(disp[d].todo) :
       /\ Claimable(outbox[c.id], disp[d].now)
       /\ outbox' = Leased(c.id, d)
  /\ Return(d)
  /\ UNCHANGED <<clock, req, accepted, cronAt>>

\* completeOutboxJob throws inside the try: the catch takes the D1 error for
\* a retryable provider error and goes on to failOutboxJob.
CompleteThrows(d) ==
  /\ Fault
  /\ disp[d].pc = "record" /\ disp[d].result = "ok"
  /\ CompleteOutboxJob(d) \/ UNCHANGED outbox
  /\ disp' = [disp EXCEPT ![d] = [@ EXCEPT !.result = "retryable"]]
  /\ UNCHANGED <<clock, req, accepted, cronAt>>

\* failOutboxJob throws out of the dispatch, after its write was applied.
FailThrows(d) ==
  /\ Fault
  /\ disp[d].pc = "record" /\ disp[d].result \in {"retryable", "terminal"}
  /\ FailOutboxJob(d)
  /\ Return(d)
  /\ UNCHANGED <<clock, req, accepted, cronAt>>

\* The Worker is killed, or a D1 call throws with nothing written.  A call
\* that was in flight may still reach the provider.
Crash(d) ==
  /\ Fault
  /\ disp[d].pc # "idle"
  /\ Return(d)
  /\ \/ UNCHANGED accepted
     \/ /\ disp[d].pc = "deliver"
        /\ accepted' = [accepted EXCEPT ![disp[d].job] = TRUE]
  /\ UNCHANGED <<clock, outbox, req, cronAt>>

---------------------------------------------------------------------------
(* retryFailedDelivery: a SELECT, checks on what it returned, an UPDATE.   *)

BeginRetry(r) == /\ req[r].pc = "idle"
                 /\ \E j \in Jobs :
                      req' = [req EXCEPT ![r] = [pc |-> "select", job |-> j, now |-> clock]]
                 /\ UNCHANGED <<clock, outbox, disp, accepted, cronAt, faults>>

\* Broken: the cap is off by one.
BadMayRetry(row, now) ==
  /\ row.status = "failed"
  /\ row.lastManualRetryAt # Null => now - row.lastManualRetryAt >= Cooldown
  /\ row.manualAttempts <= MaxManualRetries

\* None of NOT_RETRYABLE, MANUAL_RETRY_COOLDOWN, MANUAL_RETRY_EXHAUSTED.
MayRetry(row, now) ==
  /\ row.status = "failed"
  /\ row.lastManualRetryAt # Null => now - row.lastManualRetryAt >= Cooldown
  /\ row.manualAttempts < MaxManualRetries

RetrySelect(r) ==
  /\ req[r].pc = "select"
  /\ req' = [req EXCEPT ![r] = IF MayRetry(outbox[req[r].job], req[r].now)
                               THEN [@ EXCEPT !.pc = "update"] ELSE IdleRequest]
  /\ UNCHANGED <<clock, outbox, disp, accepted, cronAt, faults>>

RetriedRow(row, now) ==
  [row EXCEPT !.status = "pending", !.attempts = 0, !.nextAttemptAt = now,
              !.lockedUntil = Null, !.leaseToken = NoOne,
              !.manualAttempts = @ + 1, !.lastManualRetryAt = now]

\* Broken: the UPDATE relies on the SELECT and does not test the status again.
BadRetryUpdate(r) ==
  LET j == req[r].job IN
  /\ req[r].pc = "update"
  /\ outbox' = [outbox EXCEPT ![j] = RetriedRow(@, req[r].now)]
  /\ req' = [req EXCEPT ![r] = IdleRequest]
  /\ UNCHANGED <<clock, disp, accepted, cronAt, faults>>

RetryUpdate(r) ==
  LET j == req[r].job IN
  /\ req[r].pc = "update"
  /\ outbox' = IF outbox[j].status = "failed"
               THEN [outbox EXCEPT ![j] = RetriedRow(@, req[r].now)] ELSE outbox
  /\ req' = [req EXCEPT ![r] = IdleRequest]
  /\ UNCHANGED <<clock, disp, accepted, cronAt, faults>>

\* The request dies between its two statements.
RetryCrash(r) == /\ Fault
                 /\ req[r].pc # "idle"
                 /\ req' = [req EXCEPT ![r] = IdleRequest]
                 /\ UNCHANGED <<clock, outbox, disp, accepted, cronAt>>

---------------------------------------------------------------------------
(* Time passes, but no provider call with a timeout outlives it.           *)

WithinTimeout(d) == disp[d].pc = "deliver" /\ disp[d].job \notin Untimed
                      => clock < disp[d].since + ProviderTimeout[disp[d].job]

NothingDue == /\ \A d \in Dispatchers : disp[d].pc \in {"idle", "deliver"}
              /\ \A r \in Requests : req[r].pc = "idle"
              /\ clock % CronPeriod = 0 => cronAt = clock

Tick == /\ clock < MaxTime
        /\ \A d \in Dispatchers : WithinTimeout(d)
        /\ Prompt => NothingDue
        /\ clock' = clock + 1
        /\ UNCHANGED <<outbox, disp, req, accepted, cronAt, faults>>

DispatchStep(d) == \/ SelectJobs(d) \/ Claim(d) \/ Deliver(d) \/ Complete(d) \/ Fail(d)

FaultStep(d) == ClaimThrows(d) \/ CompleteThrows(d) \/ FailThrows(d) \/ Crash(d)

RetryStep(r) == RetrySelect(r) \/ RetryUpdate(r)

Next == \/ Enqueue
        \/ \E d \in Dispatchers : \/ StartDispatch(d) \/ CronDispatch(d)
                                  \/ DispatchStep(d) \/ FaultStep(d)
        \/ \E r \in Requests : BeginRetry(r) \/ RetryStep(r) \/ RetryCrash(r)
        \/ Tick

Spec == Init /\ [][Next]_vars

\* What the platform gives: a dispatch that is not killed goes on, crons are
\* started whatever else runs, and no endless run of dispatches fits in one
\* tick.  Nothing else is fair: neither reports, nor HTTP dispatches, nor the
\* owner have to come.
Fairness == /\ \A d \in Dispatchers : WF_vars(DispatchStep(d))
            /\ SF_vars(\E d \in Dispatchers : CronDispatch(d))
            /\ SF_vars(Tick)

FairSpec == Spec /\ Fairness

---------------------------------------------------------------------------
(* Properties.                                                             *)

\* A delivery is recorded as sent only if a provider took the message, even
\* when dispatchers overlap, lose their leases or die half way.
SentMeansAccepted == \A j \in Jobs : outbox[j].status = "sent" => accepted[j]

\* No late dispatcher and no manual retry takes a delivery back once it is
\* recorded as sent: the fencing of completeOutboxJob and failOutboxJob.
SentIsFinal == [][\A j \in Jobs : outbox[j].status = "sent"
                                     => outbox'[j].status = "sent"]_vars

\* A dispatcher is deprived of its lease only after the lease ran out; until
\* then only its holder settles the row.
LeaseHonoured ==
  [][\A j \in Jobs, d \in Dispatchers :
        (outbox[j].leaseToken = d /\ outbox'[j].leaseToken # d)
          => \/ outbox[j].lockedUntil <= clock
             \/ disp[d].pc = "record" /\ disp[d].job = j]_vars

\* The failure count a dispatcher writes comes from its old snapshot of the row,
\* yet as long as the owner has not retried the delivery it never takes the row's
\* count back: each attempt is counted.  So it is if D1 answers promptly; behind
\* a SELECT that is slower than the backoff a third dispatcher may undo a count.
AttemptsNeverLost ==
  [][\A j \in Jobs : outbox'[j].attempts < outbox[j].attempts
                        => outbox'[j].manualAttempts > 0]_vars

\* A row waits for a further automatic attempt only while it has one left.
AttemptsLeft == \A j \in Jobs : outbox[j].status \in {"pending", "processing"}
                                    => outbox[j].attempts < MaxAttempts

Invoking(d, j) == disp[d].pc = "deliver" /\ disp[d].job = j

LeaseOver(d) == disp[d].now + Lease <= clock

\* Two dispatchers are in a provider call for the same delivery only when the
\* lease of one of them has run out: no claim, failure, crash or retry gives a
\* row away under the dispatcher that is still entitled to it.
ExclusiveWhileLeased ==
  \A j \in Jobs, d, e \in Dispatchers :
     Invoking(d, j) /\ Invoking(e, j) => d = e \/ LeaseOver(d) \/ LeaseOver(e)

\* What the comment on LEASE_MS promises: no delivery is invoked twice at once.
ExclusiveDelivery ==
  \A j \in Jobs, d, e \in Dispatchers : Invoking(d, j) /\ Invoking(e, j) => d = e

\* A dispatch's calls so far, its present one included, end within its lease, if
\* each has a timeout.
InTime(d) == disp[d].spent < Lease

\* What remains of that promise: if D1 answers promptly and every call has a
\* timeout, no delivery is invoked twice at once by calls that come early enough
\* in their batches. In the code an e-mail call may take 65 seconds of the 120 of
\* the lease (email.js:145-159), a Pushover call 15 (pushover.js:17): of two e-mails
\* in a batch only the first is early enough, but a Pushover call after it is.
ExclusiveInTime ==
  \A j \in Jobs, d, e \in Dispatchers :
     Invoking(d, j) /\ Invoking(e, j) => d = e \/ ~InTime(d) \/ ~InTime(e)

\* The retry limit of retryFailedDelivery, with what the code gives away: its
\* UPDATE does not test it again, so requests that overlap may each go one over.
ManualRetryOvershoot ==
  \A j \in Jobs : outbox[j].manualAttempts < MaxManualRetries + Cardinality(Requests)

\* At-least-once delivery: every delivery a report enqueues is settled, if only
\* as failed, whatever dispatcher was killed while it held the lease.
EventuallySettled ==
  \A j \in Jobs : outbox[j].status = "pending" ~> outbox[j].status \in {"sent", "failed"}

---------------------------------------------------------------------------
(* The outbox implements the lifecycle it promises.                        *)

PhaseOf(status) == IF status = "processing" \/ status = "pending" THEN "queued" ELSE status

Lifecycle == INSTANCE DeliveryLifecycle
               WITH phase <- [j \in Jobs |-> PhaseOf(outbox[j].status)]

\* Every dispatch, fault and manual retry is a step of the lifecycle or leaves
\* what the owner can observe as it was.
ImplementsLifecycle == Lifecycle!Spec
=============================================================================
