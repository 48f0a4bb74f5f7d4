----------------------------- MODULE Reports -----------------------------
(***************************************************************************)
(* The report pipeline: the hourly scheduled handler                       *)
(* (worker/services/scheduler.js), the owner's POST /api/triggerReport and *)
(* runAndSendReport (worker/services/report.js), which all share the       *)
(* singleton row of report_execution_lock, the scheduled_occurrences keys  *)
(* and the runs table.                                                     *)
(*                                                                         *)
(* An invocation runs once; its name also names the run it may write and   *)
(* the lease token it draws.  The content of a report, and what the        *)
(* dispatcher does with its jobs (module Outbox), are left out.            *)
(***************************************************************************)
EXTENDS Integers, FiniteSets

CONSTANTS
  Crons,      \* invocations of handleScheduledReport
  Manuals,    \* invocations of POST /api/triggerReport
  NoOne,      \* SQL NULL in leaseToken and runId
  Keys,       \* occurrence keys "<timezone>:<date>:<HH>:00"
  NoKey,      \* no report to run: past minute 10, or no location due
  KeyAt,      \* the key of each time; two times may share one (clocks go back)
  LockTime,   \* REPORT_LOCK_MS
  Prompt,     \* TRUE: D1 answers before the clock moves, stages are bounded
  StageTime,  \* then the longest time for each of the stages that wait
  MaxFaults,  \* bound: invocations killed and D1 calls that fail
  MaxTime     \* bound: the clock stops here

ASSUME ReportsAssumption ==
  /\ NoOne \notin Crons \cup Manuals
  /\ Crons \cap Manuals = {}
  /\ NoKey \notin Keys
  /\ KeyAt \in [0..MaxTime -> Keys \cup {NoKey}]
  /\ LockTime \in Nat \ {0}
  /\ Prompt \in BOOLEAN
  /\ StageTime \in Nat /\ MaxFaults \in Nat /\ MaxTime \in Nat

VARIABLES
  clock,   \* Date.now()
  lock,    \* the row of report_execution_lock
  occ,     \* scheduled_occurrences, by key
  runs,    \* what each invocation has written to runs
  inv,     \* the local state of each invocation
  faults   \* bound: how many faults have occurred

vars == <<clock, lock, occ, runs, inv, faults>>

Invocations == Crons \cup Manuals

\* The stages that wait for something other than one D1 statement.
Waiting == {"prepare", "generate", "dispatch"}

Pc == Waiting \cup {"new", "occurrence", "update", "insert", "enqueue", "fail",
                    "release", "bind", "done", "dead"}

Lock == [exists : BOOLEAN, token : Invocations \cup {NoOne}, lockedUntil : Nat]
Occurrence == [claimed : BOOLEAN, run : Invocations \cup {NoOne}]
Invocation == [pc : Pc, key : Keys \cup {NoKey}, now : Nat, since : Nat, ok : BOOLEAN]

TypeOK == /\ clock \in 0..MaxTime
          /\ lock \in Lock
          /\ occ \in [Keys -> Occurrence]
          /\ runs \in [Invocations -> SUBSET {"report", "failure"}]
          /\ inv \in [Invocations -> Invocation]
          /\ faults \in Nat

Init == /\ clock = 0
        /\ lock = [exists |-> FALSE, token |-> NoOne, lockedUntil |-> 0]
        /\ occ = [k \in Keys |-> [claimed |-> FALSE, run |-> NoOne]]
        /\ runs = [i \in Invocations |-> {}]
        /\ inv = [i \in Invocations |-> [pc |-> "new", key |-> NoKey, now |-> 0,
                                         since |-> 0, ok |-> FALSE]]
        /\ faults = 0

At(i, pc) == inv[i].pc = pc

\* "since" is the time at which a stage that waits began.
Goto(i, pc) == inv' = [inv EXCEPT ![i] = [@ EXCEPT !.pc = pc,
                                 !.since = IF pc \in Waiting THEN clock ELSE 0]]

\* runAndSendReport reads the time once, for the lock.
EnterReport(i) ==
  inv' = [inv EXCEPT ![i] = [@ EXCEPT !.pc = "update", !.now = clock]]

Fault == faults < MaxFaults /\ faults' = faults + 1

---------------------------------------------------------------------------
(* Triggers.                                                               *)

\* A cron event; it first dispatches what is due, prunes, reads the settings
\* and may run the self-test, each error swallowed.
CronStarts(c) ==
  /\ At(c, "new")
  /\ inv' = [inv EXCEPT ![c] = [@ EXCEPT !.pc = "prepare", !.key = KeyAt[clock],
                                         !.since = clock]]
  /\ UNCHANGED <<clock, lock, occ, runs, faults>>

Prepared(c) == /\ At(c, "prepare")
               /\ Goto(c, IF inv[c].key = NoKey THEN "done" ELSE "occurrence")
               /\ UNCHANGED <<clock, lock, occ, runs, faults>>

\* claimScheduledOccurrence: the primary key lets one INSERT win.
ClaimOccurrence(c) ==
  /\ At(c, "occurrence")
  /\ IF occ[inv[c].key].claimed
     THEN Goto(c, "done") /\ UNCHANGED occ
     ELSE /\ EnterReport(c)
          /\ occ' = [occ EXCEPT ![inv[c].key].claimed = TRUE]
  /\ UNCHANGED <<clock, lock, runs, faults>>

\* Any D1 error counts as "already claimed", also when the row was inserted.
ClaimOccurrenceThrows(c) ==
  /\ Fault
  /\ At(c, "occurrence")
  /\ Goto(c, "done")
  /\ \/ occ' = [occ EXCEPT ![inv[c].key].claimed = TRUE]
     \/ UNCHANGED occ
  /\ UNCHANGED <<clock, lock, runs>>

ManualStarts(m) == /\ At(m, "new")
                   /\ EnterReport(m)
                   /\ UNCHANGED <<clock, lock, occ, runs, faults>>

---------------------------------------------------------------------------
(* claimReportLock: an UPDATE of a free or expired row, else an INSERT.    *)

Owned(i) == [exists |-> TRUE, token |-> i, lockedUntil |-> inv[i].now + LockTime]

\* Broken: the expiry of a lock is not looked at, only its release.
BadLockFreeNoExpiry(now) == lock.exists /\ lock.token = NoOne

\* Broken: anyone may take the lock.
BadLockFreeAlways(now) == lock.exists

LockFree(now) == lock.exists /\ lock.lockedUntil <= now

UpdateLock(i) ==
  /\ At(i, "update")
  /\ IF LockFree(inv[i].now) THEN lock' = Owned(i) /\ Goto(i, "generate")
                             ELSE UNCHANGED lock /\ Goto(i, "insert")
  /\ UNCHANGED <<clock, occ, runs, faults>>

\* INSERT OR IGNORE; REPORT_IN_PROGRESS when the row is there.
InsertLock(i) ==
  /\ At(i, "insert")
  /\ IF lock.exists THEN UNCHANGED lock /\ Goto(i, "done")
                    ELSE lock' = Owned(i) /\ Goto(i, "generate")
  /\ UNCHANGED <<clock, occ, runs, faults>>

\* A D1 error here leaves runAndSendReport before its try: nothing releases a
\* lock that was written all the same, and no run is recorded.
LockThrows(i) ==
  /\ Fault
  /\ At(i, "update") \/ At(i, "insert")
  /\ \/ UNCHANGED lock
     \/ (At(i, "update") /\ LockFree(inv[i].now)) /\ lock' = Owned(i)
     \/ (At(i, "insert") /\ ~lock.exists) /\ lock' = Owned(i)
  /\ Goto(i, "dead")
  /\ UNCHANGED <<clock, occ, runs>>

---------------------------------------------------------------------------
(* The body of runAndSendReport, under the lock.                           *)

\* generateReport: the forecast fan-out, then one UPDATE per location.
Generated(i) == /\ At(i, "generate")
                /\ Goto(i, "enqueue")
                /\ UNCHANGED <<clock, lock, occ, runs, faults>>

\* createRunAndOutbox: the run and its jobs, in one batch.
Enqueued(i) == /\ At(i, "enqueue")
               /\ runs' = [runs EXCEPT ![i] = @ \cup {"report"}]
               /\ Goto(i, "dispatch")
               /\ UNCHANGED <<clock, lock, occ, faults>>

Dispatched(i) == /\ At(i, "dispatch")
                 /\ inv' = [inv EXCEPT ![i] = [@ EXCEPT !.pc = "release", !.ok = TRUE]]
                 /\ UNCHANGED <<clock, lock, occ, runs, faults>>

\* generateReport, enqueueNotifications or dispatchPendingNotifications throws;
\* the batch of createRunAndOutbox may have been applied.
BodyThrows(i) == /\ Fault
                 /\ inv[i].pc \in {"generate", "enqueue", "dispatch"}
                 /\ Goto(i, "fail")
                 /\ \/ UNCHANGED runs
                    \/ At(i, "enqueue") /\ runs' = [runs EXCEPT ![i] = @ \cup {"report"}]
                 /\ UNCHANGED <<clock, lock, occ>>

\* The catch: a failure run, its own error swallowed, then finally.
FailureRecorded(i) == /\ At(i, "fail")
                      /\ runs' = [runs EXCEPT ![i] = @ \cup {"failure"}]
                      /\ Goto(i, "release")
                      /\ UNCHANGED <<clock, lock, occ, faults>>

FailureLost(i) == /\ Fault
                  /\ At(i, "fail")
                  /\ Goto(i, "release")
                  /\ UNCHANGED <<clock, lock, occ, runs>>

\* Broken: every scheduled run is bound, also one that failed.
BadReleased(i) == Goto(i, IF i \in Crons THEN "bind" ELSE "done")

\* A scheduled report that succeeded is bound to its occurrence.
Released(i) == Goto(i, IF i \in Crons /\ inv[i].ok THEN "bind" ELSE "done")

\* Broken: the release leaves no expiry, in a column that is NOT NULL.
BadFreeLockNull(i) == lock' = IF lock.token = i
                              THEN [lock EXCEPT !.token = NoOne, !.lockedUntil = NoOne] ELSE lock

\* Broken: the lock is freed whoever holds it.
BadFreeLock(i) == lock' = [lock EXCEPT !.token = NoOne, !.lockedUntil = 0]

\* releaseReportLock, fenced by the token.
FreeLock(i) == lock' = IF lock.token = i
                       THEN [lock EXCEPT !.token = NoOne, !.lockedUntil = 0] ELSE lock

ReleaseLock(i) == /\ At(i, "release")
                  /\ FreeLock(i)
                  /\ Released(i)
                  /\ UNCHANGED <<clock, occ, runs, faults>>

\* The release is best effort: its error is swallowed.
ReleaseLost(i) == /\ Fault
                  /\ At(i, "release")
                  /\ Released(i)
                  /\ UNCHANGED <<clock, lock, occ, runs>>

\* bindOccurrenceRun.
BindRun(c) == /\ At(c, "bind")
              /\ occ' = [occ EXCEPT ![inv[c].key].run = c]
              /\ Goto(c, "done")
              /\ UNCHANGED <<clock, lock, runs, faults>>

\* "dead": the Worker is killed, or bindOccurrenceRun throws and is only logged.
Crash(i) == /\ Fault
            /\ inv[i].pc \notin {"new", "done", "dead"}
            /\ Goto(i, "dead")
            /\ UNCHANGED <<clock, lock, occ, runs>>

---------------------------------------------------------------------------

Tick == /\ clock < MaxTime
        /\ Prompt => \A i \in Invocations :
                       \/ inv[i].pc \in {"new", "done", "dead"}
                       \/ inv[i].pc \in Waiting /\ clock < inv[i].since + StageTime
        /\ clock' = clock + 1
        /\ UNCHANGED <<lock, occ, runs, inv, faults>>

ReportStep(i) == \/ UpdateLock(i) \/ InsertLock(i) \/ Generated(i) \/ Enqueued(i)
                 \/ Dispatched(i) \/ FailureRecorded(i) \/ ReleaseLock(i)

CronStep(c) == Prepared(c) \/ ClaimOccurrence(c) \/ BindRun(c)

FaultStep(i) == LockThrows(i) \/ BodyThrows(i) \/ FailureLost(i) \/ ReleaseLost(i) \/ Crash(i)

Next == \/ \E c \in Crons : CronStarts(c) \/ CronStep(c) \/ ClaimOccurrenceThrows(c)
        \/ \E m \in Manuals : ManualStarts(m)
        \/ \E i \in Invocations : ReportStep(i) \/ FaultStep(i)
        \/ Tick

Spec == Init /\ [][Next]_vars

\* A cron that is not killed goes on.  Neither cron events nor the owner have to
\* come, a manual report may never end, and the clock may stop.
Fairness == \A c \in Crons : WF_vars(CronStep(c) \/ ReportStep(c))

FairSpec == Spec /\ Fairness

---------------------------------------------------------------------------
(* Properties.                                                             *)

\* An occurrence is reported at most once, by whatever crons come for it: a
\* cron event delivered twice, or the hour that comes twice when clocks go back.
OneReportPerOccurrence ==
  \A c, d \in Crons : /\ "report" \in runs[c] /\ "report" \in runs[d]
                      /\ inv[c].key = inv[d].key
                      => c = d

\* An occurrence that names a run names a report made for it that was dispatched
\* without an error.
OccurrenceNamesItsRun ==
  \A k \in Keys : LET c == occ[k].run IN
    c # NoOne => inv[c].key = k /\ runs[c] = {"report"}

\* The lock passes from a holder to another only when it has expired; before,
\* only the holder gives it up, however late another holder releases.
LockHonoured ==
  [][\A i \in Invocations : (lock.token = i /\ lock'.token # i)
                              => lock.lockedUntil <= clock \/ At(i, "release")]_vars

LockOver(i) == inv[i].now + LockTime <= clock

\* Two invocations generate a report at once only when the lock of one of them
\* has run out, however they crash, fail, or release late.
ExclusiveWhileLocked ==
  \A i, j \in Invocations :
     At(i, "generate") /\ At(j, "generate") => i = j \/ LockOver(i) \/ LockOver(j)

\* "A cron trigger and a concurrent manual trigger must never both call
\* generateReport()" (schema.sql).
SingleGeneration ==
  \A i, j \in Invocations : At(i, "generate") /\ At(j, "generate") => i = j

\* Another invocation has the lock, which has not expired by the time c read.
KeptOut(c) ==
  At(c, "update") /\ lock.token \notin {NoOne, c} /\ inv[c].now < lock.lockedUntil

\* It died, or could not record that it failed.
Unrecorded(c) == At(c, "dead") \/ (At(c, "release") /\ ~inv[c].ok)

\* A scheduled report that reached runAndSendReport leaves a run, a report or a
\* failure, unless it fails itself or comes while another has the lock: neither a
\* cron nor a manual trigger that died with the lock in hand, or never ends, costs
\* the occurrences after its expiry their report. The row of the lock is there from
\* the first report on; two that race to insert it are not meant.
CronLeavesRun ==
  \A c \in Crons : At(c, "update") /\ lock.exists
                      ~> (runs[c] # {} \/ Unrecorded(c) \/ KeptOut(c))

---------------------------------------------------------------------------
(* The handler implements what it promises for each occurrence.            *)

\* The crons that have recorded a run of this kind, each with its occurrence.
Recorded(kind) == {<<inv[c].key, c>> : c \in {d \in Crons : kind \in runs[d]}}

NamedRuns == {<<k, occ[k].run>> : k \in {l \in Keys : occ[l].run # NoOne}}

Lifecycle == INSTANCE OccurrenceLifecycle
               WITH taken <- {k \in Keys : occ[k].claimed}, named <- NamedRuns,
                    reported <- Recorded("report"), failed <- Recorded("failure")

\* Whatever crons come for an occurrence, and wherever they fail or die, each of
\* their steps is one of its lifecycle or changes nothing that lasts.
ImplementsOccurrences == Lifecycle!Spec
=============================================================================
