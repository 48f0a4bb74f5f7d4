----------------------------- MODULE Retention -----------------------------
(***************************************************************************)
(* What becomes of old rows: the cron's prune (worker/db.js), the owner's  *)
(* POST /api/history/clear (worker/notifications/history.js and            *)
(* worker/repositories/history.js), which counts, deletes and then writes  *)
(* an audit row in calls of their own, and the rest of the Worker that     *)
(* goes on delivering meanwhile.                                           *)
(*                                                                         *)
(* A run and its deliveries are written in one batch and are of one age.   *)
(* A row is fresh until it is older than 90 days, "none" before it is      *)
(* written, "gone" after it is deleted.  D1 rejects a batch that leaves a  *)
(* delivery without its run (schema.sql).  admin_audit_events holds only   *)
(* rows of type history_cleared, which nothing deletes, so the scope       *)
(* credential_audit counts and deletes nothing.                            *)
(***************************************************************************)
EXTENDS FiniteSets

CONSTANTS
  Runs,       \* runs that may be recorded
  Deliveries, \* rows of notification_outbox
  RunOf,      \* the run of each delivery
  Checks,     \* rows of health_check_runs
  Clearings   \* requests to clear the history

ASSUME RetentionAssumption ==
  /\ RunOf \in [Deliveries -> Runs]
  /\ Runs \cap Deliveries = {}

VARIABLES
  run,       \* the table runs
  delivery,  \* the table notification_outbox
  check,     \* the table health_check_runs
  clearing,  \* the requests
  audit      \* rows of admin_audit_events: what was cleared and counted

retentionVars == <<run, delivery, check, clearing, audit>>

Scope == {"runs", "deliveries_completed", "deliveries_failed", "self_tests"}
Age == {"none", "fresh", "aged", "gone"}
Status == {"none", "pending", "processing", "sent", "skipped", "failed", "gone"}
Unsettled == {"pending", "processing"}

\* Bug: a delivery that is being made counts as settled.
BadSettled == {"sent", "skipped", "failed", "processing"}

Settled == {"sent", "skipped", "failed"}

Present(age) == age \in {"fresh", "aged"}
Stored(d) == delivery[d] \in Unsettled \cup {"sent", "skipped", "failed"}

\* "counted": each counted delivery with its status then, each counted run.
\* "excused" is history: what had left the scope, or held a run, at the deletion.
Clearing == [pc : {"idle", "count", "delete", "audit", "done"}, scopes : SUBSET Scope,
             todo : SUBSET Scope, counted : SUBSET (Runs \cup Deliveries),
             excused : SUBSET (Runs \cup Deliveries)]

NoClearing == [pc |-> "idle", scopes |-> {}, todo |-> {}, counted |-> {}, excused |-> {}]

---------------------------------------------------------------------------
(* The Worker's other writes. *)

CreateRunAndOutbox(r) ==
  /\ run[r] = "none"
  /\ run' = [run EXCEPT ![r] = "fresh"]
  /\ \E first \in [{d \in Deliveries : RunOf[d] = r} -> {"none", "pending", "skipped"}] :
       delivery' = [d \in Deliveries |-> IF RunOf[d] = r THEN first[d] ELSE delivery[d]]
  /\ UNCHANGED <<check, clearing, audit>>

\* A dispatcher claims a delivery, settles it or gives it back; the owner retries
\* a failed one.
Deliver(d) ==
  /\ \/ delivery[d] = "pending" /\ delivery' = [delivery EXCEPT ![d] = "processing"]
     \/ /\ delivery[d] = "processing"
        /\ \E status \in {"pending", "sent", "failed"} :
             delivery' = [delivery EXCEPT ![d] = status]
     \/ delivery[d] = "failed" /\ delivery' = [delivery EXCEPT ![d] = "pending"]
  /\ UNCHANGED <<run, check, clearing, audit>>

InsertHealthCheckRun(k) ==
  /\ check[k] = "none"
  /\ check' = [check EXCEPT ![k] = "fresh"]
  /\ UNCHANGED <<run, delivery, clearing, audit>>

GrowOld ==
  /\ \/ \E r \in Runs : run[r] = "fresh" /\ run' = [run EXCEPT ![r] = "aged"] /\ UNCHANGED check
     \/ \E k \in Checks : check[k] = "fresh" /\ check' = [check EXCEPT ![k] = "aged"] /\ UNCHANGED run
  /\ UNCHANGED <<delivery, clearing, audit>>

---------------------------------------------------------------------------
(* Deletion. *)

\* A batch deletes all of these rows, or none if a delivery would lose its run.
ReferencesHeld(runs, deliveries) ==
  \A d \in Deliveries \ deliveries : Stored(d) => RunOf[d] \notin runs

Delete(runs, deliveries, checks) ==
  /\ run' = [r \in Runs |-> IF r \in runs THEN "gone" ELSE run[r]]
  /\ delivery' = [d \in Deliveries |-> IF d \in deliveries THEN "gone" ELSE delivery[d]]
  /\ check' = [k \in Checks |-> IF k \in checks THEN "gone" ELSE check[k]]

\* A rejected batch changes nothing, and the cron goes on.
PruneOperationalData ==
  LET deliveries == {d \in Deliveries : delivery[d] \in Settled /\ run[RunOf[d]] = "aged"}
      runs == {r \in Runs : run[r] = "aged"}
  IN
  /\ ReferencesHeld(runs, deliveries)
  /\ Delete(runs, deliveries, {k \in Checks : check[k] = "aged"})
  /\ UNCHANGED <<clearing, audit>>

\* parseHistoryScopes and expandHistoryScopes: some scopes, or all of them.
ClearHistory(c) ==
  /\ clearing[c].pc = "idle"
  /\ \E scopes \in SUBSET Scope \ {{}} :
       clearing' = [clearing EXCEPT ![c] = [NoClearing EXCEPT !.pc = "count",
                      !.scopes = scopes, !.todo = scopes]]
  /\ UNCHANGED <<run, delivery, check, audit>>

\* Bug: a skipped delivery is not deleted with the completed ones.
BadInScope(d, scopes) ==
  \/ "deliveries_completed" \in scopes /\ delivery[d] = "sent"
  \/ "deliveries_failed" \in scopes /\ delivery[d] = "failed"

InScope(d, scopes) ==
  \/ "deliveries_completed" \in scopes /\ delivery[d] \in {"sent", "skipped"}
  \/ "deliveries_failed" \in scopes /\ delivery[d] = "failed"

\* Counting, by the condition of each scope.
Completed(d) == delivery[d] \in {"sent", "skipped"}
Failed(d) == delivery[d] = "failed"

CountScope(c) ==
  /\ clearing[c].pc = "count"
  /\ \E scope \in clearing[c].todo :
       clearing' = [clearing EXCEPT ![c].todo = @ \ {scope},
         ![c].pc = IF clearing[c].todo = {scope} THEN "delete" ELSE "count",
         ![c].counted = @ \cup
           CASE scope = "runs" -> {r \in Runs : Present(run[r])}
             [] scope = "deliveries_completed" -> {d \in Deliveries : Completed(d)}
             [] scope = "deliveries_failed" -> {d \in Deliveries : Failed(d)}
             [] scope = "self_tests" -> {}]
  /\ UNCHANGED <<run, delivery, check, audit>>

\* Terminal deliveries first, then every run without an unsettled delivery.  The
\* batch fails when a settled delivery out of scope refers to such a run.
ClearHistoryScopes(c) ==
  LET scopes == clearing[c].scopes
      deliveries == {d \in Deliveries : InScope(d, scopes)}
      held == {RunOf[d] : d \in {e \in Deliveries : delivery[e] \in Unsettled}}
      runs == IF "runs" \in scopes THEN {r \in Runs : Present(run[r]) /\ r \notin held} ELSE {}
      checks == IF "self_tests" \in scopes THEN {k \in Checks : Present(check[k])} ELSE {}
      left == {d \in Deliveries : delivery[d] \in Unsettled}
        \cup (IF "deliveries_completed" \in scopes THEN {} ELSE {d \in Deliveries : Completed(d)})
        \cup (IF "deliveries_failed" \in scopes THEN {} ELSE {d \in Deliveries : Failed(d)})
  IN
  /\ clearing[c].pc = "delete"
  /\ \/ /\ ReferencesHeld(runs, deliveries)
        /\ Delete(runs, deliveries, checks)
        /\ clearing' = [clearing EXCEPT ![c].pc = "audit", ![c].excused = left \cup held]
     \/ /\ ~ReferencesHeld(runs, deliveries)
        /\ clearing' = [clearing EXCEPT ![c] = [NoClearing EXCEPT !.pc = "done"]]
        /\ UNCHANGED <<run, delivery, check>>
  /\ UNCHANGED audit

\* The audit row holds the counts that were taken before the deletion.
InsertAuditEvent(c) ==
  /\ clearing[c].pc = "audit"
  /\ audit' = audit \cup {[by |-> c, counted |-> clearing[c].counted, excused |-> clearing[c].excused]}
  /\ clearing' = [clearing EXCEPT ![c] = [NoClearing EXCEPT !.pc = "done"]]
  /\ UNCHANGED <<run, delivery, check>>

\* The request dies between two of its calls.
ClearingDies(c) ==
  /\ clearing[c].pc \in {"count", "delete", "audit"}
  /\ clearing' = [clearing EXCEPT ![c] = [NoClearing EXCEPT !.pc = "done"]]
  /\ UNCHANGED <<run, delivery, check, audit>>

---------------------------------------------------------------------------

RetentionInit ==
  /\ run = [r \in Runs |-> "none"]
  /\ delivery = [d \in Deliveries |-> "none"]
  /\ check = [k \in Checks |-> "none"]
  /\ clearing = [c \in Clearings |-> NoClearing]
  /\ audit = {}

RetentionNext ==
  \/ \E r \in Runs : CreateRunAndOutbox(r)
  \/ \E d \in Deliveries : Deliver(d)
  \/ \E k \in Checks : InsertHealthCheckRun(k)
  \/ GrowOld \/ PruneOperationalData
  \/ \E c \in Clearings : \/ ClearHistory(c) \/ CountScope(c) \/ ClearHistoryScopes(c)
                          \/ InsertAuditEvent(c) \/ ClearingDies(c)

RetentionSpec == RetentionInit /\ [][RetentionNext]_retentionVars

---------------------------------------------------------------------------

AuditRow == [by : Clearings, counted : SUBSET (Runs \cup Deliveries),
             excused : SUBSET (Runs \cup Deliveries)]

RetentionTypeOK ==
  /\ run \in [Runs -> Age] /\ check \in [Checks -> Age]
  /\ delivery \in [Deliveries -> Status]
  /\ clearing \in [Clearings -> Clearing]
  /\ audit \subseteq AuditRow

\* Every stored delivery has its run.
RunsKept == \A d \in Deliveries : Stored(d) => Present(run[RunOf[d]])

\* Neither the cron nor the owner deletes a delivery that is not settled, nor its
\* run: it stays until a dispatcher has settled it, however old it is.
UnsettledUntouched ==
  [][\A d \in Deliveries : delivery[d] \in Unsettled =>
       delivery'[d] \in Unsettled \cup Settled /\ Present(run'[RunOf[d]])]_retentionVars

\* An audit row tells of a deletion that took place: of what it counts nothing is
\* left but deliveries that had changed, and runs that an unsettled delivery
\* needed, when the deletion came.
ClearedIsGone ==
  \A row \in audit : \A x \in row.counted \ row.excused :
    IF x \in Runs THEN ~Present(run[x]) ELSE ~Stored(x)
=============================================================================
