-------------------------- MODULE RetentionProofs --------------------------
(* Theorems about Retention, for any runs, deliveries, checks and requests *)
(* to clear the history.                                                   *)
EXTENDS Retention, TLAPS

---------------------------------------------------------------------------
(* The tables.                                                             *)

TablesTypeOK ==
  /\ run \in [Runs -> Age] /\ check \in [Checks -> Age]
  /\ delivery \in [Deliveries -> Status]

\* No delivery is there before its run.
RunFirst == \A d \in Deliveries : run[RunOf[d]] = "none" => delivery[d] = "none"

TablesHold == TablesTypeOK /\ RunsKept /\ RunFirst

\* What any step leaves: a row that was written stays written, one that is gone
\* stays gone, and a delivery that is not settled keeps its run.
Fates ==
  /\ \A r \in Runs : /\ run[r] # "none" => run'[r] # "none"
                     /\ run[r] = "gone" => run'[r] = "gone"
  /\ \A d \in Deliveries : /\ delivery[d] # "none" => delivery'[d] # "none"
                           /\ delivery[d] = "gone" => delivery'[d] = "gone"
                           /\ delivery[d] \in Unsettled =>
                                /\ delivery'[d] \in Unsettled \cup Settled
                                /\ Present(run'[RunOf[d]])

LEMMA CreationKeeps ==
  ASSUME RetentionAssumption, TablesHold, NEW r \in Runs, CreateRunAndOutbox(r)
  PROVE  TablesHold' /\ Fates
<1>1. PICK first \in [{d \in Deliveries : RunOf[d] = r} -> {"none", "pending", "skipped"}] :
        delivery' = [d \in Deliveries |-> IF RunOf[d] = r THEN first[d] ELSE delivery[d]]
  BY DEF CreateRunAndOutbox
<1>2. /\ run[r] = "none" /\ run' = [run EXCEPT ![r] = "fresh"] /\ check' = check
      /\ run \in [Runs -> Age] /\ delivery \in [Deliveries -> Status] /\ RunOf \in [Deliveries -> Runs]
  BY DEF CreateRunAndOutbox, TablesHold, TablesTypeOK, RetentionAssumption
<1>3. \A d \in Deliveries : IF RunOf[d] = r
        THEN delivery[d] = "none" /\ delivery'[d] \in {"none", "pending", "skipped"} /\ run'[RunOf[d]] = "fresh"
        ELSE delivery'[d] = delivery[d] /\ run'[RunOf[d]] = run[RunOf[d]]
  BY <1>1, <1>2 DEF TablesHold, RunFirst
<1>4. \A s \in Runs : run'[s] = IF s = r THEN "fresh" ELSE run[s]
  BY <1>2
<1>5. TablesTypeOK'
  <2>1. run' \in [Runs -> Age]
    BY <1>2 DEF Age
  <2>2. \A d \in Deliveries : delivery'[d] \in Status
    BY <1>2, <1>3 DEF Status
  <2>3. delivery' = [d \in Deliveries |-> delivery'[d]]
    BY <1>1
  <2> QED BY <1>2, <2>1, <2>2, <2>3 DEF TablesTypeOK, TablesHold
<1>6. RunsKept' /\ RunFirst'
  BY <1>2, <1>3 DEF TablesHold, RunsKept, RunFirst, Stored, Present, Unsettled
<1>7. Fates
  BY <1>2, <1>3, <1>4 DEF Fates, TablesHold, RunsKept, Stored, Present, Unsettled, Settled
<1> QED BY <1>5, <1>6, <1>7 DEF TablesHold

LEMMA DeliveryKeeps ==
  ASSUME RetentionAssumption, TablesHold, NEW e \in Deliveries, Deliver(e)
  PROVE  TablesHold' /\ Fates
<1>1. /\ run' = run /\ check' = check /\ run \in [Runs -> Age]
      /\ delivery \in [Deliveries -> Status] /\ RunOf \in [Deliveries -> Runs]
  BY DEF Deliver, TablesHold, TablesTypeOK, RetentionAssumption
<1>2. PICK status \in {"pending", "processing", "sent", "failed"} :
        delivery' = [delivery EXCEPT ![e] = status] /\ delivery[e] \in {"pending", "processing", "failed"}
  BY DEF Deliver
<1>3. \A d \in Deliveries : delivery'[d] = IF d = e THEN status ELSE delivery[d]
  BY <1>1, <1>2
<1>4. TablesTypeOK'
  BY <1>1, <1>2 DEF TablesTypeOK, TablesHold, Status
<1>5. RunsKept' /\ RunFirst' /\ Fates
  BY <1>1, <1>2, <1>3 DEF TablesHold, RunsKept, RunFirst, Fates, Stored, Present, Unsettled, Settled
<1> QED BY <1>4, <1>5 DEF TablesHold

LEMMA CheckOrAgeKeeps ==
  ASSUME RetentionAssumption, TablesHold, GrowOld \/ \E k \in Checks : InsertHealthCheckRun(k)
  PROVE  TablesHold' /\ Fates
<1>1. /\ delivery' = delivery /\ run \in [Runs -> Age] /\ check \in [Checks -> Age]
      /\ delivery \in [Deliveries -> Status] /\ RunOf \in [Deliveries -> Runs]
  BY DEF GrowOld, InsertHealthCheckRun, TablesHold, TablesTypeOK, RetentionAssumption
<1>2. check' \in [Checks -> Age]
  BY <1>1 DEF GrowOld, InsertHealthCheckRun, Age
<1>3. /\ run' \in [Runs -> Age]
      /\ \A r \in Runs : run'[r] = run[r] \/ (run[r] = "fresh" /\ run'[r] = "aged")
  BY <1>1 DEF GrowOld, InsertHealthCheckRun, Age
<1>4. TablesTypeOK'
  BY <1>1, <1>2, <1>3 DEF TablesTypeOK
<1>5. RunsKept' /\ RunFirst' /\ Fates
  BY <1>1, <1>3 DEF TablesHold, RunsKept, RunFirst, Fates, Stored, Present, Unsettled, Settled
<1> QED BY <1>4, <1>5 DEF TablesHold

\* A deletion that takes only settled deliveries and leaves none without its run.
LEMMA DeletionKeeps ==
  ASSUME RetentionAssumption, TablesHold,
         NEW runs, NEW deliveries, NEW checks,
         \A d \in Deliveries : d \in deliveries => delivery[d] \in Settled,
         \A r \in Runs : r \in runs => Present(run[r]),
         ReferencesHeld(runs, deliveries), Delete(runs, deliveries, checks)
  PROVE  /\ TablesHold' /\ Fates
         /\ \A r \in Runs : run'[r] = IF r \in runs THEN "gone" ELSE run[r]
         /\ \A d \in Deliveries : delivery'[d] = IF d \in deliveries THEN "gone" ELSE delivery[d]
<1>1. /\ run \in [Runs -> Age] /\ check \in [Checks -> Age]
      /\ delivery \in [Deliveries -> Status] /\ RunOf \in [Deliveries -> Runs]
  BY DEF TablesHold, TablesTypeOK, RetentionAssumption
<1>2. /\ \A r \in Runs : run'[r] = IF r \in runs THEN "gone" ELSE run[r]
      /\ \A d \in Deliveries : delivery'[d] = IF d \in deliveries THEN "gone" ELSE delivery[d]
  BY DEF Delete
<1>3. TablesTypeOK'
  <2>1. run' \in [Runs -> Age]
    BY <1>1 DEF Delete, Age
  <2>2. check' \in [Checks -> Age]
    BY <1>1 DEF Delete, Age
  <2>3. delivery' \in [Deliveries -> Status]
    BY <1>1 DEF Delete, Status
  <2> QED BY <2>1, <2>2, <2>3 DEF TablesTypeOK
<1>4. \A d \in Deliveries : delivery'[d] # "gone" /\ Stored(d) =>
        delivery'[d] = delivery[d] /\ Present(run'[RunOf[d]])
  BY <1>1, <1>2 DEF ReferencesHeld, TablesHold, RunsKept, Stored, Unsettled
<1>5. RunsKept'
  BY <1>1, <1>2, <1>4 DEF RunsKept, Stored, Unsettled
<1>6. RunFirst'
  BY <1>1, <1>2 DEF RunFirst, TablesHold, RunsKept, Stored, Settled, Present
<1>7. Fates
  <2>1. \A d \in Deliveries : delivery[d] \in Unsettled => d \notin deliveries /\ Stored(d)
    BY DEF Unsettled, Settled, Stored
  <2> QED BY <1>1, <1>2, <1>4, <2>1 DEF Fates, Settled, Unsettled, Present
<1> QED BY <1>2, <1>3, <1>5, <1>6, <1>7 DEF TablesHold

LEMMA PruneKeeps ==
  ASSUME RetentionAssumption, TablesHold, PruneOperationalData
  PROVE  TablesHold' /\ Fates
<1> DEFINE deliveries == {d \in Deliveries : delivery[d] \in Settled /\ run[RunOf[d]] = "aged"}
           runs == {r \in Runs : run[r] = "aged"}
<1>1. /\ \A d \in Deliveries : d \in deliveries => delivery[d] \in Settled
      /\ \A r \in Runs : r \in runs => Present(run[r])
  BY DEF Present
<1>2. ReferencesHeld(runs, deliveries) /\ Delete(runs, deliveries, {k \in Checks : check[k] = "aged"})
  BY DEF PruneOperationalData
<1> HIDE DEF deliveries, runs
<1> QED BY <1>1, <1>2, DeletionKeeps

LEMMA StillKeeps ==
  ASSUME TablesHold, run' = run, delivery' = delivery, check' = check
  PROVE  TablesHold' /\ Fates
<1>1. TablesHold'
  BY DEF TablesHold, TablesTypeOK, RunsKept, RunFirst, Stored, Present
<1>2. Fates
  BY DEF TablesHold, Fates, RunsKept, Stored, Unsettled, Settled, Present
<1> QED BY <1>1, <1>2

---------------------------------------------------------------------------
(* The requests to clear the history, and their audit rows.                *)

Written(x) == IF x \in Runs THEN run[x] # "none" ELSE delivery[x] # "none"
Erased(x) == IF x \in Runs THEN run[x] = "gone" ELSE delivery[x] = "gone"

\* What a request has counted was there, in one of its scopes; after its deletion
\* the rest, but for what that excused, is erased.
Counts ==
  \A c \in Clearings :
    /\ clearing[c].todo \subseteq clearing[c].scopes
    /\ clearing[c].pc \in {"idle", "done"} => clearing[c] = [NoClearing EXCEPT !.pc = clearing[c].pc]
    /\ \A x \in clearing[c].counted : Written(x) /\ (x \in Runs => "runs" \in clearing[c].scopes)
    /\ clearing[c].pc = "audit" => \A x \in clearing[c].counted \ clearing[c].excused : Erased(x)

AuditsTell == \A row \in audit : \A x \in row.counted \ row.excused : Erased(x)

RetentionInv == RetentionTypeOK /\ TablesHold /\ Counts /\ AuditsTell

LEMMA Lasting ==
  ASSUME RetentionAssumption, Fates, NEW x \in Runs \cup Deliveries
  PROVE  (Written(x) => Written(x)') /\ (Erased(x) => Erased(x)')
BY DEF Fates, Written, Erased

\* Only the tables change.
LEMMA TablesOnly ==
  ASSUME RetentionAssumption, RetentionInv, TablesHold', Fates, clearing' = clearing, audit' = audit
  PROVE  RetentionInv'
<1>1. clearing \in [Clearings -> Clearing] /\ audit \subseteq AuditRow
  BY DEF RetentionInv, RetentionTypeOK
<1>2. RetentionTypeOK'
  BY <1>1 DEF TablesHold, TablesTypeOK, RetentionTypeOK
<1>3. Counts'
  BY <1>1, Lasting DEF RetentionInv, Counts, Clearing
<1>4. AuditsTell'
  BY <1>1, Lasting DEF RetentionInv, AuditsTell, AuditRow
<1> QED BY <1>2, <1>3, <1>4 DEF RetentionInv

\* One request goes on, and perhaps writes its audit row.
LEMMA OneClearing ==
  ASSUME RetentionAssumption, RetentionInv, TablesHold', Fates, NEW c \in Clearings, NEW q \in Clearing,
         clearing' = [clearing EXCEPT ![c] = q],
         q.todo \subseteq q.scopes,
         q.pc \in {"idle", "done"} => q = [NoClearing EXCEPT !.pc = q.pc],
         \A x \in q.counted : Written(x)' /\ (x \in Runs => "runs" \in q.scopes),
         q.pc = "audit" => \A x \in q.counted \ q.excused : Erased(x)',
         audit' = audit
  PROVE  RetentionInv'
<1>1. clearing \in [Clearings -> Clearing] /\ audit \subseteq AuditRow
  BY DEF RetentionInv, RetentionTypeOK
<1>2. \A d \in Clearings : clearing'[d] = IF d = c THEN q ELSE clearing[d]
  BY <1>1
<1>3. RetentionTypeOK'
  BY <1>1 DEF TablesHold, TablesTypeOK, RetentionTypeOK
<1>4. Counts'
  <2> SUFFICES ASSUME NEW d \in Clearings
      PROVE  /\ clearing'[d].todo \subseteq clearing'[d].scopes
             /\ clearing'[d].pc \in {"idle", "done"} => clearing'[d] = [NoClearing EXCEPT !.pc = clearing'[d].pc]
             /\ \A x \in clearing'[d].counted : Written(x)' /\ (x \in Runs => "runs" \in clearing'[d].scopes)
             /\ clearing'[d].pc = "audit" => \A x \in clearing'[d].counted \ clearing'[d].excused : Erased(x)'
    BY DEF Counts
  <2>1. CASE d = c
    BY <1>2, <2>1
  <2>2. CASE d # c
    <3>1. clearing'[d] = clearing[d] /\ clearing[d].counted \subseteq Runs \cup Deliveries
      BY <1>1, <1>2, <2>2 DEF Clearing
    <3> QED BY <3>1, Lasting DEF RetentionInv, Counts
  <2> QED BY <2>1, <2>2
<1>5. AuditsTell'
  BY <1>1, Lasting DEF RetentionInv, AuditsTell, AuditRow
<1> QED BY <1>3, <1>4, <1>5 DEF RetentionInv

LEMMA RetentionInitInv == ASSUME RetentionAssumption, RetentionInit PROVE RetentionInv
<1>1. NoClearing \in Clearing
  BY DEF NoClearing, Clearing
<1>2. RetentionTypeOK /\ TablesTypeOK
  BY <1>1 DEF RetentionInit, RetentionTypeOK, TablesTypeOK, Age, Status
<1>3. RunsKept /\ RunFirst
  BY DEF RetentionInit, RunsKept, RunFirst, Stored, Unsettled
<1>4. Counts /\ AuditsTell
  BY DEF RetentionInit, Counts, AuditsTell, NoClearing
<1> QED BY <1>2, <1>3, <1>4 DEF RetentionInv, TablesHold

LEMMA ClearingEnds ==
  ASSUME RetentionAssumption, RetentionInv, TablesHold', Fates, NEW c \in Clearings, audit' = audit,
         clearing' = [clearing EXCEPT ![c] = [NoClearing EXCEPT !.pc = "done"]]
  PROVE  RetentionInv'
<1> DEFINE q == [NoClearing EXCEPT !.pc = "done"]
<1>1. /\ q \in Clearing /\ q.todo = {} /\ q.counted = {} /\ q.pc = "done"
      /\ q = [NoClearing EXCEPT !.pc = q.pc]
  BY DEF NoClearing, Clearing
<1> HIDE DEF q
<1>2. clearing' = [clearing EXCEPT ![c] = q]
  BY DEF q
<1> QED BY <1>1, <1>2, OneClearing

LEMMA CountKeeps ==
  ASSUME RetentionAssumption, RetentionInv, NEW c \in Clearings, CountScope(c)
  PROVE  RetentionInv'
<1>1. /\ TablesHold' /\ Fates /\ clearing \in [Clearings -> Clearing] /\ audit' = audit
      /\ run' = run /\ delivery' = delivery
  BY StillKeeps DEF CountScope, RetentionInv, RetentionTypeOK
<1>2. PICK scope \in clearing[c].todo :
       clearing' = [clearing EXCEPT ![c].todo = @ \ {scope},
         ![c].pc = IF clearing[c].todo = {scope} THEN "delete" ELSE "count",
         ![c].counted = @ \cup
           CASE scope = "runs" -> {r \in Runs : Present(run[r])}
             [] scope = "deliveries_completed" -> {d \in Deliveries : Completed(d)}
             [] scope = "deliveries_failed" -> {d \in Deliveries : Failed(d)}
             [] scope = "self_tests" -> {}]
  BY DEF CountScope
<1> DEFINE new == CASE scope = "runs" -> {r \in Runs : Present(run[r])}
                    [] scope = "deliveries_completed" -> {d \in Deliveries : Completed(d)}
                    [] scope = "deliveries_failed" -> {d \in Deliveries : Failed(d)}
                    [] scope = "self_tests" -> {}
           q == [clearing[c] EXCEPT !.todo = @ \ {scope},
                   !.pc = IF clearing[c].todo = {scope} THEN "delete" ELSE "count",
                   !.counted = @ \cup new]
<1>3. scope \in Scope /\ scope \in clearing[c].scopes /\ clearing[c] \in Clearing
  BY <1>1 DEF Clearing, RetentionInv, Counts
<1>4. /\ new \subseteq Runs \cup Deliveries
      /\ \A x \in new : Written(x) /\ (x \in Runs => scope = "runs")
  <2>1. CASE scope = "runs"
    <3>1. new = {r \in Runs : Present(run[r])}
      BY <2>1
    <3> HIDE DEF new
    <3> QED BY <2>1, <3>1 DEF Written, Present
  <2>2. CASE scope = "deliveries_completed"
    <3>1. new = {d \in Deliveries : Completed(d)}
      BY <2>2
    <3> HIDE DEF new
    <3> QED BY <2>2, <3>1, RetentionAssumption DEF Written, Completed, RetentionAssumption
  <2>3. CASE scope = "deliveries_failed"
    <3>1. new = {d \in Deliveries : Failed(d)}
      BY <2>3
    <3> HIDE DEF new
    <3> QED BY <2>3, <3>1, RetentionAssumption DEF Written, Failed, RetentionAssumption
  <2>4. CASE scope = "self_tests"
    BY <2>4
  <2> QED BY <1>3, <2>1, <2>2, <2>3, <2>4 DEF Scope
<1>5. clearing' = [clearing EXCEPT ![c] = q]
  BY <1>1, <1>2
<1> HIDE DEF new
<1>6. /\ q \in Clearing /\ q.scopes = clearing[c].scopes /\ q.todo \subseteq clearing[c].todo
      /\ q.counted = clearing[c].counted \cup new /\ q.pc \in {"count", "delete"}
  BY <1>3, <1>4 DEF Clearing
<1> HIDE DEF q
<1>7. \A x \in q.counted : Written(x)' /\ (x \in Runs => "runs" \in q.scopes)
  <2>1. \A x \in q.counted : Written(x) /\ (x \in Runs => "runs" \in q.scopes)
    BY <1>3, <1>4, <1>6 DEF RetentionInv, Counts
  <2> QED BY <1>1, <2>1 DEF Written
<1>8. q.todo \subseteq q.scopes
  BY <1>6 DEF RetentionInv, Counts
<1> QED BY <1>1, <1>5, <1>6, <1>7, <1>8, OneClearing

\* After the deletion nothing that was counted is left, but for what excuses it.
LEMMA ClearKeeps ==
  ASSUME RetentionAssumption, RetentionInv, NEW c \in Clearings, ClearHistoryScopes(c)
  PROVE  RetentionInv' /\ TablesHold' /\ Fates
<1> DEFINE scopes == clearing[c].scopes
           deliveries == {d \in Deliveries : InScope(d, scopes)}
           held == {RunOf[d] : d \in {e \in Deliveries : delivery[e] \in Unsettled}}
           runs == IF "runs" \in scopes THEN {r \in Runs : Present(run[r]) /\ r \notin held} ELSE {}
           checks == IF "self_tests" \in scopes THEN {k \in Checks : Present(check[k])} ELSE {}
           left == {d \in Deliveries : delivery[d] \in Unsettled}
             \cup (IF "deliveries_completed" \in scopes THEN {} ELSE {d \in Deliveries : Completed(d)})
             \cup (IF "deliveries_failed" \in scopes THEN {} ELSE {d \in Deliveries : Failed(d)})
           q == [clearing[c] EXCEPT !.pc = "audit", !.excused = left \cup held]
<1>1. /\ clearing \in [Clearings -> Clearing] /\ clearing[c] \in Clearing /\ audit' = audit
      /\ clearing[c].pc = "delete" /\ TablesHold
  BY DEF RetentionInv, RetentionTypeOK, ClearHistoryScopes
<1>2. CASE ~ReferencesHeld(runs, deliveries)
  <2>1. /\ clearing' = [clearing EXCEPT ![c] = [NoClearing EXCEPT !.pc = "done"]]
        /\ run' = run /\ delivery' = delivery /\ check' = check
    BY <1>2 DEF ClearHistoryScopes
  <2> QED BY <1>1, <2>1, StillKeeps, ClearingEnds
<1>3. CASE ReferencesHeld(runs, deliveries)
  <2>1. /\ Delete(runs, deliveries, checks)
        /\ clearing' = [clearing EXCEPT ![c].pc = "audit", ![c].excused = left \cup held]
    BY <1>3 DEF ClearHistoryScopes
  <2>2. clearing' = [clearing EXCEPT ![c] = q]
    BY <1>1, <2>1
  <2>3. /\ \A d \in Deliveries : d \in deliveries => delivery[d] \in Settled
        /\ \A r \in Runs : r \in runs => Present(run[r])
    BY DEF InScope, Settled
  <2>4. left \cup held \subseteq Runs \cup Deliveries
    BY RetentionAssumption DEF RetentionAssumption
  <2>5. \A r \in Runs : r \in runs <=> "runs" \in scopes /\ Present(run[r]) /\ r \notin held
    OBVIOUS
  <2>6. \A d \in Deliveries :
          /\ d \in deliveries <=> InScope(d, scopes)
          /\ d \in left <=> \/ delivery[d] \in Unsettled
                            \/ "deliveries_completed" \notin scopes /\ Completed(d)
                            \/ "deliveries_failed" \notin scopes /\ Failed(d)
    OBVIOUS
  <2>7. /\ q \in Clearing /\ q.todo = clearing[c].todo /\ q.scopes = scopes /\ q.pc = "audit"
        /\ q.counted = clearing[c].counted /\ q.excused = left \cup held
    <3> HIDE DEF left, held
    <3> QED BY <1>1, <2>4 DEF Clearing
  <2> HIDE DEF runs, deliveries, checks, left, held, q
  <2>8. /\ TablesHold' /\ Fates
        /\ \A r \in Runs : run'[r] = IF r \in runs THEN "gone" ELSE run[r]
        /\ \A d \in Deliveries : delivery'[d] = IF d \in deliveries THEN "gone" ELSE delivery[d]
    BY <1>1, <1>3, <2>1, <2>3, DeletionKeeps
  <2>9. ASSUME NEW x \in q.counted
        PROVE  /\ Written(x)' /\ (x \in Runs => "runs" \in q.scopes)
               /\ x \notin q.excused => Erased(x)'
    <3>1. /\ x \in Runs \cup Deliveries /\ Written(x) /\ (x \in Runs => "runs" \in scopes)
      BY <1>1, <2>7, <2>9 DEF RetentionInv, Counts, Clearing
    <3>2. Written(x)'
      BY <3>1, <2>8, Lasting
    <3>3. CASE x \in Runs
      <4>1. run[x] \in Age /\ run[x] # "none"
        BY <3>1, <3>3, <1>1 DEF TablesHold, TablesTypeOK, Written
      <4> QED BY <3>1, <3>2, <3>3, <4>1, <2>5, <2>7, <2>8 DEF Erased, Age, Present
    <3>4. CASE x \notin Runs
      <4>1. x \in Deliveries /\ delivery[x] \in Status /\ delivery[x] # "none"
        BY <3>1, <3>4, <1>1 DEF TablesHold, TablesTypeOK, Written
      <4>2. delivery[x] = "gone" \/ x \in left \/ x \in deliveries
        BY <4>1, <2>6 DEF Status, Unsettled, Completed, Failed, InScope
      <4> QED BY <3>1, <3>2, <3>4, <4>1, <4>2, <2>7, <2>8 DEF Erased
    <3> QED BY <3>3, <3>4
  <2>10. q.todo \subseteq q.scopes
    BY <2>7 DEF RetentionInv, Counts
  <2> QED BY <1>1, <2>2, <2>7, <2>8, <2>9, <2>10, OneClearing
<1> QED BY <1>2, <1>3

LEMMA RetentionNextInv ==
  ASSUME RetentionAssumption, RetentionInv, [RetentionNext]_retentionVars
  PROVE  RetentionInv' /\ Fates
<1> USE RetentionAssumption, RetentionInv
<1>0. TablesHold /\ clearing \in [Clearings -> Clearing] /\ audit \subseteq AuditRow
  BY DEF RetentionInv, RetentionTypeOK
<1>1. CASE UNCHANGED retentionVars
  BY <1>0, <1>1, StillKeeps, TablesOnly DEF retentionVars
<1>2. ASSUME NEW r \in Runs, CreateRunAndOutbox(r) PROVE RetentionInv' /\ Fates
  BY <1>0, <1>2, CreationKeeps, TablesOnly DEF CreateRunAndOutbox
<1>3. ASSUME NEW d \in Deliveries, Deliver(d) PROVE RetentionInv' /\ Fates
  BY <1>0, <1>3, DeliveryKeeps, TablesOnly DEF Deliver
<1>4. ASSUME NEW k \in Checks, InsertHealthCheckRun(k) PROVE RetentionInv' /\ Fates
  BY <1>0, <1>4, CheckOrAgeKeeps, TablesOnly DEF InsertHealthCheckRun
<1>5. CASE GrowOld
  BY <1>0, <1>5, CheckOrAgeKeeps, TablesOnly DEF GrowOld
<1>6. CASE PruneOperationalData
  BY <1>0, <1>6, PruneKeeps, TablesOnly DEF PruneOperationalData
<1>7. ASSUME NEW c \in Clearings, ClearHistory(c) PROVE RetentionInv' /\ Fates
  <2>1. TablesHold' /\ Fates /\ audit' = audit
    BY <1>0, <1>7, StillKeeps DEF ClearHistory
  <2>2. PICK scopes \in SUBSET Scope \ {{}} :
          clearing' = [clearing EXCEPT ![c] = [NoClearing EXCEPT !.pc = "count",
                         !.scopes = scopes, !.todo = scopes]]
    BY <1>7 DEF ClearHistory
  <2> DEFINE q == [NoClearing EXCEPT !.pc = "count", !.scopes = scopes, !.todo = scopes]
  <2>3. q \in Clearing /\ q.todo \subseteq q.scopes /\ q.counted = {} /\ q.pc = "count"
    BY DEF NoClearing, Clearing
  <2>4. clearing' = [clearing EXCEPT ![c] = q]
    BY <2>2
  <2> HIDE DEF q
  <2> QED BY <2>1, <2>3, <2>4, OneClearing
<1>8. ASSUME NEW c \in Clearings, CountScope(c) PROVE RetentionInv' /\ Fates
  BY <1>0, <1>8, CountKeeps, StillKeeps DEF CountScope
<1>9. ASSUME NEW c \in Clearings, ClearHistoryScopes(c) PROVE RetentionInv' /\ Fates
  BY <1>9, ClearKeeps
<1>10. ASSUME NEW c \in Clearings, InsertAuditEvent(c) PROVE RetentionInv' /\ Fates
  <2> DEFINE row == [by |-> c, counted |-> clearing[c].counted, excused |-> clearing[c].excused]
             q == [NoClearing EXCEPT !.pc = "done"]
  <2>1. /\ TablesHold' /\ Fates /\ run' = run /\ delivery' = delivery /\ check' = check
        /\ audit' = audit \cup {row} /\ clearing' = [clearing EXCEPT ![c] = q]
        /\ clearing[c].pc = "audit" /\ clearing[c] \in Clearing
    BY <1>0, <1>10, StillKeeps DEF InsertAuditEvent
  <2>2. row \in AuditRow /\ row.counted = clearing[c].counted /\ row.excused = clearing[c].excused
    BY <2>1 DEF AuditRow, Clearing
  <2>3. /\ q \in Clearing /\ q.todo = {} /\ q.counted = {} /\ q.pc = "done"
        /\ q = [NoClearing EXCEPT !.pc = q.pc]
    BY DEF NoClearing, Clearing
  <2>4. \A x \in row.counted \ row.excused : Erased(x)
    BY <2>1, <2>2 DEF RetentionInv, Counts
  <2> HIDE DEF row, q
  <2>5. AuditsTell'
    BY <2>1, <2>4 DEF RetentionInv, AuditsTell, Erased
  <2>6. Counts'
    BY <1>0, <2>1, <2>3 DEF RetentionInv, Counts, Written, Erased
  <2>7. RetentionTypeOK'
    BY <1>0, <2>1, <2>2, <2>3 DEF RetentionTypeOK, TablesHold, TablesTypeOK
  <2> QED BY <2>1, <2>5, <2>6, <2>7 DEF RetentionInv
<1>11. ASSUME NEW c \in Clearings, ClearingDies(c) PROVE RetentionInv' /\ Fates
  BY <1>0, <1>11, StillKeeps, ClearingEnds DEF ClearingDies
<1> QED BY <1>1, <1>2, <1>3, <1>4, <1>5, <1>6, <1>7, <1>8, <1>9, <1>10, <1>11 DEF RetentionNext

LEMMA RetentionInvHolds == RetentionSpec => []RetentionInv
<1>1. RetentionInit => RetentionInv
  BY RetentionInitInv, RetentionAssumption
<1>2. RetentionInv /\ [RetentionNext]_retentionVars => RetentionInv'
  BY RetentionNextInv, RetentionAssumption
<1> QED BY <1>1, <1>2, PTL DEF RetentionSpec

---------------------------------------------------------------------------

\* TablesHold, requests and audit rows keep their types.
THEOREM RetentionTypeCorrect == RetentionSpec => []RetentionTypeOK
<1>1. RetentionInv => RetentionTypeOK
  BY DEF RetentionInv
<1> QED BY <1>1, RetentionInvHolds, PTL

\* Neither the prune nor a request leaves a delivery without its run.
THEOREM ReferencesKept == RetentionSpec => []RunsKept
<1>1. RetentionInv => RunsKept
  BY DEF RetentionInv, TablesHold
<1> QED BY <1>1, RetentionInvHolds, PTL

\* No deletion takes a delivery that is not settled, or its run.
THEOREM UnsettledKept == RetentionSpec => UnsettledUntouched
<1>1. RetentionInv /\ [RetentionNext]_retentionVars =>
        [\A d \in Deliveries : delivery[d] \in Unsettled =>
           delivery'[d] \in Unsettled \cup Settled /\ Present(run'[RunOf[d]])]_retentionVars
  BY RetentionNextInv, RetentionAssumption DEF Fates
<1> QED BY <1>1, RetentionInvHolds, PTL DEF RetentionSpec, UnsettledUntouched

\* What an audit row counts is gone, but for what changed before the deletion.
THEOREM AuditTrue == RetentionSpec => []ClearedIsGone
<1>1. RetentionInv => ClearedIsGone
  <2>1. \A x \in Runs \cup Deliveries :
          Erased(x) => IF x \in Runs THEN ~Present(run[x]) ELSE ~Stored(x)
    BY DEF Erased, Present, Stored, Unsettled
  <2> QED BY <2>1 DEF RetentionInv, RetentionTypeOK, AuditsTell, AuditRow, ClearedIsGone
<1> QED BY <1>1, RetentionInvHolds, PTL
=============================================================================
