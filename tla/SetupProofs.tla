--------------------------- MODULE SetupProofs ----------------------------
(* Theorems about the two sequences of steps that set the site up.         *)
(* Deployment: for any commits, tables and columns, however often the      *)
(* deployments of these commits are run, fail, are run again and are       *)
(* rolled back.  AccessSetup: for any account that the script may meet,    *)
(* however many commands die half way.                                     *)
EXTENDS Deployment, AccessSetup, TLAPS, FiniteSetTheorems, SequenceTheorems

---------------------------------------------------------------------------
(* The deployment: the inductive invariant.                                *)

\* D1 has what is asked of it by every Worker ever uploaded, and by every commit
\* whose schema job succeeded, even if that was in an earlier attempt.
Ahead ==
  \A c \in Commits : c \in worker.uploaded \/ "schema" \in passed[c] => SchemaVerified(c)

\* Only an uploaded version is live, or becomes live again.
Known ==
  /\ worker.live \in worker.uploaded /\ worker.newest \in worker.uploaded
  /\ rollbackRun.step = "worker" => rollbackRun.version \in worker.uploaded
  /\ rollbackRun.step = "pages" => rollbackRun.deployment \in Commits

\* What the concurrency group is for.
Exclusive == deployRun.commit # NoCommit => rollbackRun.step = "none"

\* What the place a deployment has reached says of its jobs.
WorkerSteps == {"preflight", "secrets", "admin", "main", "record"}

Stage ==
  LET c == deployRun.commit IN
  c # NoCommit =>
    /\ deployRun.step \in WorkerSteps => "schema" \in passed[c] /\ "worker" \notin passed[c]
    /\ deployRun.step = "record" => worker.live = c
    /\ deployRun.step = "site" => "pages" \notin passed[c]
    /\ deployRun.step = "verify" => {"worker", "pages"} \subseteq passed[c]

VerifiedLast ==
  \A c \in Commits : "verify" \in passed[c] => {"worker", "pages"} \subseteq passed[c]

\* A run whose jobs all ran in this attempt finds its own work in place.
Undisturbed ==
  LET c == deployRun.commit IN
  c # NoCommit /\ deployRun.whole =>
    /\ "worker" \in passed[c] => worker.live = c
    /\ "pages" \in passed[c] => pages.live = c

DeploymentInv == /\ DeploymentTypeOK /\ Ahead /\ Known /\ Exclusive /\ Stage /\ VerifiedLast
        /\ Undisturbed

---------------------------------------------------------------------------
(* How a step leaves the run that it belongs to.                           *)

LEMMA Current ==
  ASSUME DeploymentTypeOK, deployRun.commit # NoCommit
  PROVE  deployRun.commit \in Commits /\ deployRun \in DeployRun
BY DEF DeploymentTypeOK, DeployRun

LEMMA NoRunFacts ==
  /\ NoRun \in DeployRun /\ NoRun.commit = NoCommit /\ NoRun.step = "between"
  /\ NoRollback \in RollbackRun /\ NoRollback.step = "none"
BY DEF NoRun, DeployRun, Step, NoRollback, RollbackRun

\* The run goes to a step that its succeeded jobs allow.
Moves(step) ==
  /\ deployRun' \in DeployRun /\ deployRun'.step = step
  /\ deployRun'.commit = deployRun.commit /\ deployRun'.whole = deployRun.whole

Passes(j) ==
  /\ Moves("between") /\ passed' \in [Commits -> SUBSET Job]
  /\ \A c \in Commits : passed'[c] = IF c = deployRun.commit THEN passed[c] \cup {j} ELSE passed[c]

LEMMA MoveFacts ==
  ASSUME DeploymentTypeOK, deployRun.commit # NoCommit, NEW step \in Step,
         deployRun' = [deployRun EXCEPT !.step = step]
  PROVE  Moves(step)
BY Current DEF Moves, DeployRun

LEMMA PassFacts ==
  ASSUME DeploymentTypeOK, deployRun.commit # NoCommit, NEW j \in Job, PassJob(j)
  PROVE  Passes(j)
<1>1. Moves("between")
  BY MoveFacts DEF PassJob, Step
<1>2. passed \in [Commits -> SUBSET Job] /\ passed' = [passed EXCEPT ![deployRun.commit] = @ \cup {j}]
  BY DEF PassJob, DeploymentTypeOK
<1>3. passed' \in [Commits -> SUBSET Job]
  BY <1>2, Current
<1>4. \A c \in Commits : passed'[c] = IF c = deployRun.commit THEN passed[c] \cup {j} ELSE passed[c]
  BY <1>2
<1> QED BY <1>1, <1>3, <1>4 DEF Passes

---------------------------------------------------------------------------
(* Steps by what they change.                                              *)

\* The run is over; a service may have been changed by its last step.
LEMMA EndKeeps ==
  ASSUME DeploymentInv, Known', Ahead', deployRun' = NoRun, passed' = passed, rollbackRun' = rollbackRun,
         d1' \in [tables : SUBSET Tables, columns : SUBSET Columns],
         worker' \in Deployed, pages' \in Deployed, admin' \in Commits, released' \subseteq Commits
  PROVE  DeploymentInv'
<1>1. DeploymentTypeOK'
  BY NoRunFacts DEF DeploymentInv, DeploymentTypeOK
<1>2. Exclusive' /\ Stage' /\ Undisturbed'
  BY NoRunFacts DEF Exclusive, Stage, Undisturbed
<1>3. VerifiedLast'
  BY DEF DeploymentInv, VerifiedLast
<1> QED BY <1>1, <1>2, <1>3 DEF DeploymentInv

\* The run takes a step within its Worker job; if the Worker that is live is not
\* the run's, its step is not the last.
LEMMA WorkerStepKeeps ==
  ASSUME DeploymentInv, Known', Ahead', deployRun.commit # NoCommit, deployRun.step \in WorkerSteps,
         NEW step \in WorkerSteps, Moves(step), step = "record" => worker'.live = deployRun.commit,
         passed' = passed, rollbackRun' = rollbackRun, d1' = d1, pages' = pages, released' = released,
         worker' \in Deployed, admin' \in Commits
  PROVE  DeploymentInv'
<1>1. DeploymentTypeOK'
  BY DEF DeploymentInv, DeploymentTypeOK, Moves
<1>2. Exclusive'
  BY DEF DeploymentInv, Exclusive, Moves
<1>3. Stage' /\ Undisturbed'
  BY DEF DeploymentInv, Stage, Undisturbed, Moves, WorkerSteps
<1>4. VerifiedLast'
  BY DEF DeploymentInv, VerifiedLast
<1> QED BY <1>1, <1>2, <1>3, <1>4 DEF DeploymentInv

\* D1 grows, within the schema job.
LEMMA SchemaStepKeeps ==
  ASSUME DeploymentInv, d1' \in [tables : SUBSET Tables, columns : SUBSET Columns],
         d1.tables \subseteq d1'.tables, d1.columns \subseteq d1'.columns,
         deployRun' \in DeployRun,
         \/ deployRun' = NoRun
         \/ /\ deployRun'.commit = deployRun.commit /\ deployRun'.whole = deployRun.whole
            /\ deployRun'.step \in {"alter", "check"} /\ deployRun.commit # NoCommit,
         UNCHANGED <<worker, admin, pages, passed, rollbackRun, released>>
  PROVE  DeploymentInv'
<1>1. DeploymentTypeOK'
  BY DEF DeploymentInv, DeploymentTypeOK
<1>2. Ahead' /\ Known' /\ VerifiedLast'
  BY DEF DeploymentInv, Ahead, Known, VerifiedLast, SchemaVerified
<1>3. CASE deployRun' = NoRun
  BY <1>1, <1>2, <1>3, NoRunFacts DEF DeploymentInv, Exclusive, Stage, Undisturbed
<1>4. CASE deployRun' # NoRun
  <2>1. Exclusive' /\ Undisturbed'
    BY <1>4 DEF DeploymentInv, Exclusive, Undisturbed
  <2>2. Stage'
    BY <1>4 DEF Stage, WorkerSteps
  <2> QED BY <1>1, <1>2, <2>1, <2>2 DEF DeploymentInv
<1> QED BY <1>3, <1>4

\* A job succeeds.
LEMMA PassKeeps ==
  ASSUME DeploymentInv, deployRun.commit # NoCommit, NEW j \in Job, Passes(j),
         j = "schema" => SchemaVerified(deployRun.commit),
         j = "worker" => worker.live = deployRun.commit,
         j = "pages" => pages'.live = deployRun.commit,
         j = "verify" => {"worker", "pages"} \subseteq passed[deployRun.commit],
         pages' \in Deployed, released' \subseteq Commits, j # "pages" => pages' = pages,
         UNCHANGED <<d1, worker, admin, rollbackRun>>
  PROVE  DeploymentInv'
<1>1. DeploymentTypeOK'
  BY DEF DeploymentInv, DeploymentTypeOK, Moves, Passes
<1>2. deployRun.commit \in Commits
  BY Current DEF DeploymentInv
<1>3. Known' /\ Exclusive'
  BY DEF DeploymentInv, Known, Exclusive, Passes, Moves
<1>4. Ahead'
  BY <1>2 DEF DeploymentInv, Ahead, Passes, SchemaVerified
<1>5. VerifiedLast'
  BY <1>2 DEF DeploymentInv, VerifiedLast, Passes
<1>6. Stage'
  BY DEF Stage, Passes, Moves, WorkerSteps
<1>7. Undisturbed'
  BY <1>2 DEF DeploymentInv, Undisturbed, Passes, Moves
<1> QED BY <1>1, <1>3, <1>4, <1>5, <1>6, <1>7 DEF DeploymentInv

LEMMA DeploymentInitInv == ASSUME DeploymentAssumption, DeploymentInit PROVE DeploymentInv
<1>1. PICK c \in Commits :
        /\ d1 = [tables |-> RequiredTables[c], columns |-> RequiredColumns[c]]
        /\ worker = [uploaded |-> {c}, newest |-> c, live |-> c]
        /\ pages = worker /\ admin = c
  BY DEF DeploymentInit
<1>2. DeploymentTypeOK
  BY <1>1, NoRunFacts DEF DeploymentInit, DeploymentTypeOK, Deployed, DeploymentAssumption
<1>3. Ahead /\ Known
  BY <1>1, NoRunFacts DEF DeploymentInit, Ahead, Known, SchemaVerified
<1>4. Exclusive /\ Stage /\ VerifiedLast /\ Undisturbed
  BY NoRunFacts DEF DeploymentInit, Exclusive, Stage, VerifiedLast, Undisturbed
<1> QED BY <1>2, <1>3, <1>4 DEF DeploymentInv

LEMMA StartKeeps ==
  ASSUME DeploymentInv, NEW c \in Commits, StartRun(c)
  PROVE  DeploymentInv'
<1>1. PICK keep \in BOOLEAN, dry \in BOOLEAN, push \in BOOLEAN :
        /\ passed' = IF keep THEN passed ELSE [passed EXCEPT ![c] = {}]
        /\ deployRun' = [NoRun EXCEPT !.commit = c, !.dry = dry, !.push = push, !.whole = passed'[c] = {}]
  BY DEF StartRun
<1>2. /\ rollbackRun.step = "none" /\ UNCHANGED <<d1, worker, admin, pages, rollbackRun, released>>
      /\ passed \in [Commits -> SUBSET Job]
  BY DEF StartRun, NobodyRuns, DeploymentInv, DeploymentTypeOK
<1>3. passed' \in [Commits -> SUBSET Job] /\ \A e \in Commits : passed'[e] = passed[e] \/ passed'[e] = {}
  BY <1>1, <1>2
<1>4. /\ deployRun' \in DeployRun /\ deployRun'.commit = c /\ deployRun'.step = "between"
      /\ deployRun'.whole => passed'[c] = {}
  <2>1. (passed'[c] = {}) \in BOOLEAN
    OBVIOUS
  <2> QED BY <1>1, <2>1, NoRunFacts DEF NoRun, DeployRun
<1>5. DeploymentTypeOK'
  BY <1>2, <1>3, <1>4 DEF DeploymentInv, DeploymentTypeOK
<1>6. Ahead' /\ Known' /\ Exclusive' /\ VerifiedLast'
  BY <1>2, <1>3 DEF DeploymentInv, Ahead, Known, Exclusive, VerifiedLast, SchemaVerified
<1>7. Stage' /\ Undisturbed'
  BY <1>4 DEF Stage, Undisturbed, WorkerSteps
<1> QED BY <1>5, <1>6, <1>7 DEF DeploymentInv

LEMMA StartJobKeeps ==
  ASSUME DeploymentInv, NEW j \in Job, StartJob(j)
  PROVE  DeploymentInv'
<1>1. FirstStep[j] \in Step /\ deployRun.commit # NoCommit
  BY DEF StartJob, FirstStep, Step, Job
<1>2. Moves(FirstStep[j])
  BY <1>1, MoveFacts DEF StartJob, DeploymentInv
<1>3. UNCHANGED <<d1, worker, admin, pages, passed, rollbackRun, released>>
  BY DEF StartJob
<1>4. DeploymentTypeOK'
  BY <1>2, <1>3 DEF DeploymentInv, DeploymentTypeOK, Moves
<1>5. Ahead' /\ Known' /\ Exclusive' /\ VerifiedLast' /\ Undisturbed'
  BY <1>2, <1>3 DEF DeploymentInv, Ahead, Known, Exclusive, VerifiedLast, Undisturbed, SchemaVerified, Moves
<1>6. Stage'
  BY <1>1, <1>2, <1>3 DEF Stage, StartJob, RunsJob, Needs, FirstStep, Job, Moves, WorkerSteps
<1> QED BY <1>4, <1>5, <1>6 DEF DeploymentInv

\* A service with a new version: what is uploaded can only have grown by it.
LEMMA DeployedFacts ==
  ASSUME NEW service \in Deployed, NEW c \in Commits
  PROVE  /\ Deploy(service, c) \in Deployed /\ Deploy(service, c).live = c
         /\ Deploy(service, c).newest = c /\ Deploy(service, c).uploaded = service.uploaded \cup {c}
BY DEF Deploy, Deployed

LEMMA SchemaJobKeeps ==
  ASSUME DeploymentAssumption, DeploymentInv,
         CreateTables \/ (\E col \in Columns : AlterTable(col)) \/ AllAltered \/ CheckSchema
  PROVE  DeploymentInv'
<1>0. /\ deployRun.commit # NoCommit /\ deployRun.commit \in Commits /\ deployRun \in DeployRun
      /\ d1 \in [tables : SUBSET Tables, columns : SUBSET Columns]
  BY Current DEF DeploymentInv, DeploymentTypeOK, CreateTables, AlterTable, AllAltered, CheckSchema, At
<1>1. CASE CreateTables
  <2>1. PICK made \in SUBSET RequiredTables[deployRun.commit] :
          d1' = [tables |-> d1.tables \cup made,
                 columns |-> d1.columns \cup
                   {col \in RequiredColumns[deployRun.commit] : TableOf[col] \in made \ d1.tables}]
    BY <1>1 DEF CreateTables
  <2>2. /\ d1' \in [tables : SUBSET Tables, columns : SUBSET Columns]
        /\ d1.tables \subseteq d1'.tables /\ d1.columns \subseteq d1'.columns
    BY <1>0, <2>1 DEF DeploymentAssumption
  <2>3. /\ UNCHANGED <<worker, admin, pages, passed, rollbackRun, released>>
        /\ deployRun' = [deployRun EXCEPT !.step = "alter", !.todo = Alters[deployRun.commit]]
             \/ deployRun' = NoRun
    BY <1>1 DEF CreateTables
  <2>4. CASE deployRun' = [deployRun EXCEPT !.step = "alter", !.todo = Alters[deployRun.commit]]
    <3>1. /\ deployRun' \in DeployRun /\ deployRun'.step = "alter"
          /\ deployRun'.commit = deployRun.commit /\ deployRun'.whole = deployRun.whole
      BY <1>0, <2>4 DEF DeployRun, Step, DeploymentAssumption
    <3> QED BY <1>0, <2>2, <2>3, <3>1, SchemaStepKeeps
  <2>5. CASE deployRun' = NoRun
    BY <2>2, <2>3, <2>5, NoRunFacts, SchemaStepKeeps
  <2> QED BY <2>3, <2>4, <2>5
<1>2. ASSUME NEW col \in Columns, AlterTable(col) PROVE DeploymentInv'
  <2>1. /\ d1' = [d1 EXCEPT !.columns = @ \cup {col}]
        /\ UNCHANGED <<worker, admin, pages, passed, rollbackRun, released>>
        /\ deployRun' = [deployRun EXCEPT !.todo = @ \ {col}] \/ deployRun' = NoRun
        /\ deployRun.step = "alter"
    BY <1>2 DEF AlterTable, At
  <2>2. /\ d1' \in [tables : SUBSET Tables, columns : SUBSET Columns]
        /\ d1.tables \subseteq d1'.tables /\ d1.columns \subseteq d1'.columns
    BY <1>0, <2>1
  <2>3. CASE deployRun' = [deployRun EXCEPT !.todo = @ \ {col}]
    <3>1. /\ deployRun' \in DeployRun /\ deployRun'.step = "alter"
          /\ deployRun'.commit = deployRun.commit /\ deployRun'.whole = deployRun.whole
      BY <1>0, <2>1, <2>3 DEF DeployRun
    <3> QED BY <1>0, <2>1, <2>2, <3>1, SchemaStepKeeps
  <2>4. CASE deployRun' = NoRun
    BY <2>1, <2>2, <2>4, NoRunFacts, SchemaStepKeeps
  <2> QED BY <2>1, <2>3, <2>4
<1>3. CASE AllAltered
  <2>1. Moves("check") /\ UNCHANGED <<d1, worker, admin, pages, passed, rollbackRun, released>>
    BY <1>0, <1>3, MoveFacts DEF AllAltered, GoTo, DeploymentInv, Step
  <2> QED BY <1>0, <2>1, SchemaStepKeeps DEF Moves
<1>4. CASE CheckSchema
  BY <1>0, <1>4, PassFacts, PassKeeps DEF CheckSchema, DeploymentInv, Job, DeploymentTypeOK
<1> QED BY <1>1, <1>2, <1>3, <1>4

LEMMA WorkerJobKeeps ==
  ASSUME DeploymentInv, PreflightSecrets \/ UploadSecrets \/ DeployAdmin \/ DeployMain \/ RecordVersion
  PROVE  DeploymentInv'
<1>0. /\ deployRun.commit # NoCommit /\ deployRun.commit \in Commits /\ deployRun.step \in WorkerSteps
      /\ "schema" \in passed[deployRun.commit] /\ DeploymentTypeOK
      /\ worker \in Deployed /\ pages \in Deployed /\ admin \in Commits /\ released \subseteq Commits
      /\ d1 \in [tables : SUBSET Tables, columns : SUBSET Columns]
  BY Current DEF DeploymentInv, Stage, DeploymentTypeOK, PreflightSecrets, UploadSecrets, DeployAdmin, DeployMain,
     RecordVersion, At, WorkerSteps
<1>1. CASE PreflightSecrets
  <2>1. /\ Moves("secrets") /\ UNCHANGED <<d1, worker, admin, pages, passed, rollbackRun, released>>
        /\ Known' /\ Ahead' /\ "secrets" \in WorkerSteps
    BY <1>0, <1>1, MoveFacts
       DEF PreflightSecrets, GoTo, Step, WorkerSteps, DeploymentInv, Known, Ahead, SchemaVerified
  <2> QED BY <1>0, <2>1, WorkerStepKeeps
<1>2. CASE UploadSecrets
  <2>1. PICK base \in {worker.live, worker.newest} :
          worker' = [worker EXCEPT !.newest = base, !.live = base]
    BY <1>2 DEF UploadSecrets
  <2>2. /\ UNCHANGED <<d1, admin, pages, rollbackRun, released>> /\ passed' = passed
        /\ GoTo("admin") \/ deployRun' = NoRun
    BY <1>2 DEF UploadSecrets, GoTo
  <2>3. worker' \in Deployed /\ Known' /\ Ahead'
    BY <1>0, <2>1, <2>2 DEF DeploymentInv, Known, Ahead, SchemaVerified, Deployed
  <2>4. CASE GoTo("admin")
    <3>1. Moves("admin") /\ "admin" \in WorkerSteps
      BY <1>0, <2>4, MoveFacts DEF GoTo, Step, WorkerSteps
    <3> QED BY <1>0, <2>2, <2>3, <3>1, WorkerStepKeeps
  <2>5. CASE deployRun' = NoRun
    BY <1>0, <2>2, <2>3, <2>5, EndKeeps
  <2> QED BY <2>2, <2>4, <2>5
<1>3. CASE DeployAdmin
  <2>1. /\ UNCHANGED <<d1, worker, pages, rollbackRun, released>> /\ passed' = passed
        /\ GoTo("main") \/ deployRun' = NoRun
        /\ admin' \in Commits /\ Known' /\ Ahead'
    BY <1>0, <1>3 DEF DeployAdmin, GoTo, DeploymentInv, Known, Ahead, SchemaVerified
  <2>2. CASE GoTo("main")
    <3>1. Moves("main") /\ "main" \in WorkerSteps
      BY <1>0, <2>2, MoveFacts DEF GoTo, Step, WorkerSteps
    <3> QED BY <1>0, <2>1, <3>1, WorkerStepKeeps
  <2>3. CASE deployRun' = NoRun
    BY <1>0, <2>1, <2>3, EndKeeps
  <2> QED BY <2>1, <2>2, <2>3
<1>4. CASE DeployMain
  <2>1. /\ UNCHANGED <<d1, admin, pages, rollbackRun, released>> /\ passed' = passed
        /\ GoTo("record") \/ deployRun' = NoRun
        /\ worker' = Deploy(worker, deployRun.commit)
    BY <1>4 DEF DeployMain, GoTo
  <2>2. /\ worker' \in Deployed /\ worker'.live = deployRun.commit /\ worker'.newest = deployRun.commit
        /\ worker'.uploaded = worker.uploaded \cup {deployRun.commit}
    BY <1>0, <2>1, DeployedFacts
  <2>3. Known' /\ Ahead'
    BY <1>0, <2>1, <2>2 DEF DeploymentInv, Known, Ahead, SchemaVerified
  <2>4. CASE GoTo("record")
    <3>1. Moves("record") /\ "record" \in WorkerSteps
      BY <1>0, <2>4, MoveFacts DEF GoTo, Step, WorkerSteps
    <3> QED BY <1>0, <2>1, <2>2, <2>3, <3>1, WorkerStepKeeps
  <2>5. CASE deployRun' = NoRun
    BY <1>0, <2>1, <2>2, <2>3, <2>5, EndKeeps
  <2> QED BY <2>1, <2>4, <2>5
<1>5. CASE RecordVersion
  <2>1. worker.live = deployRun.commit
    BY <1>0, <1>5 DEF RecordVersion, At, DeploymentInv, Stage
  <2> QED BY <1>0, <1>5, <2>1, PassFacts, PassKeeps DEF RecordVersion, Job
<1> QED BY <1>1, <1>2, <1>3, <1>4, <1>5

LEMMA OtherJobsKeep ==
  ASSUME DeploymentInv, Validate \/ Prepare \/ DeployPages \/ Verify \/ Release \/ EndRun
  PROVE  DeploymentInv'
<1>0. /\ deployRun.commit # NoCommit /\ deployRun.commit \in Commits /\ DeploymentTypeOK
      /\ worker \in Deployed /\ pages \in Deployed /\ admin \in Commits /\ released \subseteq Commits
      /\ d1 \in [tables : SUBSET Tables, columns : SUBSET Columns]
  BY Current DEF DeploymentInv, DeploymentTypeOK, Validate, Prepare, DeployPages, Verify, Release, EndRun, At
<1>1. CASE Validate
  BY <1>0, <1>1, PassFacts, PassKeeps DEF Validate, Job
<1>2. CASE Prepare
  BY <1>0, <1>2, PassFacts, PassKeeps DEF Prepare, Job
<1>3. CASE DeployPages
  <2>1. /\ pages' = Deploy(pages, deployRun.commit) /\ UNCHANGED <<d1, worker, admin, rollbackRun, released>>
        /\ PassJob("pages") \/ (deployRun' = NoRun /\ passed' = passed)
    BY <1>3 DEF DeployPages
  <2>2. pages' \in Deployed /\ pages'.live = deployRun.commit
    BY <1>0, <2>1, DeployedFacts
  <2>3. CASE PassJob("pages")
    BY <1>0, <2>1, <2>2, <2>3, PassFacts, PassKeeps DEF Job
  <2>4. CASE deployRun' = NoRun /\ passed' = passed
    <3>1. Known' /\ Ahead'
      BY <2>1, <2>4 DEF DeploymentInv, Known, Ahead, SchemaVerified
    <3> QED BY <1>0, <2>1, <2>2, <2>4, <3>1, EndKeeps
  <2> QED BY <2>1, <2>3, <2>4
<1>4. CASE Verify
  <2>1. {"worker", "pages"} \subseteq passed[deployRun.commit]
    BY <1>0, <1>4 DEF Verify, At, DeploymentInv, Stage
  <2> QED BY <1>0, <1>4, <2>1, PassFacts, PassKeeps DEF Verify, Job
<1>5. CASE Release
  BY <1>0, <1>5, PassFacts, PassKeeps DEF Release, Job
<1>6. CASE EndRun
  <2>1. Known' /\ Ahead'
    BY <1>6 DEF EndRun, DeploymentInv, Known, Ahead, SchemaVerified
  <2> QED BY <1>0, <1>6, <2>1, EndKeeps DEF EndRun
<1> QED BY <1>1, <1>2, <1>3, <1>4, <1>5, <1>6

\* No deployment runs beside a rollback, which makes live what was uploaded once.
LEMMA RollbackKeeps ==
  ASSUME DeploymentAssumption, DeploymentInv, StartRollback \/ RollbackWorker \/ RollbackPages \/ EndRollback
  PROVE  DeploymentInv'
<1>0. /\ deployRun.commit = NoCommit /\ UNCHANGED <<d1, admin, passed, deployRun, released>>
      /\ DeploymentTypeOK /\ worker \in Deployed /\ pages \in Deployed /\ rollbackRun \in RollbackRun
  BY DEF DeploymentInv, Exclusive, DeploymentTypeOK, StartRollback, NobodyRuns, RollbackWorker, RollbackPages, EndRollback
<1>1. CASE StartRollback
  <2>1. PICK version \in worker.uploaded \cup {NoCommit}, deployment \in pages.uploaded \cup {NoCommit} :
          /\ {version, deployment} # {NoCommit}
          /\ rollbackRun' = [step |-> IF version = NoCommit THEN "pages" ELSE "worker",
                             version |-> version, deployment |-> deployment]
    BY <1>1 DEF StartRollback
  <2>2. /\ rollbackRun' \in RollbackRun
        /\ rollbackRun'.step = "worker" => rollbackRun'.version \in worker.uploaded
        /\ rollbackRun'.step = "pages" => rollbackRun'.deployment \in Commits
    <3>1. {version, deployment} # {NoCommit}
      BY <2>1
    <3> QED BY <1>0, <2>1, <3>1 DEF RollbackRun, Deployed
  <2>3. worker' = worker /\ pages' = pages
    BY <1>1 DEF StartRollback
  <2> QED BY <1>0, <2>2, <2>3
          DEF DeploymentInv, DeploymentTypeOK, Ahead, Known, Exclusive, Stage, VerifiedLast, Undisturbed, SchemaVerified
<1>2. CASE RollbackWorker
  <2>1. worker' = [worker EXCEPT !.live = rollbackRun.version] /\ pages' = pages
    BY <1>2 DEF RollbackWorker
  <2>2. rollbackRun.version \in worker.uploaded
    BY <1>2 DEF RollbackWorker, DeploymentInv, Known
  <2>3. /\ worker' \in Deployed /\ worker'.uploaded = worker.uploaded
        /\ worker'.live \in worker.uploaded /\ worker'.newest = worker.newest
    BY <1>0, <2>1, <2>2 DEF Deployed
  <2>4. /\ rollbackRun' \in RollbackRun /\ rollbackRun'.step # "worker"
        /\ rollbackRun'.step = "pages" => rollbackRun'.deployment \in Commits
    <3>1. CASE rollbackRun' = NoRollback
      BY <3>1, NoRunFacts
    <3>2. CASE rollbackRun' # NoRollback
      BY <1>0, <1>2, <3>2 DEF RollbackWorker, RollbackRun
    <3> QED BY <3>1, <3>2
  <2> QED BY <1>0, <2>1, <2>3, <2>4
          DEF DeploymentInv, DeploymentTypeOK, Ahead, Known, Exclusive, Stage, VerifiedLast, Undisturbed, SchemaVerified
<1>3. CASE RollbackPages \/ EndRollback
  <2>1. worker' = worker /\ pages' \in Deployed
    <3>1. CASE RollbackPages
      <4>1. rollbackRun.deployment \in Commits
        BY <3>1 DEF RollbackPages, DeploymentInv, Known
      <4> QED BY <1>0, <3>1, <4>1 DEF RollbackPages, Deployed
    <3> QED BY <1>0, <1>3, <3>1 DEF EndRollback
  <2>2. rollbackRun' \in RollbackRun /\ rollbackRun'.step \in {"none", "smoke"}
    <3>1. CASE rollbackRun' = NoRollback
      BY <3>1, NoRunFacts
    <3>2. CASE rollbackRun' # NoRollback
      BY <1>0, <1>3, <3>2 DEF RollbackPages, EndRollback, RollbackRun
    <3> QED BY <3>1, <3>2
  <2> QED BY <1>0, <2>1, <2>2
          DEF DeploymentInv, DeploymentTypeOK, Ahead, Known, Exclusive, Stage, VerifiedLast, Undisturbed, SchemaVerified
<1> QED BY <1>1, <1>2, <1>3

LEMMA DeploymentNextInv ==
  ASSUME DeploymentAssumption, DeploymentInv, [DeploymentNext]_deploymentVars
  PROVE  DeploymentInv'
<1>1. CASE UNCHANGED deploymentVars
  BY <1>1 DEF deploymentVars, DeploymentInv, DeploymentTypeOK, Ahead, Known, Exclusive, Stage, VerifiedLast,
     Undisturbed, SchemaVerified
<1>2. CASE DeploymentNext
  BY <1>2, StartKeeps, StartJobKeeps, SchemaJobKeeps, WorkerJobKeeps, OtherJobsKeep, RollbackKeeps
     DEF DeploymentNext
<1> QED BY <1>1, <1>2

LEMMA DeploymentInvHolds == DeploymentSpec => []DeploymentInv
<1>1. DeploymentInit => DeploymentInv
  BY DeploymentInitInv, DeploymentAssumption
<1>2. DeploymentInv /\ [DeploymentNext]_deploymentVars => DeploymentInv'
  BY DeploymentNextInv, DeploymentAssumption
<1> QED BY <1>1, <1>2, PTL DEF DeploymentSpec

---------------------------------------------------------------------------

\* Schema, services and runs keep their types.
THEOREM DeploymentTypeCorrect == DeploymentSpec => []DeploymentTypeOK
<1>1. DeploymentInv => DeploymentTypeOK
  BY DEF DeploymentInv
<1> QED BY <1>1, DeploymentInvHolds, PTL

\* The live Worker finds every table and column it requires, whatever commits
\* there are, whichever steps fail and whatever is rolled back to.
THEOREM SchemaFirst == DeploymentSpec => []SchemaAhead
<1>1. DeploymentInv => SchemaAhead
  BY DEF DeploymentInv, Ahead, Known, SchemaAhead, SchemaVerified, DeploymentTypeOK, Deployed
<1> QED BY <1>1, DeploymentInvHolds, PTL

\* Worker and Pages are at the commit of a run that verified in one attempt, until
\* the run is over.
THEOREM VerifiedTogether == DeploymentSpec => []VerifiedPairMatches
<1>1. DeploymentInv => VerifiedPairMatches
  BY Current DEF DeploymentInv, VerifiedPairMatches, At, VerifiedLast, Undisturbed
<1> QED BY <1>1, DeploymentInvHolds, PTL

---------------------------------------------------------------------------
(* The Access setup script.                                                *)

LEMMA RemovedAt ==
  ASSUME NEW S, NEW s \in Seq(S), NEW i \in DOMAIN s
  PROVE  /\ RemoveAt(s, i) \in Seq(S)
         /\ DOMAIN RemoveAt(s, i) = 1..(Len(s) - 1)
         /\ \A k \in 1..(Len(s) - 1) : RemoveAt(s, i)[k] = IF k < i THEN s[k] ELSE s[k + 1]
<1> DEFINE before == SubSeq(s, 1, i - 1)
           behind == SubSeq(s, i + 1, Len(s))
<1>1. Len(s) \in Nat /\ i \in 1..Len(s) /\ \A k \in 1..Len(s) : s[k] \in S
  BY LenProperties, ElementOfSeq
<1>2. /\ before \in Seq(S) /\ Len(before) = i - 1
      /\ \A k \in 1..(i - 1) : before[k] = s[k]
  <2>1. 1 \in Int /\ i - 1 \in Int /\ \A k \in 1..(i - 1) : s[k] \in S
    BY <1>1
  <2>2. /\ before \in Seq(S) /\ Len(before) = IF 1 <= i - 1 THEN i - 1 - 1 + 1 ELSE 0
        /\ \A k \in 1..(i - 1 - 1 + 1) : before[k] = s[1 + k - 1]
    BY <2>1, SubSeqProperties
  <2> HIDE DEF before
  <2>3. QED BY <1>1, <2>2
<1>3. /\ behind \in Seq(S) /\ Len(behind) = Len(s) - i
      /\ \A k \in 1..(Len(s) - i) : behind[k] = s[i + k]
  <2>1. i + 1 \in Int /\ Len(s) \in Int /\ \A k \in (i + 1)..Len(s) : s[k] \in S
    BY <1>1
  <2>2. /\ behind \in Seq(S)
        /\ Len(behind) = IF i + 1 <= Len(s) THEN Len(s) - (i + 1) + 1 ELSE 0
        /\ \A k \in 1..(Len(s) - (i + 1) + 1) : behind[k] = s[i + 1 + k - 1]
    BY <2>1, SubSeqProperties
  <2> HIDE DEF behind
  <2>3. QED BY <1>1, <2>2
<1>4. RemoveAt(s, i) = before \o behind
  BY DEF RemoveAt
<1> HIDE DEF before, behind
<1>5. /\ before \o behind \in Seq(S) /\ Len(before \o behind) = Len(s) - 1
      /\ \A k \in 1..(Len(s) - 1) :
           (before \o behind)[k] = IF k <= i - 1 THEN before[k] ELSE behind[k - (i - 1)]
  <2>1. /\ before \o behind \in Seq(S)
        /\ Len(before \o behind) = Len(before) + Len(behind)
        /\ \A k \in 1..(Len(before) + Len(behind)) : (before \o behind)[k] =
             IF k <= Len(before) THEN before[k] ELSE behind[k - Len(before)]
    BY <1>2, <1>3, ConcatProperties
  <2>2. Len(before) + Len(behind) = Len(s) - 1
    BY <1>1, <1>2, <1>3
  <2>3. QED BY <1>2, <2>1, <2>2
<1>6. DOMAIN (before \o behind) = 1..(Len(s) - 1)
  BY <1>5, LenProperties
<1>7. ASSUME NEW k \in 1..(Len(s) - 1)
      PROVE  (before \o behind)[k] = IF k < i THEN s[k] ELSE s[k + 1]
  <2>1. CASE k < i
    BY <1>1, <1>2, <1>5, <2>1
  <2>2. CASE ~(k < i)
    <3>1. /\ ~(k <= i - 1) /\ k - (i - 1) \in 1..(Len(s) - i)
          /\ i + (k - (i - 1)) = k + 1
      BY <1>1, <2>2
    <3>2. behind[k - (i - 1)] = s[k + 1]
      BY <1>3, <3>1
    <3>3. QED BY <1>5, <2>2, <3>1, <3>2
  <2>3. QED BY <2>1, <2>2
<1>8. QED BY <1>4, <1>5, <1>6, <1>7

\* Deleting one policy takes its identifier away and keeps the others.
LEMMA PolicyDeleted ==
  ASSUME NEW given \in Nat, NEW s \in Seq(Policy), OwnIds(s, given), NEW i \in DOMAIN s
  PROVE  /\ RemoveAt(s, i) \in Seq(Policy) /\ OwnIds(RemoveAt(s, i), given)
         /\ PolicyIds(RemoveAt(s, i)) = PolicyIds(s) \ {s[i].id}
         /\ \A j \in DOMAIN s : j # i => \E k \in DOMAIN RemoveAt(s, i) : RemoveAt(s, i)[k] = s[j]
<1> DEFINE n == Len(s)
           t == RemoveAt(s, i)
<1>1. n \in Nat /\ DOMAIN s = 1..n
  BY LenProperties
<1>2. /\ t \in Seq(Policy) /\ DOMAIN t = 1..(n - 1)
      /\ \A k \in 1..(n - 1) : t[k] = IF k < i THEN s[k] ELSE s[k + 1]
  BY RemovedAt
<1> HIDE DEF n, t
<1>3. \A k \in DOMAIN t : \E j \in DOMAIN s : j # i /\ t[k] = s[j]
  <2>1. ASSUME NEW k \in DOMAIN t PROVE \E j \in DOMAIN s : j # i /\ t[k] = s[j]
    <3>1. CASE k < i
      BY <1>1, <1>2, <3>1
    <3>2. CASE ~(k < i)
      <4>1. k + 1 \in DOMAIN s /\ k + 1 # i /\ t[k] = s[k + 1]
        BY <1>1, <1>2, <3>2
      <4>2. QED BY <4>1
    <3>3. QED BY <3>1, <3>2
  <2>2. QED BY <2>1
<1>4. ASSUME NEW j \in DOMAIN s, j # i PROVE \E k \in DOMAIN t : t[k] = s[j]
  <2>1. CASE j < i
    <3>1. j \in DOMAIN t /\ t[j] = s[j]
      BY <1>1, <1>2, <2>1
    <3>2. QED BY <3>1
  <2>2. CASE i < j
    <3>1. j - 1 \in DOMAIN t /\ t[j - 1] = s[j]
      BY <1>1, <1>2, <2>2
    <3>2. QED BY <3>1
  <2>3. QED BY <1>1, <1>4, <2>1, <2>2
<1>5. ASSUME NEW k \in DOMAIN t, NEW l \in DOMAIN t, t[k].id = t[l].id PROVE k = l
  <2> DEFINE at(m) == IF m < i THEN m ELSE m + 1
  <2>1. /\ at(k) \in DOMAIN s /\ at(l) \in DOMAIN s
        /\ t[k] = s[at(k)] /\ t[l] = s[at(l)]
    BY <1>1, <1>2
  <2>2. at(k) = at(l)
    BY <1>5, <2>1 DEF OwnIds
  <2>3. QED BY <1>1, <1>2, <2>2
<1>6. \A k \in DOMAIN t : t[k].id <= given
  BY <1>3 DEF OwnIds
<1>7. PolicyIds(t) = PolicyIds(s) \ {s[i].id}
  BY <1>3, <1>4 DEF PolicyIds, OwnIds
<1>8. QED BY <1>2, <1>4, <1>5, <1>6, <1>7 DEF OwnIds, t

\* Rewriting one keeps all the identifiers.
LEMMA PolicyRewritten ==
  ASSUME NEW given \in Nat, NEW s \in Seq(Policy), OwnIds(s, given), NEW i \in DOMAIN s,
         NEW p \in Policy, p.id = s[i].id
  PROVE  LET t == [s EXCEPT ![i] = p] IN
         /\ t \in Seq(Policy) /\ DOMAIN t = DOMAIN s /\ OwnIds(t, given)
         /\ PolicyIds(t) = PolicyIds(s)
         /\ t[i] = p /\ \A j \in DOMAIN s : j # i => t[j] = s[j]
<1> DEFINE t == [s EXCEPT ![i] = p]
<1>1. t \in Seq(Policy)
  <2>1. i \in 1..Len(s)
    BY LenProperties
  <2>2. QED BY <2>1, ExceptSeq
<1>2. DOMAIN t = DOMAIN s /\ t[i] = p /\ \A j \in DOMAIN s : j # i => t[j] = s[j]
  OBVIOUS
<1> HIDE DEF t
<1>3. \A j \in DOMAIN s : t[j].id = s[j].id
  BY <1>2
<1>4. OwnIds(t, given) /\ PolicyIds(t) = PolicyIds(s)
  BY <1>2, <1>3 DEF OwnIds, PolicyIds
<1>5. QED BY <1>1, <1>2, <1>4 DEF t

\* Kept as a name of its own, so that the provers match it as it stands.
Among(p, s) == \E i \in DOMAIN s : s[i] = p

\* Adding one gives out the next identifier.
LEMMA PolicyAdded ==
  ASSUME NEW given \in Nat, NEW s \in Seq(Policy), OwnIds(s, given),
         NEW p \in Policy, p.id = given + 1
  PROVE  /\ Append(s, p) \in Seq(Policy) /\ OwnIds(Append(s, p), given + 1)
         /\ PolicyIds(Append(s, p)) = PolicyIds(s) \cup {p.id}
         /\ Among(p, Append(s, p))
<1> DEFINE t == Append(s, p)
           n == Len(s)
<1>1. n \in Nat /\ DOMAIN s = 1..n /\ t \in Seq(Policy) /\ DOMAIN t = 1..(n + 1)
      /\ t[n + 1] = p /\ \A j \in 1..n : t[j] = s[j]
  BY LenProperties, AppendProperties
<1>2. \A j \in DOMAIN s : s[j].id \in Nat /\ s[j].id <= given
  <2>1. \A j \in DOMAIN s : s[j] \in Policy
    BY LenProperties, ElementOfSeq
  <2>2. QED BY <2>1 DEF Policy, OwnIds
<1> HIDE DEF t, n
<1>3. OwnIds(t, given + 1)
  <2>1. ASSUME NEW j \in DOMAIN t PROVE t[j].id <= given + 1
    <3>1. CASE j = n + 1
      BY <1>1, <3>1
    <3>2. CASE j \in DOMAIN s
      BY <1>1, <1>2, <3>2
    <3>3. QED BY <1>1, <3>1, <3>2
  <2>2. ASSUME NEW j \in DOMAIN t, NEW k \in DOMAIN t, t[j].id = t[k].id PROVE j = k
    <3>1. CASE j \in DOMAIN s /\ k \in DOMAIN s
      BY <1>1, <2>2, <3>1 DEF OwnIds
    <3>2. CASE j = n + 1 /\ k \in DOMAIN s
      BY <1>1, <1>2, <2>2, <3>2
    <3>3. CASE k = n + 1 /\ j \in DOMAIN s
      BY <1>1, <1>2, <2>2, <3>3
    <3>4. QED BY <1>1, <3>1, <3>2, <3>3
  <2>3. QED BY <2>1, <2>2 DEF OwnIds
<1>4. PolicyIds(t) = PolicyIds(s) \cup {p.id}
  <2>1. \A j \in 1..n : t[j].id = s[j].id
    BY <1>1
  <2>2. DOMAIN t = DOMAIN s \cup {n + 1}
    BY <1>1
  <2>3. QED BY <1>1, <2>1, <2>2 DEF PolicyIds
<1>5. n + 1 \in DOMAIN t
  BY <1>1
<1>6. QED BY <1>1, <1>3, <1>4, <1>5 DEF t, Among

LEMMA OnlyPolicy ==
  ASSUME NEW given, NEW s \in Seq(Policy), OwnIds(s, given), NEW i \in DOMAIN s,
         PolicyIds(s) \subseteq {s[i].id}
  PROVE  Len(s) = 1 /\ i = 1
<1>1. Len(s) \in Nat /\ DOMAIN s = 1..Len(s)
  BY LenProperties
<1>2. \A j \in DOMAIN s : j = i
  BY DEF OwnIds, PolicyIds
<1>3. 1 \in DOMAIN s /\ Len(s) \in DOMAIN s
  BY <1>1
<1>4. QED BY <1>1, <1>2, <1>3

---------------------------------------------------------------------------
(* The inductive invariant of the script.                                  *)

\* Identifiers are given out once.
Numbered ==
  \A a \in AppIds : account[a] # NoApp => OwnIds(account[a].policies, issued)

\* A rollback goes through applications that are in the snapshot and there.
Rolling ==
  LET run == accessRun IN
  /\ run.pc \in {"next", "delete", "restore"} =>
       /\ run.cmd # "apply" /\ accessFile # NoFile
       /\ \A a \in run.apps : accessFile[a] # NoApp
  /\ run.pc \in {"delete", "restore"} =>
       run.app \in AppIds /\ account[run.app] # NoApp /\ accessFile[run.app] # NoApp

\* The application is as apply writes it.
Guarded(app) == /\ app.hosted /\ app.hosts = {"exact"} /\ app.hours <= 24
                /\ ChosenProvider \in app.idps

\* An apply works on the only application of the host, which guards it from the
\* first call on; while policies are left to delete, one that lets the owner in is
\* not among them.
Applying ==
  LET run == accessRun
      app == account[accessRun.app]
  IN
  /\ run.pc \in {"application", "policy", "extra", "complete"} => WildcardApps = {}
  /\ run.pc = "application" =>
       /\ ChosenProvider # "none"
       /\ ExactApps = IF run.app = NoApp THEN {} ELSE {run.app}
  /\ run.pc \in {"policy", "extra", "complete"} => ExactApps = {run.app} /\ Guarded(app)
  /\ run.pc = "extra" =>
       \E k \in DOMAIN app.policies :
         Shaped(app.policies[k]) /\ run.todo = PolicyIds(app.policies) \ {app.policies[k].id}
  /\ run.pc = "complete" =>
       Len(app.policies) = 1 /\ Shaped(app.policies[1]) /\ run.ok = StateVerified(app)

AccessInv == AccessTypeOK /\ Numbered /\ Rolling /\ Applying

LEMMA AccessFacts ==
  /\ Idle \in AccessRun /\ Idle.pc = "idle"
  /\ \A app \in Application : DesiredSession(app.hours) \in {12, 24}
  /\ ChosenProvider \in {"cloudflare", "onetimepin", "none"}
  /\ \A a \in ExactApps \cup WildcardApps : a \in AppIds /\ account[a] # NoApp
<1>1. Idle \in AccessRun /\ Idle.pc = "idle"
  BY DEF Idle, AccessRun
<1>2. \A app \in Application : DesiredSession(app.hours) \in {12, 24}
  BY DEF Application, DesiredSession, Endless
<1>3. ChosenProvider \in {"cloudflare", "onetimepin", "none"}
  BY DEF ChosenProvider
<1>4. \A a \in ExactApps \cup WildcardApps : a \in AppIds /\ account[a] # NoApp
  BY DEF ExactApps, WildcardApps
<1>5. QED BY <1>1, <1>2, <1>3, <1>4

LEMMA PoliciesTyped ==
  ASSUME NEW s \in Seq(Policy)
  PROVE  /\ \A i \in DOMAIN s : s[i] \in Policy
         /\ PolicyIds(s) \subseteq 1..MaxPolicies
<1>1. \A i \in DOMAIN s : s[i] \in Policy
  BY LenProperties, ElementOfSeq
<1>2. QED BY <1>1 DEF PolicyIds, Policy

LEMMA AtMostOne ==
  ASSUME NEW S, IsFiniteSet(S), Cardinality(S) <= 1, NEW x \in S
  PROVE  S = {x}
<1> SUFFICES ASSUME NEW y \in S, y # x PROVE FALSE
  OBVIOUS
<1>1. Cardinality({x, y}) = 2
  <2>1. IsFiniteSet({x}) /\ Cardinality({x}) = 1
    BY FS_Singleton
  <2>2. {x, y} = {x} \cup {y}
    OBVIOUS
  <2>3. QED BY <2>1, <2>2, FS_AddElement
<1>2. Cardinality({x, y}) <= Cardinality(S) /\ Cardinality(S) \in Nat
  BY FS_Subset, FS_CardinalityType
<1>3. QED BY <1>1, <1>2

\* The command goes on, or has ended.
LEMMA RunStep ==
  ASSUME NEW next \in AccessRun, Continue(next)
  PROVE  accessRun' \in AccessRun /\ (accessRun' = next \/ accessRun'.pc = "idle")
BY AccessFacts DEF Continue

\* One application is written.
LEMMA RowStep ==
  ASSUME AccessAssumption, AccessTypeOK, NEW a \in AppIds, NEW row \in Application,
         account' = [account EXCEPT ![a] = row]
  PROVE  /\ account' \in Accounts /\ account'[a] = row /\ row # NoApp
         /\ \A b \in AppIds \ {a} : account'[b] = account[b]
         /\ ExactApps' = IF MatchesExact(row) THEN ExactApps \cup {a} ELSE ExactApps \ {a}
         /\ WildcardApps' = IF MatchesWildcard(row) THEN WildcardApps \cup {a}
                            ELSE WildcardApps \ {a}
<1>1. account \in [AppIds -> Application \cup {NoApp}] /\ row # NoApp
  BY DEF AccessTypeOK, AccessAssumption, Accounts
<1>2. /\ account' \in Accounts /\ account'[a] = row
      /\ \A b \in AppIds \ {a} : account'[b] = account[b]
  BY <1>1 DEF Accounts
<1>3. QED BY <1>1, <1>2 DEF ExactApps, WildcardApps

\* The policies of one application are written.
LEMMA PoliciesStep ==
  ASSUME AccessAssumption, AccessTypeOK, NEW a \in AppIds, account[a] # NoApp,
         NEW s \in Seq(Policy), account' = [account EXCEPT ![a].policies = s]
  PROVE  /\ account' \in Accounts /\ account'[a] # NoApp
         /\ \A b \in AppIds \ {a} : account'[b] = account[b]
         /\ account'[a].policies = s /\ account'[a].hosts = account[a].hosts
         /\ account'[a].hosted = account[a].hosted /\ account'[a].hours = account[a].hours
         /\ account'[a].idps = account[a].idps
         /\ ExactApps' = ExactApps /\ WildcardApps' = WildcardApps
<1> DEFINE row == [account[a] EXCEPT !.policies = s]
<1>1. account[a] \in Application
  BY DEF AccessTypeOK, Accounts
<1>2. /\ row \in Application /\ row.policies = s /\ row.hosts = account[a].hosts
      /\ row.hosted = account[a].hosted /\ row.hours = account[a].hours
      /\ row.idps = account[a].idps
  BY <1>1 DEF Application
<1>3. account' = [account EXCEPT ![a] = row]
  OBVIOUS
<1> HIDE DEF row
<1>4. /\ account' \in Accounts /\ account'[a] = row /\ row # NoApp
      /\ \A b \in AppIds \ {a} : account'[b] = account[b]
  BY <1>2, <1>3, RowStep
<1>5. ExactApps' = ExactApps /\ WildcardApps' = WildcardApps
  BY <1>2, <1>4 DEF ExactApps, WildcardApps, MatchesExact, MatchesWildcard
<1>6. QED BY <1>2, <1>4, <1>5

\* The commands begin, end or look at the account.
LEMMA QuietStep ==
  ASSUME AccessAssumption, AccessInv,
         TakeSnapshot \/ ApplyStarts \/ ApplyEnds \/ RollbackStarts \/ AllDropped
           \/ AllRestored \/ RollbackEnds \/ CommandDies \/ UNCHANGED accessVars
  PROVE  AccessInv'
<1>0. /\ account \in Accounts /\ accessRun \in AccessRun /\ accessFile \in Accounts \cup {NoFile}
      /\ account' = account /\ identity' = identity /\ issued' = issued
      /\ issued \in 0..MaxPolicies
  BY DEF AccessInv, AccessTypeOK, TakeSnapshot, ApplyStarts, ApplyEnds, RollbackStarts,
         AllDropped, AllRestored, RollbackEnds, CommandDies, accessVars
<1>1. /\ ExactApps' = ExactApps /\ WildcardApps' = WildcardApps /\ Numbered'
      /\ ChosenProvider' = ChosenProvider
      /\ \A app : StateVerified(app)' = StateVerified(app) /\ Guarded(app)' = Guarded(app)
  BY <1>0 DEF ExactApps, WildcardApps, AccessInv, Numbered, ChosenProvider, StateVerified,
              Guarded
<1>2. ASSUME accessRun' = accessRun, accessFile' \in Accounts \cup {NoFile}, Rolling'
      PROVE  AccessInv'
  BY <1>0, <1>1, <1>2 DEF AccessInv, AccessTypeOK, Applying
<1>3. ASSUME accessRun' \in AccessRun, accessFile' = accessFile, Rolling', Applying'
      PROVE  AccessInv'
  BY <1>0, <1>1, <1>3 DEF AccessInv, AccessTypeOK
<1>4. CASE TakeSnapshot
  <2>1. accessFile' \in Accounts /\ accessRun' = accessRun /\ accessRun.pc \in {"idle", "complete"}
    BY <1>0, <1>4 DEF TakeSnapshot, Accounts, Free
  <2>2. QED BY <1>2, <2>1 DEF Rolling
<1>5. CASE ApplyStarts
  <2> DEFINE app == IF ExactApps = {} THEN NoApp ELSE CHOOSE a \in ExactApps : TRUE
             run == [Idle EXCEPT !.cmd = "apply", !.pc = "application", !.app = app]
  <2>1. /\ accessRun' = run /\ accessFile' = accessFile
        /\ WildcardApps = {} /\ Cardinality(ExactApps) <= 1 /\ ChosenProvider # "none"
    BY <1>5 DEF ApplyStarts
  <2>2. ExactApps = IF app = NoApp THEN {} ELSE {app}
    <3>1. IsFiniteSet(ExactApps)
      BY FS_Subset DEF ExactApps, AccessAssumption
    <3>2. ASSUME ExactApps # {} PROVE app \in ExactApps
      BY <3>2
    <3>3. NoApp \notin ExactApps
      BY DEF ExactApps, AccessAssumption
    <3> HIDE DEF app
    <3>4. ASSUME ExactApps # {} PROVE ExactApps = {app} /\ app # NoApp
      BY <2>1, <3>1, <3>2, <3>3, <3>4, AtMostOne
    <3>5. ASSUME ExactApps = {} PROVE app = NoApp
      BY <3>5 DEF app
    <3>6. QED BY <3>4, <3>5
  <2>3. app \in AppIds \cup {NoApp}
    BY <2>2, AccessFacts
  <2> HIDE DEF app
  <2>4. run \in AccessRun /\ run.pc = "application" /\ run.app = app
    BY <2>3 DEF AccessRun, Idle
  <2> HIDE DEF run
  <2>5. QED BY <1>1, <1>3, <2>1, <2>2, <2>4 DEF Rolling, Applying
<1>6. CASE ApplyEnds
  <2> DEFINE app == account[accessRun.app]
             run == [accessRun EXCEPT !.pc = "complete", !.ok = StateVerified(app)]
  <2>1. accessRun' = run /\ accessFile' = accessFile /\ accessRun.pc = "extra" /\ accessRun.todo = {}
    BY <1>6 DEF ApplyEnds
  <2>2. /\ run \in AccessRun /\ run.pc = "complete" /\ run.app = accessRun.app
        /\ run.ok = StateVerified(app)
    BY <1>0 DEF AccessRun, StateVerified
  <2> HIDE DEF run
  <2>3. /\ WildcardApps = {} /\ ExactApps = {accessRun.app} /\ Guarded(app)
        /\ \E k \in DOMAIN app.policies :
             Shaped(app.policies[k]) /\ {} = PolicyIds(app.policies) \ {app.policies[k].id}
    BY <2>1 DEF AccessInv, Applying
  <2>4. PICK k \in DOMAIN app.policies :
          Shaped(app.policies[k]) /\ PolicyIds(app.policies) \subseteq {app.policies[k].id}
    BY <2>3
  <2>5. app \in Application /\ OwnIds(app.policies, issued)
    BY <1>0, <2>3, AccessFacts DEF AccessInv, Numbered, Accounts
  <2>6. app.policies \in Seq(Policy)
    BY <2>5 DEF Application
  <2> HIDE DEF app
  <2>7. Len(app.policies) = 1 /\ k = 1
    BY <2>4, <2>5, <2>6, OnlyPolicy
  <2>8. Rolling'
    BY <2>1, <2>2 DEF Rolling
  <2>9. Applying'
    BY <1>0, <1>1, <2>1, <2>2, <2>3, <2>4, <2>7 DEF Applying, app
  <2>10. QED BY <1>3, <2>1, <2>2, <2>8, <2>9
<1>7. CASE RollbackStarts
  <2> DEFINE run == [Idle EXCEPT !.cmd = "rollback", !.pc = "next",
                                 !.apps = {a \in AppIds : accessFile[a] # NoApp}]
  <2>1. accessRun' = run /\ accessFile' = accessFile /\ accessFile # NoFile
    BY <1>7 DEF RollbackStarts
  <2>2. /\ run \in AccessRun /\ run.pc = "next" /\ run.cmd = "rollback"
        /\ run.apps = {a \in AppIds : accessFile[a] # NoApp}
    BY DEF AccessRun, Idle
  <2> HIDE DEF run
  <2>3. QED BY <1>3, <2>1, <2>2 DEF Rolling, Applying
<1>8. CASE AllDropped
  <2> DEFINE run == [accessRun EXCEPT !.pc = "restore",
                       !.todo = PolicyIds(accessFile[accessRun.app].policies)]
  <2>1. accessRun' = run /\ accessFile' = accessFile /\ accessRun.pc = "delete"
    BY <1>8 DEF AllDropped
  <2>2. /\ accessRun.app \in AppIds /\ accessFile # NoFile /\ accessFile[accessRun.app] # NoApp
        /\ account[accessRun.app] # NoApp
    BY <2>1 DEF AccessInv, Rolling
  <2>3. PolicyIds(accessFile[accessRun.app].policies) \subseteq 1..MaxPolicies
    <3>1. accessFile[accessRun.app].policies \in Seq(Policy)
      BY <1>0, <2>2 DEF Accounts, Application
    <3>2. QED BY <3>1, PoliciesTyped
  <2>4. /\ run \in AccessRun /\ run.pc = "restore" /\ run.cmd = accessRun.cmd
        /\ run.app = accessRun.app /\ run.apps = accessRun.apps
    BY <1>0, <2>3 DEF AccessRun
  <2> HIDE DEF run
  <2>5. QED BY <1>0, <1>3, <2>1, <2>2, <2>4 DEF AccessInv, Rolling, Applying
<1>9. CASE AllRestored
  <2> DEFINE run == [accessRun EXCEPT !.pc = "next", !.app = NoApp]
  <2>1. accessRun' = run /\ accessFile' = accessFile /\ accessRun.pc = "restore"
    BY <1>9 DEF AllRestored
  <2>2. /\ run \in AccessRun /\ run.pc = "next" /\ run.cmd = accessRun.cmd
        /\ run.apps = accessRun.apps
    BY <1>0 DEF AccessRun
  <2> HIDE DEF run
  <2>3. QED BY <1>3, <2>1, <2>2 DEF AccessInv, Rolling, Applying
<1>10. CASE RollbackEnds \/ CommandDies
  <2>1. accessRun' = Idle /\ accessFile' = accessFile
    BY <1>10 DEF RollbackEnds, CommandDies
  <2>2. QED BY <1>3, <2>1, AccessFacts DEF Rolling, Applying
<1>11. CASE UNCHANGED accessVars
  <2>1. accessRun' = accessRun /\ accessFile' = accessFile
    BY <1>11 DEF accessVars
  <2>2. Rolling'
    BY <1>0, <2>1 DEF AccessInv, Rolling
  <2>3. QED BY <1>0, <1>2, <2>1, <2>2
<1>12. QED BY <1>4, <1>5, <1>6, <1>7, <1>8, <1>9, <1>10, <1>11

---------------------------------------------------------------------------
(* The calls that write.                                                   *)

LEMMA InvTypes ==
  ASSUME AccessAssumption, AccessInv
  PROVE  /\ account \in Accounts /\ accessRun \in AccessRun
         /\ accessFile \in Accounts \cup {NoFile}
         /\ issued \in 0..MaxPolicies /\ issued \in Nat /\ MaxPolicies \in Nat
         /\ \A a \in AppIds : account[a] # NoApp =>
              /\ account[a] \in Application /\ account[a].policies \in Seq(Policy)
              /\ OwnIds(account[a].policies, issued)
<1>1. /\ account \in Accounts /\ accessRun \in AccessRun
      /\ accessFile \in Accounts \cup {NoFile}
      /\ issued \in 0..MaxPolicies /\ MaxPolicies \in Nat
  BY DEF AccessInv, AccessTypeOK, AccessAssumption
<1>2. \A a \in AppIds : account[a] # NoApp =>
        account[a] \in Application /\ account[a].policies \in Seq(Policy)
  BY <1>1 DEF Accounts, Application
<1>3. QED BY <1>1, <1>2 DEF AccessInv, Numbered

LEMMA UpsertApplicationKeeps ==
  ASSUME AccessAssumption, AccessInv, UpsertApplication
  PROVE  AccessInv' /\ (OwnerAdmitted => OwnerAdmitted')
<1> DEFINE new == accessRun.app = NoApp
<1>1. PICK a \in AppIds :
        /\ IF new THEN account[a] = NoApp ELSE a = accessRun.app
        /\ account' = [account EXCEPT ![a] =
             [ours |-> TRUE, hosted |-> TRUE, hosts |-> {"exact"}, idps |-> {ChosenProvider},
              hours |-> IF new THEN 24 ELSE DesiredSession(account[a].hours),
              policies |-> IF new THEN <<>> ELSE account[a].policies]]
        /\ Continue([accessRun EXCEPT !.pc = "policy", !.app = a])
  BY DEF UpsertApplication
<1> DEFINE row == [ours |-> TRUE, hosted |-> TRUE, hosts |-> {"exact"}, idps |-> {ChosenProvider},
                   hours |-> IF new THEN 24 ELSE DesiredSession(account[a].hours),
                   policies |-> IF new THEN <<>> ELSE account[a].policies]
           next == [accessRun EXCEPT !.pc = "policy", !.app = a]
<1>2. /\ accessRun.pc = "application" /\ WildcardApps = {} /\ ChosenProvider # "none"
      /\ ExactApps = IF new THEN {} ELSE {a}
      /\ identity' = identity /\ accessFile' = accessFile /\ issued' = issued
  BY <1>1 DEF UpsertApplication, AccessInv, Applying
<1>3. ~new => account[a] # NoApp /\ account[a] \in Application
              /\ account[a].policies \in Seq(Policy) /\ OwnIds(account[a].policies, issued)
  BY <1>2, AccessFacts, InvTypes
<1>4. /\ row.policies \in Seq(Policy) /\ OwnIds(row.policies, issued)
      /\ row.hours \in {12, 24}
  <2>1. <<>> \in Seq(Policy) /\ OwnIds(<<>>, issued)
    BY DEF OwnIds
  <2>2. QED BY <1>3, <2>1, AccessFacts
<1>5. row \in Application
  BY <1>2, <1>4, AccessFacts DEF Application
<1>6. account' = [account EXCEPT ![a] = row] /\ Continue(next)
  BY <1>1
<1>7. /\ row.hosts = {"exact"} /\ row.hosted /\ row.idps = {ChosenProvider}
      /\ ~new => row.policies = account[a].policies
  OBVIOUS
<1>8. /\ next \in AccessRun /\ next.pc = "policy" /\ next.app = a
  BY InvTypes DEF AccessRun
<1> HIDE DEF row, next
<1>9. /\ account' \in Accounts /\ account'[a] = row /\ row # NoApp
      /\ \A b \in AppIds \ {a} : account'[b] = account[b]
      /\ ExactApps' = {a} /\ WildcardApps' = {}
  <2>1. AccessTypeOK
    BY DEF AccessInv
  <2>2. MatchesExact(row) /\ ~MatchesWildcard(row)
    BY <1>7 DEF MatchesExact, MatchesWildcard
  <2>3. QED BY <1>2, <1>5, <1>6, <2>1, <2>2, RowStep
<1>10. accessRun' \in AccessRun /\ (accessRun' = next \/ accessRun'.pc = "idle")
  BY <1>6, <1>8, RunStep
<1>11. AccessTypeOK'
  BY <1>2, <1>9, <1>10 DEF AccessInv, AccessTypeOK
<1>12. Numbered'
  BY <1>2, <1>4, <1>9 DEF AccessInv, Numbered
<1>13. Rolling'
  BY <1>8, <1>10 DEF Rolling
<1>14. Applying'
  <2>1. ChosenProvider' = ChosenProvider
    BY <1>2 DEF ChosenProvider
  <2>2. Guarded(account[a])'
    BY <1>4, <1>7, <1>9, <2>1 DEF Guarded
  <2>3. QED BY <1>8, <1>9, <1>10, <2>2 DEF Applying
<1>15. OwnerAdmitted => OwnerAdmitted'
  BY <1>2, <1>7, <1>9 DEF OwnerAdmitted
<1>16. QED BY <1>11, <1>12, <1>13, <1>14, <1>15 DEF AccessInv

\* Apply writes the policies s of application a, the k-th of which is to stay, and
\* goes on as next.
WritesPolicies(a, s, k, next) ==
  /\ accessRun.pc \in {"policy", "extra"} /\ accessRun.app = a
  /\ s \in Seq(Policy) /\ account' = [account EXCEPT ![a].policies = s]
  /\ issued' \in issued..MaxPolicies /\ OwnIds(s, issued')
  /\ identity' = identity /\ accessFile' = accessFile
  /\ k \in DOMAIN s /\ Shaped(s[k])
  /\ next \in AccessRun /\ next.pc = "extra" /\ next.app = a
  /\ next.todo = PolicyIds(s) \ {s[k].id} /\ Continue(next)

LEMMA PoliciesKeep ==
  ASSUME AccessAssumption, AccessInv, NEW a, NEW s, NEW k, NEW next,
         WritesPolicies(a, s, k, next)
  PROVE  AccessInv' /\ OwnerAdmitted'
<1> USE DEF WritesPolicies
<1>1. /\ WildcardApps = {} /\ ExactApps = {a} /\ Guarded(account[a])
      /\ a \in AppIds /\ account[a] # NoApp
  BY AccessFacts DEF AccessInv, Applying
<1>2. AccessTypeOK
  BY DEF AccessInv
<1>3. /\ account' \in Accounts /\ account'[a] # NoApp
      /\ \A b \in AppIds \ {a} : account'[b] = account[b]
      /\ account'[a].policies = s /\ account'[a].hosts = account[a].hosts
      /\ account'[a].hosted = account[a].hosted /\ account'[a].hours = account[a].hours
      /\ account'[a].idps = account[a].idps
      /\ ExactApps' = ExactApps /\ WildcardApps' = WildcardApps
  BY <1>1, <1>2, PoliciesStep
<1>4. accessRun' \in AccessRun /\ (accessRun' = next \/ accessRun'.pc = "idle")
  BY RunStep
<1>5. issued' \in 0..MaxPolicies /\ issued <= issued' /\ issued' \in Nat
  BY InvTypes
<1>6. AccessTypeOK'
  BY <1>2, <1>3, <1>4, <1>5 DEF AccessTypeOK
<1>7. Numbered'
  <2>1. ASSUME NEW b \in AppIds \ {a}, account[b] # NoApp
        PROVE  OwnIds(account[b].policies, issued')
    <3>1. /\ account[b].policies \in Seq(Policy) /\ OwnIds(account[b].policies, issued)
          /\ issued \in Nat
      BY <2>1, InvTypes
    <3>2. \A i \in DOMAIN account[b].policies : account[b].policies[i].id \in Nat
      <4>1. \A i \in DOMAIN account[b].policies : account[b].policies[i] \in Policy
        BY <3>1, PoliciesTyped
      <4>2. QED BY <4>1, InvTypes DEF Policy
    <3>3. QED BY <1>5, <3>1, <3>2 DEF OwnIds
  <2>2. QED BY <1>3, <2>1 DEF Numbered
<1>8. Rolling'
  BY <1>4 DEF Rolling
<1>9. Applying'
  <2>1. Guarded(account[a])'
    BY <1>1, <1>3 DEF Guarded, ChosenProvider
  <2>2. QED BY <1>1, <1>3, <1>4, <2>1 DEF Applying
<1>10. OwnerAdmitted'
  BY <1>1, <1>3 DEF OwnerAdmitted
<1>11. QED BY <1>6, <1>7, <1>8, <1>9, <1>10 DEF AccessInv

LEMMA UpsertPolicyKeeps ==
  ASSUME AccessAssumption, AccessInv, UpsertPolicy
  PROVE  AccessInv' /\ OwnerAdmitted'
<1> DEFINE a == accessRun.app
           listed == account[a].policies
           extra(id) == [accessRun EXCEPT !.pc = "extra", !.todo = ExtraPolicies(listed, id)]
<1>0. /\ accessRun.pc = "policy" /\ a \in AppIds /\ account[a] # NoApp
      /\ identity' = identity /\ accessFile' = accessFile
  BY AccessFacts DEF UpsertPolicy, AccessInv, Applying
<1>1. /\ listed \in Seq(Policy) /\ OwnIds(listed, issued) /\ PolicyIds(listed) \subseteq 1..MaxPolicies
      /\ issued \in Nat /\ issued \in 0..MaxPolicies /\ accessRun \in AccessRun
      /\ MaxPolicies \in Nat
  BY <1>0, InvTypes, PoliciesTyped
<1>2. \A id : /\ extra(id) \in AccessRun /\ extra(id).pc = "extra" /\ extra(id).app = a
              /\ extra(id).todo = PolicyIds(listed) \ {id}
  BY <1>1 DEF AccessRun, ExtraPolicies
<1>3. \A id \in 1..MaxPolicies : /\ OurPolicy(id) \in Policy /\ OurPolicy(id).id = id
                                 /\ Shaped(OurPolicy(id))
  BY DEF OurPolicy, Policy, Shaped
<1>4. ASSUME NEW i \in DOMAIN listed,
             account' = [account EXCEPT ![a].policies[i] = OurPolicy(listed[i].id)],
             Continue(extra(listed[i].id)), issued' = issued
      PROVE  AccessInv' /\ OwnerAdmitted'
  <2> DEFINE p == OurPolicy(listed[i].id)
             s == [listed EXCEPT ![i] = p]
  <2>1. p \in Policy /\ p.id = listed[i].id /\ Shaped(p)
    <3>1. listed[i].id \in 1..MaxPolicies
      BY <1>1 DEF PolicyIds
    <3>2. QED BY <1>3, <3>1
  <2>2. account' = [account EXCEPT ![a].policies = s]
    BY <1>4
  <2> HIDE DEF p
  <2>3. /\ s \in Seq(Policy) /\ i \in DOMAIN s /\ OwnIds(s, issued)
        /\ PolicyIds(s) = PolicyIds(listed) /\ s[i] = p
    BY <1>1, <2>1, PolicyRewritten
  <2> HIDE DEF s
  <2>4. issued' \in issued..MaxPolicies
    BY <1>1, <1>4
  <2> DEFINE next == extra(listed[i].id)
  <2>5. /\ next \in AccessRun /\ next.pc = "extra" /\ next.app = a
        /\ next.todo = PolicyIds(s) \ {s[i].id} /\ Continue(next)
    BY <1>2, <1>4, <2>1, <2>3
  <2> HIDE DEF next
  <2>6. WritesPolicies(a, s, i, next)
    BY <1>0, <1>4, <2>1, <2>2, <2>3, <2>4, <2>5 DEF WritesPolicies
  <2>7. QED BY <2>6, PoliciesKeep
<1>5. ASSUME issued < MaxPolicies, issued' = issued + 1,
             account' = [account EXCEPT ![a].policies = Append(@, OurPolicy(issued + 1))],
             Continue(extra(issued + 1))
      PROVE  AccessInv' /\ OwnerAdmitted'
  <2> DEFINE p == OurPolicy(issued + 1)
             s == Append(listed, p)
  <2>1. p \in Policy /\ p.id = issued + 1 /\ Shaped(p)
    BY <1>1, <1>3, <1>5
  <2>2. account' = [account EXCEPT ![a].policies = s]
    BY <1>5
  <2> HIDE DEF p
  <2>3. /\ s \in Seq(Policy) /\ OwnIds(s, issued + 1)
        /\ PolicyIds(s) = PolicyIds(listed) \cup {p.id} /\ Among(p, s)
    <3>1. issued \in Nat /\ listed \in Seq(Policy) /\ OwnIds(listed, issued)
      BY <1>1
    <3>2. p \in Policy /\ p.id = issued + 1
      BY <2>1
    <3> HIDE DEF listed
    <3>3. QED BY <3>1, <3>2, PolicyAdded
  <2> HIDE DEF s
  <2>4. PICK i \in DOMAIN s : s[i] = p
    BY <2>3 DEF Among
  <2>5. issued' \in issued..MaxPolicies
    BY <1>1, <1>5
  <2> DEFINE next == extra(issued + 1)
  <2>6. /\ next \in AccessRun /\ next.pc = "extra" /\ next.app = a
        /\ next.todo = PolicyIds(s) \ {s[i].id} /\ Continue(next)
    BY <1>2, <1>5, <2>1, <2>3, <2>4
  <2> HIDE DEF next
  <2>7. WritesPolicies(a, s, i, next)
    BY <1>0, <1>5, <2>1, <2>2, <2>3, <2>4, <2>5, <2>6 DEF WritesPolicies
  <2>8. QED BY <2>7, PoliciesKeep
<1>6. QED BY <1>4, <1>5 DEF UpsertPolicy

LEMMA RemoveExtraKeeps ==
  ASSUME AccessAssumption, AccessInv, RemoveExtraPolicy
  PROVE  AccessInv' /\ OwnerAdmitted'
<1> DEFINE a == accessRun.app
           listed == account[a].policies
<1>0. /\ accessRun.pc = "extra" /\ a \in AppIds /\ account[a] # NoApp
      /\ identity' = identity /\ accessFile' = accessFile /\ issued' = issued
  BY AccessFacts DEF RemoveExtraPolicy, AccessInv, Applying
<1>1. /\ listed \in Seq(Policy) /\ OwnIds(listed, issued)
      /\ issued \in Nat /\ issued \in 0..MaxPolicies /\ accessRun \in AccessRun
      /\ MaxPolicies \in Nat
  BY <1>0, InvTypes
<1>2. PICK k \in DOMAIN listed :
        Shaped(listed[k]) /\ accessRun.todo = PolicyIds(listed) \ {listed[k].id}
  BY <1>0 DEF AccessInv, Applying
<1>3. PICK i \in DOMAIN listed :
        /\ listed[i].id \in accessRun.todo
        /\ account' = [account EXCEPT ![a].policies = RemoveAt(listed, i)]
        /\ Continue([accessRun EXCEPT !.todo = @ \ {listed[i].id}])
  BY DEF RemoveExtraPolicy
<1> DEFINE s == RemoveAt(listed, i)
           next == [accessRun EXCEPT !.todo = @ \ {listed[i].id}]
<1>4. /\ s \in Seq(Policy) /\ OwnIds(s, issued) /\ PolicyIds(s) = PolicyIds(listed) \ {listed[i].id}
      /\ \A j \in DOMAIN listed : j # i => \E l \in DOMAIN s : s[l] = listed[j]
  BY <1>1, PolicyDeleted
<1>5. k # i
  BY <1>2, <1>3
<1>6. PICK l \in DOMAIN s : s[l] = listed[k]
  BY <1>4, <1>5
<1>7. /\ next \in AccessRun /\ next.pc = "extra" /\ next.app = a
      /\ next.todo = accessRun.todo \ {listed[i].id} /\ Continue(next)
  BY <1>0, <1>1, <1>3 DEF AccessRun
<1>8. account' = [account EXCEPT ![a].policies = s]
  BY <1>3
<1> HIDE DEF s, next
<1>9. next.todo = PolicyIds(s) \ {s[l].id}
  BY <1>2, <1>4, <1>6, <1>7
<1>10. issued' \in issued..MaxPolicies /\ OwnIds(s, issued') /\ Shaped(s[l])
  BY <1>0, <1>1, <1>2, <1>4, <1>6
<1>11. WritesPolicies(a, s, l, next)
  BY <1>0, <1>4, <1>6, <1>7, <1>8, <1>9, <1>10 DEF WritesPolicies
<1>12. QED BY <1>11, PoliciesKeep

---------------------------------------------------------------------------
(* The rollback's calls.                                                   *)

\* The rollback stays with application a, whose policies are s by now, and has the
\* identifiers todo left to look at.
RollsBack(a, s, todo) ==
  /\ accessRun.pc \in {"delete", "restore"} /\ accessRun.app = a
  /\ s \in Seq(Policy) /\ account' = [account EXCEPT ![a].policies = s]
  /\ issued' \in issued..MaxPolicies /\ OwnIds(s, issued')
  /\ identity' = identity /\ accessFile' = accessFile
  /\ todo \subseteq 1..MaxPolicies /\ accessRun' = [accessRun EXCEPT !.todo = todo]

LEMMA NumberedKept ==
  ASSUME AccessAssumption, AccessInv, NEW b \in AppIds, account[b] # NoApp,
         issued' \in issued..MaxPolicies
  PROVE  OwnIds(account[b].policies, issued')
<1>1. /\ account[b].policies \in Seq(Policy) /\ OwnIds(account[b].policies, issued)
      /\ issued \in Nat /\ MaxPolicies \in Nat
  BY InvTypes
<1>2. \A i \in DOMAIN account[b].policies : account[b].policies[i].id \in Nat
  <2>1. \A i \in DOMAIN account[b].policies : account[b].policies[i] \in Policy
    BY <1>1, PoliciesTyped
  <2>2. QED BY <1>1, <2>1 DEF Policy
<1>3. QED BY <1>1, <1>2 DEF OwnIds

LEMMA RollsBackKeeps ==
  ASSUME AccessAssumption, AccessInv, NEW a, NEW s, NEW todo, RollsBack(a, s, todo)
  PROVE  AccessInv'
<1>0. /\ accessRun.pc \in {"delete", "restore"} /\ accessRun.app = a
      /\ s \in Seq(Policy) /\ account' = [account EXCEPT ![a].policies = s]
      /\ issued' \in issued..MaxPolicies /\ OwnIds(s, issued')
      /\ identity' = identity /\ accessFile' = accessFile
      /\ todo \subseteq 1..MaxPolicies /\ accessRun' = [accessRun EXCEPT !.todo = todo]
  BY DEF RollsBack
<1>1. /\ a \in AppIds /\ account[a] # NoApp /\ accessFile[a] # NoApp /\ accessFile # NoFile
      /\ accessRun.cmd # "apply" /\ \A b \in accessRun.apps : accessFile[b] # NoApp
  BY <1>0 DEF AccessInv, Rolling
<1>2. AccessTypeOK
  BY DEF AccessInv
<1>3. /\ account' \in Accounts /\ account'[a] # NoApp
      /\ \A b \in AppIds \ {a} : account'[b] = account[b]
      /\ account'[a].policies = s
  <2>1. s \in Seq(Policy) /\ account' = [account EXCEPT ![a].policies = s]
    BY <1>0
  <2>2. a \in AppIds /\ account[a] # NoApp
    BY <1>1
  <2>3. /\ account' \in Accounts /\ account'[a] # NoApp
        /\ \A b \in AppIds \ {a} : account'[b] = account[b]
        /\ account'[a].policies = s /\ account'[a].hosts = account[a].hosts
        /\ account'[a].hosted = account[a].hosted /\ account'[a].hours = account[a].hours
        /\ account'[a].idps = account[a].idps
        /\ ExactApps' = ExactApps /\ WildcardApps' = WildcardApps
    BY <1>2, <2>1, <2>2, PoliciesStep
  <2>4. QED BY <2>3
<1>4. /\ accessRun' \in AccessRun /\ accessRun'.pc = accessRun.pc /\ accessRun'.app = a
      /\ accessRun'.cmd = accessRun.cmd /\ accessRun'.apps = accessRun.apps
  BY <1>0, InvTypes DEF AccessRun
<1>5. issued' \in 0..MaxPolicies
  BY <1>0, InvTypes
<1>6. AccessTypeOK'
  BY <1>0, <1>2, <1>3, <1>4, <1>5 DEF AccessTypeOK
<1>7. Numbered'
  BY <1>0, <1>3, NumberedKept DEF Numbered
<1>8. Rolling' /\ Applying'
  BY <1>0, <1>1, <1>3, <1>4 DEF Rolling, Applying
<1>9. QED BY <1>6, <1>7, <1>8 DEF AccessInv

\* A call that is not applied.
LEMMA SamePolicies ==
  ASSUME AccessAssumption, AccessInv, accessRun.pc \in {"delete", "restore"},
         UNCHANGED <<account, identity, accessFile, issued>>,
         NEW todo \in SUBSET (1..MaxPolicies), accessRun' = [accessRun EXCEPT !.todo = todo]
  PROVE  AccessInv'
<1> DEFINE a == accessRun.app
           s == account[a].policies
<1>1. a \in AppIds /\ account[a] # NoApp
  BY DEF AccessInv, Rolling
<1>2. /\ s \in Seq(Policy) /\ OwnIds(s, issued) /\ account \in Accounts
      /\ account[a] \in Application /\ issued \in 0..MaxPolicies /\ MaxPolicies \in Nat
  BY <1>1, InvTypes
<1>3. account = [account EXCEPT ![a].policies = s]
  <2>1. [account[a] EXCEPT !.policies = s] = account[a]
    BY <1>2 DEF Application
  <2>2. [account EXCEPT ![a] = account[a]] = account
    BY <1>1, <1>2 DEF Accounts
  <2>3. QED BY <2>1, <2>2
<1> HIDE DEF s
<1>4. account' = [account EXCEPT ![a].policies = s] /\ issued' \in issued..MaxPolicies
  BY <1>2, <1>3
<1>5. RollsBack(a, s, todo)
  BY <1>2, <1>4 DEF RollsBack
<1>6. QED BY <1>5, RollsBackKeeps

LEMMA RestoreApplicationKeeps ==
  ASSUME AccessAssumption, AccessInv, RestoreApplication
  PROVE  AccessInv'
<1>0. /\ accessRun.pc = "next" /\ accessRun.cmd # "apply" /\ accessFile # NoFile
      /\ \A a \in accessRun.apps : accessFile[a] # NoApp
      /\ identity' = identity /\ accessFile' = accessFile /\ issued' = issued
      /\ accessRun \in AccessRun /\ accessFile \in Accounts /\ issued \in 0..MaxPolicies
  BY InvTypes DEF RestoreApplication, AccessInv, Rolling
<1>1. AccessTypeOK /\ Numbered
  BY DEF AccessInv
<1>2. PICK a \in accessRun.apps :
        \/ /\ account[a] # NoApp
           /\ account' = [account EXCEPT ![a] =
                [accessFile[a] EXCEPT !.policies = account[a].policies]]
           /\ Continue([accessRun EXCEPT !.pc = "delete", !.app = a, !.apps = @ \ {a},
                !.todo = PolicyIds(account[a].policies) \ PolicyIds(accessFile[a].policies)])
        \/ /\ accessRun' = [accessRun EXCEPT !.apps = @ \ {a}]
           /\ UNCHANGED account
  BY DEF RestoreApplication
<1>3. a \in AppIds /\ accessFile[a] \in Application /\ accessFile[a] # NoApp
  BY <1>0 DEF AccessRun, Accounts
<1>4. CASE /\ account[a] # NoApp
           /\ account' = [account EXCEPT ![a] =
                [accessFile[a] EXCEPT !.policies = account[a].policies]]
           /\ Continue([accessRun EXCEPT !.pc = "delete", !.app = a, !.apps = @ \ {a},
                !.todo = PolicyIds(account[a].policies) \ PolicyIds(accessFile[a].policies)])
  <2> DEFINE row == [accessFile[a] EXCEPT !.policies = account[a].policies]
             todo == PolicyIds(account[a].policies) \ PolicyIds(accessFile[a].policies)
             next == [accessRun EXCEPT !.pc = "delete", !.app = a, !.apps = @ \ {a}, !.todo = todo]
  <2>1. account[a].policies \in Seq(Policy) /\ OwnIds(account[a].policies, issued)
    BY <1>3, <1>4, InvTypes
  <2>2. row \in Application /\ row.policies = account[a].policies
    BY <1>3, <2>1 DEF Application
  <2>3. todo \subseteq 1..MaxPolicies
    BY <2>1, PoliciesTyped
  <2>4. account' = [account EXCEPT ![a] = row] /\ Continue(next)
    BY <1>4
  <2> HIDE DEF row, todo
  <2>5. /\ next \in AccessRun /\ next.pc = "delete" /\ next.app = a /\ next.cmd = accessRun.cmd
        /\ next.apps = accessRun.apps \ {a}
    BY <1>0, <1>3, <2>3 DEF AccessRun
  <2> HIDE DEF next
  <2>6. /\ account' \in Accounts /\ account'[a] = row /\ row # NoApp
        /\ \A b \in AppIds \ {a} : account'[b] = account[b]
    BY <1>1, <1>3, <2>2, <2>4, RowStep
  <2>7. accessRun' \in AccessRun /\ (accessRun' = next \/ accessRun'.pc = "idle")
    BY <2>4, <2>5, RunStep
  <2>8. AccessTypeOK'
    BY <1>0, <1>1, <2>6, <2>7 DEF AccessTypeOK
  <2>9. Numbered'
    BY <1>0, <1>1, <2>1, <2>2, <2>6 DEF Numbered
  <2>10. Rolling' /\ Applying'
    BY <1>0, <1>3, <2>5, <2>6, <2>7 DEF Rolling, Applying
  <2>11. QED BY <2>8, <2>9, <2>10 DEF AccessInv
<1>5. CASE /\ accessRun' = [accessRun EXCEPT !.apps = @ \ {a}]
           /\ UNCHANGED account
  <2>1. /\ accessRun' \in AccessRun /\ accessRun'.pc = "next" /\ accessRun'.cmd = accessRun.cmd
        /\ accessRun'.apps = accessRun.apps \ {a}
    BY <1>0, <1>5 DEF AccessRun
  <2>2. AccessTypeOK' /\ Numbered'
    BY <1>0, <1>1, <1>5, <2>1 DEF AccessTypeOK, Numbered
  <2>3. Rolling' /\ Applying'
    BY <1>0, <2>1 DEF Rolling, Applying
  <2>4. QED BY <2>2, <2>3 DEF AccessInv
<1>6. QED BY <1>2, <1>4, <1>5

LEMMA DropKeeps ==
  ASSUME AccessAssumption, AccessInv, DropLaterPolicy
  PROVE  AccessInv'
<1> DEFINE a == accessRun.app
           listed == account[a].policies
<1>0. /\ accessRun.pc = "delete" /\ a \in AppIds /\ account[a] # NoApp
      /\ identity' = identity /\ accessFile' = accessFile /\ issued' = issued
  BY DEF DropLaterPolicy, AccessInv, Rolling
<1>1. /\ listed \in Seq(Policy) /\ OwnIds(listed, issued)
      /\ issued \in Nat /\ issued \in 0..MaxPolicies /\ accessRun \in AccessRun
      /\ MaxPolicies \in Nat
  BY <1>0, InvTypes
<1>2. PICK i \in DOMAIN listed :
        /\ \/ account' = [account EXCEPT ![a].policies = RemoveAt(listed, i)]
           \/ UNCHANGED account
        /\ accessRun' = [accessRun EXCEPT !.todo = @ \ {listed[i].id}]
  BY DEF DropLaterPolicy
<1> DEFINE todo == accessRun.todo \ {listed[i].id}
<1>3. todo \subseteq 1..MaxPolicies /\ accessRun' = [accessRun EXCEPT !.todo = todo]
  BY <1>1, <1>2 DEF AccessRun
<1> HIDE DEF todo
<1>4. CASE UNCHANGED account
  BY <1>0, <1>3, <1>4, SamePolicies
<1>5. CASE account' = [account EXCEPT ![a].policies = RemoveAt(listed, i)]
  <2>1. RemoveAt(listed, i) \in Seq(Policy) /\ OwnIds(RemoveAt(listed, i), issued)
    BY <1>1, PolicyDeleted
  <2> DEFINE s == RemoveAt(listed, i)
  <2>2. account' = [account EXCEPT ![a].policies = s] /\ issued' \in issued..MaxPolicies
    BY <1>0, <1>1, <1>5
  <2> HIDE DEF s
  <2>3. RollsBack(a, s, todo)
    BY <1>0, <1>3, <2>1, <2>2 DEF RollsBack, s
  <2>4. QED BY <2>3, RollsBackKeeps
<1>6. QED BY <1>2, <1>4, <1>5

LEMMA RestorePolicyKeeps ==
  ASSUME AccessAssumption, AccessInv, RestorePolicy
  PROVE  AccessInv'
<1> DEFINE a == accessRun.app
           now == account[a].policies
<1>0. /\ accessRun.pc = "restore" /\ a \in AppIds /\ account[a] # NoApp
      /\ accessFile[a] # NoApp /\ accessFile # NoFile
      /\ identity' = identity /\ accessFile' = accessFile
  BY DEF RestorePolicy, AccessInv, Rolling
<1>1. /\ now \in Seq(Policy) /\ OwnIds(now, issued)
      /\ issued \in Nat /\ issued \in 0..MaxPolicies /\ accessRun \in AccessRun
      /\ MaxPolicies \in Nat
  BY <1>0, InvTypes
<1>2. PICK prior \in ToSet(accessFile[a].policies) :
        /\ accessRun' = [accessRun EXCEPT !.todo = @ \ {prior.id}]
        /\ \/ UNCHANGED <<account, issued>>
           \/ \E i \in DOMAIN now :
                /\ now[i].id = prior.id
                /\ account' = [account EXCEPT ![a].policies[i] = prior]
                /\ UNCHANGED issued
           \/ /\ prior.id \notin PolicyIds(now) /\ issued < MaxPolicies
              /\ issued' = issued + 1
              /\ account' = [account EXCEPT ![a].policies =
                   Append(@, [prior EXCEPT !.id = issued + 1])]
  BY DEF RestorePolicy
<1>3. prior \in Policy
  <2>1. accessFile[a].policies \in Seq(Policy)
    BY <1>0, InvTypes DEF Accounts, Application
  <2>2. QED BY <2>1, PoliciesTyped DEF ToSet
<1> DEFINE todo == accessRun.todo \ {prior.id}
<1>4. todo \subseteq 1..MaxPolicies /\ accessRun' = [accessRun EXCEPT !.todo = todo]
  BY <1>1, <1>2 DEF AccessRun
<1> HIDE DEF todo
<1>5. CASE UNCHANGED <<account, issued>>
  BY <1>0, <1>4, <1>5, SamePolicies
<1>6. ASSUME NEW i \in DOMAIN now, now[i].id = prior.id, issued' = issued,
             account' = [account EXCEPT ![a].policies[i] = prior]
      PROVE  AccessInv'
  <2> DEFINE s == [now EXCEPT ![i] = prior]
  <2>1. s \in Seq(Policy) /\ OwnIds(s, issued)
    BY <1>1, <1>3, <1>6, PolicyRewritten
  <2>2. account' = [account EXCEPT ![a].policies = s] /\ issued' \in issued..MaxPolicies
    BY <1>1, <1>6
  <2> HIDE DEF s
  <2>3. RollsBack(a, s, todo)
    BY <1>0, <1>4, <1>6, <2>1, <2>2 DEF RollsBack
  <2>4. QED BY <2>3, RollsBackKeeps
<1>7. ASSUME issued < MaxPolicies, issued' = issued + 1,
             account' = [account EXCEPT ![a].policies =
                           Append(@, [prior EXCEPT !.id = issued + 1])]
      PROVE  AccessInv'
  <2> DEFINE p == [prior EXCEPT !.id = issued + 1]
             s == Append(now, p)
  <2>1. p \in Policy /\ p.id = issued + 1
    <3>1. issued + 1 \in 1..MaxPolicies
      BY <1>1, <1>7
    <3>2. QED BY <1>3, <3>1 DEF Policy
  <2>2. account' = [account EXCEPT ![a].policies = s] /\ issued' \in issued..MaxPolicies
    BY <1>1, <1>7
  <2> HIDE DEF p
  <2>3. s \in Seq(Policy) /\ OwnIds(s, issued + 1)
    BY <1>1, <2>1, PolicyAdded
  <2> HIDE DEF s
  <2>4. RollsBack(a, s, todo)
    BY <1>0, <1>4, <1>7, <2>2, <2>3 DEF RollsBack
  <2>5. QED BY <2>4, RollsBackKeeps
<1>8. QED BY <1>2, <1>5, <1>6, <1>7

LEMMA AccessNextKeeps ==
  ASSUME AccessAssumption, AccessInv, [AccessNext]_accessVars
  PROVE  AccessInv'
BY QuietStep, UpsertApplicationKeeps, UpsertPolicyKeeps, RemoveExtraKeeps,
   RestoreApplicationKeeps, DropKeeps, RestorePolicyKeeps
DEF AccessNext

LEMMA AccessInvHolds == AccessSpec => []AccessInv
<1>1. AccessInit => AccessInv
  BY AccessAssumption, AccessFacts
  DEF AccessAssumption, AccessInit, AccessInv, AccessTypeOK, Numbered, Rolling, Applying
<1>2. AccessInv /\ [AccessNext]_accessVars => AccessInv'
  BY AccessAssumption, AccessNextKeeps
<1>3. QED BY <1>1, <1>2, PTL DEF AccessSpec

\* The account, the snapshot and the running command keep their types.
THEOREM AccessTypeCorrect == AccessSpec => []AccessTypeOK
<1>1. AccessInv => AccessTypeOK
  BY DEF AccessInv
<1>2. QED BY <1>1, AccessInvHolds, PTL

LEMMA EndVerified ==
  ASSUME AccessInv
  PROVE  ApplyLeadsToVerified
<1>1. ASSUME accessRun.pc = "complete"
      PROVE  /\ accessRun.ok = StateVerified(account[accessRun.app])
             /\ identity.team => accessRun.ok
             /\ accessRun.ok => Verified
  <2> DEFINE app == account[accessRun.app]
  <2>1. /\ WildcardApps = {} /\ ExactApps = {accessRun.app} /\ Guarded(app)
        /\ Len(app.policies) = 1 /\ Shaped(app.policies[1]) /\ accessRun.ok = StateVerified(app)
    BY <1>1 DEF AccessInv, Applying
  <2>2. identity.team => StateVerified(app)
    BY <2>1 DEF StateVerified, Guarded, MatchesExact, MatchesWildcard
  <2>3. accessRun.app \in AppIds
    BY <2>1, AccessFacts
  <2>4. QED BY <2>1, <2>2, <2>3 DEF Verified
<1>2. ASSUME PlanInSync, identity.team
      PROVE  Verified
  <2>1. PICK a \in AppIds :
          /\ ExactApps = {a}
          /\ account[a].ours /\ account[a].hosted
          /\ account[a].hours = DesiredSession(account[a].hours)
          /\ ChosenProvider \in account[a].idps
          /\ Len(account[a].policies) = 1 /\ Shaped(account[a].policies[1])
    BY <1>2 DEF PlanInSync
  <2>2. /\ account[a] \in Application /\ MatchesExact(account[a])
        /\ ~MatchesWildcard(account[a])
    BY <1>2, <2>1 DEF PlanInSync, ExactApps, WildcardApps, AccessInv, AccessTypeOK, Accounts
  <2>3. account[a].hours <= 24
    BY <2>1, <2>2, AccessFacts
  <2>4. QED BY <1>2, <2>1, <2>2, <2>3 DEF PlanInSync, Verified, StateVerified
<1>3. QED BY <1>1, <1>2 DEF ApplyLeadsToVerified

\* An apply that gets to its end leaves what verify asks for, whatever it found,
\* and however earlier commands died; and so does a plan with nothing to change.
THEOREM ApplyVerified == AccessSpec => []ApplyLeadsToVerified
BY EndVerified, AccessInvHolds, PTL

\* No call of an apply takes the last policy away that lets the owner in.
THEOREM OwnerKept == AccessSpec => ApplyKeepsOwner
<1>1. ASSUME AccessInv, [AccessNext]_accessVars, accessRun.cmd = "apply", OwnerAdmitted
      PROVE  OwnerAdmitted'
  <2>1. CASE UpsertApplication \/ UpsertPolicy \/ RemoveExtraPolicy
    BY <1>1, <2>1, AccessAssumption, UpsertApplicationKeeps, UpsertPolicyKeeps, RemoveExtraKeeps
  <2>2. CASE account' = account
    BY <1>1, <2>2 DEF OwnerAdmitted, ExactApps
  <2>3. ASSUME RestoreApplication \/ DropLaterPolicy \/ RestorePolicy PROVE FALSE
    BY <1>1, <2>3 DEF AccessInv, Rolling, RestoreApplication, DropLaterPolicy, RestorePolicy
  <2>4. QED
    BY <1>1, <2>1, <2>2, <2>3
    DEF AccessNext, TakeSnapshot, ApplyStarts, ApplyEnds, RollbackStarts, AllDropped,
        AllRestored, RollbackEnds, CommandDies, accessVars
<1>2. AccessInv /\ [AccessNext]_accessVars =>
        [accessRun.cmd = "apply" /\ OwnerAdmitted => OwnerAdmitted']_accessVars
  BY <1>1
<1>3. QED BY <1>2, AccessInvHolds, PTL DEF AccessSpec, ApplyKeepsOwner
===========================================================================
