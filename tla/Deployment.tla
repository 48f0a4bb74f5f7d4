---------------------------- MODULE Deployment ----------------------------
(***************************************************************************)
(* The production pipeline (.github/workflows/production.yml and           *)
(* rollback.yml, with the scripts they call): D1 schema, credential-admin  *)
(* Worker, main Worker and Pages are changed one after the other by jobs   *)
(* that may fail or be cancelled at every step, and a failed run may be    *)
(* run again, from its start or from the job that failed, also after later *)
(* commits were deployed.                                                  *)
(*                                                                         *)
(* A Worker version or Pages deployment is known by the commit it was      *)
(* built from; the first ones were deployed by hand.  A check whose        *)
(* outcome depends on something outside the model (tests, bindings, cron,  *)
(* Access) passes or stops the run.                                        *)
(***************************************************************************)
EXTENDS FiniteSets

CONSTANTS
  Commits,         \* commits on main
  NoCommit,        \* none of them
  Tables, Columns, \* names of tables, names of columns added to one later
  TableOf,         \* the table of each column
  RequiredTables,  \* REQUIRED_D1_TABLES of each commit
  RequiredColumns, \* REQUIRED_D1_COLUMNS of each commit
  Alters           \* the columns that apply-schema-alters.mjs of each commit adds

ASSUME DeploymentAssumption ==
  /\ NoCommit \notin Commits
  /\ TableOf \in [Columns -> Tables]
  /\ RequiredTables \in [Commits -> SUBSET Tables]
  /\ RequiredColumns \in [Commits -> SUBSET Columns]
  /\ Alters \in [Commits -> SUBSET Columns]

VARIABLES
  d1,          \* the tables and added columns that D1 has
  worker,      \* main Worker: commits uploaded, the newest version's, the live one's
  admin,       \* the credential-admin Worker's commit
  pages,       \* Pages: like worker
  passed,      \* the jobs that succeeded in the run of each commit
  deployRun,   \* the deployment that runs
  rollbackRun, \* the rollback that runs
  released     \* commits for which Release Please ran

deploymentVars == <<d1, worker, admin, pages, passed, deployRun, rollbackRun, released>>

Job == {"validate", "prepare", "schema", "worker", "pages", "verify", "release"}

\* Bug: the Worker is deployed beside the schema, not after it.
BadNeeds == [validate |-> {}, prepare |-> {"validate"}, schema |-> {"prepare"},
             worker |-> {"prepare"}, pages |-> {"prepare", "worker"},
             verify |-> {"prepare", "worker", "pages"}, release |-> {"verify"}]

Needs == [validate |-> {}, prepare |-> {"validate"}, schema |-> {"prepare"},
          worker |-> {"prepare", "schema"}, pages |-> {"prepare", "worker"},
          verify |-> {"prepare", "worker", "pages"}, release |-> {"verify"}]

FirstStep == [validate |-> "validate", prepare |-> "prepare", schema |-> "create",
              worker |-> "preflight", pages |-> "site", verify |-> "verify", release |-> "release"]

Step == {"between", "validate", "prepare", "create", "alter", "check", "preflight", "secrets",
         "admin", "main", "record", "site", "verify", "release"}

\* "whole": every job of the run ran in this attempt.
DeployRun == [commit : Commits \cup {NoCommit}, step : Step, dry : BOOLEAN, push : BOOLEAN,
              whole : BOOLEAN, todo : SUBSET Columns]

NoRun == [commit |-> NoCommit, step |-> "between", dry |-> FALSE, push |-> FALSE,
          whole |-> FALSE, todo |-> {}]

RollbackRun == [step : {"none", "worker", "pages", "smoke"}, version : Commits \cup {NoCommit},
                deployment : Commits \cup {NoCommit}]

NoRollback == [step |-> "none", version |-> NoCommit, deployment |-> NoCommit]

Deployed == [uploaded : SUBSET Commits, newest : Commits, live : Commits]

---------------------------------------------------------------------------

\* Bug: a rollback has a concurrency group of its own.
BadNobodyRuns == rollbackRun.step = "none"

\* The concurrency group "production-deploy".
NobodyRuns == deployRun.commit = NoCommit /\ rollbackRun.step = "none"

StartRun(c) ==
  /\ NobodyRuns /\ deployRun.commit = NoCommit
  /\ \E keep \in BOOLEAN, dry \in BOOLEAN, push \in BOOLEAN :
       /\ dry => ~push
       /\ passed' = IF keep THEN passed ELSE [passed EXCEPT ![c] = {}]
       /\ deployRun' = [NoRun EXCEPT !.commit = c, !.dry = dry, !.push = push,
                          !.whole = passed'[c] = {}]
  /\ UNCHANGED <<d1, worker, admin, pages, rollbackRun, released>>

RunsJob(j) ==
  /\ j \notin passed[deployRun.commit] /\ Needs[j] \subseteq passed[deployRun.commit]
  /\ deployRun.dry => j \in {"validate", "prepare"}
  /\ j = "release" => deployRun.push

StartJob(j) ==
  /\ deployRun.commit # NoCommit /\ deployRun.step = "between"
  /\ RunsJob(j)
  /\ deployRun' = [deployRun EXCEPT !.step = FirstStep[j]]
  /\ UNCHANGED <<d1, worker, admin, pages, passed, rollbackRun, released>>

\* A job fails, is cancelled or reaches its time limit, or no job is left.
EndRun ==
  /\ deployRun.commit # NoCommit
  /\ deployRun' = NoRun
  /\ UNCHANGED <<d1, worker, admin, pages, passed, rollbackRun, released>>

At(step) == deployRun.commit # NoCommit /\ deployRun.step = step

GoTo(step) == deployRun' = [deployRun EXCEPT !.step = step] /\ UNCHANGED passed

PassJob(j) ==
  /\ passed' = [passed EXCEPT ![deployRun.commit] = @ \cup {j}]
  /\ deployRun' = [deployRun EXCEPT !.step = "between"]

\* Lint and tests.
Validate ==
  /\ At("validate") /\ PassJob("validate")
  /\ UNCHANGED <<d1, worker, admin, pages, rollbackRun, released>>

\* The preflight reports on the schema; it does not judge it.
Prepare ==
  /\ At("prepare") /\ PassJob("prepare")
  /\ UNCHANGED <<d1, worker, admin, pages, rollbackRun, released>>

PreflightSecrets ==
  /\ At("preflight") /\ GoTo("secrets")
  /\ UNCHANGED <<d1, worker, admin, pages, rollbackRun, released>>

RecordVersion ==
  /\ At("record") /\ PassJob("worker")
  /\ UNCHANGED <<d1, worker, admin, pages, rollbackRun, released>>

\* schema.sql: CREATE TABLE IF NOT EXISTS creates a table with all its columns;
\* a file that fails may have created some.
CreateTables ==
  /\ At("create")
  /\ \E made \in SUBSET RequiredTables[deployRun.commit] :
       /\ d1' = [tables |-> d1.tables \cup made,
                 columns |-> d1.columns \cup
                   {col \in RequiredColumns[deployRun.commit] : TableOf[col] \in made \ d1.tables}]
       /\ \/ /\ made = RequiredTables[deployRun.commit]
             /\ deployRun' = [deployRun EXCEPT !.step = "alter", !.todo = Alters[deployRun.commit]]
          \/ deployRun' = NoRun
  /\ UNCHANGED <<worker, admin, pages, passed, rollbackRun, released>>

\* ALTER TABLE ADD COLUMN, where a duplicate column counts as done.
AlterTable(col) ==
  /\ At("alter") /\ col \in deployRun.todo /\ TableOf[col] \in d1.tables
  /\ d1' = [d1 EXCEPT !.columns = @ \cup {col}]
  /\ deployRun' \in {[deployRun EXCEPT !.todo = @ \ {col}], NoRun}
  /\ UNCHANGED <<worker, admin, pages, passed, rollbackRun, released>>

AllAltered ==
  /\ At("alter") /\ deployRun.todo = {}
  /\ GoTo("check")
  /\ UNCHANGED <<d1, worker, admin, pages, rollbackRun, released>>

SchemaVerified(c) == RequiredTables[c] \subseteq d1.tables /\ RequiredColumns[c] \subseteq d1.columns

\* The schema job ends with a check of its own work, that fails closed.
CheckSchema ==
  /\ At("check") /\ SchemaVerified(deployRun.commit)
  /\ PassJob("schema")
  /\ UNCHANGED <<d1, worker, admin, pages, rollbackRun, released>>

\* The upload of secrets makes a version of its own, of the code that is live or
\* of the newest one: that is up to the platform.
UploadSecrets ==
  /\ At("secrets")
  /\ \E base \in {worker.live, worker.newest} :
       /\ worker' = [worker EXCEPT !.newest = base, !.live = base]
       /\ \/ GoTo("admin")
          \/ deployRun' = NoRun /\ UNCHANGED passed
  /\ UNCHANGED <<d1, admin, pages, rollbackRun, released>>

DeployAdmin ==
  /\ At("admin")
  /\ admin' = deployRun.commit
  /\ \/ GoTo("main")
     \/ deployRun' = NoRun /\ UNCHANGED passed
  /\ UNCHANGED <<d1, worker, pages, rollbackRun, released>>

Deploy(service, c) == [uploaded |-> service.uploaded \cup {c}, newest |-> c, live |-> c]

DeployMain ==
  /\ At("main")
  /\ worker' = Deploy(worker, deployRun.commit)
  /\ \/ GoTo("record")
     \/ deployRun' = NoRun /\ UNCHANGED passed
  /\ UNCHANGED <<d1, admin, pages, rollbackRun, released>>

DeployPages ==
  /\ At("site")
  /\ pages' = Deploy(pages, deployRun.commit)
  /\ \/ PassJob("pages")
     \/ deployRun' = NoRun /\ UNCHANGED passed
  /\ UNCHANGED <<d1, worker, admin, rollbackRun, released>>

\* Of the two services the check sees only the newest Pages deployment's commit.
Verify ==
  /\ At("verify") /\ pages.newest = deployRun.commit
  /\ PassJob("verify")
  /\ UNCHANGED <<d1, worker, admin, pages, rollbackRun, released>>

Release ==
  /\ At("release")
  /\ released' = released \cup {deployRun.commit}
  /\ PassJob("release")
  /\ UNCHANGED <<d1, worker, admin, pages, rollbackRun>>

---------------------------------------------------------------------------
(* rollback-production.mjs: both identifiers are looked up before anything changes. *)

StartRollback ==
  /\ NobodyRuns
  /\ \E version \in worker.uploaded \cup {NoCommit}, deployment \in pages.uploaded \cup {NoCommit} :
       /\ {version, deployment} # {NoCommit}
       /\ rollbackRun' = [step |-> IF version = NoCommit THEN "pages" ELSE "worker",
                          version |-> version, deployment |-> deployment]
  /\ UNCHANGED <<d1, worker, admin, pages, passed, deployRun, released>>

\* An old version becomes live again; the newest one is still listed first.
RollbackWorker ==
  /\ rollbackRun.step = "worker"
  /\ worker' = [worker EXCEPT !.live = rollbackRun.version]
  /\ rollbackRun' \in {NoRollback, [rollbackRun EXCEPT !.step =
                         IF rollbackRun.deployment = NoCommit THEN "smoke" ELSE "pages"]}
  /\ UNCHANGED <<d1, admin, pages, passed, deployRun, released>>

RollbackPages ==
  /\ rollbackRun.step = "pages"
  /\ pages' = [pages EXCEPT !.live = rollbackRun.deployment]
  /\ rollbackRun' \in {NoRollback, [rollbackRun EXCEPT !.step = "smoke"]}
  /\ UNCHANGED <<d1, worker, admin, passed, deployRun, released>>

EndRollback ==
  /\ rollbackRun.step # "none"
  /\ rollbackRun' = NoRollback
  /\ UNCHANGED <<d1, worker, admin, pages, passed, deployRun, released>>

---------------------------------------------------------------------------

DeploymentInit ==
  /\ \E c \in Commits :
       /\ d1 = [tables |-> RequiredTables[c], columns |-> RequiredColumns[c]]
       /\ worker = [uploaded |-> {c}, newest |-> c, live |-> c]
       /\ pages = worker /\ admin = c
  /\ passed = [c \in Commits |-> {}]
  /\ deployRun = NoRun /\ rollbackRun = NoRollback
  /\ released = {}

DeploymentNext ==
  \/ \E c \in Commits : StartRun(c)
  \/ \E j \in Job : StartJob(j)
  \/ EndRun \/ Validate \/ Prepare \/ PreflightSecrets \/ RecordVersion
  \/ CreateTables \/ (\E col \in Columns : AlterTable(col)) \/ AllAltered \/ CheckSchema
  \/ UploadSecrets \/ DeployAdmin \/ DeployMain
  \/ DeployPages \/ Verify \/ Release
  \/ StartRollback \/ RollbackWorker \/ RollbackPages \/ EndRollback

DeploymentSpec == DeploymentInit /\ [][DeploymentNext]_deploymentVars

---------------------------------------------------------------------------

DeploymentTypeOK ==
  /\ d1 \in [tables : SUBSET Tables, columns : SUBSET Columns]
  /\ worker \in Deployed /\ pages \in Deployed /\ admin \in Commits
  /\ passed \in [Commits -> SUBSET Job]
  /\ deployRun \in DeployRun /\ rollbackRun \in RollbackRun
  /\ released \subseteq Commits

\* D1 has what the Worker that is live asks of it, whichever step fails, whatever
\* is run again and whatever is rolled back: no Worker is deployed before the
\* check of its own schema, and the schema only grows.
SchemaAhead ==
  /\ RequiredTables[worker.live] \subseteq d1.tables
  /\ RequiredColumns[worker.live] \subseteq d1.columns

\* A run that verified in one attempt leaves Worker and Pages at its commit: no
\* rollback came between, since they share the concurrency group.  (A job that is
\* run again after a later deployment does not promise that.)
VerifiedPairMatches ==
  At("between") /\ deployRun.whole /\ "verify" \in passed[deployRun.commit]
    => worker.live = deployRun.commit /\ pages.live = deployRun.commit
=============================================================================
