---------------------------- MODULE AccessSetup ----------------------------
(***************************************************************************)
(* The Cloudflare Access application that guards the site, and the script  *)
(* that sets it up (scripts/cloudflare-access.mjs): one command at a time, *)
(* each a series of API calls.  A call may be refused, may be applied with *)
(* its answer lost, and the process may die between two of them; a later   *)
(* command starts from whatever is there.  The account is external: it     *)
(* lists what was written before.                                          *)
(*                                                                         *)
(* Of an application we keep those that protect the production host or a   *)
(* wildcard; of a policy what assertPolicyShape looks at.  What a command  *)
(* reads before its first write is read in one step, since nobody else     *)
(* writes.  The permission probe, a request made to be rejected, changes   *)
(* nothing; Pages and Worker facts that the commands only print are left   *)
(* out.                                                                    *)
(***************************************************************************)
EXTENDS Integers, FiniteSets, SequencesExt

CONSTANTS
  AppIds,         \* identifiers of Access applications
  NoApp,          \* no application of that identifier
  NoFile,         \* no snapshot was written
  AccessAccounts, \* accounts that the script may meet first
  IssuedFirst,    \* identifiers of policies given out by then
  MaxPolicies     \* bound: identifiers of policies given out

VARIABLES
  account,     \* the applications, by identifier
  identity,    \* the organization: its identity providers, has it a team domain
  accessFile,  \* .tmp/cloudflare-access/rollback-snapshot.json
  accessRun,   \* the running command and its local variables
  issued       \* identifiers of policies given out

accessVars == <<account, identity, accessFile, accessRun, issued>>

\* A session that parseSessionHours cannot read lasts for ever.
Endless == 1000

Policy == [id : 1..MaxPolicies, ours : BOOLEAN,
           decision : {"allow", "bypass"}, include : SUBSET {"owner", "everyone"}]

Application == [ours : BOOLEAN, hosted : BOOLEAN, hosts : SUBSET {"exact", "wildcard"},
                hours : {12, 24, Endless}, idps : SUBSET {"cloudflare", "onetimepin", "saml"},
                policies : Seq(Policy)]

Accounts == [AppIds -> Application \cup {NoApp}]

\* The API gives each policy an identifier of its own.
OwnIds(policies, given) ==
  /\ \A i \in DOMAIN policies : policies[i].id <= given
  /\ \A i, j \in DOMAIN policies : policies[i].id = policies[j].id => i = j

ASSUME AccessAssumption ==
  /\ IsFiniteSet(AppIds) /\ NoApp \notin AppIds \cup Application
  /\ NoFile \notin Accounts
  /\ MaxPolicies \in Nat /\ IssuedFirst \in 0..MaxPolicies
  /\ AccessAccounts \subseteq Accounts
  /\ \A first \in AccessAccounts, a \in AppIds :
       first[a] # NoApp => OwnIds(first[a].policies, IssuedFirst)

\* The running command, and how far it has come.
AccessRun == [cmd : {"none", "apply", "rollback"},
              pc : {"idle", "application", "policy", "extra", "complete",
                    "next", "delete", "restore"},
              app : AppIds \cup {NoApp}, apps : SUBSET AppIds,
              todo : SUBSET (1..MaxPolicies), ok : BOOLEAN]

\* No command runs.
Idle == [cmd |-> "none", pc |-> "idle", app |-> NoApp, todo |-> {}, apps |-> {}, ok |-> FALSE]

---------------------------------------------------------------------------
(* What is right. *)

MatchesExact(app) == "exact" \in app.hosts
MatchesWildcard(app) == "wildcard" \in app.hosts

Shaped(policy) == policy.decision = "allow" /\ policy.include = {"owner"}

ChosenProvider ==
  CASE "cloudflare" \in identity.providers -> "cloudflare"
    [] "cloudflare" \notin identity.providers /\ "onetimepin" \in identity.providers -> "onetimepin"
    [] OTHER -> "none"

\* Bug: a session is kept however long it is.
BadDesiredSession(hours) == hours

DesiredSession(hours) == IF hours < 24 THEN hours ELSE 24

ExactApps == {a \in AppIds : account[a] # NoApp /\ MatchesExact(account[a])}
WildcardApps == {a \in AppIds : account[a] # NoApp /\ MatchesWildcard(account[a])}

StateVerified(app) ==
  /\ app.hosted /\ MatchesExact(app) /\ ~MatchesWildcard(app)
  /\ app.hours <= 24
  /\ Len(app.policies) = 1 /\ Shaped(app.policies[1])
  /\ ChosenProvider = "none" \/ app.idps = {} \/ ChosenProvider \in app.idps
  /\ identity.team

Verified ==
  /\ WildcardApps = {}
  /\ \E a \in AppIds : ExactApps = {a} /\ StateVerified(account[a])

\* The first policy of our name, or else the first, is to be right and alone.
PlanInSync ==
  /\ WildcardApps = {} /\ ChosenProvider # "none"
  /\ \E a \in AppIds :
       /\ ExactApps = {a}
       /\ account[a].ours /\ account[a].hosted
       /\ account[a].hours = DesiredSession(account[a].hours)
       /\ ChosenProvider \in account[a].idps
       /\ Len(account[a].policies) = 1 /\ Shaped(account[a].policies[1])

---------------------------------------------------------------------------
(* The commands.  A step that makes a call goes on from "next", or ends the *)
(* command: the answer is lost, or the process dies after the call.         *)

Free == accessRun.pc \in {"idle", "complete"}

Continue(next) == accessRun' \in {next, Idle}

TakeSnapshot ==
  /\ Free
  /\ accessFile' = [a \in AppIds |-> IF a \in ExactApps \cup WildcardApps THEN account[a] ELSE NoApp]
  /\ UNCHANGED <<account, identity, accessRun, issued>>

ApplyStarts ==
  /\ Free
  /\ ChosenProvider # "none" /\ WildcardApps = {} /\ Cardinality(ExactApps) <= 1
  /\ accessRun' = [Idle EXCEPT !.cmd = "apply", !.pc = "application",
                     !.app = IF ExactApps = {} THEN NoApp ELSE CHOOSE a \in ExactApps : TRUE]
  /\ UNCHANGED <<account, identity, accessFile, issued>>

UpsertApplication ==
  /\ accessRun.pc = "application"
  /\ \E a \in AppIds :
       /\ IF accessRun.app = NoApp THEN account[a] = NoApp ELSE a = accessRun.app
       /\ account' = [account EXCEPT ![a] =
            [ours |-> TRUE, hosted |-> TRUE, hosts |-> {"exact"}, idps |-> {ChosenProvider},
             hours |-> IF accessRun.app = NoApp THEN 24 ELSE DesiredSession(account[a].hours),
             policies |-> IF accessRun.app = NoApp THEN <<>> ELSE account[a].policies]]
       /\ Continue([accessRun EXCEPT !.pc = "policy", !.app = a])
  /\ UNCHANGED <<identity, accessFile, issued>>

\* Bug: the policy lets in the whole domain of the owner's address.
BadOurPolicy(id) == [id |-> id, ours |-> TRUE, decision |-> "allow", include |-> {"domain"}]

OurPolicy(id) == [id |-> id, ours |-> TRUE, decision |-> "allow", include |-> {"owner"}]

PolicyIds(policies) == {policies[i].id : i \in DOMAIN policies}

\* Bug: the policy that is to stay is not told from the others.
BadExtraPolicies(listed, kept) == PolicyIds(listed)

ExtraPolicies(listed, kept) == PolicyIds(listed) \ {kept}

\* The first policy that is right or has our name is rewritten, or ours is
\* added; the other policies that were listed are to go.
UpsertPolicy ==
  /\ accessRun.pc = "policy"
  /\ LET a == accessRun.app
         listed == account[a].policies
         matching == {i \in DOMAIN listed : Shaped(listed[i]) \/ listed[i].ours}
         extra(id) == [accessRun EXCEPT !.pc = "extra", !.todo = ExtraPolicies(listed, id)]
     IN \/ \E i \in matching :
             /\ \A j \in matching : i <= j
             /\ account' = [account EXCEPT ![a].policies[i] = OurPolicy(listed[i].id)]
             /\ Continue(extra(listed[i].id))
             /\ UNCHANGED issued
        \/ /\ matching = {} /\ issued < MaxPolicies
           /\ issued' = issued + 1
           /\ account' = [account EXCEPT ![a].policies = Append(@, OurPolicy(issued + 1))]
           /\ Continue(extra(issued + 1))
  /\ UNCHANGED <<identity, accessFile>>

RemoveExtraPolicy ==
  /\ accessRun.pc = "extra"
  /\ LET listed == account[accessRun.app].policies IN
     \E i \in DOMAIN listed :
       /\ listed[i].id \in accessRun.todo
       /\ account' = [account EXCEPT ![accessRun.app].policies = RemoveAt(listed, i)]
       /\ Continue([accessRun EXCEPT !.todo = @ \ {listed[i].id}])
  /\ UNCHANGED <<identity, accessFile, issued>>

ApplyEnds ==
  /\ accessRun.pc = "extra" /\ accessRun.todo = {}
  /\ accessRun' = [accessRun EXCEPT !.pc = "complete",
                     !.ok = StateVerified(account[accessRun.app])]
  /\ UNCHANGED <<account, identity, accessFile, issued>>

\* With no application in the snapshot there is nothing to do: the new one stays.
RollbackStarts ==
  /\ Free /\ accessFile # NoFile
  /\ accessRun' = [Idle EXCEPT !.cmd = "rollback", !.pc = "next",
                     !.apps = {a \in AppIds : accessFile[a] # NoApp}]
  /\ UNCHANGED <<account, identity, accessFile, issued>>

\* An application that cannot be read is passed over.
RestoreApplication ==
  /\ accessRun.pc = "next"
  /\ \E a \in accessRun.apps :
       \/ /\ account[a] # NoApp
          /\ account' = [account EXCEPT ![a] =
               [accessFile[a] EXCEPT !.policies = account[a].policies]]
          /\ Continue([accessRun EXCEPT !.pc = "delete", !.app = a, !.apps = @ \ {a},
               !.todo = PolicyIds(account[a].policies) \ PolicyIds(accessFile[a].policies)])
       \/ /\ accessRun' = [accessRun EXCEPT !.apps = @ \ {a}]
          /\ UNCHANGED account
  /\ UNCHANGED <<identity, accessFile, issued>>

\* Later policies go first, then the earlier ones come back; nobody looks at
\* what these calls answer.
DropLaterPolicy ==
  /\ accessRun.pc = "delete"
  /\ LET listed == account[accessRun.app].policies IN
     \E i \in DOMAIN listed :
       /\ listed[i].id \in accessRun.todo
       /\ \/ account' = [account EXCEPT ![accessRun.app].policies = RemoveAt(listed, i)]
          \/ UNCHANGED account
       /\ accessRun' = [accessRun EXCEPT !.todo = @ \ {listed[i].id}]
  /\ UNCHANGED <<identity, accessFile, issued>>

AllDropped ==
  /\ accessRun.pc = "delete" /\ accessRun.todo = {}
  /\ accessRun' = [accessRun EXCEPT !.pc = "restore",
                     !.todo = PolicyIds(accessFile[accessRun.app].policies)]
  /\ UNCHANGED <<account, identity, accessFile, issued>>

RestorePolicy ==
  /\ accessRun.pc = "restore"
  /\ LET a == accessRun.app  now == account[a].policies IN
     \E prior \in ToSet(accessFile[a].policies) :
       /\ prior.id \in accessRun.todo
       /\ accessRun' = [accessRun EXCEPT !.todo = @ \ {prior.id}]
       /\ \/ UNCHANGED <<account, issued>>
          \/ \E i \in DOMAIN now :
               /\ now[i].id = prior.id
               /\ account' = [account EXCEPT ![a].policies[i] = prior]
               /\ UNCHANGED issued
          \/ /\ prior.id \notin PolicyIds(now) /\ issued < MaxPolicies
             /\ issued' = issued + 1
             /\ account' = [account EXCEPT ![a].policies =
                  Append(@, [prior EXCEPT !.id = issued + 1])]
  /\ UNCHANGED <<identity, accessFile>>

AllRestored ==
  /\ accessRun.pc = "restore" /\ accessRun.todo = {}
  /\ accessRun' = [accessRun EXCEPT !.pc = "next", !.app = NoApp]
  /\ UNCHANGED <<account, identity, accessFile, issued>>

RollbackEnds ==
  /\ accessRun.pc = "next" /\ accessRun.apps = {}
  /\ accessRun' = Idle
  /\ UNCHANGED <<account, identity, accessFile, issued>>

\* A call refused, an answer that says no, or the end of the process.
CommandDies ==
  /\ ~Free
  /\ accessRun' = Idle
  /\ UNCHANGED <<account, identity, accessFile, issued>>

---------------------------------------------------------------------------

AccessInit ==
  /\ account \in AccessAccounts
  /\ identity \in [providers : SUBSET {"cloudflare", "onetimepin", "saml"}, team : BOOLEAN]
  /\ accessFile = NoFile
  /\ accessRun = Idle
  /\ issued = IssuedFirst

AccessNext ==
  \/ TakeSnapshot
  \/ ApplyStarts \/ UpsertApplication \/ UpsertPolicy \/ RemoveExtraPolicy \/ ApplyEnds
  \/ RollbackStarts \/ RestoreApplication \/ DropLaterPolicy \/ AllDropped
  \/ RestorePolicy \/ AllRestored \/ RollbackEnds
  \/ CommandDies

AccessSpec == AccessInit /\ [][AccessNext]_accessVars

---------------------------------------------------------------------------

AccessTypeOK ==
  /\ account \in Accounts
  /\ identity \in [providers : SUBSET {"cloudflare", "onetimepin", "saml"}, team : BOOLEAN]
  /\ accessFile \in Accounts \cup {NoFile}
  /\ accessRun \in AccessRun
  /\ issued \in 0..MaxPolicies

\* Once a policy lets the owner in, and nobody else, no apply takes the last
\* such policy away, whichever of its calls fails: it writes the one it keeps
\* before it deletes the others.
OwnerAdmitted ==
  \E a \in ExactApps : \E i \in DOMAIN account[a].policies : Shaped(account[a].policies[i])

ApplyKeepsOwner ==
  [][accessRun.cmd = "apply" /\ OwnerAdmitted => OwnerAdmitted']_accessVars

\* An apply that gets to its end leaves what verify asks for, whatever state
\* earlier commands left behind when they died, or were rolled back; and a plan
\* that finds nothing to change describes an account that verify accepts.
ApplyLeadsToVerified ==
  /\ accessRun.pc = "complete" /\ accessRun.ok => Verified
  /\ accessRun.pc = "complete" /\ identity.team => accessRun.ok
  /\ PlanInSync /\ identity.team => Verified
=============================================================================
