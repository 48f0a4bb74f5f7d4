------------------------------ MODULE MCParts ------------------------------
(***************************************************************************)
(* Eight parts that share no state in the code, or only state that each    *)
(* module already lets others change, checked in one run: a behaviour      *)
(* picks its part, which runs while the others rest in one initial state.  *)
(***************************************************************************)
EXTENDS AccessSetup, Deployment, Devices, Retention, Limiters, SelfTest, Settings, Console

VARIABLE scene

partsVars == <<scene, accessVars, deploymentVars, devicesVars, retentionVars, limiterVars,
               selfTestVars, settingsVars, consoleVars>>

Scene == {"access", "deployment", "devices", "retention", "limiters", "selftest",
          "settings", "console"}

---------------------------------------------------------------------------

\* An account with no application on the host, with one of unknown origin, or
\* with two; the first may have any of four lists of policies.
MCPolicy(id, ours, include) == [id |-> id, ours |-> ours, decision |-> "allow", include |-> include]

MCLists == {<<>>, <<MCPolicy(1, FALSE, {"owner"})>>,
            <<MCPolicy(1, TRUE, {"everyone"}), MCPolicy(2, FALSE, {"owner"})>>,
            <<MCPolicy(1, FALSE, {"everyone"}), MCPolicy(2, FALSE, {"owner", "everyone"})>>}

MCApp(hosts, hours, policies) ==
  [ours |-> FALSE, hosted |-> TRUE, hosts |-> hosts, hours |-> hours, idps |-> {}, policies |-> policies]

MCNoApps == [a \in AppIds |-> NoApp]

MCAccounts ==
  {MCNoApps}
    \cup {[MCNoApps EXCEPT !["a1"] = MCApp({"exact"}, hours, policies)] :
            hours \in {12, Endless}, policies \in MCLists}
    \cup {[a \in AppIds |-> MCApp(IF a = "a1" THEN {"exact"} ELSE hosts, 12, <<>>)] :
            hosts \in {{"exact"}, {"wildcard"}}}

\* The second commit adds a table and a column to each table.
MCTableOf == [y |-> "t", z |-> "u"]
MCRequiredTables == [c \in {1, 2} |-> IF c = 1 THEN {"t"} ELSE {"t", "u"}]
MCRequiredColumns == [c \in {1, 2} |-> IF c = 1 THEN {} ELSE {"y", "z"}]

\* Two pages of one browser.
MCBrowserOf == [t \in Tabs |-> "b1"]

\* Two deliveries of one run.
MCRunOf == [d \in Deliveries |-> "r1"]

\* Two tests of different channels, which share a slot, and a suggestion.
MCLimiterOf == [r \in Requests |-> IF r = "suggest" THEN "autocomplete" ELSE "test"]
MCChannelOf == [r \in Requests |-> IF r = "push" THEN "webpush" ELSE "email"]
MCInterval == [l \in Limiter |-> 2]

\* A Sunday on which clocks go back: the hour 1 comes twice.
MCDateAt == [z \in TimeZones |-> [i \in 0..LastTick |-> "sunday"]]
MCHourAt == [z \in TimeZones |-> [i \in 0..LastTick |-> IF i = 2 THEN 2 ELSE 1]]
MCWeekdayOf == [d \in {"sunday"} |-> 0]

\* The button that chooses both hours.
MCPresets == {{6, 12}}

---------------------------------------------------------------------------

PartsInit ==
  /\ scene \in Scene
  /\ AccessInit
  /\ scene # "access" => account = MCNoApps /\ identity = [providers |-> {}, team |-> FALSE]
  /\ DeploymentInit
  /\ scene # "deployment" => admin = 1
  /\ DevicesInit /\ RetentionInit /\ LimitersInit
  /\ SelfTestInit
  /\ scene # "selftest" => setup = [enabled |-> FALSE, active |-> FALSE, hour |-> 1, zone |-> "home", weekday |-> 0]
  /\ SettingsInit /\ ConsoleInit

AccessScene ==
  /\ scene = "access" /\ AccessNext
  /\ UNCHANGED <<scene, deploymentVars, devicesVars, retentionVars, limiterVars, selfTestVars,
                 settingsVars, consoleVars>>

DeploymentScene ==
  /\ scene = "deployment" /\ DeploymentNext
  /\ UNCHANGED <<scene, accessVars, devicesVars, retentionVars, limiterVars, selfTestVars,
                 settingsVars, consoleVars>>

DevicesScene ==
  /\ scene = "devices" /\ DevicesNext
  /\ UNCHANGED <<scene, accessVars, deploymentVars, retentionVars, limiterVars, selfTestVars,
                 settingsVars, consoleVars>>

RetentionScene ==
  /\ scene = "retention" /\ RetentionNext
  /\ UNCHANGED <<scene, accessVars, deploymentVars, devicesVars, limiterVars, selfTestVars,
                 settingsVars, consoleVars>>

LimitersScene ==
  /\ scene = "limiters" /\ LimitersNext
  /\ UNCHANGED <<scene, accessVars, deploymentVars, devicesVars, retentionVars, selfTestVars,
                 settingsVars, consoleVars>>

SelfTestScene ==
  /\ scene = "selftest" /\ SelfTestNext
  /\ UNCHANGED <<scene, accessVars, deploymentVars, devicesVars, retentionVars, limiterVars,
                 settingsVars, consoleVars>>

SettingsScene ==
  /\ scene = "settings" /\ SettingsNext
  /\ UNCHANGED <<scene, accessVars, deploymentVars, devicesVars, retentionVars, limiterVars,
                 selfTestVars, consoleVars>>

ConsoleScene ==
  /\ scene = "console" /\ ConsoleNext
  /\ UNCHANGED <<scene, accessVars, deploymentVars, devicesVars, retentionVars, limiterVars,
                 selfTestVars, settingsVars>>

PartsNext ==
  \/ AccessScene \/ DeploymentScene \/ DevicesScene \/ RetentionScene
  \/ LimitersScene \/ SelfTestScene \/ SettingsScene \/ ConsoleScene

PartsSpec == PartsInit /\ [][PartsNext]_partsVars

---------------------------------------------------------------------------

\* The variables of the part that runs keep their types.
PartsTypeOK ==
  CASE scene = "access" -> AccessTypeOK
    [] scene = "deployment" -> DeploymentTypeOK
    [] scene = "devices" -> DevicesTypeOK
    [] scene = "retention" -> RetentionTypeOK
    [] scene = "limiters" -> LimitersTypeOK
    [] scene = "selftest" -> SelfTestTypeOK
    [] scene = "settings" -> SettingsTypeOK
    [] scene = "console" -> ConsoleTypeOK
=============================================================================
