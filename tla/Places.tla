------------------------------ MODULE Places ------------------------------
(***************************************************************************)
(* The locations and their notification rules: the owner's requests        *)
(* (worker/api.js, worker/routes/notification-rules.js), most of them a    *)
(* series of D1 statements that no transaction covers, next to a report    *)
(* (worker/services/report.js) that reads the locations, waits for their   *)
(* forecasts, writes these back and only then reads the rules by which it  *)
(* decides what to send (module Alerts).  There is one report at a time,   *)
(* by the lock of module Reports; that the scheduler may have read the     *)
(* locations before an earlier report was over is left out.                *)
(*                                                                         *)
(* Names, schedules and times are left out, as are what triggers a report  *)
(* and the channels it finds enabled: its plans are looked at for every    *)
(* trigger and channel.  A statement that throws after it was applied is   *)
(* one followed by the end of its request.                                 *)
(***************************************************************************)
EXTENDS Alerts, FiniteSets

CONSTANTS
  Ids,        \* identifiers of locations, each drawn once
  NoId,       \* no location
  Channels,   \* notification channels
  NoSwitch,   \* those that have no master switch: "webpush"
  Cap,        \* the most locations there may be
  OwnRules,   \* rules that the owner may ask for
  Forecasts,  \* results of a fetch
  Requests,   \* HTTP requests of more than one statement
  MaxInFlight \* bound: these and reports under way at a time

ASSUME PlacesAssumption ==
  /\ NoSwitch \subseteq Channels
  /\ Cap \in Nat /\ IsFiniteSet(Ids)
  /\ OwnRules \subseteq Rule
  /\ Forecasts \subseteq Result
  /\ NoId \notin Ids

VARIABLES
  place,    \* the table locations
  rules,    \* the table location_notification_rules
  req,      \* the local state of each request
  rep       \* the local state of the report

vars == <<place, rules, req, rep>>

\* Of a stored forecast it matters whether it is for the coordinates that the
\* location has now, or for some it had.
Place == [status : {"unused", "live", "gone"}, forecast : {"none", "current", "old"}]

Kind == {"add", "copy", "reset"}
Write == [loc : Ids, channel : Channels, rule : Rule]

\* A request of more than one statement.  "todo" are the upserts still to make;
\* "clean" is history: no other request was in flight with this one.
Request == [pc : {"idle", "list", "settings", "rules", "done"}, kind : Kind,
            loc : Ids \cup {NoId}, source : [Channels -> Rule \cup {NoRule}],
            listed : SUBSET Ids, on : SUBSET Channels, todo : SUBSET Write,
            clean : BOOLEAN]

Rules == [Ids -> [Channels -> Rule \cup {NoRule}]]

\* "results" are those of the locations that are due; "unmoved" are those that
\* still have the coordinates that the report read.
Report == [pc : {"idle", "fetch", "write", "rules"}, due : SUBSET Ids,
           results : [Ids -> Result], unmoved : SUBSET Ids, todo : SUBSET Ids]

TypeOK == /\ place \in [Ids -> Place]
          /\ rules \in Rules
          /\ req \in [Requests -> Request]
          /\ rep \in Report

NoRules == [c \in Channels |-> NoRule]
NoResult == [error |-> TRUE, sunrise |-> NoEvent, sunset |-> NoEvent]

Idle == [pc |-> "idle", kind |-> "add", loc |-> NoId, source |-> NoRules,
         listed |-> {}, on |-> {}, todo |-> {}, clean |-> FALSE]

NoReport == [pc |-> "idle", due |-> {}, results |-> [l \in Ids |-> NoResult],
             unmoved |-> {}, todo |-> {}]

Init == /\ place = [l \in Ids |-> [status |-> "unused", forecast |-> "none"]]
        /\ rules = [l \in Ids |-> NoRules]
        /\ req = [r \in Requests |-> Idle]
        /\ rep = NoReport

Live == {l \in Ids : place[l].status = "live"}

At(r, pc) == req[r].pc = pc
Is(r, kind) == req[r].kind = kind

RepAt(pc) == rep.pc = pc

Busy == {r \in Requests : ~At(r, "idle")}
Spare == Cardinality(Busy) + (IF RepAt("idle") THEN 0 ELSE 1) < MaxInFlight

Goto(r, pc) == req' = [req EXCEPT ![r].pc = pc]

---------------------------------------------------------------------------
(* Requests of one statement.  Whoever is in flight is no longer clean.    *)

Disturb == req' = [r \in Requests |-> [req[r] EXCEPT !.clean = FALSE]]

\* New coordinates; updateLocation leaves the stored forecast alone.
UpdateLocation == \E l \in Live :
  /\ place' = [place EXCEPT ![l].forecast = IF @ = "none" THEN "none" ELSE "old"]
  /\ rep' = [rep EXCEPT !.unmoved = @ \ {l}]
  /\ Disturb
  /\ UNCHANGED rules

\* deleteLocation; the foreign key deletes its rules.
DeleteLocation == \E l \in Live :
  /\ place' = [place EXCEPT ![l] = [status |-> "gone", forecast |-> "none"]]
  /\ rules' = [rules EXCEPT ![l] = NoRules]
  /\ Disturb
  /\ UNCHANGED rep

SaveRule == \E l \in Live, c \in Channels, rule \in OwnRules :
  /\ rules' = [rules EXCEPT ![l][c] = Validated(rule)]
  /\ Disturb
  /\ UNCHANGED <<place, rep>>

\* setChannelEnabledForAllLocations: the rows there are.
SwitchChannel == \E c \in Channels, enabled \in BOOLEAN :
  /\ rules' = [l \in Ids |-> IF rules[l][c] = NoRule THEN rules[l]
                             ELSE [rules[l] EXCEPT ![c].enabled = enabled]]
  /\ Disturb
  /\ UNCHANGED <<place, rep>>

---------------------------------------------------------------------------
(* Requests of several statements.                                         *)

\* Request r makes its first statement and goes on as q.
Begin(r, q) ==
  /\ At(r, "idle") /\ Spare
  /\ req' = [s \in Requests |-> IF s = r THEN [q EXCEPT !.clean = Busy = {}]
                                ELSE [req[s] EXCEPT !.clean = FALSE]]

\* Broken: the count may pass the cap by one.
BadRoom == Cardinality(Live) <= Cap

\* The condition in addLocation's INSERT ... SELECT.
Room == Cardinality(Live) < Cap

\* POST /api/locations draws a new identifier.
InsertLocation(r) == \E l \in Ids :
  /\ place[l].status = "unused"
  /\ Room
  /\ Begin(r, [Idle EXCEPT !.kind = "add", !.pc = "settings", !.loc = l, !.listed = {l}])
  /\ place' = [place EXCEPT ![l] = [status |-> "live", forecast |-> "none"]]
  /\ UNCHANGED <<rules, rep>>

\* copyLocationRulesToAll reads the rules of its source, which may have none, or
\* may be gone.
ReadSource(r) == \E l \in Ids :
  /\ Begin(r, [Idle EXCEPT !.kind = "copy", !.pc = "list", !.loc = l,
                           !.source = rules[l]])
  /\ UNCHANGED <<place, rules, rep>>

ListForReset(r) ==
  /\ Begin(r, [Idle EXCEPT !.kind = "reset", !.pc = "settings", !.listed = Live])
  /\ UNCHANGED <<place, rules, rep>>

\* Broken: a channel without a rule is copied too.
BadCopies(q) ==
  {[loc |-> l, channel |-> c, rule |-> q.source[c]] :
     l \in Live \ {q.loc}, c \in Channels}

Copies(q) ==
  {[loc |-> l, channel |-> c, rule |-> q.source[c]] :
     l \in Live \ {q.loc}, c \in {d \in Channels : q.source[d] # NoRule}}

ListForCopy(r) ==
  /\ At(r, "list")
  /\ req' = [req EXCEPT ![r].pc = "rules", ![r].source = NoRules,
                        ![r].todo = Copies(req[r])]
  /\ UNCHANGED <<place, rules, rep>>

\* Broken: the rules of reset-defaults leave out the channels that are off.
BadDefaults(S, on) ==
  {[loc |-> l, channel |-> c, rule |-> Default(TRUE)] : l \in S, c \in on}

Defaults(S, on) ==
  {[loc |-> l, channel |-> c, rule |-> Default(c \in on)] : l \in S, c \in Channels}

\* The master switches, which the owner may set at any time (module Channels).
\* Before their first save addLocation finds them on and reset-defaults off.
ReadMasters(r) == \E switches \in SUBSET Channels :
  LET on == switches \cup NoSwitch IN
  /\ At(r, "settings")
  /\ req' = [req EXCEPT ![r].pc = "rules", ![r].on = on, ![r].listed = {},
                        ![r].todo = Defaults(req[r].listed, on)]
  /\ UNCHANGED <<place, rules, rep>>

\* Broken: the default rules of a new location replace what is there.
BadUpserted(r, w) == w.rule

\* addLocation inserts OR IGNORE, the others update on conflict.
Upserted(r, w) ==
  IF Is(r, "add") /\ rules[w.loc][w.channel] # NoRule THEN rules[w.loc][w.channel]
  ELSE w.rule

\* One of a request's upserts.  The code makes them in the order of locations
\* and channels.  One for a location that is gone fails on its foreign key.
WriteRule(r) == \E w \in req[r].todo :
  /\ At(r, "rules")
  /\ w.loc \in Live
  /\ rules' = [rules EXCEPT ![w.loc][w.channel] = Upserted(r, w)]
  /\ req' = [req EXCEPT ![r].todo = @ \ {w}]
  /\ UNCHANGED <<place, rep>>

AllWritten(r) == /\ At(r, "rules")
                 /\ req[r].todo = {}
                 /\ Goto(r, "done")
                 /\ UNCHANGED <<place, rules, rep>>

\* The answer reaches the owner, or the request fails at any await; what it has
\* written stays written.
End(r) == /\ ~At(r, "idle")
          /\ req' = [req EXCEPT ![r] = Idle]
          /\ UNCHANGED <<place, rules, rep>>

---------------------------------------------------------------------------
(* The report.                                                             *)

\* The scheduler or generateReport reads the locations; some of them are due.
BeginReport == \E due \in SUBSET Live :
  /\ RepAt("idle") /\ Spare
  /\ rep' = [NoReport EXCEPT !.pc = "fetch", !.due = due, !.unmoved = due]
  /\ UNCHANGED <<place, rules, req>>

\* Every location's forecast is there, or is an error.
Fetch == \E f \in [rep.due -> Forecasts] :
  /\ RepAt("fetch")
  /\ rep' = [rep EXCEPT !.pc = "write", !.todo = rep.due,
               !.results = [l \in Ids |-> IF l \in rep.due THEN f[l] ELSE NoResult]]
  /\ UNCHANGED <<place, rules, req>>

\* Broken: an error leaves the last forecast where it is.
BadStored(l) == IF rep.results[l].error THEN place[l].forecast
                ELSE IF l \in rep.unmoved THEN "current" ELSE "old"

\* What updateLocationForecast stores; an error clears the forecast.
Stored(l) == IF rep.results[l].error THEN "none"
             ELSE IF l \in rep.unmoved THEN "current" ELSE "old"

\* An UPDATE that finds no row is no error.
WriteForecast == \E l \in rep.todo :
  /\ RepAt("write")
  /\ place' = IF l \in Live THEN [place EXCEPT ![l].forecast = Stored(l)] ELSE place
  /\ rep' = [rep EXCEPT !.todo = @ \ {l}]
  /\ UNCHANGED <<rules, req>>

AllStored == /\ RepAt("write")
             /\ rep.todo = {}
             /\ rep' = [rep EXCEPT !.pc = "rules"]
             /\ UNCHANGED <<place, rules, req>>

\* It reads the rules and enqueues what it plans, or fails at any await.
EndReport == /\ ~RepAt("idle")
             /\ rep' = NoReport
             /\ UNCHANGED <<place, rules, req>>

Step(r) == \/ InsertLocation(r) \/ ReadSource(r) \/ ListForReset(r)
           \/ ListForCopy(r) \/ ReadMasters(r) \/ WriteRule(r) \/ AllWritten(r) \/ End(r)

Next == \/ UpdateLocation \/ DeleteLocation \/ SaveRule \/ SwitchChannel
        \/ \E r \in Requests : Step(r)
        \/ BeginReport \/ Fetch \/ WriteForecast \/ AllStored \/ EndReport

Spec == Init /\ [][Next]_vars

---------------------------------------------------------------------------
(* Properties.                                                             *)

\* However many tabs add at once, no eleventh location (db.js, addLocation).
AtMostCap == Cardinality(Live) <= Cap

\* Between the two statements of addLocation the owner sees the location and
\* may set its rules: the defaults that come late never replace them.
DefaultsNeverOverwrite ==
  [][\A r \in Requests : At(r, "rules") /\ Is(r, "add") /\ req'[r].todo # req[r].todo =>
       \A l \in Ids, c \in Channels :
         rules[l][c] # NoRule => rules'[l][c] = rules[l][c]]_vars

Succeeded(r, kind) == At(r, "done") /\ Is(r, kind) /\ req[r].clean

\* A bulk change that answers success, no other request having been in flight
\* with it, reached every location and channel, whatever rules earlier failures
\* left behind: a location added has a rule for each channel, by its master
\* switch; a copy leaves all with the source's rules; a reset, all with the
\* defaults.
BulkChangesReachAll ==
  \A r \in Requests :
    LET q == req[r] IN
    /\ Succeeded(r, "add") => \A c \in Channels : rules[q.loc][c] = Default(c \in q.on)
    /\ Succeeded(r, "copy") =>
         \A l \in Live, c \in Channels :
           rules[q.loc][c] # NoRule => rules[l][c] = rules[q.loc][c]
    /\ Succeeded(r, "reset") =>
         \A l \in Live, c \in Channels : rules[l][c] = Default(c \in q.on)

\* Each location that was due and is still there has the forecast that the
\* report fetched for it, or none after an error; and it passes for current only
\* if the owner did not move the location while the report ran.
ForecastsFit ==
  RepAt("rules") =>
    \A l \in rep.due \cap Live :
      place[l].forecast = IF rep.results[l].error THEN "none"
                          ELSE IF l \in rep.unmoved THEN "current" ELSE "old"

\* What a report that now reads the rules sends on channel c.
Plan(trigger, reported, c) ==
  Planned(trigger, reported, [l \in rep.due |-> rep.results[l]],
          [l \in Ids |-> rules[l][c]])

\* A location is in the alert on a channel exactly when its rule lets it qualify.
\* One without a rule, because adding it failed halfway or because it was deleted
\* while the report ran, is in it only if the channel has no rule at all.
AlertsFollowRules ==
  RepAt("rules") => \A c \in Channels, trigger \in Trigger \ ThresholdBypass :
    LET about == Plan(trigger, FALSE, c).about IN
    \A l \in rep.due :
      IF rules[l][c] # NoRule
      THEN l \in about <=> Qualifies(rep.results[l], rules[l][c])
      ELSE l \in about => \A m \in Ids : rules[m][c] = NoRule
=============================================================================
