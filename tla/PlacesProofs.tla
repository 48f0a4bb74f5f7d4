--------------------------- MODULE PlacesProofs ---------------------------
(* Theorems about Places and the alert policy, for any locations, channels, *)
(* rules, forecasts and requests, and any cap.                              *)
EXTENDS Places, FiniteSetTheorems, TLAPS

USE AlertsAssumption, PlacesAssumption

---------------------------------------------------------------------------
(* The alert policy.                                                       *)

\* A stricter threshold never adds a location to an alert.
THEOREM StricterSendsLess ==
  ASSUME NEW result \in Result, NEW rule \in Rule,
         NEW strict \in 0..100, rule.threshold = Always \/ rule.threshold <= strict,
         Qualifies(result, [rule EXCEPT !.threshold = strict])
  PROVE  Qualifies(result, rule)
<1> DEFINE stricter == [rule EXCEPT !.threshold = strict]
<1>1. stricter.enabled = rule.enabled /\ stricter.scope = rule.scope
      /\ stricter.threshold = strict
  BY DEF Rule
<1>2. ASSUME NEW q \in Quality, Meets(q, strict) PROVE Meets(q, rule.threshold)
  BY <1>2 DEF Meets, Quality, Rule
<1>3. \A e \in SunEvent : result[e] \in Quality
  BY DEF SunEvent, Result
<1> HIDE DEF stricter
<1>4. QED BY <1>1, <1>2, <1>3 DEF Qualifies, Triggered, stricter

LEMMA PlannedAbout ==
  ASSUME NEW trigger \in Trigger \ ThresholdBypass, NEW results, NEW table
  PROVE  Planned(trigger, FALSE, results, table).about = Filtered(results, table)
BY DEF Planned

\* Whatever reaches the owner as an alert is in the scheduled report, if that is
\* due in its place.
THEOREM ReportCoversAlert ==
  ASSUME NEW results, NEW table, NEW trigger \in Trigger \ ThresholdBypass
  PROVE  Planned(trigger, FALSE, results, table).about
           \subseteq Planned("scheduled", TRUE, results, table).about
BY PlannedAbout DEF Planned, Filtered, ThresholdBypass

---------------------------------------------------------------------------
(* Types.                                                                  *)

LEMMA Constants ==
  /\ NoRules \in [Channels -> Rule \cup {NoRule}]
  /\ NoResult \in Result
  /\ Idle \in Request /\ Idle.pc = "idle" /\ Idle.clean = FALSE
  /\ NoReport \in Report
  /\ \A b \in BOOLEAN : Default(b) \in Rule
  /\ NoRule \notin Rule
<1>1. NoRules \in [Channels -> Rule \cup {NoRule}]
  BY DEF NoRules
<1>2. NoResult \in Result
  BY DEF NoResult, Result, Quality
<1>3. Idle \in Request /\ Idle.pc = "idle" /\ Idle.clean = FALSE
  BY <1>1 DEF Idle, Request, Kind
<1>4. NoReport \in Report
  BY <1>2 DEF NoReport, Report
<1>5. \A b \in BOOLEAN : Default(b) \in Rule
  BY DEF Default, Rule
<1>6. NoRule \notin Rule
  BY DEF Rule, SunEvent
<1>7. QED BY <1>1, <1>2, <1>3, <1>4, <1>5, <1>6

LEMMA DisturbTypes ==
  ASSUME TypeOK, Disturb
  PROVE  /\ req' \in [Requests -> Request]
         /\ \A r \in Requests : /\ req'[r].clean = FALSE /\ req'[r].pc = req[r].pc
                                /\ req'[r].todo = req[r].todo
<1>1. ASSUME NEW r \in Requests
      PROVE  /\ [req[r] EXCEPT !.clean = FALSE] \in Request
             /\ [req[r] EXCEPT !.clean = FALSE].clean = FALSE
             /\ [req[r] EXCEPT !.clean = FALSE].pc = req[r].pc
             /\ [req[r] EXCEPT !.clean = FALSE].todo = req[r].todo
  <2>1. req[r] \in Request
    BY DEF TypeOK
  <2>2. QED BY <2>1 DEF Request
<1>2. QED BY <1>1 DEF Disturb

LEMMA BeginTypes ==
  ASSUME TypeOK, NEW r \in Requests, NEW q \in Request, Begin(r, q)
  PROVE  /\ req' \in [Requests -> Request]
         /\ req'[r] = [q EXCEPT !.clean = Busy = {}]
         /\ req'[r].clean = (Busy = {})
         /\ \A s \in Requests \ {r} : /\ req'[s] = [req[s] EXCEPT !.clean = FALSE]
                                      /\ req'[s].clean = FALSE
<1>1. /\ [q EXCEPT !.clean = Busy = {}] \in Request
      /\ [q EXCEPT !.clean = Busy = {}].clean = (Busy = {})
  BY DEF Request
<1>2. \A s \in Requests : /\ [req[s] EXCEPT !.clean = FALSE] \in Request
                          /\ [req[s] EXCEPT !.clean = FALSE].clean = FALSE
  <2>1. \A s \in Requests : req[s] \in Request
    BY DEF TypeOK
  <2>2. QED BY <2>1 DEF Request
<1>3. QED BY <1>1, <1>2 DEF Begin

LEMMA WriteSets ==
  /\ \A q \in Request : Copies(q) \subseteq Write
  /\ \A S \in SUBSET Ids, on \in SUBSET Channels : Defaults(S, on) \subseteq Write
<1>1. ASSUME NEW q \in Request PROVE Copies(q) \subseteq Write
  <2>1. \A d \in Channels : q.source[d] \in Rule \cup {NoRule}
    BY DEF Request
  <2>2. QED BY <2>1 DEF Copies, Write, Live
<1>2. ASSUME NEW S \in SUBSET Ids, NEW on \in SUBSET Channels
      PROVE  Defaults(S, on) \subseteq Write
  <2>1. \A c \in Channels : Default(c \in on) \in Rule
    BY SMT DEF Default, Rule
  <2>2. QED BY <2>1 DEF Defaults, Write
<1>3. QED BY <1>1, <1>2

\* The four places where only r's own state is rewritten.
LEMMA OwnTypes ==
  ASSUME TypeOK, NEW r \in Requests, NEW q \in Request, req' = [req EXCEPT ![r] = q]
  PROVE  /\ req' \in [Requests -> Request]
         /\ req'[r] = q
         /\ \A s \in Requests \ {r} : req'[s] = req[s]
BY DEF TypeOK

LEMMA TypeStep ==
  ASSUME TypeOK, NEW r \in Requests, Step(r)
  PROVE  TypeOK'
<1> USE Constants
<1>0. req[r] \in Request /\ place \in [Ids -> Place] /\ rules \in Rules /\ rep \in Report
  BY DEF TypeOK
<1>1. CASE InsertLocation(r)
  <2>1. PICK l \in Ids :
          /\ Begin(r, [Idle EXCEPT !.kind = "add", !.pc = "settings", !.loc = l, !.listed = {l}])
          /\ place' = [place EXCEPT ![l] = [status |-> "live", forecast |-> "none"]]
          /\ rules' = rules /\ rep' = rep
    BY <1>1 DEF InsertLocation
  <2>2. [Idle EXCEPT !.kind = "add", !.pc = "settings", !.loc = l, !.listed = {l}] \in Request
    BY DEF Request, Kind
  <2>3. place' \in [Ids -> Place]
    BY <1>0, <2>1 DEF Place
  <2>4. QED BY <1>0, <2>1, <2>2, <2>3, BeginTypes DEF TypeOK
<1>2. CASE ReadSource(r)
  <2>1. PICK l \in Ids :
          Begin(r, [Idle EXCEPT !.kind = "copy", !.pc = "list", !.loc = l,
                                !.source = rules[l]])
    BY <1>2 DEF ReadSource
  <2>2. [Idle EXCEPT !.kind = "copy", !.pc = "list", !.loc = l, !.source = rules[l]]
          \in Request
    BY <1>0 DEF Request, Kind, Rules
  <2>3. QED BY <1>0, <1>2, <2>1, <2>2, BeginTypes DEF TypeOK, ReadSource
<1>3. CASE ListForReset(r)
  <2>1. [Idle EXCEPT !.kind = "reset", !.pc = "settings", !.listed = Live] \in Request
    BY DEF Request, Kind, Live
  <2>2. QED BY <1>0, <1>3, <2>1, BeginTypes DEF TypeOK, ListForReset
<1>4. CASE ListForCopy(r)
  <2> DEFINE q == [req[r] EXCEPT !.pc = "rules", !.source = NoRules, !.todo = Copies(req[r])]
  <2>1. q \in Request
    BY <1>0, WriteSets DEF Request
  <2>2. req' = [req EXCEPT ![r] = q]
    BY <1>4 DEF ListForCopy
  <2> HIDE DEF q
  <2>3. QED BY <1>0, <1>4, <2>1, <2>2, OwnTypes DEF TypeOK, ListForCopy
<1>5. CASE ReadMasters(r)
  <2>1. PICK on \in SUBSET Channels :
          req' = [req EXCEPT ![r].pc = "rules", ![r].on = on, ![r].listed = {},
                             ![r].todo = Defaults(req[r].listed, on)]
    BY <1>5 DEF ReadMasters
  <2> DEFINE q == [req[r] EXCEPT !.pc = "rules", !.on = on, !.listed = {},
                                 !.todo = Defaults(req[r].listed, on)]
  <2>2. q \in Request
    BY <1>0, WriteSets DEF Request
  <2>3. req' = [req EXCEPT ![r] = q]
    BY <2>1
  <2> HIDE DEF q
  <2>4. QED BY <1>0, <1>5, <2>2, <2>3, OwnTypes DEF TypeOK, ReadMasters
<1>6. CASE WriteRule(r)
  <2>1. PICK w \in req[r].todo :
          /\ rules' = [rules EXCEPT ![w.loc][w.channel] = Upserted(r, w)]
          /\ req' = [req EXCEPT ![r].todo = @ \ {w}]
    BY <1>6 DEF WriteRule
  <2>2. w \in Write
    BY <1>0 DEF Request
  <2>3. Upserted(r, w) \in Rule \cup {NoRule}
    BY <1>0, <2>2 DEF Upserted, Write, Rules
  <2>4. rules' \in Rules
    BY <1>0, <2>1, <2>2, <2>3 DEF Rules, Write
  <2> DEFINE q == [req[r] EXCEPT !.todo = @ \ {w}]
  <2>5. q \in Request
    BY <1>0 DEF Request
  <2>6. req' = [req EXCEPT ![r] = q]
    BY <2>1
  <2> HIDE DEF q
  <2>7. QED BY <1>0, <1>6, <2>4, <2>5, <2>6, OwnTypes DEF TypeOK, WriteRule
<1>7. CASE AllWritten(r)
  <2>1. [req[r] EXCEPT !.pc = "done"] \in Request
    BY <1>0 DEF Request
  <2>2. req' = [req EXCEPT ![r] = [req[r] EXCEPT !.pc = "done"]]
    BY <1>7 DEF AllWritten, Goto
  <2>3. QED BY <1>0, <1>7, <2>1, <2>2, OwnTypes DEF TypeOK, AllWritten
<1>8. CASE End(r)
  BY <1>0, <1>8, OwnTypes DEF TypeOK, End
<1>9. QED BY <1>1, <1>2, <1>3, <1>4, <1>5, <1>6, <1>7, <1>8 DEF Step

LEMMA TypeNext ==
  ASSUME TypeOK, [Next]_vars
  PROVE  TypeOK'
<1> USE Constants
<1>0. place \in [Ids -> Place] /\ rules \in Rules /\ rep \in Report
  BY DEF TypeOK
<1>1. CASE UpdateLocation
  <2>1. PICK l \in Live :
          place' = [place EXCEPT ![l].forecast = IF @ = "none" THEN "none" ELSE "old"]
    BY <1>1 DEF UpdateLocation
  <2>2. place[l] \in Place
    BY <1>0 DEF Live
  <2>3. [place[l] EXCEPT !.forecast = IF @ = "none" THEN "none" ELSE "old"] \in Place
    BY <2>2 DEF Place
  <2>4. place' \in [Ids -> Place]
    BY <1>0, <2>1, <2>3 DEF Live
  <2>5. rep' \in Report
    BY <1>0, <1>1 DEF UpdateLocation, Report
  <2>6. QED BY <1>0, <1>1, <2>4, <2>5, DisturbTypes DEF TypeOK, UpdateLocation
<1>2. CASE DeleteLocation
  <2>1. place' \in [Ids -> Place]
    <3>1. [status |-> "gone", forecast |-> "none"] \in Place
      BY DEF Place
    <3>2. QED BY <1>0, <1>2, <3>1 DEF DeleteLocation
  <2>2. rules' \in Rules
    BY <1>0, <1>2 DEF DeleteLocation, Rules
  <2>3. QED BY <1>0, <1>2, <2>1, <2>2, DisturbTypes DEF TypeOK, DeleteLocation
<1>3. CASE SaveRule
  <2>1. \A rule \in OwnRules : Validated(rule) \in Rule
    BY DEF Validated, Rule
  <2>2. PICK l \in Live, c \in Channels, rule \in OwnRules :
          rules' = [rules EXCEPT ![l][c] = Validated(rule)]
    BY <1>3 DEF SaveRule
  <2>3. [rules[l] EXCEPT ![c] = Validated(rule)] \in [Channels -> Rule \cup {NoRule}]
    BY <1>0, <2>1 DEF Rules, Live
  <2>4. rules' \in Rules
    BY <1>0, <2>2, <2>3 DEF Rules
  <2>5. QED BY <1>0, <1>3, <2>4, DisturbTypes DEF TypeOK, SaveRule
<1>4. CASE SwitchChannel
  <2>1. PICK c \in Channels, enabled \in BOOLEAN :
          rules' = [l \in Ids |-> IF rules[l][c] = NoRule THEN rules[l]
                                  ELSE [rules[l] EXCEPT ![c].enabled = enabled]]
    BY <1>4 DEF SwitchChannel
  <2>2. ASSUME NEW l \in Ids, rules[l][c] # NoRule
        PROVE  [rules[l] EXCEPT ![c].enabled = enabled] \in [Channels -> Rule \cup {NoRule}]
    <3>1. rules[l] \in [Channels -> Rule \cup {NoRule}] /\ rules[l][c] \in Rule
      BY <1>0, <2>2 DEF Rules
    <3>2. [rules[l][c] EXCEPT !.enabled = enabled] \in Rule
      BY <3>1 DEF Rule
    <3>3. QED BY <3>1, <3>2
  <2>3. rules' \in Rules
    BY <1>0, <2>1, <2>2 DEF Rules
  <2>4. QED BY <1>0, <1>4, <2>3, DisturbTypes DEF TypeOK, SwitchChannel
<1>5. CASE \E r \in Requests : Step(r)
  BY <1>5, TypeStep
<1>6. CASE BeginReport
  <2>1. rep' \in Report
    BY <1>6 DEF BeginReport, Report, Live
  <2>2. QED BY <1>0, <1>6, <2>1 DEF TypeOK, BeginReport
<1>7. CASE Fetch
  <2>1. PICK f \in [rep.due -> Forecasts] :
          rep' = [rep EXCEPT !.pc = "write", !.todo = rep.due,
                    !.results = [l \in Ids |-> IF l \in rep.due THEN f[l] ELSE NoResult]]
    BY <1>7 DEF Fetch
  <2>2. [l \in Ids |-> IF l \in rep.due THEN f[l] ELSE NoResult] \in [Ids -> Result]
    OBVIOUS
  <2>3. rep' \in Report
    BY <1>0, <2>1, <2>2 DEF Report
  <2>4. QED BY <1>0, <1>7, <2>3 DEF TypeOK, Fetch
<1>8. CASE WriteForecast
  <2>1. \A l \in Ids : Stored(l) \in {"none", "current", "old"}
    BY DEF Stored
  <2>2. place' \in [Ids -> Place]
    BY <1>0, <1>8, <2>1 DEF WriteForecast, Place, Live, Report
  <2>3. rep' \in Report
    BY <1>0, <1>8 DEF WriteForecast, Report
  <2>4. QED BY <1>0, <1>8, <2>2, <2>3 DEF TypeOK, WriteForecast
<1>9. CASE AllStored
  <2>1. rep' \in Report
    BY <1>0, <1>9 DEF AllStored, Report
  <2>2. QED BY <1>0, <1>9, <2>1 DEF TypeOK, AllStored
<1>10. CASE EndReport
  BY <1>10 DEF TypeOK, EndReport
<1>11. CASE UNCHANGED vars
  BY <1>11 DEF TypeOK, vars
<1>12. QED
  BY <1>1, <1>2, <1>3, <1>4, <1>5, <1>6, <1>7, <1>8, <1>9, <1>10, <1>11 DEF Next

LEMMA TypeInit ==
  ASSUME Init
  PROVE  TypeOK
BY Constants DEF Init, TypeOK, Place, Rules

\* The tables and the local states of requests and report keep their types.
THEOREM TypeCorrect == Spec => []TypeOK
<1>1. Init => TypeOK
  BY TypeInit
<1>2. TypeOK /\ [Next]_vars => TypeOK'
  BY TypeNext
<1>3. QED BY <1>1, <1>2, PTL DEF Spec

---------------------------------------------------------------------------
(* The cap.                                                                *)

\* Only addLocation makes a location live, and only if there is room.
LEMMA LiveStep ==
  ASSUME TypeOK, [Next]_vars
  PROVE  \/ Live' \subseteq Live
         \/ Room /\ \E l \in Ids : Live' = Live \cup {l}
<1>0. place \in [Ids -> Place]
  BY DEF TypeOK
<1>1. ASSUME NEW r \in Requests, InsertLocation(r)
      PROVE  Room /\ \E l \in Ids : Live' = Live \cup {l}
  <2>1. PICK l \in Ids : place' = [place EXCEPT ![l] = [status |-> "live", forecast |-> "none"]]
    BY <1>1 DEF InsertLocation
  <2>2. Live' = Live \cup {l}
    BY <1>0, <2>1 DEF Live
  <2>3. QED BY <1>1, <2>2 DEF InsertLocation
<1>2. ASSUME NEW r \in Requests, Step(r), ~InsertLocation(r)
      PROVE  place' = place
  BY <1>2 DEF Step, ReadSource, ListForReset, ListForCopy, ReadMasters, WriteRule,
              AllWritten, End
<1>3. CASE UpdateLocation
  <2>1. PICK l \in Live :
          place' = [place EXCEPT ![l].forecast = IF @ = "none" THEN "none" ELSE "old"]
    BY <1>3 DEF UpdateLocation
  <2>2. place[l] \in Place /\ l \in Ids
    BY <1>0 DEF Live
  <2>3. [place[l] EXCEPT !.forecast = IF @ = "none" THEN "none" ELSE "old"].status
          = place[l].status
    BY <2>2 DEF Place
  <2>4. \A m \in Ids : place'[m].status = place[m].status
    BY <1>0, <2>1, <2>2, <2>3
  <2>5. QED BY <2>4 DEF Live
<1>4. CASE DeleteLocation
  BY <1>0, <1>4 DEF DeleteLocation, Live
<1>5. CASE WriteForecast
  <2>1. PICK l \in rep.todo :
          place' = IF l \in Live THEN [place EXCEPT ![l].forecast = Stored(l)] ELSE place
    BY <1>5 DEF WriteForecast
  <2>2. CASE l \in Live
    <3>1. place[l] \in Place /\ l \in Ids
      BY <1>0, <2>2 DEF Live
    <3>2. [place[l] EXCEPT !.forecast = Stored(l)].status = place[l].status
      BY <3>1 DEF Place
    <3>3. \A m \in Ids : place'[m].status = place[m].status
      BY <1>0, <2>1, <2>2, <3>1, <3>2
    <3>4. QED BY <3>3 DEF Live
  <2>3. QED BY <2>1, <2>2 DEF Live
<1>6. CASE \/ SaveRule \/ SwitchChannel \/ BeginReport \/ Fetch \/ AllStored \/ EndReport
           \/ UNCHANGED vars
  BY <1>6 DEF SaveRule, SwitchChannel, BeginReport, Fetch, AllStored, EndReport, vars, Live
<1>7. QED BY <1>1, <1>2, <1>3, <1>4, <1>5, <1>6 DEF Next, Step, Live

\* However many requests add at once, there are never more than Cap locations.
THEOREM CapKept == Spec => []AtMostCap
<1>1. Init => AtMostCap
  <2> SUFFICES ASSUME Init PROVE AtMostCap
    OBVIOUS
  <2>1. Live = {}
    BY DEF Init, Live
  <2>2. QED BY <2>1, FS_EmptySet DEF AtMostCap
<1>2. TypeOK /\ AtMostCap /\ [Next]_vars => AtMostCap'
  <2> SUFFICES ASSUME TypeOK, AtMostCap, [Next]_vars PROVE AtMostCap'
    OBVIOUS
  <2> DEFINE old == Live
             new == Live'
  <2>1. IsFiniteSet(old) /\ Cardinality(old) \in Nat
    BY FS_Subset, FS_CardinalityType DEF Live
  <2>2. new \subseteq old \/ (Room /\ \E l \in Ids : new = old \cup {l})
    BY LiveStep
  <2>3. Cardinality(old) <= Cap /\ (Room => Cardinality(old) < Cap)
    BY DEF AtMostCap, Room
  <2> HIDE DEF old, new
  <2>4. CASE new \subseteq old
    <3>1. IsFiniteSet(new) /\ Cardinality(new) <= Cardinality(old)
      BY <2>1, <2>4, FS_Subset
    <3>2. Cardinality(new) \in Nat
      BY <3>1, FS_CardinalityType
    <3>3. Cardinality(new) <= Cap
      BY <2>1, <2>3, <3>1, <3>2
    <3>4. QED BY <3>3 DEF AtMostCap, new
  <2>5. CASE Room /\ \E l \in Ids : new = old \cup {l}
    <3>1. PICK l \in Ids : new = old \cup {l}
      BY <2>5
    <3>2. Cardinality(new) = Cardinality(old) \/ Cardinality(new) = Cardinality(old) + 1
      BY <2>1, <3>1, FS_AddElement
    <3>3. Cardinality(new) <= Cap
      BY <2>1, <2>3, <2>5, <3>2
    <3>4. QED BY <3>3 DEF AtMostCap, new
  <2>6. QED BY <2>2, <2>4, <2>5
<1>3. QED BY <1>1, <1>2, TypeCorrect, PTL DEF Spec

---------------------------------------------------------------------------
(* Late defaults.                                                          *)

\* The default rules of a new location never replace a rule that is there.
THEOREM DefaultsStay == Spec => DefaultsNeverOverwrite
<1>1. ASSUME TypeOK, [Next]_vars, NEW r \in Requests, At(r, "rules"), Is(r, "add"),
             req'[r].todo # req[r].todo,
             NEW l \in Ids, NEW c \in Channels, rules[l][c] # NoRule
      PROVE  rules'[l][c] = rules[l][c]
  <2>0. req[r] \in Request /\ rules \in Rules
    BY <1>1 DEF TypeOK
  <2>1. ASSUME Disturb PROVE FALSE
    BY <1>1, <2>1, DisturbTypes
  <2>2. ASSUME NEW s \in Requests, Step(s) PROVE rules'[l][c] = rules[l][c]
    <3>1. CASE WriteRule(s)
      <4>1. PICK w \in req[s].todo :
              /\ rules' = [rules EXCEPT ![w.loc][w.channel] = Upserted(s, w)]
              /\ req' = [req EXCEPT ![s].todo = @ \ {w}]
        BY <3>1 DEF WriteRule
      <4>2. s = r
        BY <1>1, <4>1 DEF TypeOK
      <4>3. w.loc \in Ids /\ w.channel \in Channels
        BY <2>0, <4>2 DEF Request, Write
      <4>4. rules[l][c] = Upserted(s, w) \/ w.loc # l \/ w.channel # c
        BY <1>1, <4>2 DEF Upserted
      <4>5. QED BY <2>0, <4>1, <4>3, <4>4 DEF Rules
    <3>2. CASE ~WriteRule(s)
      BY <2>2, <3>2 DEF Step, InsertLocation, ReadSource, ListForReset, ListForCopy,
                        ReadMasters, AllWritten, End
    <3>3. QED BY <3>1, <3>2
  <2>3. CASE \/ BeginReport \/ Fetch \/ WriteForecast \/ AllStored \/ EndReport
             \/ UNCHANGED vars
    BY <2>3 DEF BeginReport, Fetch, WriteForecast, AllStored, EndReport, vars
  <2>4. QED
    BY <1>1, <2>1, <2>2, <2>3
    DEF Next, UpdateLocation, DeleteLocation, SaveRule, SwitchChannel
<1>2. TypeOK /\ [Next]_vars =>
        [\A r \in Requests : At(r, "rules") /\ Is(r, "add") /\ req'[r].todo # req[r].todo =>
           \A l \in Ids, c \in Channels :
             rules[l][c] # NoRule => rules'[l][c] = rules[l][c]]_vars
  BY <1>1
<1>3. QED BY <1>2, TypeCorrect, PTL DEF Spec, DefaultsNeverOverwrite

---------------------------------------------------------------------------
(* What a report sends.                                                    *)

\* Each location that is due is alerted as its rule says; one without a rule,
\* only on a channel without any.
THEOREM AlertsFollow == Spec => []AlertsFollowRules
<1>1. TypeOK => AlertsFollowRules
  <2> SUFFICES ASSUME TypeOK, RepAt("rules"), NEW c \in Channels,
                      NEW trigger \in Trigger \ ThresholdBypass, NEW l \in rep.due
               PROVE  LET about == Plan(trigger, FALSE, c).about IN
                      IF rules[l][c] # NoRule
                      THEN l \in about <=> Qualifies(rep.results[l], rules[l][c])
                      ELSE l \in about => \A m \in Ids : rules[m][c] = NoRule
    BY DEF AlertsFollowRules
  <2> DEFINE results == [m \in rep.due |-> rep.results[m]]
             table   == [m \in Ids |-> rules[m][c]]
  <2>1. l \in Ids /\ rep.due \subseteq Ids
    BY DEF TypeOK, Report
  <2>2. Plan(trigger, FALSE, c).about = Filtered(results, table)
    BY PlannedAbout DEF Plan
  <2>3. DOMAIN results = rep.due /\ results[l] = rep.results[l]
        /\ DOMAIN table = Ids /\ \A m \in Ids : table[m] = rules[m][c]
    OBVIOUS
  <2> HIDE DEF results, table
  <2>4. (\E m \in Ids : rules[m][c] # NoRule) => Effective(table) = table
    BY <2>3 DEF Effective
  <2>5. l \in Filtered(results, table) <=>
          /\ Effective(table)[l] # NoRule
          /\ Qualifies(results[l], Effective(table)[l])
    BY <2>3 DEF Filtered
  <2>6. QED BY <2>1, <2>2, <2>3, <2>4, <2>5
<1>2. QED BY <1>1, TypeCorrect, PTL

\* What a report has stored so far.
Fits(l) == place[l].forecast = IF rep.results[l].error THEN "none"
                               ELSE IF l \in rep.unmoved THEN "current" ELSE "old"

StoreInv ==
  /\ ~RepAt("idle") => \A l \in rep.due : place[l].status # "unused"
  /\ RepAt("write") => \A l \in (rep.due \ rep.todo) \cap Live : Fits(l)
  /\ ForecastsFit

LEMMA StoreStep ==
  ASSUME TypeOK, StoreInv, [Next]_vars
  PROVE  StoreInv'
<1>0. place \in [Ids -> Place] /\ rep \in Report /\ rep.due \subseteq Ids
  BY DEF TypeOK, Report
<1> DEFINE Stores == /\ rep'.due = rep.due /\ rep'.results = rep.results /\ rep'.pc = rep.pc
                     /\ rep'.todo = rep.todo
\* The location that changes is not due, or gone, or fits as before.
<1>1. ASSUME Stores, NEW k \in Ids, place' \in [Ids -> Place],
             \A l \in Ids \ {k} : place'[l] = place[l],
             \A l \in Ids \ {k} : l \in rep'.unmoved <=> l \in rep.unmoved,
             place[k].status # "unused" => place'[k].status # "unused",
             k \in rep.due /\ k \in Live' /\ ~RepAt("idle") => k \in Live /\ (Fits(k) => Fits(k)')
      PROVE  StoreInv'
  BY <1>0, <1>1 DEF StoreInv, ForecastsFit, RepAt, Fits, Live
<1>2. ASSUME NEW r \in Requests, InsertLocation(r) PROVE StoreInv'
  <2>1. PICK k \in Ids : /\ place[k].status = "unused"
                         /\ place' = [place EXCEPT ![k] = [status |-> "live", forecast |-> "none"]]
                         /\ rep' = rep
    BY <1>2 DEF InsertLocation
  <2>2. place' \in [Ids -> Place]
    BY <1>0, <2>1 DEF Place
  <2>3. k \in rep.due => RepAt("idle")
    BY <2>1 DEF StoreInv
  <2>4. QED BY <1>0, <1>1, <2>1, <2>2, <2>3
<1>3. ASSUME NEW r \in Requests, Step(r), ~InsertLocation(r)
      PROVE  place' = place /\ rep' = rep
  BY <1>3 DEF Step, ReadSource, ListForReset, ListForCopy, ReadMasters, WriteRule,
              AllWritten, End
<1>4. CASE UpdateLocation
  <2>1. PICK k \in Live :
          /\ place' = [place EXCEPT ![k].forecast = IF @ = "none" THEN "none" ELSE "old"]
          /\ rep' = [rep EXCEPT !.unmoved = @ \ {k}]
    BY <1>4 DEF UpdateLocation
  <2>2. place[k] \in Place /\ k \in Ids
    BY <1>0 DEF Live
  <2> DEFINE row == [place[k] EXCEPT !.forecast = IF @ = "none" THEN "none" ELSE "old"]
  <2>3. /\ row \in Place /\ row.status = place[k].status
        /\ row.forecast = IF place[k].forecast = "none" THEN "none" ELSE "old"
    BY <2>2 DEF Place
  <2>4. place' = [place EXCEPT ![k] = row]
    BY <2>1
  <2> HIDE DEF row
  <2>5. Stores /\ rep'.unmoved = rep.unmoved \ {k}
    BY <1>0, <2>1 DEF Report
  <2>6. Fits(k) => Fits(k)'
    BY <1>0, <2>2, <2>3, <2>4, <2>5 DEF Fits
  <2>7. place' \in [Ids -> Place] /\ \A l \in Ids \ {k} : place'[l] = place[l]
    BY <1>0, <2>3, <2>4
  <2>8. place'[k].status # "unused" /\ k \in Live
    BY <1>0, <2>2, <2>3, <2>4 DEF Live
  <2>9. QED BY <1>1, <2>2, <2>5, <2>6, <2>7, <2>8
<1>5. CASE DeleteLocation
  <2>1. PICK k \in Live :
          /\ place' = [place EXCEPT ![k] = [status |-> "gone", forecast |-> "none"]]
          /\ rep' = rep
    BY <1>5 DEF DeleteLocation
  <2>2. [status |-> "gone", forecast |-> "none"] \in Place /\ k \in Ids
    BY DEF Place, Live
  <2>3. k \notin Live' /\ place'[k].status # "unused" /\ place' \in [Ids -> Place]
    BY <1>0, <2>1, <2>2 DEF Live
  <2>4. QED BY <1>0, <1>1, <2>1, <2>2, <2>3
<1>6. CASE BeginReport
  <2>1. PICK due \in SUBSET Live :
          rep' = [NoReport EXCEPT !.pc = "fetch", !.due = due, !.unmoved = due]
    BY <1>6 DEF BeginReport
  <2>2. rep'.pc = "fetch" /\ rep'.due = due
    BY <2>1 DEF NoReport
  <2>3. QED BY <1>6, <2>2 DEF BeginReport, StoreInv, ForecastsFit, RepAt, Live
<1>7. CASE Fetch
  <2>1. rep.pc = "fetch" /\ rep'.pc = "write" /\ rep'.due = rep.due /\ rep'.todo = rep.due
        /\ place' = place
    BY <1>0, <1>7 DEF Fetch, RepAt, Report
  <2>2. QED BY <2>1 DEF StoreInv, ForecastsFit, RepAt
<1>8. CASE WriteForecast
  <2>1. PICK k \in rep.todo :
          /\ place' = IF k \in Live THEN [place EXCEPT ![k].forecast = Stored(k)] ELSE place
          /\ rep' = [rep EXCEPT !.todo = @ \ {k}]
    BY <1>8 DEF WriteForecast
  <2>2. /\ rep'.pc = rep.pc /\ rep'.due = rep.due /\ rep'.results = rep.results
        /\ rep'.unmoved = rep.unmoved /\ rep'.todo = rep.todo \ {k}
        /\ rep.pc = "write" /\ k \in Ids
    BY <1>0, <1>8, <2>1 DEF WriteForecast, RepAt, Report
  <2>3. CASE k \in Live
    <3>1. place[k] \in Place
      BY <1>0, <2>2
    <3> DEFINE row == [place[k] EXCEPT !.forecast = Stored(k)]
    <3>2. row.status = place[k].status /\ row.forecast = Stored(k)
      BY <3>1 DEF Place
    <3>3. place' = [place EXCEPT ![k] = row]
      BY <2>1, <2>3
    <3> HIDE DEF row
    <3>4. /\ \A l \in Ids : place'[l].status = place[l].status
          /\ \A l \in Ids \ {k} : place'[l] = place[l]
          /\ place'[k].forecast = Stored(k)
      BY <1>0, <2>2, <3>2, <3>3
    <3>5. Live' = Live
      BY <3>4 DEF Live
    <3>6. Fits(k)'
      BY <2>2, <3>4 DEF Fits, Stored
    <3>7. \A l \in Ids \ {k} : Fits(l) => Fits(l)'
      BY <2>2, <3>4 DEF Fits
    <3>8. \A l \in (rep'.due \ rep'.todo) \cap Live' : Fits(l)'
      BY <1>0, <2>2, <3>5, <3>6, <3>7 DEF StoreInv, RepAt
    <3>9. QED BY <1>0, <2>2, <3>4, <3>8 DEF StoreInv, ForecastsFit, RepAt
  <2>4. CASE k \notin Live
    <3>1. place' = place /\ Live' = Live
      BY <2>1, <2>4 DEF Live
    <3>2. \A l \in Ids : Fits(l) => Fits(l)'
      BY <2>2, <3>1 DEF Fits
    <3>3. \A l \in (rep'.due \ rep'.todo) \cap Live' : Fits(l)'
      BY <1>0, <2>2, <2>4, <3>1, <3>2 DEF StoreInv, RepAt
    <3>4. QED BY <2>2, <3>1, <3>3 DEF StoreInv, ForecastsFit, RepAt
  <2>5. QED BY <2>3, <2>4
<1>9. CASE AllStored
  <2>1. rep'.pc = "rules" /\ rep'.due = rep.due /\ rep'.results = rep.results
        /\ rep'.unmoved = rep.unmoved /\ rep.todo = {} /\ place' = place /\ rep.pc = "write"
    BY <1>0, <1>9 DEF AllStored, RepAt, Report
  <2>2. QED BY <2>1 DEF StoreInv, ForecastsFit, RepAt, Fits, Live
<1>10. CASE EndReport
  BY <1>10 DEF EndReport, NoReport, StoreInv, ForecastsFit, RepAt
<1>11. CASE SaveRule \/ SwitchChannel \/ UNCHANGED vars
  BY <1>11 DEF SaveRule, SwitchChannel, vars, StoreInv, ForecastsFit, RepAt, Fits, Live
<1>12. ASSUME place' = place, rep' = rep PROVE StoreInv'
  BY <1>12 DEF StoreInv, ForecastsFit, RepAt, Fits, Live
<1>13. QED
  BY <1>2, <1>3, <1>4, <1>5, <1>6, <1>7, <1>8, <1>9, <1>10, <1>11, <1>12 DEF Next

\* A report leaves each location it was about with the forecast it fetched, and
\* with none that passes for current although the location was moved meanwhile.
THEOREM ForecastsKept == Spec => []ForecastsFit
<1>1. Init => StoreInv
  BY DEF Init, StoreInv, ForecastsFit, NoReport, RepAt
<1>2. TypeOK /\ StoreInv /\ [Next]_vars => StoreInv'
  BY StoreStep
<1>3. StoreInv => ForecastsFit
  BY DEF StoreInv
<1>4. QED BY <1>1, <1>2, <1>3, TypeCorrect, PTL DEF Spec

---------------------------------------------------------------------------
(* Bulk changes.                                                           *)

\* The writes that make up the change that r asks for.
Aims(r) ==
  LET q == req[r] IN
  CASE q.kind = "add"   -> Defaults({q.loc}, q.on)
    [] q.kind = "reset" -> Defaults(Live, q.on)
    [] q.kind = "copy"  ->
         {[loc |-> l, channel |-> c, rule |-> rules[q.loc][c]] :
            l \in Live \ {q.loc}, c \in {d \in Channels : rules[q.loc][d] # NoRule}}

Holds(w) == rules[w.loc][w.channel] = w.rule

\* How far r has come: the writes still to make are among its aims, and the other
\* aims hold; what addLocation has still to insert is not there yet.
Aiming(r) ==
  LET q == req[r] IN
  /\ q.pc = "settings" /\ q.kind = "add" =>
       /\ q.listed = {q.loc} /\ q.loc \in Live
       /\ \A c \in Channels : rules[q.loc][c] = NoRule
  /\ q.pc = "settings" => q.kind # "copy"
  /\ q.pc = "settings" /\ q.kind = "reset" => q.listed = Live
  /\ q.pc = "list" => q.kind = "copy" /\ q.loc \in Ids /\ q.source = rules[q.loc]
  /\ q.pc \in {"rules", "done"} =>
       /\ q.loc \in Ids \/ q.kind = "reset"
       /\ q.todo \subseteq Aims(r)
       /\ \A w \in Aims(r) \ q.todo : Holds(w)
  /\ q.pc = "rules" /\ q.kind = "add" =>
       \A w \in q.todo : rules[w.loc][w.channel] = NoRule
  /\ q.pc = "done" => q.todo = {}

BulkInv ==
  /\ \A l \in Ids \ Live, c \in Channels : rules[l][c] = NoRule
  /\ \A r \in Requests : req[r].clean => Busy = {r} /\ Aiming(r)

LEMMA AimsWrites ==
  ASSUME TypeOK, NEW r \in Requests
  PROVE  \A v, w \in Aims(r) : v.loc = w.loc /\ v.channel = w.channel => v = w
<1>1. \A S, on : \A v, w \in Defaults(S, on) :
        v.loc = w.loc /\ v.channel = w.channel => v = w
  BY DEF Defaults
<1>2. CASE req[r].kind = "add"
  BY <1>1, <1>2 DEF Aims
<1>3. CASE req[r].kind = "reset"
  BY <1>1, <1>3 DEF Aims
<1>4. CASE req[r].kind = "copy"
  BY <1>4 DEF Aims
<1>5. QED BY <1>2, <1>3, <1>4 DEF TypeOK, Request, Kind

\* A step that changes neither rules nor the live locations nor r.
LEMMA AimingKept ==
  ASSUME NEW r \in Requests, Aiming(r), rules' = rules, Live' = Live, req'[r] = req[r]
  PROVE  Aiming(r)'
<1>1. Aims(r)' = Aims(r)
  BY DEF Aims, Defaults
<1>2. QED BY <1>1 DEF Aiming, Holds

LEMMA StartStep ==
  ASSUME TypeOK, BulkInv, NEW r \in Requests,
         InsertLocation(r) \/ ReadSource(r) \/ ListForReset(r)
  PROVE  BulkInv'
<1> USE Constants
<1>0. rules \in Rules /\ place \in [Ids -> Place]
  BY DEF TypeOK
<1>1. PICK q \in Request :
        /\ Begin(r, q) /\ rules' = rules
        /\ \/ /\ q.kind = "add" /\ q.pc = "settings" /\ q.listed = {q.loc}
              /\ place[q.loc].status = "unused" /\ q.loc \in Ids
              /\ Live' = Live \cup {q.loc}
           \/ /\ q.kind = "copy" /\ q.pc = "list" /\ q.loc \in Ids /\ q.source = rules[q.loc]
              /\ Live' = Live
           \/ q.kind = "reset" /\ q.pc = "settings" /\ q.listed = Live /\ Live' = Live
  <2>1. CASE InsertLocation(r)
    <3>1. PICK l \in Ids :
            /\ place[l].status = "unused"
            /\ Begin(r, [Idle EXCEPT !.kind = "add", !.pc = "settings", !.loc = l, !.listed = {l}])
            /\ place' = [place EXCEPT ![l] = [status |-> "live", forecast |-> "none"]]
            /\ rules' = rules
      BY <2>1 DEF InsertLocation
    <3> DEFINE q == [Idle EXCEPT !.kind = "add", !.pc = "settings", !.loc = l, !.listed = {l}]
    <3>2. /\ q \in Request /\ q.kind = "add" /\ q.pc = "settings" /\ q.listed = {q.loc}
          /\ q.loc = l
      BY DEF Request, Kind
    <3>3. Live' = Live \cup {l}
      BY <1>0, <3>1 DEF Live
    <3> HIDE DEF q
    <3>4. QED BY <3>1, <3>2, <3>3 DEF q
  <2>2. CASE ReadSource(r)
    <3>1. PICK l \in Ids :
            Begin(r, [Idle EXCEPT !.kind = "copy", !.pc = "list", !.loc = l,
                                  !.source = rules[l]])
      BY <2>2 DEF ReadSource
    <3> DEFINE q == [Idle EXCEPT !.kind = "copy", !.pc = "list", !.loc = l,
                                 !.source = rules[l]]
    <3>2. /\ q \in Request /\ q.kind = "copy" /\ q.pc = "list" /\ q.loc = l
          /\ q.source = rules[l]
      BY <1>0 DEF Request, Kind, Rules
    <3>3. rules' = rules /\ Live' = Live
      BY <2>2 DEF ReadSource, Live
    <3> HIDE DEF q
    <3>4. QED BY <3>1, <3>2, <3>3 DEF q
  <2>3. CASE ListForReset(r)
    <3> DEFINE q == [Idle EXCEPT !.kind = "reset", !.pc = "settings", !.listed = Live]
    <3>1. q \in Request /\ q.kind = "reset" /\ q.pc = "settings" /\ q.listed = Live
      BY DEF Request, Kind, Live
    <3>2. Begin(r, q) /\ rules' = rules /\ Live' = Live
      BY <2>3 DEF ListForReset, Live
    <3> HIDE DEF q
    <3>3. QED BY <3>1, <3>2
  <2>4. QED BY <2>1, <2>2, <2>3
<1>2. /\ req'[r] = [q EXCEPT !.clean = Busy = {}]
      /\ req'[r].clean = (Busy = {})
      /\ \A s \in Requests \ {r} : req'[s] = [req[s] EXCEPT !.clean = FALSE] /\ ~req'[s].clean
  BY <1>1, BeginTypes
<1>3. /\ req'[r].pc = q.pc /\ req'[r].kind = q.kind /\ req'[r].loc = q.loc
      /\ req'[r].listed = q.listed /\ req'[r].source = q.source
  BY <1>2 DEF Request
<1>4. \A l \in Ids \ Live', c \in Channels : rules'[l][c] = NoRule
  BY <1>1 DEF BulkInv
<1>5. ASSUME Busy = {} PROVE Busy' = {r}
  <2>1. \A s \in Requests : req[s].pc = "idle" /\ req[s] \in Request
    BY <1>5 DEF Busy, At, TypeOK
  <2>2. ASSUME NEW s \in Requests \ {r} PROVE req'[s].pc = "idle"
    <3>1. req[s] \in Request /\ req[s].pc = "idle" /\ req'[s] = [req[s] EXCEPT !.clean = FALSE]
      BY <1>2, <2>1
    <3>2. QED BY <3>1 DEF Request
  <2>3. q.pc # "idle"
    BY <1>1
  <2>4. QED BY <1>3, <2>2, <2>3 DEF Busy, At
<1>6. Aiming(r)'
  <2>1. ASSUME NEW c \in Channels, q.kind = "add" PROVE rules[q.loc][c] = NoRule
    BY <1>1, <2>1 DEF BulkInv, Live
  <2>2. QED BY <1>1, <1>3, <2>1 DEF Aiming, Live
<1>7. QED BY <1>2, <1>4, <1>5, <1>6 DEF BulkInv

LEMMA OwnStep ==
  ASSUME TypeOK, BulkInv, NEW r \in Requests,
         ListForCopy(r) \/ ReadMasters(r) \/ WriteRule(r) \/ AllWritten(r)
  PROVE  BulkInv'
<1> USE Constants
<1>0. rules \in Rules /\ req[r] \in Request /\ place' = place /\ Live' = Live
  BY DEF TypeOK, ListForCopy, ReadMasters, WriteRule, AllWritten, Live
<1> DEFINE Same == /\ req'[r].clean = req[r].clean /\ req'[r].kind = req[r].kind
                   /\ req'[r].loc = req[r].loc
                   /\ \A s \in Requests \ {r} : req'[s] = req[s]
                   /\ req[r].pc # "idle" /\ req'[r].pc # "idle"
<1>1. Same
  <2>1. CASE ListForCopy(r)
    BY <1>0, <2>1 DEF TypeOK, ListForCopy, Request, At
  <2>2. CASE ReadMasters(r)
    <3>1. PICK on \in SUBSET Channels :
            req' = [req EXCEPT ![r].pc = "rules", ![r].on = on, ![r].listed = {},
                               ![r].todo = Defaults(req[r].listed, on)]
      BY <2>2 DEF ReadMasters
    <3>2. /\ req'[r] = [req[r] EXCEPT !.pc = "rules", !.on = on, !.listed = {},
                                      !.todo = Defaults(req[r].listed, on)]
          /\ \A s \in Requests \ {r} : req'[s] = req[s]
      BY <3>1 DEF TypeOK
    <3>3. QED BY <1>0, <2>2, <3>2 DEF Request, ReadMasters, At
  <2>3. CASE WriteRule(r)
    BY <1>0, <2>3 DEF TypeOK, WriteRule, Request, At
  <2>4. CASE AllWritten(r)
    BY <1>0, <2>4 DEF TypeOK, AllWritten, Goto, Request, At
  <2>5. QED BY <2>1, <2>2, <2>3, <2>4
<1>2. Busy' = Busy
  BY <1>1 DEF Busy, At
<1>3. \A l \in Ids \ Live', c \in Channels : rules'[l][c] = NoRule
  <2>1. CASE WriteRule(r)
    <3>1. PICK w \in req[r].todo :
            w.loc \in Live /\ rules' = [rules EXCEPT ![w.loc][w.channel] = Upserted(r, w)]
      BY <2>1 DEF WriteRule
    <3>2. QED BY <1>0, <3>1 DEF BulkInv, Rules
  <2>2. CASE rules' = rules
    BY <1>0, <2>2 DEF BulkInv
  <2>3. QED BY <2>1, <2>2 DEF ListForCopy, ReadMasters, AllWritten
<1>4. \A s \in Requests \ {r} : ~req'[s].clean
  BY <1>1 DEF BulkInv, Busy, At
<1>5. ASSUME req[r].clean PROVE Aiming(r)'
  <2>0. Aiming(r) /\ \A w \in req[r].todo : w.loc \in Ids /\ w.channel \in Channels
    BY <1>0, <1>5 DEF BulkInv, Request, Write
  <2>1. CASE ListForCopy(r)
    <3>1. /\ req[r].pc = "list" /\ req'[r].pc = "rules" /\ req'[r].todo = Copies(req[r])
          /\ rules' = rules
      BY <1>0, <2>1 DEF ListForCopy, At, TypeOK
    <3>2. req[r].kind = "copy" /\ req[r].loc \in Ids /\ req[r].source = rules[req[r].loc]
      BY <2>0, <3>1 DEF Aiming
    <3>3. Copies(req[r]) = Aims(r)'
      BY <1>0, <1>1, <3>1, <3>2 DEF Copies, Aims
    <3>4. QED BY <1>1, <3>1, <3>2, <3>3 DEF Aiming
  <2>2. CASE ReadMasters(r)
    <3>1. /\ req[r].pc = "settings" /\ req'[r].pc = "rules" /\ rules' = rules
          /\ req'[r].todo = Defaults(req[r].listed, req'[r].on)
      <4>1. PICK on \in SUBSET Channels :
              req' = [req EXCEPT ![r].pc = "rules", ![r].on = on, ![r].listed = {},
                                 ![r].todo = Defaults(req[r].listed, on)]
        BY <2>2 DEF ReadMasters
      <4>2. req'[r] = [req[r] EXCEPT !.pc = "rules", !.on = on, !.listed = {},
                                     !.todo = Defaults(req[r].listed, on)]
        BY <4>1 DEF TypeOK
      <4>3. QED BY <1>0, <2>2, <4>2 DEF Request, ReadMasters, At
    <3>2. req[r].kind \in {"add", "reset"}
      BY <1>0, <2>0, <3>1 DEF Aiming, Request, Kind
    <3>3. Defaults(req[r].listed, req'[r].on) = Aims(r)'
      <4>1. req[r].listed = IF req[r].kind = "add" THEN {req[r].loc} ELSE Live
        BY <2>0, <3>1, <3>2 DEF Aiming
      <4>2. QED BY <1>0, <1>1, <3>2, <4>1 DEF Aims, Defaults
    <3>4. ASSUME req[r].kind = "add", NEW w \in req'[r].todo
          PROVE  rules'[w.loc][w.channel] = NoRule
      BY <2>0, <3>1, <3>4 DEF Aiming, Defaults
    <3>5. req[r].loc \in Ids \/ req[r].kind = "reset"
      BY <2>0, <3>1, <3>2 DEF Aiming, Live
    <3>6. QED BY <1>1, <3>1, <3>3, <3>4, <3>5 DEF Aiming
  <2>3. CASE WriteRule(r)
    <3>1. PICK w \in req[r].todo :
            /\ req[r].pc = "rules" /\ w.loc \in Live
            /\ rules' = [rules EXCEPT ![w.loc][w.channel] = Upserted(r, w)]
            /\ req' = [req EXCEPT ![r].todo = @ \ {w}]
      BY <2>3 DEF WriteRule, At
    <3>2. req'[r].pc = "rules" /\ req'[r].todo = req[r].todo \ {w} /\ req'[r].on = req[r].on
      BY <1>0, <3>1 DEF TypeOK, Request
    <3>3. Upserted(r, w) = w.rule
      BY <2>0, <3>1 DEF Aiming, Upserted, Is
    <3>4. /\ rules'[w.loc][w.channel] = w.rule
          /\ \A l \in Ids, c \in Channels :
               l # w.loc \/ c # w.channel => rules'[l][c] = rules[l][c]
      BY <1>0, <2>0, <3>1, <3>3 DEF Rules
    <3>5. w \in Aims(r) /\ req[r].todo \subseteq Aims(r)
      BY <2>0, <3>1 DEF Aiming
    <3>6. Aims(r)' = Aims(r)
      <4>1. CASE req[r].kind = "copy"
        <5>1. w.loc # req[r].loc
          BY <3>5, <4>1 DEF Aims
        <5>2. req[r].loc \in Ids
          BY <2>0, <3>1, <4>1 DEF Aiming
        <5>3. \A c \in Channels : rules'[req[r].loc][c] = rules[req[r].loc][c]
          BY <3>4, <5>1, <5>2
        <5>4. QED BY <1>0, <1>1, <4>1, <5>3 DEF Aims
      <4>2. CASE req[r].kind # "copy"
        BY <1>0, <1>1, <3>2, <4>2 DEF Aims, Defaults, Request, Kind
      <4>3. QED BY <4>1, <4>2
    <3>7. \A v \in Aims(r) : v.loc \in Ids /\ v.channel \in Channels
      <4>1. req[r].loc \in Ids \/ req[r].kind = "reset"
        BY <2>0, <3>1 DEF Aiming
      <4>2. QED BY <1>0, <4>1 DEF Aims, Defaults, Live, Request, Kind
    <3>8. ASSUME NEW v \in Aims(r), v # w
          PROVE  rules'[v.loc][v.channel] = rules[v.loc][v.channel]
      <4>1. v.loc # w.loc \/ v.channel # w.channel
        BY <3>5, <3>8, AimsWrites
      <4>2. QED BY <3>4, <3>7, <4>1
    <3>9. \A v \in Aims(r)' \ req'[r].todo : Holds(v)'
      BY <2>0, <3>1, <3>2, <3>4, <3>6, <3>8 DEF Aiming, Holds
    <3>10. ASSUME req[r].kind = "add", NEW v \in req'[r].todo
           PROVE  rules'[v.loc][v.channel] = NoRule
      BY <2>0, <3>1, <3>2, <3>5, <3>8, <3>10 DEF Aiming
    <3>11. QED
      BY <1>1, <2>0, <3>1, <3>2, <3>5, <3>6, <3>9, <3>10 DEF Aiming
  <2>4. CASE AllWritten(r)
    <3>1. /\ req[r].pc = "rules" /\ req'[r].pc = "done" /\ rules' = rules
          /\ req[r].todo = {} /\ req'[r].todo = {} /\ req'[r].on = req[r].on
      BY <1>0, <2>4 DEF AllWritten, Goto, At, TypeOK, Request
    <3>2. Aims(r)' = Aims(r)
      BY <1>0, <1>1, <3>1 DEF Aims, Defaults
    <3>3. QED BY <1>1, <2>0, <3>1, <3>2 DEF Aiming, Holds
  <2>5. QED BY <2>1, <2>2, <2>3, <2>4
<1>6. QED
  BY <1>1, <1>2, <1>3, <1>4, <1>5 DEF BulkInv

LEMMA BulkStep ==
  ASSUME TypeOK, BulkInv, [Next]_vars
  PROVE  BulkInv'
<1> USE Constants
<1>0. rules \in Rules /\ place \in [Ids -> Place]
  BY DEF TypeOK
<1>1. ASSUME NEW r \in Requests, Step(r) PROVE BulkInv'
  <2>1. CASE End(r)
    <3>1. /\ req'[r].clean = FALSE /\ rules' = rules /\ Live' = Live /\ r \in Busy
          /\ \A s \in Requests \ {r} : req'[s] = req[s]
      BY <2>1 DEF End, TypeOK, Live, Busy
    <3>2. \A s \in Requests \ {r} : ~req'[s].clean
      BY <3>1 DEF BulkInv
    <3>3. QED BY <3>1, <3>2 DEF BulkInv
  <2>2. QED BY <1>1, <2>1, StartStep, OwnStep DEF Step
<1>2. ASSUME Disturb, \A l \in Ids \ Live', c \in Channels : rules'[l][c] = NoRule
      PROVE  BulkInv'
  BY <1>2, DisturbTypes DEF BulkInv
<1>3. ASSUME rules' = rules, req' = req, Live' = Live PROVE BulkInv'
  <2>1. Busy' = Busy
    BY <1>3 DEF Busy, At
  <2>2. QED BY <1>3, <2>1, AimingKept DEF BulkInv
<1>4. CASE UpdateLocation
  <2>1. PICK l \in Live :
          place' = [place EXCEPT ![l].forecast = IF @ = "none" THEN "none" ELSE "old"]
    BY <1>4 DEF UpdateLocation
  <2>2. \A m \in Ids : place'[m].status = place[m].status
    BY <1>0, <2>1 DEF Place, Live
  <2>3. QED BY <1>2, <1>4, <2>2 DEF UpdateLocation, Live, BulkInv
<1>5. CASE DeleteLocation
  <2>1. PICK l \in Live : /\ place' = [place EXCEPT ![l] = [status |-> "gone", forecast |-> "none"]]
                          /\ rules' = [rules EXCEPT ![l] = NoRules]
    BY <1>5 DEF DeleteLocation
  <2>2. \A m \in Ids \ {l} : m \in Live <=> m \in Live'
    BY <1>0, <2>1 DEF Live
  <2>3. \A m \in Ids \ Live', c \in Channels : rules'[m][c] = NoRule
    BY <1>0, <2>1, <2>2 DEF BulkInv, NoRules, Rules, Live
  <2>4. QED BY <1>2, <1>5, <2>3 DEF DeleteLocation
<1>6. CASE SaveRule
  <2>1. Live' = Live
    BY <1>6 DEF SaveRule, Live
  <2>2. \A m \in Ids \ Live', c \in Channels : rules'[m][c] = NoRule
    BY <1>0, <1>6, <2>1 DEF SaveRule, BulkInv, Rules
  <2>3. QED BY <1>2, <1>6, <2>2 DEF SaveRule
<1>7. CASE SwitchChannel
  <2>1. Live' = Live
    BY <1>7 DEF SwitchChannel, Live
  <2>2. PICK d \in Channels, enabled \in BOOLEAN :
          rules' = [l \in Ids |-> IF rules[l][d] = NoRule THEN rules[l]
                                  ELSE [rules[l] EXCEPT ![d].enabled = enabled]]
    BY <1>7 DEF SwitchChannel
  <2>3. ASSUME NEW m \in Ids \ Live', NEW c \in Channels PROVE rules'[m][c] = NoRule
    <3>1. rules[m][d] = NoRule /\ rules[m][c] = NoRule
      BY <2>1 DEF BulkInv
    <3>2. QED BY <2>2, <3>1
  <2>4. QED BY <1>2, <1>7, <2>3 DEF SwitchChannel
<1>8. CASE WriteForecast
  <2>1. PICK l \in rep.todo :
          place' = IF l \in Live THEN [place EXCEPT ![l].forecast = Stored(l)] ELSE place
    BY <1>8 DEF WriteForecast
  <2>2. \A m \in Ids : place'[m].status = place[m].status
    BY <1>0, <2>1 DEF Place, Live
  <2>3. QED BY <1>3, <1>8, <2>2 DEF WriteForecast, Live
<1>9. CASE BeginReport \/ Fetch \/ AllStored \/ EndReport \/ UNCHANGED vars
  BY <1>3, <1>9 DEF BeginReport, Fetch, AllStored, EndReport, vars, Live
<1>10. QED
  BY <1>1, <1>4, <1>5, <1>6, <1>7, <1>8, <1>9 DEF Next

LEMMA BulkReaches ==
  ASSUME TypeOK, BulkInv
  PROVE  BulkChangesReachAll
<1>1. ASSUME NEW r \in Requests, At(r, "done"), req[r].clean, NEW w \in Aims(r)
      PROVE  rules[w.loc][w.channel] = w.rule
  BY <1>1 DEF BulkInv, Aiming, At, Holds
<1>2. ASSUME NEW r \in Requests, Succeeded(r, "add"), NEW c \in Channels
      PROVE  rules[req[r].loc][c] = Default(c \in req[r].on)
  <2>1. [loc |-> req[r].loc, channel |-> c, rule |-> Default(c \in req[r].on)] \in Aims(r)
    BY <1>2 DEF Succeeded, Aims, Defaults, Is
  <2>2. QED BY <1>1, <1>2, <2>1 DEF Succeeded
<1>3. ASSUME NEW r \in Requests, Succeeded(r, "copy"), NEW l \in Live, NEW c \in Channels,
             rules[req[r].loc][c] # NoRule
      PROVE  rules[l][c] = rules[req[r].loc][c]
  <2>1. CASE l # req[r].loc
    <3>1. [loc |-> l, channel |-> c, rule |-> rules[req[r].loc][c]] \in Aims(r)
      BY <1>3, <2>1 DEF Succeeded, Aims, Is
    <3>2. QED BY <1>1, <1>3, <3>1 DEF Succeeded
  <2>2. QED BY <2>1
<1>4. ASSUME NEW r \in Requests, Succeeded(r, "reset"), NEW l \in Live, NEW c \in Channels
      PROVE  rules[l][c] = Default(c \in req[r].on)
  <2>1. [loc |-> l, channel |-> c, rule |-> Default(c \in req[r].on)] \in Aims(r)
    BY <1>4 DEF Succeeded, Aims, Defaults, Is
  <2>2. QED BY <1>1, <1>4, <2>1 DEF Succeeded
<1>5. QED BY <1>2, <1>3, <1>4 DEF BulkChangesReachAll

\* A bulk change that answers success, no other request having been in flight
\* with it, has reached every location and channel, whatever rules earlier
\* failures left behind.
THEOREM BulkReachesAll == Spec => []BulkChangesReachAll
<1>1. Init => BulkInv
  BY Constants DEF Init, BulkInv, NoRules
<1>2. TypeOK /\ BulkInv /\ [Next]_vars => BulkInv'
  BY BulkStep
<1>3. TypeOK /\ BulkInv => BulkChangesReachAll
  BY BulkReaches
<1>4. QED BY <1>1, <1>2, <1>3, TypeCorrect, PTL DEF Spec
=============================================================================
