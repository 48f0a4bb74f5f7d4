------------------------------ MODULE Settings ------------------------------
(***************************************************************************)
(* The application settings: when forecasts are checked, and at which of   *)
(* these times a report is sent over which channels.  The settings page    *)
(* (public/features/schedule.js) edits a copy of what it last read and     *)
(* saves all of it; a page loaded before there were scheduled reports      *)
(* saves without them; the Worker (worker/notifications/                   *)
(* application-settings.js) reads the row, checks what it was sent, adds   *)
(* what was left out and writes the row in a second statement.             *)
(*                                                                         *)
(* Time zone, self-test and display fields pass through with the others    *)
(* and are checked one by one; they are left out.                          *)
(***************************************************************************)
EXTENDS FiniteSets, Naturals

CONSTANTS
  Slots,        \* the hours of a day
  DefaultSlots, \* those checked when nothing is stored
  Presets,      \* the sets of hours that the page's buttons choose
  ReportChannels,
  Pages,        \* open settings pages
  OldPages,     \* those among them that know no scheduled reports
  MaxSlots      \* times that a schedule may have

ASSUME SettingsAssumption ==
  /\ MaxSlots \in Nat /\ IsFiniteSet(Slots)
  /\ DefaultSlots \subseteq Slots /\ DefaultSlots # {} /\ Cardinality(DefaultSlots) <= MaxSlots
  /\ Presets \subseteq SUBSET Slots
  /\ \A preset \in Presets : preset # {} /\ Cardinality(preset) <= MaxSlots
  /\ OldPages \subseteq Pages

VARIABLES
  stored, \* application_settings, the defaults while there is no row
  form,   \* what each page holds
  put     \* each page's request: its body, and the row that the Worker read for it

settingsVars == <<stored, form, put>>

Schedule == [times : SUBSET Slots, enabled : BOOLEAN, reports : SUBSET Slots, over : SUBSET ReportChannels]

Defaults == [times |-> DefaultSlots, enabled |-> FALSE, reports |-> {}, over |-> {}]

\* A page is what it shows.  Until it has read the settings it shows the defaults.
Put == [pc : {"none", "read", "write"}, body : Schedule, existing : Schedule]

NoPut == [pc |-> "none", body |-> Defaults, existing |-> Defaults]

---------------------------------------------------------------------------
(* The page. *)

\* What is edited while the page saves is nothing that the save uses: it counts
\* as edited afterwards.
Edit(p, body) ==
  /\ put[p].pc = "none"
  /\ form' = [form EXCEPT ![p] = body]
  /\ UNCHANGED <<stored, put>>

Reconciled(body) == [body EXCEPT !.reports = @ \cap body.times]

\* The pills: one removed, one added up to the cap, or a preset.
ChooseTimes(p) ==
  \E times \in SUBSET Slots :
    /\ \/ \E slot \in form[p].times : times = form[p].times \ {slot}
       \/ \E slot \in Slots \ form[p].times :
            Cardinality(form[p].times) < MaxSlots /\ times = form[p].times \cup {slot}
       \/ times \in Presets
    /\ Edit(p, Reconciled([form[p] EXCEPT !.times = times]))

ToggleReports(p) ==
  /\ p \notin OldPages
  /\ Edit(p, [form[p] EXCEPT !.enabled = ~@])

\* A box is shown for each time that is checked.
ToggleReportTime(p) ==
  /\ p \notin OldPages /\ form[p].enabled
  /\ \E slot \in form[p].times :
       Edit(p, [form[p] EXCEPT !.reports = IF slot \in @ THEN @ \ {slot} ELSE @ \cup {slot}])

ToggleReportChannel(p) ==
  /\ p \notin OldPages /\ form[p].enabled
  /\ \E channel \in ReportChannels :
       Edit(p, [form[p] EXCEPT !.over = IF channel \in @ THEN @ \ {channel} ELSE @ \cup {channel}])

\* The page's own check.
Submit(p) ==
  LET body == Reconciled(form[p]) IN
  /\ put[p].pc = "none"
  /\ body.enabled => body.reports # {} /\ body.over # {}
  /\ form' = [form EXCEPT ![p] = body]
  /\ put' = [put EXCEPT ![p] = [pc |-> "read", body |-> body, existing |-> Defaults]]
  /\ UNCHANGED stored

\* When the page is opened, and after a save: what it shows is replaced.
FetchSettings(p) ==
  Edit(p, IF p \in OldPages THEN [Defaults EXCEPT !.times = stored.times] ELSE Reconciled(stored))

---------------------------------------------------------------------------
(* The Worker. *)

\* What is read matters only to a body that leaves fields out.
ReadExisting(p) ==
  /\ put[p].pc = "read"
  /\ put' = [put EXCEPT ![p].pc = "write", ![p].existing = IF p \in OldPages THEN stored ELSE @]
  /\ UNCHANGED <<stored, form>>

\* Bug: inherited report times that are no longer checked are kept.
BadInherited(sent, existing) == [existing EXCEPT !.times = sent.times]

\* The report fields of the row stay for a page that leaves them out: times that
\* are no longer checked are dropped, and with the last of them the reports.
Inherited(sent, existing) ==
  LET reports == existing.reports \cap sent.times IN
  [times |-> sent.times, enabled |-> existing.enabled /\ reports # {},
   reports |-> reports, over |-> existing.over]

Valid(body) ==
  /\ body.times # {} /\ Cardinality(body.times) <= MaxSlots
  /\ body.reports \subseteq body.times
  /\ body.enabled => body.reports # {} /\ body.over # {}

Requested(p) == IF p \in OldPages THEN Inherited(put[p].body, put[p].existing) ELSE put[p].body

SaveSettings(p) ==
  /\ put[p].pc = "write"
  /\ Valid(Requested(p))
  /\ stored' = Requested(p)
  /\ put' = [put EXCEPT ![p] = NoPut]
  /\ UNCHANGED form

RefuseSettings(p) ==
  /\ put[p].pc = "write"
  /\ ~Valid(Requested(p))
  /\ put' = [put EXCEPT ![p] = NoPut]
  /\ UNCHANGED <<stored, form>>

\* The invocation dies, or D1 fails.
RequestLost(p) ==
  /\ put[p].pc # "none"
  /\ put' = [put EXCEPT ![p] = NoPut]
  /\ UNCHANGED <<stored, form>>

---------------------------------------------------------------------------

SettingsInit ==
  /\ stored = Defaults
  /\ form = [p \in Pages |-> Defaults]
  /\ put = [p \in Pages |-> NoPut]

SettingsNext ==
  \E p \in Pages :
    \/ ChooseTimes(p) \/ ToggleReports(p) \/ ToggleReportTime(p) \/ ToggleReportChannel(p)
    \/ Submit(p) \/ FetchSettings(p)
    \/ ReadExisting(p) \/ SaveSettings(p) \/ RefuseSettings(p) \/ RequestLost(p)

SettingsSpec == SettingsInit /\ [][SettingsNext]_settingsVars

---------------------------------------------------------------------------

SettingsTypeOK ==
  /\ stored \in Schedule
  /\ form \in [Pages -> Schedule]
  /\ put \in [Pages -> Put]

\* What passes the page's own check is refused only for having no times at all:
\* neither a page that knows no reports, saving over report times that it drops,
\* nor a row that changed since the page was loaded gets the owner a refusal.
RefusedOnlyWithoutTimes ==
  \A p \in Pages : put[p].pc = "write" /\ ~Valid(Requested(p)) => put[p].body.times = {}
=============================================================================
