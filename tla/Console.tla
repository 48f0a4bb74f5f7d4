------------------------------ MODULE Console ------------------------------
(***************************************************************************)
(* The page's locations: the list and the drawer of public/app.js, whose   *)
(* form adds, saves or deletes the location in its hidden field, and the   *)
(* rules and schedule that public/features/thresholds.js shows in the same *)
(* drawer for the location it keeps itself.  Every call to the Worker is   *)
(* answered later, in any order, or fails; what follows an answer runs on  *)
(* whatever the owner has done in the page meanwhile.                      *)
(*                                                                         *)
(* What rules, schedules, names and coordinates hold is left out, and with *)
(* it the address search, which only fills in the form's fields.           *)
(***************************************************************************)
EXTENDS FiniteSets, Naturals

CONSTANTS
  Sites,        \* locations
  StoredFirst,  \* those there are when the page is opened
  NoSite,       \* none
  MaxCalls      \* bound: calls to the Worker under way at a time

ASSUME ConsoleAssumption ==
  /\ StoredFirst \subseteq Sites /\ NoSite \notin Sites /\ MaxCalls \in Nat

VARIABLES
  kept,  \* the Worker's locations
  page,  \* the page: its list, the drawer and the row being edited
  calls  \* calls under way; equal ones count as one

consoleVars == <<kept, page, calls>>

\* "form" is the hidden field, "drawer" the drawerLocationId of thresholds.js.
Page == [list : SUBSET Sites, open : BOOLEAN, form : Sites \cup {NoSite},
         drawer : Sites \cup {NoSite}, inline : Sites \cup {NoSite}]

\* "after" is what follows the answer to a list; "sites" is what its answer holds.
Kind == {"list", "rules", "add", "save", "inline", "delete", "rule", "schedule", "bulk"}
Call == [kind : Kind, site : Sites \cup {NoSite}, after : {"nothing", "rules", "drawer"},
         answer : {"none", "ok", "failed"}, sites : SUBSET Sites]

Request(kind, site) == [kind |-> kind, site |-> site, after |-> "nothing",
                        answer |-> "none", sites |-> {}]

\* refreshLocationConfiguration: the list, then rules and channel settings.
Refresh == [Request("list", NoSite) EXCEPT !.after = "rules"]

Send(new) ==
  /\ Cardinality(calls \cup new) <= MaxCalls
  /\ calls' = calls \cup new
  /\ UNCHANGED kept

---------------------------------------------------------------------------
(* What the page shows. *)

\* Bug: the drawer is rendered for the location that was saved, whichever it shows.
BadRendered(s, shown) == IF s \in shown.list THEN [shown EXCEPT !.drawer = s] ELSE shown

\* Rules and schedule of s are rendered if the drawer shows s and the list has it.
Rendered(s, shown) ==
  IF s = shown.drawer /\ s \in shown.list THEN [shown EXCEPT !.drawer = s] ELSE shown

Closed(shown) == [shown EXCEPT !.open = FALSE, !.form = NoSite, !.drawer = NoSite]

Listed(sites) ==
  [page EXCEPT !.list = sites, !.inline = IF sites = {} THEN NoSite ELSE @]

---------------------------------------------------------------------------
(* The owner. *)

OpenEditor(s) ==
  /\ s \in page.list
  /\ page' = [page EXCEPT !.open = TRUE, !.form = s, !.drawer = s]
  /\ UNCHANGED <<kept, calls>>

OpenAdd ==
  /\ page' = [page EXCEPT !.open = TRUE, !.form = NoSite, !.drawer = NoSite]
  /\ UNCHANGED <<kept, calls>>

CloseDrawer ==
  /\ page.open
  /\ page' = Closed(page)
  /\ Send({Refresh})

\* The row's pencil, Escape and the row's cross.
EditInline(s) ==
  /\ page.inline # s /\ s \in page.list \cup {NoSite}
  /\ page' = [page EXCEPT !.inline = s]
  /\ UNCHANGED <<kept, calls>>

SubmitForm ==
  /\ page.open
  /\ Send({Request(IF page.form = NoSite THEN "add" ELSE "save", page.form)})
  /\ UNCHANGED page

SaveInline ==
  /\ page.inline # NoSite
  /\ Send({Request("inline", page.inline)})
  /\ UNCHANGED page

\* From its row, or from the drawer, once confirmed.
DeleteSite(s) ==
  /\ s \in page.list
  /\ Send({Request("delete", s)})
  /\ UNCHANGED page

SaveRule ==
  /\ page.drawer # NoSite
  /\ Send({Request("rule", page.drawer)})
  /\ UNCHANGED page

SaveSchedule ==
  /\ page.drawer # NoSite
  /\ Send({Request("schedule", page.drawer)})
  /\ UNCHANGED page

\* Rules copied from the first location to all, or all reset.
ChangeAllRules ==
  /\ page.list # {}
  /\ Send({Request("bulk", NoSite)})
  /\ UNCHANGED page

OpenLocationsTab ==
  /\ Send({Refresh})
  /\ UNCHANGED page

---------------------------------------------------------------------------
(* The Worker answers; the answer reaches the page later. *)

Answered(c, answer, sites) ==
  calls' = (calls \ {c}) \cup {[c EXCEPT !.answer = answer, !.sites = sites]}

Serves(c) ==
  /\ c.answer = "none"
  /\ \/ Answered(c, "failed", {}) /\ UNCHANGED kept
     \/ c.kind = "list" /\ Answered(c, "ok", kept) /\ UNCHANGED kept
     \/ c.kind \in {"rules", "bulk"} /\ Answered(c, "ok", {}) /\ UNCHANGED kept
     \/ /\ c.kind \in {"save", "inline", "schedule", "rule"} /\ c.site \in kept
        /\ Answered(c, "ok", {}) /\ UNCHANGED kept
     \/ /\ c.kind = "add" /\ Answered(c, "ok", {})
        /\ \E s \in Sites \ kept : kept' = kept \cup {s}
     \/ c.kind = "delete" /\ Answered(c, "ok", {}) /\ kept' = kept \ {c.site}
  /\ UNCHANGED page

\* What follows an answer: the page changes, calls are made.
Then(c, shown, new) ==
  /\ page' = shown
  /\ calls' = (calls \ {c}) \cup new
  /\ UNCHANGED kept

\* A list that failed leaves the old one; what comes after goes on.
ListArrives(c) ==
  LET shown == IF c.answer = "ok" THEN Listed(c.sites) ELSE page IN
  /\ c.kind = "list" /\ c.answer # "none"
  /\ \/ c.after = "nothing" /\ Then(c, shown, {})
     \/ c.after = "rules" /\ Then(c, shown, {Request("rules", NoSite)})
     \/ c.after = "drawer" /\ Then(c, Rendered(c.site, shown), {})

\* Rules and channel settings, or the failure to load them: all is rendered anew.
RulesArrive(c) ==
  /\ c.kind = "rules" /\ c.answer # "none"
  /\ Then(c, Rendered(page.drawer, page), {})

\* The drawer closes, whatever it shows by now.
SaveArrives(c) ==
  /\ c.kind \in {"add", "save"} /\ c.answer # "none"
  /\ \/ c.answer = "ok" /\ Then(c, Closed(page), {Refresh, Request("list", NoSite)})
     \/ c.answer = "failed" /\ Then(c, page, {})

InlineArrives(c) ==
  /\ c.kind = "inline" /\ c.answer # "none"
  /\ \/ /\ c.answer = "ok"
        /\ Then(c, [page EXCEPT !.inline = NoSite], {Request("list", NoSite)})
     \/ c.answer = "failed" /\ Then(c, page, {})

DeleteArrives(c) ==
  /\ c.kind = "delete" /\ c.answer # "none"
  /\ \/ c.answer = "ok" /\ (page.form = c.site \/ page.open) /\ Then(c, Closed(page), {Refresh})
     \/ c.answer = "ok" /\ page.form # c.site /\ ~page.open /\ Then(c, page, {Refresh})
     \/ c.answer = "failed" /\ Then(c, page, {})

\* The page's own copy of the rule is changed; only after a failure are they
\* asked for again.
RuleArrives(c) ==
  /\ c.kind = "rule" /\ c.answer # "none"
  /\ \/ c.answer = "ok" /\ Then(c, Rendered(c.site, page), {})
     \/ c.answer = "failed" /\ Then(c, page, {Request("rules", NoSite)})

ScheduleArrives(c) ==
  /\ c.kind = "schedule" /\ c.answer # "none"
  /\ \/ c.answer = "ok" /\ Then(c, page, {[Request("list", c.site) EXCEPT !.after = "drawer"]})
     \/ c.answer = "failed" /\ Then(c, page, {Request("list", NoSite)})
     \/ c.answer = "failed" /\ Then(c, page, {})

AllRulesChanged(c) ==
  /\ c.kind = "bulk" /\ c.answer # "none"
  /\ Then(c, page, IF c.answer = "ok" THEN {Request("rules", NoSite)} ELSE {})

---------------------------------------------------------------------------

ConsoleInit ==
  /\ kept = StoredFirst
  /\ page = [list |-> {}, open |-> FALSE, form |-> NoSite, drawer |-> NoSite, inline |-> NoSite]
  /\ calls = {Request("list", NoSite)}

ConsoleNext ==
  \/ \E s \in Sites : OpenEditor(s) \/ DeleteSite(s)
  \/ \E s \in Sites \cup {NoSite} : EditInline(s)
  \/ OpenAdd \/ CloseDrawer \/ SubmitForm \/ SaveInline \/ SaveRule \/ SaveSchedule
  \/ ChangeAllRules \/ OpenLocationsTab
  \/ \E c \in calls : \/ Serves(c) \/ ListArrives(c) \/ RulesArrive(c) \/ SaveArrives(c)
                      \/ InlineArrives(c) \/ DeleteArrives(c) \/ RuleArrives(c)
                      \/ ScheduleArrives(c) \/ AllRulesChanged(c)

ConsoleSpec == ConsoleInit /\ [][ConsoleNext]_consoleVars

---------------------------------------------------------------------------

ConsoleTypeOK ==
  /\ kept \subseteq Sites
  /\ page \in Page
  /\ calls \subseteq Call

\* The drawer's two halves are about one location, whatever answer comes when:
\* the location whose rules and schedule it shows and changes is the one that its
\* form saves or deletes, none when it is closed or adds a location.
FormAndDrawerAgree ==
  /\ page.form = page.drawer
  /\ ~page.open => page.form = NoSite
=============================================================================
