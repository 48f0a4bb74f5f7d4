------------------------------ MODULE Alerts ------------------------------
(***************************************************************************)
(* What a report sends on a channel: the policy of enqueueNotifications    *)
(* (worker/services/report.js) over the rules of the locations             *)
(* (worker/notifications/rules.js, shared/time-format.js).                 *)
(*                                                                         *)
(* Qualities are the percentages that qualityToPercent makes of them.      *)
(* Results and rules are functions of the locations, in which a table has  *)
(* NoRule where there is no row.  The text of a message, and which of its  *)
(* events it highlights, are left out: a message is about a set of         *)
(* locations.                                                              *)
(***************************************************************************)
EXTENDS Integers

CONSTANTS
  Always,  \* the threshold NULL
  NoRule,  \* no row of location_notification_rules
  NoEvent, \* the forecast has no such event
  Unknown  \* it has, with no usable quality

ASSUME AlertsAssumption ==
  /\ Always \notin 0..100
  /\ NoEvent \notin 0..100 /\ Unknown \notin 0..100 /\ NoEvent # Unknown
  /\ NoRule \notin [enabled : BOOLEAN, threshold : 0..100 \cup {Always},
                    scope : {"either", "sunrise", "sunset", "both"}]

SunEvent == {"sunrise", "sunset"}
Quality == 0..100 \cup {NoEvent, Unknown}
Result == [error : BOOLEAN, sunrise : Quality, sunset : Quality]
Rule == [enabled : BOOLEAN, threshold : 0..100 \cup {Always},
         scope : SunEvent \cup {"either", "both"}]

Trigger == {"test", "self_test", "manual", "scheduled"}

ThresholdBypass == {"test", "self_test"}

\* validateRulePatch: a rule that is off has no threshold.
Validated(rule) ==
  IF rule.enabled THEN rule ELSE [rule EXCEPT !.threshold = Always]

Default(enabled) == [enabled |-> enabled, threshold |-> 50, scope |-> "either"]

\* qualityMeetsThreshold
Meets(quality, threshold) ==
  \/ threshold = Always
  \/ quality \in 0..100 /\ quality >= threshold

\* Some event the rule is about is in the forecast and meets its threshold.
Triggered(result, rule) ==
  \E e \in SunEvent : /\ rule.scope \in {e, "either"}
                      /\ result[e] # NoEvent
                      /\ Meets(result[e], rule.threshold)

\* evaluateLocationForThreshold.  With "both" and no threshold, events that are
\* missing qualify.
Qualifies(result, rule) ==
  /\ rule.enabled
  /\ ~result.error
  /\ IF rule.scope = "both" THEN \A e \in SunEvent : Meets(result[e], rule.threshold)
     ELSE Triggered(result, rule)

\* Broken: every location without a rule is treated as Always.
BadEffective(rules) ==
  [l \in DOMAIN rules |-> IF rules[l] = NoRule
                          THEN [Default(TRUE) EXCEPT !.threshold = Always] ELSE rules[l]]

\* A channel with no rules at all treats every location as Always.
Effective(rules) ==
  IF \A l \in DOMAIN rules : rules[l] = NoRule
  THEN [l \in DOMAIN rules |-> [Default(TRUE) EXCEPT !.threshold = Always]]
  ELSE rules

\* filterResultsForChannel
Filtered(results, rules) ==
  {l \in DOMAIN results : /\ Effective(rules)[l] # NoRule
                          /\ Qualifies(results[l], Effective(rules)[l])}

\* What enqueueNotifications plans for one channel that it sends on.  "reported"
\* says that a scheduled report is due on it at this hour.
Planned(trigger, reported, results, rules) ==
  LET chosen == Filtered(results, rules)
      whole  == [status |-> "pending", purpose |-> "scheduled_report",
                 about |-> DOMAIN results]
      alert  == [status |-> "pending", about |-> chosen,
                 purpose |-> IF trigger = "manual" THEN "test" ELSE "quality_alert"]
  IN  IF trigger \in ThresholdBypass THEN [whole EXCEPT !.purpose = trigger]
      ELSE IF trigger = "scheduled" /\ reported THEN whole
      ELSE IF chosen = {} /\ DOMAIN results # {} THEN [alert EXCEPT !.status = "skipped"]
      ELSE alert
=============================================================================
