------------------------------ MODULE SelfTest ------------------------------
(***************************************************************************)
(* The weekly self-test (worker/services/selftest.js), which every cron    *)
(* runs before its report (worker/services/scheduler.js): when it is due   *)
(* by the settings the cron claims the day's occurrence, then checks the   *)
(* configuration or, in active mode, enqueues a delivery for each ready    *)
(* channel and dispatches, and records its verdict.  Crons may overlap,    *)
(* and come late; the owner changes settings between any two steps.        *)
(***************************************************************************)
EXTENDS Naturals, FiniteSets

CONSTANTS
  Crons,     \* invocations by the cron trigger
  TimeZones,
  DateAt,    \* the local date of each instant, by time zone
  HourAt,    \* the local hour of each instant, by time zone
  WeekdayOf, \* the day of the week of each date
  TestHours, \* hours that the owner may set for the test
  Channels,  \* channels that may be ready for an active test
  LastTick   \* bound: the last instant

ASSUME SelfTestAssumption ==
  /\ LastTick \in Nat
  /\ HourAt \in [TimeZones -> [0..LastTick -> 0..23]]
  /\ TestHours \subseteq 0..23

VARIABLES
  tick,      \* the instant: one an hour, when the crons start
  setup,     \* the owner's settings for the test
  occurred,  \* the occurrence keys that were claimed
  cronTest,  \* each cron's self-test
  mail,      \* deliveries that wait to be dispatched, by the cron that enqueued them
  verdicts   \* health_check_runs: the cron that tested, for which occurrence, and what it found

selfTestVars == <<tick, setup, occurred, cronTest, mail, verdicts>>

DatesOf == UNION {{DateAt[z][i] : i \in 0..LastTick} : z \in TimeZones}

Setup == [enabled : BOOLEAN, active : BOOLEAN, hour : TestHours, zone : TimeZones,
          weekday : {WeekdayOf[d] : d \in DatesOf}]

\* The zone and the date; an hour that clocks repeat has the same date.
Key(z, instant) == <<z, DateAt[z][instant]>>

\* Bug: the key holds the hour too, as that of a report does.
BadOccurrence(z, instant) == <<z, DateAt[z][instant], HourAt[z][instant]>>

Occurrence(z, instant) == Key(z, instant)

CronTest == [pc : {"idle", "read", "claim", "test", "dispatch", "record", "done"}, at : 0..LastTick,
             zone : TimeZones, active : BOOLEAN, failed : BOOLEAN]

Leave(c) == cronTest' = [cronTest EXCEPT ![c].pc = "done"]

---------------------------------------------------------------------------

NextHour ==
  /\ tick < LastTick /\ tick' = tick + 1
  /\ UNCHANGED <<setup, occurred, cronTest, mail, verdicts>>

ChangeSettings ==
  /\ setup' \in Setup
  /\ UNCHANGED <<tick, occurred, cronTest, mail, verdicts>>

\* Mail of reports, which crons and requests enqueue at any time.
OtherMail ==
  /\ ~\E m \in mail : m.cron = "other"
  /\ mail' = mail \cup {[cron |-> "other", channel |-> channel] : channel \in Channels}
  /\ UNCHANGED <<tick, setup, occurred, cronTest, verdicts>>

Start(c) ==
  /\ cronTest[c].pc = "idle"
  /\ cronTest' = [cronTest EXCEPT ![c].pc = "read", ![c].at = tick]
  /\ UNCHANGED <<tick, setup, occurred, mail, verdicts>>

\* A cron that comes after the tenth minute finds no test due, and so does one
\* that cannot read the settings.
Due(instant) ==
  /\ setup.enabled
  /\ WeekdayOf[DateAt[setup.zone][instant]] = setup.weekday
  /\ HourAt[setup.zone][instant] = setup.hour

ReadSettings(c) ==
  /\ cronTest[c].pc = "read"
  /\ \/ /\ Due(cronTest[c].at)
        /\ cronTest' = [cronTest EXCEPT ![c].pc = "claim", ![c].zone = setup.zone, ![c].active = setup.active]
     \/ Leave(c)
  /\ UNCHANGED <<tick, setup, occurred, mail, verdicts>>

\* An INSERT into scheduled_occurrences; any error counts as already claimed.
Claim(c) ==
  LET key == Occurrence(cronTest[c].zone, cronTest[c].at) IN
  /\ cronTest[c].pc = "claim"
  /\ \/ /\ key \notin occurred /\ occurred' = occurred \cup {key}
        /\ cronTest' = [cronTest EXCEPT ![c].pc = "test"]
     \/ UNCHANGED occurred /\ Leave(c)
  /\ UNCHANGED <<tick, setup, mail, verdicts>>

\* Passive: a table may be missing or a subscription malformed.
CheckPassively(c) ==
  /\ cronTest[c].pc = "test" /\ ~cronTest[c].active
  /\ \E failed \in BOOLEAN : cronTest' = [cronTest EXCEPT ![c].pc = "record", ![c].failed = failed]
  /\ UNCHANGED <<tick, setup, occurred, mail, verdicts>>

\* Active: a delivery for each channel that is enabled and ready.
EnqueueTest(c) ==
  /\ cronTest[c].pc = "test" /\ cronTest[c].active
  /\ \E ready \in SUBSET Channels :
       mail' = mail \cup {[cron |-> c, channel |-> channel] : channel \in ready}
  /\ cronTest' = [cronTest EXCEPT ![c].pc = "dispatch"]
  /\ UNCHANGED <<tick, setup, occurred, verdicts>>

\* Whatever waits is dispatched, and any terminal failure among it fails the
\* test; what may be retried stays.  Another dispatcher may have it under lease.
DispatchTest(c) ==
  /\ cronTest[c].pc = "dispatch"
  /\ \E taken \in SUBSET mail : \E failed \in BOOLEAN :
       /\ failed => taken # {}
       /\ mail' = mail \ taken
       /\ cronTest' = [cronTest EXCEPT ![c].pc = "record", ![c].failed = failed]
  /\ UNCHANGED <<tick, setup, occurred, verdicts>>

Record(c) ==
  /\ cronTest[c].pc = "record"
  /\ verdicts' = verdicts \cup {[cron |-> c, key |-> Key(cronTest[c].zone, cronTest[c].at),
                                 failed |-> cronTest[c].failed]}
  /\ Leave(c)
  /\ UNCHANGED <<tick, setup, occurred, mail>>

\* The invocation dies, or D1 fails: the day's test is lost.
CronDies(c) ==
  /\ cronTest[c].pc \in {"read", "claim", "test", "dispatch", "record"}
  /\ Leave(c)
  /\ UNCHANGED <<tick, setup, occurred, mail, verdicts>>

---------------------------------------------------------------------------

SelfTestInit ==
  /\ tick = 0
  /\ setup \in Setup
  /\ occurred = {} /\ mail = {} /\ verdicts = {}
  /\ \E z \in TimeZones :
       cronTest = [c \in Crons |-> [pc |-> "idle", at |-> 0, zone |-> z, active |-> FALSE, failed |-> FALSE]]

SelfTestNext ==
  \/ NextHour \/ ChangeSettings \/ OtherMail
  \/ \E c \in Crons : \/ Start(c) \/ ReadSettings(c) \/ Claim(c) \/ CheckPassively(c)
                      \/ EnqueueTest(c) \/ DispatchTest(c) \/ Record(c) \/ CronDies(c)

SelfTestSpec == SelfTestInit /\ [][SelfTestNext]_selfTestVars

---------------------------------------------------------------------------

SelfTestTypeOK ==
  /\ tick \in 0..LastTick
  /\ setup \in Setup
  /\ cronTest \in [Crons -> CronTest]
  /\ mail \subseteq [cron : Crons \cup {"other"}, channel : Channels]
  /\ verdicts \subseteq [cron : Crons, key : TimeZones \X DatesOf, failed : BOOLEAN]

\* No local day is tested twice, though crons overlap, clocks go back over the
\* hour of the test, or the owner sets it to a later hour after it ran.
OneTestADay ==
  \A v, w \in verdicts : v.key = w.key => v.cron = w.cron
=============================================================================
