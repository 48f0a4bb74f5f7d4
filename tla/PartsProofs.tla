--------------------------- MODULE PartsProofs ----------------------------
(* Theorems about four parts that share no state, the limiters, the weekly *)
(* self-test, the settings page and the console, each for any values of    *)
(* the constants that its assumption allows; and about the eight parts     *)
(* that MCParts composes.                                                  *)
EXTENDS MCParts, SetupProofs, RetentionProofs, DevicesProofs, TLAPS, FiniteSetTheorems

---------------------------------------------------------------------------
(* The limiters: the inductive invariant.                                  *)

\* A request that has begun took its time from a clock that starts at 1.
Begun == \A r \in Requests : request[r].pc # "idle" => 1 <= request[r].now

\* A winner is past its claim, and the row is not older than any winner: this
\* is what the claim of a later request is compared with.
WinnersRecorded ==
  \A r \in Requests : request[r].won =>
    /\ request[r].pc \in {"serve", "done"}
    /\ request[r].now <= lastRequestedAt[LimiterOf[r]]

LimitersInv == LimitersTypeOK /\ 1 <= clock /\ Begun /\ WinnersRecorded /\ Spaced

---------------------------------------------------------------------------

\* A request that wins later than all winners of its limiter, by the interval,
\* keeps winners apart.
LEMMA WinKeeps ==
  ASSUME LimitersAssumption, LimitersInv, NEW r \in Requests,
         request[r].pc \in {"update", "insert"},
         lastRequestedAt[LimiterOf[r]] = 0
           \/ lastRequestedAt[LimiterOf[r]] <= request[r].now - Interval[LimiterOf[r]],
         lastRequestedAt' = [lastRequestedAt EXCEPT ![LimiterOf[r]] = request[r].now],
         request' = [request EXCEPT ![r].pc = "serve", ![r].won = TRUE],
         clock' = clock, ready' = ready
  PROVE  LimitersInv'
<1> DEFINE l == LimiterOf[r]
<1>1. l \in Limiter /\ Interval[l] \in Nat \ {0}
  BY DEF LimitersAssumption
<1>2. /\ request \in [Requests -> LimitedRequest] /\ request[r].now \in Nat /\ 1 <= request[r].now
      /\ lastRequestedAt \in [Limiter -> 0..MaxNow] /\ request[r].now \in 0..MaxNow /\ MaxNow \in Nat
  BY DEF LimitersInv, LimitersTypeOK, Begun, LimitedRequest, LimitersAssumption
<1>3. LimitersTypeOK'
  <2>1. lastRequestedAt' \in [Limiter -> 0..MaxNow]
    BY <1>2
  <2>2. request' \in [Requests -> LimitedRequest]
    <3> DEFINE q == [request[r] EXCEPT !.pc = "serve", !.won = TRUE]
    <3>1. request' = [request EXCEPT ![r] = q]
      BY <1>2
    <3>2. q \in LimitedRequest
      BY <1>2 DEF LimitedRequest
    <3> HIDE DEF q
    <3> QED BY <1>2, <3>1, <3>2
  <2> QED BY <2>1, <2>2 DEF LimitersInv, LimitersTypeOK
<1>4. \A s \in Requests \ {r} : request'[s] = request[s]
  BY <1>2
<1>5. request'[r].now = request[r].now /\ request'[r].won /\ request'[r].pc = "serve"
  BY <1>2 DEF LimitedRequest
<1>6. \A m \in Limiter : lastRequestedAt'[m] = IF m = l THEN request[r].now ELSE lastRequestedAt[m]
  BY <1>2, <1>1
<1>7. ASSUME NEW s \in Requests \ {r}, request[s].won, LimiterOf[s] = l
      PROVE  request[r].now - request[s].now >= Interval[l]
  <2>1. request[s].now <= lastRequestedAt[l] /\ 1 <= request[s].now /\ request[s].now \in Nat
    BY <1>7, <1>2 DEF LimitersInv, WinnersRecorded, Begun, LimitedRequest
  <2>2. lastRequestedAt[l] \in Nat
    BY <1>1, <1>2
  <2> QED BY <2>1, <2>2, <1>1, <1>2
<1>8. Begun'
  BY <1>2, <1>4, <1>5 DEF LimitersInv, Begun
<1>9. WinnersRecorded'
  <2> SUFFICES ASSUME NEW s \in Requests, request'[s].won
               PROVE  /\ request'[s].pc \in {"serve", "done"}
                      /\ request'[s].now <= lastRequestedAt'[LimiterOf[s]]
    BY DEF WinnersRecorded
  <2>1. CASE s = r
    BY <2>1, <1>1, <1>2, <1>5, <1>6
  <2>2. CASE s # r
    <3>1. /\ request[s].pc \in {"serve", "done"}
          /\ request[s].now <= lastRequestedAt[LimiterOf[s]]
      BY <2>2, <1>4 DEF LimitersInv, WinnersRecorded
    <3>2. LimiterOf[s] \in Limiter /\ request[s].now \in Nat
      BY <1>2 DEF LimitersAssumption, LimitedRequest
    <3>3. CASE LimiterOf[s] = l
      BY <3>1, <3>2, <3>3, <1>1, <1>2, <1>4, <1>6, <1>7, <2>2
    <3>4. CASE LimiterOf[s] # l
      BY <3>1, <3>2, <3>4, <1>4, <1>6, <2>2
    <3> QED BY <3>3, <3>4
  <2> QED BY <2>1, <2>2
<1>10. Spaced'
  <2> SUFFICES ASSUME NEW s \in Requests, NEW t \in Requests, s # t, LimiterOf[s] = LimiterOf[t],
                      request'[s].won, request'[t].won
               PROVE  \/ request'[s].now - request'[t].now >= Interval[LimiterOf[s]]
                      \/ request'[t].now - request'[s].now >= Interval[LimiterOf[s]]
    BY DEF Spaced
  <2>1. CASE s = r
    BY <2>1, <1>4, <1>5, <1>7
  <2>2. CASE t = r
    BY <2>2, <1>4, <1>5, <1>7
  <2>3. CASE s # r /\ t # r
    BY <2>3, <1>4 DEF LimitersInv, Spaced
  <2> QED BY <2>1, <2>2, <2>3
<1> QED BY <1>3, <1>8, <1>9, <1>10 DEF LimitersInv

\* A step that makes no winner and writes no row: requests keep their times, or
\* take the clock's when they begin.
LEMMA QuietKeeps ==
  ASSUME LimitersAssumption, LimitersInv, LimitersTypeOK',
         lastRequestedAt' = lastRequestedAt, clock <= clock',
         \A s \in Requests : request'[s].won = request[s].won
           /\ \/ request'[s] = request[s]
              \/ request[s].pc = "idle" /\ request'[s].now = clock
              \/ /\ request'[s].now = request[s].now /\ request[s].pc # "idle"
                 /\ request'[s].pc \in {"update", "insert"} => request[s].pc \in {"check", "update"}
                 /\ request'[s].pc \in {"update", "insert", "done"}
  PROVE  LimitersInv'
<1>1. clock \in Nat /\ clock' \in Nat /\ 1 <= clock'
  BY DEF LimitersInv, LimitersTypeOK, LimitersAssumption
<1>2. Begun'
  BY <1>1 DEF LimitersInv, Begun
<1>3. \A s \in Requests : request[s].won => request'[s].won /\ request'[s].now = request[s].now
  BY DEF LimitersInv, WinnersRecorded
<1>4. WinnersRecorded'
  BY <1>3 DEF LimitersInv, WinnersRecorded
<1>5. Spaced'
  BY <1>3 DEF LimitersInv, Spaced
<1> QED BY <1>1, <1>2, <1>4, <1>5 DEF LimitersInv

LEMMA LimitersInitInv == ASSUME LimitersAssumption, LimitersInit PROVE LimitersInv
  BY DEF LimitersAssumption, LimitersInit, LimitersInv, LimitersTypeOK, Begun, WinnersRecorded, Spaced,
         LimitedRequest

LEMMA LimitersNextInv == ASSUME LimitersAssumption, LimitersInv, [LimitersNext]_limiterVars PROVE LimitersInv'
<1> USE LimitersAssumption, LimitersInv
<1>0. /\ clock \in 0..MaxNow /\ MaxNow \in Nat
      /\ lastRequestedAt \in [Limiter -> 0..MaxNow] /\ ready \in [Tested -> BOOLEAN]
      /\ request \in [Requests -> LimitedRequest]
  BY DEF LimitersInv, LimitersTypeOK, LimitersAssumption
<1>1. CASE UNCHANGED limiterVars
  BY <1>1 DEF limiterVars, LimitersInv, LimitersTypeOK, Begun, WinnersRecorded, Spaced
<1>2. CASE Tick
  <2>1. LimitersTypeOK' /\ clock <= clock' /\ request' = request
    BY <1>0, <1>2 DEF Tick, LimitersTypeOK
  <2> QED BY <2>1, <1>2, QuietKeeps DEF Tick
<1>3. ASSUME NEW channel \in {ChannelOf[r] : r \in Requests}, SwitchChannel(channel) PROVE LimitersInv'
  <2>1. LimitersTypeOK' /\ request' = request
    BY <1>0, <1>3 DEF SwitchChannel, LimitersTypeOK, LimitersAssumption
  <2> QED BY <2>1, <1>0, <1>3, QuietKeeps DEF SwitchChannel
<1>4. ASSUME NEW r \in Requests, Begin(r) PROVE LimitersInv'
  <2>1. LimitersTypeOK'
    BY <1>0, <1>4 DEF Begin, LimitersTypeOK, LimitedRequest
  <2>2. \A s \in Requests : /\ request'[s].won = request[s].won
                            /\ request'[s] = request[s] \/ (request[s].pc = "idle" /\ request'[s].now = clock)
    BY <1>0, <1>4 DEF Begin, LimitedRequest
  <2> QED BY <2>1, <2>2, <1>0, <1>4, QuietKeeps DEF Begin
<1>5. ASSUME NEW r \in Requests, CheckChannel(r) PROVE LimitersInv'
  <2>1. LimitersTypeOK'
    BY <1>0, <1>5 DEF CheckChannel, Answer, LimitersTypeOK, LimitedRequest
  <2>2. \A s \in Requests \ {r} : request'[s] = request[s]
    BY <1>0, <1>5 DEF CheckChannel, Answer
  <2>3. /\ request'[r].won = request[r].won /\ request'[r].now = request[r].now
        /\ request[r].pc = "check" /\ request'[r].pc \in {"update", "done"}
    BY <1>0, <1>5 DEF CheckChannel, Answer, LimitedRequest
  <2> QED BY <2>1, <2>2, <2>3, <1>0, <1>5, QuietKeeps DEF CheckChannel
<1>6. ASSUME NEW r \in Requests, UpdateSlot(r) PROVE LimitersInv'
  <2>1. CASE /\ lastRequestedAt[LimiterOf[r]] # 0 /\ Elapsed(LimiterOf[r], request[r].now)
             /\ lastRequestedAt' = [lastRequestedAt EXCEPT ![LimiterOf[r]] = request[r].now]
             /\ request' = [request EXCEPT ![r].pc = "serve", ![r].won = TRUE]
    BY <1>6, <2>1, WinKeeps DEF UpdateSlot, Elapsed
  <2>2. CASE request' = [request EXCEPT ![r].pc = "insert"] /\ UNCHANGED lastRequestedAt
    <3>1. LimitersTypeOK'
      BY <1>0, <1>6, <2>2 DEF UpdateSlot, LimitersTypeOK, LimitedRequest
    <3>2. \A s \in Requests \ {r} : request'[s] = request[s]
      BY <1>0, <2>2
    <3>3. /\ request'[r].won = request[r].won /\ request'[r].now = request[r].now
          /\ request[r].pc = "update" /\ request'[r].pc = "insert"
      BY <1>0, <1>6, <2>2 DEF UpdateSlot, LimitedRequest
    <3> QED BY <3>1, <3>2, <3>3, <1>0, <1>6, <2>2, QuietKeeps DEF UpdateSlot
  <2> QED BY <1>6, <2>1, <2>2 DEF UpdateSlot
<1>7. ASSUME NEW r \in Requests, InsertSlot(r) PROVE LimitersInv'
  <2>1. CASE /\ lastRequestedAt[LimiterOf[r]] = 0
             /\ lastRequestedAt' = [lastRequestedAt EXCEPT ![LimiterOf[r]] = request[r].now]
             /\ request' = [request EXCEPT ![r].pc = "serve", ![r].won = TRUE]
    BY <1>7, <2>1, WinKeeps DEF InsertSlot
  <2>2. CASE Answer(r, "limited") /\ UNCHANGED lastRequestedAt
    <3>1. LimitersTypeOK'
      BY <1>0, <1>7, <2>2 DEF InsertSlot, Answer, LimitersTypeOK, LimitedRequest
    <3>2. \A s \in Requests \ {r} : request'[s] = request[s]
      BY <1>0, <2>2 DEF Answer
    <3>3. /\ request'[r].won = request[r].won /\ request'[r].now = request[r].now
          /\ request[r].pc = "insert" /\ request'[r].pc = "done"
      BY <1>0, <1>7, <2>2 DEF InsertSlot, Answer, LimitedRequest
    <3> QED BY <3>1, <3>2, <3>3, <1>0, <1>7, <2>2, QuietKeeps DEF InsertSlot
  <2> QED BY <1>7, <2>1, <2>2 DEF InsertSlot
<1>8. ASSUME NEW r \in Requests, Serve(r) \/ RequestDies(r) PROVE LimitersInv'
  <2>1. LimitersTypeOK'
    BY <1>0, <1>8 DEF Serve, RequestDies, Answer, LimitersTypeOK, LimitedRequest
  <2>2. \A s \in Requests \ {r} : request'[s] = request[s]
    BY <1>0, <1>8 DEF Serve, RequestDies, Answer
  <2>3. /\ request'[r].won = request[r].won /\ request'[r].now = request[r].now
        /\ request[r].pc # "idle" /\ request'[r].pc = "done"
    BY <1>0, <1>8 DEF Serve, RequestDies, Answer, LimitedRequest
  <2>4. lastRequestedAt' = lastRequestedAt /\ clock' = clock
    BY <1>8 DEF Serve, RequestDies
  <2> QED BY <2>1, <2>2, <2>3, <2>4, <1>0, QuietKeeps
<1> QED BY <1>1, <1>2, <1>3, <1>4, <1>5, <1>6, <1>7, <1>8 DEF LimitersNext

LEMMA LimitersInvHolds == ASSUME LimitersAssumption PROVE LimitersSpec => []LimitersInv
<1> USE LimitersAssumption
<1>1. LimitersInit => LimitersInv
  BY LimitersInitInv
<1>2. LimitersInv /\ [LimitersNext]_limiterVars => LimitersInv'
  BY LimitersNextInv
<1> QED BY <1>1, <1>2, PTL DEF LimitersSpec

---------------------------------------------------------------------------

\* Requests, rows and the clock keep their types.
THEOREM LimitersTypeCorrect == LimitersSpec => []LimitersTypeOK
<1>1. LimitersInv => LimitersTypeOK
  BY DEF LimitersInv
<1> QED BY <1>1, LimitersInvHolds, LimitersAssumption, PTL

\* Two requests that a limiter let through were begun its interval apart, however
\* many there are and in whatever order their statements reach the row.
THEOREM WinnersSpaced == LimitersSpec => []Spaced
<1>1. LimitersInv => Spaced
  BY DEF LimitersInv
<1> QED BY <1>1, LimitersInvHolds, LimitersAssumption, PTL

---------------------------------------------------------------------------
(* The self-test, for any crons, time zones and calendar.                  *)

LEMMA CronStepTypes ==
  ASSUME SelfTestTypeOK, NEW c \in Crons, NEW t \in CronTest,
         cronTest' = [cronTest EXCEPT ![c] = t]
  PROVE  /\ cronTest' \in [Crons -> CronTest] /\ cronTest'[c] = t
         /\ \A d \in Crons \ {c} : cronTest'[d] = cronTest[d]
BY DEF SelfTestTypeOK

\* What a step of cron c makes of its test.
LEMMA CronStep ==
  ASSUME SelfTestAssumption, SelfTestTypeOK, NEW c \in Crons,
         Start(c) \/ ReadSettings(c) \/ Claim(c) \/ CheckPassively(c)
           \/ EnqueueTest(c) \/ DispatchTest(c) \/ Record(c) \/ CronDies(c)
  PROVE  /\ cronTest' \in [Crons -> CronTest]
         /\ \A d \in Crons \ {c} : cronTest'[d] = cronTest[d]
         /\ \/ cronTest'[c].pc \in {"read", "claim", "done"}
            \/ /\ cronTest'[c].zone = cronTest[c].zone /\ cronTest'[c].at = cronTest[c].at
               /\ \/ Claim(c) /\ cronTest'[c].pc = "test"
                  \/ cronTest[c].pc \in {"test", "dispatch"}
<1>0. cronTest[c] \in CronTest /\ tick \in 0..LastTick /\ setup \in Setup
  BY DEF SelfTestTypeOK
<1>1. CASE Leave(c)
  <2>1. [cronTest[c] EXCEPT !.pc = "done"] \in CronTest
        /\ [cronTest[c] EXCEPT !.pc = "done"].pc = "done"
    BY <1>0 DEF CronTest
  <2>2. cronTest' = [cronTest EXCEPT ![c] = [cronTest[c] EXCEPT !.pc = "done"]]
    BY <1>1 DEF Leave
  <2>3. QED BY <2>1, <2>2, CronStepTypes
<1>2. CASE Start(c)
  <2> DEFINE t == [cronTest[c] EXCEPT !.pc = "read", !.at = tick]
  <2>1. t \in CronTest /\ t.pc = "read"
    BY <1>0 DEF CronTest
  <2>2. cronTest' = [cronTest EXCEPT ![c] = t]
    BY <1>2 DEF Start
  <2> HIDE DEF t
  <2>3. QED BY <2>1, <2>2, CronStepTypes
<1>3. CASE ReadSettings(c) /\ ~Leave(c)
  <2> DEFINE t == [cronTest[c] EXCEPT !.pc = "claim", !.zone = setup.zone, !.active = setup.active]
  <2>1. t \in CronTest /\ t.pc = "claim"
    BY <1>0 DEF CronTest, Setup
  <2>2. cronTest' = [cronTest EXCEPT ![c] = t]
    BY <1>3 DEF ReadSettings
  <2> HIDE DEF t
  <2>3. QED BY <2>1, <2>2, CronStepTypes
<1>4. CASE Claim(c) /\ ~Leave(c)
  <2> DEFINE t == [cronTest[c] EXCEPT !.pc = "test"]
  <2>1. t \in CronTest /\ t.pc = "test" /\ t.zone = cronTest[c].zone /\ t.at = cronTest[c].at
    BY <1>0 DEF CronTest
  <2>2. cronTest' = [cronTest EXCEPT ![c] = t]
    BY <1>4 DEF Claim
  <2> HIDE DEF t
  <2>3. QED BY <1>4, <2>1, <2>2, CronStepTypes
<1>5. CASE EnqueueTest(c)
  <2> DEFINE t == [cronTest[c] EXCEPT !.pc = "dispatch"]
  <2>1. t \in CronTest /\ t.zone = cronTest[c].zone /\ t.at = cronTest[c].at
    BY <1>0 DEF CronTest
  <2>2. cronTest' = [cronTest EXCEPT ![c] = t] /\ cronTest[c].pc = "test"
    BY <1>5 DEF EnqueueTest
  <2> HIDE DEF t
  <2>3. QED BY <2>1, <2>2, CronStepTypes
<1>6. CASE CheckPassively(c) \/ DispatchTest(c)
  <2>1. PICK failed \in BOOLEAN :
          cronTest' = [cronTest EXCEPT ![c].pc = "record", ![c].failed = failed]
    BY <1>6 DEF CheckPassively, DispatchTest
  <2> DEFINE t == [cronTest[c] EXCEPT !.pc = "record", !.failed = failed]
  <2>2. t \in CronTest /\ t.zone = cronTest[c].zone /\ t.at = cronTest[c].at
    BY <1>0 DEF CronTest
  <2>3. cronTest' = [cronTest EXCEPT ![c] = t] /\ cronTest[c].pc \in {"test", "dispatch"}
    BY <1>6, <2>1 DEF CheckPassively, DispatchTest
  <2> HIDE DEF t
  <2>4. QED BY <2>2, <2>3, CronStepTypes
<1>7. QED
  BY <1>1, <1>2, <1>3, <1>4, <1>5, <1>6 DEF Record, CronDies

LEMMA SelfTestTypeNext ==
  ASSUME SelfTestAssumption, SelfTestTypeOK, [SelfTestNext]_selfTestVars
  PROVE  SelfTestTypeOK'
<1>0. /\ tick \in 0..LastTick /\ LastTick \in Nat /\ setup \in Setup
      /\ cronTest \in [Crons -> CronTest]
      /\ mail \subseteq [cron : Crons \cup {"other"}, channel : Channels]
      /\ verdicts \subseteq [cron : Crons, key : TimeZones \X DatesOf, failed : BOOLEAN]
  BY DEF SelfTestTypeOK, SelfTestAssumption
<1>1. CASE NextHour
  BY <1>0, <1>1 DEF NextHour, SelfTestTypeOK
<1>2. CASE ChangeSettings
  BY <1>0, <1>2 DEF ChangeSettings, SelfTestTypeOK
<1>3. CASE OtherMail
  BY <1>0, <1>3 DEF OtherMail, SelfTestTypeOK
<1>4. ASSUME NEW c \in Crons,
             Start(c) \/ ReadSettings(c) \/ Claim(c) \/ CheckPassively(c)
               \/ EnqueueTest(c) \/ DispatchTest(c) \/ Record(c) \/ CronDies(c)
      PROVE  SelfTestTypeOK'
  <2>1. cronTest' \in [Crons -> CronTest]
    BY <1>4, CronStep
  <2>2. CASE Record(c)
    <3>1. cronTest[c].zone \in TimeZones /\ cronTest[c].at \in 0..LastTick
          /\ cronTest[c].failed \in BOOLEAN
      BY <1>0 DEF CronTest
    <3>2. Key(cronTest[c].zone, cronTest[c].at) \in TimeZones \X DatesOf
      BY <3>1 DEF Key, DatesOf
    <3>3. QED BY <1>0, <2>1, <2>2, <3>1, <3>2 DEF Record, SelfTestTypeOK
  <2>3. CASE EnqueueTest(c)
    BY <1>0, <2>1, <2>3 DEF EnqueueTest, SelfTestTypeOK
  <2>4. CASE ~Record(c) /\ ~EnqueueTest(c)
    <3>1. tick' = tick /\ setup' = setup /\ mail' \subseteq mail /\ verdicts' = verdicts
      BY <1>4, <2>4 DEF Start, ReadSettings, Claim, CheckPassively, DispatchTest, CronDies
    <3>2. QED BY <1>0, <2>1, <3>1 DEF SelfTestTypeOK
  <2>5. QED BY <2>2, <2>3, <2>4
<1>5. CASE UNCHANGED selfTestVars
  BY <1>5 DEF selfTestVars, SelfTestTypeOK
<1>6. QED BY <1>1, <1>2, <1>3, <1>4, <1>5 DEF SelfTestNext

\* Between its claim and its verdict a cron holds the occurrence it claimed.
Testing(c) == cronTest[c].pc \in {"test", "dispatch", "record"}
KeyOf(c) == Key(cronTest[c].zone, cronTest[c].at)

OccurrencesHeld ==
  /\ \A c \in Crons : Testing(c) => KeyOf(c) \in occurred
  /\ \A c, d \in Crons : Testing(c) /\ Testing(d) /\ KeyOf(c) = KeyOf(d) => c = d
  /\ \A v \in verdicts : /\ v.key \in occurred
                         /\ \A c \in Crons : Testing(c) => KeyOf(c) # v.key
  /\ OneTestADay

LEMMA HeldNext ==
  ASSUME SelfTestAssumption, SelfTestTypeOK, OccurrencesHeld, [SelfTestNext]_selfTestVars
  PROVE  OccurrencesHeld'
<1>1. ASSUME occurred' = occurred, verdicts' = verdicts,
             \A c \in Crons : Testing(c)' => Testing(c) /\ KeyOf(c)' = KeyOf(c)
      PROVE  OccurrencesHeld'
  BY <1>1 DEF OccurrencesHeld, OneTestADay
<1>2. ASSUME cronTest' = cronTest, occurred' = occurred, verdicts' = verdicts
      PROVE  OccurrencesHeld'
  BY <1>1, <1>2 DEF Testing, KeyOf
<1>3. ASSUME NEW c \in Crons,
             Start(c) \/ ReadSettings(c) \/ Claim(c) \/ CheckPassively(c)
               \/ EnqueueTest(c) \/ DispatchTest(c) \/ Record(c) \/ CronDies(c)
      PROVE  OccurrencesHeld'
  <2>1. \A d \in Crons \ {c} : Testing(d)' = Testing(d) /\ KeyOf(d)' = KeyOf(d)
    BY <1>3, CronStep DEF Testing, KeyOf
  <2>2. CASE ~Testing(c)' /\ verdicts' = verdicts
    <3>1. occurred \subseteq occurred'
      BY <1>3 DEF Start, ReadSettings, Claim, CheckPassively, EnqueueTest, DispatchTest,
                  Record, CronDies
    <3>2. QED BY <2>1, <2>2, <3>1 DEF OccurrencesHeld, OneTestADay
  <2>3. CASE Testing(c)' /\ Claim(c) /\ cronTest'[c].pc = "test"
    <3>1. ~Leave(c)
      BY <2>3 DEF Leave, SelfTestTypeOK, CronTest
    <3>2. /\ KeyOf(c) \notin occurred /\ occurred' = occurred \cup {KeyOf(c)}
          /\ verdicts' = verdicts
      BY <2>3, <3>1 DEF Claim, Occurrence, KeyOf
    <3>3. KeyOf(c)' = KeyOf(c)
      BY <1>3, <2>3, CronStep DEF KeyOf
    <3>4. \A d \in Crons \ {c} : Testing(d)' => KeyOf(d)' # KeyOf(c)
      BY <2>1, <3>2 DEF OccurrencesHeld
    <3>5. QED BY <2>1, <3>2, <3>3, <3>4 DEF OccurrencesHeld, OneTestADay
  <2>4. CASE Testing(c)' /\ cronTest[c].pc \in {"test", "dispatch"}
    <3>1. KeyOf(c)' = KeyOf(c) /\ Testing(c)
      BY <1>3, <2>4, CronStep DEF Testing, KeyOf
    <3>2. occurred' = occurred /\ verdicts' = verdicts
      BY <1>3, <2>4 DEF Start, ReadSettings, Claim, CheckPassively, EnqueueTest, DispatchTest,
                        Record, CronDies
    <3>3. QED BY <1>1, <2>1, <3>1, <3>2
  <2>5. CASE Record(c)
    <3>1. Testing(c) /\ ~Testing(c)' /\ occurred' = occurred
      BY <2>5 DEF Record, Leave, Testing, SelfTestTypeOK
    <3>2. verdicts' = verdicts \cup {[cron |-> c, key |-> KeyOf(c), failed |-> cronTest[c].failed]}
      BY <2>5 DEF Record, KeyOf
    <3>3. \A d \in Crons \ {c} : Testing(d) => KeyOf(d) # KeyOf(c)
      BY <3>1 DEF OccurrencesHeld
    <3>4. QED BY <2>1, <3>1, <3>2, <3>3 DEF OccurrencesHeld, OneTestADay
  <2>6. verdicts' = verdicts \/ Record(c)
    BY <1>3 DEF Start, ReadSettings, Claim, CheckPassively, EnqueueTest, DispatchTest, CronDies
  <2>7. QED BY <1>3, <2>2, <2>3, <2>4, <2>5, <2>6, CronStep DEF Testing
<1>4. QED
  BY <1>2, <1>3 DEF SelfTestNext, NextHour, ChangeSettings, OtherMail, selfTestVars

\* Settings, crons, deliveries and verdicts keep their types.
THEOREM SelfTestTypeCorrect == SelfTestSpec => []SelfTestTypeOK
<1>1. SelfTestInit => SelfTestTypeOK
  BY SelfTestAssumption DEF SelfTestInit, SelfTestTypeOK, CronTest, SelfTestAssumption
<1>2. SelfTestTypeOK /\ [SelfTestNext]_selfTestVars => SelfTestTypeOK'
  BY SelfTestTypeNext, SelfTestAssumption
<1>3. QED BY <1>1, <1>2, PTL DEF SelfTestSpec

\* No local day is tested twice, however many crons overlap, whatever the clocks
\* of the time zones do and whenever the owner changes the settings.
THEOREM OneTestEachDay == SelfTestSpec => []OneTestADay
<1>1. SelfTestInit => OccurrencesHeld
  BY DEF SelfTestInit, OccurrencesHeld, OneTestADay, Testing
<1>2. SelfTestTypeOK /\ OccurrencesHeld /\ [SelfTestNext]_selfTestVars => OccurrencesHeld'
  BY HeldNext, SelfTestAssumption
<1>3. OccurrencesHeld => OneTestADay
  BY DEF OccurrencesHeld
<1>4. QED BY <1>1, <1>2, <1>3, SelfTestTypeCorrect, PTL DEF SelfTestSpec

---------------------------------------------------------------------------
(* The settings page, for any hours, presets, channels and pages.          *)

LEMMA DefaultsType ==
  ASSUME SettingsAssumption
  PROVE  /\ Defaults \in Schedule /\ NoPut \in Put /\ NoPut.pc = "none" /\ NoPut.body = Defaults
         /\ Valid(Defaults)
<1>1. /\ Defaults \in Schedule /\ Defaults.times = DefaultSlots /\ Defaults.reports = {}
      /\ ~Defaults.enabled
  BY DEF SettingsAssumption, Defaults, Schedule
<1>2. NoPut \in Put /\ NoPut.pc = "none" /\ NoPut.body = Defaults
  BY <1>1 DEF NoPut, Put
<1>3. Valid(Defaults)
  BY <1>1 DEF SettingsAssumption, Valid
<1>4. QED BY <1>1, <1>2, <1>3

LEMMA ReconciledType ==
  ASSUME NEW body \in Schedule
  PROVE  /\ Reconciled(body) \in Schedule
         /\ Reconciled(body).times = body.times /\ Reconciled(body).over = body.over
         /\ Reconciled(body).enabled = body.enabled
         /\ Reconciled(body).reports = body.reports \cap body.times
BY DEF Reconciled, Schedule

LEMMA InheritedType ==
  ASSUME NEW sent \in Schedule, NEW existing \in Schedule
  PROVE  Inherited(sent, existing) \in Schedule
<1>1. (existing.enabled /\ existing.reports \cap sent.times # {}) \in BOOLEAN
  OBVIOUS
<1>2. existing.reports \cap sent.times \in SUBSET Slots /\ sent.times \in SUBSET Slots
      /\ existing.over \in SUBSET ReportChannels
  BY DEF Schedule
<1>3. QED BY <1>1, <1>2 DEF Inherited, Schedule

\* A schedule with times that the page or the Worker could have.
Timely(body) == IsFiniteSet(body.times) /\ Cardinality(body.times) <= MaxSlots

\* The row is always one that the Worker accepted; pages keep to the cap on times;
\* and what a page sends passed its check, of which one that knows no reports
\* relies on the row.
Sound(p) ==
  /\ Timely(form[p])
  /\ put[p].pc # "none" =>
       /\ Timely(put[p].body)
       /\ put[p].body.reports \subseteq put[p].body.times
       /\ put[p].body.enabled => put[p].body.reports # {} /\ put[p].body.over # {}
  /\ put[p].pc = "write" /\ p \in OldPages => Valid(put[p].existing)

SettingsInv == /\ Valid(stored) /\ Timely(stored)
               /\ \A p \in Pages : Sound(p)

\* A step of page p that gives it what it holds and what it sends.
LEMMA PageStep ==
  ASSUME SettingsTypeOK, SettingsInv, NEW p \in Pages,
         stored' \in Schedule, Valid(stored'), Timely(stored'),
         NEW f \in Schedule, form' = [form EXCEPT ![p] = f],
         NEW q \in Put, put' = [put EXCEPT ![p] = q],
         Timely(f),
         q.pc # "none" => /\ Timely(q.body) /\ q.body.reports \subseteq q.body.times
                          /\ q.body.enabled => q.body.reports # {} /\ q.body.over # {},
         q.pc = "write" /\ p \in OldPages => Valid(q.existing)
  PROVE  SettingsTypeOK' /\ SettingsInv'
<1>1. /\ form' \in [Pages -> Schedule] /\ put' \in [Pages -> Put]
      /\ form'[p] = f /\ put'[p] = q
      /\ \A o \in Pages \ {p} : form'[o] = form[o] /\ put'[o] = put[o]
  BY DEF SettingsTypeOK
<1>2. Sound(p)'
  BY <1>1 DEF Sound, Timely, Valid
<1>3. \A o \in Pages \ {p} : Sound(o)'
  BY <1>1 DEF SettingsInv, Sound, Timely, Valid
<1>4. QED BY <1>1, <1>2, <1>3 DEF SettingsTypeOK, SettingsInv, Valid, Timely

\* What the owner does in the page.
LEMMA EditStep ==
  ASSUME SettingsTypeOK, SettingsInv, NEW p \in Pages, NEW body \in Schedule,
         Timely(body), Edit(p, body)
  PROVE  SettingsTypeOK' /\ SettingsInv'
<1>1. /\ put[p] \in Put /\ put[p].pc = "none" /\ stored' = stored /\ stored \in Schedule
      /\ Valid(stored') /\ Timely(stored')
      /\ form' = [form EXCEPT ![p] = body] /\ put' = [put EXCEPT ![p] = put[p]]
  BY DEF Edit, SettingsTypeOK, SettingsInv, Valid, Timely
<1>2. QED BY <1>1, PageStep

LEMMA SettingsStep ==
  ASSUME SettingsAssumption, SettingsTypeOK, SettingsInv, NEW p \in Pages,
         \/ ChooseTimes(p) \/ ToggleReports(p) \/ ToggleReportTime(p) \/ ToggleReportChannel(p)
         \/ Submit(p) \/ FetchSettings(p)
         \/ ReadExisting(p) \/ SaveSettings(p) \/ RefuseSettings(p) \/ RequestLost(p)
  PROVE  SettingsTypeOK' /\ SettingsInv'
<1>0. /\ form[p] \in Schedule /\ put[p] \in Put /\ stored \in Schedule
      /\ Timely(form[p]) /\ Timely(stored) /\ Valid(stored) /\ Sound(p) /\ MaxSlots \in Nat
  BY DEF SettingsTypeOK, SettingsInv, Sound, SettingsAssumption
<1>1. CASE ChooseTimes(p)
  <2>1. PICK times \in SUBSET Slots :
          /\ \/ \E slot \in form[p].times : times = form[p].times \ {slot}
             \/ \E slot \in Slots \ form[p].times :
                  Cardinality(form[p].times) < MaxSlots /\ times = form[p].times \cup {slot}
             \/ times \in Presets
          /\ Edit(p, Reconciled([form[p] EXCEPT !.times = times]))
    BY <1>1 DEF ChooseTimes
  <2>2. IsFiniteSet(times) /\ Cardinality(times) <= MaxSlots
    <3>0. IsFiniteSet(form[p].times) /\ Cardinality(form[p].times) \in Nat
          /\ Cardinality(form[p].times) <= MaxSlots
      BY <1>0, FS_CardinalityType DEF Timely
    <3>1. CASE \E slot \in form[p].times : times = form[p].times \ {slot}
      <4>1. PICK slot \in form[p].times : times = form[p].times \ {slot}
        BY <3>1
      <4>2. IsFiniteSet(times) /\ Cardinality(times) <= Cardinality(form[p].times)
        BY <3>0, <4>1, FS_Subset
      <4>3. QED BY <1>0, <3>0, <4>2, FS_CardinalityType
    <3>2. CASE \E slot \in Slots \ form[p].times :
                 Cardinality(form[p].times) < MaxSlots /\ times = form[p].times \cup {slot}
      <4>1. PICK slot \in Slots \ form[p].times :
              Cardinality(form[p].times) < MaxSlots /\ times = form[p].times \cup {slot}
        BY <3>2
      <4>2. IsFiniteSet(times) /\ Cardinality(times) = Cardinality(form[p].times) + 1
        BY <3>0, <4>1, FS_AddElement
      <4>3. QED BY <1>0, <3>0, <4>1, <4>2
    <3>3. CASE times \in Presets
      BY <3>3, FS_Subset DEF SettingsAssumption
    <3>4. QED BY <2>1, <3>1, <3>2, <3>3
  <2>3. [form[p] EXCEPT !.times = times] \in Schedule
        /\ [form[p] EXCEPT !.times = times].times = times
    BY <1>0 DEF Schedule
  <2>4. QED BY <2>1, <2>2, <2>3, ReconciledType, EditStep DEF Timely
<1>2. CASE ToggleReports(p)
  <2>1. [form[p] EXCEPT !.enabled = ~@] \in Schedule
        /\ [form[p] EXCEPT !.enabled = ~@].times = form[p].times
    BY <1>0 DEF Schedule
  <2>2. QED BY <1>0, <1>2, <2>1, EditStep DEF ToggleReports, Timely
<1>3. CASE ToggleReportTime(p)
  <2>1. PICK slot \in form[p].times :
          Edit(p, [form[p] EXCEPT !.reports = IF slot \in @ THEN @ \ {slot} ELSE @ \cup {slot}])
    BY <1>3 DEF ToggleReportTime
  <2> DEFINE b == [form[p] EXCEPT !.reports = IF slot \in @ THEN @ \ {slot} ELSE @ \cup {slot}]
  <2>2. b \in Schedule /\ b.times = form[p].times
    BY <1>0 DEF Schedule
  <2> HIDE DEF b
  <2>3. Timely(b)
    BY <1>0, <2>2 DEF Timely
  <2>4. Edit(p, b)
    BY <2>1 DEF b
  <2>5. QED BY <2>2, <2>3, <2>4, EditStep
<1>4. CASE ToggleReportChannel(p)
  <2>1. PICK channel \in ReportChannels :
          Edit(p, [form[p] EXCEPT !.over = IF channel \in @ THEN @ \ {channel} ELSE @ \cup {channel}])
    BY <1>4 DEF ToggleReportChannel
  <2> DEFINE b == [form[p] EXCEPT !.over = IF channel \in @ THEN @ \ {channel} ELSE @ \cup {channel}]
  <2>2. b \in Schedule /\ b.times = form[p].times
    BY <1>0 DEF Schedule
  <2> HIDE DEF b
  <2>3. Timely(b)
    BY <1>0, <2>2 DEF Timely
  <2>4. Edit(p, b)
    BY <2>1 DEF b
  <2>5. QED BY <2>2, <2>3, <2>4, EditStep
<1>5. CASE FetchSettings(p)
  <2>1. CASE p \in OldPages
    <3>1. [Defaults EXCEPT !.times = stored.times] \in Schedule
          /\ [Defaults EXCEPT !.times = stored.times].times = stored.times
      BY <1>0, DefaultsType DEF Schedule
    <3>2. QED BY <1>0, <1>5, <2>1, <3>1, EditStep DEF FetchSettings, Timely
  <2>2. CASE p \notin OldPages
    BY <1>0, <1>5, <2>2, ReconciledType, EditStep DEF FetchSettings, Timely
  <2>3. QED BY <2>1, <2>2
<1>6. CASE Submit(p)
  <2> DEFINE body == Reconciled(form[p])
             q == [pc |-> "read", body |-> body, existing |-> Defaults]
  <2>1. /\ body \in Schedule /\ body.times = form[p].times
        /\ body.reports \subseteq body.times
    BY <1>0, ReconciledType
  <2>2. body.enabled => body.reports # {} /\ body.over # {}
    BY <1>6 DEF Submit
  <2>3. /\ stored' = stored /\ form' = [form EXCEPT ![p] = body] /\ put' = [put EXCEPT ![p] = q]
    BY <1>6 DEF Submit
  <2> HIDE DEF body
  <2>4. q \in Put /\ q.body = body /\ q.pc = "read"
    BY <2>1, DefaultsType DEF Put
  <2> HIDE DEF q
  <2>5. Timely(body) /\ stored' \in Schedule /\ Valid(stored') /\ Timely(stored')
    BY <1>0, <2>1, <2>3 DEF Timely
  <2>6. QED BY <2>1, <2>2, <2>3, <2>4, <2>5, PageStep
<1>7. CASE ReadExisting(p)
  <2> DEFINE q == [put[p] EXCEPT !.pc = "write",
                                 !.existing = IF p \in OldPages THEN stored ELSE @]
  <2>1. /\ q \in Put /\ q.body = put[p].body
        /\ p \in OldPages => q.existing = stored
    BY <1>0 DEF Put
  <2>2. /\ put[p].pc = "read" /\ stored' = stored /\ form' = [form EXCEPT ![p] = form[p]]
        /\ put' = [put EXCEPT ![p] = q]
    BY <1>7 DEF ReadExisting, SettingsTypeOK
  <2> HIDE DEF q
  <2>3. /\ Timely(q.body) /\ q.body.reports \subseteq q.body.times
        /\ q.body.enabled => q.body.reports # {} /\ q.body.over # {}
    BY <1>0, <2>1, <2>2 DEF Sound
  <2>4. p \in OldPages => Valid(q.existing)
    BY <1>0, <2>1
  <2>5. QED BY <1>0, <2>1, <2>2, <2>3, <2>4, PageStep
<1>8. CASE SaveSettings(p)
  <2>1. /\ stored' = Requested(p) /\ Valid(stored') /\ put[p].pc = "write"
        /\ form' = [form EXCEPT ![p] = form[p]] /\ put' = [put EXCEPT ![p] = NoPut]
    BY <1>8 DEF SaveSettings, SettingsTypeOK
  <2>2. put[p].body \in Schedule /\ put[p].existing \in Schedule
    BY <1>0 DEF Put
  <2>3. stored' \in Schedule /\ stored'.times = put[p].body.times
    BY <2>1, <2>2, InheritedType DEF Requested, Inherited
  <2>4. Timely(stored')
    BY <1>0, <2>1, <2>3 DEF Sound, Timely
  <2>5. QED BY <1>0, <2>1, <2>3, <2>4, DefaultsType, PageStep
<1>9. CASE RefuseSettings(p) \/ RequestLost(p)
  <2>1. /\ stored' = stored
        /\ form' = [form EXCEPT ![p] = form[p]] /\ put' = [put EXCEPT ![p] = NoPut]
    BY <1>9 DEF RefuseSettings, RequestLost, SettingsTypeOK
  <2>2. QED BY <1>0, <2>1, DefaultsType, PageStep
<1>10. QED BY <1>1, <1>2, <1>3, <1>4, <1>5, <1>6, <1>7, <1>8, <1>9

\* What a sound request asks for is refused only if it has no times.
LEMMA SoundAccepted ==
  ASSUME SettingsAssumption, SettingsTypeOK, NEW p \in Pages, Sound(p), put[p].pc = "write",
         put[p].body.times # {}
  PROVE  Valid(Requested(p))
<1>1. Timely(put[p].body)
  BY DEF Sound
<1>2. CASE p \notin OldPages
  BY <1>1, <1>2 DEF Requested, Sound, Valid, Timely
<1>3. CASE p \in OldPages
  <2>1. Valid(put[p].existing)
    BY <1>3 DEF Sound
  <2> DEFINE r == Inherited(put[p].body, put[p].existing)
  <2>2. /\ r.times = put[p].body.times
        /\ r.reports = put[p].existing.reports \cap put[p].body.times
        /\ r.enabled = (put[p].existing.enabled /\ r.reports # {})
        /\ r.over = put[p].existing.over
    BY DEF Inherited
  <2>3. Requested(p) = r
    BY <1>3 DEF Requested
  <2> HIDE DEF r
  <2>4. QED BY <1>1, <2>1, <2>2, <2>3 DEF Valid, Timely
<1>4. QED BY <1>2, <1>3

LEMMA SettingsInvHolds == SettingsSpec => [](SettingsTypeOK /\ SettingsInv)
<1>1. ASSUME SettingsInit
      PROVE  SettingsTypeOK /\ SettingsInv
  <2>1. Timely(Defaults)
    BY FS_Subset, SettingsAssumption DEF Timely, Defaults, SettingsAssumption
  <2>2. SettingsTypeOK
    BY <1>1, DefaultsType, SettingsAssumption DEF SettingsInit, SettingsTypeOK
  <2>3. \A p \in Pages : form[p] = Defaults /\ put[p] = NoPut
    BY <1>1 DEF SettingsInit
  <2>4. \A p \in Pages : Sound(p)
    BY <2>1, <2>3, DefaultsType, SettingsAssumption DEF Sound
  <2>5. QED BY <1>1, <2>1, <2>2, <2>4, DefaultsType, SettingsAssumption DEF SettingsInit, SettingsInv
<1>2. ASSUME SettingsTypeOK /\ SettingsInv, [SettingsNext]_settingsVars
      PROVE  SettingsTypeOK' /\ SettingsInv'
  <2>1. CASE UNCHANGED settingsVars
    BY <1>2, <2>1 DEF settingsVars, SettingsTypeOK, SettingsInv, Sound, Timely, Valid
  <2>2. QED BY <1>2, <2>1, SettingsStep, SettingsAssumption DEF SettingsNext
<1>3. QED BY <1>1, <1>2, PTL DEF SettingsSpec

\* The row, the pages and their requests keep their types.
THEOREM SettingsTypeCorrect == SettingsSpec => []SettingsTypeOK
BY SettingsInvHolds, PTL

\* What passes a page's own check is refused only for having no times, however
\* many pages of either kind save over one another.
THEOREM RefusedForTimes == SettingsSpec => []RefusedOnlyWithoutTimes
<1>1. SettingsTypeOK /\ SettingsInv => RefusedOnlyWithoutTimes
  BY SoundAccepted, SettingsAssumption DEF RefusedOnlyWithoutTimes, SettingsInv
<1>2. QED BY <1>1, SettingsInvHolds, PTL

---------------------------------------------------------------------------
(* The console, for any locations and calls.                               *)

Agrees(shown) == /\ shown.form = shown.drawer
                 /\ ~shown.open => shown.form = NoSite

LEMMA RequestType ==
  /\ \A kind \in Kind, s \in Sites \cup {NoSite} : Request(kind, s) \in Call
  /\ Refresh \in Call
  /\ \A s \in Sites \cup {NoSite} : [Request("list", s) EXCEPT !.after = "drawer"] \in Call
<1>1. ASSUME NEW kind \in Kind, NEW s \in Sites \cup {NoSite}
      PROVE  /\ Request(kind, s) \in Call
             /\ [Request(kind, s) EXCEPT !.after = "rules"] \in Call
             /\ [Request(kind, s) EXCEPT !.after = "drawer"] \in Call
  BY DEF Request, Call
<1>2. "list" \in Kind
  BY DEF Kind
<1>3. QED BY <1>1, <1>2 DEF Refresh

\* What a render, a close and a list make of a page.
LEMMA PageMoves ==
  ASSUME NEW shown \in Page
  PROVE  /\ \A s : Rendered(s, shown) = shown
         /\ Closed(shown) \in Page /\ Agrees(Closed(shown))
<1>1. [shown EXCEPT !.drawer = shown.drawer] = shown
  BY DEF Page
<1>2. \A s : Rendered(s, shown) = shown
  BY <1>1 DEF Rendered
<1>3. Closed(shown) \in Page /\ Agrees(Closed(shown))
  BY DEF Closed, Page, Agrees
<1>4. QED BY <1>2, <1>3

LEMMA ListedMoves ==
  ASSUME ConsoleTypeOK, NEW sites \in SUBSET Sites
  PROVE  /\ Listed(sites) \in Page
         /\ Listed(sites).form = page.form /\ Listed(sites).drawer = page.drawer
         /\ Listed(sites).open = page.open
BY DEF Listed, ConsoleTypeOK, Page

ConsoleInv == ConsoleTypeOK /\ FormAndDrawerAgree

\* The owner acts: the page changes or calls are made.
LEMMA OwnerStep ==
  ASSUME ConsoleInv,
         \/ \E s \in Sites : OpenEditor(s) \/ DeleteSite(s)
         \/ \E s \in Sites \cup {NoSite} : EditInline(s)
         \/ OpenAdd \/ CloseDrawer \/ SubmitForm \/ SaveInline \/ SaveRule \/ SaveSchedule
         \/ ChangeAllRules \/ OpenLocationsTab
  PROVE  ConsoleInv'
<1>0. /\ kept \subseteq Sites /\ page \in Page /\ calls \subseteq Call /\ Agrees(page)
      /\ page.form \in Sites \cup {NoSite} /\ page.drawer \in Sites \cup {NoSite}
      /\ page.inline \in Sites \cup {NoSite} /\ page.list \subseteq Sites
  BY DEF ConsoleInv, ConsoleTypeOK, FormAndDrawerAgree, Agrees, Page
<1>1. ASSUME page' \in Page, Agrees(page'), kept' = kept, calls' = calls
      PROVE  ConsoleInv'
  BY <1>0, <1>1 DEF ConsoleInv, ConsoleTypeOK, FormAndDrawerAgree, Agrees
<1>2. ASSUME NEW new \in SUBSET Call, Send(new), page' \in Page, Agrees(page')
      PROVE  ConsoleInv'
  BY <1>0, <1>2 DEF Send, ConsoleInv, ConsoleTypeOK, FormAndDrawerAgree, Agrees
<1>3. ASSUME NEW s \in Sites, OpenEditor(s) PROVE ConsoleInv'
  <2>1. page' \in Page /\ Agrees(page')
    BY <1>0, <1>3 DEF OpenEditor, Page, Agrees
  <2>2. QED BY <1>1, <1>3, <2>1 DEF OpenEditor
<1>4. CASE OpenAdd
  <2>1. page' \in Page /\ Agrees(page')
    BY <1>0, <1>4 DEF OpenAdd, Page, Agrees
  <2>2. QED BY <1>1, <1>4, <2>1 DEF OpenAdd
<1>5. ASSUME NEW s \in Sites \cup {NoSite}, EditInline(s) PROVE ConsoleInv'
  <2>1. page' \in Page /\ Agrees(page')
    BY <1>0, <1>5 DEF EditInline, Page, Agrees
  <2>2. QED BY <1>1, <1>5, <2>1 DEF EditInline
<1>6. CASE CloseDrawer
  BY <1>0, <1>2, <1>6, PageMoves, RequestType DEF CloseDrawer
<1>7. CASE SubmitForm
  <2>1. Request(IF page.form = NoSite THEN "add" ELSE "save", page.form) \in Call
    BY <1>0, RequestType DEF Kind
  <2>2. QED BY <1>0, <1>2, <1>7, <2>1 DEF SubmitForm
<1>8. CASE SaveInline \/ SaveRule \/ SaveSchedule \/ ChangeAllRules \/ OpenLocationsTab
  <2>1. /\ Request("inline", page.inline) \in Call /\ Request("rule", page.drawer) \in Call
        /\ Request("schedule", page.drawer) \in Call /\ Request("bulk", NoSite) \in Call
    BY <1>0, RequestType DEF Kind
  <2>2. page' = page
    BY <1>8 DEF SaveInline, SaveRule, SaveSchedule, ChangeAllRules, OpenLocationsTab
  <2>3. \E new \in SUBSET Call : Send(new)
    BY <1>8, <2>1, RequestType
    DEF SaveInline, SaveRule, SaveSchedule, ChangeAllRules, OpenLocationsTab
  <2>4. QED BY <1>0, <1>2, <2>2, <2>3
<1>9. ASSUME NEW s \in Sites, DeleteSite(s) PROVE ConsoleInv'
  <2>1. Request("delete", s) \in Call
    BY RequestType DEF Kind
  <2>2. QED BY <1>0, <1>2, <1>9, <2>1 DEF DeleteSite
<1>10. QED BY <1>3, <1>4, <1>5, <1>6, <1>7, <1>8, <1>9

\* The Worker acts on a call, or its answer arrives.
LEMMA AnswerStep ==
  ASSUME ConsoleInv, NEW c \in calls,
         \/ Serves(c) \/ ListArrives(c) \/ RulesArrive(c) \/ SaveArrives(c)
         \/ InlineArrives(c) \/ DeleteArrives(c) \/ RuleArrives(c)
         \/ ScheduleArrives(c) \/ AllRulesChanged(c)
  PROVE  ConsoleInv'
<1>0. /\ kept \subseteq Sites /\ page \in Page /\ calls \subseteq Call /\ Agrees(page)
      /\ c \in Call /\ c.site \in Sites \cup {NoSite} /\ c.sites \in SUBSET Sites
  BY DEF ConsoleInv, ConsoleTypeOK, FormAndDrawerAgree, Agrees, Call
<1>1. CASE Serves(c)
  <2>1. page' = page /\ kept' \subseteq Sites
    BY <1>0, <1>1 DEF Serves
  <2>2. \A answer \in {"ok", "failed"}, sites \in SUBSET Sites :
          [c EXCEPT !.answer = answer, !.sites = sites] \in Call
    BY <1>0 DEF Call
  <2>3. \E answer \in {"ok", "failed"}, sites \in SUBSET Sites : Answered(c, answer, sites)
    BY <1>0, <1>1 DEF Serves
  <2>4. calls' \subseteq Call
    BY <1>0, <2>2, <2>3 DEF Answered
  <2>5. QED BY <1>0, <2>1, <2>4 DEF ConsoleInv, ConsoleTypeOK, FormAndDrawerAgree, Agrees
<1>2. ASSUME NEW shown \in Page, Agrees(shown), NEW new \in SUBSET Call, Then(c, shown, new)
      PROVE  ConsoleInv'
  BY <1>0, <1>2 DEF Then, ConsoleInv, ConsoleTypeOK, FormAndDrawerAgree, Agrees
<1>3. /\ Refresh \in Call /\ Request("list", NoSite) \in Call /\ Request("rules", NoSite) \in Call
      /\ [Request("list", c.site) EXCEPT !.after = "drawer"] \in Call
  BY <1>0, RequestType DEF Kind
<1>4. CASE ListArrives(c)
  <2> DEFINE shown == IF c.answer = "ok" THEN Listed(c.sites) ELSE page
  <2>1. shown \in Page /\ Agrees(shown)
    BY <1>0, ListedMoves DEF Agrees, ConsoleInv
  <2>2. Rendered(c.site, shown) = shown
    BY <2>1, PageMoves
  <2>3. \/ Then(c, shown, {}) \/ Then(c, shown, {Request("rules", NoSite)})
        \/ Then(c, Rendered(c.site, shown), {})
    BY <1>4 DEF ListArrives
  <2> HIDE DEF shown
  <2>4. QED BY <1>2, <1>3, <2>1, <2>2, <2>3
<1>5. CASE RulesArrive(c)
  BY <1>0, <1>2, <1>5, PageMoves DEF RulesArrive
<1>6. CASE SaveArrives(c)
  BY <1>0, <1>2, <1>3, <1>6, PageMoves DEF SaveArrives
<1>7. CASE InlineArrives(c)
  <2>1. [page EXCEPT !.inline = NoSite] \in Page /\ Agrees([page EXCEPT !.inline = NoSite])
    BY <1>0 DEF Page, Agrees
  <2>2. QED BY <1>0, <1>2, <1>3, <1>7, <2>1 DEF InlineArrives
<1>8. CASE DeleteArrives(c)
  BY <1>0, <1>2, <1>3, <1>8, PageMoves DEF DeleteArrives
<1>9. CASE RuleArrives(c)
  BY <1>0, <1>2, <1>3, <1>9, PageMoves DEF RuleArrives
<1>10. CASE ScheduleArrives(c)
  BY <1>0, <1>2, <1>3, <1>10 DEF ScheduleArrives
<1>11. CASE AllRulesChanged(c)
  BY <1>0, <1>2, <1>3, <1>11 DEF AllRulesChanged
<1>12. QED BY <1>1, <1>4, <1>5, <1>6, <1>7, <1>8, <1>9, <1>10, <1>11

LEMMA ConsoleInvHolds == ConsoleSpec => []ConsoleInv
<1>1. ConsoleInit => ConsoleInv
  BY ConsoleAssumption, RequestType
  DEF ConsoleAssumption, ConsoleInit, ConsoleInv, ConsoleTypeOK, FormAndDrawerAgree, Page, Kind
<1>2. ConsoleInv /\ [ConsoleNext]_consoleVars => ConsoleInv'
  <2>1. ASSUME ConsoleInv, UNCHANGED consoleVars PROVE ConsoleInv'
    BY <2>1 DEF consoleVars, ConsoleInv, ConsoleTypeOK, FormAndDrawerAgree
  <2>2. QED BY <2>1, OwnerStep, AnswerStep DEF ConsoleNext
<1>3. QED BY <1>1, <1>2, PTL DEF ConsoleSpec

\* The page, the Worker's locations and the calls keep their types.
THEOREM ConsoleTypeCorrect == ConsoleSpec => []ConsoleTypeOK
<1>1. ConsoleInv => ConsoleTypeOK
  BY DEF ConsoleInv
<1>2. QED BY <1>1, ConsoleInvHolds, PTL

\* The form and the rest of the drawer are about one location, whatever answers
\* arrive, in whatever order, between what the owner does.
THEOREM DrawerAgrees == ConsoleSpec => []FormAndDrawerAgree
<1>1. ConsoleInv => FormAndDrawerAgree
  BY DEF ConsoleInv
<1>2. QED BY <1>1, ConsoleInvHolds, PTL

---------------------------------------------------------------------------
(* The eight parts together, as the run of MCParts composes them: whatever *)
(* the part that runs does, each part takes a step of its own or rests.    *)

LEMMA PartsStart ==
  ASSUME PartsInit
  PROVE  /\ scene \in Scene
         /\ AccessInit
         /\ DeploymentInit
         /\ DevicesInit
         /\ RetentionInit
         /\ LimitersInit
         /\ SelfTestInit
         /\ SettingsInit
         /\ ConsoleInit
BY DEF PartsInit

LEMMA PartsStep ==
  ASSUME scene \in Scene, [PartsNext]_partsVars
  PROVE  /\ (scene \in Scene)'
         /\ [AccessNext]_accessVars
         /\ [DeploymentNext]_deploymentVars
         /\ [DevicesNext]_devicesVars
         /\ [RetentionNext]_retentionVars
         /\ [LimitersNext]_limiterVars
         /\ [SelfTestNext]_selfTestVars
         /\ [SettingsNext]_settingsVars
         /\ [ConsoleNext]_consoleVars
<1>1. CASE AccessScene
  BY <1>1 DEF AccessScene
<1>2. CASE DeploymentScene
  BY <1>2 DEF DeploymentScene
<1>3. CASE DevicesScene
  BY <1>3 DEF DevicesScene
<1>4. CASE RetentionScene
  BY <1>4 DEF RetentionScene
<1>5. CASE LimitersScene
  BY <1>5 DEF LimitersScene
<1>6. CASE SelfTestScene
  BY <1>6 DEF SelfTestScene
<1>7. CASE SettingsScene
  BY <1>7 DEF SettingsScene
<1>8. CASE ConsoleScene
  BY <1>8 DEF ConsoleScene
<1>9. CASE UNCHANGED partsVars
  BY <1>9 DEF partsVars
<1> QED BY <1>1, <1>2, <1>3, <1>4, <1>5, <1>6, <1>7, <1>8, <1>9 DEF PartsNext

\* Whichever part runs keeps the types of its variables while it shares a
\* behaviour with the others.
THEOREM PartsTypeCorrect == PartsSpec => []PartsTypeOK
<1>1. PartsSpec => [](scene \in Scene)
  BY PartsStart, PartsStep, PTL DEF PartsSpec
<1>2. PartsSpec => []AccessTypeOK
  BY <1>1, PartsStart, PartsStep, AccessTypeCorrect, PTL DEF PartsSpec, AccessSpec
<1>3. PartsSpec => []DeploymentTypeOK
  BY <1>1, PartsStart, PartsStep, DeploymentTypeCorrect, PTL DEF PartsSpec, DeploymentSpec
<1>4. PartsSpec => []DevicesTypeOK
  BY <1>1, PartsStart, PartsStep, DevicesTypeCorrect, PTL DEF PartsSpec, DevicesSpec
<1>5. PartsSpec => []RetentionTypeOK
  BY <1>1, PartsStart, PartsStep, RetentionTypeCorrect, PTL DEF PartsSpec, RetentionSpec
<1>6. PartsSpec => []LimitersTypeOK
  BY <1>1, PartsStart, PartsStep, LimitersTypeCorrect, PTL DEF PartsSpec, LimitersSpec
<1>7. PartsSpec => []SelfTestTypeOK
  BY <1>1, PartsStart, PartsStep, SelfTestTypeCorrect, PTL DEF PartsSpec, SelfTestSpec
<1>8. PartsSpec => []SettingsTypeOK
  BY <1>1, PartsStart, PartsStep, SettingsTypeCorrect, PTL DEF PartsSpec, SettingsSpec
<1>9. PartsSpec => []ConsoleTypeOK
  BY <1>1, PartsStart, PartsStep, ConsoleTypeCorrect, PTL DEF PartsSpec, ConsoleSpec
<1>10. ASSUME scene \in Scene, AccessTypeOK, DeploymentTypeOK, DevicesTypeOK, RetentionTypeOK,
              LimitersTypeOK, SelfTestTypeOK, SettingsTypeOK, ConsoleTypeOK
       PROVE  PartsTypeOK
  <2>1. CASE scene = "access"
    BY <1>10, <2>1 DEF PartsTypeOK
  <2>2. CASE scene = "deployment"
    BY <1>10, <2>2 DEF PartsTypeOK
  <2>3. CASE scene = "devices"
    BY <1>10, <2>3 DEF PartsTypeOK
  <2>4. CASE scene = "retention"
    BY <1>10, <2>4 DEF PartsTypeOK
  <2>5. CASE scene = "limiters"
    BY <1>10, <2>5 DEF PartsTypeOK
  <2>6. CASE scene = "selftest"
    BY <1>10, <2>6 DEF PartsTypeOK
  <2>7. CASE scene = "settings"
    BY <1>10, <2>7 DEF PartsTypeOK
  <2>8. CASE scene = "console"
    BY <1>10, <2>8 DEF PartsTypeOK
  <2> QED BY <1>10, <2>1, <2>2, <2>3, <2>4, <2>5, <2>6, <2>7, <2>8 DEF Scene
<1> QED BY <1>1, <1>2, <1>3, <1>4, <1>5, <1>6, <1>7, <1>8, <1>9, <1>10, PTL

===========================================================================
