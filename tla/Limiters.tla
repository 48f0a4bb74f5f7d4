------------------------------ MODULE Limiters ------------------------------
(***************************************************************************)
(* The three limiters of worker/db.js, singleton rows that a request wins  *)
(* by an UPDATE or, when there is no row yet, by an INSERT OR IGNORE, and  *)
(* the routes of worker/api.js behind them: a test notification, address   *)
(* suggestions and a change of credentials.  A request takes the time when *)
(* it begins and may reach the limiter much later.                         *)
(***************************************************************************)
EXTENDS Integers

CONSTANTS
  Requests,
  LimiterOf, \* the limiter that each request goes through
  ChannelOf, \* the channel that each request tests, if it does
  Interval,  \* time between two winners of each limiter
  MaxNow     \* bound: the last instant

Limiter == {"test", "autocomplete", "credentials"}
Tested == {"email", "pushover", "webhook", "webpush"}

ASSUME LimitersAssumption ==
  /\ LimiterOf \in [Requests -> Limiter]
  /\ ChannelOf \in [Requests -> Tested]
  /\ Interval \in [Limiter -> Nat \ {0}]
  /\ MaxNow \in Nat \ {0}

VARIABLES
  clock,
  lastRequestedAt, \* of each limiter's row, 0 when there is no row
  ready,           \* each channel: enabled, configured, for push a device enabled
  request          \* each request with its own time, and whether it won

limiterVars == <<clock, lastRequestedAt, ready, request>>

LimitedRequest == [pc : {"idle", "check", "update", "insert", "serve", "done"},
                   now : 0..MaxNow, won : BOOLEAN,
                   answer : {"none", "refused", "limited", "served", "failed"}]

Answer(r, answer) == request' = [request EXCEPT ![r].pc = "done", ![r].answer = answer]

---------------------------------------------------------------------------

Tick ==
  /\ clock < MaxNow /\ clock' = clock + 1
  /\ UNCHANGED <<lastRequestedAt, ready, request>>

\* The owner switches a channel, or credentials or devices come and go.
SwitchChannel(channel) ==
  /\ ready' = [ready EXCEPT ![channel] = ~@]
  /\ UNCHANGED <<clock, lastRequestedAt, request>>

Begin(r) ==
  /\ request[r].pc = "idle"
  /\ request' = [request EXCEPT ![r].now = clock,
                   ![r].pc = IF LimiterOf[r] = "test" THEN "check" ELSE "update"]
  /\ UNCHANGED <<clock, lastRequestedAt, ready>>

\* 409 for a channel that cannot be tested: no slot is used.
CheckChannel(r) ==
  /\ request[r].pc = "check"
  /\ \/ ready[ChannelOf[r]] /\ request' = [request EXCEPT ![r].pc = "update"]
     \/ ~ready[ChannelOf[r]] /\ Answer(r, "refused")
  /\ UNCHANGED <<clock, lastRequestedAt, ready>>

\* Bug: the row is compared with the request's own time, not with the interval.
BadElapsed(l, now) == lastRequestedAt[l] < now

Elapsed(l, now) == lastRequestedAt[l] <= now - Interval[l]

UpdateSlot(r) ==
  LET l == LimiterOf[r] IN
  /\ request[r].pc = "update"
  /\ \/ /\ lastRequestedAt[l] # 0 /\ Elapsed(l, request[r].now)
        /\ lastRequestedAt' = [lastRequestedAt EXCEPT ![l] = request[r].now]
        /\ request' = [request EXCEPT ![r].pc = "serve", ![r].won = TRUE]
     \/ /\ lastRequestedAt[l] = 0 \/ ~Elapsed(l, request[r].now)
        /\ request' = [request EXCEPT ![r].pc = "insert"]
        /\ UNCHANGED lastRequestedAt
  /\ UNCHANGED <<clock, ready>>

InsertSlot(r) ==
  LET l == LimiterOf[r] IN
  /\ request[r].pc = "insert"
  /\ \/ /\ lastRequestedAt[l] = 0
        /\ lastRequestedAt' = [lastRequestedAt EXCEPT ![l] = request[r].now]
        /\ request' = [request EXCEPT ![r].pc = "serve", ![r].won = TRUE]
     \/ /\ lastRequestedAt[l] # 0
        /\ Answer(r, "limited") /\ UNCHANGED lastRequestedAt
  /\ UNCHANGED <<clock, ready>>

\* The slot is used, whatever becomes of the request: an upstream may fail, and
\* a test of a channel whose devices or secret are read again may find no job to
\* answer for.  A request may die at any point.
Serve(r) ==
  /\ request[r].pc = "serve"
  /\ \/ /\ LimiterOf[r] # "test" \/ ready[ChannelOf[r]] \/ ChannelOf[r] \in {"email", "pushover"}
        /\ Answer(r, "served")
     \/ /\ LimiterOf[r] # "test" \/ (~ready[ChannelOf[r]] /\ ChannelOf[r] \in {"webhook", "webpush"})
        /\ Answer(r, "failed")
  /\ UNCHANGED <<clock, lastRequestedAt, ready>>

RequestDies(r) ==
  /\ request[r].pc \in {"check", "update", "insert", "serve"}
  /\ Answer(r, "none")
  /\ UNCHANGED <<clock, lastRequestedAt, ready>>

---------------------------------------------------------------------------

LimitersInit ==
  /\ clock = 1
  /\ lastRequestedAt = [l \in Limiter |-> 0]
  /\ ready = [channel \in Tested |-> TRUE]
  /\ request = [r \in Requests |-> [pc |-> "idle", now |-> 0, won |-> FALSE, answer |-> "none"]]

LimitersNext ==
  \/ Tick
  \/ \E channel \in {ChannelOf[r] : r \in Requests} : SwitchChannel(channel)
  \/ \E r \in Requests : \/ Begin(r) \/ CheckChannel(r) \/ UpdateSlot(r) \/ InsertSlot(r)
                         \/ Serve(r) \/ RequestDies(r)

LimitersSpec == LimitersInit /\ [][LimitersNext]_limiterVars

---------------------------------------------------------------------------

LimitersTypeOK ==
  /\ clock \in 0..MaxNow
  /\ lastRequestedAt \in [Limiter -> 0..MaxNow]
  /\ ready \in [Tested -> BOOLEAN]
  /\ request \in [Requests -> LimitedRequest]

\* Whatever order requests reach the limiter in, and however late, two that it
\* let through were begun at least its interval apart; of many first requests,
\* before there is a row, it lets one through.
Spaced ==
  \A r, s \in Requests :
    r # s /\ LimiterOf[r] = LimiterOf[s] /\ request[r].won /\ request[s].won =>
      \/ request[r].now - request[s].now >= Interval[LimiterOf[r]]
      \/ request[s].now - request[r].now >= Interval[LimiterOf[r]]
=============================================================================
