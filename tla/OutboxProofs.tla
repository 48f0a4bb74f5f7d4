--------------------------- MODULE OutboxProofs ---------------------------
(***************************************************************************)
(* Theorems about Outbox, for every number of deliveries, dispatchers and  *)
(* requests, every backoff table, lease, timeout and bound.                *)
(***************************************************************************)
EXTENDS Outbox, TLAPS, FiniteSetTheorems

\* A dispatch in a provider call, or about to record its answer, has a job.
JobKnown == /\ \A d \in Dispatchers : disp[d].pc \in {"deliver", "record"}
                                        => disp[d].job \in Jobs
            /\ \A r \in Requests : req[r].pc # "idle" => req[r].job \in Jobs

\* The provider's answer is kept until it is recorded.
AnswerKnown == \A d \in Dispatchers :
                 /\ disp[d].pc = "record" => disp[d].result # "none"
                 /\ disp[d].pc = "record" /\ disp[d].result = "ok"
                      => accepted[disp[d].job]

TypeInv == TypeOK /\ JobKnown

---------------------------------------------------------------------------
LEMMA NextAttemptAtType ==
  ASSUME NEW now \in Nat, NEW attempts \in Nat
  PROVE  NextAttemptAt(now, attempts) \in Nat
<1>1. RetryDelays \in Seq(Nat) /\ Len(RetryDelays) \in Nat /\ Len(RetryDelays) > 0
  BY DispatchTimeAssumption
<1>2. \A i \in 1..Len(RetryDelays) : RetryDelays[i] \in Nat
  BY <1>1
<1>3. CASE attempts < Len(RetryDelays)
  BY <1>1, <1>2, <1>3 DEF NextAttemptAt
<1>4. CASE ~(attempts < Len(RetryDelays))
  BY <1>1, <1>2, <1>4 DEF NextAttemptAt
<1>5. QED BY <1>3, <1>4

LEMMA AbsentRowType == AbsentRow \in Row
BY DEF AbsentRow, Row, Status, NullableTime, Null, Time

LEMMA IdleType == IdleDispatch \in Dispatch /\ IdleRequest \in Request
BY DEF IdleDispatch, IdleRequest, Dispatch, Request, Candidate, Result, Time

LEMMA RowTypes ==
  ASSUME NEW row \in Row, NEW d \in Dispatchers, NEW now \in Nat, NEW attempts \in Nat,
         TypeOK
  PROVE  /\ [row EXCEPT !.status = "pending", !.nextAttemptAt = now] \in Row
         /\ [row EXCEPT !.status = "processing", !.lockedUntil = disp[d].now + Lease,
                        !.leaseToken = d] \in Row
         /\ SentRow(row) \in Row
         /\ FailedRow(row, d) \in Row
         /\ RetriedRow(row, now) \in Row
<1> USE DEF Row, Status, NullableTime, Null, Time
<1>1. disp[d].now \in Nat /\ disp[d].attempts \in Nat
  BY DEF TypeOK, Dispatch
<1>2. disp[d].now + Lease \in Nat
  BY <1>1, DispatchTimeAssumption
<1>3. [row EXCEPT !.status = "pending", !.nextAttemptAt = now] \in Row
  OBVIOUS
<1>4. [row EXCEPT !.status = "processing", !.lockedUntil = disp[d].now + Lease,
                  !.leaseToken = d] \in Row
  BY <1>2
<1>5. SentRow(row) \in Row
  BY DEF SentRow
<1>6. FailedRow(row, d) \in Row
  <2>1. disp[d].attempts + 1 \in Nat
    BY <1>1
  <2>2. NextAttemptAt(disp[d].now, disp[d].attempts + 1) \in Nat
    BY <1>1, <2>1, NextAttemptAtType
  <2>3. QED BY <2>1, <2>2 DEF FailedRow
<1>7. RetriedRow(row, now) \in Row
  <2>1. row.manualAttempts + 1 \in Nat
    OBVIOUS
  <2>2. QED BY <2>1 DEF RetriedRow
<1>8. QED BY <1>3, <1>4, <1>5, <1>6, <1>7

LEMMA ContinueType ==
  ASSUME TypeInv, NEW d \in Dispatchers, NEW rest \in SUBSET Candidate, Continue(d, rest)
  PROVE  /\ disp' \in [Dispatchers -> Dispatch]
         /\ \A e \in Dispatchers : /\ disp'[e].pc \in {"deliver", "record"} => e # d
                                   /\ e # d => disp'[e] = disp[e]
<1>1. disp \in [Dispatchers -> Dispatch] /\ disp[d] \in Dispatch
  BY DEF TypeInv, TypeOK
<1>2. CASE rest = {}
  BY <1>1, <1>2, IdleType DEF Continue, IdleDispatch
<1>3. CASE rest # {}
  BY <1>1, <1>3 DEF Continue, Dispatch, Result, Time
<1>4. QED BY <1>2, <1>3

LEMMA TypeInit == Init => TypeInv
<1> SUFFICES ASSUME Init PROVE TypeInv
  OBVIOUS
<1>1. /\ outbox \in [Jobs -> Row] /\ disp \in [Dispatchers -> Dispatch]
      /\ req \in [Requests -> Request]
  BY AbsentRowType, IdleType DEF Init
<1>2. JobKnown
  BY DEF Init, JobKnown, IdleDispatch, IdleRequest
<1>3. QED BY <1>1, <1>2 DEF Init, TypeInv, TypeOK, Time

\* What a step of a dispatcher leaves well-typed.
LEMMA TypeDispatch ==
  ASSUME TypeInv, NEW d \in Dispatchers,
         outbox' \in [Jobs -> Row],
         disp' \in [Dispatchers -> Dispatch],
         disp'[d].pc \in {"deliver", "record"} => disp'[d].job \in Jobs,
         \A e \in Dispatchers : e # d => disp'[e] = disp[e],
         accepted' \in [Jobs -> BOOLEAN], cronAt' \in Nat, faults' \in Nat,
         UNCHANGED <<clock, req>>
  PROVE  TypeInv'
<1>1. TypeOK'
  BY DEF TypeInv, TypeOK, Time
<1>2. JobKnown'
  BY DEF TypeInv, JobKnown
<1>3. QED BY <1>1, <1>2 DEF TypeInv

LEMMA TypeNext == TypeInv /\ [Next]_vars => TypeInv'
<1> SUFFICES ASSUME TypeInv, [Next]_vars PROVE TypeInv'
  OBVIOUS
<1> USE DEF Time
<1>0. /\ outbox \in [Jobs -> Row] /\ disp \in [Dispatchers -> Dispatch]
      /\ req \in [Requests -> Request] /\ accepted \in [Jobs -> BOOLEAN]
      /\ clock \in Nat /\ cronAt \in Nat /\ faults \in Nat /\ TypeOK /\ JobKnown
  BY DEF TypeInv, TypeOK
<1>1. CASE UNCHANGED vars
  BY <1>0, <1>1 DEF TypeInv, TypeOK, JobKnown, vars
<1>2. CASE Enqueue
  <2> PICK js \in SUBSET Jobs, at \in 0..clock :
        outbox' = [j \in Jobs |-> IF j \in js
                     THEN [AbsentRow EXCEPT !.status = "pending", !.nextAttemptAt = at]
                     ELSE outbox[j]]
    BY <1>2 DEF Enqueue
  <2>1. [AbsentRow EXCEPT !.status = "pending", !.nextAttemptAt = at] \in Row
    <3>1. at \in Nat
      BY <1>0
    <3>2. QED BY <3>1, AbsentRowType DEF Row, Status, NullableTime
  <2>2. outbox' \in [Jobs -> Row]
    BY <1>0, <2>1
  <2>3. QED BY <1>0, <1>2, <2>2 DEF Enqueue, TypeInv, TypeOK, JobKnown
<1>3. ASSUME NEW d \in Dispatchers, StartDispatch(d) \/ CronDispatch(d) PROVE TypeInv'
  <2>1. disp' = [disp EXCEPT ![d] = [@ EXCEPT !.pc = "select", !.now = clock]]
    BY <1>3 DEF StartDispatch, CronDispatch, Begin
  <2>2. disp'[d] \in Dispatch /\ disp'[d].pc = "select"
    BY <1>0, <2>1 DEF Dispatch
  <2>3. disp' \in [Dispatchers -> Dispatch] /\ \A e \in Dispatchers : e # d => disp'[e] = disp[e]
    BY <1>0, <2>1, <2>2
  <2>4. QED BY <1>0, <1>3, <2>2, <2>3, TypeDispatch DEF StartDispatch, CronDispatch, Begin
<1>4. ASSUME NEW d \in Dispatchers, SelectJobs(d) PROVE TypeInv'
  <2>1. PICK b \in Batches(disp[d].now) : Continue(d, {Snapshot(j) : j \in b})
    BY <1>4 DEF SelectJobs
  <2>2. {Snapshot(j) : j \in b} \in SUBSET Candidate
    BY <1>0 DEF Batches, Snapshot, Candidate, Row
  <2>3. QED BY <1>0, <1>4, <2>1, <2>2, ContinueType, TypeDispatch DEF SelectJobs
<1>5. ASSUME NEW d \in Dispatchers, Claim(d) PROVE TypeInv'
  <2>1. PICK c \in Heads(disp[d].todo) : ClaimWon(d, c) \/ ClaimLost(d, c)
    BY <1>5 DEF Claim
  <2>2. disp[d] \in Dispatch /\ c \in Candidate /\ disp[d].todo \ {c} \in SUBSET Candidate
    BY <1>0 DEF Heads, Dispatch
  <2>3. CASE ClaimWon(d, c)
    <3>1. outbox' \in [Jobs -> Row]
      BY <1>0, <2>2, <2>3, RowTypes DEF ClaimWon, Leased, Candidate
    <3>2. disp'[d] \in Dispatch /\ disp'[d].job \in Jobs
      <4>1. disp'[d] = Invoke(d, c)
        BY <1>0, <2>3 DEF ClaimWon
      <4>2. /\ c.id \in Jobs /\ c.attempts \in Nat /\ disp[d].spent + ProviderTimeout[c.id] \in Nat
            /\ disp[d].todo \ {c} \in SUBSET Candidate
        BY <2>2, OutboxAssumption DEF Candidate, Dispatch
      <4>3. Invoke(d, c) \in Dispatch /\ Invoke(d, c).job \in Jobs
        BY <1>0, <2>2, <4>2 DEF Invoke, Dispatch
      <4>4. QED BY <4>1, <4>3
    <3>3. /\ disp' \in [Dispatchers -> Dispatch]
          /\ \A e \in Dispatchers : e # d => disp'[e] = disp[e]
      BY <1>0, <2>3, <3>2 DEF ClaimWon
    <3>4. QED BY <1>0, <1>5, <3>1, <3>2, <3>3, TypeDispatch DEF Claim
  <2>4. CASE ClaimLost(d, c)
    BY <1>0, <1>5, <2>2, <2>4, ContinueType, TypeDispatch DEF Claim, ClaimLost
  <2>5. QED BY <2>1, <2>3, <2>4
<1>6. ASSUME NEW d \in Dispatchers, Deliver(d) PROVE TypeInv'
  <2>1. PICK result \in Result \ {"none"}, taken \in BOOLEAN :
          /\ disp' = [disp EXCEPT ![d] = [@ EXCEPT !.pc = "record", !.result = result]]
          /\ accepted' = [accepted EXCEPT ![disp[d].job] = @ \/ taken]
    BY <1>6 DEF Deliver
  <2>2. disp'[d] \in Dispatch /\ disp'[d].job \in Jobs
    <3>1. disp'[d] = [disp[d] EXCEPT !.pc = "record", !.result = result]
      BY <1>0, <2>1
    <3>2. disp[d].job \in Jobs
      BY <1>0, <1>6 DEF Deliver, JobKnown
    <3>3. /\ [disp[d] EXCEPT !.pc = "record", !.result = result] \in Dispatch
          /\ [disp[d] EXCEPT !.pc = "record", !.result = result].job = disp[d].job
      <4>1. disp[d] \in Dispatch /\ result \in Result
        BY <1>0
      <4>2. QED BY <4>1 DEF Dispatch
    <3>4. QED BY <3>1, <3>2, <3>3
  <2>3. /\ disp' \in [Dispatchers -> Dispatch]
        /\ \A e \in Dispatchers : e # d => disp'[e] = disp[e]
    BY <1>0, <2>1, <2>2
  <2>4. accepted' \in [Jobs -> BOOLEAN]
    BY <1>0, <2>1
  <2>5. QED BY <1>0, <1>6, <2>2, <2>3, <2>4, TypeDispatch DEF Deliver
<1>7. ASSUME NEW d \in Dispatchers, CompleteOutboxJob(d) \/ FailOutboxJob(d)
      PROVE  outbox' \in [Jobs -> Row]
  <2>1. \A j \in Jobs : SentRow(outbox[j]) \in Row /\ FailedRow(outbox[j], d) \in Row
    BY <1>0, RowTypes
  <2>2. CASE CompleteOutboxJob(d)
    BY <1>0, <2>1, <2>2 DEF CompleteOutboxJob
  <2>3. CASE FailOutboxJob(d)
    BY <1>0, <2>1, <2>3 DEF FailOutboxJob
  <2>4. QED BY <1>7, <2>2, <2>3
<1>8. ASSUME NEW d \in Dispatchers, Complete(d) \/ Fail(d) PROVE TypeInv'
  <2>1. Continue(d, disp[d].todo) /\ disp[d].todo \in SUBSET Candidate
    BY <1>0, <1>8 DEF Complete, Fail, Dispatch
  <2>2. CompleteOutboxJob(d) \/ FailOutboxJob(d)
    BY <1>8 DEF Complete, Fail
  <2>3. QED BY <1>0, <1>7, <1>8, <2>1, <2>2, ContinueType, TypeDispatch DEF Complete, Fail
<1>9. ASSUME NEW d \in Dispatchers, Return(d)
      PROVE  /\ disp' \in [Dispatchers -> Dispatch] /\ disp'[d].pc = "idle"
             /\ \A e \in Dispatchers : e # d => disp'[e] = disp[e]
  BY <1>0, <1>9, IdleType DEF Return, IdleDispatch
<1>10. ASSUME NEW d \in Dispatchers, FaultStep(d) PROVE TypeInv'
  <2>1. faults' \in Nat
    BY <1>0, <1>10 DEF FaultStep, ClaimThrows, CompleteThrows, FailThrows, Crash, Fault
  <2>2. CASE ClaimThrows(d)
    <3>1. PICK c \in Heads(disp[d].todo) : outbox' = Leased(c.id, d)
      BY <2>2 DEF ClaimThrows
    <3>2. c \in Candidate
      BY <1>0 DEF Heads, Dispatch
    <3>3. outbox' \in [Jobs -> Row]
      BY <1>0, <3>1, <3>2, RowTypes DEF Leased, Candidate
    <3>4. QED BY <1>0, <1>9, <2>1, <2>2, <3>3, TypeDispatch DEF ClaimThrows
  <2>3. CASE CompleteThrows(d)
    <3>1. disp' = [disp EXCEPT ![d] = [@ EXCEPT !.result = "retryable"]]
      BY <2>3 DEF CompleteThrows
    <3>2. disp'[d] \in Dispatch /\ disp'[d].job \in Jobs
      BY <1>0, <2>3, <3>1 DEF Dispatch, Result, CompleteThrows, JobKnown
    <3>3. /\ disp' \in [Dispatchers -> Dispatch]
          /\ \A e \in Dispatchers : e # d => disp'[e] = disp[e]
      BY <1>0, <3>1, <3>2
    <3>4. outbox' \in [Jobs -> Row]
      BY <1>0, <1>7, <2>3 DEF CompleteThrows
    <3>5. QED BY <1>0, <2>1, <2>3, <3>2, <3>3, <3>4, TypeDispatch DEF CompleteThrows
  <2>4. CASE FailThrows(d)
    BY <1>0, <1>7, <1>9, <2>1, <2>4, TypeDispatch DEF FailThrows
  <2>5. CASE Crash(d)
    <3>1. accepted' \in [Jobs -> BOOLEAN]
      BY <1>0, <2>5 DEF Crash
    <3>2. QED BY <1>0, <1>9, <2>1, <2>5, <3>1, TypeDispatch DEF Crash
  <2>6. QED BY <1>10, <2>2, <2>3, <2>4, <2>5 DEF FaultStep
<1>11. ASSUME NEW r \in Requests, BeginRetry(r) \/ RetryStep(r) \/ RetryCrash(r)
       PROVE  TypeInv'
  <2>1. outbox' \in [Jobs -> Row]
    <3>1. req[r].now \in Nat
      BY <1>0 DEF Request
    <3>2. CASE RetryUpdate(r)
      <4>1. \A j \in Jobs : RetriedRow(outbox[j], req[r].now) \in Row
        <5>1. SUFFICES ASSUME NEW j \in Jobs PROVE RetriedRow(outbox[j], req[r].now) \in Row
          OBVIOUS
        <5>2. outbox[j] \in Row /\ outbox[j].manualAttempts + 1 \in Nat
          BY <1>0 DEF Row
        <5>3. QED BY <3>1, <5>2 DEF RetriedRow, Row, Status, NullableTime, Null
      <4>2. QED BY <1>0, <3>2, <4>1 DEF RetryUpdate
    <3>3. QED BY <1>0, <1>11, <3>2 DEF BeginRetry, RetryStep, RetrySelect, RetryCrash
  <2>2. req' \in [Requests -> Request]
        /\ \A q \in Requests : req'[q].pc # "idle" => req'[q].job \in Jobs
    <3>1. CASE BeginRetry(r)
      BY <1>0, <3>1 DEF BeginRetry, Request, JobKnown
    <3>2. CASE RetrySelect(r)
      <4>1. req[r].job \in Jobs
        BY <1>0, <3>2 DEF RetrySelect, JobKnown
      <4>2. PICK new \in {[req[r] EXCEPT !.pc = "update"], IdleRequest} :
              req' = [req EXCEPT ![r] = new]
        BY <1>0, <3>2 DEF RetrySelect
      <4>3. new \in Request /\ (new.pc # "idle" => new.job \in Jobs)
        BY <1>0, <4>1, IdleType DEF Request, IdleRequest
      <4>4. QED BY <1>0, <4>2, <4>3 DEF JobKnown
    <3>3. CASE RetryUpdate(r) \/ RetryCrash(r)
      <4>1. req' = [req EXCEPT ![r] = IdleRequest]
        BY <3>3 DEF RetryUpdate, RetryCrash
      <4>2. QED BY <1>0, <4>1, IdleType DEF JobKnown, IdleRequest
    <3>4. QED BY <1>11, <3>1, <3>2, <3>3 DEF RetryStep
  <2>3. UNCHANGED <<clock, disp, accepted, cronAt>> /\ faults' \in Nat
    BY <1>0, <1>11 DEF BeginRetry, RetryStep, RetrySelect, RetryUpdate, RetryCrash, Fault
  <2>4. QED BY <1>0, <2>1, <2>2, <2>3 DEF TypeInv, TypeOK, JobKnown
<1>12. CASE Tick
  BY <1>0, <1>12 DEF Tick, TypeInv, TypeOK, JobKnown
<1>13. QED
  BY <1>1, <1>2, <1>3, <1>4, <1>5, <1>6, <1>8, <1>10, <1>11, <1>12 DEF Next, DispatchStep

\* Every state the outbox, its dispatchers and the retry requests can reach is
\* well-typed, and a dispatch in a provider call knows its delivery.
THEOREM TypeCorrect == Spec => []TypeOK
<1>1. Spec => []TypeInv
  BY TypeInit, TypeNext, PTL DEF Spec
<1>2. TypeInv => TypeOK
  BY DEF TypeInv
<1>3. QED BY <1>1, <1>2, PTL

---------------------------------------------------------------------------
(* How a step changes a row: every statement of the code that writes one.   *)

Enqueued(j) == outbox[j].status = "absent" /\ outbox'[j].status = "pending"
                 /\ outbox'[j].attempts = 0 /\ outbox'[j].manualAttempts = 0
                 /\ outbox'[j].leaseToken = NoOne

Claimed(j) == \E d \in Dispatchers :
                /\ disp[d].pc = "claim"
                /\ \E c \in disp[d].todo : c.id = j
                /\ Claimable(outbox[j], disp[d].now)
                /\ outbox'[j] = [outbox[j] EXCEPT !.status = "processing",
                                                 !.lockedUntil = disp[d].now + Lease,
                                                 !.leaseToken = d]

Settling(d, j) == disp[d].pc = "record" /\ disp[d].job = j /\ HoldsLease(d, j)

Completed(j) == \E d \in Dispatchers : /\ Settling(d, j) /\ disp[d].result = "ok"
                                       /\ outbox'[j] = SentRow(outbox[j])

Failed(j) == \E d \in Dispatchers : /\ Settling(d, j) /\ disp[d].result # "ok"
                                    /\ outbox'[j] = FailedRow(outbox[j], d)

OwnerRetried(j) == \E r \in Requests : /\ outbox[j].status = "failed"
                                        /\ RetryUpdate(r) /\ req[r].job = j
                                        /\ outbox'[j] = RetriedRow(outbox[j], req[r].now)

RowStep(j) == \/ outbox'[j] = outbox[j]
              \/ Enqueued(j) \/ Claimed(j) \/ Completed(j) \/ Failed(j) \/ OwnerRetried(j)

LEMMA LeasedRow ==
  ASSUME TypeInv, NEW d \in Dispatchers, NEW k \in Jobs, disp[d].pc = "claim",
         \E c \in disp[d].todo : c.id = k,
         Claimable(outbox[k], disp[d].now), outbox' = Leased(k, d), NEW j \in Jobs
  PROVE  outbox'[j] = outbox[j] \/ Claimed(j)
<1>1. outbox \in [Jobs -> Row]
  BY DEF TypeInv, TypeOK
<1>2. CASE j = k
  BY <1>1, <1>2 DEF Leased, Claimed
<1>3. CASE j # k
  BY <1>1, <1>3 DEF Leased
<1>4. QED BY <1>2, <1>3

LEMMA CompletedRow ==
  ASSUME TypeInv, NEW d \in Dispatchers, disp[d].pc = "record", disp[d].result = "ok",
         CompleteOutboxJob(d), NEW j \in Jobs
  PROVE  outbox'[j] = outbox[j] \/ Completed(j)
<1>1. outbox \in [Jobs -> Row]
  BY DEF TypeInv, TypeOK
<1>2. CASE j = disp[d].job /\ HoldsLease(d, j)
  BY <1>1, <1>2 DEF CompleteOutboxJob, Completed, Settling
<1>3. CASE ~(j = disp[d].job /\ HoldsLease(d, j))
  BY <1>1, <1>3 DEF CompleteOutboxJob
<1>4. QED BY <1>2, <1>3

LEMMA FailedOneRow ==
  ASSUME TypeInv, NEW d \in Dispatchers, disp[d].pc = "record", disp[d].result # "ok",
         FailOutboxJob(d), NEW j \in Jobs
  PROVE  outbox'[j] = outbox[j] \/ Failed(j)
<1>1. outbox \in [Jobs -> Row]
  BY DEF TypeInv, TypeOK
<1>2. CASE j = disp[d].job /\ HoldsLease(d, j)
  BY <1>1, <1>2 DEF FailOutboxJob, Failed, Settling
<1>3. CASE ~(j = disp[d].job /\ HoldsLease(d, j))
  BY <1>1, <1>3 DEF FailOutboxJob
<1>4. QED BY <1>2, <1>3

LEMMA NextRowStep ==
  ASSUME TypeInv, [Next]_vars, NEW j \in Jobs
  PROVE  RowStep(j)
<1> USE DEF RowStep
<1>0. outbox \in [Jobs -> Row] /\ disp \in [Dispatchers -> Dispatch]
  BY DEF TypeInv, TypeOK
<1>1. CASE UNCHANGED outbox
  BY <1>1
<1>2. CASE Enqueue
  <2> PICK js \in SUBSET Jobs, at \in 0..clock :
        /\ \A k \in js : outbox[k].status = "absent"
        /\ outbox' = [k \in Jobs |-> IF k \in js
                       THEN [AbsentRow EXCEPT !.status = "pending", !.nextAttemptAt = at]
                       ELSE outbox[k]]
    BY <1>2 DEF Enqueue
  <2>1. CASE j \in js
    BY <2>1 DEF Enqueued, AbsentRow
  <2>2. CASE j \notin js
    BY <2>2
  <2>3. QED BY <2>1, <2>2
<1>3. ASSUME NEW d \in Dispatchers, Claim(d) \/ ClaimThrows(d) PROVE RowStep(j)
  <2>1. /\ disp[d].pc = "claim"
        /\ \/ UNCHANGED outbox
           \/ \E c \in Heads(disp[d].todo) : /\ Claimable(outbox[c.id], disp[d].now)
                                             /\ outbox' = Leased(c.id, d)
    BY <1>3 DEF Claim, ClaimThrows, ClaimWon, ClaimLost
  <2>2. \A c \in Heads(disp[d].todo) : c.id \in Jobs /\ c \in disp[d].todo
    BY <1>0 DEF Heads, Dispatch, Candidate
  <2>3. QED BY <1>1, <2>1, <2>2, LeasedRow
<1>4. ASSUME NEW d \in Dispatchers, Complete(d) \/ CompleteThrows(d) PROVE RowStep(j)
  BY <1>1, <1>4, CompletedRow DEF Complete, CompleteThrows
<1>5. ASSUME NEW d \in Dispatchers, Fail(d) \/ FailThrows(d) PROVE RowStep(j)
  BY <1>5, FailedOneRow DEF Fail, FailThrows
<1>6. ASSUME NEW r \in Requests, RetryUpdate(r) PROVE RowStep(j)
  BY <1>0, <1>6 DEF RetryUpdate, OwnerRetried
<1>7. QED
  <2>1. ASSUME NEW d \in Dispatchers,
               StartDispatch(d) \/ CronDispatch(d) \/ SelectJobs(d) \/ Deliver(d) \/ Crash(d)
        PROVE  UNCHANGED outbox
    BY <2>1 DEF StartDispatch, CronDispatch, Begin, SelectJobs, Deliver, Crash
  <2>2. ASSUME NEW r \in Requests, BeginRetry(r) \/ RetrySelect(r) \/ RetryCrash(r)
        PROVE  UNCHANGED outbox
    BY <2>2 DEF BeginRetry, RetrySelect, RetryCrash
  <2>3. Tick \/ UNCHANGED vars => UNCHANGED outbox
    BY DEF Tick, vars
  <2>4. QED
    BY <1>1, <1>2, <1>3, <1>4, <1>5, <1>6, <2>1, <2>2, <2>3
    DEF Next, DispatchStep, FaultStep, RetryStep

---------------------------------------------------------------------------
\* A delivery recorded as sent stays so, whatever late dispatcher reports and
\* however manual retries interleave with it.
THEOREM SentStays == Spec => SentIsFinal
<1>1. TypeInv /\ [Next]_vars =>
        \A j \in Jobs : outbox[j].status = "sent" => outbox'[j].status = "sent"
  <2> SUFFICES ASSUME TypeInv, [Next]_vars, NEW j \in Jobs, outbox[j].status = "sent"
               PROVE  outbox'[j].status = "sent"
    OBVIOUS
  <2>1. RowStep(j)
    BY NextRowStep
  <2>2. outbox'[j] = outbox[j]
    BY <2>1 DEF RowStep, Enqueued, Claimed, Claimable, Completed, Failed, Settling,
                HoldsLease, OwnerRetried
  <2>3. QED BY <2>2
<1>2. QED BY <1>1, TypeInit, TypeNext, PTL DEF Spec, SentIsFinal

---------------------------------------------------------------------------
(* Leases.                                                                 *)

\* Only a row that is being processed is leased, and no dispatch works with a
\* time that has not come.
LeaseInv == /\ \A j \in Jobs : outbox[j].leaseToken # NoOne => outbox[j].status = "processing"
            /\ \A d \in Dispatchers : disp[d].now <= clock

LEMMA NowStep ==
  ASSUME TypeInv, [Next]_vars, NEW d \in Dispatchers
  PROVE  disp'[d].now \in {disp[d].now, 0, clock}
<1>0. disp \in [Dispatchers -> Dispatch]
  BY DEF TypeInv, TypeOK
<1>1. ASSUME NEW e \in Dispatchers, NEW rest, Continue(e, rest) \/ Return(e)
      PROVE  disp'[d].now \in {disp[d].now, 0, clock}
  <2> DEFINE next == [disp[e] EXCEPT !.pc = "claim", !.todo = rest, !.job = NoOne,
                                     !.attempts = 0, !.since = 0, !.result = "none"]
  <2>1. disp' = [disp EXCEPT ![e] = IdleDispatch] \/ disp' = [disp EXCEPT ![e] = next]
    BY <1>1 DEF Continue, Return
  <2>2. IdleDispatch.now = 0 /\ next.now = disp[e].now
    BY <1>0 DEF IdleDispatch, Dispatch
  <2> HIDE DEF next
  <2>3. QED BY <1>0, <2>1, <2>2
<1>2. ASSUME NEW e \in Dispatchers, StartDispatch(e) \/ CronDispatch(e)
      PROVE  disp'[d].now \in {disp[d].now, 0, clock}
  BY <1>0, <1>2 DEF StartDispatch, CronDispatch, Begin, Dispatch
<1>3. ASSUME NEW e \in Dispatchers, Claim(e)
      PROVE  disp'[d].now \in {disp[d].now, 0, clock}
  <2>1. PICK c \in Heads(disp[e].todo) : ClaimWon(e, c) \/ ClaimLost(e, c)
    BY <1>3 DEF Claim
  <2>2. CASE ClaimWon(e, c)
    <3>1. Invoke(e, c).now = disp[e].now
      BY <1>0 DEF Invoke, Dispatch
    <3>2. QED BY <1>0, <2>2, <3>1 DEF ClaimWon
  <2>3. CASE ClaimLost(e, c)
    BY <1>1, <2>3 DEF ClaimLost
  <2>4. QED BY <2>1, <2>2, <2>3
<1>4. ASSUME NEW e \in Dispatchers, Deliver(e) \/ CompleteThrows(e)
      PROVE  disp'[d].now \in {disp[d].now, 0, clock}
  <2>1. PICK result \in Result :
          \/ disp' = [disp EXCEPT ![e] = [@ EXCEPT !.pc = "record", !.result = result]]
          \/ disp' = [disp EXCEPT ![e] = [@ EXCEPT !.result = "retryable"]]
    BY <1>4 DEF Deliver, CompleteThrows, Result
  <2>2. /\ [disp[e] EXCEPT !.pc = "record", !.result = result].now = disp[e].now
        /\ [disp[e] EXCEPT !.result = "retryable"].now = disp[e].now
    BY <1>0 DEF Dispatch
  <2>3. CASE e = d
    BY <1>0, <2>1, <2>2, <2>3
  <2>4. CASE e # d
    BY <1>0, <2>1, <2>4
  <2>5. QED BY <2>3, <2>4
<1>5. ASSUME NEW e \in Dispatchers,
             SelectJobs(e) \/ Complete(e) \/ Fail(e) \/ ClaimThrows(e) \/ FailThrows(e) \/ Crash(e)
      PROVE  disp'[d].now \in {disp[d].now, 0, clock}
  BY <1>1, <1>5 DEF SelectJobs, Complete, Fail, ClaimThrows, FailThrows, Crash
<1>6. ASSUME UNCHANGED disp PROVE disp'[d].now \in {disp[d].now, 0, clock}
  BY <1>6
<1>7. QED
  <2>1. ASSUME NEW r \in Requests, BeginRetry(r) \/ RetryStep(r) \/ RetryCrash(r)
        PROVE  UNCHANGED disp
    BY <2>1 DEF BeginRetry, RetryStep, RetrySelect, RetryUpdate, RetryCrash
  <2>2. Enqueue \/ Tick \/ UNCHANGED vars => UNCHANGED disp
    BY DEF Enqueue, Tick, vars
  <2>3. QED BY <1>2, <1>3, <1>4, <1>5, <1>6, <2>1, <2>2 DEF Next, DispatchStep, FaultStep

LEMMA ClockStep == TypeInv /\ [Next]_vars => clock' \in {clock, clock + 1}
<1> SUFFICES ASSUME TypeInv, [Next]_vars PROVE clock' \in {clock, clock + 1}
  OBVIOUS
<1> USE DEF Enqueue, StartDispatch, CronDispatch, Begin, BeginRetry, RetryCrash, Tick
<1>1. ASSUME NEW d \in Dispatchers, DispatchStep(d) PROVE UNCHANGED clock
  BY <1>1 DEF DispatchStep, SelectJobs, Claim, Deliver, Complete, Fail
<1>2. ASSUME NEW d \in Dispatchers, FaultStep(d) PROVE UNCHANGED clock
  BY <1>2 DEF FaultStep, ClaimThrows, CompleteThrows, FailThrows, Crash
<1>3. ASSUME NEW r \in Requests, RetryStep(r) PROVE UNCHANGED clock
  BY <1>3 DEF RetryStep, RetrySelect, RetryUpdate
<1>4. QED BY <1>1, <1>2, <1>3 DEF Next, vars

LEMMA LeaseInvInductive ==
  /\ Init => LeaseInv
  /\ TypeInv /\ LeaseInv /\ [Next]_vars => LeaseInv'
<1>1. Init => LeaseInv
  BY DEF Init, LeaseInv, AbsentRow, IdleDispatch
<1>2. ASSUME TypeInv, LeaseInv, [Next]_vars PROVE LeaseInv'
  <2>1. ASSUME NEW j \in Jobs, outbox'[j].leaseToken # NoOne
        PROVE  outbox'[j].status = "processing"
    <3>0. outbox[j] \in Row
      BY <1>2 DEF TypeInv, TypeOK
    <3>1. CASE outbox'[j] = outbox[j]
      BY <1>2, <2>1, <3>1 DEF LeaseInv
    <3>2. CASE Claimed(j)
      BY <3>0, <3>2 DEF Claimed, Row
    <3>3. CASE Enqueued(j)
      BY <2>1, <3>3 DEF Enqueued
    <3>4. CASE Completed(j)
      BY <2>1, <3>0, <3>4 DEF Completed, SentRow, Row
    <3>5. CASE Failed(j)
      BY <2>1, <3>0, <3>5 DEF Failed, FailedRow, Row
    <3>6. CASE OwnerRetried(j)
      BY <2>1, <3>0, <3>6 DEF OwnerRetried, RetriedRow, Row
    <3>7. QED BY <1>2, <3>1, <3>2, <3>3, <3>4, <3>5, <3>6, NextRowStep DEF RowStep
  <2>2. ASSUME NEW d \in Dispatchers PROVE disp'[d].now <= clock'
    <3>1. disp[d].now \in Nat /\ clock \in Nat /\ disp[d].now <= clock
      BY <1>2 DEF TypeInv, TypeOK, Dispatch, Time, LeaseInv
    <3>2. QED BY <1>2, <3>1, NowStep, ClockStep
  <2>3. QED BY <2>1, <2>2 DEF LeaseInv
<1>3. QED BY <1>1, <1>2

\* Until a lease runs out, only its holder settles or releases the row.
THEOREM LeasesHonoured == Spec => LeaseHonoured
<1>1. TypeInv /\ LeaseInv /\ [Next]_vars =>
        \A j \in Jobs, d \in Dispatchers :
          (outbox[j].leaseToken = d /\ outbox'[j].leaseToken # d)
            => \/ outbox[j].lockedUntil <= clock
               \/ disp[d].pc = "record" /\ disp[d].job = j
  <2> SUFFICES ASSUME TypeInv, LeaseInv, [Next]_vars, NEW j \in Jobs, NEW d \in Dispatchers,
                      outbox[j].leaseToken = d, outbox'[j].leaseToken # d
               PROVE  \/ outbox[j].lockedUntil <= clock
                      \/ disp[d].pc = "record" /\ disp[d].job = j
    OBVIOUS
  <2>1. outbox[j].status = "processing" /\ outbox'[j] # outbox[j]
    BY OutboxAssumption DEF LeaseInv
  <2>2. Claimed(j) \/ Completed(j) \/ Failed(j)
    BY <2>1, NextRowStep DEF RowStep, Enqueued, OwnerRetried
  <2>3. CASE Claimed(j)
    <3>1. PICK e \in Dispatchers : Claimable(outbox[j], disp[e].now)
      BY <2>3 DEF Claimed
    <3>2. outbox[j].lockedUntil <= disp[e].now /\ outbox[j].lockedUntil # Null
      BY <2>1, <3>1 DEF Claimable
    <3>3. outbox[j].lockedUntil \in Nat /\ disp[e].now \in Nat /\ clock \in Nat
      BY <3>2 DEF TypeInv, TypeOK, Row, NullableTime, Time, Dispatch
    <3>4. QED BY <3>2, <3>3 DEF LeaseInv
  <2>4. CASE Completed(j) \/ Failed(j)
    BY <2>4 DEF Completed, Failed, Settling, HoldsLease
  <2>5. QED BY <2>2, <2>3, <2>4
<1>2. QED
  BY <1>1, TypeInit, TypeNext, LeaseInvInductive, PTL DEF Spec, LeaseHonoured

---------------------------------------------------------------------------
(* What is sent was accepted.                                              *)

SentInv == AnswerKnown /\ SentMeansAccepted

LEMMA AcceptedGrows ==
  ASSUME TypeInv, [Next]_vars, NEW j \in Jobs
  PROVE  accepted[j] => accepted'[j]
<1>0. accepted \in [Jobs -> BOOLEAN]
  BY DEF TypeInv, TypeOK
<1>1. ASSUME NEW d \in Dispatchers, Deliver(d) \/ Crash(d) PROVE accepted[j] => accepted'[j]
  BY <1>0, <1>1 DEF Deliver, Crash
<1>2. ASSUME NEW d \in Dispatchers,
             \/ StartDispatch(d) \/ CronDispatch(d) \/ SelectJobs(d) \/ Claim(d) \/ Complete(d)
             \/ Fail(d) \/ ClaimThrows(d) \/ CompleteThrows(d) \/ FailThrows(d)
      PROVE  UNCHANGED accepted
  BY <1>2 DEF StartDispatch, CronDispatch, Begin, SelectJobs, Claim, Complete, Fail,
              ClaimThrows, CompleteThrows, FailThrows
<1>3. ASSUME NEW r \in Requests, BeginRetry(r) \/ RetryStep(r) \/ RetryCrash(r)
      PROVE  UNCHANGED accepted
  BY <1>3 DEF BeginRetry, RetryStep, RetrySelect, RetryUpdate, RetryCrash
<1>4. Enqueue \/ Tick \/ UNCHANGED vars => UNCHANGED accepted
  BY DEF Enqueue, Tick, vars
<1>5. QED BY <1>1, <1>2, <1>3, <1>4 DEF Next, DispatchStep, FaultStep

LEMMA RecordStep ==
  ASSUME TypeInv, [Next]_vars, NEW d \in Dispatchers, disp'[d].pc = "record"
  PROVE  disp'[d] = disp[d] \/ Deliver(d) \/ CompleteThrows(d)
<1>0. disp \in [Dispatchers -> Dispatch]
  BY DEF TypeInv, TypeOK
<1>1. ASSUME NEW e \in Dispatchers, NEW rest \in SUBSET Candidate, Continue(e, rest)
      PROVE  disp'[d] = disp[d]
  BY <1>1, ContinueType
<1>2. ASSUME NEW e \in Dispatchers, Return(e) PROVE disp'[d] = disp[d]
  BY <1>0, <1>2 DEF Return, IdleDispatch
<1>3. ASSUME NEW e \in Dispatchers, StartDispatch(e) \/ CronDispatch(e)
      PROVE  disp'[d] = disp[d]
  BY <1>0, <1>3 DEF StartDispatch, CronDispatch, Begin, Dispatch
<1>4. ASSUME NEW e \in Dispatchers, SelectJobs(e) PROVE disp'[d] = disp[d]
  <2>1. PICK b \in Batches(disp[e].now) : Continue(e, {Snapshot(j) : j \in b})
    BY <1>4 DEF SelectJobs
  <2>2. {Snapshot(j) : j \in b} \in SUBSET Candidate
    BY DEF TypeInv, TypeOK, Batches, Snapshot, Candidate, Row
  <2>3. QED BY <1>1, <2>1, <2>2
<1>5. ASSUME NEW e \in Dispatchers, Claim(e) PROVE disp'[d] = disp[d]
  <2>1. PICK c \in Heads(disp[e].todo) : ClaimWon(e, c) \/ ClaimLost(e, c)
    BY <1>5 DEF Claim
  <2>2. CASE ClaimWon(e, c)
    <3>1. Invoke(e, c).pc = "deliver"
      BY <1>0 DEF Invoke, Dispatch
    <3>2. QED BY <1>0, <2>2, <3>1 DEF ClaimWon
  <2>3. CASE ClaimLost(e, c)
    <3>1. disp[e].todo \ {c} \in SUBSET Candidate
      BY <1>0 DEF Dispatch
    <3>2. QED BY <1>1, <2>3, <3>1 DEF ClaimLost
  <2>4. QED BY <2>1, <2>2, <2>3
<1>6. ASSUME NEW e \in Dispatchers, Complete(e) \/ Fail(e) PROVE disp'[d] = disp[d]
  <2>1. disp[e].todo \in SUBSET Candidate
    BY <1>0 DEF Dispatch
  <2>2. QED BY <1>1, <1>6, <2>1 DEF Complete, Fail
<1>7. ASSUME NEW e \in Dispatchers, Deliver(e) \/ CompleteThrows(e)
      PROVE  disp'[d] = disp[d] \/ e = d
  BY <1>0, <1>7 DEF Deliver, CompleteThrows
<1>8. ASSUME NEW e \in Dispatchers, ClaimThrows(e) \/ FailThrows(e) \/ Crash(e)
      PROVE  disp'[d] = disp[d]
  BY <1>2, <1>8 DEF ClaimThrows, FailThrows, Crash
<1>9. ASSUME NEW r \in Requests, BeginRetry(r) \/ RetryStep(r) \/ RetryCrash(r)
      PROVE  UNCHANGED disp
  BY <1>9 DEF BeginRetry, RetryStep, RetrySelect, RetryUpdate, RetryCrash
<1>10. Enqueue \/ Tick \/ UNCHANGED vars => UNCHANGED disp
  BY DEF Enqueue, Tick, vars
<1>11. QED
  BY <1>3, <1>4, <1>5, <1>6, <1>7, <1>8, <1>9, <1>10 DEF Next, DispatchStep, FaultStep

LEMMA SentInvInductive ==
  /\ Init => SentInv
  /\ TypeInv /\ SentInv /\ [Next]_vars => SentInv'
<1>1. Init => SentInv
  BY DEF Init, SentInv, AnswerKnown, SentMeansAccepted, AbsentRow, IdleDispatch
<1>2. ASSUME TypeInv, SentInv, [Next]_vars PROVE SentInv'
  <2>0. disp \in [Dispatchers -> Dispatch] /\ accepted \in [Jobs -> BOOLEAN] /\ JobKnown
    BY <1>2 DEF TypeInv, TypeOK
  <2>1. ASSUME NEW d \in Dispatchers, disp'[d].pc = "record"
        PROVE  /\ disp'[d].result # "none"
               /\ disp'[d].result = "ok" => accepted'[disp'[d].job]
    <3>1. CASE disp'[d] = disp[d]
      <4>1. disp[d].job \in Jobs
        BY <2>0, <2>1, <3>1 DEF JobKnown
      <4>2. QED BY <1>2, <2>1, <3>1, <4>1, AcceptedGrows DEF SentInv, AnswerKnown
    <3>2. CASE Deliver(d)
      <4>1. PICK result \in Result \ {"none"}, taken \in BOOLEAN :
              /\ result = "ok" => taken
              /\ disp' = [disp EXCEPT ![d] = [@ EXCEPT !.pc = "record", !.result = result]]
              /\ accepted' = [accepted EXCEPT ![disp[d].job] = @ \/ taken]
        BY <3>2 DEF Deliver
      <4>2. disp[d].job \in Jobs
        BY <2>0, <3>2 DEF JobKnown, Deliver
      <4>3. disp'[d].result = result /\ disp'[d].job = disp[d].job
        BY <2>0, <4>1 DEF Dispatch
      <4>4. taken => accepted'[disp[d].job]
        BY <2>0, <4>1, <4>2
      <4>5. QED BY <4>1, <4>3, <4>4
    <3>3. CASE CompleteThrows(d)
      BY <2>0, <3>3 DEF CompleteThrows, Dispatch
    <3>4. QED BY <1>2, <2>1, <3>1, <3>2, <3>3, RecordStep
  <2>2. ASSUME NEW j \in Jobs, outbox'[j].status = "sent" PROVE accepted'[j]
    <3>0. outbox[j] \in Row
      BY <1>2 DEF TypeInv, TypeOK
    <3>1. CASE outbox'[j] = outbox[j]
      BY <1>2, <2>2, <3>1, AcceptedGrows DEF SentInv, SentMeansAccepted
    <3>2. CASE Completed(j)
      BY <1>2, <3>2, AcceptedGrows DEF Completed, Settling, SentInv, AnswerKnown
    <3>3. CASE Enqueued(j) \/ Claimed(j)
      BY <2>2, <3>0, <3>3 DEF Enqueued, Claimed, Row
    <3>4. CASE Failed(j)
      BY <2>2, <3>0, <3>4 DEF Failed, FailedRow, Row
    <3>5. CASE OwnerRetried(j)
      BY <2>2, <3>0, <3>5 DEF OwnerRetried, RetriedRow, Row
    <3>6. QED BY <1>2, <3>1, <3>2, <3>3, <3>4, <3>5, NextRowStep DEF RowStep
  <2>3. QED BY <2>1, <2>2 DEF SentInv, AnswerKnown, SentMeansAccepted
<1>3. QED BY <1>1, <1>2

\* A delivery recorded as sent was accepted by a provider, however many
\* dispatchers overlap, lose their leases, are killed or see D1 fail.
THEOREM SentWasAccepted == Spec => []SentMeansAccepted
<1>1. SentInv => SentMeansAccepted
  BY DEF SentInv
<1>2. QED BY <1>1, TypeInit, TypeNext, SentInvInductive, PTL DEF Spec

\* A row that waits for an automatic attempt still has one left.
THEOREM AttemptsBounded == Spec => []AttemptsLeft
<1>1. Init => AttemptsLeft
  BY DEF Init, AttemptsLeft, AbsentRow
<1>2. ASSUME TypeInv, AttemptsLeft, [Next]_vars PROVE AttemptsLeft'
  <2> SUFFICES ASSUME NEW j \in Jobs, outbox'[j].status \in {"pending", "processing"}
               PROVE  outbox'[j].attempts < MaxAttempts
    BY DEF AttemptsLeft
  <2>0. outbox[j] \in Row /\ 0 < MaxAttempts
    BY <1>2, DispatchTimeAssumption DEF TypeInv, TypeOK
  <2>1. CASE outbox'[j] = outbox[j]
    BY <1>2, <2>1 DEF AttemptsLeft
  <2>2. CASE Enqueued(j)
    BY <2>0, <2>2 DEF Enqueued
  <2>3. CASE Claimed(j)
    BY <1>2, <2>0, <2>3 DEF Claimed, Claimable, Row, AttemptsLeft
  <2>4. CASE Completed(j)
    BY <2>0, <2>4 DEF Completed, SentRow, Row
  <2>5. CASE Failed(j)
    <3>1. PICK d \in Dispatchers : outbox'[j] = FailedRow(outbox[j], d)
      BY <2>5 DEF Failed
    <3>2. /\ outbox'[j].attempts = disp[d].attempts + 1
          /\ disp[d].attempts + 1 >= MaxAttempts => outbox'[j].status = "failed"
      BY <2>0, <3>1 DEF FailedRow, Row
    <3>3. disp[d].attempts \in Nat /\ MaxAttempts \in Nat
      BY <1>2, DispatchTimeAssumption DEF TypeInv, TypeOK, Dispatch
    <3>4. QED BY <3>2, <3>3
  <2>6. CASE OwnerRetried(j)
    BY <2>0, <2>6 DEF OwnerRetried, RetriedRow, Row
  <2>7. QED BY <1>2, <2>1, <2>2, <2>3, <2>4, <2>5, <2>6, NextRowStep DEF RowStep
<1>3. QED BY <1>1, <1>2, TypeInit, TypeNext, PTL DEF Spec

---------------------------------------------------------------------------
(* The outbox implements DeliveryLifecycle.                                *)

\* The delivery a dispatch calls the provider for has been enqueued.
JobPresent == \A d \in Dispatchers : disp[d].pc = "deliver"
                                        => outbox[disp[d].job].status # "absent"

LEMMA PresentStays ==
  ASSUME TypeInv, [Next]_vars, NEW j \in Jobs, outbox[j].status # "absent"
  PROVE  outbox'[j].status # "absent"
<1>0. outbox[j] \in Row
  BY DEF TypeInv, TypeOK
<1>1. CASE outbox'[j] = outbox[j] \/ Enqueued(j)
  BY <1>1 DEF Enqueued
<1>2. CASE Claimed(j)
  BY <1>0, <1>2 DEF Claimed, Row
<1>3. CASE Completed(j) \/ Failed(j)
  BY <1>0, <1>3 DEF Completed, Failed, SentRow, FailedRow, Row
<1>4. CASE OwnerRetried(j)
  BY <1>0, <1>4 DEF OwnerRetried, RetriedRow, Row
<1>5. QED BY <1>1, <1>2, <1>3, <1>4, NextRowStep DEF RowStep

\* A dispatch enters a provider call only by winning a claim.
LEMMA DeliverStep ==
  ASSUME TypeInv, [Next]_vars, NEW d \in Dispatchers, disp'[d].pc = "deliver"
  PROVE  \/ disp'[d] = disp[d]
         \/ \E c \in Candidate : ClaimWon(d, c)
<1>0. disp \in [Dispatchers -> Dispatch]
  BY DEF TypeInv, TypeOK
<1>1. ASSUME NEW e \in Dispatchers, NEW rest \in SUBSET Candidate, Continue(e, rest)
      PROVE  disp'[d] = disp[d]
  BY <1>1, ContinueType
<1>2. ASSUME NEW e \in Dispatchers, Return(e) PROVE disp'[d] = disp[d]
  BY <1>0, <1>2 DEF Return, IdleDispatch
<1>3. ASSUME NEW e \in Dispatchers, StartDispatch(e) \/ CronDispatch(e)
      PROVE  disp'[d] = disp[d]
  BY <1>0, <1>3 DEF StartDispatch, CronDispatch, Begin, Dispatch
<1>4. ASSUME NEW e \in Dispatchers, SelectJobs(e) PROVE disp'[d] = disp[d]
  <2>1. PICK b \in Batches(disp[e].now) : Continue(e, {Snapshot(j) : j \in b})
    BY <1>4 DEF SelectJobs
  <2>2. {Snapshot(j) : j \in b} \in SUBSET Candidate
    BY DEF TypeInv, TypeOK, Batches, Snapshot, Candidate, Row
  <2>3. QED BY <1>1, <2>1, <2>2
<1>5. ASSUME NEW e \in Dispatchers, Claim(e)
      PROVE  disp'[d] = disp[d] \/ \E c \in Candidate : ClaimWon(d, c)
  <2>1. PICK c \in Heads(disp[e].todo) : ClaimWon(e, c) \/ ClaimLost(e, c)
    BY <1>5 DEF Claim
  <2>2. c \in Candidate /\ disp[e].todo \ {c} \in SUBSET Candidate
    BY <1>0 DEF Heads, Dispatch
  <2>3. CASE ClaimWon(e, c) /\ e # d
    BY <1>0, <2>3 DEF ClaimWon
  <2>4. CASE ClaimWon(e, c) /\ e = d
    BY <2>2, <2>4
  <2>5. CASE ClaimLost(e, c)
    BY <1>1, <2>2, <2>5 DEF ClaimLost
  <2>6. QED BY <2>1, <2>3, <2>4, <2>5
<1>6. ASSUME NEW e \in Dispatchers, Complete(e) \/ Fail(e) PROVE disp'[d] = disp[d]
  <2>1. disp[e].todo \in SUBSET Candidate
    BY <1>0 DEF Dispatch
  <2>2. QED BY <1>1, <1>6, <2>1 DEF Complete, Fail
<1>7. ASSUME NEW e \in Dispatchers, Deliver(e) PROVE disp'[d] = disp[d]
  <2>1. PICK result \in Result :
          disp' = [disp EXCEPT ![e] = [@ EXCEPT !.pc = "record", !.result = result]]
    BY <1>7 DEF Deliver
  <2>2. [disp[e] EXCEPT !.pc = "record", !.result = result].pc = "record"
    BY <1>0 DEF Dispatch
  <2>3. QED BY <1>0, <2>1, <2>2
<1>8. ASSUME NEW e \in Dispatchers, CompleteThrows(e) PROVE disp'[d] = disp[d]
  <2>1. disp' = [disp EXCEPT ![e] = [@ EXCEPT !.result = "retryable"]] /\ disp[e].pc = "record"
    BY <1>8 DEF CompleteThrows
  <2>2. [disp[e] EXCEPT !.result = "retryable"].pc = "record"
    BY <1>0, <2>1 DEF Dispatch
  <2>3. QED BY <1>0, <2>1, <2>2
<1>9. ASSUME NEW e \in Dispatchers, ClaimThrows(e) \/ FailThrows(e) \/ Crash(e)
      PROVE  disp'[d] = disp[d]
  BY <1>2, <1>9 DEF ClaimThrows, FailThrows, Crash
<1>10. ASSUME NEW r \in Requests, BeginRetry(r) \/ RetryStep(r) \/ RetryCrash(r)
       PROVE  UNCHANGED disp
  BY <1>10 DEF BeginRetry, RetryStep, RetrySelect, RetryUpdate, RetryCrash
<1>11. Enqueue \/ Tick \/ UNCHANGED vars => UNCHANGED disp
  BY DEF Enqueue, Tick, vars
<1>12. QED
  BY <1>3, <1>4, <1>5, <1>6, <1>7, <1>8, <1>9, <1>10, <1>11
  DEF Next, DispatchStep, FaultStep

LEMMA JobPresentInductive ==
  /\ Init => JobPresent
  /\ TypeInv /\ JobPresent /\ [Next]_vars => JobPresent'
<1>1. Init => JobPresent
  BY DEF Init, JobPresent, IdleDispatch
<1>2. ASSUME TypeInv, JobPresent, [Next]_vars, NEW d \in Dispatchers, disp'[d].pc = "deliver"
      PROVE  outbox'[disp'[d].job].status # "absent"
  <2>1. CASE disp'[d] = disp[d]
    <3>1. disp[d].job \in Jobs /\ outbox[disp[d].job].status # "absent"
      BY <1>2, <2>1 DEF TypeInv, JobKnown, JobPresent
    <3>2. QED BY <1>2, <2>1, <3>1, PresentStays
  <2>2. ASSUME NEW c \in Candidate, ClaimWon(d, c)
        PROVE  outbox'[disp'[d].job].status # "absent"
    <3>0. c.id \in Jobs /\ disp \in [Dispatchers -> Dispatch]
      BY <1>2 DEF Candidate, TypeInv, TypeOK
    <3>1. disp'[d].job = c.id
      <4>1. Invoke(d, c).job = c.id
        BY <3>0 DEF Invoke, Dispatch
      <4>2. QED BY <2>2, <3>0, <4>1 DEF ClaimWon
    <3>2. outbox[c.id].status # "absent"
      BY <2>2 DEF ClaimWon, Claimable
    <3>3. QED BY <1>2, <3>0, <3>1, <3>2, PresentStays
  <2>3. QED BY <1>2, <2>1, <2>2, DeliverStep
<1>3. QED BY <1>1, <1>2 DEF JobPresent

---------------------------------------------------------------------------
(* Two dispatchers call a provider for one delivery only past a lease.      *)

\* A dispatch in a provider call whose lease has not run out still holds it.
Entitled ==
  \A d \in Dispatchers, j \in Jobs :
    Invoking(d, j) /\ ~LeaseOver(d)
      => /\ outbox[j].status = "processing" /\ outbox[j].leaseToken = d
         /\ outbox[j].lockedUntil = disp[d].now + Lease

\* The row of a dispatch that keeps calling its provider within its lease.
LEMMA EntitledRowStays ==
  ASSUME TypeInv, LeaseInv, Entitled, [Next]_vars,
         NEW d \in Dispatchers, NEW j \in Jobs, Invoking(d, j), ~LeaseOver(d)
  PROVE  outbox'[j] = outbox[j]
<1>1. /\ outbox[j].status = "processing" /\ outbox[j].leaseToken = d
      /\ outbox[j].lockedUntil = disp[d].now + Lease
  BY DEF Entitled
<1>2. ~Claimed(j)
  <2>1. SUFFICES ASSUME NEW e \in Dispatchers, Claimable(outbox[j], disp[e].now) PROVE FALSE
    BY DEF Claimed
  <2>2. disp[d].now + Lease <= disp[e].now
    BY <1>1, <2>1 DEF Claimable
  <2>3. disp[e].now <= clock
    BY DEF LeaseInv
  <2>4. disp[d].now \in Nat /\ disp[e].now \in Nat /\ clock \in Nat /\ Lease \in Nat
    BY DispatchTimeAssumption DEF TypeInv, TypeOK, Dispatch, Time
  <2>5. QED BY <2>2, <2>3, <2>4 DEF LeaseOver
<1>3. ~Completed(j) /\ ~Failed(j)
  BY <1>1 DEF Completed, Failed, Settling, HoldsLease, Invoking
<1>4. ~Enqueued(j) /\ ~OwnerRetried(j)
  BY <1>1 DEF Enqueued, OwnerRetried
<1>5. QED BY <1>2, <1>3, <1>4, NextRowStep DEF RowStep

\* A dispatch that wins a claim holds the lease it asked for.
LEMMA WinnerEntitled ==
  ASSUME TypeInv, NEW d \in Dispatchers, NEW c \in Candidate, ClaimWon(d, c)
  PROVE  /\ disp'[d].job = c.id /\ disp'[d].now = disp[d].now
         /\ outbox'[c.id].status = "processing" /\ outbox'[c.id].leaseToken = d
         /\ outbox'[c.id].lockedUntil = disp[d].now + Lease
<1>0. /\ disp \in [Dispatchers -> Dispatch] /\ outbox \in [Jobs -> Row] /\ c.id \in Jobs
  BY DEF TypeInv, TypeOK, Candidate
<1>1. Invoke(d, c).job = c.id /\ Invoke(d, c).now = disp[d].now
  BY <1>0 DEF Invoke, Dispatch
<1>2. disp'[d] = Invoke(d, c)
  BY <1>0 DEF ClaimWon
<1>3. outbox'[c.id] = [outbox[c.id] EXCEPT !.status = "processing",
                                          !.lockedUntil = disp[d].now + Lease,
                                          !.leaseToken = d]
  BY <1>0 DEF ClaimWon, Leased
<1>4. outbox[c.id] \in Row
  BY <1>0
<1>5. QED BY <1>1, <1>2, <1>3, <1>4 DEF Row

LEMMA EntitledInductive ==
  /\ Init => Entitled
  /\ TypeInv /\ LeaseInv /\ Entitled /\ [Next]_vars => Entitled'
<1>1. Init => Entitled
  BY DEF Init, Entitled, Invoking, IdleDispatch
<1>2. ASSUME TypeInv, LeaseInv, Entitled, [Next]_vars,
             NEW d \in Dispatchers, NEW j \in Jobs, Invoking(d, j)', ~LeaseOver(d)'
      PROVE  /\ outbox'[j].status = "processing" /\ outbox'[j].leaseToken = d
             /\ outbox'[j].lockedUntil = disp'[d].now + Lease
  <2>1. CASE disp'[d] = disp[d]
    <3>1. disp[d].now \in Nat /\ clock \in Nat /\ Lease \in Nat
      BY <1>2, DispatchTimeAssumption DEF TypeInv, TypeOK, Dispatch, Time
    <3>2. Invoking(d, j) /\ ~LeaseOver(d)
      BY <1>2, <2>1, <3>1, ClockStep DEF Invoking, LeaseOver
    <3>3. outbox'[j] = outbox[j]
      BY <1>2, <3>2, EntitledRowStays
    <3>4. QED BY <1>2, <2>1, <3>2, <3>3 DEF Entitled
  <2>2. ASSUME NEW c \in Candidate, ClaimWon(d, c)
        PROVE  /\ outbox'[j].status = "processing" /\ outbox'[j].leaseToken = d
               /\ outbox'[j].lockedUntil = disp'[d].now + Lease
    <3>1. j = c.id
      BY <1>2, <2>2, WinnerEntitled DEF Invoking
    <3>2. QED BY <1>2, <2>2, <3>1, WinnerEntitled
  <2>3. QED BY <1>2, <2>1, <2>2, DeliverStep DEF Invoking
<1>3. Entitled' <=> \A d \in Dispatchers, j \in Jobs :
        Invoking(d, j)' /\ ~LeaseOver(d)'
          => /\ outbox'[j].status = "processing" /\ outbox'[j].leaseToken = d
             /\ outbox'[j].lockedUntil = disp'[d].now + Lease
  BY DEF Entitled
<1>4. QED BY <1>1, <1>2, <1>3

\* Two dispatchers are in a provider call for one delivery at once only when the
\* lease of one of them has run out, in whatever way the others crash, fail,
\* overlap or are overtaken by the owner's retries.
THEOREM DeliveriesExclusive == Spec => []ExclusiveWhileLeased
<1>1. Entitled => ExclusiveWhileLeased
  BY DEF Entitled, ExclusiveWhileLeased
<1>2. QED
  BY <1>1, TypeInit, TypeNext, LeaseInvInductive, EntitledInductive, PTL DEF Spec

---------------------------------------------------------------------------
\* The owner's view of the outbox, the refinement mapping.
View == [j \in Jobs |-> PhaseOf(outbox[j].status)]

\* A step that touches one row at most touches one phase at most.
LEMMA OneRow ==
  ASSUME TypeInv, [Next]_vars, NEW j \in Jobs,
         \A k \in Jobs : k # j => outbox'[k] = outbox[k]
  PROVE  View' = [View EXCEPT ![j] = PhaseOf(outbox'[j].status)]
BY DEF View

LEMMA OnePhase ==
  ASSUME TypeInv, [Next]_vars, NEW j \in Jobs,
         \A k \in Jobs : k # j => outbox'[k] = outbox[k],
         UNCHANGED accepted, ~Enqueued(j), SentInv
  PROVE  [Lifecycle!Next]_(Lifecycle!vars)
<1> USE DEF PhaseOf
<1>0. outbox[j] \in Row /\ outbox \in [Jobs -> Row]
  BY DEF TypeInv, TypeOK
<1>1. View' = [View EXCEPT ![j] = PhaseOf(outbox'[j].status)]
  BY OneRow
<1>2. ASSUME PhaseOf(outbox'[j].status) = PhaseOf(outbox[j].status)
      PROVE  UNCHANGED Lifecycle!vars
  <2>1. View' = View
    BY <1>1, <1>2 DEF View
  <2>2. QED BY <2>1 DEF View, Lifecycle!vars
<1>3. CASE outbox'[j] = outbox[j]
  BY <1>2, <1>3
<1>4. CASE Claimed(j)
  <2>1. outbox[j].status \in {"pending", "processing"} /\ outbox'[j].status = "processing"
    BY <1>0, <1>4 DEF Claimed, Claimable, Row
  <2>2. QED BY <1>2, <2>1
<1>5. CASE Completed(j)
  <2>1. outbox[j].status = "processing" /\ outbox'[j].status = "sent"
    BY <1>0, <1>5 DEF Completed, Settling, HoldsLease, SentRow, Row
  <2>2. accepted[j]
    BY <1>5 DEF Completed, Settling, SentInv, AnswerKnown
  <2>3. Lifecycle!RecordSent(j)
    BY <1>1, <2>1, <2>2 DEF Lifecycle!RecordSent, View
  <2>4. QED BY <2>3 DEF Lifecycle!Next
<1>6. CASE Failed(j)
  <2>1. outbox[j].status = "processing" /\ outbox'[j].status \in {"pending", "failed"}
    BY <1>0, <1>6 DEF Failed, Settling, HoldsLease, FailedRow, Row
  <2>2. CASE outbox'[j].status = "pending"
    BY <1>2, <2>1, <2>2
  <2>3. CASE outbox'[j].status = "failed"
    <3>1. Lifecycle!GiveUp(j)
      BY <1>1, <2>1, <2>3 DEF Lifecycle!GiveUp, View
    <3>2. QED BY <3>1 DEF Lifecycle!Next
  <2>4. QED BY <2>1, <2>2, <2>3
<1>7. CASE OwnerRetried(j)
  <2>1. outbox[j].status = "failed" /\ outbox'[j].status = "pending"
    BY <1>0, <1>7 DEF OwnerRetried, RetriedRow, Row
  <2>2. Lifecycle!OwnerRetry(j)
    BY <1>1, <2>1 DEF Lifecycle!OwnerRetry, View
  <2>3. QED BY <2>2 DEF Lifecycle!Next
<1>8. QED BY <1>3, <1>4, <1>5, <1>6, <1>7, NextRowStep DEF RowStep

LEMMA SameView ==
  ASSUME UNCHANGED <<outbox, accepted>>
  PROVE  [Lifecycle!Next]_(Lifecycle!vars)
BY DEF Lifecycle!vars

LEMMA StepImplements ==
  ASSUME TypeInv, SentInv, JobPresent, [Next]_vars
  PROVE  [Lifecycle!Next]_(Lifecycle!vars)
<1>0. /\ outbox \in [Jobs -> Row] /\ disp \in [Dispatchers -> Dispatch]
      /\ accepted \in [Jobs -> BOOLEAN] /\ JobKnown
  BY DEF TypeInv, TypeOK
<1>1. CASE Enqueue
  <2> PICK js \in SUBSET Jobs, at \in 0..clock :
        /\ js # {}
        /\ \A k \in js : outbox[k].status = "absent"
        /\ outbox' = [k \in Jobs |-> IF k \in js
                       THEN [AbsentRow EXCEPT !.status = "pending", !.nextAttemptAt = at]
                       ELSE outbox[k]]
    BY <1>1 DEF Enqueue
  <2>1. [AbsentRow EXCEPT !.status = "pending", !.nextAttemptAt = at].status = "pending"
    BY DEF AbsentRow
  <2>2. View' = [k \in Jobs |-> IF k \in js THEN "queued" ELSE View[k]]
    BY <2>1 DEF View, PhaseOf
  <2>3. \A k \in js : View[k] = "absent"
    BY DEF View, PhaseOf
  <2>4. Lifecycle!Enqueue
    BY <1>1, <2>2, <2>3 DEF Lifecycle!Enqueue, View, Enqueue
  <2>5. QED BY <2>4 DEF Lifecycle!Next
<1>2. ASSUME NEW d \in Dispatchers, Deliver(d) \/ Crash(d)
      PROVE  [Lifecycle!Next]_(Lifecycle!vars)
  <2>1. UNCHANGED outbox
    BY <1>2 DEF Deliver, Crash
  <2>2. CASE UNCHANGED accepted
    BY <2>1, <2>2, SameView
  <2>3. CASE disp[d].pc = "deliver" /\ accepted' = [accepted EXCEPT ![disp[d].job] = TRUE]
    <3>1. disp[d].job \in Jobs /\ View[disp[d].job] # "absent"
      BY <1>0, <2>3 DEF JobKnown, JobPresent, View, PhaseOf
    <3>2. Lifecycle!Accept(disp[d].job)
      BY <2>1, <2>3, <3>1 DEF Lifecycle!Accept, View
    <3>3. QED BY <3>1, <3>2 DEF Lifecycle!Next
  <2>4. QED
    <3>1. CASE Crash(d)
      BY <2>2, <2>3, <3>1 DEF Crash
    <3>2. CASE Deliver(d)
      <4>1. PICK taken \in BOOLEAN :
              disp[d].pc = "deliver" /\ accepted' = [accepted EXCEPT ![disp[d].job] = @ \/ taken]
        BY <3>2 DEF Deliver
      <4>2. disp[d].job \in Jobs
        BY <1>0, <4>1 DEF JobKnown
      <4>3. CASE taken
        BY <2>3, <4>1, <4>3
      <4>4. CASE ~taken
        BY <1>0, <2>2, <4>1, <4>2, <4>4
      <4>5. QED BY <4>3, <4>4
    <3>3. QED BY <1>2, <3>1, <3>2
<1>3. ASSUME NEW d \in Dispatchers, Claim(d) \/ ClaimThrows(d)
      PROVE  [Lifecycle!Next]_(Lifecycle!vars)
  <2>1. /\ UNCHANGED accepted
        /\ \/ UNCHANGED outbox
           \/ \E c \in Heads(disp[d].todo) : /\ Claimable(outbox[c.id], disp[d].now)
                                             /\ outbox' = Leased(c.id, d)
    BY <1>3 DEF Claim, ClaimThrows, ClaimWon, ClaimLost
  <2>2. ASSUME NEW c \in Heads(disp[d].todo), Claimable(outbox[c.id], disp[d].now),
               outbox' = Leased(c.id, d)
        PROVE  [Lifecycle!Next]_(Lifecycle!vars)
    <3>1. c.id \in Jobs
      BY <1>0 DEF Heads, Dispatch, Candidate
    <3>2. \A k \in Jobs : k # c.id => outbox'[k] = outbox[k]
      BY <1>0, <2>2 DEF Leased
    <3>3. ~Enqueued(c.id)
      BY <2>2 DEF Claimable, Enqueued
    <3>4. QED BY <2>1, <3>1, <3>2, <3>3, OnePhase
  <2>3. QED BY <2>1, <2>2, SameView
<1>4. ASSUME NEW d \in Dispatchers, Complete(d) \/ CompleteThrows(d) \/ Fail(d) \/ FailThrows(d)
      PROVE  [Lifecycle!Next]_(Lifecycle!vars)
  <2>1. UNCHANGED accepted /\ disp[d].job \in Jobs
    BY <1>0, <1>4 DEF Complete, CompleteThrows, Fail, FailThrows, JobKnown
  <2>2. \A k \in Jobs : k # disp[d].job => outbox'[k] = outbox[k]
    BY <1>0, <1>4 DEF Complete, CompleteThrows, Fail, FailThrows, CompleteOutboxJob, FailOutboxJob
  <2>3. UNCHANGED outbox \/ ~Enqueued(disp[d].job)
    BY <1>4 DEF Complete, CompleteThrows, Fail, FailThrows, CompleteOutboxJob, FailOutboxJob,
                HoldsLease, Enqueued
  <2>4. QED BY <2>1, <2>2, <2>3, OnePhase, SameView
<1>5. ASSUME NEW r \in Requests, RetryUpdate(r)
      PROVE  [Lifecycle!Next]_(Lifecycle!vars)
  <2>1. UNCHANGED accepted /\ req[r].job \in Jobs
    BY <1>0, <1>5 DEF RetryUpdate, JobKnown
  <2>2. \A k \in Jobs : k # req[r].job => outbox'[k] = outbox[k]
    BY <1>0, <1>5 DEF RetryUpdate
  <2>3. UNCHANGED outbox \/ ~Enqueued(req[r].job)
    BY <1>5 DEF RetryUpdate, Enqueued
  <2>4. QED BY <2>1, <2>2, <2>3, OnePhase, SameView
<1>6. QED
  <2>1. ASSUME NEW d \in Dispatchers, StartDispatch(d) \/ CronDispatch(d) \/ SelectJobs(d)
        PROVE  UNCHANGED <<outbox, accepted>>
    BY <2>1 DEF StartDispatch, CronDispatch, Begin, SelectJobs
  <2>2. ASSUME NEW r \in Requests, BeginRetry(r) \/ RetrySelect(r) \/ RetryCrash(r)
        PROVE  UNCHANGED <<outbox, accepted>>
    BY <2>2 DEF BeginRetry, RetrySelect, RetryCrash
  <2>3. Tick \/ UNCHANGED vars => UNCHANGED <<outbox, accepted>>
    BY DEF Tick, vars
  <2>4. QED
    BY <1>1, <1>2, <1>3, <1>4, <1>5, <2>1, <2>2, <2>3, SameView
    DEF Next, DispatchStep, FaultStep, RetryStep

\* Dispatchers, leases, faults and manual retries together do nothing to a
\* delivery that its lifecycle does not allow.
THEOREM OutboxImplementsLifecycle == Spec => ImplementsLifecycle
<1>1. Init => Lifecycle!Init
  BY DEF Init, Lifecycle!Init, AbsentRow, PhaseOf
<1>2. TypeInv /\ SentInv /\ JobPresent /\ [Next]_vars => [Lifecycle!Next]_(Lifecycle!vars)
  BY StepImplements
<1>3. QED
  BY <1>1, <1>2, TypeInit, TypeNext, SentInvInductive, JobPresentInductive, PTL
  DEF Spec, ImplementsLifecycle, Lifecycle!Spec

---------------------------------------------------------------------------
\* What one step does to a dispatch.
Begun(d) == /\ disp[d].pc = "idle" /\ disp'[d].pc = "select"
            /\ disp'[d].todo = disp[d].todo /\ disp'[d].now = clock
            /\ disp'[d].spent = disp[d].spent

GoneOn(d) == /\ disp[d].pc \in {"claim", "record"} /\ disp'[d].pc = "claim"
             /\ disp'[d].now = disp[d].now /\ disp'[d].spent = disp[d].spent
             /\ disp'[d].todo \subseteq disp[d].todo

Selected(d) == /\ disp[d].pc = "select" /\ disp'[d].pc = "claim"
               /\ disp'[d].now = disp[d].now /\ disp'[d].spent = disp[d].spent
               /\ disp'[d].todo \subseteq {Snapshot(j) : j \in Jobs}
               /\ UNCHANGED outbox

Won(d) == \E c \in disp[d].todo : /\ ClaimWon(d, c)
                                  /\ disp'[d].pc = "deliver" /\ disp'[d].now = disp[d].now
                                  /\ disp'[d].todo \subseteq disp[d].todo
                                  /\ disp'[d].job = c.id /\ disp'[d].attempts = c.attempts
                                  /\ disp[d].pc = "claim" /\ disp'[d].since = clock
                                  /\ disp'[d].spent = disp[d].spent + ProviderTimeout[c.id]

Answered(d) == /\ disp[d].pc \in {"deliver", "record"} /\ disp'[d].pc = "record"
               /\ disp'[d].now = disp[d].now /\ disp'[d].todo = disp[d].todo
               /\ disp'[d].job = disp[d].job /\ disp'[d].attempts = disp[d].attempts
               /\ disp'[d].spent = disp[d].spent

DispatchMove(d) == \/ disp'[d] = disp[d] \/ disp'[d] = IdleDispatch
                   \/ Begun(d) \/ GoneOn(d) \/ Selected(d) \/ Won(d) \/ Answered(d)

LEMMA ContinueMove ==
  ASSUME TypeInv, NEW e \in Dispatchers, NEW rest, Continue(e, rest), NEW d \in Dispatchers
  PROVE  \/ disp'[d] = disp[d] \/ disp'[d] = IdleDispatch
         \/ /\ d = e /\ disp'[d].pc = "claim" /\ disp'[d].todo = rest
            /\ disp'[d].now = disp[d].now /\ disp'[d].spent = disp[d].spent
<1>0. disp \in [Dispatchers -> Dispatch] /\ disp[e] \in Dispatch
  BY DEF TypeInv, TypeOK
<1> DEFINE next == [disp[e] EXCEPT !.pc = "claim", !.todo = rest, !.job = NoOne,
                                   !.attempts = 0, !.since = 0, !.result = "none"]
<1>1. /\ next.pc = "claim" /\ next.todo = rest /\ next.now = disp[e].now
      /\ next.spent = disp[e].spent
  BY <1>0 DEF Dispatch
<1>2. disp' = [disp EXCEPT ![e] = IdleDispatch] \/ disp' = [disp EXCEPT ![e] = next]
  BY DEF Continue
<1> HIDE DEF next
<1>3. QED BY <1>0, <1>1, <1>2

LEMMA NextDispatchMove ==
  ASSUME TypeInv, [Next]_vars, NEW d \in Dispatchers
  PROVE  DispatchMove(d)
<1> USE DEF DispatchMove
<1>0. disp \in [Dispatchers -> Dispatch]
  BY DEF TypeInv, TypeOK
<1>1. ASSUME NEW e \in Dispatchers, Return(e) PROVE DispatchMove(d)
  BY <1>0, <1>1 DEF Return
<1>2. ASSUME NEW e \in Dispatchers, StartDispatch(e) \/ CronDispatch(e) PROVE DispatchMove(d)
  <2>1. /\ disp[e].pc = "idle"
        /\ disp' = [disp EXCEPT ![e] = [@ EXCEPT !.pc = "select", !.now = clock]]
    BY <1>2 DEF StartDispatch, CronDispatch, Begin
  <2>2. QED BY <1>0, <2>1 DEF Begun, Dispatch
<1>3. ASSUME NEW e \in Dispatchers, SelectJobs(e) PROVE DispatchMove(d)
  <2>1. PICK b \in Batches(disp[e].now) : Continue(e, {Snapshot(j) : j \in b})
    BY <1>3 DEF SelectJobs
  <2>2. {Snapshot(j) : j \in b} \subseteq {Snapshot(j) : j \in Jobs}
    BY DEF Batches
  <2>3. disp[e].pc = "select" /\ UNCHANGED outbox
    BY <1>3 DEF SelectJobs
  <2>4. QED BY <2>1, <2>2, <2>3, ContinueMove DEF Selected
<1>4. ASSUME NEW e \in Dispatchers, Claim(e) PROVE DispatchMove(d)
  <2>1. PICK c \in Heads(disp[e].todo) : ClaimWon(e, c) \/ ClaimLost(e, c)
    BY <1>4 DEF Claim
  <2>2. c \in disp[e].todo /\ disp[e].pc = "claim"
    BY <1>4 DEF Claim, Heads
  <2>3. CASE ClaimWon(e, c)
    <3>1. /\ Invoke(e, c).pc = "deliver" /\ Invoke(e, c).now = disp[e].now
          /\ Invoke(e, c).todo \subseteq disp[e].todo
          /\ Invoke(e, c).job = c.id /\ Invoke(e, c).attempts = c.attempts
          /\ Invoke(e, c).since = clock
          /\ Invoke(e, c).spent = disp[e].spent + ProviderTimeout[c.id]
      BY <1>0 DEF Invoke, Dispatch
    <3>2. CASE e = d
      <4>1. disp'[d] = Invoke(d, c)
        BY <1>0, <2>3, <3>2 DEF ClaimWon
      <4>2. QED BY <2>2, <2>3, <3>1, <3>2, <4>1 DEF Won
    <3>3. CASE e # d
      BY <1>0, <2>3, <3>3 DEF ClaimWon
    <3>4. QED BY <3>2, <3>3
  <2>4. CASE ClaimLost(e, c)
    <3>1. disp[e].todo \ {c} \subseteq disp[e].todo
      OBVIOUS
    <3>2. QED BY <2>2, <2>4, <3>1, ContinueMove DEF ClaimLost, GoneOn
  <2>5. QED BY <2>1, <2>3, <2>4
<1>5. ASSUME NEW e \in Dispatchers, Complete(e) \/ Fail(e) PROVE DispatchMove(d)
  BY <1>5, ContinueMove DEF Complete, Fail, GoneOn
<1>6. ASSUME NEW e \in Dispatchers, Deliver(e) \/ CompleteThrows(e) PROVE DispatchMove(d)
  <2>1. CASE e # d
    BY <1>0, <1>6, <2>1 DEF Deliver, CompleteThrows
  <2>2. CASE e = d /\ Deliver(e)
    BY <1>0, <2>2 DEF Deliver, Answered, Dispatch
  <2>3. CASE e = d /\ CompleteThrows(e)
    BY <1>0, <2>3 DEF CompleteThrows, Answered, Dispatch
  <2>4. QED BY <1>6, <2>1, <2>2, <2>3
<1>7. ASSUME NEW e \in Dispatchers, ClaimThrows(e) \/ FailThrows(e) \/ Crash(e)
      PROVE  DispatchMove(d)
  BY <1>1, <1>7 DEF ClaimThrows, FailThrows, Crash
<1>8. ASSUME NEW r \in Requests, BeginRetry(r) \/ RetryStep(r) \/ RetryCrash(r)
      PROVE  UNCHANGED disp
  BY <1>8 DEF BeginRetry, RetryStep, RetrySelect, RetryUpdate, RetryCrash
<1>9. Enqueue \/ Tick \/ UNCHANGED vars => UNCHANGED disp
  BY DEF Enqueue, Tick, vars
<1>10. QED
  BY <1>2, <1>3, <1>4, <1>5, <1>6, <1>7, <1>8, <1>9 DEF Next, DispatchStep, FaultStep

---------------------------------------------------------------------------
(* No attempt is lost.                                                     *)

\* Before its SELECT a dispatch remembers nothing; if D1 answers promptly, the
\* SELECT is over in the instant that the dispatch goes by.
Selecting == \A d \in Dispatchers :
               /\ disp[d].pc \in {"idle", "select"} => disp[d].todo = {}
               /\ disp[d].pc = "select" => disp[d].now = clock

CurrentOf(d, j) == disp[d].pc \in {"deliver", "record"} /\ disp[d].job = j

\* A dispatch goes by the count a of delivery j, of now or of earlier.
Remembers(d, j, a) == \/ \E c \in disp[d].todo : c.id = j /\ c.attempts = a
                      \/ CurrentOf(d, j) /\ disp[d].attempts = a

Unretried(j) == outbox[j].manualAttempts = 0

\* Whoever may write the row of j, or may yet claim it.
Entering(d, j) == \/ Claimable(outbox[j], disp[d].now)
                  \/ CurrentOf(d, j) /\ outbox[j].leaseToken = d

\* What dispatches remember is old, the older the earlier they began; and who may
\* write a row has missed one attempt at most.
Counted ==
  \A j \in Jobs :
    /\ outbox[j].status = "absent" => outbox[j].attempts = 0 /\ Unretried(j)
    /\ Unretried(j) =>
         \A d \in Dispatchers, a \in Nat : Remembers(d, j, a) =>
           /\ a <= outbox[j].attempts
           /\ \A e \in Dispatchers, b \in Nat :
                Remembers(e, j, b) /\ disp[d].now < disp[e].now => a <= b
           /\ Entering(d, j) => outbox[j].attempts <= a + 1

\* The delays of the table, but for the one before the first attempt.
BackoffPositive == Len(RetryDelays) > 1 /\ \A i \in 2..Len(RetryDelays) : RetryDelays[i] > 0

LEMMA TickMovesClock ==
  ASSUME [Next]_vars PROVE UNCHANGED clock \/ Tick
<1> USE DEF Enqueue, StartDispatch, CronDispatch, Begin, BeginRetry, RetryCrash
<1>1. ASSUME NEW d \in Dispatchers, DispatchStep(d) PROVE UNCHANGED clock
  BY <1>1 DEF DispatchStep, SelectJobs, Claim, Deliver, Complete, Fail
<1>2. ASSUME NEW d \in Dispatchers, FaultStep(d) PROVE UNCHANGED clock
  BY <1>2 DEF FaultStep, ClaimThrows, CompleteThrows, FailThrows, Crash
<1>3. ASSUME NEW r \in Requests, RetryStep(r) PROVE UNCHANGED clock
  BY <1>3 DEF RetryStep, RetrySelect, RetryUpdate
<1>4. QED BY <1>1, <1>2, <1>3 DEF Next, vars

LEMMA SelectingInductive ==
  ASSUME Prompt
  PROVE  /\ Init => Selecting
         /\ TypeInv /\ Selecting /\ [Next]_vars => Selecting'
<1>1. Init => Selecting
  BY DEF Init, Selecting, IdleDispatch
<1>2. ASSUME TypeInv, Selecting, [Next]_vars, NEW d \in Dispatchers
      PROVE  /\ disp'[d].pc \in {"idle", "select"} => disp'[d].todo = {}
             /\ disp'[d].pc = "select" => disp'[d].now = clock'
  <2>1. CASE disp'[d] = disp[d]
    <3>1. disp[d].pc = "select" => UNCHANGED clock
      BY TickMovesClock, <1>2 DEF Tick, NothingDue
    <3>2. QED BY <1>2, <2>1, <3>1 DEF Selecting
  <2>2. CASE disp'[d] = IdleDispatch
    BY <2>2 DEF IdleDispatch
  <2>3. CASE Begun(d)
    <3>1. UNCHANGED clock
      BY TickMovesClock, <1>2, <2>3 DEF Tick, Begun
    <3>2. QED BY <1>2, <2>3, <3>1 DEF Begun, Selecting
  <2>4. CASE GoneOn(d) \/ Selected(d) \/ Won(d) \/ Answered(d)
    BY <2>4 DEF GoneOn, Selected, Won, Answered
  <2>5. QED BY <1>2, <2>1, <2>2, <2>3, <2>4, NextDispatchMove DEF DispatchMove
<1>3. QED BY <1>1, <1>2 DEF Selecting

\* What a dispatch remembers it remembered before, or has just read.
LEMMA RememberStep ==
  ASSUME TypeInv, Selecting, [Next]_vars,
         NEW d \in Dispatchers, NEW j \in Jobs, NEW a, Remembers(d, j, a)'
  PROVE  /\ disp'[d].now = disp[d].now
         /\ \/ Remembers(d, j, a)
            \/ disp[d].pc = "select" /\ a = outbox[j].attempts /\ UNCHANGED outbox
<1> USE DEF Remembers, CurrentOf
<1>0. disp[d].todo \in SUBSET Candidate
  BY DEF TypeInv, TypeOK, Dispatch
<1>1. CASE disp'[d] = disp[d]
  BY <1>1
<1>2. CASE disp'[d] = IdleDispatch
  BY <1>2 DEF IdleDispatch
<1>3. CASE Begun(d)
  BY <1>3 DEF Begun, Selecting
<1>4. CASE GoneOn(d)
  BY <1>4 DEF GoneOn
<1>5. CASE Selected(d)
  <2>1. PICK c \in disp'[d].todo : c.id = j /\ c.attempts = a
    BY <1>5 DEF Selected
  <2>2. PICK k \in Jobs : c = Snapshot(k)
    BY <1>5, <2>1 DEF Selected
  <2>3. QED BY <1>5, <2>1, <2>2 DEF Selected, Snapshot
<1>6. CASE Won(d)
  BY <1>6 DEF Won
<1>7. CASE Answered(d)
  BY <1>7 DEF Answered
<1>8. QED BY <1>1, <1>2, <1>3, <1>4, <1>5, <1>6, <1>7, NextDispatchMove DEF DispatchMove

\* A dispatch comes to a delivery by claiming its row.
LEMMA CurrentStep ==
  ASSUME TypeInv, [Next]_vars, NEW d \in Dispatchers, NEW j \in Jobs, CurrentOf(d, j)'
  PROVE  /\ disp'[d].now = disp[d].now
         /\ CurrentOf(d, j) \/ Claimable(outbox[j], disp[d].now)
<1> USE DEF CurrentOf
<1>1. CASE disp'[d] = disp[d]
  BY <1>1
<1>2. CASE disp'[d] = IdleDispatch \/ Begun(d) \/ GoneOn(d) \/ Selected(d)
  BY <1>2 DEF IdleDispatch, Begun, GoneOn, Selected
<1>3. CASE Won(d)
  BY <1>3 DEF Won, ClaimWon
<1>4. CASE Answered(d)
  BY <1>4 DEF Answered
<1>5. QED BY <1>1, <1>2, <1>3, <1>4, NextDispatchMove DEF DispatchMove

LEMMA BackoffWaits ==
  ASSUME BackoffPositive, NEW now \in Nat, NEW attempts \in Nat \ {0}
  PROVE  now < NextAttemptAt(now, attempts)
<1> DEFINE n == Len(RetryDelays)
<1>1. n \in Nat /\ \A i \in 1..n : RetryDelays[i] \in Nat
  BY DispatchTimeAssumption
<1>2. n > 1 /\ \A i \in 2..n : RetryDelays[i] > 0
  BY DEF BackoffPositive
<1>3. CASE attempts < n
  <2>1. attempts + 1 \in 2..n /\ attempts + 1 \in 1..n
    BY <1>1, <1>3
  <2>2. RetryDelays[attempts + 1] \in Nat /\ RetryDelays[attempts + 1] > 0
    BY <1>1, <1>2, <2>1
  <2>3. QED BY <1>3, <2>2 DEF NextAttemptAt
<1>4. CASE ~(attempts < n)
  <2>1. RetryDelays[n] \in Nat /\ RetryDelays[n] > 0
    BY <1>1, <1>2
  <2>2. QED BY <1>4, <2>1 DEF NextAttemptAt
<1>5. QED BY <1>3, <1>4

\* What a step may do to the row of a delivery that stays unretried.
LEMMA UnretriedStep ==
  ASSUME TypeInv, Counted, [Next]_vars, NEW j \in Jobs, Unretried(j)'
  PROVE  /\ Unretried(j)
         /\ outbox'[j] = outbox[j] \/ Enqueued(j) \/ Claimed(j) \/ Completed(j) \/ Failed(j)
         /\ outbox[j].attempts <= outbox'[j].attempts
<1>0. outbox[j] \in Row
  BY DEF TypeInv, TypeOK
<1>1. CASE outbox'[j] = outbox[j]
  BY <1>0, <1>1 DEF Unretried, Row
<1>2. CASE Enqueued(j)
  <2>1. outbox[j].status = "absent" /\ outbox'[j].attempts = 0
    BY <1>2 DEF Enqueued
  <2>2. outbox[j].attempts = 0 /\ Unretried(j)
    BY <2>1 DEF Counted
  <2>3. QED BY <1>2, <2>1, <2>2
<1>3. CASE Claimed(j) \/ Completed(j)
  <2>1. /\ outbox'[j].attempts = outbox[j].attempts /\ outbox[j].attempts \in Nat
        /\ outbox'[j].manualAttempts = outbox[j].manualAttempts
    BY <1>0, <1>3 DEF Claimed, Completed, SentRow, Row
  <2>2. QED BY <1>3, <2>1 DEF Unretried
<1>4. CASE Failed(j)
  <2>1. PICK e \in Dispatchers : Settling(e, j) /\ outbox'[j] = FailedRow(outbox[j], e)
    BY <1>4 DEF Failed
  <2>2. outbox'[j].attempts = disp[e].attempts + 1 /\ Unretried(j)
    BY <1>0, <2>1 DEF FailedRow, Row, Unretried
  <2>3. Remembers(e, j, disp[e].attempts) /\ Entering(e, j) /\ disp[e].attempts \in Nat
    BY <2>1 DEF Settling, HoldsLease, Remembers, CurrentOf, Entering, TypeInv, TypeOK, Dispatch
  <2>4. outbox[j].attempts <= disp[e].attempts + 1
    BY <2>2, <2>3 DEF Counted
  <2>5. QED BY <1>4, <2>2, <2>4
<1>5. CASE OwnerRetried(j)
  BY <1>0, <1>5 DEF OwnerRetried, RetriedRow, Row, Unretried
<1>6. QED BY <1>1, <1>2, <1>3, <1>4, <1>5, NextRowStep DEF RowStep

LEMMA EnteringStep ==
  ASSUME BackoffPositive, TypeInv, Selecting, Counted, [Next]_vars,
         NEW j \in Jobs, Unretried(j)', NEW d \in Dispatchers, NEW a \in Nat,
         Remembers(d, j, a), disp'[d].now = disp[d].now, Entering(d, j)'
  PROVE  outbox'[j].attempts <= a + 1
<1>0. /\ outbox[j] \in Row /\ Unretried(j)
      /\ disp \in [Dispatchers -> Dispatch] /\ Lease \in Nat \ {0}
      /\ \A e \in Dispatchers : disp[e].now \in Nat /\ disp[e].attempts \in Nat
  BY UnretriedStep, DispatchTimeAssumption DEF TypeInv, TypeOK, Dispatch, Time
<1>1. Entering(d, j) => outbox[j].attempts <= a + 1
  BY <1>0 DEF Counted
<1>2. CASE outbox'[j] = outbox[j]
  <2>1. CASE Claimable(outbox[j], disp[d].now)'
    BY <1>1, <1>2, <2>1 DEF Entering, Claimable
  <2>2. CASE CurrentOf(d, j)' /\ outbox'[j].leaseToken = d
    BY <1>1, <1>2, <2>2, CurrentStep DEF Entering
  <2>3. QED BY <2>1, <2>2 DEF Entering
<1>3. CASE Enqueued(j)
  BY <1>3 DEF Enqueued
<1>4. CASE Claimed(j)
  <2>1. PICK e \in Dispatchers :
          /\ \E c \in disp[e].todo : c.id = j
          /\ Claimable(outbox[j], disp[e].now)
          /\ outbox'[j] = [outbox[j] EXCEPT !.status = "processing",
                                           !.lockedUntil = disp[e].now + Lease, !.leaseToken = e]
    BY <1>4 DEF Claimed
  <2>2. PICK c \in disp[e].todo : c.id = j
    BY <2>1
  <2>3. c.attempts \in Nat /\ Remembers(e, j, c.attempts)
    BY <1>0, <2>2 DEF Dispatch, Candidate, Remembers
  <2>4. outbox[j].attempts <= c.attempts + 1
    BY <1>0, <2>1, <2>3 DEF Counted, Entering
  <2>5. /\ outbox'[j].attempts = outbox[j].attempts /\ outbox'[j].status = "processing"
        /\ outbox'[j].lockedUntil = disp[e].now + Lease /\ outbox'[j].leaseToken = e
    BY <1>0, <2>1 DEF Row
  <2>6. CASE Claimable(outbox[j], disp[d].now)'
    <3>1. disp[e].now < disp[d].now
      BY <1>0, <2>5, <2>6 DEF Claimable
    <3>2. c.attempts <= a
      BY <1>0, <2>3, <3>1 DEF Counted
    <3>3. QED BY <1>0, <2>3, <2>4, <2>5, <3>2 DEF Row
  <2>7. CASE d = e
    BY <1>1, <2>1, <2>5, <2>7 DEF Entering
  <2>8. QED BY <2>5, <2>6, <2>7 DEF Entering
<1>5. CASE Completed(j)
  BY <1>0, <1>5, OutboxAssumption DEF Completed, SentRow, Row, Entering, Claimable
<1>6. CASE Failed(j)
  <2>1. PICK e \in Dispatchers : Settling(e, j) /\ outbox'[j] = FailedRow(outbox[j], e)
    BY <1>6 DEF Failed
  <2>2. /\ outbox'[j].attempts = disp[e].attempts + 1 /\ outbox'[j].leaseToken = NoOne
        /\ outbox'[j].status \in {"pending", "failed"}
        /\ outbox'[j].nextAttemptAt = NextAttemptAt(disp[e].now, disp[e].attempts + 1)
    BY <1>0, <2>1 DEF FailedRow, Row
  <2>3. Claimable(outbox[j], disp[d].now)'
    BY <2>2, OutboxAssumption DEF Entering
  <2>4. NextAttemptAt(disp[e].now, disp[e].attempts + 1) <= disp[d].now
    BY <2>2, <2>3 DEF Claimable
  <2>5. disp[e].now < NextAttemptAt(disp[e].now, disp[e].attempts + 1)
    BY <1>0, BackoffWaits
  <2>6. NextAttemptAt(disp[e].now, disp[e].attempts + 1) \in Nat
    <3>1. disp[e].now \in Nat /\ disp[e].attempts + 1 \in Nat
      BY <1>0
    <3>2. QED BY <3>1, NextAttemptAtType
  <2>7. disp[e].now < disp[d].now
    BY <1>0, <2>4, <2>5, <2>6
  <2>8. Remembers(e, j, disp[e].attempts)
    BY <2>1 DEF Settling, Remembers, CurrentOf
  <2>9. disp[e].attempts <= a
    BY <1>0, <2>7, <2>8 DEF Counted
  <2>10. disp[e].attempts \in Nat
    BY <1>0
  <2>11. QED BY <2>2, <2>9, <2>10
<1>7. QED BY <1>2, <1>3, <1>4, <1>5, <1>6, UnretriedStep

LEMMA CountedInductive ==
  ASSUME BackoffPositive
  PROVE  /\ Init => Counted
         /\ TypeInv /\ LeaseInv /\ Selecting /\ Counted /\ [Next]_vars => Counted'
<1>1. Init => Counted
  BY DEF Init, Counted, AbsentRow, IdleDispatch, Unretried, Remembers, CurrentOf
<1>2. ASSUME TypeInv, LeaseInv, Selecting, Counted, [Next]_vars, NEW j \in Jobs
      PROVE  /\ outbox'[j].status = "absent" => outbox'[j].attempts = 0 /\ Unretried(j)'
             /\ Unretried(j)' =>
                  \A d \in Dispatchers, a \in Nat : Remembers(d, j, a)' =>
                    /\ a <= outbox'[j].attempts
                    /\ \A e \in Dispatchers, b \in Nat :
                         Remembers(e, j, b)' /\ disp'[d].now < disp'[e].now => a <= b
                    /\ Entering(d, j)' => outbox'[j].attempts <= a + 1
  <2>0. /\ outbox[j] \in Row /\ outbox[j].attempts \in Nat /\ clock \in Nat
        /\ \A e \in Dispatchers : disp[e].now \in Nat /\ disp[e].now <= clock
    BY <1>2 DEF TypeInv, TypeOK, Row, Dispatch, Time, LeaseInv
  <2>1. ASSUME outbox'[j].status = "absent"
        PROVE  outbox'[j].attempts = 0 /\ Unretried(j)'
    <3>1. outbox[j].status = "absent"
      BY <1>2, <2>1, PresentStays
    <3>2. outbox'[j] = outbox[j]
      BY <1>2, <2>1, <3>1, NextRowStep
      DEF RowStep, Enqueued, Claimed, Claimable, Completed, Failed, Settling, HoldsLease,
          OwnerRetried
    <3>3. QED BY <1>2, <3>1, <3>2 DEF Counted, Unretried
  <2>2. ASSUME Unretried(j)', NEW d \in Dispatchers, NEW a \in Nat, Remembers(d, j, a)'
        PROVE  /\ a <= outbox'[j].attempts
               /\ \A e \in Dispatchers, b \in Nat :
                    Remembers(e, j, b)' /\ disp'[d].now < disp'[e].now => a <= b
               /\ Entering(d, j)' => outbox'[j].attempts <= a + 1
    <3>0. outbox'[j].attempts \in Nat /\ outbox[j].attempts <= outbox'[j].attempts /\ Unretried(j)
      BY <1>2, <2>2, TypeNext, UnretriedStep DEF TypeInv, TypeOK, Row
    <3>1. CASE Remembers(d, j, a)
      <4>1. a <= outbox[j].attempts /\ disp'[d].now = disp[d].now
        BY <1>2, <2>2, <3>0, <3>1, RememberStep DEF Counted
      <4>2. ASSUME NEW e \in Dispatchers, NEW b \in Nat,
                   Remembers(e, j, b)', disp'[d].now < disp'[e].now
            PROVE  a <= b
        <5>1. disp'[e].now = disp[e].now /\ (Remembers(e, j, b) \/ b = outbox[j].attempts)
          BY <1>2, <4>2, RememberStep
        <5>2. QED BY <1>2, <3>0, <3>1, <4>1, <4>2, <5>1 DEF Counted
      <4>3. Entering(d, j)' => outbox'[j].attempts <= a + 1
        BY <1>2, <2>2, <3>1, <4>1, EnteringStep
      <4>4. QED BY <2>0, <3>0, <4>1, <4>2, <4>3
    <3>2. CASE ~Remembers(d, j, a)
      <4>1. /\ disp[d].pc = "select" /\ a = outbox[j].attempts /\ UNCHANGED outbox
            /\ disp'[d].now = disp[d].now
        BY <1>2, <2>2, <3>2, RememberStep
      <4>2. disp[d].now = clock
        BY <1>2, <4>1 DEF Selecting
      <4>3. ASSUME NEW e \in Dispatchers, NEW b \in Nat,
                   Remembers(e, j, b)', disp'[d].now < disp'[e].now
            PROVE  a <= b
        <5>1. disp'[e].now = disp[e].now
          BY <1>2, <4>3, RememberStep
        <5>2. QED BY <2>0, <4>1, <4>2, <4>3, <5>1
      <4>4. QED BY <2>0, <4>1, <4>3
    <3>3. QED BY <3>1, <3>2
  <2>3. QED BY <2>1, <2>2
<1>3. QED BY <1>1, <1>2 DEF Counted

\* With a backoff that waits and a D1 that answers promptly, every attempt at a
\* delivery that the owner has not retried is counted, however old the snapshots
\* that overlapping dispatchers write it from.
THEOREM AttemptsKept ==
  ASSUME Prompt, BackoffPositive
  PROVE  Spec => AttemptsNeverLost
<1>1. TypeInv /\ Counted /\ [Next]_vars =>
        \A j \in Jobs : outbox'[j].attempts < outbox[j].attempts => outbox'[j].manualAttempts > 0
  <2> SUFFICES ASSUME TypeInv, Counted, [Next]_vars, NEW j \in Jobs,
                      outbox'[j].attempts < outbox[j].attempts
               PROVE  outbox'[j].manualAttempts > 0
    OBVIOUS
  <2>1. /\ outbox'[j].attempts \in Nat /\ outbox'[j].manualAttempts \in Nat
        /\ outbox[j].attempts \in Nat
    BY TypeNext DEF TypeInv, TypeOK, Row
  <2>2. ~Unretried(j)'
    BY <2>1, UnretriedStep
  <2>3. QED BY <2>1, <2>2 DEF Unretried
<1>2. QED
  BY <1>1, TypeInit, TypeNext, LeaseInvInductive, SelectingInductive, CountedInductive, PTL
  DEF Spec, AttemptsNeverLost

---------------------------------------------------------------------------
(* The calls that the lease covers.                                        *)

\* A dispatch has run no longer than its calls may last: only they take time, and
\* the present one, which began at "since", is the last of them.
InPace ==
  \A d \in Dispatchers :
    /\ disp[d].pc \in {"idle", "select"} => disp[d].spent = 0
    /\ disp[d].pc # "idle" => clock <= disp[d].now + disp[d].spent
    /\ disp[d].pc = "deliver"
         => disp[d].since + ProviderTimeout[disp[d].job] <= disp[d].now + disp[d].spent

LEMMA PaceTypes ==
  ASSUME TypeInv, NEW d \in Dispatchers
  PROVE  /\ clock \in Nat /\ disp[d].now \in Nat /\ disp[d].since \in Nat /\ disp[d].spent \in Nat
         /\ disp[d].pc = "deliver" => ProviderTimeout[disp[d].job] \in Nat
BY OutboxAssumption DEF TypeInv, TypeOK, JobKnown, Dispatch, Time

\* Time passes for a dispatch only in a call, and no longer than its timeout.
LEMMA PaceTick ==
  ASSUME Prompt, Untimed = {}, TypeInv, InPace, Tick, NEW d \in Dispatchers, disp[d].pc # "idle"
  PROVE  /\ disp[d].pc = "deliver" /\ clock' = clock + 1
         /\ clock' <= disp[d].now + disp[d].spent
<1>1. disp[d].pc = "deliver" /\ clock' = clock + 1
  BY DEF Tick, NothingDue
<1>2. clock < disp[d].since + ProviderTimeout[disp[d].job]
  BY <1>1 DEF Tick, WithinTimeout
<1>3. QED BY <1>1, <1>2, PaceTypes DEF InPace

LEMMA InPaceInductive ==
  ASSUME Prompt, Untimed = {}
  PROVE  /\ Init => InPace
         /\ TypeInv /\ Selecting /\ InPace /\ [Next]_vars => InPace'
<1>1. Init => InPace
  BY DEF Init, InPace, IdleDispatch
<1>2. ASSUME TypeInv, Selecting, InPace, [Next]_vars, NEW d \in Dispatchers
      PROVE  /\ disp'[d].pc \in {"idle", "select"} => disp'[d].spent = 0
             /\ disp'[d].pc # "idle" => clock' <= disp'[d].now + disp'[d].spent
             /\ disp'[d].pc = "deliver"
                  => disp'[d].since + ProviderTimeout[disp'[d].job] <= disp'[d].now + disp'[d].spent
  <2> USE PaceTypes, <1>2 DEF InPace
  <2>1. CASE disp'[d] = disp[d]
    <3>1. disp[d].pc # "idle" => clock' <= disp[d].now + disp[d].spent
      BY PaceTick, TickMovesClock
    <3>2. QED BY <2>1, <3>1
  <2>2. CASE disp'[d] = IdleDispatch
    BY <2>2 DEF IdleDispatch
  <2>3. CASE Begun(d)
    <3>1. UNCHANGED clock
      BY <2>3, TickMovesClock DEF Tick, Begun
    <3>2. QED BY <2>3, <3>1 DEF Begun
  <2>4. CASE Selected(d) \/ GoneOn(d) \/ Answered(d)
    <3>1. /\ disp[d].pc # "idle" /\ disp'[d].pc \in {"claim", "record"}
          /\ disp'[d].now = disp[d].now /\ disp'[d].spent = disp[d].spent
      BY <2>4 DEF Selected, GoneOn, Answered
    <3>2. clock' <= disp[d].now + disp[d].spent
      BY <3>1, PaceTick, TickMovesClock
    <3>3. QED BY <3>1, <3>2
  <2>5. CASE Won(d)
    <3>1. /\ disp[d].pc = "claim" /\ disp'[d].pc = "deliver" /\ disp'[d].now = disp[d].now
          /\ disp'[d].since = clock
          /\ disp'[d].spent = disp[d].spent + ProviderTimeout[disp'[d].job]
      BY <2>5 DEF Won
    <3>2. UNCHANGED clock
      BY <3>1, TickMovesClock DEF Tick
    <3>3. clock <= disp[d].now + disp[d].spent
      BY <3>1
    <3>4. ProviderTimeout[disp'[d].job] \in Nat
      BY <2>5, TypeNext, OutboxAssumption DEF Won, TypeInv, JobKnown
    <3> HIDE DEF InPace
    <3>5. QED BY <3>1, <3>2, <3>3, <3>4
  <2>6. QED BY <2>1, <2>2, <2>3, <2>4, <2>5, NextDispatchMove DEF DispatchMove
<1>3. QED BY <1>1, <1>2 DEF InPace

\* The comment on LEASE_MS holds for the first calls of each batch: if D1 answers
\* promptly and every call has a timeout, no delivery is invoked twice at once by
\* dispatchers whose calls so far fit in the lease.
THEOREM EarlyCallsExclusive ==
  ASSUME Prompt, Untimed = {}
  PROVE  Spec => []ExclusiveInTime
<1>1. ASSUME TypeInv, InPace, Entitled PROVE ExclusiveInTime
  <2> SUFFICES ASSUME NEW j \in Jobs, NEW d \in Dispatchers, NEW e \in Dispatchers,
                      Invoking(d, j), Invoking(e, j), InTime(d), InTime(e)
               PROVE  d = e
    BY DEF ExclusiveInTime
  <2>1. ASSUME NEW f \in Dispatchers, disp[f].pc = "deliver", InTime(f) PROVE ~LeaseOver(f)
    <3>1. clock <= disp[f].now + disp[f].spent /\ disp[f].spent < Lease
      BY <1>1, <2>1 DEF InPace, InTime
    <3>2. Lease \in Nat
      BY DispatchTimeAssumption
    <3>3. QED BY <1>1, <3>1, <3>2, PaceTypes DEF LeaseOver
  <2>2. QED BY <1>1, <2>1 DEF Invoking, Entitled
<1>2. QED
  BY <1>1, TypeInit, TypeNext, LeaseInvInductive, EntitledInductive, SelectingInductive,
     InPaceInductive, PTL DEF Spec

---------------------------------------------------------------------------
(* Manual retries.                                                         *)

\* The requests that have passed the check and are to reset the row of j.
Passed(j) == {r \in Requests : req[r].pc = "update" /\ req[r].job = j}

\* The bound, with room for those that have passed the check.
RetriesBounded ==
  \A j \in Jobs :
    outbox[j].manualAttempts + Cardinality(Passed(j)) < MaxManualRetries + Cardinality(Requests)

LEMMA PassedFinite ==
  ASSUME NEW j \in Jobs
  PROVE  /\ IsFiniteSet(Passed(j)) /\ Cardinality(Passed(j)) \in Nat
         /\ Cardinality(Requests) \in Nat /\ Cardinality(Passed(j)) <= Cardinality(Requests)
<1>1. Passed(j) \subseteq Requests /\ IsFiniteSet(Requests)
  BY OutboxAssumption DEF Passed
<1>2. QED BY <1>1, FS_Subset, FS_CardinalityType

\* Only the check lets a request pass, and then the cap is not reached.
LEMMA PassedStep ==
  ASSUME TypeInv, [Next]_vars, NEW j \in Jobs
  PROVE  \/ Passed(j)' \subseteq Passed(j)
         \/ UNCHANGED outbox /\ outbox[j].manualAttempts < MaxManualRetries
<1>0. req \in [Requests -> Request]
  BY DEF TypeInv, TypeOK
<1>1. ASSUME NEW r \in Requests, RetrySelect(r) PROVE
         \/ Passed(j)' \subseteq Passed(j)
         \/ UNCHANGED outbox /\ outbox[j].manualAttempts < MaxManualRetries
  <2>1. CASE ~MayRetry(outbox[req[r].job], req[r].now) \/ req[r].job # j
    BY <1>0, <1>1, <2>1 DEF RetrySelect, Passed, IdleRequest, Request
  <2>2. CASE MayRetry(outbox[req[r].job], req[r].now) /\ req[r].job = j
    BY <1>1, <2>2 DEF RetrySelect, MayRetry
  <2>3. QED BY <2>1, <2>2
<1>2. ASSUME NEW r \in Requests, BeginRetry(r) \/ RetryUpdate(r) \/ RetryCrash(r)
      PROVE  Passed(j)' \subseteq Passed(j)
  BY <1>0, <1>2 DEF BeginRetry, RetryUpdate, RetryCrash, IdleRequest, Passed
<1>3. ASSUME NEW d \in Dispatchers,
             StartDispatch(d) \/ CronDispatch(d) \/ DispatchStep(d) \/ FaultStep(d)
      PROVE  UNCHANGED req
  BY <1>3 DEF StartDispatch, CronDispatch, Begin, DispatchStep, SelectJobs, Claim, Deliver, Complete,
              Fail, FaultStep, ClaimThrows, CompleteThrows, FailThrows, Crash
<1>4. Enqueue \/ Tick \/ UNCHANGED vars => UNCHANGED req
  BY DEF Enqueue, Tick, vars
<1>5. UNCHANGED req => Passed(j)' \subseteq Passed(j)
  BY DEF Passed
<1>6. QED BY <1>1, <1>2, <1>3, <1>4, <1>5 DEF Next, RetryStep

LEMMA RetriesBoundedInductive ==
  /\ Init => RetriesBounded
  /\ TypeInv /\ RetriesBounded /\ [Next]_vars => RetriesBounded'
<1>0. MaxManualRetries \in Nat \ {0}
  BY OutboxAssumption
<1>1. ASSUME Init, NEW j \in Jobs
      PROVE  outbox[j].manualAttempts + Cardinality(Passed(j))
               < MaxManualRetries + Cardinality(Requests)
  <2>1. outbox[j].manualAttempts = 0 /\ Passed(j) = {}
    BY <1>1 DEF Init, AbsentRow, IdleRequest, Passed
  <2>2. QED BY <1>0, <2>1, FS_EmptySet, PassedFinite
<1>2. ASSUME TypeInv, RetriesBounded, [Next]_vars, NEW j \in Jobs
      PROVE  outbox'[j].manualAttempts + Cardinality(Passed(j))'
               < MaxManualRetries + Cardinality(Requests)
  <2> DEFINE manual == outbox[j].manualAttempts
             room == MaxManualRetries + Cardinality(Requests)
  <2>0. /\ outbox[j] \in Row /\ manual \in Nat /\ manual' \in Nat /\ room \in Nat
        /\ manual + Cardinality(Passed(j)) < room
    BY <1>0, <1>2, TypeNext, PassedFinite DEF TypeInv, TypeOK, Row, RetriesBounded
  <2>1. /\ IsFiniteSet(Passed(j)) /\ Cardinality(Passed(j)) \in Nat
        /\ IsFiniteSet(Passed(j)') /\ Cardinality(Passed(j)') \in Nat
        /\ Cardinality(Passed(j)') <= Cardinality(Requests) /\ Cardinality(Requests) \in Nat
    <3>1. Passed(j)' \subseteq Requests /\ IsFiniteSet(Requests)
      BY OutboxAssumption DEF Passed
    <3>2. QED BY <3>1, PassedFinite, FS_Subset, FS_CardinalityType
  <2>2. CASE UNCHANGED outbox /\ manual < MaxManualRetries
    BY <1>0, <2>0, <2>1, <2>2
  <2>3. CASE Passed(j)' \subseteq Passed(j) /\ ~OwnerRetried(j)
    <3>1. manual' <= manual
      <4>1. CASE Enqueued(j)
        BY <2>0, <4>1 DEF Enqueued
      <4>2. CASE Claimed(j) \/ Completed(j) \/ Failed(j)
        <5>1. manual' = manual
          BY <2>0, <4>2 DEF Claimed, Completed, SentRow, Failed, FailedRow, Row
        <5>2. QED BY <2>0, <5>1
      <4>3. QED BY <1>2, <2>0, <2>3, <4>1, <4>2, NextRowStep DEF RowStep
    <3>2. Cardinality(Passed(j)') <= Cardinality(Passed(j))
      BY <2>1, <2>3, FS_Subset
    <3>3. QED BY <2>0, <2>1, <3>1, <3>2
  <2>4. CASE OwnerRetried(j)
    <3>1. PICK r \in Requests : /\ RetryUpdate(r) /\ req[r].job = j
                                /\ outbox'[j] = RetriedRow(outbox[j], req[r].now)
      BY <2>4 DEF OwnerRetried
    <3>2. manual' = manual + 1
      BY <2>0, <3>1 DEF RetriedRow, Row
    <3>3. r \in Passed(j) /\ Passed(j)' = Passed(j) \ {r}
      BY <1>2, <3>1 DEF RetryUpdate, Passed, IdleRequest, TypeInv, TypeOK
    <3>4. Cardinality(Passed(j)') = Cardinality(Passed(j)) - 1
      BY <2>1, <3>3, FS_RemoveElement
    <3>5. QED BY <2>0, <2>1, <3>2, <3>4
  <2>5. QED BY <1>2, <2>2, <2>3, <2>4, PassedStep
<1>3. QED BY <1>1, <1>2 DEF RetriesBounded

\* Requests that overlap may each take the owner's retries one past the cap, but
\* all of them together no further, however they fail half way or come again.
THEOREM RetriesOvershoot == Spec => []ManualRetryOvershoot
<1>1. TypeInv /\ RetriesBounded => ManualRetryOvershoot
  <2> SUFFICES ASSUME TypeInv, RetriesBounded, NEW j \in Jobs
               PROVE  outbox[j].manualAttempts < MaxManualRetries + Cardinality(Requests)
    BY DEF ManualRetryOvershoot
  <2>1. outbox[j].manualAttempts \in Nat /\ MaxManualRetries \in Nat
    BY OutboxAssumption DEF TypeInv, TypeOK, Row
  <2>2. outbox[j].manualAttempts + Cardinality(Passed(j)) < MaxManualRetries + Cardinality(Requests)
    BY DEF RetriesBounded
  <2>3. QED BY <2>1, <2>2, PassedFinite
<1>2. QED BY <1>1, TypeInit, TypeNext, RetriesBoundedInductive, PTL DEF Spec
=============================================================================
