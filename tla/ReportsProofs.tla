-------------------------- MODULE ReportsProofs --------------------------
(* Theorems about Reports, for any crons, owners, keys, lock times and     *)
(* faults.  Every step that is not a tick changes one invocation; the      *)
(* ...Fields lemmas say what each action leaves of it, and the invariants  *)
(* read only those facts.                                                  *)
EXTENDS Reports, TLAPS

\* Goto, EnterReport and the two other changes of inv, field by field.
LEMMA GotoFields ==
  ASSUME TypeOK, NEW i \in Invocations, NEW p \in Pc, Goto(i, p)
  PROVE  /\ inv' \in [Invocations -> Invocation]
         /\ \A j \in Invocations : j # i => inv'[j] = inv[j]
         /\ inv'[i].pc = p /\ inv'[i].key = inv[i].key /\ inv'[i].now = inv[i].now
         /\ inv'[i].since = (IF p \in Waiting THEN clock ELSE 0) /\ inv'[i].ok = inv[i].ok
<1> DEFINE start == IF p \in Waiting THEN clock ELSE 0
<1>1. inv \in [Invocations -> Invocation] /\ start \in Nat
  BY DEF TypeOK
<1>2. inv[i] \in Invocation
  BY <1>1
<1>3. inv' = [inv EXCEPT ![i] = [inv[i] EXCEPT !.pc = p, !.since = start]]
  BY DEF Goto
<1> DEFINE row == [inv[i] EXCEPT !.pc = p, !.since = start]
<1> HIDE DEF start
<1>4. /\ row \in Invocation
      /\ row.pc = p /\ row.key = inv[i].key /\ row.now = inv[i].now
      /\ row.since = start /\ row.ok = inv[i].ok
  BY <1>1, <1>2 DEF Invocation
<1>5. inv' = [inv EXCEPT ![i] = row]
  BY <1>3
<1> HIDE DEF row
<1>6. /\ inv' \in [Invocations -> Invocation] /\ \A j \in Invocations : j # i => inv'[j] = inv[j]
      /\ inv'[i] = row
  BY <1>1, <1>4, <1>5
<1> QED BY <1>4, <1>6 DEF start

LEMMA EnterFields ==
  ASSUME TypeOK, NEW i \in Invocations, EnterReport(i)
  PROVE  /\ inv' \in [Invocations -> Invocation]
         /\ \A j \in Invocations : j # i => inv'[j] = inv[j]
         /\ inv'[i].pc = "update" /\ inv'[i].key = inv[i].key /\ inv'[i].now = clock
         /\ inv'[i].since = inv[i].since /\ inv'[i].ok = inv[i].ok
<1>1. inv \in [Invocations -> Invocation] /\ clock \in Nat /\ "update" \in Pc
  BY DEF TypeOK, Pc
<1>2. inv[i] \in Invocation
  BY <1>1
<1>3. inv' = [inv EXCEPT ![i] = [inv[i] EXCEPT !.pc = "update", !.now = clock]]
  BY DEF EnterReport
<1> DEFINE row == [inv[i] EXCEPT !.pc = "update", !.now = clock]
<1>4. /\ row \in Invocation
      /\ row.pc = "update" /\ row.key = inv[i].key /\ row.now = clock
      /\ row.since = inv[i].since /\ row.ok = inv[i].ok
  BY <1>1, <1>2 DEF Invocation
<1>5. inv' = [inv EXCEPT ![i] = row]
  BY <1>3
<1> HIDE DEF row
<1> QED BY <1>1, <1>4, <1>5

LEMMA DispatchedFields ==
  ASSUME TypeOK, NEW i \in Invocations, Dispatched(i)
  PROVE  /\ inv' \in [Invocations -> Invocation]
         /\ \A j \in Invocations : j # i => inv'[j] = inv[j]
         /\ inv'[i].pc = "release" /\ inv'[i].key = inv[i].key /\ inv'[i].now = inv[i].now
         /\ inv'[i].since = inv[i].since /\ inv'[i].ok
<1>1. inv \in [Invocations -> Invocation] /\ "release" \in Pc
  BY DEF TypeOK, Pc
<1>2. inv[i] \in Invocation
  BY <1>1
<1>3. inv' = [inv EXCEPT ![i] = [inv[i] EXCEPT !.pc = "release", !.ok = TRUE]]
  BY DEF Dispatched
<1> DEFINE row == [inv[i] EXCEPT !.pc = "release", !.ok = TRUE]
<1>4. /\ row \in Invocation
      /\ row.pc = "release" /\ row.key = inv[i].key /\ row.now = inv[i].now
      /\ row.since = inv[i].since /\ row.ok
  BY <1>1, <1>2 DEF Invocation
<1>5. inv' = [inv EXCEPT ![i] = row]
  BY <1>3
<1> HIDE DEF row
<1> QED BY <1>1, <1>4, <1>5

LEMMA StartFields ==
  ASSUME TypeOK, NEW c \in Invocations, CronStarts(c)
  PROVE  /\ inv' \in [Invocations -> Invocation]
         /\ \A j \in Invocations : j # c => inv'[j] = inv[j]
         /\ inv'[c].pc = "prepare" /\ inv'[c].now = inv[c].now
         /\ inv'[c].since = clock /\ inv'[c].ok = inv[c].ok
<1>1. /\ inv \in [Invocations -> Invocation] /\ clock \in 0..MaxTime
      /\ "prepare" \in Pc
  BY DEF TypeOK, Pc, Waiting
<1>2. inv[c] \in Invocation /\ KeyAt[clock] \in Keys \cup {NoKey} /\ clock \in Nat
  BY <1>1, ReportsAssumption
<1>3. inv' = [inv EXCEPT ![c] = [inv[c] EXCEPT !.pc = "prepare", !.key = KeyAt[clock],
                                               !.since = clock]]
  BY DEF CronStarts
<1> DEFINE row == [inv[c] EXCEPT !.pc = "prepare", !.key = KeyAt[clock], !.since = clock]
<1>4. /\ row \in Invocation
      /\ row.pc = "prepare" /\ row.now = inv[c].now
      /\ row.since = clock /\ row.ok = inv[c].ok
  BY <1>1, <1>2 DEF Invocation
<1>5. inv' = [inv EXCEPT ![c] = row]
  BY <1>3
<1> HIDE DEF row
<1> QED BY <1>1, <1>4, <1>5

LEMMA ReleasedFields ==
  ASSUME TypeOK, NEW i \in Invocations, Released(i)
  PROVE  /\ inv' \in [Invocations -> Invocation]
         /\ \A j \in Invocations : j # i => inv'[j] = inv[j]
         /\ inv'[i].pc = (IF i \in Crons /\ inv[i].ok THEN "bind" ELSE "done")
         /\ inv'[i].key = inv[i].key /\ inv'[i].now = inv[i].now
         /\ inv'[i].ok = inv[i].ok
<1>1. "bind" \in Pc /\ "done" \in Pc
  BY DEF Pc
<1>2. CASE i \in Crons /\ inv[i].ok
  BY <1>1, <1>2, GotoFields DEF Released
<1>3. CASE ~(i \in Crons /\ inv[i].ok)
  BY <1>1, <1>3, GotoFields DEF Released
<1>4. QED BY <1>2, <1>3

---------------------------------------------------------------------------
(* Types.                                                                  *)

LEMMA OwnedType ==
  ASSUME TypeOK, NEW i \in Invocations
  PROVE  /\ Owned(i) \in Lock
         /\ Owned(i).exists /\ Owned(i).token = i
         /\ Owned(i).lockedUntil = inv[i].now + LockTime
<1>1. inv[i].now \in Nat /\ LockTime \in Nat
  BY ReportsAssumption DEF TypeOK, Invocation
<1>2. inv[i].now + LockTime \in Nat
  BY <1>1
<1>3. QED BY <1>2 DEF Owned, Lock

LEMMA FreeLockType ==
  ASSUME TypeOK, NEW i \in Invocations, FreeLock(i)
  PROVE  /\ lock' \in Lock
         /\ lock' = lock \/ (lock.token = i /\ lock'.token = NoOne)
         /\ lock'.exists = lock.exists
BY DEF TypeOK, FreeLock, Lock

\* What a step of invocation i leaves of the local states and the runs, and the
\* types of the rest.
LEMMA ReportStepType ==
  ASSUME TypeOK, NEW i \in Invocations, ReportStep(i) \/ FaultStep(i)
  PROVE  TypeOK' /\ clock' = clock
<1> USE DEF Pc, Waiting
<1>0. runs \in [Invocations -> SUBSET {"report", "failure"}] /\ lock \in Lock /\ faults \in Nat
  BY DEF TypeOK
<1>1. CASE UpdateLock(i)
  BY <1>1, GotoFields, OwnedType DEF UpdateLock, TypeOK
<1>2. CASE InsertLock(i)
  BY <1>2, GotoFields, OwnedType DEF InsertLock, TypeOK
<1>3. CASE Generated(i)
  BY <1>3, GotoFields DEF Generated, TypeOK
<1>4. CASE Enqueued(i)
  BY <1>0, <1>4, GotoFields DEF Enqueued, TypeOK
<1>5. CASE Dispatched(i)
  BY <1>5, DispatchedFields DEF Dispatched, TypeOK
<1>6. CASE FailureRecorded(i)
  BY <1>0, <1>6, GotoFields DEF FailureRecorded, TypeOK
<1>7. CASE ReleaseLock(i)
  BY <1>7, ReleasedFields, FreeLockType DEF ReleaseLock, TypeOK
<1>8. CASE LockThrows(i)
  BY <1>0, <1>8, GotoFields, OwnedType DEF LockThrows, Fault, TypeOK
<1>9. CASE BodyThrows(i)
  BY <1>0, <1>9, GotoFields DEF BodyThrows, Fault, TypeOK
<1>10. CASE FailureLost(i)
  BY <1>0, <1>10, GotoFields DEF FailureLost, Fault, TypeOK
<1>11. CASE ReleaseLost(i)
  BY <1>0, <1>11, ReleasedFields DEF ReleaseLost, Fault, TypeOK
<1>12. CASE Crash(i)
  BY <1>0, <1>12, GotoFields DEF Crash, Fault, TypeOK
<1>13. QED
  BY <1>1, <1>2, <1>3, <1>4, <1>5, <1>6, <1>7, <1>8, <1>9, <1>10, <1>11, <1>12
  DEF ReportStep, FaultStep

LEMMA TriggerType ==
  ASSUME TypeOK, NEW i \in Invocations,
         \/ i \in Crons /\ (CronStarts(i) \/ CronStep(i) \/ ClaimOccurrenceThrows(i))
         \/ ManualStarts(i),
         inv[i].pc \in {"occurrence", "bind"} => inv[i].key \in Keys
  PROVE  TypeOK' /\ clock' = clock
<1> USE DEF Pc, Waiting
<1>0. occ \in [Keys -> Occurrence] /\ faults \in Nat
  BY DEF TypeOK
<1>1. CASE CronStarts(i)
  BY <1>1, StartFields DEF CronStarts, TypeOK
<1>2. CASE Prepared(i)
  BY <1>2, GotoFields DEF Prepared, TypeOK
<1>a. ASSUME At(i, "occurrence")
      PROVE  [occ EXCEPT ![inv[i].key].claimed = TRUE] \in [Keys -> Occurrence]
  BY <1>0, <1>a DEF Occurrence, At
<1>3. CASE ClaimOccurrence(i)
  <2>1. At(i, "occurrence") /\ UNCHANGED <<clock, lock, runs, faults>>
    BY <1>3 DEF ClaimOccurrence
  <2>2. inv' \in [Invocations -> Invocation]
    BY <1>3, GotoFields, EnterFields DEF ClaimOccurrence
  <2>3. occ' \in [Keys -> Occurrence]
    BY <1>0, <1>3, <1>a, <2>1 DEF ClaimOccurrence
  <2>4. QED BY <2>1, <2>2, <2>3 DEF TypeOK
<1>4. CASE ClaimOccurrenceThrows(i)
  <2>1. At(i, "occurrence") /\ UNCHANGED <<clock, lock, runs>> /\ faults' = faults + 1
    BY <1>4 DEF ClaimOccurrenceThrows, Fault
  <2>2. inv' \in [Invocations -> Invocation]
    BY <1>4, GotoFields DEF ClaimOccurrenceThrows
  <2>3. occ' \in [Keys -> Occurrence]
    BY <1>0, <1>4, <1>a, <2>1 DEF ClaimOccurrenceThrows
  <2>4. QED BY <1>0, <2>1, <2>2, <2>3 DEF TypeOK
<1>5. CASE BindRun(i)
  <2>1. occ' \in [Keys -> Occurrence]
    BY <1>0, <1>5 DEF BindRun, Occurrence, At
  <2>2. QED BY <1>5, <2>1, GotoFields DEF BindRun, TypeOK
<1>6. CASE ManualStarts(i)
  BY <1>6, EnterFields DEF ManualStarts, TypeOK
<1>7. QED BY <1>1, <1>2, <1>3, <1>4, <1>5, <1>6 DEF CronStep

---------------------------------------------------------------------------
(* Runs and occurrences.                                                   *)

\* Past its claim of the occurrence.
Claimed(c) == \/ inv[c].pc \in Pc \ {"new", "prepare", "occurrence", "done", "dead"}
              \/ runs[c] # {}

\* The stage of an invocation agrees with its key and with what it has recorded.
Stage(i) ==
  /\ inv[i].pc \in {"new", "prepare", "occurrence", "update", "insert", "generate", "enqueue"}
       => runs[i] = {} /\ ~inv[i].ok
  /\ inv[i].pc \in {"dispatch", "bind"} => runs[i] = {"report"}
  /\ inv[i].ok => inv[i].pc \in {"release", "bind", "done", "dead"} /\ runs[i] = {"report"}
  /\ inv[i].pc \in {"prepare", "occurrence", "bind"} => i \in Crons
  /\ inv[i].pc = "occurrence" => inv[i].key \in Keys
  /\ i \in Crons /\ Claimed(i) => inv[i].key \in Keys /\ occ[inv[i].key].claimed

\* One cron per occurrence gets past its claim.
ClaimInv == \A c, d \in Crons : Claimed(c) /\ Claimed(d) /\ inv[c].key = inv[d].key => c = d

\* A bound occurrence is final.
Bound(k, c) == /\ c \in Crons /\ inv[c].key = k
               /\ inv[c].pc = "done" /\ runs[c] = {"report"}

BoundInv == \A k \in Keys : occ[k].run # NoOne => Bound(k, occ[k].run)

RunInv == TypeOK /\ (\A i \in Invocations : Stage(i)) /\ ClaimInv /\ BoundInv

\* A step of invocation i that claims and binds nothing.
LEMMA OneStage ==
  ASSUME RunInv, NEW i \in Invocations, UNCHANGED occ, TypeOK',
         \A j \in Invocations : j # i => inv'[j] = inv[j] /\ runs'[j] = runs[j],
         Claimed(i)' => Claimed(i) /\ inv'[i].key = inv[i].key,
         inv[i].pc # "done", Stage(i)'
  PROVE  RunInv'
<1>0. Crons \subseteq Invocations
  BY DEF Invocations
<1>1. \A j \in Invocations : Stage(j)'
  <2> SUFFICES ASSUME NEW j \in Invocations, j # i PROVE Stage(j)'
    OBVIOUS
  <2>1. Stage(j)
    BY DEF RunInv
  <2>2. QED BY <2>1 DEF Stage, Claimed
<1>2. \A c \in Crons : Claimed(c)' => Claimed(c) /\ inv'[c].key = inv[c].key
  BY <1>0 DEF Claimed
<1>3. ClaimInv'
  BY <1>2 DEF RunInv, ClaimInv
<1>4. BoundInv'
  <2> SUFFICES ASSUME NEW k \in Keys, occ[k].run # NoOne PROVE Bound(k, occ[k].run)'
    BY DEF BoundInv
  <2>1. Bound(k, occ[k].run)
    BY DEF RunInv, BoundInv
  <2>2. occ[k].run # i
    BY <2>1 DEF Bound
  <2>3. QED BY <1>0, <2>1, <2>2 DEF Bound
<1>5. QED BY <1>1, <1>3, <1>4 DEF RunInv

LEMMA RunReportStep ==
  ASSUME RunInv, NEW i \in Invocations, ReportStep(i) \/ FaultStep(i)
  PROVE  RunInv'
<1>0. /\ TypeOK /\ TypeOK' /\ Stage(i)
      /\ runs \in [Invocations -> SUBSET {"report", "failure"}]
      /\ occ' = occ
  <2>1. TypeOK /\ TypeOK' /\ Stage(i)
    BY ReportStepType DEF RunInv
  <2>2. occ' = occ
    BY DEF ReportStep, FaultStep, UpdateLock, InsertLock, Generated, Enqueued, Dispatched,
           FailureRecorded, ReleaseLock, LockThrows, BodyThrows, FailureLost, ReleaseLost, Crash
  <2>3. QED BY <2>1, <2>2 DEF TypeOK
<1> DEFINE Others == \A j \in Invocations : j # i => inv'[j] = inv[j] /\ runs'[j] = runs[j]
           Local == /\ inv'[i].key = inv[i].key
                    /\ inv[i].pc \in Pc \ {"new", "prepare", "occurrence", "done", "dead"} \/ runs[i] # {} \/ ~Claimed(i)'
                    /\ inv[i].pc # "done" /\ Stage(i)'
<1>a. SUFFICES Others /\ Local
  BY <1>0, OneStage DEF Claimed
<1> USE DEF At
<1>1. CASE UpdateLock(i)
  BY <1>0, <1>1, GotoFields DEF UpdateLock, Stage, Claimed, Pc, Waiting
<1>2. CASE InsertLock(i)
  BY <1>0, <1>2, GotoFields DEF InsertLock, Stage, Claimed, Pc, Waiting
<1>3. CASE Generated(i)
  BY <1>0, <1>3, GotoFields DEF Generated, Stage, Claimed, Pc, Waiting
<1>4. CASE Enqueued(i)
  BY <1>0, <1>4, GotoFields DEF Enqueued, Stage, Claimed, Pc, Waiting
<1>5. CASE Dispatched(i)
  BY <1>0, <1>5, DispatchedFields DEF Dispatched, Stage, Claimed, Pc, Waiting
<1>6. CASE FailureRecorded(i)
  BY <1>0, <1>6, GotoFields DEF FailureRecorded, Stage, Claimed, Pc, Waiting
<1>7. CASE ReleaseLock(i)
  BY <1>0, <1>7, ReleasedFields DEF ReleaseLock, Stage, Claimed, Pc, Waiting
<1>8. CASE LockThrows(i)
  BY <1>0, <1>8, GotoFields DEF LockThrows, Stage, Claimed, Pc, Waiting
<1>9. CASE BodyThrows(i)
  BY <1>0, <1>9, GotoFields DEF BodyThrows, Stage, Claimed, Pc, Waiting
<1>10. CASE FailureLost(i)
  BY <1>0, <1>10, GotoFields DEF FailureLost, Stage, Claimed, Pc, Waiting
<1>11. CASE ReleaseLost(i)
  BY <1>0, <1>11, ReleasedFields DEF ReleaseLost, Stage, Claimed, Pc, Waiting
<1>12. CASE Crash(i)
  BY <1>0, <1>12, GotoFields DEF Crash, Stage, Claimed, Pc, Waiting
<1>13. QED
  BY <1>1, <1>2, <1>3, <1>4, <1>5, <1>6, <1>7, <1>8, <1>9, <1>10, <1>11, <1>12
  DEF ReportStep, FaultStep

\* The claim of an occurrence, by a cron that goes on (won) or that gets an error.
LEMMA ClaimKeeps ==
  ASSUME RunInv, NEW c \in Crons, TypeOK', UNCHANGED runs,
         inv[c].pc = "occurrence",
         occ' = [occ EXCEPT ![inv[c].key].claimed = TRUE],
         \A j \in Invocations : j # c => inv'[j] = inv[j],
         inv'[c].key = inv[c].key, inv'[c].ok = inv[c].ok,
         \/ inv'[c].pc = "update" /\ ~occ[inv[c].key].claimed
         \/ inv'[c].pc = "done"
  PROVE  RunInv'
<1>0. /\ Crons \subseteq Invocations /\ Stage(c) /\ inv[c].key \in Keys
      /\ occ \in [Keys -> Occurrence] /\ TypeOK
  BY DEF Invocations, RunInv, Stage, TypeOK
<1>1. \A k \in Keys : /\ occ'[k].run = occ[k].run
                      /\ occ[k].claimed => occ'[k].claimed
                      /\ k = inv[c].key => occ'[k].claimed
  BY <1>0 DEF Occurrence
<1>2. \A j \in Invocations : j # c => (Claimed(j)' <=> Claimed(j))
  BY DEF Claimed
<1>3. \A j \in Invocations : Stage(j)'
  <2> SUFFICES ASSUME NEW j \in Invocations PROVE Stage(j)'
    OBVIOUS
  <2>1. Stage(j)
    BY DEF RunInv
  <2>2. CASE j = c
    BY <1>0, <1>1, <2>1, <2>2 DEF Stage
  <2>3. CASE j # c
    BY <1>1, <1>2, <2>1, <2>3 DEF Stage
  <2>4. QED BY <2>2, <2>3
<1>4. ClaimInv'
  <2>1. ClaimInv /\ \A d \in Crons : Claimed(d) => occ[inv[d].key].claimed
    BY <1>0 DEF RunInv, Stage
  <2>2. CASE inv'[c].pc = "done"
    <3>1. ~Claimed(c)'
      BY <1>0, <2>2 DEF Claimed, Stage
    <3>2. QED BY <1>0, <1>2, <2>1, <3>1 DEF ClaimInv
  <2>3. CASE ~occ[inv[c].key].claimed
    BY <1>0, <1>2, <2>1, <2>3 DEF ClaimInv
  <2>4. QED BY <2>2, <2>3
<1>5. BoundInv'
  <2> SUFFICES ASSUME NEW k \in Keys, occ[k].run # NoOne PROVE Bound(k, occ[k].run)'
    BY <1>1 DEF BoundInv
  <2>1. Bound(k, occ[k].run) /\ occ[k].run # c
    BY DEF RunInv, BoundInv, Bound
  <2>2. QED BY <1>0, <1>1, <2>1 DEF Bound
<1>6. QED BY <1>3, <1>4, <1>5 DEF RunInv

LEMMA BindKeeps ==
  ASSUME RunInv, NEW c \in Crons, BindRun(c), TypeOK'
  PROVE  RunInv'
<1>0. /\ Crons \subseteq Invocations /\ Stage(c) /\ occ \in [Keys -> Occurrence]
      /\ TypeOK /\ inv[c].pc = "bind" /\ runs' = runs /\ "done" \in Pc
  BY DEF Invocations, RunInv, TypeOK, BindRun, At, Pc
<1>1. inv[c].key \in Keys /\ runs[c] = {"report"} /\ Claimed(c)
  BY <1>0 DEF Stage, Claimed, Pc, Waiting
<1>2. \A k \in Keys : /\ occ'[k].claimed = occ[k].claimed
                      /\ occ'[k].run = IF k = inv[c].key THEN c ELSE occ[k].run
  BY <1>0, <1>1 DEF BindRun, Occurrence
<1>3. /\ \A j \in Invocations : j # c => inv'[j] = inv[j]
      /\ inv'[c].pc = "done" /\ inv'[c].key = inv[c].key /\ inv'[c].ok = inv[c].ok
  BY <1>0, GotoFields DEF BindRun
<1>4. \A j \in Crons : Claimed(j)' => Claimed(j) /\ inv'[j].key = inv[j].key
  BY <1>0, <1>1, <1>3 DEF Claimed
<1>5. \A j \in Invocations : Stage(j)'
  <2> SUFFICES ASSUME NEW j \in Invocations PROVE Stage(j)'
    OBVIOUS
  <2>1. Stage(j)
    BY DEF RunInv
  <2>2. CASE j = c
    BY <1>0, <1>1, <1>2, <1>3, <2>1, <2>2 DEF Stage
  <2>3. CASE j # c
    <3>1. inv'[j] = inv[j] /\ runs'[j] = runs[j] /\ (Claimed(j)' <=> Claimed(j))
      BY <1>0, <1>3, <2>3 DEF Claimed
    <3>2. QED BY <1>2, <2>1, <3>1 DEF Stage
  <2>4. QED BY <2>2, <2>3
<1>6. ClaimInv'
  BY <1>4 DEF RunInv, ClaimInv
<1>7. BoundInv'
  <2> SUFFICES ASSUME NEW k \in Keys, occ'[k].run # NoOne PROVE Bound(k, occ[k].run)'
    BY DEF BoundInv
  <2>1. CASE k = inv[c].key
    BY <1>0, <1>1, <1>2, <1>3, <2>1 DEF Bound
  <2>2. CASE k # inv[c].key
    <3>1. Bound(k, occ[k].run) /\ occ[k].run # c /\ occ'[k].run = occ[k].run
      BY <1>0, <1>2, <2>2 DEF RunInv, BoundInv, Bound
    <3>2. QED BY <1>0, <1>3, <3>1 DEF Bound
  <2>3. QED BY <2>1, <2>2
<1>8. QED BY <1>5, <1>6, <1>7 DEF RunInv

LEMMA RunTriggerStep ==
  ASSUME RunInv, NEW i \in Invocations,
         \/ i \in Crons /\ (CronStarts(i) \/ CronStep(i) \/ ClaimOccurrenceThrows(i))
         \/ i \in Manuals /\ ManualStarts(i)
  PROVE  RunInv'
<1>0. /\ TypeOK /\ Stage(i) /\ TypeOK'
  <2>1. TypeOK /\ Stage(i)
    BY DEF RunInv
  <2>2. inv[i].pc \in {"occurrence", "bind"} => inv[i].key \in Keys
    BY <2>1 DEF Stage, Claimed, Pc, Waiting
  <2>3. TypeOK'
    BY <2>1, <2>2, TriggerType
  <2>4. QED BY <2>1, <2>3
<1>a. {"done", "occurrence"} \subseteq Pc
  BY DEF Pc
<1>1. CASE CronStarts(i) /\ i \in Crons
  <2>1. /\ \A j \in Invocations : j # i => inv'[j] = inv[j]
        /\ inv'[i].pc = "prepare" /\ inv'[i].ok = inv[i].ok
        /\ inv[i].pc = "new" /\ UNCHANGED <<occ, runs>>
    BY <1>0, <1>1, StartFields DEF CronStarts, At
  <2>2. Stage(i)' /\ ~Claimed(i)'
    BY <1>0, <1>1, <2>1 DEF Stage, Claimed
  <2>3. QED BY <1>0, <2>1, <2>2, OneStage
<1>2. CASE Prepared(i) /\ i \in Crons
  <2>1. /\ \A j \in Invocations : j # i => inv'[j] = inv[j]
        /\ inv'[i].pc = (IF inv[i].key = NoKey THEN "done" ELSE "occurrence")
        /\ inv'[i].ok = inv[i].ok /\ inv'[i].key = inv[i].key
        /\ inv[i].pc = "prepare" /\ UNCHANGED <<occ, runs>>
    BY <1>0, <1>2, <1>a, GotoFields DEF Prepared, At
  <2>2. inv[i].key \in Keys \cup {NoKey}
    BY <1>0 DEF TypeOK, Invocation
  <2>3. Stage(i)' /\ ~Claimed(i)'
    BY <1>0, <1>2, <2>1, <2>2 DEF Stage, Claimed
  <2>4. QED BY <1>0, <2>1, <2>3, OneStage
<1>3. CASE ClaimOccurrence(i) /\ i \in Crons
  <2>1. inv[i].pc = "occurrence" /\ UNCHANGED runs
    BY <1>3 DEF ClaimOccurrence, At
  <2>2. CASE occ[inv[i].key].claimed
    <3>1. /\ \A j \in Invocations : j # i => inv'[j] = inv[j]
          /\ inv'[i].pc = "done" /\ inv'[i].ok = inv[i].ok /\ UNCHANGED occ
      BY <1>0, <1>3, <1>a, <2>2, GotoFields DEF ClaimOccurrence
    <3>2. Stage(i)' /\ ~Claimed(i)'
      BY <1>0, <2>1, <3>1 DEF Stage, Claimed
    <3>3. QED BY <1>0, <2>1, <3>1, <3>2, OneStage
  <2>3. CASE ~occ[inv[i].key].claimed
    <3>1. EnterReport(i) /\ occ' = [occ EXCEPT ![inv[i].key].claimed = TRUE]
      BY <1>3, <2>3 DEF ClaimOccurrence
    <3>2. QED BY <1>0, <1>3, <2>1, <2>3, <3>1, EnterFields, ClaimKeeps
  <2>4. QED BY <2>2, <2>3
<1>4. CASE ClaimOccurrenceThrows(i) /\ i \in Crons
  <2>1. /\ inv[i].pc = "occurrence" /\ UNCHANGED runs
        /\ \A j \in Invocations : j # i => inv'[j] = inv[j]
        /\ inv'[i].pc = "done" /\ inv'[i].ok = inv[i].ok /\ inv'[i].key = inv[i].key
    BY <1>0, <1>4, <1>a, GotoFields DEF ClaimOccurrenceThrows, At
  <2>2. CASE UNCHANGED occ
    <3>1. Stage(i)' /\ ~Claimed(i)'
      BY <1>0, <2>1, <2>2 DEF Stage, Claimed
    <3>2. QED BY <1>0, <2>1, <2>2, <3>1, OneStage
  <2>3. CASE occ' = [occ EXCEPT ![inv[i].key].claimed = TRUE]
    BY <1>0, <1>4, <2>1, <2>3, ClaimKeeps
  <2>4. QED BY <1>4, <2>2, <2>3 DEF ClaimOccurrenceThrows
<1>5. CASE BindRun(i) /\ i \in Crons
  BY <1>0, <1>5, BindKeeps
<1>6. CASE ManualStarts(i) /\ i \in Manuals
  <2>0. i \notin Crons
    BY <1>6, ReportsAssumption
  <2>1. /\ \A j \in Invocations : j # i => inv'[j] = inv[j]
        /\ inv'[i].pc = "update" /\ inv'[i].ok = inv[i].ok /\ inv'[i].key = inv[i].key
        /\ inv[i].pc = "new" /\ UNCHANGED <<occ, runs>>
    BY <1>0, <1>6, EnterFields DEF ManualStarts, At
  <2>2. Stage(i)'
    BY <1>0, <2>0, <2>1 DEF Stage
  <2>3. \A j \in Invocations : Stage(j)'
    <3> SUFFICES ASSUME NEW j \in Invocations, j # i PROVE Stage(j)'
      BY <2>2
    <3>1. Stage(j)
      BY DEF RunInv
    <3>2. QED BY <2>1, <3>1 DEF Stage, Claimed
  <2>4. \A c \in Crons : (Claimed(c)' <=> Claimed(c)) /\ inv'[c].key = inv[c].key
    BY <2>0, <2>1 DEF Claimed, Invocations
  <2>5. ClaimInv'
    BY <2>4 DEF RunInv, ClaimInv
  <2>6. BoundInv'
    <3> SUFFICES ASSUME NEW k \in Keys, occ[k].run # NoOne PROVE Bound(k, occ[k].run)'
      BY <2>1 DEF BoundInv
    <3>1. Bound(k, occ[k].run) /\ occ[k].run # i
      BY <2>0 DEF RunInv, BoundInv, Bound
    <3>2. QED BY <2>1, <3>1 DEF Bound, Invocations
  <2>7. QED BY <1>0, <2>3, <2>5, <2>6 DEF RunInv
<1>7. QED BY <1>1, <1>2, <1>3, <1>4, <1>5, <1>6 DEF CronStep

LEMMA RunInit == Init => RunInv
<1> SUFFICES ASSUME Init PROVE RunInv
  OBVIOUS
<1> USE DEF Init
<1>1. TypeOK
  BY ReportsAssumption DEF TypeOK, Lock, Occurrence, Invocation, Pc, Waiting
<1>2. \A i \in Invocations : Stage(i) /\ ~Claimed(i)
  BY DEF Stage, Claimed
<1>3. ClaimInv /\ BoundInv
  BY <1>2 DEF ClaimInv, BoundInv, Invocations
<1>4. QED BY <1>1, <1>2, <1>3 DEF RunInv

LEMMA RunTick == RunInv /\ (Tick \/ UNCHANGED vars) => RunInv'
<1> SUFFICES ASSUME RunInv, Tick \/ UNCHANGED vars PROVE RunInv'
  OBVIOUS
<1>1. UNCHANGED <<lock, occ, runs, inv, faults>>
  BY DEF Tick, vars
<1>2. TypeOK'
  <2>1. clock' \in 0..MaxTime
    BY ReportsAssumption DEF RunInv, TypeOK, Tick, vars
  <2>2. QED BY <1>1, <2>1 DEF RunInv, TypeOK
<1>3. QED BY <1>1, <1>2 DEF RunInv, Stage, Claimed, ClaimInv, BoundInv, Bound

LEMMA RunInvInductive == RunInv /\ [Next]_vars => RunInv'
<1> SUFFICES ASSUME RunInv, [Next]_vars PROVE RunInv'
  OBVIOUS
<1>1. CASE \E c \in Crons : CronStarts(c) \/ CronStep(c) \/ ClaimOccurrenceThrows(c)
  BY <1>1, RunTriggerStep DEF Invocations
<1>2. CASE \E m \in Manuals : ManualStarts(m)
  BY <1>2, RunTriggerStep DEF Invocations
<1>3. CASE \E i \in Invocations : ReportStep(i) \/ FaultStep(i)
  BY <1>3, RunReportStep
<1>4. CASE Tick \/ UNCHANGED vars
  BY <1>4, RunTick
<1>5. QED BY <1>1, <1>2, <1>3, <1>4 DEF Next

LEMMA RunAlways == Spec => []RunInv
BY RunInit, RunInvInductive, PTL DEF Spec

\* The variables keep their types.
THEOREM TypeCorrect == Spec => []TypeOK
<1>1. RunInv => TypeOK
  BY DEF RunInv
<1>2. QED BY <1>1, RunAlways, PTL

\* At most one cron enqueues a report for an occurrence, with any number of
\* duplicate cron events, repeated local hours, kills and D1 errors: the primary
\* key of scheduled_occurrences lets one claim through, and nothing deletes it.
THEOREM OneReport == Spec => []OneReportPerOccurrence
<1>1. RunInv => OneReportPerOccurrence
  BY DEF RunInv, ClaimInv, OneReportPerOccurrence, Claimed
<1>2. QED BY <1>1, RunAlways, PTL

\* bindOccurrenceRun names only reports that were dispatched and that no failure
\* run follows.
THEOREM BoundRuns == Spec => []OccurrenceNamesItsRun
<1>1. RunInv => OccurrenceNamesItsRun
  BY DEF RunInv, BoundInv, Bound, OccurrenceNamesItsRun
<1>2. QED BY <1>1, RunAlways, PTL

---------------------------------------------------------------------------
(* The lock.                                                               *)

\* No invocation has read a time that is still to come, and a row that does not
\* exist has no holder.
LockInv == /\ TypeOK
           /\ \A i \in Invocations : inv[i].now <= clock
           /\ ~lock.exists => lock.token = NoOne

LEMMA LockInit == Init => LockInv
BY RunInit DEF Init, LockInv, RunInv

\* How a step of invocation i leaves the lock.
LEMMA LockStep ==
  ASSUME LockInv, NEW i \in Invocations, ReportStep(i) \/ FaultStep(i)
  PROVE  /\ \/ lock' = lock
            \/ ~lock.exists /\ lock' = Owned(i)
            \/ LockFree(inv[i].now) /\ lock' = Owned(i)
            \/ At(i, "release") /\ FreeLock(i)
         /\ \A j \in Invocations : inv'[j].now = inv[j].now
<1>0. TypeOK /\ {"generate", "insert", "done", "dead", "enqueue", "dispatch", "fail",
                 "release"} \subseteq Pc
  BY DEF LockInv, Pc, Waiting
<1>1. CASE UpdateLock(i)
  BY <1>0, <1>1, GotoFields DEF UpdateLock
<1>2. CASE InsertLock(i)
  BY <1>0, <1>2, GotoFields DEF InsertLock
<1>3. CASE Generated(i)
  BY <1>0, <1>3, GotoFields DEF Generated
<1>4. CASE Enqueued(i)
  BY <1>0, <1>4, GotoFields DEF Enqueued
<1>5. CASE Dispatched(i)
  BY <1>0, <1>5, DispatchedFields DEF Dispatched
<1>6. CASE FailureRecorded(i)
  BY <1>0, <1>6, GotoFields DEF FailureRecorded
<1>7. CASE ReleaseLock(i)
  BY <1>0, <1>7, ReleasedFields DEF ReleaseLock
<1>8. CASE LockThrows(i)
  BY <1>0, <1>8, GotoFields DEF LockThrows
<1>9. CASE BodyThrows(i)
  BY <1>0, <1>9, GotoFields DEF BodyThrows
<1>10. CASE FailureLost(i)
  BY <1>0, <1>10, GotoFields DEF FailureLost
<1>11. CASE ReleaseLost(i)
  BY <1>0, <1>11, ReleasedFields DEF ReleaseLost
<1>12. CASE Crash(i)
  BY <1>0, <1>12, GotoFields DEF Crash
<1>13. QED
  BY <1>1, <1>2, <1>3, <1>4, <1>5, <1>6, <1>7, <1>8, <1>9, <1>10, <1>11, <1>12
  DEF ReportStep, FaultStep

\* A step that starts an invocation or takes a cron to its claim.
Leads == /\ UNCHANGED <<lock, clock>>
         /\ \A i \in Invocations :
              \/ inv'[i] = inv[i]
              \/ /\ inv'[i].pc \notin {"insert", "generate"}
                 /\ inv'[i].now \in {inv[i].now, clock}
                 /\ inv'[i].pc = "update" => inv'[i].now = clock

\* Every other step leaves the lock alone.
LEMMA OtherStep ==
  ASSUME RunInv, LockInv, [Next]_vars,
         ~\E i \in Invocations : ReportStep(i) \/ FaultStep(i)
  PROVE  /\ Leads \/ Tick \/ UNCHANGED vars
         /\ lock' = lock
         /\ \A i \in Invocations : inv'[i].now <= clock'
<1>0. TypeOK /\ {"occurrence", "done"} \subseteq Pc /\ clock \in Nat
      /\ inv \in [Invocations -> Invocation]
  BY DEF LockInv, TypeOK, Pc
<1>a. Crons \cup Manuals = Invocations
  BY DEF Invocations
<1>1. ASSUME NEW c \in Crons, CronStarts(c) PROVE Leads
  BY <1>0, <1>1, <1>a, StartFields DEF CronStarts, Leads
<1>2. ASSUME NEW c \in Crons, CronStep(c) PROVE Leads
  <2>1. CASE Prepared(c)
    BY <1>0, <1>a, <2>1, GotoFields DEF Prepared, Leads
  <2>2. CASE ClaimOccurrence(c)
    BY <1>0, <1>a, <2>2, GotoFields, EnterFields DEF ClaimOccurrence, Leads
  <2>3. CASE BindRun(c)
    BY <1>0, <1>a, <2>3, GotoFields DEF BindRun, Leads
  <2>4. QED BY <1>2, <2>1, <2>2, <2>3 DEF CronStep
<1>3. ASSUME NEW c \in Crons, ClaimOccurrenceThrows(c) PROVE Leads
  BY <1>0, <1>3, <1>a, GotoFields DEF ClaimOccurrenceThrows, Leads
<1>4. ASSUME NEW m \in Manuals, ManualStarts(m) PROVE Leads
  BY <1>0, <1>4, <1>a, EnterFields DEF ManualStarts, Leads
<1>5. CASE Tick \/ UNCHANGED vars
  <2>1. UNCHANGED <<lock, inv>> /\ clock' \in Nat /\ clock <= clock'
    BY <1>0, <1>5 DEF Tick, vars
  <2>2. \A i \in Invocations : inv[i].now \in Nat
    BY <1>0 DEF Invocation
  <2>3. QED BY <1>0, <1>5, <2>1, <2>2 DEF LockInv
<1>6. CASE Leads
  BY <1>0, <1>6 DEF LockInv, Leads
<1>7. QED BY <1>1, <1>2, <1>3, <1>4, <1>5, <1>6 DEF Next

LEMMA LockInvInductive == RunInv /\ LockInv /\ [Next]_vars => LockInv'
<1> SUFFICES ASSUME RunInv, LockInv, [Next]_vars PROVE LockInv'
  OBVIOUS
<1>1. TypeOK'
  BY RunInvInductive DEF RunInv
<1>2. ASSUME NEW i \in Invocations, ReportStep(i) \/ FaultStep(i) PROVE LockInv'
  <2>1. clock' = clock /\ TypeOK
    BY <1>2, ReportStepType DEF RunInv
  <2>2. ~lock'.exists => lock'.token = NoOne
    BY <1>2, <2>1, LockStep, OwnedType, FreeLockType DEF LockInv
  <2>3. QED BY <1>1, <1>2, <2>1, <2>2, LockStep DEF LockInv
<1>3. CASE ~\E i \in Invocations : ReportStep(i) \/ FaultStep(i)
  BY <1>1, <1>3, OtherStep DEF LockInv
<1>4. QED BY <1>2, <1>3

\* A lock that has not expired is only given up by its holder, in its finally:
\* the release of a late holder is fenced by the token, and an UPDATE or INSERT
\* takes a lock only when it is free.
THEOREM LocksHonoured == Spec => LockHonoured
<1>1. ASSUME RunInv, LockInv, [Next]_vars
      PROVE  [\A i \in Invocations : (lock.token = i /\ lock'.token # i)
                => lock.lockedUntil <= clock \/ At(i, "release")]_vars
  <2> SUFFICES ASSUME NEW i \in Invocations, lock.token = i, lock'.token # i
               PROVE  lock.lockedUntil <= clock \/ At(i, "release")
    OBVIOUS
  <2>0. TypeOK /\ i # NoOne /\ lock.exists /\ clock \in Nat /\ lock.lockedUntil \in Nat
    BY <1>1, ReportsAssumption DEF LockInv, Invocations, TypeOK, Lock
  <2>1. PICK j \in Invocations : ReportStep(j) \/ FaultStep(j)
    BY <1>1, OtherStep
  <2>2. CASE LockFree(inv[j].now)
    <3>1. inv[j].now <= clock /\ inv[j].now \in Nat
      BY <1>1 DEF LockInv, TypeOK, Invocation
    <3>2. QED BY <2>0, <2>2, <3>1 DEF LockFree
  <2>3. CASE At(j, "release") /\ FreeLock(j)
    BY <2>0, <2>3, FreeLockType
  <2>4. QED BY <1>1, <2>0, <2>1, <2>2, <2>3, LockStep
<1>2. QED BY <1>1, RunAlways, LockInit, LockInvInductive, PTL DEF Spec, LockHonoured

---------------------------------------------------------------------------
(* One generation at a time, as long as no lock runs out.                  *)

\* An invocation that generates, and whose lock has not run out, holds the lock.
Held(i) == /\ lock.exists /\ lock.token = i
           /\ lock.lockedUntil = inv[i].now + LockTime

HeldInv == \A i \in Invocations : At(i, "generate") /\ ~LockOver(i) => Held(i)

\* Invocation i itself: the lock is its own when it starts to generate.
LEMMA HeldOwn ==
  ASSUME TypeOK, NEW i \in Invocations, ReportStep(i) \/ FaultStep(i)
  PROVE  /\ inv'[i].pc = "generate" => Held(i)'
         /\ \A j \in Invocations : j # i => inv'[j] = inv[j]
<1>0. TypeOK /\ {"generate", "insert", "done", "dead", "enqueue", "dispatch", "fail",
                 "release"} \subseteq Pc
  BY DEF Pc, Waiting
<1>1. CASE UpdateLock(i)
  <2>1. CASE LockFree(inv[i].now)
    BY <1>0, <1>1, <2>1, GotoFields, OwnedType DEF UpdateLock, Held
  <2>2. CASE ~LockFree(inv[i].now)
    BY <1>0, <1>1, <2>2, GotoFields DEF UpdateLock
  <2>3. QED BY <2>1, <2>2
<1>2. CASE InsertLock(i)
  <2>1. CASE lock.exists
    BY <1>0, <1>2, <2>1, GotoFields DEF InsertLock
  <2>2. CASE ~lock.exists
    BY <1>0, <1>2, <2>2, GotoFields, OwnedType DEF InsertLock, Held
  <2>3. QED BY <2>1, <2>2
<1>3. CASE Generated(i)
  BY <1>0, <1>3, GotoFields DEF Generated
<1>4. CASE Enqueued(i)
  BY <1>0, <1>4, GotoFields DEF Enqueued
<1>5. CASE Dispatched(i)
  BY <1>0, <1>5, DispatchedFields DEF Dispatched
<1>6. CASE FailureRecorded(i)
  BY <1>0, <1>6, GotoFields DEF FailureRecorded
<1>7. CASE ReleaseLock(i)
  BY <1>0, <1>7, ReleasedFields DEF ReleaseLock
<1>8. CASE LockThrows(i)
  BY <1>0, <1>8, GotoFields DEF LockThrows
<1>9. CASE BodyThrows(i)
  BY <1>0, <1>9, GotoFields DEF BodyThrows
<1>10. CASE FailureLost(i)
  BY <1>0, <1>10, GotoFields DEF FailureLost
<1>11. CASE ReleaseLost(i)
  BY <1>0, <1>11, ReleasedFields DEF ReleaseLost
<1>12. CASE Crash(i)
  BY <1>0, <1>12, GotoFields DEF Crash
<1>13. QED
  BY <1>1, <1>2, <1>3, <1>4, <1>5, <1>6, <1>7, <1>8, <1>9, <1>10, <1>11, <1>12
  DEF ReportStep, FaultStep

\* The others: a lock that has not run out is not taken from who generates.
LEMMA HeldOthers ==
  ASSUME LockInv, HeldInv, NEW i \in Invocations, ReportStep(i) \/ FaultStep(i),
         NEW j \in Invocations, j # i, At(j, "generate"), ~LockOver(j)
  PROVE  lock' = lock
<1>1. Held(j) /\ TypeOK /\ inv[i].now <= clock
  BY DEF HeldInv, LockInv
<1>2. clock \in Nat /\ inv[i].now \in Nat /\ inv[j].now \in Nat /\ LockTime \in Nat
  BY <1>1, ReportsAssumption DEF TypeOK, Invocation
<1>3. ~LockFree(inv[i].now)
  BY <1>1, <1>2 DEF Held, LockFree, LockOver
<1>4. FreeLock(i) => lock' = lock
  BY <1>1 DEF FreeLock, Held
<1>5. QED BY <1>1, <1>3, <1>4, LockStep DEF Held

LEMMA HeldInvInductive == RunInv /\ LockInv /\ HeldInv /\ [Next]_vars => HeldInv'
<1> SUFFICES ASSUME RunInv, LockInv, HeldInv, [Next]_vars PROVE HeldInv'
  OBVIOUS
<1>1. ASSUME NEW i \in Invocations, ReportStep(i) \/ FaultStep(i) PROVE HeldInv'
  <2>1. clock' = clock /\ TypeOK
    BY <1>1, ReportStepType DEF LockInv
  <2> SUFFICES ASSUME NEW j \in Invocations, At(j, "generate")', ~LockOver(j)'
               PROVE  Held(j)'
    BY DEF HeldInv
  <2>2. CASE j = i
    BY <2>1, <1>1, <2>2, HeldOwn DEF At
  <2>3. CASE j # i
    <3>1. inv'[j] = inv[j]
      BY <1>1, <2>1, <2>3, HeldOwn
    <3>2. At(j, "generate") /\ ~LockOver(j)
      BY <2>1, <3>1 DEF At, LockOver
    <3>3. lock' = lock
      BY <1>1, <2>3, <3>2, HeldOthers
    <3>4. QED BY <3>1, <3>2, <3>3 DEF HeldInv, Held
  <2>4. QED BY <2>2, <2>3
<1>2. CASE ~\E i \in Invocations : ReportStep(i) \/ FaultStep(i)
  <2> SUFFICES ASSUME NEW j \in Invocations, At(j, "generate")', ~LockOver(j)'
               PROVE  Held(j)'
    BY DEF HeldInv
  <2>0. /\ clock \in Nat /\ inv[j].now \in Nat /\ LockTime \in Nat
    BY ReportsAssumption DEF LockInv, TypeOK, Invocation
  <2>1. inv'[j] = inv[j] /\ lock' = lock /\ clock' \in {clock, clock + 1}
    BY <1>2, OtherStep DEF Leads, Tick, vars, At
  <2>2. At(j, "generate") /\ ~LockOver(j)
    BY <2>0, <2>1 DEF At, LockOver
  <2>3. QED BY <2>1, <2>2 DEF HeldInv, Held
<1>3. QED BY <1>1, <1>2

\* No two invocations are in generateReport() together unless one of them has been
\* there past its lock: the promise of schema.sql holds exactly as far as the
\* forecast fan-out, which has no timeout of its own, stays below REPORT_LOCK_MS.
THEOREM GenerationsExclusive == Spec => []ExclusiveWhileLocked
<1>1. Init => HeldInv
  BY DEF Init, HeldInv, At
<1>2. HeldInv => ExclusiveWhileLocked
  BY DEF HeldInv, Held, ExclusiveWhileLocked
<1>3. QED BY <1>1, <1>2, HeldInvInductive, RunAlways, LockInit, LockInvInductive, PTL DEF Spec

---------------------------------------------------------------------------
(* One generation at a time, if the forecasts come in time.                *)

\* If D1 answers promptly an invocation has its lock in the instant it asked for it,
\* and generates no longer than a stage may last.
PaceInv ==
  \A i \in Invocations :
    /\ inv[i].pc \in {"update", "insert"} => inv[i].now = clock
    /\ At(i, "generate") => inv[i].since = inv[i].now /\ clock <= inv[i].now + StageTime

\* An invocation comes to generate, or to the INSERT before it, from a claim of the lock.
LEMMA PaceOwn ==
  ASSUME TypeOK, NEW i \in Invocations, ReportStep(i) \/ FaultStep(i)
  PROVE  /\ \A j \in Invocations : j # i => inv'[j] = inv[j]
         /\ \/ inv'[i].pc \notin {"update", "insert", "generate"}
            \/ /\ inv[i].pc \in {"update", "insert"} /\ inv'[i].pc \in {"insert", "generate"}
               /\ inv'[i].now = inv[i].now
               /\ inv'[i].pc = "generate" => inv'[i].since = clock
<1>0. TypeOK /\ {"generate", "insert", "done", "dead", "enqueue", "dispatch", "fail",
                 "release"} \subseteq Pc
  BY DEF Pc, Waiting
<1>1. CASE UpdateLock(i)
  <2>1. CASE LockFree(inv[i].now)
    BY <1>0, <1>1, <2>1, GotoFields DEF UpdateLock, At, Waiting
  <2>2. CASE ~LockFree(inv[i].now)
    BY <1>0, <1>1, <2>2, GotoFields DEF UpdateLock, At
  <2>3. QED BY <2>1, <2>2
<1>2. CASE InsertLock(i)
  <2>1. CASE lock.exists
    BY <1>0, <1>2, <2>1, GotoFields DEF InsertLock
  <2>2. CASE ~lock.exists
    BY <1>0, <1>2, <2>2, GotoFields DEF InsertLock, At, Waiting
  <2>3. QED BY <2>1, <2>2
<1>3. CASE Generated(i) \/ Enqueued(i) \/ FailureRecorded(i) \/ LockThrows(i)
  BY <1>0, <1>3, GotoFields DEF Generated, Enqueued, FailureRecorded, LockThrows
<1>4. CASE Dispatched(i)
  BY <1>0, <1>4, DispatchedFields DEF Dispatched
<1>5. CASE ReleaseLock(i) \/ ReleaseLost(i)
  BY <1>0, <1>5, ReleasedFields DEF ReleaseLock, ReleaseLost
<1>6. CASE BodyThrows(i) \/ FailureLost(i) \/ Crash(i)
  BY <1>0, <1>6, GotoFields DEF BodyThrows, FailureLost, Crash
<1>7. QED BY <1>1, <1>2, <1>3, <1>4, <1>5, <1>6 DEF ReportStep, FaultStep

LEMMA PaceInvInductive ==
  ASSUME Prompt
  PROVE  /\ Init => PaceInv
         /\ RunInv /\ LockInv /\ PaceInv /\ [Next]_vars => PaceInv'
<1>1. Init => PaceInv
  BY DEF Init, PaceInv, At
<1>2. ASSUME RunInv, LockInv, PaceInv, [Next]_vars, NEW j \in Invocations
      PROVE  /\ inv'[j].pc \in {"update", "insert"} => inv'[j].now = clock'
             /\ At(j, "generate")' => /\ inv'[j].since = inv'[j].now
                                      /\ clock' <= inv'[j].now + StageTime
  <2>0. /\ TypeOK /\ clock \in Nat /\ StageTime \in Nat
        /\ inv[j].now \in Nat /\ inv[j].since \in Nat
    BY <1>2, ReportsAssumption DEF RunInv, TypeOK, Invocation
  <2>1. CASE inv'[j] = inv[j] /\ clock' = clock
    BY <1>2, <2>1 DEF PaceInv, At
  <2>2. ASSUME NEW i \in Invocations, ReportStep(i) \/ FaultStep(i)
        PROVE  /\ clock' = clock
               /\ \/ inv'[j] = inv[j]
                  \/ inv'[j].pc \notin {"update", "insert", "generate"}
                  \/ /\ inv[j].pc \in {"update", "insert"} /\ inv'[j].pc \in {"insert", "generate"}
                     /\ inv'[j].now = inv[j].now
                     /\ inv'[j].pc = "generate" => inv'[j].since = clock
    BY <2>0, <2>2, ReportStepType, PaceOwn
  <2>3. CASE \E i \in Invocations : ReportStep(i) \/ FaultStep(i)
    BY <1>2, <2>0, <2>1, <2>2, <2>3 DEF PaceInv, At
  <2>4. CASE Leads
    BY <1>2, <2>1, <2>4 DEF Leads, At
  <2>5. CASE Tick
    <3>1. inv'[j] = inv[j] /\ clock' = clock + 1
      BY <2>5 DEF Tick
    <3>2. /\ inv[j].pc \notin {"update", "insert"}
          /\ inv[j].pc = "generate" => clock < inv[j].since + StageTime
      BY <2>5 DEF Tick, Waiting
    <3>3. QED BY <1>2, <2>0, <3>1, <3>2 DEF PaceInv, At
  <2>6. QED BY <1>2, <2>1, <2>3, <2>4, <2>5, OtherStep DEF vars
<1>3. QED BY <1>1, <1>2 DEF PaceInv

\* What schema.sql says of generateReport() holds if D1 answers promptly and the
\* forecasts, which the code lets take any time, end before REPORT_LOCK_MS is over:
\* neither faults nor late releases nor repeated triggers break it.
THEOREM OneGeneration ==
  ASSUME Prompt, StageTime < LockTime
  PROVE  Spec => []SingleGeneration
<1>1. Init => HeldInv
  BY DEF Init, HeldInv, At
<1>2. ASSUME RunInv, PaceInv, HeldInv PROVE SingleGeneration
  <2>1. ASSUME NEW i \in Invocations, At(i, "generate") PROVE Held(i)
    <3>1. /\ clock \in Nat /\ inv[i].now \in Nat /\ StageTime \in Nat /\ LockTime \in Nat
      BY <1>2, ReportsAssumption DEF RunInv, TypeOK, Invocation
    <3>2. ~LockOver(i)
      BY <1>2, <2>1, <3>1 DEF PaceInv, LockOver
    <3>3. QED BY <1>2, <2>1, <3>2 DEF HeldInv
  <2>2. QED BY <2>1 DEF SingleGeneration, Held
<1>3. QED
  BY <1>1, <1>2, HeldInvInductive, PaceInvInductive, RunAlways, LockInit, LockInvInductive, PTL
  DEF Spec

---------------------------------------------------------------------------
(* The lifecycle of occurrences.                                           *)

\* What lasts is as it was.
LEMMA NothingRecorded ==
  ASSUME UNCHANGED occ,
         \A d \in Crons : /\ runs'[d] = runs[d]
                          /\ runs[d] # {} => inv'[d].key = inv[d].key
  PROVE  UNCHANGED Lifecycle!vars
<1>1. Recorded("report")' = Recorded("report") /\ Recorded("failure")' = Recorded("failure")
  BY DEF Recorded
<1>2. NamedRuns' = NamedRuns
  BY DEF NamedRuns
<1>3. QED BY <1>1, <1>2 DEF Lifecycle!vars

\* One cron records one run.
LEMMA OneRecorded ==
  ASSUME NEW c \in Crons, NEW kind,
         \A d \in Crons \ {c} : runs'[d] = runs[d] /\ inv'[d].key = inv[d].key,
         runs'[c] = runs[c] \cup {kind}, inv'[c].key = inv[c].key
  PROVE  /\ Recorded(kind)' = Recorded(kind) \cup {<<inv[c].key, c>>}
         /\ \A other : other # kind => Recorded(other)' = Recorded(other)
<1>1. \A d \in Crons : \A k : k \in runs'[d] <=> k \in runs[d] \/ (d = c /\ k = kind)
  OBVIOUS
<1>2. \A d \in Crons : inv'[d].key = inv[d].key
  OBVIOUS
<1>3. QED BY <1>1, <1>2 DEF Recorded

\* Past the claim, what is recorded for an occurrence is what its cron recorded.
LEMMA OwnOccurrence ==
  ASSUME RunInv, NEW c \in Crons, Claimed(c)
  PROVE  \E k \in Keys :
           /\ k = inv[c].key /\ occ[k].claimed
           /\ \A kind : Lifecycle!Of(Recorded(kind), k) = IF kind \in runs[c] THEN {c} ELSE {}
           /\ inv[c].pc # "done" => occ[k].run = NoOne /\ Lifecycle!Of(NamedRuns, k) = {}
<1>1. Stage(c) /\ ClaimInv /\ BoundInv
  BY DEF RunInv, Invocations
<1>2. PICK k \in Keys : k = inv[c].key /\ occ[k].claimed
  BY <1>1 DEF Stage
<1>3. \A d \in Crons : runs[d] # {} /\ inv[d].key = k => d = c
  BY <1>1, <1>2 DEF ClaimInv, Claimed
<1>4. \A kind, d : <<k, d>> \in Recorded(kind) <=> d = c /\ kind \in runs[c]
  BY <1>2, <1>3 DEF Recorded
<1>5. \A kind : Lifecycle!Of(Recorded(kind), k) = IF kind \in runs[c] THEN {c} ELSE {}
  BY <1>4 DEF Lifecycle!Of
<1>6. ASSUME inv[c].pc # "done" PROVE occ[k].run = NoOne /\ Lifecycle!Of(NamedRuns, k) = {}
  <2>1. occ[k].run = NoOne
    BY <1>1, <1>3, <1>6 DEF BoundInv, Bound
  <2>2. QED BY <2>1 DEF NamedRuns, Lifecycle!Of
<1>7. QED BY <1>2, <1>5, <1>6

\* A step of c that records a run is one of its occurrence's lifecycle.
LEMMA RecordImplements ==
  ASSUME RunInv, NEW c \in Crons, NEW kind \in {"report", "failure"}, UNCHANGED occ,
         \A d \in Crons \ {c} : runs'[d] = runs[d] /\ inv'[d].key = inv[d].key,
         kind \notin runs[c], runs'[c] = runs[c] \cup {kind}, inv'[c].key = inv[c].key,
         inv[c].pc = IF kind = "report" THEN "enqueue" ELSE "fail"
  PROVE  [Lifecycle!Next]_(Lifecycle!vars)
<1>1. Claimed(c) /\ inv[c].pc # "done"
  BY DEF Claimed, Pc
<1>2. PICK k \in Keys :
        /\ k = inv[c].key /\ occ[k].claimed /\ Lifecycle!Of(NamedRuns, k) = {}
        /\ \A other : Lifecycle!Of(Recorded(other), k) = IF other \in runs[c] THEN {c} ELSE {}
  BY <1>1, OwnOccurrence
<1>3. /\ Recorded(kind)' = Recorded(kind) \cup {<<k, c>>}
      /\ \A other : other # kind => Recorded(other)' = Recorded(other)
  BY <1>2, OneRecorded
<1>4. NamedRuns' = NamedRuns
  BY DEF NamedRuns
<1>5. CASE kind = "report"
  <2>1. runs[c] = {}
    BY <1>5 DEF RunInv, Stage, Invocations
  <2>2. Lifecycle!Report(k, c)
    BY <1>2, <1>3, <1>4, <1>5, <2>1 DEF Lifecycle!Report
  <2>3. QED BY <2>2 DEF Lifecycle!Next
<1>6. CASE kind = "failure"
  <2>1. Lifecycle!Fail(k, c)
    BY <1>2, <1>3, <1>4, <1>6 DEF Lifecycle!Fail
  <2>2. QED BY <2>1 DEF Lifecycle!Next
<1>7. QED BY <1>5, <1>6

LEMMA RunStepImplements ==
  ASSUME RunInv, NEW i \in Invocations, ReportStep(i) \/ FaultStep(i)
  PROVE  [Lifecycle!Next]_(Lifecycle!vars)
<1>0. /\ TypeOK /\ occ' = occ
      /\ Crons \subseteq Invocations
      /\ runs \in [Invocations -> SUBSET {"report", "failure"}]
  BY DEF RunInv, TypeOK, Invocations, ReportStep, FaultStep, UpdateLock, InsertLock, Generated,
         Enqueued, Dispatched, FailureRecorded, ReleaseLock, LockThrows, BodyThrows,
         FailureLost, ReleaseLost, Crash
<1>1. \A j \in Invocations : inv'[j].key = inv[j].key
  <2>1. ASSUME NEW p \in Pc, Goto(i, p) PROVE \A j \in Invocations : inv'[j].key = inv[j].key
    BY <1>0, <2>1, GotoFields
  <2>2. ASSUME Released(i) PROVE \A j \in Invocations : inv'[j].key = inv[j].key
    BY <1>0, <2>2, ReleasedFields
  <2>3. ASSUME Dispatched(i) PROVE \A j \in Invocations : inv'[j].key = inv[j].key
    BY <1>0, <2>3, DispatchedFields
  <2>4. QED
    BY <2>1, <2>2, <2>3
    DEF Pc, Waiting, ReportStep, FaultStep, UpdateLock, InsertLock, Generated, Enqueued,
        FailureRecorded, ReleaseLock, LockThrows, BodyThrows, FailureLost, ReleaseLost, Crash
<1>2. ASSUME NEW kind \in {"report", "failure"}, runs' = [runs EXCEPT ![i] = @ \cup {kind}],
             kind \notin runs[i], inv[i].pc = IF kind = "report" THEN "enqueue" ELSE "fail"
      PROVE  [Lifecycle!Next]_(Lifecycle!vars)
  <2>1. /\ runs'[i] = runs[i] \cup {kind}
        /\ \A j \in Invocations \ {i} : runs'[j] = runs[j]
    BY <1>0, <1>2
  <2>2. CASE i \in Crons
    BY <1>0, <1>1, <1>2, <2>1, <2>2, RecordImplements
  <2>3. CASE i \notin Crons
    BY <1>0, <1>1, <2>1, <2>3, NothingRecorded
  <2>4. QED BY <2>2, <2>3
<1>3. CASE runs' = runs
  BY <1>0, <1>1, <1>3, NothingRecorded
<1>4. CASE runs' # runs
  <2>1. \/ At(i, "enqueue") /\ runs' = [runs EXCEPT ![i] = @ \cup {"report"}]
        \/ At(i, "fail") /\ runs' = [runs EXCEPT ![i] = @ \cup {"failure"}]
    BY <1>4 DEF ReportStep, FaultStep, UpdateLock, InsertLock, Generated, Enqueued, Dispatched,
         FailureRecorded, ReleaseLock, LockThrows, BodyThrows, FailureLost, ReleaseLost, Crash
  <2>2. ASSUME NEW kind, runs' = [runs EXCEPT ![i] = @ \cup {kind}] PROVE kind \notin runs[i]
    BY <1>0, <1>4, <2>2
  <2>3. QED BY <1>2, <2>1, <2>2 DEF At
<1>5. QED BY <1>3, <1>4

\* The INSERT of an occurrence, with or without an error.
LEMMA TakeImplements ==
  ASSUME RunInv, NEW c \in Crons, ClaimOccurrence(c) \/ ClaimOccurrenceThrows(c)
  PROVE  [Lifecycle!Next]_(Lifecycle!vars)
<1>a. PICK k \in Keys : k = inv[c].key
  BY DEF RunInv, Stage, Invocations, At, ClaimOccurrence, ClaimOccurrenceThrows
<1>0. TypeOK /\ occ \in [Keys -> Occurrence] /\ runs' = runs /\ c \in Invocations
  BY DEF RunInv, TypeOK, Invocations, ClaimOccurrence, ClaimOccurrenceThrows
<1>1. \A d \in Crons : inv'[d].key = inv[d].key
  <2>1. ASSUME Goto(c, "done") PROVE \A d \in Crons : inv'[d].key = inv[d].key
    BY <1>0, <2>1, GotoFields DEF Pc, Invocations
  <2>2. ASSUME EnterReport(c) PROVE \A d \in Crons : inv'[d].key = inv[d].key
    BY <1>0, <2>2, EnterFields DEF Invocations
  <2>3. QED BY <2>1, <2>2 DEF ClaimOccurrence, ClaimOccurrenceThrows
<1>2. Recorded("report")' = Recorded("report") /\ Recorded("failure")' = Recorded("failure")
  BY <1>0, <1>1 DEF Recorded
<1>3. CASE occ' = occ
  BY <1>0, <1>1, <1>3, NothingRecorded
<1>4. CASE occ' = [occ EXCEPT ![k].claimed = TRUE]
  <2>1. /\ {l \in Keys : occ'[l].claimed} = {l \in Keys : occ[l].claimed} \cup {k}
        /\ NamedRuns' = NamedRuns
    <3>1. \A l \in Keys : /\ occ'[l].run = occ[l].run
                          /\ occ'[l].claimed <=> occ[l].claimed \/ l = k
      BY <1>0, <1>4 DEF Occurrence
    <3>2. QED BY <3>1 DEF NamedRuns
  <2>2. CASE occ[k].claimed
    <3>1. {l \in Keys : occ'[l].claimed} = {l \in Keys : occ[l].claimed}
      BY <1>0, <2>1, <2>2
    <3>2. QED BY <1>2, <2>1, <3>1 DEF Lifecycle!vars
  <2>3. CASE ~occ[k].claimed
    <3>1. Lifecycle!Take(k)
      BY <1>2, <2>1, <2>3 DEF Lifecycle!Take
    <3>2. QED BY <3>1 DEF Lifecycle!Next
  <2>4. QED BY <2>2, <2>3
<1>5. QED BY <1>a, <1>3, <1>4 DEF ClaimOccurrence, ClaimOccurrenceThrows

LEMMA NameImplements ==
  ASSUME RunInv, NEW c \in Crons, BindRun(c)
  PROVE  [Lifecycle!Next]_(Lifecycle!vars)
<1>1. /\ TypeOK /\ occ \in [Keys -> Occurrence] /\ runs' = runs /\ inv[c].pc = "bind"
      /\ c \in Invocations /\ occ' = [occ EXCEPT ![inv[c].key].run = c] /\ c # NoOne
  BY ReportsAssumption DEF RunInv, TypeOK, Invocations, At, BindRun
<1>2. Claimed(c) /\ runs[c] = {"report"}
  BY <1>1 DEF Claimed, Pc, RunInv, Stage
<1>3. PICK k \in Keys :
        /\ k = inv[c].key /\ occ[k].run = NoOne /\ Lifecycle!Of(NamedRuns, k) = {}
        /\ \A kind : Lifecycle!Of(Recorded(kind), k) = IF kind \in runs[c] THEN {c} ELSE {}
  BY <1>1, <1>2, OwnOccurrence
<1>4. \A d \in Crons : inv'[d].key = inv[d].key
  BY <1>1, GotoFields DEF BindRun, Pc, Invocations
<1>5. Recorded("report")' = Recorded("report") /\ Recorded("failure")' = Recorded("failure")
  BY <1>1, <1>4 DEF Recorded
<1>6. /\ NamedRuns' = NamedRuns \cup {<<k, c>>}
      /\ {l \in Keys : occ'[l].claimed} = {l \in Keys : occ[l].claimed}
  <2>1. /\ occ'[k].run = c
        /\ \A l \in Keys : /\ occ'[l].claimed = occ[l].claimed
                           /\ l # k => occ'[l].run = occ[l].run
    BY <1>1, <1>3 DEF Occurrence
  <2>2. QED BY <1>1, <1>3, <2>1 DEF NamedRuns
<1>7. Lifecycle!Name(k, c)
  BY <1>2, <1>3, <1>5, <1>6 DEF Lifecycle!Name
<1>8. QED BY <1>7 DEF Lifecycle!Next

LEMMA OccurrenceStep ==
  ASSUME RunInv, [Next]_vars
  PROVE  [Lifecycle!Next]_(Lifecycle!vars)
<1>0. TypeOK /\ Crons \subseteq Invocations /\ \A i \in Invocations : Stage(i)
  BY DEF RunInv, Invocations
<1>1. ASSUME NEW c \in Crons, CronStarts(c)
      PROVE  UNCHANGED Lifecycle!vars
  <2>1. runs' = runs /\ occ' = occ /\ runs[c] = {}
    BY <1>0, <1>1 DEF CronStarts, At, Stage
  <2>2. \A d \in Crons : d # c => inv'[d] = inv[d]
    BY <1>0, <1>1, StartFields
  <2>3. QED BY <2>1, <2>2, NothingRecorded
<1>2. ASSUME NEW c \in Crons, Prepared(c)
      PROVE  UNCHANGED Lifecycle!vars
  <2>1. runs' = runs /\ occ' = occ /\ \E p \in Pc : Goto(c, p)
    BY <1>2 DEF Prepared, Pc
  <2>2. \A d \in Crons : inv'[d].key = inv[d].key
    BY <1>0, <2>1, GotoFields
  <2>3. QED BY <2>1, <2>2, NothingRecorded
<1>3. ASSUME NEW m \in Manuals, ManualStarts(m)
      PROVE  UNCHANGED Lifecycle!vars
  <2>1. runs' = runs /\ occ' = occ /\ m \in Invocations
    BY <1>3 DEF ManualStarts, Invocations
  <2>2. \A d \in Crons : inv'[d].key = inv[d].key
    BY <1>0, <1>3, <2>1, EnterFields DEF ManualStarts
  <2>3. QED BY <2>1, <2>2, NothingRecorded
<1>4. CASE Tick \/ UNCHANGED vars
  <2>1. inv' = inv /\ runs' = runs /\ occ' = occ
    BY <1>4 DEF Tick, vars
  <2>2. QED BY <2>1, NothingRecorded
<1>5. QED
  BY <1>1, <1>2, <1>3, <1>4, RunStepImplements, TakeImplements, NameImplements
  DEF Next, CronStep

\* Crons that are doubled, late, killed or that meet D1 errors give every occurrence
\* the life that OccurrenceLifecycle describes.
THEOREM ReportsImplementOccurrences == Spec => ImplementsOccurrences
<1>1. Init => Lifecycle!Init
  BY DEF Init, Lifecycle!Init, Recorded, NamedRuns, Invocations
<1>2. RunInv /\ [Next]_vars => [Lifecycle!Next]_(Lifecycle!vars)
  BY OccurrenceStep
<1>3. QED BY <1>1, <1>2, RunAlways, PTL DEF Spec, ImplementsOccurrences, Lifecycle!Spec
=============================================================================
