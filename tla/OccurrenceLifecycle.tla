----------------------- MODULE OccurrenceLifecycle -----------------------
(***************************************************************************)
(* What the hourly handler promises about every occurrence of a report, an *)
(* hour of the owner's schedule on one day, with no locks or stages: it is *)
(* taken once for all; one cron makes its report or fails, and after a     *)
(* failure there is none; it names its run only if that is a report that   *)
(* did not fail.  Nothing is ever taken back.  That something comes of an  *)
(* occurrence that is taken is not promised: its cron may die.             *)
(***************************************************************************)

CONSTANTS Keys,   \* the occurrences
          Crons   \* who may take one; also names the run that may come of it

VARIABLES taken,     \* the occurrences that have been taken
          reported,  \* <<occurrence, cron>>: its report is in the runs and the outbox
          failed,    \* <<occurrence, cron>>: its failure is in the runs
          named      \* <<occurrence, cron>>: it names this run

vars == <<taken, reported, failed, named>>

Of(pairs, k) == {c \in Crons : <<k, c>> \in pairs}

Init == taken = {} /\ reported = {} /\ failed = {} /\ named = {}

Take(k) == /\ k \notin taken
           /\ taken' = taken \cup {k}
           /\ UNCHANGED <<reported, failed, named>>

Report(k, c) == /\ k \in taken
                /\ Of(reported, k) = {} /\ Of(failed, k) = {}
                /\ reported' = reported \cup {<<k, c>>}
                /\ UNCHANGED <<taken, failed, named>>

\* A report may fail after it was committed: its deliveries are still made.
Fail(k, c) == /\ k \in taken
              /\ Of(reported, k) \subseteq {c} /\ Of(failed, k) = {} /\ Of(named, k) = {}
              /\ failed' = failed \cup {<<k, c>>}
              /\ UNCHANGED <<taken, reported, named>>

Name(k, c) == /\ Of(reported, k) = {c} /\ Of(failed, k) = {} /\ Of(named, k) = {}
              /\ named' = named \cup {<<k, c>>}
              /\ UNCHANGED <<taken, reported, failed>>

Next == \E k \in Keys : \/ Take(k)
                        \/ \E c \in Crons : Report(k, c) \/ Fail(k, c) \/ Name(k, c)

Spec == Init /\ [][Next]_vars
=============================================================================
