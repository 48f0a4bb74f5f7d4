---------------------------- MODULE MCReports ----------------------------
(* Instances of Reports for TLC: the occurrence key of each time.          *)
EXTENDS Reports

CONSTANTS k1, k2

\* Clocks go back: the times 0 and 1 have the same local hour.
RepeatedHour == [t \in 0..MaxTime |-> IF t < 2 THEN k1 ELSE IF t = 2 THEN k2 ELSE NoKey]
=============================================================================
