--------------------------- MODULE DispatchTime ---------------------------
(***************************************************************************)
(* The dispatcher's time constants and its backoff table.                  *)
(***************************************************************************)
EXTENDS Integers, Sequences

CONSTANTS
  Lease,        \* LEASE_MS
  MaxAttempts,  \* MAX_ATTEMPTS
  RetryDelays   \* RETRY_DELAYS, indexed from 1 here and from 0 in the code

ASSUME DispatchTimeAssumption ==
  /\ Lease \in Nat \ {0}
  /\ MaxAttempts \in Nat \ {0}
  /\ RetryDelays \in Seq(Nat) /\ RetryDelays # <<>>

\* now + (RETRY_DELAYS[attempts] ?? RETRY_DELAYS.at(-1))
NextAttemptAt(now, attempts) ==
  now + IF attempts < Len(RetryDelays) THEN RetryDelays[attempts + 1]
                                       ELSE RetryDelays[Len(RetryDelays)]
=============================================================================
