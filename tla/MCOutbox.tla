----------------------------- MODULE MCOutbox -----------------------------
(* Instances of Outbox for TLC: small backoff tables, timeouts, symmetry.  *)
EXTENDS Outbox, TLC

TwoAttempts == <<0, 1>>
ThreeAttempts == <<0, 0, 1>>
StrictAttempts == <<0, 1, 1>>
OneEach == [j \in Jobs |-> 1]
TwoEach == [j \in Jobs |-> 2]

\* One delivery is an e-mail, the others' calls are shorter.
OneSlow == LET slow == CHOOSE j \in Jobs : TRUE
           IN  [j \in Jobs |-> IF j = slow THEN 2 ELSE 1]

Symmetry == Permutations(Dispatchers) \cup Permutations(Requests)
AllSymmetry == Symmetry \cup Permutations(Jobs)
=============================================================================
