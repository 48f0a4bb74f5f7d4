------------------------------ MODULE MCPlaces ------------------------------
(* Values for the constants of Places. *)
EXTENDS Places, TLC

Symmetry == Permutations(Requests) \cup Permutations(Ids)

MCOwnRules == {Default(TRUE)}

R(rise, set) == [error |-> FALSE, sunrise |-> rise, sunset |-> set]

MCForecasts == {NoResult, R(40, NoEvent), R(40, 60)}
=============================================================================
