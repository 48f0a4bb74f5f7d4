---------------------------- MODULE MCChannels ----------------------------
(* Model values for Channels. *)
EXTENDS Channels, TLC

Symmetry == Permutations(Requests)
=============================================================================
