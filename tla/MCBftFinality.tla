--------------------------- MODULE MCBftFinality ----------------------------
(* Instances of BftFinality for TLC: four validators, so a quorum is three. *)
EXTENDS BftFinality, TLC

Symmetry == Permutations(Workers) \cup Permutations(Validators) \cup Permutations(Hashes)
=============================================================================
