------------------------------ MODULE MCGossip ------------------------------
(* Instances of Gossip for TLC: b is a seed, of itself too, c is not.  A     *)
(* client hands transaction x to both, and c announces transaction y.        *)
EXTENDS Gossip

CONSTANTS b, c, x, y

Submits == {<<b, x>>, <<c, x>>}
Announces == {<<c, y>>}
=============================================================================
