---------------------------- MODULE MCEkushChain ----------------------------
(* Instances of EkushChain for TLC: two or three accounts of 4 EKUSH each and *)
(* transactions small enough that both an accepted and a refused payment occur. *)
EXTENDS EkushChain, TLC

t1 == [id |-> 1, from |-> "alice", to |-> "bob", amount |-> 2, fee |-> 1]
t2 == [id |-> 2, from |-> "bob", to |-> "alice", amount |-> 3, fee |-> 0]

MCAddresses == {"alice", "bob"}
MCBalance == [a \in MCAddresses |-> 4]
MCTxs == {t1, t2}
OneTx == {t1}
Symmetry == Permutations(Hashes)
=============================================================================
