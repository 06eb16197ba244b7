---------------------------- MODULE MCUtxoWallet ----------------------------
(* Instances of UtxoWallet for TLC: Alice has outputs of 2 and 3.  She moves *)
(* 1 to herself with a fee of 2, and pays 2 to Bob with a fee of 1.  Both    *)
(* payments pick both outputs; the second can also spend what the first      *)
(* leaves, exactly; the first is refused after the second.                   *)
EXTENDS UtxoWallet

pay(i, a, b, n, f) == [id |-> i, from |-> a, to |-> b, amount |-> n, fee |-> f]
MCPayments == {pay(1, "alice", "alice", 1, 2), pay(2, "alice", "bob", 2, 1)}

a1 == <<0, 1>>
a2 == <<0, 2>>
MCCoins == {a1, a2}
MCOwner == [o \in MCCoins |-> "alice"]
MCAmount == [o \in MCCoins |-> IF o = a1 THEN 2 ELSE 3]
MCTargets == {4}
=============================================================================
