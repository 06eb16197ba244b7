----------------------------- MODULE MCServices ------------------------------
(***************************************************************************)
(* The HTTP services of a node that share no state with each other: the    *)
(* slashing endpoints, the registers, the mempool, the cache of outputs,   *)
(* the fee estimator, the life of one block, and the register of rewards.  *)
(* As no step of one of them reads or writes what another keeps, a         *)
(* behaviour of them all is checked when each is checked by itself: only   *)
(* the service in focus moves, and the run takes every one for its focus.  *)
(***************************************************************************)
EXTENDS Slashing, Registry, PriorityPool, UtxoCache, FeeEstimates, MerkleBlock,
        Rewards, TLC

CONSTANTS a1, a2, t1, t2, t3

VARIABLE focus      \* the service that moves

MCWealth == (a1 :> 2) @@ (a2 :> 1)
MCRate == (t1 :> 1) @@ (t2 :> 1) @@ (t3 :> 2)
MCOffers == {[fee |-> f, size |-> 2] : f \in {0, 4, 30}} \cup {[fee |-> 12, size |-> 0]}
MCTiers == [economy |-> 1, low |-> 2, medium |-> 3, high |-> 5, priority |-> 8]

\* The same values stand for the concurrent parties of each service, so that
\* three pairs are permuted at once.
Symmetry == Permutations(Workers) \cup Permutations(Validators) \cup Permutations(Heights)

ServicesInit ==
    /\ focus \in {"slashing", "registry", "mempool", "cache", "fees", "block", "rewards"}
    /\ Init /\ RegistryInit /\ PoolInit /\ CacheInit /\ EstimatorInit /\ MerkleInit
    /\ RewardsInit

ServicesNext ==
    /\ focus' = focus
    /\ \/ focus = "slashing" /\ Next /\ UNCHANGED <<rvars, plvars, cvars, fvars, mkvars, rwvars>>
       \/ focus = "registry" /\ RegistryNext /\ UNCHANGED <<vars, plvars, cvars, fvars, mkvars, rwvars>>
       \/ focus = "mempool" /\ PoolNext /\ UNCHANGED <<vars, rvars, cvars, fvars, mkvars, rwvars>>
       \/ focus = "cache" /\ CacheNext /\ UNCHANGED <<vars, rvars, plvars, fvars, mkvars, rwvars>>
       \/ focus = "fees" /\ EstimatorNext /\ UNCHANGED <<vars, rvars, plvars, cvars, mkvars, rwvars>>
       \/ focus = "block" /\ MerkleNext /\ UNCHANGED <<vars, rvars, plvars, cvars, fvars, rwvars>>
       \/ focus = "rewards" /\ RewardsNext /\ UNCHANGED <<vars, rvars, plvars, cvars, fvars, mkvars>>

ServicesSpec ==
    ServicesInit /\ [][ServicesNext]_<<focus, vars, rvars, plvars, cvars, fvars, mkvars, rwvars>>

\* The state of every service stays in its types.
ServicesTypeOK ==
    /\ TypeOK /\ RegistryTypeOK /\ PoolTypeOK /\ CacheTypeOK /\ EstimatorTypeOK /\ MerkleTypeOK
    /\ RewardsTypeOK
=============================================================================
