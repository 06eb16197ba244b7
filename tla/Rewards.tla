------------------------------- MODULE Rewards --------------------------------
(***************************************************************************)
(* What miners are paid and what the register of it says (core/block.py,   *)
(* core/difficulty.py, GET /supply of api.py).  add_block commits the row  *)
(* of mining_rewards before the block exists, and the block carries the    *)
(* reward that was computed then; after the first year a reward depends    *)
(* on the coins staked at that moment.                                     *)
(***************************************************************************)
EXTENDS Integers, FiniteSets, FiniteSetsExt, TLC

CONSTANTS Miners,       \* programs that construct an EKUSHChain
          FirstReward,  \* the reward of a block ...
          FirstYear,    \* ... below this height, YEAR_1_BLOCKS
          Stakes,       \* after it: what the coins staked earn a block
          LastHeight,   \* get_height when its SELECT raises
          Top           \* bound: the highest block

ASSUME RewardsAssumption ==
    /\ FirstReward \in Nat \ {0} /\ FirstYear \in Nat /\ LastHeight \in Nat
    /\ Stakes \subseteq Nat /\ 0 \in Stakes /\ \E n \in Stakes : \A o \in Stakes : o <= n
    /\ Top \in Nat

VARIABLES
    pays,       \* blocks: the reward in the block of each height, 0 without one
    credits,    \* mining_rewards: the reward of each height that has a row
    staked,     \* the bonds of the active validators, as their earnings a block
    miner,      \* of each program: its step, the length of self.chain, the reward
    supply,     \* the answer of /supply in the making
    reported,   \* the one just given
    begun,      \* history: heights a block was begun for more than once
    failed      \* history: an INSERT failed

tables == <<pays, credits, staked>>
rwvars == <<tables, miner, supply, reported, begun, failed>>

BlockHeights == 1 .. Top
HasBlock == {h \in BlockHeights : pays[h] # 0}
Stopped == [step |-> "down", length |-> 1, reward |-> 0]
NoReport == [rewards |-> 0, height |-> 0, raised |-> FALSE]
Unasked == -1

RewardsTypeOK ==
    /\ pays \in [BlockHeights -> Nat] /\ credits \in [DOMAIN credits -> Nat \ {0}]
    /\ DOMAIN credits \subseteq BlockHeights /\ staked \in Stakes
    /\ \A m \in Miners : /\ miner[m].step \in {"down", "idle", "build"}
                         /\ miner[m].length \in 1 .. Top + 1 /\ miner[m].reward \in Nat
    /\ supply \in Nat \cup {Unasked} /\ reported \in [rewards : Nat, height : Nat, raised : BOOLEAN]
    /\ begun \subseteq BlockHeights /\ failed \in BOOLEAN

RewardsInit ==
    /\ pays = [h \in BlockHeights |-> 0] /\ credits = << >> /\ staked = 0
    /\ miner = [m \in Miners |-> Stopped] /\ supply = Unasked /\ reported = NoReport
    /\ begun = {} /\ failed = FALSE

-----------------------------------------------------------------------------
Silent == reported' = NoReport /\ UNCHANGED supply

\* Mutant: the first year has a block more.
BlockRewardLate(h) == IF h <= FirstYear THEN FirstReward ELSE Max({1, staked})

\* get_block_reward.
BlockReward(h) == IF h < FirstYear THEN FirstReward ELSE Max({1, staked})

\* Validators bond, are slashed, or leave.
Restake(n) ==
    /\ n # staked /\ staked' = n
    /\ Silent /\ UNCHANGED <<pays, credits, miner, begun, failed>>

\* The program is started, or dies at any step and is started again; load_chain
\* closes the gaps.
OpenChain(m) ==
    /\ miner' = [miner EXCEPT ![m] = [step |-> "idle", length |-> Cardinality(HasBlock) + 1,
                                      reward |-> 0]]
    /\ Silent /\ UNCHANGED <<tables, begun, failed>>

\* add_block as far as its first commit: INSERT OR IGNORE keeps the row of an
\* earlier attempt, and an INSERT that fails is printed only.
RecordReward(m) ==
    LET h == miner[m].length
    IN /\ miner[m].step = "idle" /\ h <= Top
       /\ miner' = [miner EXCEPT ![m].step = "build", ![m].reward = BlockReward(h)]
       /\ begun' = IF h \in DOMAIN credits THEN begun \cup {h} ELSE begun
       /\ \/ /\ credits' = [g \in DOMAIN credits \cup {h} |->
                               IF g \in DOMAIN credits THEN credits[g] ELSE BlockReward(h)]
             /\ UNCHANGED failed
          \/ failed' = TRUE /\ UNCHANGED credits
       /\ Silent /\ UNCHANGED <<pays, staked>>

\* The rest of add_block: the block is in self.chain, and stored, over the row
\* of another one if there is one, unless the database is locked.
StorePaidBlock(m) ==
    /\ miner[m].step = "build"
    /\ miner' = [miner EXCEPT ![m] = [step |-> "idle", length |-> @.length + 1, reward |-> 0]]
    /\ \/ pays' = [pays EXCEPT ![miner[m].length] = miner[m].reward] /\ UNCHANGED failed
       \/ failed' = TRUE /\ UNCHANGED pays
    /\ Silent /\ UNCHANGED <<credits, staked, begun>>

\* /supply: the sum of the register, and on another connection the height.
SumRewards ==
    /\ supply = Unasked
    /\ supply' = SumFunctionOnSet(credits, DOMAIN credits)
    /\ reported' = NoReport /\ UNCHANGED <<tables, miner, begun, failed>>

GetHeight ==
    /\ supply # Unasked /\ supply' = Unasked
    /\ \/ reported' = [rewards |-> supply, height |-> Cardinality(HasBlock) + 1, raised |-> FALSE]
       \/ reported' = [rewards |-> supply, height |-> LastHeight, raised |-> TRUE]
    /\ UNCHANGED <<tables, miner, begun, failed>>

RewardsNext ==
    \/ \E n \in Stakes : Restake(n)
    \/ \E m \in Miners : OpenChain(m) \/ RecordReward(m) \/ StorePaidBlock(m)
    \/ SumRewards \/ GetHeight

RewardsSpec == RewardsInit /\ [][RewardsNext]_rwvars

-----------------------------------------------------------------------------
\* The most that a block can pay, and that the blocks 1 .. n can.
Best == [h \in Nat |-> IF h < FirstYear THEN FirstReward ELSE Max(Stakes \cup {1})]
Worth(n) == SumFunctionOnSet(Best, 1 .. n)

\* Unless an INSERT failed: the register says what every stored block pays,
\* except where the block was begun twice and the stake has moved between, and
\* it runs at most one height ahead of the blocks.
RegisterFollowsBlocks ==
    failed
    \/ /\ \A h \in HasBlock : /\ h \in DOMAIN credits
                              /\ credits[h] = pays[h] \/ (h \in begun /\ h >= FirstYear)
       /\ \A h \in DOMAIN credits : h <= Cardinality(HasBlock) + 1

\* And so the coins /supply counts as mined are no more than its height can
\* have earned, with one block more for those whose miner died.
SupplyIsEarned == failed \/ reported.raised \/ reported.rewards <= Worth(reported.height)

\* The register is right of every block, and its sum of the chain.
RewardsAreRecorded == RegisterFollowsBlocks /\ SupplyIsEarned
=============================================================================
