-------------------------- MODULE Services_proofs ---------------------------
(***************************************************************************)
(* What the services that MCServices puts side by side keep.  The registers*)
(* of validators, votes and proposals for any number of workers, accounts  *)
(* and proposals.  The mempool keeps its promise for any transactions, fees*)
(* and limit, and any number of failed statements and restarts; the        *)
(* register of rewards follows the blocks for any miners, rewards and      *)
(* stakes; the cache of outputs is stale only for a cause; no estimate of  *)
(* the fees costs more for waiting longer; and the records of the slashing *)
(* match its events for any workers, validators and heights.               *)
(***************************************************************************)
EXTENDS MCServices, DataTheorems, FiniteSetTheorems, SequenceTheorems, TLAPS

Ops == {"insert", "trim", "delete"}

(* A call owes the table one statement at most. *)
OneStatement == work = {} \/ \E o \in Ops, t \in Txs : work = {[op |-> o, tx |-> t]}

(* The memory is ahead of the table: what is to be inserted is in the queue, *)
(* and what is to be deleted has left it.                                     *)
MemoryFirst ==
    /\ Owed({"insert"}) \subseteq queue
    /\ Owed({"trim", "delete"}) \cap queue = {}

PoolInv == PoolTypeOK /\ OneStatement /\ MemoryFirst /\ RestartKeepsThePool

(***************************************************************************)
(* The statements owed                                                     *)
(***************************************************************************)
LEMMA FewStatements ==
  ASSUME NEW W, W = {} \/ \E o \in Ops, t \in Txs : W = {[op |-> o, tx |-> t]}
  PROVE  W \subseteq [op : {"insert", "trim", "delete"}, tx : Txs] /\ Cardinality(W) <= 1
<1>1. CASE W = {}
  BY <1>1, FS_EmptySet
<1>2. CASE \E o \in Ops, t \in Txs : W = {[op |-> o, tx |-> t]}
  <2>1. PICK o \in Ops, t \in Txs : W = {[op |-> o, tx |-> t]}
    BY <1>2
  <2>2. Cardinality(W) = 1
    BY <2>1, FS_Singleton
  <2> QED
    BY <2>1, <2>2 DEF Ops
<1> QED
  BY <1>1, <1>2

TxsOf(W, ops) == {w.tx : w \in {x \in W : x.op \in ops}}

LEMMA TxsOfOne ==
  ASSUME NEW o, NEW t, NEW ops
  PROVE  TxsOf({[op |-> o, tx |-> t]}, ops) = IF o \in ops THEN {t} ELSE {}
<1> DEFINE r == [op |-> o, tx |-> t]
<1>1. r.op = o /\ r.tx = t
  OBVIOUS
<1> HIDE DEF r
<1>2. {w.tx : w \in {x \in {r} : x.op \in ops}} = IF o \in ops THEN {t} ELSE {}
  <2>1. CASE o \in ops
    <3>1. {x \in {r} : x.op \in ops} = {r}
      BY <1>1, <2>1
    <3> QED
      BY <1>1, <2>1, <3>1
  <2>2. CASE o \notin ops
    <3>1. {x \in {r} : x.op \in ops} = {}
      BY <1>1, <2>2
    <3> QED
      BY <2>2, <3>1
  <2> QED
    BY <2>1, <2>2
<1> QED
  BY <1>2 DEF r, TxsOf

\* What the memory and the table owe each other is known when the owed
\* statement is: no statement, or one.
LEMMA Owing ==
  ASSUME NEW ops
  PROVE  /\ work = {} => Owed(ops) = {}
         /\ \A o \in Ops, t \in Txs : work = {[op |-> o, tx |-> t]}
                => Owed(ops) = IF o \in ops THEN {t} ELSE {}
<1>1. Owed(ops) = TxsOf(work, ops) /\ TxsOf({}, ops) = {}
  BY DEF Owed, TxsOf
<1> QED
  BY <1>1, TxsOfOne

(***************************************************************************)
(* The steps                                                               *)
(***************************************************************************)
LEMMA PoolInitInv == PoolInit => PoolInv
<1> SUFFICES ASSUME PoolInit PROVE PoolInv
  OBVIOUS
<1>1. OneStatement
  BY DEF PoolInit, OneStatement
<1>2. PoolTypeOK
  BY <1>1, FewStatements DEF PoolInit, PoolTypeOK, OneStatement
<1>3. MemoryFirst /\ RestartKeepsThePool
  BY DEF PoolInit, MemoryFirst, RestartKeepsThePool, Owed
<1> QED
  BY <1>1, <1>2, <1>3 DEF PoolInv

\* The step ends the call, and memory and table differ by excused rows only.
LEMMA RestStep ==
  ASSUME work' = {}, queue' \subseteq Txs, table' \subseteq Txs,
         unsaved' \subseteq Txs, undeleted' \subseteq Txs,
         queue' \ table' \subseteq unsaved', table' \ queue' \subseteq undeleted'
  PROVE  PoolInv'
<1>1. OneStatement'
  BY DEF OneStatement
<1>2. PoolTypeOK'
  BY FewStatements, FS_EmptySet DEF PoolTypeOK
<1>3. (MemoryFirst /\ RestartKeepsThePool)'
  BY DEF MemoryFirst, RestartKeepsThePool, Owed
<1> QED
  BY <1>1, <1>2, <1>3 DEF PoolInv

\* The step owes the table one statement, about which the memory is ahead.
LEMMA OwingStep ==
  ASSUME NEW o \in Ops, NEW t \in Txs, work' = {[op |-> o, tx |-> t]},
         queue' \subseteq Txs, table' \subseteq Txs,
         unsaved' \subseteq Txs, undeleted' \subseteq Txs,
         o = "insert" <=> t \in queue',
         queue' \ table' \subseteq unsaved' \cup (IF o = "insert" THEN {t} ELSE {}),
         table' \ queue' \subseteq undeleted' \cup (IF o = "insert" THEN {} ELSE {t})
  PROVE  PoolInv'
<1>1. OneStatement'
  BY DEF OneStatement
<1>2. PoolTypeOK'
  <2>1. work' \subseteq [op : {"insert", "trim", "delete"}, tx : Txs] /\ Cardinality(work') <= 1
    BY FewStatements
  <2> QED
    BY <2>1 DEF PoolTypeOK
<1>3. /\ Owed({"insert"})' = IF o = "insert" THEN {t} ELSE {}
      /\ Owed({"trim", "delete"})' = IF o = "insert" THEN {} ELSE {t}
  <2>1. o \in {"insert"} <=> o = "insert"
    OBVIOUS
  <2>2. o \in {"trim", "delete"} <=> o # "insert"
    BY DEF Ops
  <2> QED
    <3>1. \A ops : Owed(ops)' = TxsOf(work', ops)
      BY DEF Owed, TxsOf
    <3> QED
      BY <2>1, <2>2, <3>1, TxsOfOne
<1>4. (MemoryFirst /\ RestartKeepsThePool)'
  BY <1>3 DEF MemoryFirst, RestartKeepsThePool
<1> QED
  BY <1>1, <1>2, <1>4 DEF PoolInv

\* The loop of add_transaction goes on from a queue that differs from the
\* table by excused rows only.
LEMMA TrimStep ==
  ASSUME NEW kept \in SUBSET Txs, Trim(kept), queue \subseteq Txs,
         unsaved' \subseteq Txs, undeleted' \subseteq Txs,
         queue \ kept \subseteq unsaved', kept \ queue \subseteq undeleted'
  PROVE  PoolInv'
<1>1. CASE work' = {} /\ UNCHANGED queue
  BY <1>1, RestStep DEF Trim
<1>2. CASE \E t \in Lowest : queue' = queue \ {t} /\ work' = {[op |-> "trim", tx |-> t]}
  <2>1. PICK t \in Lowest : queue' = queue \ {t} /\ work' = {[op |-> "trim", tx |-> t]}
    BY <1>2
  <2>2. t \in Txs /\ "trim" \in Ops
    BY DEF Lowest, Ops
  <2> QED
    BY <2>1, <2>2, OwingStep DEF Trim
<1> QED
  BY <1>1, <1>2 DEF Trim

LEMMA PoolStepInv == PoolInv /\ [PoolNext]_plvars => PoolInv'
<1> SUFFICES ASSUME PoolInv, [PoolNext]_plvars PROVE PoolInv'
  OBVIOUS
<1> USE DEF PoolInv
<1>0. queue \subseteq Txs /\ table \subseteq Txs /\ unsaved \subseteq Txs /\ undeleted \subseteq Txs
  BY DEF PoolTypeOK
<1>1. ASSUME NEW t \in Txs, Offer(t) PROVE PoolInv'
  <2>1. Owed({"insert"}) = {} /\ Owed({"trim", "delete"}) = {}
    BY <1>1, Owing DEF Offer
  <2>2. "insert" \in Ops
    BY DEF Ops
  <2> QED
    BY <1>0, <1>1, <2>1, <2>2, OwingStep DEF Offer, RestartKeepsThePool
<1>2. ASSUME NEW t \in Txs, RemoveEntry(t) PROVE PoolInv'
  <2>1. Owed({"insert"}) = {} /\ Owed({"trim", "delete"}) = {}
    BY <1>2, Owing DEF RemoveEntry
  <2>2. "delete" \in Ops
    BY DEF Ops
  <2> QED
    BY <1>0, <1>2, <2>1, <2>2, OwingStep DEF RemoveEntry, RestartKeepsThePool
<1>3. CASE InsertRow
  <2>1. PICK t \in Owed({"insert"}) :
          /\ Trim(table \cup {t})
          /\ unsaved' = unsaved \ {t} /\ undeleted' = undeleted \ {t}
    BY <1>3 DEF InsertRow
  <2>2. Owed({"insert"}) = {t} /\ Owed({"trim", "delete"}) = {} /\ t \in Txs
    BY Owing DEF OneStatement, Ops
  <2>3. t \in queue
    BY <2>2 DEF MemoryFirst
  <2>4. /\ queue \ (table \cup {t}) \subseteq unsaved'
        /\ (table \cup {t}) \ queue \subseteq undeleted'
    BY <2>1, <2>2, <2>3 DEF RestartKeepsThePool
  <2> QED
    BY <1>0, <2>1, <2>2, <2>4, TrimStep
<1>4. CASE DeleteRow
  <2>1. PICK t \in Owed({"trim", "delete"}) :
          /\ IF t \in Owed({"trim"}) THEN Trim(table \ {t})
             ELSE table' = table \ {t} /\ work' = {} /\ UNCHANGED queue
          /\ undeleted' = undeleted \ {t} /\ unsaved' = unsaved \ {t}
    BY <1>4 DEF DeleteRow
  <2>2. Owed({"trim", "delete"}) = {t} /\ Owed({"insert"}) = {} /\ t \in Txs
    BY Owing DEF OneStatement, Ops
  <2>3. t \notin queue
    BY <2>2 DEF MemoryFirst
  <2>4. /\ queue \ (table \ {t}) \subseteq unsaved'
        /\ (table \ {t}) \ queue \subseteq undeleted'
    BY <2>1, <2>2, <2>3 DEF RestartKeepsThePool
  <2>5. CASE t \in Owed({"trim"})
    BY <1>0, <2>1, <2>4, <2>5, TrimStep
  <2>6. CASE t \notin Owed({"trim"})
    BY <1>0, <2>1, <2>4, <2>6, RestStep
  <2> QED
    BY <2>5, <2>6
<1>5. CASE StatementRaises
  <2>1. /\ Owed({"insert"}) \subseteq Txs /\ Owed({"trim", "delete"}) \subseteq Txs
    BY Owing DEF OneStatement, Ops
  <2> QED
    BY <1>0, <1>5, <2>1, RestStep DEF StatementRaises, MemoryFirst, RestartKeepsThePool
<1>6. CASE Clear
  <2>1. Owed({"insert"}) = {} /\ Owed({"trim", "delete"}) = {}
    BY <1>6, Owing DEF Clear
  <2> QED
    BY <1>0, <1>6, <2>1, RestStep DEF Clear, RestartKeepsThePool
<1>7. CASE RestartPool
  BY <1>0, <1>7, RestStep DEF RestartPool
<1>8. CASE UNCHANGED plvars
  BY <1>8 DEF plvars, PoolTypeOK, OneStatement, MemoryFirst, RestartKeepsThePool, Owed
<1> QED
  BY <1>1, <1>2, <1>3, <1>4, <1>5, <1>6, <1>7, <1>8 DEF PoolNext

\* Only the loop of add_transaction takes an entry out and owes a pop.
LEMMA TrimEvicts ==
  ASSUME PoolInv, [PoolNext]_plvars, NEW t \in queue \ queue',
         work' = {[op |-> "trim", tx |-> t]}
  PROVE  Cardinality(queue) > MaxSize /\ \A u \in queue' : Rate[t] <= Rate[u]
<1>1. ASSUME NEW kept, Trim(kept)
      PROVE  Cardinality(queue) > MaxSize /\ \A u \in queue' : Rate[t] <= Rate[u]
  <2>1. /\ Cardinality(queue) > MaxSize
        /\ \E x \in Lowest : queue' = queue \ {x} /\ work' = {[op |-> "trim", tx |-> x]}
    BY <1>1 DEF Trim
  <2>2. t \in Lowest
    BY <2>1
  <2> QED
    BY <2>1, <2>2 DEF Lowest
<1>2. work' # {} /\ \A x : work' # {[op |-> "delete", tx |-> x]}
  <2>1. \A x : [op |-> "delete", tx |-> x].op # [op |-> "trim", tx |-> t].op
    OBVIOUS
  <2> QED
    BY <2>1
<1> QED
  BY <1>1, <1>2 DEF PoolNext, Offer, RemoveEntry, InsertRow, DeleteRow, StatementRaises,
     Clear, RestartPool, plvars

(***************************************************************************)
(* The theorems                                                            *)
(***************************************************************************)

(* The memory and the table of mempool.py differ by what a failed or owed   *)
(* statement accounts for, so that a restart forgets and revives only that. *)
THEOREM RestartIsAccounted == PoolSpec => []PoolInv
  BY PoolInitInv, PoolStepInv, PTL DEF PoolSpec

(* On top of that, the loop of add_transaction evicts only out of a queue   *)
(* above its limit, and only an entry that pays no more than those it keeps. *)
THEOREM PoolPromise == PoolSpec => PoolKeepsItsPromise
<1>1. PoolInv /\ [PoolNext]_plvars =>
        [\A t \in queue \ queue' :
            work' = {[op |-> "trim", tx |-> t]}
              => /\ Cardinality(queue) > MaxSize
                 /\ \A u \in queue' : Rate[t] <= Rate[u]]_plvars
  BY TrimEvicts
<1>2. PoolInv => RestartKeepsThePool
  BY DEF PoolInv
<1> QED
  BY <1>1, <1>2, RestartIsAccounted, PTL DEF PoolSpec, PoolKeepsItsPromise, EvictsTheCheapest

(***************************************************************************)
(* The register of rewards                                                 *)
(***************************************************************************)
RewardsShape ==
    /\ pays \in [BlockHeights -> Nat] /\ staked \in Nat
    /\ DOMAIN miner = Miners
    /\ \A m \in Miners : /\ miner[m].step \in {"down", "idle", "build"}
                         /\ miner[m].length \in Nat \ {0} /\ miner[m].reward \in Nat

(* Reward r is what the register says of height h, or h was begun again when *)
(* the reward depends on the stake.                                          *)
Agreed(h, r) ==
    /\ h \in DOMAIN credits
    /\ credits[h] = r \/ (h \in begun /\ h >= FirstYear)
    /\ h < FirstYear => credits[h] = FirstReward

(* The blocks are 1 .. k: nobody is further than the next one, and what a    *)
(* miner is about to store the register has.                                 *)
RegisterReaches(k) ==
    /\ HasBlock = 1 .. k /\ DOMAIN credits \subseteq 1 .. k + 1
    /\ \A h \in 1 .. k : Agreed(h, pays[h])
    /\ \A h \in DOMAIN credits : h < FirstYear => credits[h] = FirstReward
    /\ \A m \in Miners : miner[m].length <= k + 1
    /\ \A m \in Miners : miner[m].step = "build" =>
          /\ miner[m].length <= Top /\ miner[m].reward # 0
          /\ Agreed(miner[m].length, miner[m].reward)

RewardsInv == RewardsShape /\ (~failed => \E k \in Nat : RegisterReaches(k))

(* A block always pays something. *)
LEMMA RewardIsPaid ==
  ASSUME staked \in Nat, NEW h \in Nat
  PROVE  BlockReward(h) \in Nat \ {0} /\ (h < FirstYear => BlockReward(h) = FirstReward)
<1>1. \E x \in {1, staked} : \A y \in {1, staked} : x >= y
  OBVIOUS
<1>2. Max({1, staked}) \in {1, staked} /\ Max({1, staked}) >= 1
  BY <1>1 DEF Max
<1> QED
  BY <1>2, RewardsAssumption DEF BlockReward

(* The register before the first block. *)
LEMMA RewardsInitInv == RewardsInit => RewardsInv
<1> SUFFICES ASSUME RewardsInit PROVE RewardsInv
  OBVIOUS
<1>1. RewardsShape
  BY DEF RewardsInit, RewardsShape, Stopped
<1>2. RegisterReaches(0)
  <2>1. HasBlock = {} /\ 1 .. 0 = {} /\ DOMAIN credits = {}
    BY DEF RewardsInit, HasBlock
  <2> QED
    BY <2>1 DEF RewardsInit, RegisterReaches, Stopped
<1> QED
  BY <1>1, <1>2 DEF RewardsInv

(* A program that starts has the blocks there are. *)
LEMMA OpenKeepsRewards ==
  ASSUME RewardsInv, NEW m \in Miners, OpenChain(m)
  PROVE  RewardsInv'
<1>0. /\ RewardsShape /\ UNCHANGED <<pays, credits, staked, begun, failed>>
      /\ \A n \in Miners : n # m => miner'[n] = miner[n]
      /\ DOMAIN miner' = Miners
      /\ miner'[m] = [step |-> "idle", length |-> Cardinality(HasBlock) + 1, reward |-> 0]
  BY DEF RewardsInv, RewardsShape, OpenChain, tables
<1>1. IsFiniteSet(HasBlock)
  <2>1. IsFiniteSet(BlockHeights)
    BY FS_Interval, RewardsAssumption DEF BlockHeights
  <2> QED
    BY <2>1, FS_Subset DEF HasBlock
<1>2. RewardsShape'
  BY <1>0, <1>1, FS_CardinalityType DEF RewardsShape
<1>3. ASSUME ~failed, NEW k \in Nat, RegisterReaches(k)
      PROVE  RegisterReaches(k)'
  <2>1. Cardinality(HasBlock) = k
    <3>1. HasBlock = 1 .. k
      BY <1>3 DEF RegisterReaches
    <3> QED
      BY <3>1, FS_Interval
  <2>2. /\ miner'[m].step = "idle" /\ miner'[m].length = k + 1
    BY <1>0, <2>1
  <2>3. HasBlock' = HasBlock
    BY <1>0 DEF HasBlock
  <2> QED
    BY <1>0, <1>3, <2>2, <2>3 DEF RegisterReaches, Agreed
<1> QED
  BY <1>0, <1>2, <1>3 DEF RewardsInv

(* A block that is begun has its reward recorded, now or before. *)
LEMMA RecordKeepsRewards ==
  ASSUME RewardsInv, NEW m \in Miners, RecordReward(m)
  PROVE  RewardsInv'
<1> PICK h, r : h = miner[m].length /\ r = BlockReward(h)
  OBVIOUS
<1>0. /\ RewardsShape /\ UNCHANGED <<pays, staked>> /\ h <= Top /\ h \in Nat \ {0}
      /\ \A n \in Miners : n # m => miner'[n] = miner[n]
      /\ DOMAIN miner' = Miners /\ miner'[m].step = "build"
      /\ miner'[m].length = h /\ miner'[m].reward = r
  BY DEF RewardsInv, RewardsShape, RecordReward
<1>1. r \in Nat \ {0} /\ (h < FirstYear => r = FirstReward)
  BY <1>0, RewardIsPaid DEF RewardsShape
<1>2. RewardsShape'
  BY <1>0, <1>1 DEF RewardsShape
<1>3. ASSUME ~failed', NEW k \in Nat, RegisterReaches(k)
      PROVE  RegisterReaches(k)'
  <2>1. /\ credits' = [g \in DOMAIN credits \cup {h} |->
                         IF g \in DOMAIN credits THEN credits[g] ELSE r]
        /\ begun' = IF h \in DOMAIN credits THEN begun \cup {h} ELSE begun
    BY <1>3 DEF RecordReward
  <2>2. /\ DOMAIN credits' = DOMAIN credits \cup {h}
        /\ \A g \in DOMAIN credits : credits'[g] = credits[g]
        /\ h \notin DOMAIN credits => credits'[h] = r
        /\ begun \subseteq begun' /\ (h \in DOMAIN credits => h \in begun')
    BY <2>1
  <2>3. \A g \in DOMAIN credits' : g < FirstYear => credits'[g] = FirstReward
    BY <1>1, <1>3, <2>2 DEF RegisterReaches
  <2>4. Agreed(h, r)'
    <3>1. CASE h \in DOMAIN credits
      BY <1>0, <1>1, <2>2, <2>3, <3>1, RewardsAssumption DEF Agreed, RegisterReaches
    <3>2. CASE h \notin DOMAIN credits
      BY <2>2, <2>3, <3>2 DEF Agreed
    <3> QED
      BY <3>1, <3>2
  <2>5. \A g, x : Agreed(g, x) => (h \in DOMAIN credits' /\ g \in DOMAIN credits'
                                  /\ (credits'[g] = x \/ (g \in begun' /\ g >= FirstYear))
                                  /\ (g < FirstYear => credits'[g] = FirstReward))
    BY <2>2 DEF Agreed
  <2>6. HasBlock' = HasBlock
    BY <1>0 DEF HasBlock
  <2>7. h <= k + 1
    BY <1>3 DEF RegisterReaches
  <2>8. DOMAIN credits' \subseteq 1 .. k + 1
    BY <1>0, <1>3, <2>2, <2>7 DEF RegisterReaches
  <2>9. ASSUME NEW n \in Miners
        PROVE  /\ miner'[n].length <= k + 1
               /\ miner'[n].step = "build" =>
                    /\ miner'[n].length <= Top /\ miner'[n].reward # 0
                    /\ Agreed(miner[n].length, miner[n].reward)'
    <3>1. CASE n = m
      BY <1>0, <1>1, <2>4, <2>7, <3>1 DEF Agreed
    <3>2. CASE n # m
      <4>1. miner'[n] = miner[n] /\ miner[n].length <= k + 1
        BY <1>0, <1>3, <3>2 DEF RegisterReaches
      <4>2. miner[n].step = "build" =>
              /\ miner[n].length <= Top /\ miner[n].reward # 0
              /\ Agreed(miner[n].length, miner[n].reward)
        BY <1>3 DEF RegisterReaches
      <4> QED
        BY <2>5, <4>1, <4>2 DEF Agreed
    <3> QED
      BY <3>1, <3>2
  <2> QED
    BY <1>0, <1>3, <2>3, <2>5, <2>6, <2>8, <2>9 DEF RegisterReaches, Agreed
<1>4. ~failed' => ~failed
  BY DEF RecordReward
<1> QED
  BY <1>2, <1>3, <1>4 DEF RewardsInv

(* A block that is stored is the next one, or takes the place of another. *)
LEMMA StoreKeepsRewards ==
  ASSUME RewardsInv, NEW m \in Miners, StorePaidBlock(m)
  PROVE  RewardsInv'
<1> PICK h, r : h = miner[m].length /\ r = miner[m].reward
  OBVIOUS
<1>0. /\ RewardsShape /\ UNCHANGED <<credits, staked, begun>>
      /\ h \in Nat \ {0} /\ r \in Nat /\ miner[m].step = "build"
      /\ \A n \in Miners : n # m => miner'[n] = miner[n]
      /\ DOMAIN miner' = Miners /\ miner'[m] = [step |-> "idle", length |-> h + 1, reward |-> 0]
      /\ pays' \in [BlockHeights -> Nat]
  BY DEF RewardsInv, RewardsShape, StorePaidBlock
<1>2. RewardsShape'
  BY <1>0 DEF RewardsShape
<1>3. ASSUME ~failed', NEW k \in Nat, RegisterReaches(k)
      PROVE  \E j \in Nat : RegisterReaches(j)'
  <2> PICK j : j = IF h = k + 1 THEN k + 1 ELSE k
    OBVIOUS
  <2>1. pays' = [pays EXCEPT ![h] = r]
    BY <1>3 DEF StorePaidBlock
  <2>2. h <= k + 1 /\ h <= Top /\ r # 0 /\ Agreed(h, r)
    BY <1>0, <1>3 DEF RegisterReaches
  <2>3. h \in BlockHeights
    BY <1>0, <2>2, RewardsAssumption DEF BlockHeights
  <2>4. HasBlock' = HasBlock \cup {h}
    BY <1>0, <2>1, <2>2, <2>3 DEF HasBlock, RewardsShape
  <2>5. j \in Nat /\ k <= j /\ h <= j /\ HasBlock' = 1 .. j /\ 1 .. j = 1 .. k \cup {h}
    BY <1>0, <1>3, <2>2, <2>4 DEF RegisterReaches
  <2>6. ASSUME NEW g \in 1 .. j PROVE Agreed(g, pays[g])'
    <3>1. g \in BlockHeights
      BY <2>5, <2>6 DEF HasBlock
    <3>2. CASE g = h
      BY <1>0, <2>1, <2>2, <3>1, <3>2 DEF Agreed, RewardsShape
    <3>3. CASE g # h
      <4>1. Agreed(g, pays[g]) /\ pays'[g] = pays[g]
        BY <1>0, <1>3, <2>1, <2>5, <3>1, <3>3 DEF RegisterReaches, RewardsShape
      <4> QED
        BY <1>0, <4>1 DEF Agreed
    <3> QED
      BY <3>2, <3>3
  <2>7. DOMAIN credits' \subseteq 1 .. j + 1
    BY <1>0, <1>3, <2>5 DEF RegisterReaches
  <2>8. ASSUME NEW n \in Miners
        PROVE  /\ miner'[n].length <= j + 1
               /\ miner'[n].step = "build" =>
                    /\ miner'[n].length <= Top /\ miner'[n].reward # 0
                    /\ Agreed(miner[n].length, miner[n].reward)'
    <3>1. CASE n = m
      BY <1>0, <2>5, <3>1
    <3>2. CASE n # m
      BY <1>0, <1>3, <2>5, <3>2 DEF RegisterReaches, Agreed, RewardsShape
    <3> QED
      BY <3>1, <3>2
  <2>9. \A g \in DOMAIN credits' : g < FirstYear => credits'[g] = FirstReward
    BY <1>0, <1>3 DEF RegisterReaches
  <2>10. HasBlock' = 1 .. j /\ j \in Nat
    BY <2>5
  <2>11. RegisterReaches(j)'
    BY <2>6, <2>7, <2>8, <2>9, <2>10 DEF RegisterReaches
  <2> QED
    BY <2>10, <2>11
<1>4. ~failed' => ~failed
  BY DEF StorePaidBlock
<1> QED
  BY <1>2, <1>3, <1>4 DEF RewardsInv

(* No step of a miner, of the stake or of /supply breaks the invariant.      *)
LEMMA RewardsStepInv == RewardsInv /\ [RewardsNext]_rwvars => RewardsInv'
<1> SUFFICES ASSUME RewardsInv, [RewardsNext]_rwvars PROVE RewardsInv'
  OBVIOUS
<1>1. ASSUME UNCHANGED <<pays, credits, miner, begun, failed>>, staked' \in Nat
      PROVE  RewardsInv'
  <2>1. HasBlock' = HasBlock
    BY <1>1 DEF HasBlock
  <2> QED
    BY <1>1, <2>1 DEF RewardsInv, RewardsShape, RegisterReaches, Agreed
<1>2. CASE UNCHANGED rwvars
  BY <1>1, <1>2 DEF rwvars, tables, RewardsInv, RewardsShape
<1>3. CASE \E n \in Stakes : Restake(n)
  BY <1>1, <1>3, RewardsAssumption DEF Restake
<1>4. CASE SumRewards \/ GetHeight
  BY <1>1, <1>4 DEF SumRewards, GetHeight, tables, RewardsInv, RewardsShape
<1>5. ASSUME NEW m \in Miners, OpenChain(m) \/ RecordReward(m) \/ StorePaidBlock(m)
      PROVE  RewardsInv'
  BY <1>5, OpenKeepsRewards, RecordKeepsRewards, StoreKeepsRewards
<1> QED
  BY <1>2, <1>3, <1>4, <1>5 DEF RewardsNext

(* Whatever the rewards and the stakes, however often miners die and begin   *)
(* a block again: the register says what the blocks pay, except where a      *)
(* block was begun twice after the first year, and runs at most one ahead.   *)
THEOREM CreditsFollowBlocks == RewardsSpec => []RegisterFollowsBlocks
<1>1. RewardsInv => RegisterFollowsBlocks
  <2> SUFFICES ASSUME ~failed, NEW k \in Nat, RegisterReaches(k)
               PROVE  RegisterFollowsBlocks
    BY DEF RewardsInv, RegisterFollowsBlocks
  <2>1. Cardinality(HasBlock) = k
    <3>1. HasBlock = 1 .. k
      BY DEF RegisterReaches
    <3> QED
      BY <3>1, FS_Interval
  <2> QED
    BY <2>1 DEF RegisterReaches, RegisterFollowsBlocks, Agreed
<1> QED
  BY <1>1, RewardsInitInv, RewardsStepInv, PTL DEF RewardsSpec

-----------------------------------------------------------------------------
(* The registers                                                             *)

(* Ids are handed out in order. *)
IdsInOrder == IsFiniteSet(rows) /\ \A e \in rows : e.id <= LastRow

(* Up to known, a handler about to write found no row with its key. *)
NoEarlierRow ==
    \A w \in Clerks : call[w].pc = "checked" =>
        /\ call[w].known <= LastRow
        /\ \A e \in rows : e.key = call[w].key => call[w].known < e.id

RegistryInv == RegistryTypeOK /\ IdsInOrder /\ NoEarlierRow /\ SecondEntryOverlaps

LEMMA RegistryInitInv == RegistryInit => RegistryInv
<1> SUFFICES ASSUME RegistryInit PROVE RegistryInv
  OBVIOUS
<1>1. RegistryTypeOK
  BY RegistryAssumption DEF RegistryInit, RegistryTypeOK, Call
<1>2. IdsInOrder
  BY FS_EmptySet DEF RegistryInit, IdsInOrder
<1>3. NoEarlierRow /\ SecondEntryOverlaps
  BY DEF RegistryInit, NoEarlierRow, SecondEntryOverlaps, NoCall
<1> QED
  BY <1>1, <1>2, <1>3 DEF RegistryInv

LEMMA LastRowIsNat == IdsInOrder => LastRow \in Nat
  BY FS_CardinalityType DEF IdsInOrder, LastRow

\* A worker takes a request that is not yet checked: nothing but its call changes.
LEMMA TakeStep ==
  ASSUME RegistryInv, NEW w \in Clerks, NEW c \in Call, c.pc # "checked", Take(w, c)
  PROVE  RegistryInv'
<1> USE DEF RegistryInv
<1>1. /\ call' = [call EXCEPT ![w] = c] /\ calls' = calls + 1
      /\ UNCHANGED <<coins, rows, tally, allotted, bonded, elections, transfers>>
  BY DEF Take, Tabled
<1>2. RegistryTypeOK'
  BY <1>1 DEF RegistryTypeOK
<1>3. LastRow' = LastRow
  BY <1>1 DEF LastRow
<1>4. NoEarlierRow'
  BY <1>1, <1>3 DEF NoEarlierRow, RegistryTypeOK
<1> QED
  BY <1>1, <1>2, <1>3, <1>4 DEF IdsInOrder, SecondEntryOverlaps

\* A request is answered and the registers of rows are left alone.
LEMMA AnswerStep ==
  ASSUME RegistryInv, NEW w \in Clerks, Answer(w), rows' = rows,
         DOMAIN tally' \subseteq Proposals,
         \A p \in DOMAIN tally' : tally'[p] \in [VoteChoices -> Nat],
         allotted' \in [Accounts -> Nat], bonded' \in [Accounts -> Nat],
         elections' \subseteq [creator : Accounts, fee : Nat]
  PROVE  RegistryInv'
<1> USE DEF RegistryInv
<1>1. /\ call' = [call EXCEPT ![w] = NoCall] /\ UNCHANGED <<coins, calls, transfers>>
  BY DEF Answer
<1>2. NoCall \in Call /\ NoCall.pc # "checked"
  BY DEF Call, NoCall
<1>3. RegistryTypeOK'
  BY <1>1, <1>2 DEF RegistryTypeOK
<1>4. LastRow' = LastRow
  BY DEF LastRow
<1>5. NoEarlierRow'
  BY <1>1, <1>2, <1>4 DEF NoEarlierRow, RegistryTypeOK
<1> QED
  BY <1>1, <1>3, <1>4, <1>5 DEF IdsInOrder, SecondEntryOverlaps

\* A worker finds no row with its key.
LEMMA CheckedStep ==
  ASSUME RegistryInv, NEW w \in Clerks, NEW c \in Call, c.pc = "checked",
         c.known = LastRow, ~ Written(c.key), call' = [call EXCEPT ![w] = c],
         calls' \in Nat, UNCHANGED <<coins, Tabled, transfers>>
  PROVE  RegistryInv'
<1> USE DEF RegistryInv
<1>1. UNCHANGED <<coins, rows, tally, allotted, bonded, elections, transfers>>
  BY DEF Tabled
<1>2. RegistryTypeOK'
  BY <1>1 DEF RegistryTypeOK
<1>3. LastRow' = LastRow /\ LastRow \in Nat
  BY <1>1, LastRowIsNat DEF LastRow
<1>4. NoEarlierRow'
  <2> SUFFICES ASSUME NEW x \in Clerks, call'[x].pc = "checked"
               PROVE  /\ call'[x].known <= LastRow
                      /\ \A e \in rows : e.key = call'[x].key => call'[x].known < e.id
    BY <1>1, <1>3 DEF NoEarlierRow
  <2>1. CASE x = w
    <3>1. call'[x] = c
      BY <2>1 DEF RegistryTypeOK
    <3> QED
      BY <3>1, <1>3 DEF Written
  <2>2. CASE x # w
    BY <2>2 DEF RegistryTypeOK, NoEarlierRow
  <2> QED
    BY <2>1, <2>2
<1> QED
  BY <1>1, <1>2, <1>3, <1>4 DEF IdsInOrder, SecondEntryOverlaps

\* A worker writes its row.
LEMMA WriteStep ==
  ASSUME RegistryInv, NEW w \in Clerks, call[w].pc = "checked", Write(w), Answer(w),
         DOMAIN tally' \subseteq Proposals,
         \A p \in DOMAIN tally' : tally'[p] \in [VoteChoices -> Nat],
         UNCHANGED <<allotted, bonded, elections>>
  PROVE  RegistryInv'
<1> USE DEF RegistryInv
<1> DEFINE n == [id |-> LastRow + 1, key |-> call[w].key, choice |-> call[w].choice,
                 power |-> call[w].power, known |-> call[w].known]
<1>1. /\ rows' = rows \cup {n} /\ call' = [call EXCEPT ![w] = NoCall]
      /\ UNCHANGED <<coins, allotted, bonded, elections, calls, transfers>>
  BY DEF Write, Answer
<1>2. LastRow \in Nat
  BY LastRowIsNat
<1>3. call[w] \in [pc : {"checked"}, key : Key, choice : VoteChoices \cup {Nothing},
                   power : Nat, known : Nat]
  BY DEF RegistryTypeOK, Call, NoCall
<1>4. n \in Row
  BY <1>2, <1>3 DEF Row
<1>5. NoCall \in Call /\ NoCall.pc # "checked"
  BY DEF Call, NoCall
<1>6. RegistryTypeOK'
  BY <1>1, <1>4, <1>5 DEF RegistryTypeOK
<1>7. n \notin rows
  BY <1>2 DEF IdsInOrder
<1>8. IsFiniteSet(rows') /\ LastRow' = LastRow + 1
  BY <1>1, <1>7, FS_AddElement DEF IdsInOrder, LastRow
<1> DEFINE id == n.id  known == n.known  key == n.key
<1>9. id = LastRow + 1 /\ known = call[w].known /\ key = call[w].key
  OBVIOUS
<1>a. \A e \in rows : e.id \in Nat /\ e.known \in Nat
  BY DEF RegistryTypeOK, Row
<1>b. IdsInOrder'
  BY <1>1, <1>2, <1>8, <1>9, <1>a DEF IdsInOrder
<1>c. NoEarlierRow'
  <2> SUFFICES ASSUME NEW x \in Clerks, call'[x].pc = "checked"
               PROVE  /\ call'[x].known <= LastRow + 1
                      /\ \A e \in rows' : e.key = call'[x].key => call'[x].known < e.id
    BY <1>8 DEF NoEarlierRow
  <2>1. x # w /\ call'[x] = call[x]
    BY <1>1, <1>5 DEF RegistryTypeOK
  <2>2. call[x].known \in Nat /\ call[x].known <= LastRow
    BY <2>1 DEF RegistryTypeOK, Call, NoCall, NoEarlierRow
  <2> QED
    BY <1>1, <1>2, <1>9, <2>1, <2>2 DEF NoEarlierRow
<1>d. SecondEntryOverlaps'
  <2> SUFFICES ASSUME NEW e \in rows', NEW f \in rows', e.key = f.key, e.id < f.id
               PROVE  f.known < e.id
    BY DEF SecondEntryOverlaps
  <2>1. CASE e \in rows /\ f \in rows
    BY <2>1 DEF SecondEntryOverlaps
  <2>2. CASE e = n
    BY <1>1, <1>2, <1>9, <1>a, <2>2 DEF IdsInOrder
  <2>3. CASE e \in rows /\ f = n
    BY <1>9, <2>3 DEF NoEarlierRow
  <2> QED
    BY <1>1, <2>1, <2>2, <2>3
<1> QED
  BY <1>6, <1>b, <1>c, <1>d

LEMMA RegistryStep == RegistryInv /\ [RegistryNext]_rvars => RegistryInv'
<1> SUFFICES ASSUME RegistryInv, [RegistryNext]_rvars PROVE RegistryInv'
  OBVIOUS
<1> USE DEF RegistryInv
<1>t. /\ \A a \in Accounts : coins[a] \in Nat /\ allotted[a] \in Nat
      /\ LastRow \in Nat /\ calls \in Nat
  BY LastRowIsNat DEF RegistryTypeOK
<1>k. \A t \in Tables, p \in Proposals \cup Nat, a \in Accounts : <<t, p, a>> \in Key
  BY DEF Key
<1>1. ASSUME NEW w \in Clerks, NEW a \in Accounts, NEW p \in Proposals,
             ProposeGovernance(w, a, p)
      PROVE  RegistryInv'
  BY <1>1, <1>t, TakeStep DEF ProposeGovernance, Call
<1>2. ASSUME NEW w \in Clerks, InsertProposal(w) PROVE RegistryInv'
  <2>1. call[w].item \in Proposals
    BY <1>2 DEF InsertProposal, RegistryTypeOK, Call, NoCall
  <2>2. /\ DOMAIN tally' \subseteq Proposals
        /\ \A p \in DOMAIN tally' : tally'[p] \in [VoteChoices -> Nat]
    BY <1>2, <2>1 DEF InsertProposal, RegistryTypeOK
  <2> QED
    BY <1>2, <2>2, AnswerStep DEF InsertProposal, RegistryTypeOK
<1>3. ASSUME NEW w \in Clerks, NEW a \in Accounts, NEW p \in Proposals, NEW c \in VoteChoices,
             VoteGovernance(w, a, p, c)
      PROVE  RegistryInv'
  <2>1. <<"vote", p, a>> \in Key
    BY <1>k DEF Tables
  <2> QED
    BY <1>3, <1>t, <2>1, TakeStep DEF VoteGovernance, Call
<1>4. ASSUME NEW w \in Clerks, CheckVote(w) PROVE RegistryInv'
  <2>1. call[w] \in [pc : {"weighed"}, key : Key, choice : VoteChoices, power : Nat]
    BY <1>4 DEF CheckVote, RegistryTypeOK, Call, NoCall
  <2> DEFINE c == [pc |-> "checked", key |-> call[w].key, choice |-> call[w].choice,
                   power |-> call[w].power, known |-> LastRow]
  <2>2. c \in Call
    BY <1>t, <2>1 DEF Call
  <2> QED
    BY <1>4, <1>t, <2>2, CheckedStep DEF CheckVote
<1>5. ASSUME NEW w \in Clerks, NEW S \in {"quiet"}, Answer(w), UNCHANGED Tabled
      PROVE  RegistryInv'
  BY <1>5, AnswerStep DEF Tabled, RegistryTypeOK
<1>6. ASSUME NEW w \in Clerks, RecordVote(w) PROVE RegistryInv'
  <2>1. call[w].power \in Nat
    BY <1>6 DEF RecordVote, RegistryTypeOK, Call, NoCall
  <2> DEFINE p == call[w].key[2]
  <2> DEFINE c == call[w].choice
             t == tally[p][c] + call[w].power
  <2>3. tally' = [tally EXCEPT ![p] = [tally[p] EXCEPT ![c] = t]]
    BY <1>6 DEF RecordVote
  <2>4. ASSUME NEW q \in DOMAIN tally
        PROVE  tally'[q] \in [VoteChoices -> Nat]
    <3>1. tally[q] \in [VoteChoices -> Nat]
      BY DEF RegistryTypeOK
    <3>2. CASE q = p /\ c \in VoteChoices
      <4>1. t \in Nat
        BY <2>1, <3>1, <3>2
      <4> HIDE DEF t
      <4> QED
        BY <2>3, <3>1, <3>2, <4>1
    <3>3. CASE q = p /\ c \notin VoteChoices
      BY <2>3, <3>1, <3>3
    <3>4. CASE q # p
      BY <2>3, <3>1, <3>4
    <3> QED
      BY <3>2, <3>3, <3>4
  <2>2. /\ DOMAIN tally' = DOMAIN tally
        /\ \A q \in DOMAIN tally : tally'[q] \in [VoteChoices -> Nat]
    BY <2>3, <2>4
  <2> QED
    BY <1>6, <2>2, WriteStep DEF RecordVote, RegistryTypeOK
<1>7. ASSUME NEW w \in Clerks, NEW t \in Tables, NEW i \in Proposals \cup Nat,
             NEW a \in Accounts, NEW c \in VoteChoices \cup {Nothing}, NEW n \in Nat,
             Look(w, <<t, i, a>>, c, n)
      PROVE  RegistryInv'
  <2> DEFINE k == [pc |-> "checked", key |-> <<t, i, a>>, choice |-> c, power |-> n,
                   known |-> LastRow]
  <2>1. k \in Call
    BY <1>k, <1>t DEF Call
  <2>2. /\ ~ Written(k.key) /\ call' = [call EXCEPT ![w] = k]
        /\ calls' = calls + 1 /\ UNCHANGED <<coins, Tabled, transfers>>
    BY <1>7 DEF Look, Take
  <2> HIDE DEF k
  <2>3. k.pc = "checked" /\ k.known = LastRow
    BY DEF k
  <2> QED
    <3>1. calls' \in Nat
      BY <1>t, <2>2
    <3> QED
      BY <2>1, <2>2, <2>3, <3>1, CheckedStep
<1>8. ASSUME NEW w \in Clerks, NEW v \in rows, NEW c \in VoteChoices, CastVote(w, v, c)
      PROVE  RegistryInv'
  <2>1. v.id \in Nat /\ v.key[3] \in Accounts
    BY DEF RegistryTypeOK, Row, Key
  <2> QED
    BY <1>7, <1>8, <2>1 DEF CastVote, Tables
<1>9. ASSUME NEW w \in Clerks, Enter(w) PROVE RegistryInv'
  BY <1>9, WriteStep DEF Enter, RegistryTypeOK
<1>a. ASSUME NEW S \in SUBSET Accounts, NEW n \in Amounts, GenerateWallets(S, n)
      PROVE  RegistryInv'
  <2>1. n \in Nat
    BY RegistryAssumption
  <2>2. RegistryTypeOK'
    BY <1>a, <2>1 DEF GenerateWallets, RegistryTypeOK
  <2> QED
    BY <1>a, <2>2
       DEF GenerateWallets, IdsInOrder, LastRow, NoEarlierRow, SecondEntryOverlaps
<1>b. ASSUME NEW w \in Clerks, NEW a \in Accounts, NEW n \in Amounts, Bond(w, a, n)
      PROVE  RegistryInv'
  <2>1. n \in Nat
    BY RegistryAssumption
  <2> QED
    BY <1>b, <2>1, TakeStep DEF Bond, Call
<1>c. ASSUME NEW w \in Clerks, InsertValidator(w) PROVE RegistryInv'
  <2>1. call[w].power \in Nat
    BY <1>c DEF InsertValidator, RegistryTypeOK, Call, NoCall
  <2> QED
    BY <1>c, <2>1, AnswerStep DEF InsertValidator, RegistryTypeOK
<1>d. ASSUME NEW w \in Clerks, NEW a \in Accounts, NEW f \in TierFees,
             CreateTieredElection(w, a, f)
      PROVE  RegistryInv'
  <2>1. f \in Nat
    BY RegistryAssumption
  <2> QED
    BY <1>d, <2>1, TakeStep DEF CreateTieredElection, Call
<1>e. ASSUME NEW w \in Clerks, InsertElection(w) PROVE RegistryInv'
  <2>1. call[w].power \in Nat /\ call[w].who \in Accounts
    BY <1>e DEF InsertElection, RegistryTypeOK, Call, NoCall
  <2> QED
    BY <1>e, <2>1, AnswerStep DEF InsertElection, RegistryTypeOK
<1>f. ASSUME NEW a \in Accounts, NEW b \in Accounts, Transfer(a, b) PROVE RegistryInv'
  <2>1. RegistryTypeOK'
    BY <1>f DEF Transfer, Tabled, RegistryTypeOK
  <2> QED
    BY <1>f, <2>1 DEF Transfer, Tabled, IdsInOrder, LastRow, NoEarlierRow, SecondEntryOverlaps
<1>g. CASE UNCHANGED rvars
  BY <1>g DEF rvars, RegistryTypeOK, IdsInOrder, LastRow, NoEarlierRow, SecondEntryOverlaps
<1>h. ASSUME NEW w \in Clerks, NEW a \in Accounts,
             RegisterWithWallet(w, a) \/ RegisterWallet(w, a) \/ ClaimAirdrop(w, a)
      PROVE  RegistryInv'
  BY <1>7, <1>h, <1>t DEF RegisterWithWallet, RegisterWallet, ClaimAirdrop, Tables
<1>i. ASSUME NEW w \in Clerks, RefuseVote(w) \/ Abandon(w) PROVE RegistryInv'
  BY <1>5, <1>i DEF RefuseVote, Abandon
<1> QED
  BY <1>1, <1>2, <1>3, <1>4, <1>6, <1>8, <1>9, <1>a, <1>b, <1>c, <1>d, <1>e, <1>f, <1>g,
     <1>h, <1>i DEF RegistryNext

(* Rows, tallies, bonds and requests in flight are well formed: no handler,  *)
(* whatever it read before, writes anything else.                            *)
THEOREM RegistryTypeCorrect == RegistrySpec => []RegistryTypeOK
<1>1. RegistryInv => RegistryTypeOK
  BY DEF RegistryInv
<1> QED
  BY RegistryInitInv, RegistryStep, <1>1, PTL DEF RegistrySpec

(* A governance vote, a registration, a ballot or a claim is doubled only by *)
(* handlers that overlap (api.py:971, 628, airdrop.py:68, voting/api.py:30). *)
THEOREM DoubledOnlyByOverlap == RegistrySpec => []SecondEntryOverlaps
<1>1. RegistryInv => SecondEntryOverlaps
  BY DEF RegistryInv
<1> QED
  BY RegistryInitInv, RegistryStep, <1>1, PTL DEF RegistrySpec

-----------------------------------------------------------------------------
(* The power on record                                                       *)

(* A vote is about a proposal that is there, and counts for one choice. *)
IsVote(c) == c.pc = "weighed" \/ (c.pc = "checked" /\ c.key[1] = "vote")
VotesAreNamed ==
    /\ \A w \in Clerks : IsVote(call[w]) =>
          /\ call[w].key[1] = "vote"
          /\ call[w].key[2] \in DOMAIN tally /\ call[w].choice \in VoteChoices
    /\ \A r \in rows : r.key[1] = "vote" =>
          r.key[2] \in DOMAIN tally /\ r.choice \in VoteChoices

VotesOn(p, c) == {r \in Votes(p) : r.choice = c}
TallyIsSum ==
    \A p \in DOMAIN tally, c \in VoteChoices :
        tally[p][c] = SumFunctionOnSet(Powers, VotesOn(p, c))

(* What is claimed is granted: an allotment, once there, never changes. *)
ClaimsAreGranted ==
    /\ \A w \in Clerks : call[w].pc = "checked" /\ call[w].key[1] = "claim" =>
          call[w].power > 0 /\ call[w].power = allotted[call[w].key[3]]
    /\ \A r \in rows : r.key[1] = "claim" =>
          r.power > 0 /\ r.power = allotted[r.key[3]]

(* As long as no coin moves, nobody votes or bonds with more than at the start. *)
NothingMoved ==
    /\ coins = Wealth
    /\ \A a \in Accounts : bonded[a] <= Wealth[a]
    /\ \A w \in Clerks :
          /\ call[w].pc = "bond" => call[w].power <= Wealth[call[w].who]
          /\ IsVote(call[w]) => call[w].power = Wealth[call[w].key[3]]
    /\ \A r \in rows : r.key[1] = "vote" => r.power = Wealth[r.key[3]]

PowerInv ==
    /\ RegistryInv
    /\ VotesAreNamed /\ TallyIsSum /\ ClaimsAreGranted
    /\ transfers = 0 => NothingMoved

(* Votes sorted by choice are the votes: the tally of a proposal adds up to  *)
(* the power of its rows.                                                    *)
LEMMA TallyIsTotal ==
  ASSUME PowerInv, NEW p \in DOMAIN tally
  PROVE  /\ IsFiniteSet(Votes(p)) /\ \A r \in Votes(p) : Powers[r] = r.power /\ r.power \in Nat
         /\ TotalPower(p) = SumFunctionOnSet(Powers, Votes(p))
<1>1. /\ IsFiniteSet(Votes(p))
      /\ \A r \in Votes(p) : Powers[r] = r.power /\ r.power \in Nat /\ r.choice \in VoteChoices
  <2>1. Votes(p) \in SUBSET rows /\ IsFiniteSet(rows)
    BY DEF PowerInv, RegistryInv, IdsInOrder, Votes
  <2>2. \A r \in Votes(p) : Powers[r] = r.power /\ r.power \in Nat /\ r.choice \in VoteChoices
    BY DEF PowerInv, RegistryInv, RegistryTypeOK, Row, Powers, Votes, VotesAreNamed
  <2> QED BY <2>1, <2>2, FS_Subset
<1> DEFINE h == [r \in Votes(p) |-> r.choice]
<1>2. \A c \in VoteChoices :
         tally[p][c] = SumFunctionOnSet(Powers, {r \in Votes(p) : h[r] = c})
  <2> SUFFICES ASSUME NEW c \in VoteChoices
               PROVE  tally[p][c] = SumFunctionOnSet(Powers, {r \in Votes(p) : h[r] = c})
    OBVIOUS
  <2>1. {r \in Votes(p) : h[r] = c} = VotesOn(p, c)
    BY DEF VotesOn
  <2> QED BY <2>1 DEF PowerInv, TallyIsSum
<1>3. IsFiniteSet(VoteChoices)
  <2>1. VoteChoices = {"yes"} \cup ({"no"} \cup {"abstain"})
    BY DEF VoteChoices
  <2> QED BY <2>1, FS_Singleton, FS_Union
<1>4. \A r \in Votes(p) : h[r] \in VoteChoices /\ Powers[r] \in Int
  BY <1>1
<1> HIDE DEF h
<1>5. SumFunctionOnSet(tally[p], VoteChoices) = SumFunctionOnSet(Powers, Votes(p))
  BY <1>1, <1>2, <1>3, <1>4, SumByGroups
<1> QED BY <1>1, <1>5 DEF TotalPower

(* Votes with different keys are by different accounts, so together they     *)
(* carry no more than there is.                                              *)
LEMMA VotesAreCovered ==
  ASSUME PowerInv, transfers = 0, NEW p \in DOMAIN tally, ~ Repeated(p)
  PROVE  TotalPower(p) <= Total(Wealth)
<1> DEFINE h == [r \in Votes(p) |-> r.key[3]]
<1>1. /\ IsFiniteSet(Votes(p)) /\ TotalPower(p) = SumFunctionOnSet(Powers, Votes(p))
      /\ \A r \in Votes(p) : Powers[r] \in Nat
  BY TallyIsTotal
<1>2. \A r \in Votes(p) : h[r] \in Accounts /\ Powers[r] <= Wealth[h[r]]
  <2> SUFFICES ASSUME NEW r \in Votes(p)
               PROVE  h[r] \in Accounts /\ Powers[r] <= Wealth[h[r]]
    OBVIOUS
  <2>1. r \in rows /\ r.key[1] = "vote" /\ r.key \in Key
    BY DEF Votes, PowerInv, RegistryInv, RegistryTypeOK, Row
  <2>2. h[r] = r.key[3] /\ r.key[3] \in Accounts
    BY <2>1 DEF Key
  <2>3. Powers[r] = Wealth[r.key[3]]
    BY <2>1, TallyIsTotal DEF PowerInv, NothingMoved
  <2> QED BY <2>2, <2>3, RegistryAssumption
<1>3. \A r, s \in Votes(p) : h[r] = h[s] => r = s
  <2> SUFFICES ASSUME NEW r \in Votes(p), NEW s \in Votes(p), h[r] = h[s] PROVE r = s
    OBVIOUS
  <2>1. /\ r.key \in Key /\ s.key \in Key
        /\ r.key[1] = s.key[1] /\ r.key[2] = s.key[2] /\ r.key[3] = s.key[3]
    BY DEF Votes, PowerInv, RegistryInv, RegistryTypeOK, Row
  <2>2. r.key = s.key
    BY <2>1 DEF Key
  <2> QED BY <2>2 DEF Repeated
<1>4. \A a \in Accounts : Wealth[a] \in Nat
  BY RegistryAssumption
<1>5. IsFiniteSet(Accounts)
  BY RegistryAssumption
<1> HIDE DEF h
<1>6. SumFunctionOnSet(Powers, Votes(p)) <= SumFunctionOnSet(Wealth, Accounts)
  BY <1>1, <1>2, <1>3, <1>4, <1>5, SumInjects
<1> QED BY <1>1, <1>6 DEF Total

LEMMA PowerImplied == PowerInv => PowerIsAccounted
<1> SUFFICES ASSUME PowerInv PROVE PowerIsAccounted
  OBVIOUS
<1>1. \A p \in DOMAIN tally, c \in VoteChoices :
         tally[p][c] = SumFunctionOnSet(Powers, {r \in Votes(p) : r.choice = c})
  BY DEF PowerInv, TallyIsSum, VotesOn
<1>2. \A r \in rows : r.key[1] = "claim" => r.power = allotted[r.key[3]]
  BY DEF PowerInv, ClaimsAreGranted
<1>3. ASSUME transfers = 0 PROVE Total(bonded) <= Total(Wealth)
  <2>1. \A a \in Accounts : bonded[a] \in Nat /\ Wealth[a] \in Nat /\ bonded[a] <= Wealth[a]
    BY <1>3, RegistryAssumption DEF PowerInv, RegistryInv, RegistryTypeOK, NothingMoved
  <2>2. PICK b : b = bonded
    OBVIOUS
  <2>3. SumFunctionOnSet(b, Accounts) <= SumFunctionOnSet(Wealth, Accounts)
    BY <2>1, <2>2, SumMonotone, RegistryAssumption
  <2> QED BY <2>2, <2>3 DEF Total
<1>4. ASSUME transfers = 0, NEW p \in DOMAIN tally, TotalPower(p) > Total(Wealth)
      PROVE  Repeated(p)
  <2>1. SUFFICES ASSUME ~ Repeated(p) PROVE FALSE
    OBVIOUS
  <2>2. TotalPower(p) <= Total(Wealth)
    BY <1>4, <2>1, VotesAreCovered
  <2>3. TotalPower(p) \in Int /\ Total(Wealth) \in Int
    BY TallyIsTotal, SumType, RegistryAssumption DEF Total
  <2> QED BY <1>4, <2>2, <2>3
<1> QED BY <1>1, <1>2, <1>3, <1>4 DEF PowerIsAccounted

\* Only a call changes: what it holds is a fact about the tables as they are.
LEMMA PowerCall ==
  ASSUME PowerInv, RegistryInv', NEW w \in Clerks, NEW c,
         call' = [call EXCEPT ![w] = c],
         UNCHANGED <<coins, rows, tally, allotted, bonded, transfers>>,
         IsVote(c) => /\ c.key[1] = "vote" /\ c.key[2] \in DOMAIN tally
                      /\ c.choice \in VoteChoices,
         c.pc = "checked" /\ c.key[1] = "claim" =>
             c.power > 0 /\ c.power = allotted[c.key[3]],
         transfers = 0 => /\ c.pc = "bond" => c.power <= Wealth[c.who]
                          /\ IsVote(c) => c.power = Wealth[c.key[3]]
  PROVE  PowerInv'
<1>1. \A x \in Clerks : call'[x] = c \/ call'[x] = call[x]
  BY DEF PowerInv, RegistryInv, RegistryTypeOK
<1>2. VotesAreNamed'
  BY <1>1 DEF PowerInv, VotesAreNamed, IsVote
<1>3. TallyIsSum'
  BY DEF PowerInv, TallyIsSum, VotesOn, Votes, Powers
<1>4. ClaimsAreGranted'
  BY <1>1 DEF PowerInv, ClaimsAreGranted
<1>5. transfers' = 0 => NothingMoved'
  BY <1>1 DEF PowerInv, NothingMoved, IsVote
<1> QED BY <1>2, <1>3, <1>4, <1>5 DEF PowerInv

LEMMA NoCallHoldsNothing == NoCall.pc = "idle" /\ ~ IsVote(NoCall)
BY DEF NoCall, IsVote

\* The row a handler writes, and what it does to the sums.
NewRow(w) == [id |-> LastRow + 1, key |-> call[w].key, choice |-> call[w].choice,
              power |-> call[w].power, known |-> call[w].known]

LEMMA WriteSums ==
  ASSUME PowerInv, NEW w \in Clerks, call[w].pc = "checked", Write(w), NEW S \in SUBSET rows
  PROVE  /\ rows' = rows \cup {NewRow(w)} /\ NewRow(w) \notin rows /\ call[w].power \in Nat
         /\ SumFunctionOnSet(Powers', S) = SumFunctionOnSet(Powers, S)
         /\ SumFunctionOnSet(Powers', S \cup {NewRow(w)})
              = SumFunctionOnSet(Powers, S) + call[w].power
<1>1. rows' = rows \cup {NewRow(w)}
  BY DEF Write, NewRow
<1>2. call[w].power \in Nat /\ LastRow \in Nat
  BY LastRowIsNat DEF PowerInv, RegistryInv, RegistryTypeOK, Call, NoCall
<1>3. NewRow(w) \notin rows
  BY <1>2 DEF PowerInv, RegistryInv, IdsInOrder, NewRow
<1>4. PICK n : n = NewRow(w)
  OBVIOUS
<1>a. n.power = call[w].power
  BY <1>4 DEF NewRow
<1>5. PICK f, g : f = Powers /\ g = Powers'
  OBVIOUS
<1>6. \A r \in rows : f[r] \in Int /\ g[r] = f[r]
  BY <1>1, <1>5 DEF Powers, PowerInv, RegistryInv, RegistryTypeOK, Row
<1>7. g[n] = call[w].power /\ n \notin S /\ \A r \in S \cup {n} : g[r] \in Int
  BY <1>1, <1>2, <1>3, <1>4, <1>5, <1>6, <1>a DEF Powers
<1>8. IsFiniteSet(S)
  BY FS_Subset DEF PowerInv, RegistryInv, IdsInOrder
<1>9. SumFunctionOnSet(g, S) = SumFunctionOnSet(f, S) /\ SumFunctionOnSet(f, S) \in Int
  BY <1>6, <1>8, SumAgree, SumType
<1>10. SumFunctionOnSet(g, S \cup {n}) = g[n] + SumFunctionOnSet(g, S)
  BY <1>7, <1>8, SumAdd
<1>11. SumFunctionOnSet(g, S \cup {n}) = SumFunctionOnSet(f, S) + call[w].power
  BY <1>2, <1>7, <1>9, <1>10
<1> QED BY <1>1, <1>2, <1>3, <1>4, <1>5, <1>9, <1>11

\* A row is written: votes are counted with it, other rows are no votes.
LEMMA PowerWrite ==
  ASSUME PowerInv, RegistryInv', NEW w \in Clerks, call[w].pc = "checked", Write(w), Answer(w),
         UNCHANGED <<allotted, bonded>>,
         IF call[w].key[1] = "vote"
         THEN /\ DOMAIN tally' = DOMAIN tally
              /\ \A p \in DOMAIN tally, c \in VoteChoices :
                   tally'[p][c] = IF p = call[w].key[2] /\ c = call[w].choice
                                  THEN tally[p][c] + call[w].power ELSE tally[p][c]
         ELSE tally' = tally
  PROVE  PowerInv'
<1> DEFINE n == NewRow(w)
<1>0. \A S \in SUBSET rows :
         /\ SumFunctionOnSet(Powers', S) = SumFunctionOnSet(Powers, S)
         /\ SumFunctionOnSet(Powers', S \cup {n}) = SumFunctionOnSet(Powers, S) + call[w].power
  BY WriteSums, Zenon
<1>1. rows' = rows \cup {n} /\ n \notin rows /\ call[w].power \in Nat
  <2>1. {} \in SUBSET rows
    OBVIOUS
  <2> QED BY <2>1, WriteSums, Zenon
<1>2. n.key = call[w].key /\ n.choice = call[w].choice /\ n.power = call[w].power
  BY DEF NewRow
<1>3. /\ \A x \in Clerks : call'[x] = NoCall \/ call'[x] = call[x]
      /\ UNCHANGED <<coins, transfers, allotted, bonded>>
  BY DEF PowerInv, RegistryInv, RegistryTypeOK, Answer
<1>4. DOMAIN tally' = DOMAIN tally
  OBVIOUS
<1>5. /\ call[w].key[1] = "vote" => IsVote(call[w])
      /\ call[w].key[1] = "vote" =>
            call[w].key[2] \in DOMAIN tally /\ call[w].choice \in VoteChoices
  BY DEF IsVote, PowerInv, VotesAreNamed
<1> HIDE DEF n
<1>6. VotesAreNamed'
  BY <1>1, <1>2, <1>3, <1>4, <1>5, NoCallHoldsNothing DEF PowerInv, VotesAreNamed, IsVote
<1>7. ASSUME NEW p \in DOMAIN tally, NEW c \in VoteChoices
      PROVE  tally'[p][c] = SumFunctionOnSet(Powers', VotesOn(p, c)')
  <2>1. VotesOn(p, c) \in SUBSET rows
    BY DEF VotesOn, Votes
  <2>2. tally[p][c] = SumFunctionOnSet(Powers, VotesOn(p, c))
    BY DEF PowerInv, TallyIsSum
  <2>3. CASE call[w].key[1] = "vote" /\ p = call[w].key[2] /\ c = call[w].choice
    <3>1. VotesOn(p, c)' = VotesOn(p, c) \cup {n}
      BY <1>1, <1>2, <2>3 DEF VotesOn, Votes
    <3>2. tally'[p][c] = tally[p][c] + call[w].power
      BY <2>3
    <3>3. SumFunctionOnSet(Powers', VotesOn(p, c) \cup {n})
            = SumFunctionOnSet(Powers, VotesOn(p, c)) + call[w].power
      BY <1>0, <2>1, Zenon
    <3> QED BY <2>2, <3>1, <3>2, <3>3, Zenon
  <2>4. CASE ~ (call[w].key[1] = "vote" /\ p = call[w].key[2] /\ c = call[w].choice)
    <3>1. VotesOn(p, c)' = VotesOn(p, c)
      BY <1>1, <1>2, <2>4 DEF VotesOn, Votes
    <3>2. tally'[p][c] = tally[p][c]
      BY <2>4
    <3>3. SumFunctionOnSet(Powers', VotesOn(p, c)) = SumFunctionOnSet(Powers, VotesOn(p, c))
      BY <1>0, <2>1, Zenon
    <3> QED BY <2>2, <3>1, <3>2, <3>3, Zenon
  <2> QED BY <2>3, <2>4
<1>8. TallyIsSum'
  BY <1>4, <1>7 DEF TallyIsSum
<1>9. ClaimsAreGranted'
  BY <1>1, <1>2, <1>3, NoCallHoldsNothing DEF PowerInv, ClaimsAreGranted
<1>10. transfers' = 0 => NothingMoved'
  BY <1>1, <1>2, <1>3, <1>5, NoCallHoldsNothing DEF PowerInv, NothingMoved, IsVote
<1> QED BY <1>6, <1>8, <1>9, <1>10 DEF PowerInv

LEMMA PowerInitInv == RegistryInit => PowerInv
<1> SUFFICES ASSUME RegistryInit PROVE PowerInv
  OBVIOUS
<1>1. /\ rows = {} /\ tally = << >> /\ coins = Wealth /\ transfers = 0
      /\ bonded = [a \in Accounts |-> 0] /\ \A w \in Clerks : call[w] = NoCall
  BY DEF RegistryInit
<1>2. VotesAreNamed /\ ClaimsAreGranted
  BY <1>1, NoCallHoldsNothing DEF VotesAreNamed, ClaimsAreGranted
<1>3. TallyIsSum
  <2>1. DOMAIN tally = {}
    BY <1>1
  <2> QED BY <2>1 DEF TallyIsSum
<1>4. NothingMoved
  <2>1. \A a \in Accounts : bonded[a] <= Wealth[a]
    BY <1>1, RegistryAssumption
  <2> QED BY <1>1, <2>1, NoCallHoldsNothing DEF NothingMoved
<1> QED BY <1>2, <1>3, <1>4, RegistryInitInv DEF PowerInv

\* A request is taken that is neither a vote nor a claim about to be written.
LEMMA PowerTake ==
  ASSUME PowerInv, RegistryInv', NEW w \in Clerks, NEW c, Take(w, c),
         IsVote(c) => /\ c.key[1] = "vote" /\ c.key[2] \in DOMAIN tally
                      /\ c.choice \in VoteChoices,
         c.pc = "checked" /\ c.key[1] = "claim" =>
             c.power > 0 /\ c.power = allotted[c.key[3]],
         transfers = 0 => /\ c.pc = "bond" => c.power <= Wealth[c.who]
                          /\ IsVote(c) => c.power = Wealth[c.key[3]]
  PROVE  PowerInv'
<1>1. /\ call' = [call EXCEPT ![w] = c]
      /\ UNCHANGED <<coins, rows, tally, allotted, bonded, transfers>>
  BY DEF Take, Tabled
<1> QED BY <1>1, PowerCall

LEMMA PowerStep == PowerInv /\ [RegistryNext]_rvars => PowerInv'
<1> SUFFICES ASSUME PowerInv, [RegistryNext]_rvars PROVE PowerInv'
  OBVIOUS
<1>0. RegistryInv /\ RegistryInv'
  BY RegistryStep DEF PowerInv
<1>1. ASSUME NEW w \in Clerks, NEW a \in Accounts, NEW p \in Proposals,
             ProposeGovernance(w, a, p)
      PROVE  PowerInv'
  BY <1>0, <1>1, PowerTake DEF ProposeGovernance, IsVote
<1>2. ASSUME NEW w \in Clerks, NEW a \in Accounts, NEW p \in Proposals, NEW c \in VoteChoices,
             VoteGovernance(w, a, p, c)
      PROVE  PowerInv'
  <2> DEFINE k == [pc |-> "weighed", key |-> <<"vote", p, a>>, choice |-> c, power |-> coins[a]]
  <2>1. p \in DOMAIN tally /\ Take(w, k)
    BY <1>2 DEF VoteGovernance
  <2>2. /\ k.pc = "weighed" /\ k.key[1] = "vote" /\ k.key[2] = p /\ k.key[3] = a /\ k.choice = c
        /\ k.power = coins[a]
    OBVIOUS
  <2>3. transfers = 0 => coins = Wealth
    BY DEF PowerInv, NothingMoved
  <2> HIDE DEF k
  <2> QED BY <1>0, <2>1, <2>2, <2>3, PowerTake DEF IsVote
<1>3. ASSUME NEW w \in Clerks, NEW t \in Tables \ {"vote"}, NEW i, NEW a \in Accounts,
             NEW c, NEW n, Look(w, <<t, i, a>>, c, n),
             t = "claim" => n > 0 /\ n = allotted[a]
      PROVE  PowerInv'
  <2> DEFINE k == [pc |-> "checked", key |-> <<t, i, a>>, choice |-> c, power |-> n,
                   known |-> LastRow]
  <2>1. Take(w, k)
    BY <1>3 DEF Look
  <2>2. k.pc = "checked" /\ k.key[1] = t /\ k.key[3] = a /\ k.power = n
    OBVIOUS
  <2> HIDE DEF k
  <2> QED BY <1>0, <1>3, <2>1, <2>2, PowerTake DEF IsVote
<1>4. ASSUME NEW w \in Clerks, NEW a \in Accounts,
             RegisterWithWallet(w, a) \/ RegisterWallet(w, a) \/ ClaimAirdrop(w, a)
      PROVE  PowerInv'
  BY <1>3, <1>4 DEF RegisterWithWallet, RegisterWallet, ClaimAirdrop, Tables
<1>5. ASSUME NEW w \in Clerks, NEW v \in rows, NEW c \in VoteChoices, CastVote(w, v, c)
      PROVE  PowerInv'
  <2>1. v.key[3] \in Accounts
    BY <1>0 DEF RegistryInv, RegistryTypeOK, Row, Key
  <2> QED BY <1>3, <1>5, <2>1 DEF CastVote, Tables
<1>6. ASSUME NEW w \in Clerks, NEW a \in Accounts, NEW n \in Amounts, Bond(w, a, n)
      PROVE  PowerInv'
  <2> DEFINE k == [pc |-> "bond", who |-> a, power |-> n]
  <2>1. Take(w, k) /\ n <= coins[a]
    <3>1. n \in Int /\ coins[a] \in Int /\ coins[a] >= n /\ Take(w, k)
      BY <1>0, <1>6, RegistryAssumption DEF Bond, RegistryInv, RegistryTypeOK
    <3> QED BY <3>1
  <2>2. k.pc = "bond" /\ k.who = a /\ k.power = n
    OBVIOUS
  <2>3. transfers = 0 => coins = Wealth
    BY DEF PowerInv, NothingMoved
  <2> HIDE DEF k
  <2> QED BY <1>0, <2>1, <2>2, <2>3, PowerTake DEF IsVote
<1>7. ASSUME NEW w \in Clerks, NEW a \in Accounts, NEW f \in TierFees,
             CreateTieredElection(w, a, f)
      PROVE  PowerInv'
  BY <1>0, <1>7, PowerTake DEF CreateTieredElection, IsVote
<1>8. ASSUME NEW w \in Clerks, InsertProposal(w) PROVE PowerInv'
  <2> DEFINE q == call[w].item
             zero == [c \in VoteChoices |-> 0]
  <2>1. /\ q \notin DOMAIN tally /\ DOMAIN tally' = DOMAIN tally \cup {q}
        /\ tally'[q] = zero /\ \A p \in DOMAIN tally : tally'[p] = tally[p]
    BY <1>8 DEF InsertProposal
  <2>2. /\ \A x \in Clerks : call'[x] = NoCall \/ call'[x] = call[x]
        /\ UNCHANGED <<coins, rows, allotted, bonded, transfers>>
    BY <1>0, <1>8 DEF InsertProposal, Answer, RegistryInv, RegistryTypeOK
  <2>3. VotesAreNamed'
    BY <2>1, <2>2, NoCallHoldsNothing DEF PowerInv, VotesAreNamed, IsVote
  <2>4. ASSUME NEW p \in DOMAIN tally', NEW c \in VoteChoices
        PROVE  tally'[p][c] = SumFunctionOnSet(Powers', VotesOn(p, c)')
    <3>1. VotesOn(p, c)' = VotesOn(p, c) /\ Powers' = Powers
      BY <2>2 DEF VotesOn, Votes, Powers
    <3>2. CASE p = q
      <4>1. VotesOn(p, c) = {}
        BY <2>1, <3>2 DEF VotesOn, Votes, PowerInv, VotesAreNamed
      <4>2. tally'[p][c] = 0
        BY <2>1, <3>2
      <4> QED BY <3>1, <4>1, <4>2, SumEmpty, Zenon
    <3>3. CASE p # q
      BY <2>1, <3>1, <3>3 DEF PowerInv, TallyIsSum
    <3> QED BY <3>2, <3>3
  <2>5. TallyIsSum'
    BY <2>4 DEF TallyIsSum
  <2>6. ClaimsAreGranted'
    BY <2>2, NoCallHoldsNothing DEF PowerInv, ClaimsAreGranted
  <2>7. transfers' = 0 => NothingMoved'
    BY <2>2, NoCallHoldsNothing DEF PowerInv, NothingMoved, IsVote
  <2> QED BY <1>0, <2>3, <2>5, <2>6, <2>7 DEF PowerInv
<1>9. ASSUME NEW w \in Clerks, CheckVote(w) PROVE PowerInv'
  <2> DEFINE k == [pc |-> "checked", key |-> call[w].key, choice |-> call[w].choice,
                   power |-> call[w].power, known |-> LastRow]
  <2>1. /\ call[w].pc = "weighed" /\ call' = [call EXCEPT ![w] = k]
        /\ UNCHANGED <<coins, rows, tally, allotted, bonded, transfers>>
    BY <1>9 DEF CheckVote, Tabled
  <2>2. IsVote(call[w]) /\ call[w].key[1] = "vote"
    BY <2>1 DEF PowerInv, VotesAreNamed, IsVote
  <2>3. k.pc = "checked" /\ k.key = call[w].key /\ k.choice = call[w].choice /\ k.power = call[w].power
    OBVIOUS
  <2> HIDE DEF k
  <2>4. k.key[2] \in DOMAIN tally /\ k.choice \in VoteChoices
    BY <2>2, <2>3 DEF PowerInv, VotesAreNamed
  <2>5. transfers = 0 => k.power = Wealth[k.key[3]]
    BY <2>2, <2>3 DEF PowerInv, NothingMoved
  <2> QED BY <1>0, <2>1, <2>2, <2>3, <2>4, <2>5, PowerCall
<1>a. ASSUME NEW w \in Clerks, Answer(w), UNCHANGED <<rows, tally, allotted, bonded>>
      PROVE  PowerInv'
  <2>1. call' = [call EXCEPT ![w] = NoCall] /\ UNCHANGED <<coins, transfers>>
    BY <1>a DEF Answer
  <2> QED BY <1>0, <1>a, <2>1, PowerCall, NoCallHoldsNothing
<1>b. ASSUME NEW w \in Clerks, RefuseVote(w) \/ Abandon(w) \/ InsertElection(w)
      PROVE  PowerInv'
  BY <1>a, <1>b DEF RefuseVote, Abandon, InsertElection, Tabled
<1>c. ASSUME NEW w \in Clerks, RecordVote(w) PROVE PowerInv'
  <2>1. /\ call[w].pc = "checked" /\ call[w].key[1] = "vote" /\ Write(w) /\ Answer(w)
        /\ UNCHANGED <<allotted, bonded>>
    BY <1>c DEF RecordVote
  <2>2. /\ DOMAIN tally' = DOMAIN tally
        /\ \A p \in DOMAIN tally, c \in VoteChoices :
             tally'[p][c] = IF p = call[w].key[2] /\ c = call[w].choice
                            THEN tally[p][c] + call[w].power ELSE tally[p][c]
    BY <1>0, <1>c DEF RecordVote, RegistryInv, RegistryTypeOK
  <2> QED BY <1>0, <2>1, <2>2, PowerWrite
<1>d. ASSUME NEW w \in Clerks, Enter(w) PROVE PowerInv'
  BY <1>0, <1>d, PowerWrite DEF Enter
<1>e. ASSUME NEW w \in Clerks, InsertValidator(w) PROVE PowerInv'
  <2>1. /\ \A x \in Clerks : call'[x] = NoCall \/ call'[x] = call[x]
        /\ UNCHANGED <<coins, rows, tally, allotted, transfers>> /\ call[w].pc = "bond"
        /\ \A a \in Accounts : bonded'[a] = IF a = call[w].who THEN call[w].power ELSE bonded[a]
    BY <1>0, <1>e DEF InsertValidator, Answer, RegistryInv, RegistryTypeOK
  <2>2. VotesAreNamed' /\ ClaimsAreGranted'
    BY <2>1, NoCallHoldsNothing DEF PowerInv, VotesAreNamed, ClaimsAreGranted, IsVote
  <2>3. TallyIsSum'
    BY <2>1 DEF PowerInv, TallyIsSum, VotesOn, Votes, Powers
  <2>4. transfers' = 0 => NothingMoved'
    BY <2>1, NoCallHoldsNothing DEF PowerInv, NothingMoved, IsVote
  <2> QED BY <1>0, <2>2, <2>3, <2>4 DEF PowerInv
<1>f. ASSUME NEW S \in SUBSET Accounts, NEW n \in Amounts, GenerateWallets(S, n)
      PROVE  PowerInv'
  <2>1. /\ UNCHANGED <<coins, rows, tally, bonded, call, transfers>>
        /\ \A a \in Accounts : allotted[a] > 0 => allotted'[a] = allotted[a]
    BY <1>0, <1>f DEF GenerateWallets, RegistryInv, RegistryTypeOK
  <2>2. /\ \A r \in rows : r.key[3] \in Accounts
        /\ \A w \in Clerks : call[w].pc = "checked" => call[w].key[3] \in Accounts
    BY <1>0 DEF RegistryInv, RegistryTypeOK, Row, Key, Call, NoCall
  <2>3. ClaimsAreGranted'
    BY <2>1, <2>2 DEF PowerInv, ClaimsAreGranted
  <2>4. VotesAreNamed' /\ TallyIsSum' /\ (transfers' = 0 => NothingMoved')
    BY <2>1 DEF PowerInv, VotesAreNamed, TallyIsSum, VotesOn, Votes, Powers, NothingMoved, IsVote
  <2> QED BY <1>0, <2>3, <2>4 DEF PowerInv
<1>g. ASSUME NEW a \in Accounts, NEW b \in Accounts, Transfer(a, b) PROVE PowerInv'
  <2>1. UNCHANGED <<rows, tally, allotted, bonded, call>> /\ transfers' # 0
    BY <1>0, <1>g DEF Transfer, Tabled, RegistryInv, RegistryTypeOK
  <2>2. VotesAreNamed' /\ TallyIsSum' /\ ClaimsAreGranted'
    BY <2>1 DEF PowerInv, VotesAreNamed, TallyIsSum, VotesOn, Votes, Powers, ClaimsAreGranted, IsVote
  <2> QED BY <1>0, <2>1, <2>2 DEF PowerInv
<1>h. CASE UNCHANGED rvars
  <2>1. VotesAreNamed' /\ TallyIsSum' /\ ClaimsAreGranted' /\ (transfers' = 0 => NothingMoved')
    BY <1>h DEF rvars, PowerInv, VotesAreNamed, TallyIsSum, VotesOn, Votes, Powers,
                ClaimsAreGranted, NothingMoved, IsVote
  <2> QED BY <1>0, <2>1 DEF PowerInv
<1> QED
  BY <1>1, <1>2, <1>4, <1>5, <1>6, <1>7, <1>8, <1>9, <1>b, <1>c, <1>d, <1>e, <1>f, <1>g, <1>h
     DEF RegistryNext

(* However requests and payments interleave, a tally is the sum of its rows, *)
(* what was claimed is what is granted, and only moved coins or a doubled    *)
(* vote make more power than there are coins (api.py:971, validator.py:68).  *)
THEOREM PowerAddsUp == RegistrySpec => []PowerIsAccounted
BY PowerInitInv, PowerStep, PowerImplied, PTL DEF RegistrySpec

-----------------------------------------------------------------------------
(* What /supply answers                                                      *)

(* The largest reward is at least any that is computed. *)
LEMMA BestIsLargest ==
  ASSUME NEW h \in Nat
  PROVE  /\ Best[h] \in Nat
         /\ staked \in Stakes => BlockReward(h) \in Nat /\ BlockReward(h) <= Best[h]
<1>1. PICK top \in Stakes : \A o \in Stakes : o <= top
  BY RewardsAssumption
<1>2. \E x \in Stakes \cup {1} : \A y \in Stakes \cup {1} : x >= y
  <2>1. Stakes \subseteq Nat
    BY RewardsAssumption
  <2>2. CASE top >= 1
    BY <1>1, <2>1, <2>2
  <2>3. CASE ~ (top >= 1)
    BY <1>1, <2>1, <2>3
  <2> QED BY <2>2, <2>3
<1>3. Max(Stakes \cup {1}) \in Nat /\ \A y \in Stakes \cup {1} : y <= Max(Stakes \cup {1})
  <2>1. Stakes \cup {1} \subseteq Nat
    BY RewardsAssumption
  <2> QED BY <1>2, <2>1 DEF Max
<1>4. ASSUME staked \in Stakes
      PROVE  Max({1, staked}) \in Nat /\ Max({1, staked}) <= Max(Stakes \cup {1})
  <2>1. staked \in Nat
    BY <1>4, RewardsAssumption
  <2>2. \E x \in {1, staked} : \A y \in {1, staked} : x >= y
    BY <2>1
  <2>3. Max({1, staked}) \in {1, staked}
    BY <2>2 DEF Max
  <2> QED BY <1>3, <1>4, <2>1, <2>3
<1>5. Best[h] = IF h < FirstYear THEN FirstReward ELSE Max(Stakes \cup {1})
  BY DEF Best
<1> QED BY <1>3, <1>4, <1>5, RewardsAssumption DEF BlockReward

(* What some of the heights up to n are credited, each with no more than the *)
(* largest reward, is no more than n blocks can earn.                        *)
LEMMA CreditsAreEarned ==
  ASSUME NEW n \in Nat, NEW D \in SUBSET (1 .. n), NEW f,
         \A h \in D : f[h] \in Nat /\ f[h] <= Best[h]
  PROVE  /\ SumFunctionOnSet(f, D) \in Nat /\ Worth(n) \in Nat
         /\ SumFunctionOnSet(f, D) <= Worth(n)
<1>1. IsFiniteSet(1 .. n) /\ IsFiniteSet(D)
  <2>1. IsFiniteSet(1 .. n)
    BY FS_Interval
  <2> QED BY <2>1, FS_Subset
<1>2. \A h \in 1 .. n : Best[h] \in Nat
  BY BestIsLargest
<1> DEFINE id == [h \in D |-> h]
<1>3. /\ \A h \in D : id[h] \in 1 .. n /\ f[h] <= Best[id[h]]
      /\ \A g, h \in D : id[g] = id[h] => g = h
  OBVIOUS
<1> HIDE DEF id
<1>4. SumFunctionOnSet(f, D) <= SumFunctionOnSet(Best, 1 .. n)
  BY <1>1, <1>2, <1>3, SumInjects
<1>5. SumFunctionOnSet(f, D) \in Nat /\ SumFunctionOnSet(Best, 1 .. n) \in Nat
  BY <1>1, <1>2, SumNonNegative
<1> QED BY <1>4, <1>5 DEF Worth

LEMMA WorthGrows ==
  ASSUME NEW n \in Nat, NEW k \in Nat, k <= n
  PROVE  Worth(k) \in Nat /\ Worth(n) \in Nat /\ Worth(k) <= Worth(n)
<1>1. 1 .. k \in SUBSET (1 .. n)
  OBVIOUS
<1>2. \A h \in 1 .. k : Best[h] \in Nat /\ Best[h] <= Best[h]
  BY BestIsLargest
<1> QED BY <1>1, <1>2, CreditsAreEarned DEF Worth

(* No row of the register is above the largest reward, and neither the sum   *)
(* that /supply holds nor the one it gave is above what the blocks, and the  *)
(* one after them, can earn.                                                 *)
CreditsAreBounded == \A h \in DOMAIN credits : credits[h] \in Nat /\ credits[h] <= Best[h]
AskedIsEarned ==
    supply # Unasked => supply \in Nat /\ supply <= Worth(Cardinality(HasBlock) + 1)
ReportIsEarned == ~reported.raised => reported.rewards <= Worth(reported.height)

EarnedInv ==
    /\ RewardsInv /\ staked \in Stakes
    /\ ~failed => CreditsAreBounded /\ AskedIsEarned /\ ReportIsEarned

LEMMA NothingIsEarned == NoReport.rewards <= Worth(NoReport.height)
<1>1. NoReport.rewards = 0 /\ NoReport.height = 0
  BY DEF NoReport
<1>2. Worth(0) \in Nat
  BY WorthGrows
<1> QED BY <1>1, <1>2

LEMMA BlocksAreCounted == IsFiniteSet(HasBlock) /\ Cardinality(HasBlock) \in Nat
<1>1. IsFiniteSet(BlockHeights)
  BY FS_Interval, RewardsAssumption DEF BlockHeights
<1> QED BY <1>1, FS_Subset, FS_CardinalityType DEF HasBlock

\* The sum being asked for stays earned while blocks are added.
LEMMA AskedStays ==
  ASSUME AskedIsEarned, supply' = supply, HasBlock \subseteq HasBlock', IsFiniteSet(HasBlock')
  PROVE  AskedIsEarned'
<1>1. PICK k, n : k = Cardinality(HasBlock) /\ n = Cardinality(HasBlock')
  OBVIOUS
<1>2. k \in Nat /\ n \in Nat /\ k <= n
  BY <1>1, FS_Subset, FS_CardinalityType
<1>3. Worth(k + 1) \in Nat /\ Worth(n + 1) \in Nat /\ Worth(k + 1) <= Worth(n + 1)
  BY <1>2, WorthGrows
<1>4. ASSUME supply # Unasked PROVE supply \in Nat /\ supply <= Worth(n + 1)
  BY <1>1, <1>3, <1>4 DEF AskedIsEarned
<1> QED BY <1>1, <1>4 DEF AskedIsEarned

LEMMA EarnedInitInv == RewardsInit => EarnedInv
<1> SUFFICES ASSUME RewardsInit PROVE EarnedInv
  OBVIOUS
<1>1. DOMAIN credits = {} /\ staked = 0 /\ supply = Unasked /\ reported = NoReport
  BY DEF RewardsInit
<1>2. CreditsAreBounded /\ AskedIsEarned
  BY <1>1 DEF CreditsAreBounded, AskedIsEarned
<1>3. ReportIsEarned
  BY <1>1, NothingIsEarned DEF ReportIsEarned
<1> QED BY <1>1, <1>2, <1>3, RewardsInitInv, RewardsAssumption DEF EarnedInv

LEMMA EarnedStepInv == EarnedInv /\ [RewardsNext]_rwvars => EarnedInv'
<1> SUFFICES ASSUME EarnedInv, [RewardsNext]_rwvars PROVE EarnedInv'
  OBVIOUS
<1>0. RewardsInv /\ RewardsInv' /\ staked \in Stakes /\ staked' \in Stakes
  <2>1. staked' \in Stakes
    BY DEF EarnedInv, RewardsNext, Restake, OpenChain, RecordReward, StorePaidBlock,
           SumRewards, GetHeight, tables, rwvars
  <2> QED BY <2>1, RewardsStepInv DEF EarnedInv
<1>1. ~failed' => ~failed
  BY DEF RewardsNext, Restake, OpenChain, RecordReward, StorePaidBlock, SumRewards, GetHeight,
         tables, rwvars
<1>2. SUFFICES ASSUME ~failed' PROVE CreditsAreBounded' /\ AskedIsEarned' /\ ReportIsEarned'
  BY <1>0 DEF EarnedInv
<1>3. CreditsAreBounded /\ AskedIsEarned /\ ReportIsEarned
  BY <1>1, <1>2 DEF EarnedInv
<1>4. ASSUME UNCHANGED credits PROVE CreditsAreBounded'
  BY <1>3, <1>4 DEF CreditsAreBounded
<1>5. ASSUME Silent PROVE ReportIsEarned' /\ supply' = supply
  BY <1>5, NothingIsEarned DEF Silent, ReportIsEarned
<1>6. ASSUME UNCHANGED <<pays, supply>> PROVE AskedIsEarned'
  <2>1. HasBlock' = HasBlock
    BY <1>6 DEF HasBlock
  <2> QED BY <1>3, <1>6, <2>1 DEF AskedIsEarned
<1>7. CASE \E n \in Stakes : Restake(n)
  BY <1>4, <1>5, <1>6, <1>7 DEF Restake
<1>8. ASSUME NEW m \in Miners, OpenChain(m)
      PROVE  CreditsAreBounded' /\ AskedIsEarned' /\ ReportIsEarned'
  BY <1>4, <1>5, <1>6, <1>8 DEF OpenChain, tables
<1>9. ASSUME NEW m \in Miners, RecordReward(m)
      PROVE  CreditsAreBounded' /\ AskedIsEarned' /\ ReportIsEarned'
  <2> PICK h : h = miner[m].length
    OBVIOUS
  <2>1. h \in Nat
    BY <1>0 DEF RewardsInv, RewardsShape
  <2> PICK r : r = BlockReward(h)
    OBVIOUS
  <2>2. r \in Nat /\ r <= Best[h]
    BY <1>0, <2>1, BestIsLargest
  <2>3. credits' = [g \in DOMAIN credits \cup {h} |->
                      IF g \in DOMAIN credits THEN credits[g] ELSE r]
    BY <1>2, <1>9 DEF RecordReward
  <2>4. CreditsAreBounded'
    BY <1>3, <2>2, <2>3 DEF CreditsAreBounded
  <2>5. Silent /\ pays' = pays
    BY <1>9 DEF RecordReward
  <2> QED BY <1>5, <1>6, <2>4, <2>5
<1>a. ASSUME NEW m \in Miners, StorePaidBlock(m)
      PROVE  CreditsAreBounded' /\ AskedIsEarned' /\ ReportIsEarned'
  <2> PICK h, r : h = miner[m].length /\ r = miner[m].reward
    OBVIOUS
  <2>1. Silent /\ credits' = credits /\ pays' = [pays EXCEPT ![h] = r]
    BY <1>2, <1>a DEF StorePaidBlock
  <2>2. r # 0
    BY <1>0, <1>1, <1>2, <1>a DEF RewardsInv, RegisterReaches, StorePaidBlock
  <2>3. HasBlock \subseteq HasBlock'
    BY <1>0, <2>1, <2>2 DEF HasBlock, RewardsInv, RewardsShape
  <2>4. IsFiniteSet(HasBlock')
    <3>1. IsFiniteSet(BlockHeights) /\ HasBlock' \in SUBSET BlockHeights
      BY FS_Interval, RewardsAssumption DEF BlockHeights, HasBlock
    <3> QED BY <3>1, FS_Subset
  <2>5. AskedIsEarned'
    BY <1>3, <1>5, <2>1, <2>3, <2>4, AskedStays
  <2> QED BY <1>4, <1>5, <2>1, <2>5
<1>b. CASE SumRewards
  <2>1. /\ supply' = SumFunctionOnSet(credits, DOMAIN credits) /\ reported' = NoReport
        /\ UNCHANGED <<pays, credits>>
    BY <1>b DEF SumRewards, tables
  <2>2. PICK k \in Nat : RegisterReaches(k)
    BY <1>0, <1>1, <1>2 DEF RewardsInv
  <2>3. Cardinality(HasBlock) = k
    <3>1. HasBlock = 1 .. k
      BY <2>2 DEF RegisterReaches
    <3> QED BY <3>1, FS_Interval
  <2>4. DOMAIN credits \in SUBSET (1 .. k + 1)
    BY <2>2 DEF RegisterReaches
  <2>5. /\ SumFunctionOnSet(credits, DOMAIN credits) \in Nat
        /\ SumFunctionOnSet(credits, DOMAIN credits) <= Worth(k + 1)
    <3>1. PICK f : f = credits
      OBVIOUS
    <3>2. \A h \in DOMAIN f : f[h] \in Nat /\ f[h] <= Best[h]
      BY <1>3, <3>1 DEF CreditsAreBounded
    <3>3. k + 1 \in Nat /\ DOMAIN f \in SUBSET (1 .. k + 1)
      BY <2>4, <3>1
    <3> QED BY <3>1, <3>2, <3>3, CreditsAreEarned
  <2>6. HasBlock' = HasBlock
    BY <2>1 DEF HasBlock
  <2>7. AskedIsEarned'
    BY <2>1, <2>3, <2>5, <2>6 DEF AskedIsEarned
  <2>8. ReportIsEarned'
    BY <2>1, NothingIsEarned DEF ReportIsEarned
  <2> QED BY <1>4, <2>1, <2>7, <2>8
<1>c. CASE GetHeight
  <2>1. supply # Unasked /\ supply' = Unasked /\ credits' = credits
    BY <1>c DEF GetHeight, tables
  <2>2. AskedIsEarned'
    BY <2>1 DEF AskedIsEarned
  <2>3. ReportIsEarned'
    <3>1. CASE reported' = [rewards |-> supply, height |-> Cardinality(HasBlock) + 1,
                            raised |-> FALSE]
      BY <1>3, <2>1, <3>1 DEF ReportIsEarned, AskedIsEarned
    <3>2. CASE reported' = [rewards |-> supply, height |-> LastHeight, raised |-> TRUE]
      BY <3>2 DEF ReportIsEarned
    <3> QED BY <1>c, <3>1, <3>2 DEF GetHeight
  <2> QED BY <1>4, <2>1, <2>2, <2>3
<1>d. CASE UNCHANGED rwvars
  <2>1. UNCHANGED <<pays, credits, supply, reported>>
    BY <1>d DEF rwvars, tables
  <2> QED BY <1>3, <1>4, <1>6, <2>1 DEF ReportIsEarned
<1> QED
  BY <1>7, <1>8, <1>9, <1>a, <1>b, <1>c, <1>d DEF RewardsNext

(* The register is right of every block, and the coins /supply counts as     *)
(* mined are no more than the chain of the height it names can have earned   *)
(* (block.py:330, api.py:119), unless an INSERT failed.                      *)
THEOREM SupplyAnswersAreEarned == RewardsSpec => []RewardsAreRecorded
<1>1. EarnedInv => SupplyIsEarned
  BY DEF EarnedInv, ReportIsEarned, SupplyIsEarned
<1>2. RewardsSpec => []SupplyIsEarned
  BY <1>1, EarnedInitInv, EarnedStepInv, PTL DEF RewardsSpec
<1> QED
  BY <1>2, CreditsFollowBlocks, PTL DEF RewardsAreRecorded

-----------------------------------------------------------------------------
(***************************************************************************)
(* The cache of outputs                                                    *)
(***************************************************************************)

Memory(p) == Range(mem[p])

CacheTypes ==
    /\ mem \in [Procs -> Seq(Entries)]
    /\ sqlite \in [Outpoints -> Versions \cup {Absent}]
    /\ step \in [Procs -> [op : {"idle", "write", "erase", "promote"},
                           out : Outpoints \cup {Absent},
                           content : Versions \cup {Absent}]]

(* An entry is the row, or its process has been overtaken, or is on its way. *)
HasACause(p, e) ==
    \/ e.content = sqlite[e.out]
    \/ <<p, e.out>> \in foreign \cup unwritten
    \/ step[p].op = "write" /\ step[p].out = e.out

(* What a process holds in the middle of a call.                             *)
HalfWay(p) ==
    /\ step[p].op # "idle" => step[p].out \in Outpoints
    /\ step[p].op = "promote" => step[p].content \in Versions
    /\ step[p].op = "write" =>
          \A e \in Memory(p) : e.out = step[p].out => e.content = step[p].content
    /\ step[p].op = "erase" => \A e \in Memory(p) : e.out # step[p].out
    /\ step[p].op = "promote" =>
          \/ step[p].content = sqlite[step[p].out]
          \/ <<p, step[p].out>> \in foreign \cup unwritten

CacheInv ==
    /\ CacheTypes
    /\ \A p \in Procs : HalfWay(p) /\ \A e \in Memory(p) : HasACause(p, e)

\* The memory after an entry was dropped, and after one was added.
LEMMA WithoutOutput ==
  ASSUME mem \in [Procs -> Seq(Entries)], NEW p \in Procs, NEW o \in Outpoints
  PROVE  /\ Without(p, o) \in Seq(Entries)
         /\ Range(Without(p, o)) = Memory(p) \cap Others(o)
<1>1. PICK s \in Seq(Entries) : s = mem[p]
  OBVIOUS
<1>2. PICK r \in Seq(Entries \cap Others(o)) : r = Selected(s, Others(o))
  BY SelectedType
<1>3. Range(r) = Range(s) \cap Others(o)
  BY <1>2, SelectedRange
<1>4. r \in Seq(Entries)
  BY <1>2
<1> QED BY <1>1, <1>2, <1>3, <1>4 DEF Without, Memory

LEMMA RememberedEntry ==
  ASSUME mem \in [Procs -> Seq(Entries)], NEW p \in Procs, NEW o \in Outpoints, NEW v \in Versions
  PROVE  /\ Remembered(p, o, v) \in Seq(Entries)
         /\ Range(Remembered(p, o, v))
               \subseteq (Memory(p) \cap Others(o)) \cup {[out |-> o, content |-> v]}
<1>1. PICK s \in Seq(Entries) : s = mem[p]
  OBVIOUS
<1>2. PICK kept : kept = IF Len(s) >= MaxMemory THEN Tail(s) ELSE s
  OBVIOUS
<1>3. kept \in Seq(Entries) /\ Range(kept) \subseteq Range(s)
  <2>1. MaxMemory \in Nat \ {0}
    BY CacheAssumption
  <2>2. CASE Len(s) >= MaxMemory
    <3>1. s # << >> /\ kept = Tail(s)
      BY <1>2, <2>1, <2>2
    <3>2. kept \in Seq(Entries) /\ Len(kept) = Len(s) - 1
      BY <3>1
    <3>3. ASSUME NEW k \in 1 .. Len(kept) PROVE kept[k] \in Range(s)
      <4>1. k \in 1 .. Len(s) - 1 /\ k + 1 \in DOMAIN s
        BY <3>1, <3>2
      <4>2. kept[k] = s[k + 1]
        BY <3>1, <4>1
      <4> QED BY <4>1, <4>2 DEF Range
    <3>4. PICK R : R = Range(s)
      OBVIOUS
    <3>5. DOMAIN kept = 1 .. Len(kept) /\ \A k \in 1 .. Len(kept) : kept[k] \in R
      BY <3>2, <3>3, <3>4
    <3>6. Range(kept) \subseteq R
      BY ONLY <3>5 DEF Range
    <3> QED BY <3>2, <3>4, <3>6
  <2>3. CASE ~(Len(s) >= MaxMemory)
    BY <1>2, <2>3
  <2> QED BY <2>2, <2>3
<1>4. PICK r \in Seq(Entries \cap Others(o)) : r = Selected(kept, Others(o))
  BY <1>3, SelectedType
<1>5. Range(r) = Range(kept) \cap Others(o) /\ r \in Seq(Entries)
  BY <1>3, <1>4, SelectedRange
<1>6. PICK e \in Entries : e = [out |-> o, content |-> v]
  BY DEF Entries
<1>7. Append(r, e) \in Seq(Entries) /\ Range(Append(r, e)) = Range(r) \cup {e}
  BY <1>5, AppendRange
<1>8. Remembered(p, o, v) = Append(r, e)
  BY <1>1, <1>2, <1>4, <1>6 DEF Remembered
<1> QED BY <1>1, <1>3, <1>5, <1>6, <1>7, <1>8 DEF Memory

\* A process whose memory alone changes keeps the others as they are.
LEMMA OneMemory ==
  ASSUME CacheInv, NEW p \in Procs, NEW s \in Seq(Entries),
         mem' = [mem EXCEPT ![p] = s], CacheTypes', UNCHANGED sqlite,
         \A q \in Procs \ {p} : step'[q] = step[q],
         \A q \in Procs \ {p}, o \in Outpoints :
             <<q, o>> \in foreign \cup unwritten => <<q, o>> \in foreign' \cup unwritten',
         HalfWay(p)', \A e \in Range(s) : HasACause(p, e)'
  PROVE  CacheInv'
<1>1. mem \in [Procs -> Seq(Entries)] /\ mem'[p] = s
  BY DEF CacheInv, CacheTypes
<1>2. ASSUME NEW q \in Procs PROVE HalfWay(q)' /\ \A e \in Memory(q)' : HasACause(q, e)'
  <2>1. CASE q = p
    BY <1>1, <2>1 DEF Memory
  <2>2. CASE q # p
    <3>1. mem'[q] = mem[q] /\ step'[q] = step[q]
      BY <1>1, <2>2
    <3>2. Memory(q)' = Memory(q)
      BY <3>1 DEF Memory
    <3>3. HalfWay(q) /\ \A e \in Memory(q) : HasACause(q, e)
      BY DEF CacheInv
    <3>4. HalfWay(q)'
      BY <2>2, <3>1, <3>2, <3>3 DEF HalfWay
    <3>5. ASSUME NEW e \in Memory(q) PROVE HasACause(q, e)'
      <4>1. e \in Entries
        <5>1. PICK w \in Seq(Entries) : w = mem[q]
          BY <1>1
        <5>2. Range(w) \subseteq Entries
          BY ElementsOf
        <5> QED BY <5>1, <5>2 DEF Memory
      <4>2. e.out \in Outpoints
        BY <4>1 DEF Entries
      <4> QED BY <2>2, <3>1, <3>3, <4>2 DEF HasACause
    <3> QED BY <3>2, <3>4, <3>5
  <2> QED BY <2>1, <2>2
<1> QED BY <1>2 DEF CacheInv

LEMMA CacheInitInv == CacheInit => CacheInv
<1> SUFFICES ASSUME CacheInit PROVE CacheInv
  OBVIOUS
<1>1. /\ mem = [p \in Procs |-> << >>] /\ sqlite = [o \in Outpoints |-> Absent]
      /\ step = [p \in Procs |-> AtRest]
  BY DEF CacheInit
<1>2. CacheTypes
  BY <1>1 DEF CacheTypes, AtRest
<1>3. ASSUME NEW p \in Procs PROVE Memory(p) = {} /\ step[p].op = "idle"
  BY <1>1 DEF Memory, Range, AtRest
<1> QED BY <1>2, <1>3 DEF CacheInv, HalfWay

LEMMA CacheStep == CacheInv /\ [CacheNext]_cvars => CacheInv'
<1> SUFFICES ASSUME CacheInv, [CacheNext]_cvars PROVE CacheInv'
  OBVIOUS
<1>0. /\ mem \in [Procs -> Seq(Entries)] /\ sqlite \in [Outpoints -> Versions \cup {Absent}]
      /\ step \in [Procs -> [op : {"idle", "write", "erase", "promote"},
                             out : Outpoints \cup {Absent}, content : Versions \cup {Absent}]]
      /\ \A p \in Procs : HalfWay(p) /\ \A e \in Memory(p) : HasACause(p, e)
  BY DEF CacheInv, CacheTypes
<1>a. ASSUME NEW p \in Procs, NEW e \in Memory(p) PROVE e.out \in Outpoints /\ e.content \in Versions
  <2>1. PICK w \in Seq(Entries) : w = mem[p]
    BY <1>0
  <2>2. Range(w) \subseteq Entries
    BY ElementsOf
  <2> QED BY <2>1, <2>2 DEF Memory, Entries
<1>b. ASSUME NEW p \in Procs, NEW op \in {"idle", "write", "erase", "promote"},
             NEW o \in Outpoints \cup {Absent}, NEW v \in Versions \cup {Absent},
             step' = [step EXCEPT ![p] = [op |-> op, out |-> o, content |-> v]]
      PROVE  /\ step'[p].op = op /\ step'[p].out = o /\ step'[p].content = v
             /\ \A q \in Procs \ {p} : step'[q] = step[q]
             /\ step' \in [Procs -> [op : {"idle", "write", "erase", "promote"},
                                     out : Outpoints \cup {Absent}, content : Versions \cup {Absent}]]
  <2>1. [op |-> op, out |-> o, content |-> v] \in [op : {"idle", "write", "erase", "promote"},
             out : Outpoints \cup {Absent}, content : Versions \cup {Absent}]
    OBVIOUS
  <2> QED BY <1>0, <1>b, <2>1
<1>c. ASSUME NEW p \in Procs, NEW s \in Seq(Entries), mem' = [mem EXCEPT ![p] = s]
      PROVE  mem' \in [Procs -> Seq(Entries)] /\ Memory(p)' = Range(s)
             /\ \A q \in Procs \ {p} : mem'[q] = mem[q]
  BY <1>0, <1>c DEF Memory
<1>1. ASSUME NEW p \in Procs, NEW o \in Outpoints, NEW v \in Versions, SetOutput(p, o, v)
      PROVE  CacheInv'
  <2>1. PICK s \in Seq(Entries) : /\ s = Remembered(p, o, v)
            /\ Range(s) \subseteq (Memory(p) \cap Others(o)) \cup {[out |-> o, content |-> v]}
    BY <1>0, RememberedEntry
  <2>2. /\ mem' = [mem EXCEPT ![p] = s] /\ UNCHANGED <<sqlite, foreign, unwritten>>
        /\ step[p].op = "idle"
        /\ step' = [step EXCEPT ![p] = [op |-> "write", out |-> o, content |-> v]]
    BY <1>1, <2>1 DEF SetOutput, Enter2, Free
  <2>3. /\ step'[p].op = "write" /\ step'[p].out = o /\ step'[p].content = v
        /\ \A q \in Procs \ {p} : step'[q] = step[q]
        /\ CacheTypes'
    BY <1>0, <1>b, <1>c, <2>2 DEF CacheTypes
  <2>4. ASSUME NEW e \in Range(s)
        PROVE  HasACause(p, e)' /\ (e.out = o => e.content = v)
    <3>1. CASE e = [out |-> o, content |-> v]
      BY <2>3, <3>1 DEF HasACause
    <3>2. CASE e \in Memory(p) /\ e \in Others(o)
      <4>1. HasACause(p, e) /\ e.out # o
        BY <1>0, <3>2 DEF Others
      <4> QED BY <2>2, <4>1 DEF HasACause
    <3> QED BY <2>1, <3>1, <3>2
  <2>5. HalfWay(p)'
    BY <1>c, <2>2, <2>3, <2>4 DEF HalfWay
  <2> QED BY <2>2, <2>3, <2>4, <2>5, OneMemory
<1>2. ASSUME NEW p \in Procs, NEW o \in Outpoints, Invalidate(p, o) PROVE CacheInv'
  <2>1. PICK s \in Seq(Entries) : s = Without(p, o) /\ Range(s) = Memory(p) \cap Others(o)
    BY <1>0, WithoutOutput
  <2>2. /\ mem' = [mem EXCEPT ![p] = s] /\ UNCHANGED <<sqlite, foreign, unwritten>>
        /\ step[p].op = "idle"
        /\ step' = [step EXCEPT ![p] = [op |-> "erase", out |-> o, content |-> Absent]]
    BY <1>2, <2>1 DEF Invalidate, Enter2, Free
  <2>3. /\ step'[p].op = "erase" /\ step'[p].out = o
        /\ \A q \in Procs \ {p} : step'[q] = step[q]
        /\ CacheTypes'
    BY <1>0, <1>b, <1>c, <2>2 DEF CacheTypes
  <2>4. ASSUME NEW e \in Range(s) PROVE HasACause(p, e)' /\ e.out # o
    <3>1. HasACause(p, e) /\ e.out # o
      BY <1>0, <2>1 DEF Others
    <3> QED BY <2>2, <3>1 DEF HasACause
  <2>5. HalfWay(p)'
    BY <1>c, <2>2, <2>3, <2>4 DEF HalfWay
  <2> QED BY <2>2, <2>3, <2>4, <2>5, OneMemory
<1>3. ASSUME NEW p \in Procs, NEW o \in Outpoints, Hit(p, o) PROVE CacheInv'
  <2>1. PICK e \in Memory(p) : e = mem[p][Content(p, o)] /\ e.out = o
    <3>1. \E k \in 1 .. Len(mem[p]) : mem[p][k].out = o
      BY <1>3 DEF Hit, Cached
    <3>2. Content(p, o) \in 1 .. Len(mem[p]) /\ mem[p][Content(p, o)].out = o
      BY <3>1 DEF Content
    <3>3. mem[p] \in Seq(Entries)
      BY <1>0
    <3>4. mem[p][Content(p, o)] \in Memory(p)
      BY <3>2, <3>3 DEF Memory, Range
    <3> QED BY <3>2, <3>4
  <2>2. PICK r \in Seq(Entries) : r = Without(p, o) /\ Range(r) = Memory(p) \cap Others(o)
    BY <1>0, WithoutOutput
  <2>a. e \in Entries
    <3>1. PICK w \in Seq(Entries) : w = mem[p]
      BY <1>0
    <3>2. Range(w) \subseteq Entries
      BY ElementsOf
    <3> QED BY <3>1, <3>2 DEF Memory
  <2>b. Append(r, e) \in Seq(Entries) /\ Range(Append(r, e)) = Range(r) \cup {e}
    BY <2>a, AppendRange
  <2>3. PICK s \in Seq(Entries) : s = Append(r, e) /\ Range(s) = Range(r) \cup {e}
    BY <2>b
  <2>4. Range(s) \subseteq Memory(p)
    <3>1. e \in Memory(p) /\ Range(r) \subseteq Memory(p) /\ Range(s) = Range(r) \cup {e}
      BY <2>1, <2>2, <2>3, Zenon
    <3> QED BY <3>1, Zenon
  <2>5. /\ mem' = [mem EXCEPT ![p] = s] /\ UNCHANGED <<sqlite, step, foreign, unwritten>>
        /\ step[p].op = "idle"
    BY <1>3, <2>1, <2>2, <2>3 DEF Hit, Free
  <2>6. CacheTypes'
    BY <1>0, <1>c, <2>5 DEF CacheTypes
  <2>7. ASSUME NEW f \in Range(s) PROVE HasACause(p, f)'
    <3>1. HasACause(p, f)
      BY <1>0, <2>4
    <3> QED BY <2>5, <3>1 DEF HasACause
  <2>8. HalfWay(p)'
    BY <2>5 DEF HalfWay
  <2> QED BY <2>5, <2>6, <2>7, <2>8, OneMemory
<1>4. ASSUME NEW p \in Procs, NEW o \in Outpoints, ReadCacheRow(p, o) PROVE CacheInv'
  <2>1. /\ step[p].op = "idle" /\ sqlite[o] # Absent /\ ~Cached(p, o) /\ UNCHANGED <<mem, sqlite>>
        /\ foreign' = foreign \ {<<p, o>>} /\ unwritten' = unwritten \ {<<p, o>>}
        /\ step' = [step EXCEPT ![p] = [op |-> "promote", out |-> o, content |-> sqlite[o]]]
    BY <1>4 DEF ReadCacheRow, Enter2, Free
  <2>2. sqlite[o] \in Versions
    BY <1>0, <2>1
  <2>3. /\ step'[p].op = "promote" /\ step'[p].out = o /\ step'[p].content = sqlite[o]
        /\ \A q \in Procs \ {p} : step'[q] = step[q]
        /\ CacheTypes'
    BY <1>0, <1>b, <2>1, <2>2 DEF CacheTypes
  <2>4. PICK s \in Seq(Entries) : s = mem[p]
    BY <1>0
  <2>5. mem' = [mem EXCEPT ![p] = s]
    BY <1>0, <2>1, <2>4
  <2>6. ASSUME NEW e \in Range(s) PROVE HasACause(p, e)'
    <3>1. e \in Memory(p)
      BY <2>4 DEF Memory
    <3>2. e.out # o
      <4>1. PICK k \in 1 .. Len(s) : e = s[k]
        BY <2>4 DEF Range
      <4>2. ~(\E j \in 1 .. Len(s) : s[j].out = o)
        BY <2>1, <2>4 DEF Cached
      <4> QED BY <4>1, <4>2
    <3>3. HasACause(p, e)
      BY <1>0, <3>1
    <3> QED BY <2>1, <3>2, <3>3 DEF HasACause
  <2>7. HalfWay(p)'
    BY <2>1, <2>2, <2>3 DEF HalfWay
  <2>8. \A q \in Procs \ {p}, x \in Outpoints :
            <<q, x>> \in foreign \cup unwritten => <<q, x>> \in foreign' \cup unwritten'
    <3> SUFFICES ASSUME NEW q \in Procs \ {p}, NEW x \in Outpoints
                 PROVE  <<q, x>> \in foreign \cup unwritten => <<q, x>> \in foreign' \cup unwritten'
      OBVIOUS
    <3>1. <<q, x>> # <<p, o>>
      OBVIOUS
    <3> QED BY <2>1, <3>1
  <2> QED BY <2>1, <2>3, <2>5, <2>6, <2>7, <2>8, OneMemory
<1>5. ASSUME NEW p \in Procs, CommitRow(p) PROVE CacheInv'
  <2> DEFINE o == step[p].out
             v == step[p].content
  <2>1. /\ step[p].op \in {"write", "erase"} /\ sqlite' = [sqlite EXCEPT ![o] = v]
        /\ foreign' = (foreign \cup (Procs \X {o})) \ {<<p, o>>}
        /\ unwritten' = unwritten \ {<<p, o>>} /\ UNCHANGED mem
        /\ step' = [step EXCEPT ![p] = [op |-> "idle", out |-> Absent, content |-> Absent]]
    BY <1>5 DEF CommitRow, Leave, AtRest
  <2>2. /\ o \in Outpoints /\ v \in Versions \cup {Absent}
        /\ (step[p].op = "write" => \A e \in Memory(p) : e.out = o => e.content = v)
        /\ (step[p].op = "erase" => \A e \in Memory(p) : e.out # o)
    BY <1>0, <2>1 DEF HalfWay
  <2>3. /\ step'[p].op = "idle" /\ \A q \in Procs \ {p} : step'[q] = step[q]
        /\ CacheTypes'
    BY <1>0, <1>b, <2>1, <2>2 DEF CacheTypes
  <2>4. sqlite'[o] = v /\ \A x \in Outpoints \ {o} : sqlite'[x] = sqlite[x]
    BY <1>0, <2>1, <2>2
  <2> HIDE DEF o, v
  <2>5. ASSUME NEW q \in Procs, NEW x \in Outpoints, x # o
        PROVE  <<q, x>> \in foreign \cup unwritten => <<q, x>> \in foreign' \cup unwritten'
    BY <2>1, <2>5
  <2>6. \A q \in Procs \ {p} : <<q, o>> \in foreign'
    BY <2>1
  <2>7. ASSUME NEW q \in Procs PROVE HalfWay(q)' /\ \A e \in Memory(q)' : HasACause(q, e)'
    <3>1. Memory(q)' = Memory(q) /\ HalfWay(q)
      BY <1>0, <2>1 DEF Memory
    <3>2. ASSUME NEW e \in Memory(q) PROVE HasACause(q, e)'
      <4>1. e.out \in Outpoints /\ HasACause(q, e)
        BY <1>0, <1>a
      <4>2. CASE e.out = o /\ q = p
        BY <2>1, <2>2, <2>4, <4>2 DEF HasACause
      <4>3. CASE e.out = o /\ q # p
        BY <2>6, <4>3 DEF HasACause
      <4>4. CASE e.out # o
        <5>1. ~(q = p /\ step[q].out = e.out)
          BY <4>4 DEF o
        <5> QED BY <2>3, <2>4, <2>5, <4>1, <4>4, <5>1 DEF HasACause
      <4> QED BY <4>2, <4>3, <4>4
    <3>3. HalfWay(q)'
      <4>1. CASE q = p
        BY <2>3, <4>1 DEF HalfWay
      <4>2. CASE q # p
        <5>1. step'[q] = step[q]
          BY <2>3, <4>2
        <5>2. CASE step[q].op = "promote"
          <6>1. step[q].out \in Outpoints
            BY <3>1, <5>2 DEF HalfWay
          <6>2. CASE step[q].out = o
            BY <2>6, <3>1, <4>2, <5>1, <5>2, <6>2 DEF HalfWay
          <6>3. CASE step[q].out # o
            BY <2>4, <2>5, <3>1, <5>1, <5>2, <6>1, <6>3 DEF HalfWay
          <6> QED BY <6>2, <6>3
        <5>3. CASE step[q].op # "promote"
          BY <3>1, <5>1, <5>3 DEF HalfWay
        <5> QED BY <5>2, <5>3
      <4> QED BY <4>1, <4>2
    <3> QED BY <3>1, <3>2, <3>3
  <2> QED BY <2>3, <2>7 DEF CacheInv
<1>6. ASSUME NEW p \in Procs, RowRaises(p) PROVE CacheInv'
  <2>1. /\ unwritten' = unwritten \cup {<<p, step[p].out>>} /\ UNCHANGED <<mem, sqlite, foreign>>
        /\ step' = [step EXCEPT ![p] = [op |-> "idle", out |-> Absent, content |-> Absent]]
    BY <1>6 DEF RowRaises, Leave, AtRest
  <2>2. /\ step'[p].op = "idle" /\ \A q \in Procs \ {p} : step'[q] = step[q]
        /\ CacheTypes'
    BY <1>0, <1>b, <2>1 DEF CacheTypes
  <2>3. PICK s \in Seq(Entries) : s = mem[p]
    BY <1>0
  <2>4. mem' = [mem EXCEPT ![p] = s]
    BY <1>0, <2>1, <2>3
  <2>5. ASSUME NEW e \in Range(s) PROVE HasACause(p, e)'
    <3>1. HasACause(p, e)
      BY <1>0, <2>3 DEF Memory
    <3> QED BY <2>1, <3>1 DEF HasACause
  <2>6. HalfWay(p)'
    BY <2>2 DEF HalfWay
  <2> QED BY <2>1, <2>2, <2>4, <2>5, <2>6, OneMemory
<1>7. ASSUME NEW p \in Procs, Promote(p) PROVE CacheInv'
  <2> DEFINE o == step[p].out
             v == step[p].content
  <2>1. /\ o \in Outpoints /\ v \in Versions
        /\ (v = sqlite[o] \/ <<p, o>> \in foreign \cup unwritten)
        /\ step[p].op = "promote"
    BY <1>0, <1>7 DEF Promote, HalfWay
  <2>2. /\ mem' = [mem EXCEPT ![p] = Remembered(p, o, v)] /\ UNCHANGED <<sqlite, foreign, unwritten>>
        /\ step' = [step EXCEPT ![p] = [op |-> "idle", out |-> Absent, content |-> Absent]]
    BY <1>7 DEF Promote, Leave, AtRest
  <2> HIDE DEF o, v
  <2>3. PICK s \in Seq(Entries) : /\ s = Remembered(p, o, v)
            /\ Range(s) \subseteq (Memory(p) \cap Others(o)) \cup {[out |-> o, content |-> v]}
    BY <1>0, <2>1, RememberedEntry
  <2>4. /\ step'[p].op = "idle" /\ \A q \in Procs \ {p} : step'[q] = step[q]
        /\ CacheTypes'
    BY <1>0, <1>b, <1>c, <2>2, <2>3 DEF CacheTypes
  <2>5. ASSUME NEW e \in Range(s) PROVE HasACause(p, e)'
    <3>1. CASE e = [out |-> o, content |-> v]
      BY <2>1, <2>2, <3>1 DEF HasACause
    <3>2. CASE e \in Memory(p) /\ e \in Others(o)
      <4>1. HasACause(p, e)
        BY <1>0, <3>2
      <4> QED BY <2>1, <2>2, <4>1 DEF HasACause
    <3> QED BY <2>3, <3>1, <3>2
  <2>6. HalfWay(p)'
    BY <2>4 DEF HalfWay
  <2> QED BY <2>2, <2>3, <2>4, <2>5, <2>6, OneMemory
<1>8. ASSUME NEW p \in Procs, Restart(p) PROVE CacheInv'
  <2>1. /\ mem' = [mem EXCEPT ![p] = << >>] /\ UNCHANGED <<sqlite, foreign, unwritten>>
        /\ step' = [step EXCEPT ![p] = [op |-> "idle", out |-> Absent, content |-> Absent]]
    BY <1>8 DEF Restart, Leave, AtRest
  <2>2. << >> \in Seq(Entries) /\ Range(<< >>) = {}
    BY DEF Range
  <2>3. /\ step'[p].op = "idle" /\ \A q \in Procs \ {p} : step'[q] = step[q]
        /\ CacheTypes'
    BY <1>0, <1>b, <1>c, <2>1, <2>2 DEF CacheTypes
  <2>4. HalfWay(p)'
    BY <2>3 DEF HalfWay
  <2> QED BY <2>1, <2>2, <2>3, <2>4, OneMemory
<1>9. CASE UNCHANGED cvars
  BY <1>9 DEF cvars, CacheInv, CacheTypes, HalfWay, HasACause, Memory
<1> QED
  BY <1>1, <1>2, <1>3, <1>4, <1>5, <1>6, <1>7, <1>8, <1>9 DEF CacheNext

(* The memory of a process answers with something else than the table only   *)
(* for an output another process changed, for one whose statement raised, or *)
(* between the two steps of its own set.                                     *)
THEOREM StaleAnswersHaveACause == CacheSpec => []StaleNeedsAnother
<1>1. CacheInv => StaleNeedsAnother
  <2> SUFFICES ASSUME CacheInv, NEW p \in Procs, NEW k \in 1 .. Len(mem[p])
               PROVE  HasACause(p, mem[p][k])
    BY DEF StaleNeedsAnother, HasACause
  <2>1. mem[p] \in Seq(Entries)
    BY DEF CacheInv, CacheTypes
  <2>2. mem[p][k] \in Memory(p)
    BY <2>1 DEF Memory, Range
  <2> QED BY <2>2 DEF CacheInv
<1> QED
  BY <1>1, CacheInitInv, CacheStep, PTL DEF CacheSpec

-----------------------------------------------------------------------------
(***************************************************************************)
(* The fee estimates                                                       *)
(***************************************************************************)

\* A bounded deque of integers stays one.
LEMMA KeptIsASeq ==
  ASSUME NEW s \in Seq(Int), NEW v \in Int, NEW max \in Nat \ {0}
  PROVE  Kept(s, v, max) \in Seq(Int)
<1>1. CASE Len(s) < max
  BY <1>1 DEF Kept
<1>2. CASE ~(Len(s) < max)
  <2>1. s # << >>
    BY <1>2
  <2>2. Tail(s) \in Seq(Int)
    BY <2>1
  <2> QED BY <1>2, <2>2 DEF Kept
<1> QED BY <1>1, <1>2

\* The fee of that rank is a fee, and a higher rank has no lower fee.
LEMMA RankedFee ==
  ASSUME mempoolFees \in Seq(Int), NEW k \in 1 .. Len(mempoolFees)
  PROVE  /\ Ranked(k) \in Range(mempoolFees) /\ Ranked(k) \in Int
         /\ Cardinality(NotAbove(Ranked(k))) >= k
         /\ \A g \in Range(mempoolFees) : Cardinality(NotAbove(g)) >= k => Ranked(k) <= g
<1> DEFINE Enough == {f \in Range(mempoolFees) : Cardinality(NotAbove(f)) >= k}
<1>1. PICK s \in Seq(Int) : s = mempoolFees
  OBVIOUS
<1>2. IsFiniteSet(Range(mempoolFees)) /\ Range(mempoolFees) \subseteq Int
  BY <1>1, ElementsOf
<1>3. Range(mempoolFees) # {}
  <2>1. 1 \in DOMAIN s
    BY <1>1
  <2> QED BY <1>1, <2>1 DEF Range
<1>4. PICK top \in Range(mempoolFees) : \A f \in Range(mempoolFees) : f <= top
  BY <1>2, <1>3, IntSetBounds
<1>5. top \in Enough
  <2>1. NotAbove(top) = 1 .. Len(s)
    BY <1>1, <1>4 DEF NotAbove, Range
  <2>2. Cardinality(1 .. Len(s)) = Len(s)
    BY FS_Interval
  <2> QED BY <1>1, <2>1, <2>2
<1>6. IsFiniteSet(Enough) /\ Enough \subseteq Int /\ Enough # {}
  BY <1>2, <1>5, FS_Subset
<1>7. PICK f \in Enough : \A g \in Enough : f <= g
  BY <1>6, IntSetBounds
<1>8. /\ Ranked(k) \in Range(mempoolFees) /\ Cardinality(NotAbove(Ranked(k))) >= k
      /\ \A g \in Range(mempoolFees) : Cardinality(NotAbove(g)) >= k => Ranked(k) <= g
  BY <1>7 DEF Ranked
<1> QED BY <1>2, <1>8

LEMMA RanksAscend ==
  ASSUME mempoolFees \in Seq(Int), NEW j \in 1 .. Len(mempoolFees),
         NEW k \in 1 .. Len(mempoolFees), j <= k
  PROVE  Ranked(j) <= Ranked(k) /\ Ranked(j) \in Int /\ Ranked(k) \in Int
<1>1. PICK c : c = Cardinality(NotAbove(Ranked(k)))
  OBVIOUS
<1>2. c >= k /\ Ranked(k) \in Range(mempoolFees) /\ Ranked(k) \in Int
  BY <1>1, RankedFee
<1>3. c \in Nat
  <2>1. PICK s \in Seq(Int) : s = mempoolFees
    OBVIOUS
  <2>2. IsFiniteSet(1 .. Len(s)) /\ NotAbove(Ranked(k)) \subseteq 1 .. Len(s)
    BY <2>1, FS_Interval DEF NotAbove
  <2> QED BY <1>1, <2>2, FS_Subset, FS_CardinalityType
<1>4. c >= j
  BY <1>2, <1>3
<1> QED BY <1>1, <1>2, <1>4, RankedFee

\* The ranks of the three estimates are in the order of the estimates.
LEMMA RanksOfEstimates ==
  ASSUME NEW n \in Nat \ {0}
  PROVE  /\ (n * 75) \div 100 + 1 \in 1 .. n /\ (n * 95) \div 100 + 1 \in 1 .. n
         /\ (n * 75) \div 100 + 1 <= (n * 95) \div 100 + 1
         /\ n % 2 = 1 => (n + 1) \div 2 \in 1 .. n /\ (n + 1) \div 2 <= (n * 75) \div 100 + 1
         /\ n % 2 # 1 => /\ n \div 2 \in 1 .. n /\ n \div 2 + 1 \in 1 .. n
                         /\ n \div 2 + 1 <= (n * 75) \div 100 + 1
  OBVIOUS

LEMMA EstimatesInOrder ==
  ASSUME mempoolFees \in Seq(Int), mempoolFees # << >>
  PROVE  /\ Median \in Int /\ Percentile(75) \in Int /\ Percentile(95) \in Int
         /\ Median <= Percentile(75) /\ Percentile(75) <= Percentile(95)
<1>1. PICK n \in Nat \ {0} : n = Len(mempoolFees)
  OBVIOUS
<1>2. PICK h, q, z : /\ q = (n * 75) \div 100 + 1 /\ z = (n * 95) \div 100 + 1
                     /\ h = IF n % 2 = 1 THEN (n + 1) \div 2 ELSE n \div 2
  OBVIOUS
<1>3. q \in 1 .. n /\ z \in 1 .. n /\ q <= z
  BY <1>2, RanksOfEstimates
<1>4. /\ Percentile(75) = Ranked(q) /\ Percentile(95) = Ranked(z)
      /\ Ranked(q) \in Int /\ Ranked(z) \in Int /\ Ranked(q) <= Ranked(z)
  BY <1>1, <1>2, <1>3, RanksAscend DEF Percentile
<1>5. Median \in Int /\ Median <= Ranked(q)
  <2>1. CASE n % 2 = 1
    <3>1. h \in 1 .. n /\ h <= q /\ Median = Ranked(h)
      BY <1>1, <1>2, <2>1, RanksOfEstimates DEF Median
    <3> QED BY <1>1, <1>3, <3>1, RanksAscend
  <2>2. CASE n % 2 # 1
    <3>1. /\ h \in 1 .. n /\ h + 1 \in 1 .. n /\ h + 1 <= q
          /\ Median = (Ranked(h) + Ranked(h + 1)) \div 2
      BY <1>1, <1>2, <2>2, RanksOfEstimates DEF Median
    <3>2. Ranked(h) <= Ranked(h + 1) /\ Ranked(h) \in Int /\ Ranked(h + 1) \in Int
      BY <1>1, <3>1, RanksAscend
    <3>3. Ranked(h + 1) <= Ranked(q)
      BY <1>1, <1>3, <3>1, RanksAscend
    <3>4. PICK a \in Int, b \in Int : a = Ranked(h) /\ b = Ranked(h + 1) /\ a <= b
      BY <3>2
    <3>5. (a + b) \div 2 \in Int /\ (a + b) \div 2 <= b
      BY <3>4
    <3> QED BY <1>4, <3>1, <3>3, <3>4, <3>5
  <2> QED BY <2>1, <2>2
<1> QED BY <1>4, <1>5

FeesInv == mempoolFees \in Seq(Int)

LEMMA FeesStep == FeesInv /\ [EstimatorNext]_fvars => FeesInv'
<1> SUFFICES ASSUME mempoolFees \in Seq(Int), [EstimatorNext]_fvars
             PROVE  mempoolFees' \in Seq(Int)
  BY DEF FeesInv
<1>1. ASSUME NEW t \in Offers, AddTransactionFee(t) PROVE mempoolFees' \in Seq(Int)
  <2>1. t.fee \in Nat /\ t.size \in Nat
    BY EstimatorAssumption
  <2>2. PICK v \in Int : v = IF t.size > 0 THEN t.fee \div t.size ELSE t.fee
    BY <2>1
  <2>3. mempoolFees' = Kept(mempoolFees, v, MaxFees)
    BY <1>1, <2>2 DEF AddTransactionFee
  <2>4. MaxFees \in Nat \ {0}
    BY EstimatorAssumption
  <2> QED BY <2>2, <2>3, <2>4, KeptIsASeq
<1>2. CASE RestartEstimator
  BY <1>2 DEF RestartEstimator
<1>3. ASSUME NEW t \in Offers, NEW u \in Offers, RecordBlockFees(<<t, u>>)
      PROVE  mempoolFees' \in Seq(Int)
  BY <1>3 DEF RecordBlockFees
<1>4. CASE UNCHANGED fvars
  BY <1>4 DEF fvars
<1> QED BY <1>1, <1>2, <1>3, <1>4 DEF EstimatorNext

(* Whatever fees were seen, in whatever order, waiting longer never costs    *)
(* more, neither through the targets nor through the recommendation.         *)
THEOREM WaitingCostsNoMore == EstimatorSpec => []WaitingIsNotDearer
<1>1. EstimatorInit => FeesInv
  BY DEF EstimatorInit, FeesInv
<1>2. FeesInv => WaitingIsNotDearer
  <2> SUFFICES ASSUME mempoolFees \in Seq(Int) PROVE WaitingIsNotDearer
    BY DEF FeesInv
  <2>1. PICK te, tl, tm, th, tp : /\ te = Tiers["economy"] /\ tl = Tiers["low"]
            /\ tm = Tiers["medium"] /\ th = Tiers["high"] /\ tp = Tiers["priority"]
    OBVIOUS
  <2>2. /\ te \in Nat /\ tl \in Nat /\ tm \in Nat /\ th \in Nat /\ tp \in Nat
        /\ te <= tl /\ tl <= tm /\ tm <= th /\ th <= tp
    BY <2>1, EstimatorAssumption
  <2>3. PICK a, b, c : /\ a = IF mempoolFees # << >> THEN Higher(Percentile(95), tp) ELSE tp
                       /\ b = IF mempoolFees # << >> THEN Higher(Percentile(75), th) ELSE th
                       /\ c = IF mempoolFees # << >> THEN Higher(Median, tm) ELSE tm
    OBVIOUS
  <2>4. a >= b /\ b >= c /\ c >= tl /\ c >= te /\ a >= a /\ b >= b /\ c >= c
    <3>1. CASE mempoolFees = << >>
      BY <2>2, <2>3, <3>1
    <3>2. CASE mempoolFees # << >>
      <4>1. PICK x, y, z : x = Median /\ y = Percentile(75) /\ z = Percentile(95)
        OBVIOUS
      <4>2. x \in Int /\ y \in Int /\ z \in Int /\ x <= y /\ y <= z
        BY <3>2, <4>1, EstimatesInOrder
      <4>3. a = (IF z >= tp THEN z ELSE tp) /\ b = (IF y >= th THEN y ELSE th)
            /\ c = (IF x >= tm THEN x ELSE tm)
        BY <2>3, <3>2, <4>1 DEF Higher
      <4> QED BY <2>2, <4>2, <4>3
    <3> QED BY <3>1, <3>2
  <2>5. /\ EstimateFee(1) = a /\ EstimateFee(2) = b /\ EstimateFee(3) = b
        /\ EstimateFee(4) = c /\ EstimateFee(5) = c /\ EstimateFee(6) = c /\ EstimateFee(7) = te
    BY <2>1, <2>3 DEF EstimateFee
  <2>6. ASSUME NEW target \in 1 .. 6 PROVE EstimateFee(target) >= EstimateFee(target + 1)
    <3>1. target = 1 \/ target = 2 \/ target = 3 \/ target = 4 \/ target = 5 \/ target = 6
      OBVIOUS
    <3> QED BY <2>4, <2>5, <3>1
  <2>7. Recommendation = [fastest |-> a, fast |-> b, medium |-> c, slow |-> tl]
    BY <2>1, <2>3 DEF Recommendation
  <2> QED BY <2>4, <2>6, <2>7 DEF WaitingIsNotDearer
<1> QED
  BY <1>1, <1>2, FeesStep, PTL DEF EstimatorSpec

(***************************************************************************)
(* The slashing of validators                                              *)
(***************************************************************************)

(* Ids are handed out in order. *)
EventsInOrder == IsFiniteSet(events) /\ \A e \in events : e.id <= LastId

(* A handler found no event up to known of the offence it is to slash. *)
NoEarlierReport ==
    \A w \in Workers : report[w] # Idle =>
        /\ report[w].known <= LastId
        /\ \A e \in events :
              e.validator = report[w].validator /\ e.height = report[w].height
                  => report[w].known < e.id

(* Every event lies in the term its validator serves. *)
TermsCover ==
    \A e \in events : /\ e.at <= now
                      /\ jail[e.validator] # None
                      /\ e.at < jail[e.validator].until

(* A count above zero was read from a record, and records stay. *)
CountIsBacked ==
    \A w \in Workers :
        report[w].pc = "counted" /\ jail[report[w].validator] = None => report[w].count = 0

SlashInv == TypeOK /\ EventsInOrder /\ NoEarlierReport /\ DuplicateIsARace
            /\ TermsCover /\ CountsMatch /\ CountIsBacked

LEMMA SlashInit == Init => SlashInv
<1> SUFFICES ASSUME Init PROVE SlashInv
  OBVIOUS
<1>1. TypeOK
  BY SlashingAssumption DEF Init, TypeOK, Report
<1>2. EventsInOrder
  BY FS_EmptySet DEF Init, EventsInOrder
<1>3. NoEarlierReport /\ DuplicateIsARace /\ TermsCover /\ CountsMatch
  BY DEF Init, NoEarlierReport, DuplicateIsARace, TermsCover, CountsMatch, EventsOf
<1>4. CountIsBacked
  BY DEF Init, CountIsBacked, Idle
<1> QED
  BY <1>1, <1>2, <1>3, <1>4 DEF SlashInv

LEMMA LastIdIsNat == EventsInOrder => LastId \in Nat
  BY FS_CardinalityType DEF EventsInOrder, LastId

(* Percent is a penalty for any count. *)
LEMMA PercentIsNat == \A n \in Nat : Percent(n) \in Nat
  BY DEF Percent

LEMMA CheckStep ==
  ASSUME SlashInv, NEW w \in Workers, NEW v \in Validators, NEW h \in Heights, Check(w, v, h)
  PROVE  SlashInv'
<1> USE DEF SlashInv
<1>1. /\ report' = [report EXCEPT ![w] =
            [pc |-> "checked", validator |-> v, height |-> h, known |-> LastId]]
      /\ UNCHANGED <<events, jail, now>>
      /\ \A e \in events : ~(e.validator = v /\ e.height = h)
  BY DEF Check, EventsOf
<1>2. LastId \in Nat
  BY LastIdIsNat
<1>3. TypeOK'
  BY <1>1, <1>2 DEF TypeOK, Report
<1>4. LastId' = LastId
  BY <1>1 DEF LastId
<1>5. NoEarlierReport'
  <2> SUFFICES ASSUME NEW x \in Workers, report'[x] # Idle
               PROVE  /\ report'[x].known <= LastId
                      /\ \A e \in events :
                           e.validator = report'[x].validator /\ e.height = report'[x].height
                               => report'[x].known < e.id
    BY <1>1, <1>4 DEF NoEarlierReport
  <2>1. CASE x = w
    BY <1>1, <1>2, <2>1 DEF TypeOK
  <2>2. CASE x # w
    BY <1>1, <2>2 DEF TypeOK, NoEarlierReport
  <2> QED
    BY <2>1, <2>2
<1>6. CountIsBacked'
  BY <1>1 DEF CountIsBacked, TypeOK
<1> QED
  BY <1>1, <1>3, <1>4, <1>5, <1>6
     DEF EventsInOrder, DuplicateIsARace, TermsCover, CountsMatch, EventsOf

LEMMA CountStep ==
  ASSUME SlashInv, NEW w \in Workers, Count(w)
  PROVE  SlashInv'
<1> USE DEF SlashInv
<1> DEFINE r == report[w]
           n == IF jail[r.validator] = None THEN 0 ELSE jail[r.validator].count
<1>1. /\ r.pc = "checked"
      /\ report' = [report EXCEPT ![w] =
            [pc |-> "counted", validator |-> r.validator, height |-> r.height,
             known |-> r.known, count |-> n]]
      /\ UNCHANGED <<events, jail, now>>
  BY DEF Count
<1>2. r \in [pc : {"checked"}, validator : Validators, height : Heights, known : Nat]
  BY <1>1 DEF TypeOK, Report, Idle
<1>3. n \in Nat
  <2>1. jail[r.validator] \in Record \cup {None}
    BY <1>2 DEF TypeOK
  <2> QED
    BY <2>1 DEF Record
<1>4. jail[r.validator] = None => n = 0
  OBVIOUS
<1> HIDE DEF n
<1>5. TypeOK'
  BY <1>1, <1>2, <1>3 DEF TypeOK, Report
<1>6. LastId' = LastId
  BY <1>1 DEF LastId
<1>7. NoEarlierReport'
  <2>1. r # Idle
    BY <1>1 DEF Idle
  <2> SUFFICES ASSUME NEW x \in Workers, report'[x] # Idle
               PROVE  /\ report'[x].known <= LastId
                      /\ \A e \in events :
                           e.validator = report'[x].validator /\ e.height = report'[x].height
                               => report'[x].known < e.id
    BY <1>1, <1>6 DEF NoEarlierReport
  <2>2. CASE x = w
    <3>1. /\ report'[x].known = r.known /\ report'[x].validator = r.validator
          /\ report'[x].height = r.height
      BY <1>1, <2>2 DEF TypeOK
    <3> QED
      BY <2>1, <3>1 DEF NoEarlierReport
  <2>3. CASE x # w
    BY <1>1, <2>3 DEF TypeOK, NoEarlierReport
  <2> QED
    BY <2>2, <2>3
<1>8. CountIsBacked'
  BY <1>1, <1>2, <1>4 DEF CountIsBacked, TypeOK
<1> QED
  BY <1>1, <1>5, <1>6, <1>7, <1>8
     DEF EventsInOrder, DuplicateIsARace, TermsCover, CountsMatch, EventsOf

LEMMA SlashStep ==
  ASSUME SlashInv, NEW w \in Workers, Slash(w)
  PROVE  SlashInv'
<1> USE DEF SlashInv
<1> DEFINE r == report[w]
           j == jail[r.validator]
           new == [id |-> LastId + 1, validator |-> r.validator, height |-> r.height,
                   percent |-> Percent(r.count), known |-> r.known, at |-> now]
<1>1. /\ r.pc = "counted"
      /\ events' = events \cup {new}
      /\ jail' = [jail EXCEPT ![r.validator] = Upsert(j, r.count)]
      /\ report' = [report EXCEPT ![w] = Idle]
      /\ UNCHANGED now
  BY DEF Slash
<1>2. r \in [pc : {"counted"}, validator : Validators, height : Heights, known : Nat, count : Nat]
  BY <1>1 DEF TypeOK, Report, Idle
<1>3. LastId \in Nat /\ now \in Nat /\ r.count \in Nat /\ Percent(r.count) \in Nat
  BY <1>2, LastIdIsNat, PercentIsNat, SlashingAssumption DEF TypeOK
<1>4. new \in Event
  BY <1>2, <1>3 DEF Event
<1>5. j \in Record \cup {None}
  BY <1>2 DEF TypeOK
<1>6. Upsert(j, r.count) \in Record
  BY <1>3, <1>5 DEF Upsert, Sentence, Record
<1>7. TypeOK'
  BY <1>1, <1>2, <1>4, <1>6 DEF TypeOK, Report
<1>8. new \notin events
  BY <1>3 DEF EventsInOrder
<1>9. IsFiniteSet(events') /\ LastId' = LastId + 1
  BY <1>1, <1>8, FS_AddElement DEF EventsInOrder, LastId
<1>10. EventsInOrder'
  BY <1>1, <1>3, <1>9 DEF EventsInOrder, TypeOK, Event
<1>11. NoEarlierReport'
  <2> SUFFICES ASSUME NEW x \in Workers, report'[x] # Idle
               PROVE  /\ report'[x].known <= LastId'
                      /\ \A e \in events' :
                           e.validator = report'[x].validator /\ e.height = report'[x].height
                               => report'[x].known < e.id
    BY DEF NoEarlierReport
  <2>1. x # w /\ report'[x] = report[x]
    BY <1>1 DEF TypeOK
  <2>2. report[x].known \in Nat /\ report[x].known <= LastId
    BY <2>1 DEF NoEarlierReport, TypeOK, Report, Idle
  <2>3. \A e \in events :
           e.validator = report'[x].validator /\ e.height = report'[x].height
               => report'[x].known < e.id
    BY <2>1 DEF NoEarlierReport
  <2>4. report'[x].known < new.id
    BY <1>3, <2>1, <2>2
  <2> QED
    BY <1>1, <1>3, <1>9, <2>1, <2>2, <2>3, <2>4
<1>12. DuplicateIsARace'
  <2> SUFFICES ASSUME NEW e \in events', NEW f \in events',
                      e.validator = f.validator, e.height = f.height, e.id < f.id
               PROVE  f.known < e.id
    BY DEF DuplicateIsARace
  <2>1. CASE e \in events /\ f \in events
    BY <2>1 DEF DuplicateIsARace
  <2>2. CASE e \in events /\ f = new
    BY <1>1, <2>2 DEF NoEarlierReport, Idle
  <2>3. CASE e = new
    BY <1>1, <1>3, <2>3 DEF EventsInOrder, TypeOK, Event
  <2> QED
    BY <1>1, <2>1, <2>2, <2>3
<1>13. TermsCover'
  <2> SUFFICES ASSUME NEW e \in events'
               PROVE  e.at <= now /\ jail'[e.validator] # None /\ e.at < jail'[e.validator].until
    BY <1>1 DEF TermsCover
  <2>1. e.at <= now /\ e.at \in Nat
    BY <1>1, <1>3 DEF TermsCover, TypeOK, Event
  <2>2. CASE e.validator = r.validator
    <3>1. jail'[e.validator] = Upsert(j, r.count)
      BY <1>1, <1>2, <2>2 DEF TypeOK
    <3>2. Upsert(j, r.count).until = now + r.count + 1
      BY DEF Upsert, Sentence
    <3>3. Upsert(j, r.count) # None
      BY <1>6, SlashingAssumption
    <3> QED
      BY <1>3, <2>1, <3>1, <3>2, <3>3
  <2>3. CASE e.validator # r.validator
    BY <1>1, <2>3 DEF TermsCover, TypeOK
  <2> QED
    BY <2>2, <2>3
<1>14. CountsMatch'
  <2> SUFFICES ASSUME NEW v \in Validators
               PROVE  IF jail'[v] = None THEN EventsOf(v)' = {}
                      ELSE jail'[v].count = Cardinality(EventsOf(v)')
    BY DEF CountsMatch
  <2>1. CASE v = r.validator
    <3>1. EventsOf(v)' = EventsOf(v) \cup {new}
      BY <1>1, <2>1 DEF EventsOf
    <3>2. IsFiniteSet(EventsOf(v)) /\ new \notin EventsOf(v)
      BY <1>8, FS_Subset DEF EventsInOrder, EventsOf
    <3>3. Cardinality(EventsOf(v)') = Cardinality(EventsOf(v)) + 1
      BY <3>1, <3>2, FS_AddElement
    <3>4. jail'[v] = Upsert(j, r.count)
      BY <1>1, <1>2, <2>1 DEF TypeOK
    <3>5. jail'[v] # None
      BY <1>6, <3>4, SlashingAssumption
    <3>6. CASE j = None
      <4>1. EventsOf(v) = {}
        BY <2>1, <3>6 DEF CountsMatch
      <4>2. r.count = 0
        BY <1>1, <3>6 DEF CountIsBacked
      <4>3. Upsert(j, r.count).count = 1
        BY <3>6, <4>2 DEF Upsert
      <4> QED
        BY <3>3, <3>4, <3>5, <4>1, <4>3, FS_EmptySet
    <3>7. CASE j # None
      <4>1. Upsert(j, r.count).count = j.count + 1
        BY <3>7 DEF Upsert
      <4>2. j.count = Cardinality(EventsOf(v))
        BY <2>1, <3>7 DEF CountsMatch
      <4> QED
        BY <3>3, <3>4, <3>5, <4>1, <4>2
    <3> QED
      BY <3>6, <3>7
  <2>2. CASE v # r.validator
    <3>1. EventsOf(v)' = EventsOf(v) /\ jail'[v] = jail[v]
      BY <1>1, <2>2 DEF EventsOf, TypeOK
    <3> QED
      BY <3>1 DEF CountsMatch
  <2> QED
    BY <2>1, <2>2
<1>15. CountIsBacked'
  <2> SUFFICES ASSUME NEW x \in Workers, report'[x].pc = "counted",
                      jail'[report'[x].validator] = None
               PROVE  report'[x].count = 0
    BY DEF CountIsBacked
  <2>1. x # w /\ report'[x] = report[x]
    BY <1>1 DEF TypeOK, Idle
  <2>2. report[x].validator \in Validators
    BY <2>1 DEF TypeOK, Report, Idle
  <2>3. jail[report[x].validator] = None
    BY <1>1, <1>2, <1>6, <2>1, <2>2, SlashingAssumption DEF TypeOK
  <2> QED
    BY <2>1, <2>3 DEF CountIsBacked
<1> QED
  BY <1>7, <1>10, <1>11, <1>12, <1>13, <1>14, <1>15

LEMMA OtherSteps ==
  ASSUME SlashInv,
         \/ \E w \in Workers : Fail(w)
         \/ \E w \in Workers, v \in Validators, h \in Heights : Refuse(w, v, h)
         \/ Hour
         \/ UNCHANGED vars
  PROVE  SlashInv'
<1> USE DEF SlashInv
<1>1. ASSUME NEW w \in Workers, Fail(w)
      PROVE  SlashInv'
  <2>1. report' = [report EXCEPT ![w] = Idle] /\ UNCHANGED <<events, jail, now>>
    BY <1>1 DEF Fail
  <2>2. TypeOK'
    BY <2>1 DEF TypeOK, Report
  <2>3. LastId' = LastId
    BY <2>1 DEF LastId
  <2>4. NoEarlierReport'
    BY <2>1, <2>3 DEF NoEarlierReport, TypeOK
  <2>5. CountIsBacked'
    BY <2>1 DEF CountIsBacked, TypeOK, Idle
  <2> QED
    BY <2>1, <2>2, <2>3, <2>4, <2>5
       DEF EventsInOrder, DuplicateIsARace, TermsCover, CountsMatch, EventsOf
<1>2. CASE Hour
  <2>1. now' = now + 1 /\ now < MaxHour /\ UNCHANGED <<events, jail, report>>
    BY <1>2 DEF Hour
  <2>2. TypeOK'
    BY <2>1, SlashingAssumption DEF TypeOK
  <2>3. TermsCover'
    BY <2>1 DEF TermsCover, TypeOK, Event
  <2> QED
    BY <2>1, <2>2, <2>3
       DEF EventsInOrder, NoEarlierReport, DuplicateIsARace, CountsMatch, CountIsBacked, EventsOf, LastId
<1>3. CASE UNCHANGED vars
  BY <1>3 DEF vars, TypeOK, EventsInOrder, NoEarlierReport, DuplicateIsARace, TermsCover,
              CountsMatch, CountIsBacked, EventsOf, LastId
<1> QED
  BY <1>1, <1>2, <1>3 DEF Refuse

THEOREM SlashingInvariant == Spec => []SlashInv
<1>1. Init => SlashInv
  BY SlashInit
<1>2. SlashInv /\ [Next]_vars => SlashInv'
  <2> SUFFICES ASSUME SlashInv, [Next]_vars
               PROVE  SlashInv'
    OBVIOUS
  <2>1. ASSUME NEW w \in Workers, NEW v \in Validators, NEW h \in Heights, Check(w, v, h)
        PROVE  SlashInv'
    BY <2>1, CheckStep
  <2>2. ASSUME NEW w \in Workers, Count(w)
        PROVE  SlashInv'
    BY <2>2, CountStep
  <2>3. ASSUME NEW w \in Workers, Slash(w)
        PROVE  SlashInv'
    BY <2>3, SlashStep
  <2> QED
    BY <2>1, <2>2, <2>3, OtherSteps DEF Next
<1> QED
  BY <1>1, <1>2, PTL DEF Spec

(* Rows, records and reports in flight are well formed. *)
THEOREM TypeCorrect == Spec => []TypeOK
  BY SlashingInvariant, PTL DEF SlashInv

(* An offence is slashed twice only by handlers that overlap: a second event *)
(* of one offence was looked for before the first was committed.             *)
THEOREM DuplicatesOverlap == Spec => []DuplicateIsARace
  BY SlashingInvariant, PTL DEF SlashInv

(* slash_count is the number of recorded events, however handlers overlap.   *)
THEOREM SlashCountIsExact == Spec => []CountsMatch
  BY SlashingInvariant, PTL DEF SlashInv

(* A validator is jailed for an hour after each of its events.               *)
THEOREM JailServed == Spec => []ServesAnHour
<1>1. SlashInv => ServesAnHour
  <2> SUFFICES ASSUME SlashInv, NEW e \in events, now <= e.at
               PROVE  IsJailed(e.validator)
    BY DEF ServesAnHour
  <2>1. /\ e.at \in Nat /\ now \in Nat
        /\ jail[e.validator] # None /\ e.at < jail[e.validator].until /\ e.at <= now
        /\ jail[e.validator] \in Record \cup {None}
    BY SlashingAssumption DEF SlashInv, TypeOK, Event, TermsCover
  <2> QED
    BY <2>1 DEF IsJailed, Record
<1> QED
  BY <1>1, SlashingInvariant, PTL

-----------------------------------------------------------------------------
(* The penalties                                                             *)

(* The events of v up to id k, which a handler that looked at k could see. *)
SeenBy(v, k) == {e \in EventsOf(v) : e.id <= k}

(* A count is at least what its handler could see when it looked for an      *)
(* earlier report, and at most what is there now.                            *)
CountIsSeen ==
    \A w \in Workers : report[w].pc = "counted" =>
        LET r == report[w]
        IN /\ Cardinality(SeenBy(r.validator, r.known)) <= r.count
           /\ r.count <= Cardinality(EventsOf(r.validator))

(* A handler looked before it wrote. *)
KnownIsPast == \A e \in events : e.known < e.id

PenaltyInv == CountIsSeen /\ KnownIsPast /\ PenaltyIsBounded /\ TotalsMatch

(* Percent never falls. *)
LEMMA PercentGrows ==
  ASSUME NEW m \in Nat, NEW n \in Nat, m <= n PROVE Percent(m) <= Percent(n)
BY DEF Percent

LEMMA EventsAreFinite ==
  ASSUME EventsInOrder, NEW v
  PROVE  /\ IsFiniteSet(EventsOf(v)) /\ Cardinality(EventsOf(v)) \in Nat
         /\ \A k : /\ SeenBy(v, k) \subseteq EventsOf(v)
                   /\ Cardinality(SeenBy(v, k)) \in Nat
                   /\ Cardinality(SeenBy(v, k)) <= Cardinality(EventsOf(v))
<1>1. IsFiniteSet(EventsOf(v))
  BY FS_Subset DEF EventsInOrder, EventsOf
<1>2. ASSUME NEW k
      PROVE  /\ SeenBy(v, k) \subseteq EventsOf(v) /\ IsFiniteSet(SeenBy(v, k))
             /\ Cardinality(SeenBy(v, k)) <= Cardinality(EventsOf(v))
  <2>1. SeenBy(v, k) \subseteq EventsOf(v)
    BY DEF SeenBy
  <2> QED
    BY <1>1, <2>1, FS_Subset
<1> QED
  BY <1>1, <1>2, FS_CardinalityType

(* A count read is the number of events there are. *)
LEMMA PenaltyCount ==
  ASSUME SlashInv, PenaltyInv, NEW w \in Workers, Count(w)
  PROVE  PenaltyInv'
<1> USE DEF SlashInv, PenaltyInv
<1> DEFINE r == report[w]
           n == IF jail[r.validator] = None THEN 0 ELSE jail[r.validator].count
           new == [pc |-> "counted", validator |-> r.validator, height |-> r.height,
                   known |-> r.known, count |-> n]
<1>1. /\ r.pc = "checked" /\ report' = [report EXCEPT ![w] = new]
      /\ UNCHANGED <<events, jail, now>>
  BY DEF Count
<1>2. r.validator \in Validators
  BY <1>1 DEF TypeOK, Report, Idle
<1>3. n = Cardinality(EventsOf(r.validator))
  BY <1>2, FS_EmptySet DEF CountsMatch
<1>4. CountIsSeen'
  <2> SUFFICES ASSUME NEW x \in Workers, report'[x].pc = "counted"
               PROVE  /\ Cardinality(SeenBy(report'[x].validator, report'[x].known)) <= report'[x].count
                      /\ report'[x].count <= Cardinality(EventsOf(report'[x].validator))
    BY <1>1 DEF CountIsSeen, SeenBy, EventsOf
  <2>1. CASE x = w
    <3>1. /\ report'[x].validator = r.validator /\ report'[x].known = r.known
          /\ report'[x].count = n
      BY <1>1, <2>1 DEF TypeOK
    <3> HIDE DEF r, n
    <3> QED
      BY <1>3, <3>1, EventsAreFinite
  <2>2. CASE x # w
    <3>1. report'[x] = report[x]
      BY <1>1, <2>2 DEF TypeOK
    <3> QED
      BY <3>1 DEF CountIsSeen
  <2> QED
    BY <2>1, <2>2
<1> QED
  BY <1>1, <1>4 DEF KnownIsPast, PenaltyIsBounded, TotalsMatch, Percents, EventsOf

LEMMA PenaltySlash ==
  ASSUME SlashInv, SlashInv', PenaltyInv, NEW w \in Workers, Slash(w)
  PROVE  PenaltyInv'
<1> USE DEF SlashInv, PenaltyInv
<1>1. PICK r, j, new :
         /\ r = report[w] /\ j = jail[r.validator]
         /\ new = [id |-> LastId + 1, validator |-> r.validator, height |-> r.height,
                   percent |-> Percent(r.count), known |-> r.known, at |-> now]
  OBVIOUS
<1>2. /\ r.pc = "counted"
      /\ events' = events \cup {new}
      /\ jail' = [jail EXCEPT ![r.validator] = Upsert(j, r.count)]
      /\ report' = [report EXCEPT ![w] = Idle]
      /\ UNCHANGED now
  BY <1>1 DEF Slash
<1>3. r \in [pc : {"counted"}, validator : Validators, height : Heights, known : Nat, count : Nat]
  BY <1>1, <1>2 DEF TypeOK, Report, Idle
<1>4. LastId \in Nat /\ r.count \in Nat /\ Percent(r.count) \in Nat
  BY <1>3, LastIdIsNat, PercentIsNat
<1>5. /\ new.id = LastId + 1 /\ new.validator = r.validator
      /\ new.percent = Percent(r.count) /\ new.known = r.known
  BY <1>1
<1>6. /\ \A e \in events : e.id <= LastId /\ e.id \in Nat /\ e.known \in Nat /\ e.percent \in Nat
      /\ new \notin events
  BY <1>4, <1>5 DEF EventsInOrder, TypeOK, Event
<1>7. r.known <= LastId
  BY <1>1, <1>2 DEF NoEarlierReport, Idle
<1>8. ASSUME NEW v, NEW k \in Int, k <= LastId
      PROVE  SeenBy(v, k)' = SeenBy(v, k)
  <2>1. \A e \in events' : e.id <= k => e \in events
    BY <1>2, <1>4, <1>5, <1>8
  <2> QED
    BY <1>2, <2>1 DEF SeenBy, EventsOf
<1>9. \A v : IF v = r.validator THEN EventsOf(v)' = EventsOf(v) \cup {new}
             ELSE EventsOf(v)' = EventsOf(v)
  BY <1>2, <1>5 DEF EventsOf
<1>10. \A v : /\ IsFiniteSet(EventsOf(v)) /\ Cardinality(EventsOf(v)) \in Nat
              /\ Cardinality(EventsOf(v)) <= Cardinality(EventsOf(v)')
  <2> SUFFICES ASSUME NEW v
               PROVE  /\ IsFiniteSet(EventsOf(v)) /\ Cardinality(EventsOf(v)) \in Nat
                      /\ Cardinality(EventsOf(v)) <= Cardinality(EventsOf(v)')
    OBVIOUS
  <2>1. IsFiniteSet(EventsOf(v)) /\ Cardinality(EventsOf(v)) \in Nat
    BY EventsAreFinite
  <2>2. IsFiniteSet(EventsOf(v) \cup {new}) /\ EventsOf(v) \subseteq EventsOf(v) \cup {new}
    BY <2>1, FS_AddElement
  <2>3. Cardinality(EventsOf(v)) <= Cardinality(EventsOf(v) \cup {new})
    BY <2>2, FS_Subset
  <2> QED
    BY <1>9, <2>1, <2>3
<1>11. CountIsSeen'
  <2> SUFFICES ASSUME NEW x \in Workers, report'[x].pc = "counted", NEW q, q = report'[x]
               PROVE  /\ Cardinality(SeenBy(q.validator, q.known)') <= q.count
                      /\ q.count <= Cardinality(EventsOf(q.validator)')
    BY DEF CountIsSeen
  <2>1. x # w /\ report'[x] = report[x]
    BY <1>2 DEF TypeOK, Idle
  <2>2. q = report[x]
    BY <2>1
  <2>3. q.known \in Nat /\ q.known <= LastId /\ q.count \in Nat
    BY <2>1, <2>2 DEF NoEarlierReport, TypeOK, Report, Idle
  <2>4. /\ Cardinality(SeenBy(q.validator, q.known)) <= q.count
        /\ q.count <= Cardinality(EventsOf(q.validator))
    BY <2>1, <2>2 DEF CountIsSeen
  <2>5. SeenBy(q.validator, q.known)' = SeenBy(q.validator, q.known)
    BY <1>8, <2>3
  <2>6. /\ Cardinality(EventsOf(q.validator)) \in Nat
        /\ Cardinality(EventsOf(q.validator)') \in Nat
        /\ Cardinality(EventsOf(q.validator)) <= Cardinality(EventsOf(q.validator)')
    <3>1. \A v : Cardinality(EventsOf(v)') \in Nat
      BY <1>9, <1>10, FS_AddElement, FS_CardinalityType
    <3> QED
      BY <1>10, <3>1
  <2>7. q.count <= Cardinality(EventsOf(q.validator)')
    BY <2>3, <2>4, <2>6
  <2> QED
    BY <2>1, <2>2, <2>4, <2>5, <2>7
<1>12. KnownIsPast'
  BY <1>2, <1>3, <1>4, <1>5, <1>7 DEF KnownIsPast
<1>13. PenaltyIsBounded'
  <2> SUFFICES ASSUME NEW e \in events'
               PROVE  /\ Percent(Cardinality(SeenBy(e.validator, e.known)')) <= e.percent
                      /\ e.percent <= Percent(Cardinality(SeenBy(e.validator, e.id - 1)'))
    BY DEF PenaltyIsBounded, SeenBy
  <2>1. CASE e \in events
    <3>1. /\ e.known \in Int /\ e.known <= LastId /\ e.id - 1 \in Int /\ e.id - 1 <= LastId
      BY <1>4, <1>6, <2>1 DEF KnownIsPast
    <3>2. /\ Percent(Cardinality(SeenBy(e.validator, e.known))) <= e.percent
          /\ e.percent <= Percent(Cardinality(SeenBy(e.validator, e.id - 1)))
      BY <2>1 DEF PenaltyIsBounded, SeenBy
    <3> QED
      BY <1>8, <3>1, <3>2
  <2>2. CASE e = new
    <3>0. PICK l \in Int : l = LastId
      BY <1>4
    <3>1. /\ SeenBy(r.validator, r.known)' = SeenBy(r.validator, r.known)
          /\ SeenBy(r.validator, l)' = SeenBy(r.validator, l)
      BY <1>3, <1>4, <1>7, <1>8, <3>0
    <3>2. SeenBy(r.validator, l) = EventsOf(r.validator)
      BY <1>6, <3>0 DEF SeenBy, EventsOf
    <3>3. /\ Cardinality(SeenBy(r.validator, r.known)) \in Nat
          /\ Cardinality(EventsOf(r.validator)) \in Nat
      BY EventsAreFinite
    <3>4. /\ Cardinality(SeenBy(r.validator, r.known)) <= r.count
          /\ r.count <= Cardinality(EventsOf(r.validator))
      BY <1>1, <1>2 DEF CountIsSeen
    <3>5. /\ Percent(Cardinality(SeenBy(r.validator, r.known))) <= Percent(r.count)
          /\ Percent(r.count) <= Percent(Cardinality(EventsOf(r.validator)))
      BY <1>4, <3>3, <3>4, PercentGrows
    <3>6. e.id - 1 = l /\ e.validator = r.validator /\ e.known = r.known /\ e.percent = Percent(r.count)
      BY <1>4, <1>5, <2>2, <3>0
    <3> QED
      BY <3>1, <3>2, <3>5, <3>6
  <2> QED
    BY <1>2, <2>1, <2>2
<1>14. TotalsMatch'
  <2> SUFFICES ASSUME NEW v \in Validators, jail'[v] # None
               PROVE  jail'[v].total = SumFunctionOnSet(Percents', EventsOf(v)')
    BY DEF TotalsMatch
  <2>0. PICK p, q, E : p = Percents /\ q = Percents' /\ E = EventsOf(v)
    OBVIOUS
  <2>1. /\ IsFiniteSet(E) /\ E \subseteq events
        /\ \A e \in E : p[e] = e.percent /\ q[e] = e.percent /\ e.percent \in Int
    <3>1. E \subseteq events /\ IsFiniteSet(E)
      BY <1>10, <2>0 DEF EventsOf
    <3>2. p = [e \in events |-> e.percent] /\ q = [e \in events' |-> e.percent]
      BY <2>0 DEF Percents
    <3> QED
      BY <1>2, <1>6, <3>1, <3>2
  <2>2. SumFunctionOnSet(q, E) = SumFunctionOnSet(p, E)
    BY <2>1, SumAgree
  <2>3. CASE v # r.validator
    <3>1. jail'[v] = jail[v] /\ EventsOf(v)' = E
      BY <1>2, <1>9, <2>0, <2>3 DEF TypeOK
    <3> QED
      BY <2>0, <2>2, <3>1 DEF TotalsMatch
  <2>4. CASE v = r.validator
    <3>1. EventsOf(v)' = E \cup {new} /\ new \notin E
      BY <1>6, <1>9, <2>0, <2>1, <2>4
    <3>2. q[new] = Percent(r.count) /\ \A e \in E \cup {new} : q[e] \in Int
      <4>1. q = [e \in events' |-> e.percent] /\ new \in events'
        BY <1>2, <2>0 DEF Percents
      <4> QED
        BY <1>4, <1>5, <2>1, <4>1
    <3>3. SumFunctionOnSet(q, E \cup {new}) = q[new] + SumFunctionOnSet(q, E)
      BY <2>1, <3>1, <3>2, SumAdd
    <3>4. SumFunctionOnSet(q, E) \in Int
      BY <2>1, <3>2, SumType
    <3>5. jail'[v] = Upsert(j, r.count) /\ j = jail[v]
      BY <1>1, <1>2, <2>4 DEF TypeOK
    <3>6. CASE j = None
      <4>1. E = {}
        BY <2>0, <3>5, <3>6 DEF CountsMatch
      <4>2. SumFunctionOnSet(q, E) = 0
        BY <4>1, SumEmpty
      <4>3. jail'[v].total = Percent(r.count)
        BY <3>5, <3>6 DEF Upsert
      <4> QED
        BY <1>4, <2>0, <3>1, <3>2, <3>3, <4>2, <4>3
    <3>7. CASE j # None
      <4>1. jail'[v].total = j.total + Percent(r.count)
        BY <3>5, <3>7 DEF Upsert
      <4>2. j.total = SumFunctionOnSet(q, E)
        BY <2>0, <2>2, <3>5, <3>7 DEF TotalsMatch
      <4> QED
        BY <1>4, <2>0, <3>1, <3>2, <3>3, <3>4, <4>1, <4>2
    <3> QED
      BY <3>6, <3>7
  <2> QED
    BY <2>3, <2>4
<1> QED
  BY <1>11, <1>12, <1>13, <1>14

LEMMA PenaltyOther ==
  ASSUME SlashInv, PenaltyInv, UNCHANGED <<events, jail>>,
         \A w \in Workers : report'[w] = report[w] \/ report'[w].pc # "counted"
  PROVE  PenaltyInv'
<1> USE DEF SlashInv, PenaltyInv
<1>1. CountIsSeen'
  <2> SUFFICES ASSUME NEW w \in Workers, report'[w].pc = "counted"
               PROVE  /\ Cardinality(SeenBy(report'[w].validator, report'[w].known)) <= report'[w].count
                      /\ report'[w].count <= Cardinality(EventsOf(report'[w].validator))
    BY DEF CountIsSeen, SeenBy, EventsOf
  <2>1. report'[w] = report[w]
    OBVIOUS
  <2> QED
    BY <2>1 DEF CountIsSeen
<1> QED
  BY <1>1 DEF KnownIsPast, PenaltyIsBounded, TotalsMatch, Percents, EventsOf

(* However handlers overlap, the jail record of a validator has the number   *)
(* and the sum of its recorded penalties, and every penalty lies between the *)
(* one due for what its handler could see and the one due for what was there.*)
THEOREM RecordsMatch == Spec => []JailMatchesEvents
<1>1. Init => PenaltyInv
  <2> SUFFICES ASSUME Init PROVE PenaltyInv
    OBVIOUS
  <2>1. CountIsSeen
    BY DEF Init, CountIsSeen, Idle
  <2> QED
    BY <2>1 DEF Init, PenaltyInv, KnownIsPast, PenaltyIsBounded, TotalsMatch
<1>2. SlashInv /\ SlashInv' /\ PenaltyInv /\ [Next]_vars => PenaltyInv'
  <2> SUFFICES ASSUME SlashInv, SlashInv', PenaltyInv, [Next]_vars
               PROVE  PenaltyInv'
    OBVIOUS
  <2>0. report \in [Workers -> Report]
    BY DEF SlashInv, TypeOK
  <2>1. ASSUME NEW w \in Workers, NEW v \in Validators, NEW h \in Heights, Check(w, v, h)
        PROVE  PenaltyInv'
    <3>1. /\ UNCHANGED <<events, jail>>
          /\ report' = [report EXCEPT ![w] =
               [pc |-> "checked", validator |-> v, height |-> h, known |-> LastId]]
      BY <2>1 DEF Check
    <3>2. \A x \in Workers : report'[x] = report[x] \/ report'[x].pc # "counted"
      BY <2>0, <3>1
    <3> QED
      BY <3>1, <3>2, PenaltyOther
  <2>2. ASSUME NEW w \in Workers, Fail(w)
        PROVE  PenaltyInv'
    <3>1. UNCHANGED <<events, jail>> /\ report' = [report EXCEPT ![w] = Idle]
      BY <2>2 DEF Fail
    <3>2. \A x \in Workers : report'[x] = report[x] \/ report'[x].pc # "counted"
      BY <2>0, <3>1 DEF Idle
    <3> QED
      BY <3>1, <3>2, PenaltyOther
  <2>3. CASE UNCHANGED <<events, jail, report>>
    BY <2>3, PenaltyOther
  <2> QED
    BY <2>1, <2>2, <2>3, PenaltyCount, PenaltySlash DEF Next, Refuse, Hour, vars
<1>3. SlashInv /\ PenaltyInv => JailMatchesEvents
  BY DEF SlashInv, PenaltyInv, JailMatchesEvents
<1> QED
  BY <1>1, <1>2, <1>3, SlashingInvariant, PTL DEF Spec

-----------------------------------------------------------------------------
(***************************************************************************)
(* A block through its proofs and its reload                               *)
(***************************************************************************)

IsSeq(s) == \E U : s \in Seq(U)

\* The hash above the j-th pair; the last one of an odd level is its own pair.
Above(s, j) == Parent(s[2 * j - 1], IF 2 * j <= Len(s) THEN s[2 * j] ELSE s[2 * j - 1])

LEMMA ElementwiseSeq ==
  ASSUME NEW m \in Nat, NEW f, f = [k \in 1 .. m |-> f[k]]
  PROVE  IsSeq(f) /\ Len(f) = m
<1> DEFINE U == {f[k] : k \in 1 .. m}
<1>1. f \in [1 .. m -> U]
  OBVIOUS
<1>2. f \in Seq(U)
  <2> HIDE DEF U
  <2> QED BY <1>1
<1>3. Len(f) = m
  <2> HIDE DEF U
  <2>1. DOMAIN f = 1 .. m
    BY <1>1
  <2>2. DOMAIN f = 1 .. Len(f) /\ Len(f) \in Nat
    BY <1>2
  <2> QED BY <2>1, <2>2
<1> QED BY <1>2, <1>3 DEF IsSeq

LEMMA LevelUpPairs ==
  ASSUME NEW s, IsSeq(s), Len(s) > 0
  PROVE  /\ IsSeq(LevelUp(s)) /\ Len(LevelUp(s)) = (Len(s) + 1) \div 2
         /\ \A j \in 1 .. (Len(s) + 1) \div 2 : LevelUp(s)[j] = Above(s, j)
<1>1. PICK U : s \in Seq(U)
  BY DEF IsSeq
<1>2. Len(s) \in Nat /\ s[Len(s)] \in U
  BY <1>1
<1> DEFINE even == IF Len(s) % 2 = 1 THEN Append(s, s[Len(s)]) ELSE s
           m == (Len(s) + 1) \div 2
<1>3. /\ Len(even) \div 2 = m /\ m \in Nat
      /\ \A k \in 1 .. 2 * m : even[k] = IF k <= Len(s) THEN s[k] ELSE s[Len(s)]
  <2>1. CASE Len(s) % 2 = 1
    <3>1. /\ Len(even) = Len(s) + 1
          /\ \A k \in 1 .. Len(s) : even[k] = s[k]
          /\ even[Len(s) + 1] = s[Len(s)]
      BY <1>1, <1>2, <2>1
    <3>2. 2 * m = Len(s) + 1 /\ m \in Nat
      BY <1>2, <2>1
    <3> HIDE DEF even
    <3> QED BY <1>2, <3>1, <3>2
  <2>2. CASE Len(s) % 2 # 1
    <3>1. even = s
      BY <2>2
    <3>2. 2 * m = Len(s) /\ m \in Nat
      BY <1>2, <2>2
    <3> HIDE DEF even
    <3> QED BY <1>2, <3>1, <3>2
  <2> QED BY <2>1, <2>2
<1>4. LevelUp(s) = [k \in 1 .. m |-> Parent(even[2 * k - 1], even[2 * k])]
  <2>1. LevelUp(s) = [k \in 1 .. Len(even) \div 2 |-> Parent(even[2 * k - 1], even[2 * k])]
    BY DEF LevelUp
  <2> HIDE DEF even
  <2> QED BY <1>3, <2>1
<1>5. IsSeq(LevelUp(s)) /\ Len(LevelUp(s)) = m
  <2>1. LevelUp(s) = [k \in 1 .. m |-> LevelUp(s)[k]]
    BY <1>4
  <2>2. m \in Nat
    BY <1>3
  <2> HIDE DEF m
  <2> QED BY <2>1, <2>2, ElementwiseSeq
<1>6. ASSUME NEW j \in 1 .. m PROVE LevelUp(s)[j] = Above(s, j)
  <2>1. /\ 2 * j - 1 \in 1 .. 2 * m /\ 2 * j \in 1 .. 2 * m /\ 2 * j - 1 <= Len(s)
        /\ (2 * j > Len(s) => Len(s) = 2 * j - 1) /\ 2 * j \in Int
    BY <1>2
  <2>2. LevelUp(s)[j] = Parent(even[2 * j - 1], even[2 * j])
    BY <1>4
  <2>3. even[2 * j - 1] = s[2 * j - 1]
    BY <1>3, <2>1
  <2>4. even[2 * j] = IF 2 * j <= Len(s) THEN s[2 * j] ELSE s[2 * j - 1]
    <3> HIDE DEF even, m
    <3>1. even[2 * j] = IF 2 * j <= Len(s) THEN s[2 * j] ELSE s[Len(s)]
      BY <1>3, <2>1
    <3>2. CASE 2 * j <= Len(s)
      BY <3>1, <3>2
    <3>3. CASE ~(2 * j <= Len(s))
      BY <1>2, <2>1, <3>1, <3>3
    <3> QED BY <3>2, <3>3
  <2> HIDE DEF even, m
  <2> QED BY <2>2, <2>3, <2>4 DEF Above
<1> QED BY <1>5, <1>6

\* What the levels have to be.
AreLevels(f, s) ==
    f = [k \in 0 .. Len(s) |->
            IF k = 0 THEN s
            ELSE IF Len(f[k - 1]) > 1 THEN LevelUp(f[k - 1]) ELSE f[k - 1]]

LEMMA LevelsExist ==
  ASSUME NEW s, Len(s) \in Nat PROVE \E f : AreLevels(f, s)
<1> DEFINE Right(f, k) == f[k] = IF k = 0 THEN s
                                 ELSE IF Len(f[k - 1]) > 1 THEN LevelUp(f[k - 1]) ELSE f[k - 1]
           Good == {n \in Nat : \E f : \A k \in 0 .. n : Right(f, k)}
<1>1. 0 \in Good
  <2>1. \A k \in 0 .. 0 : Right([n \in {0} |-> s], k)
    OBVIOUS
  <2> QED BY <2>1
<1>2. ASSUME NEW n \in Good PROVE n + 1 \in Good
  <2>1. PICK f : \A k \in 0 .. n : Right(f, k)
    OBVIOUS
  <2> DEFINE g == [k \in 0 .. n + 1 |->
                      IF k = n + 1 THEN IF Len(f[n]) > 1 THEN LevelUp(f[n]) ELSE f[n]
                      ELSE f[k]]
  <2>2. ASSUME NEW k \in 0 .. n + 1 PROVE Right(g, k)
    <3>1. n \in Nat /\ k \in Nat
      OBVIOUS
    <3>2. CASE k = n + 1
      <4>1. g[k] = IF Len(f[n]) > 1 THEN LevelUp(f[n]) ELSE f[n]
        BY <3>1, <3>2
      <4>2. g[k - 1] = f[n] /\ k # 0
        BY <3>1, <3>2
      <4> HIDE DEF g
      <4> QED BY <4>1, <4>2
    <3>3. CASE k # n + 1
      <4>1. k \in 0 .. n
        BY <3>1, <3>3
      <4>2. g[k] = f[k] /\ (k # 0 => g[k - 1] = f[k - 1])
        BY <3>1, <4>1
      <4>3. Right(f, k)
        BY <2>1, <4>1
      <4> HIDE DEF g
      <4> QED BY <4>2, <4>3
    <3> QED BY <3>2, <3>3
  <2>3. n + 1 \in Nat
    OBVIOUS
  <2> HIDE DEF g
  <2> QED BY <2>2, <2>3
<1>3. Good = Nat
  <2> HIDE DEF Good
  <2>1. Good \in SUBSET Nat
    BY DEF Good
  <2> QED BY <1>1, <1>2, <2>1, NatSetInduction
<1>4. PICK f : \A k \in 0 .. Len(s) : Right(f, k)
  <2>1. Len(s) \in Good
    <3> HIDE DEF Good
    <3> QED BY <1>3
  <2> QED BY <2>1
<1> DEFINE h == [n \in 0 .. Len(s) |-> f[n]]
<1>5. ASSUME NEW n \in 0 .. Len(s)
      PROVE  f[n] = IF n = 0 THEN s ELSE IF Len(h[n - 1]) > 1 THEN LevelUp(h[n - 1]) ELSE h[n - 1]
  <2>1. Right(f, n)
    BY <1>4
  <2>2. n # 0 => h[n - 1] = f[n - 1]
    OBVIOUS
  <2> HIDE DEF h
  <2> QED BY <2>1, <2>2
<1>6. AreLevels(h, s)
  BY <1>5 DEF AreLevels
<1> QED BY <1>6

LEMMA LevelsEquation ==
  ASSUME NEW s, Len(s) \in Nat
  PROVE  /\ Levels(s)[0] = s
         /\ \A k \in 1 .. Len(s) :
               Levels(s)[k] = IF Len(Levels(s)[k - 1]) > 1 THEN LevelUp(Levels(s)[k - 1])
                              ELSE Levels(s)[k - 1]
<1>1. Levels(s) = CHOOSE f : AreLevels(f, s)
  BY DEF Levels, AreLevels
<1>2. AreLevels(Levels(s), s)
  BY <1>1, LevelsExist
<1>3. PICK f : f = Levels(s)
  OBVIOUS
<1>4. f[0] = s
  BY <1>2, <1>3 DEF AreLevels
<1>5. ASSUME NEW k \in 1 .. Len(s)
      PROVE  f[k] = IF Len(f[k - 1]) > 1 THEN LevelUp(f[k - 1]) ELSE f[k - 1]
  BY <1>2, <1>3 DEF AreLevels
<1> QED BY <1>3, <1>4, <1>5

\* A level is a sequence that shrinks, and only lengths decide how.
LEMMA LevelShrinks ==
  ASSUME NEW s, IsSeq(s), Len(s) > 0, NEW k \in 0 .. Len(s)
  PROVE  /\ IsSeq(Levels(s)[k]) /\ Len(Levels(s)[k]) \in Nat /\ Len(Levels(s)[k]) > 0
         /\ Len(Levels(s)[k]) = 1 \/ Len(Levels(s)[k]) <= Len(s) - k
<1> DEFINE Fits(f) == IsSeq(f) /\ Len(f) \in Nat /\ Len(f) > 0
           Small(f, n) == Len(f) = 1 \/ Len(f) <= Len(s) - n
           T == {n \in Nat : n \in 0 .. Len(s) => Fits(Levels(s)[n]) /\ Small(Levels(s)[n], n)}
<1>1. Len(s) \in Nat
  BY DEF IsSeq
<1>2. PICK f : f = Levels(s)
  OBVIOUS
<1>3. /\ f[0] = s
      /\ \A n \in 1 .. Len(s) : f[n] = IF Len(f[n - 1]) > 1 THEN LevelUp(f[n - 1]) ELSE f[n - 1]
  BY <1>1, <1>2, LevelsEquation
<1>4. 0 \in T
  BY <1>1, <1>2, <1>3
<1>5. ASSUME NEW n \in T PROVE n + 1 \in T
  <2> SUFFICES ASSUME n + 1 \in 0 .. Len(s)
               PROVE  Fits(f[n + 1]) /\ Small(f[n + 1], n + 1)
    BY <1>2
  <2>1. n \in Nat /\ n \in 0 .. Len(s) /\ n + 1 \in 1 .. Len(s) /\ n + 1 - 1 = n
    BY <1>1
  <2>2. PICK c, d : c = f[n] /\ d = f[n + 1]
    OBVIOUS
  <2>3. Fits(c) /\ Small(c, n)
    BY <1>2, <2>1, <2>2
  <2>4. d = IF Len(c) > 1 THEN LevelUp(c) ELSE c
    BY <1>3, <2>1, <2>2
  <2>5. CASE Len(c) > 1
    <3>1. IsSeq(d) /\ Len(d) = (Len(c) + 1) \div 2
      BY <2>3, <2>4, <2>5, LevelUpPairs
    <3>2. PICK m, h : m = Len(c) /\ h = Len(d)
      OBVIOUS
    <3>3. m \in Nat /\ m > 1 /\ m <= Len(s) - n /\ h = (m + 1) \div 2
      BY <2>3, <2>5, <3>1, <3>2
    <3>4. h \in Nat /\ h > 0 /\ h <= Len(s) - (n + 1)
      BY <1>1, <2>1, <3>3
    <3> QED BY <2>2, <3>1, <3>2, <3>4, Zenon
  <2>6. CASE ~(Len(c) > 1)
    <3>1. d = c
      BY <2>4, <2>6, Zenon
    <3>2. PICK m : m = Len(c)
      OBVIOUS
    <3>3. m \in Nat /\ m > 0 /\ ~(m > 1)
      BY <2>3, <2>6, <3>2
    <3>4. m = 1
      BY <3>3
    <3> QED BY <2>2, <2>3, <3>1, <3>2, <3>4, Zenon
  <2> QED BY <2>5, <2>6
<1>6. T = Nat
  <2> HIDE DEF T
  <2>1. T \in SUBSET Nat
    BY DEF T
  <2> QED BY <1>4, <1>5, <2>1, NatSetInduction
<1> QED BY <1>1, <1>6

LEMMA OneHashIsLeft ==
  ASSUME NEW s, IsSeq(s), Len(s) > 0 PROVE Len(Levels(s)[Len(s)]) = 1
<1>1. Len(s) \in Nat /\ Len(s) \in 0 .. Len(s)
  BY DEF IsSeq
<1>2. PICK n : n = Len(Levels(s)[Len(s)])
  OBVIOUS
<1>3. n \in Nat /\ n > 0 /\ (n = 1 \/ n <= Len(s) - Len(s))
  BY <1>1, <1>2, LevelShrinks
<1> QED BY <1>1, <1>2, <1>3

LEMMA LengthsDecide ==
  ASSUME NEW s, IsSeq(s), Len(s) > 0, NEW t, IsSeq(t), Len(t) = Len(s), NEW k \in 0 .. Len(s)
  PROVE  Len(Levels(s)[k]) = Len(Levels(t)[k])
<1> DEFINE T == {n \in Nat : n \in 0 .. Len(s) => Len(Levels(s)[n]) = Len(Levels(t)[n])}
<1>1. Len(s) \in Nat
  BY DEF IsSeq
<1>2. PICK f, g : f = Levels(s) /\ g = Levels(t)
  OBVIOUS
<1>3. /\ f[0] = s
      /\ \A n \in 1 .. Len(s) : f[n] = IF Len(f[n - 1]) > 1 THEN LevelUp(f[n - 1]) ELSE f[n - 1]
  BY <1>1, <1>2, LevelsEquation
<1>4. /\ g[0] = t
      /\ \A n \in 1 .. Len(s) : g[n] = IF Len(g[n - 1]) > 1 THEN LevelUp(g[n - 1]) ELSE g[n - 1]
  BY <1>1, <1>2, LevelsEquation
<1>5. \A n \in 0 .. Len(s) : /\ IsSeq(f[n]) /\ Len(f[n]) \in Nat /\ Len(f[n]) > 0
                             /\ IsSeq(g[n]) /\ Len(g[n]) \in Nat /\ Len(g[n]) > 0
  BY <1>2, LevelShrinks
<1>6. 0 \in T
  BY <1>1, <1>2, <1>3, <1>4
<1>7. ASSUME NEW n \in T PROVE n + 1 \in T
  <2> SUFFICES ASSUME n + 1 \in 0 .. Len(s) PROVE Len(f[n + 1]) = Len(g[n + 1])
    BY <1>2
  <2>1. n \in Nat /\ n \in 0 .. Len(s) /\ n + 1 \in 1 .. Len(s) /\ n + 1 - 1 = n
    BY <1>1
  <2>2. Len(f[n]) = Len(g[n])
    BY <1>2, <2>1
  <2>3. /\ Len(LevelUp(f[n])) = (Len(f[n]) + 1) \div 2
        /\ Len(LevelUp(g[n])) = (Len(g[n]) + 1) \div 2
    BY <1>5, <2>1, LevelUpPairs
  <2>4. /\ f[n + 1] = IF Len(f[n]) > 1 THEN LevelUp(f[n]) ELSE f[n]
        /\ g[n + 1] = IF Len(g[n]) > 1 THEN LevelUp(g[n]) ELSE g[n]
    BY <1>3, <1>4, <2>1
  <2> QED BY <2>2, <2>3, <2>4
<1>8. T = Nat
  <2> HIDE DEF T
  <2>1. T \in SUBSET Nat
    BY DEF T
  <2> QED BY <1>6, <1>7, <2>1, NatSetInduction
<1> QED BY <1>1, <1>8

\* Two levels of one length with the same level above them are the same.
LEMMA LevelUpInjects ==
  ASSUME NEW s, IsSeq(s), Len(s) > 0, NEW t, IsSeq(t), Len(t) = Len(s), LevelUp(s) = LevelUp(t)
  PROVE  s = t
<1>1. PICK U, V : s \in Seq(U) /\ t \in Seq(V)
  BY DEF IsSeq
<1>2. ASSUME NEW k \in 1 .. Len(s) PROVE s[k] = t[k]
  <2>1. PICK j : j = (k + 1) \div 2
    OBVIOUS
  <2>2. Len(s) \in Nat /\ k \in Nat
    BY <1>1
  <2>3. j \in 1 .. (Len(s) + 1) \div 2 /\ j \in Nat
    BY <2>1, <2>2
  <2>4. Above(s, j) = Above(t, j)
    <3>1. LevelUp(s)[j] = Above(s, j) /\ LevelUp(t)[j] = Above(t, j)
      BY <2>3, LevelUpPairs
    <3> QED BY <3>1
  <2>5. /\ s[2 * j - 1] = t[2 * j - 1]
        /\ 2 * j <= Len(s) => s[2 * j] = t[2 * j]
    BY <2>4, <2>2, <2>3 DEF Above, Parent
  <2>6. k = 2 * j - 1 \/ (k = 2 * j /\ 2 * j <= Len(s))
    BY <2>1, <2>2
  <2> QED BY <2>5, <2>6
<1> QED BY <1>1, <1>2

LEMMA LevelsInject ==
  ASSUME NEW s, IsSeq(s), Len(s) > 0, NEW t, IsSeq(t), Len(t) = Len(s),
         Levels(s)[Len(s)] = Levels(t)[Len(s)]
  PROVE  s = t
<1>1. Len(s) \in Nat
  BY DEF IsSeq
<1>2. PICK f, g : f = Levels(s) /\ g = Levels(t)
  OBVIOUS
<1>3. /\ f[0] = s
      /\ \A n \in 1 .. Len(s) : f[n] = IF Len(f[n - 1]) > 1 THEN LevelUp(f[n - 1]) ELSE f[n - 1]
  BY <1>1, <1>2, LevelsEquation
<1>4. /\ g[0] = t
      /\ \A n \in 1 .. Len(s) : g[n] = IF Len(g[n - 1]) > 1 THEN LevelUp(g[n - 1]) ELSE g[n - 1]
  BY <1>1, <1>2, LevelsEquation
<1>5. \A n \in 0 .. Len(s) : /\ IsSeq(f[n]) /\ Len(f[n]) \in Nat /\ Len(f[n]) > 0
                             /\ IsSeq(g[n]) /\ Len(g[n]) = Len(f[n])
  BY <1>2, LevelShrinks, LengthsDecide
<1> DEFINE T == {n \in Nat : n <= Len(s) => f[Len(s) - n] = g[Len(s) - n]}
<1>6. 0 \in T
  BY <1>1, <1>2
<1>7. ASSUME NEW n \in T PROVE n + 1 \in T
  <2> SUFFICES ASSUME n + 1 <= Len(s) PROVE f[Len(s) - (n + 1)] = g[Len(s) - (n + 1)]
    OBVIOUS
  <2>1. PICK k : k = Len(s) - (n + 1)
    OBVIOUS
  <2>2. k \in 0 .. Len(s) /\ k + 1 \in 1 .. Len(s) /\ Len(s) - n = k + 1 /\ k + 1 - 1 = k
    BY <1>1, <2>1
  <2>3. f[k + 1] = g[k + 1]
    BY <2>2
  <2>4. PICK c, d : c = f[k] /\ d = g[k]
    OBVIOUS
  <2>5. IsSeq(c) /\ IsSeq(d) /\ Len(d) = Len(c) /\ Len(c) > 0
    BY <1>5, <2>2, <2>4
  <2>6. (IF Len(c) > 1 THEN LevelUp(c) ELSE c) = (IF Len(d) > 1 THEN LevelUp(d) ELSE d)
    BY <1>3, <1>4, <2>2, <2>3, <2>4
  <2>7. CASE Len(c) > 1
    <3>1. LevelUp(c) = LevelUp(d)
      BY <2>5, <2>6, <2>7, Zenon
    <3> QED BY <2>1, <2>4, <2>5, <3>1, LevelUpInjects
  <2>8. CASE ~(Len(c) > 1)
    <3>1. c = d
      BY <2>5, <2>6, <2>8, Zenon
    <3> QED BY <2>1, <2>4, <3>1
  <2> QED BY <2>7, <2>8
<1>8. T = Nat
  <2> HIDE DEF T
  <2>1. T \in SUBSET Nat
    BY DEF T
  <2> QED BY <1>6, <1>7, <2>1, NatSetInduction
<1>9. f[0] = g[0]
  <2>1. Len(s) \in T /\ Len(s) - Len(s) = 0 /\ Len(s) <= Len(s)
    <3> HIDE DEF T
    <3> QED BY <1>1, <1>8
  <2> QED BY <2>1
<1> QED BY <1>3, <1>4, <1>9

\* Sequences of one length with one root are the same.
LEMMA RootsInject ==
  ASSUME NEW s, IsSeq(s), Len(s) > 0, NEW t, IsSeq(t), Len(t) = Len(s),
         Levels(s)[Len(s)][1] = Levels(t)[Len(s)][1]
  PROVE  s = t
<1>1. PICK c, d : c = Levels(s)[Len(s)] /\ d = Levels(t)[Len(s)]
  OBVIOUS
<1>2. Len(s) \in Nat /\ Len(s) \in 0 .. Len(s)
  BY DEF IsSeq
<1>3. IsSeq(c) /\ Len(c) = 1
  BY <1>1, <1>2, OneHashIsLeft, LevelShrinks
<1>4. IsSeq(d) /\ Len(d) = 1
  <2>1. Len(t) \in 0 .. Len(t) /\ Len(t) > 0
    BY <1>2
  <2>2. d = Levels(t)[Len(t)]
    BY <1>1
  <2> QED BY <2>1, <2>2, OneHashIsLeft, LevelShrinks
<1>5. c[1] = d[1]
  BY <1>1
<1>6. c = d
  BY <1>3, <1>4, <1>5 DEF IsSeq
<1> QED BY <1>1, <1>6, LevelsInject

\* The rounds of the loop, and what is left after them.
LEMMA RoundsEnd ==
  ASSUME NEW s, IsSeq(s), Len(s) > 0
  PROVE  /\ Rounds(s) \in 0 .. Len(s)
         /\ \A k \in 0 .. Rounds(s) - 1 : Len(Levels(s)[k]) > 1
         /\ Levels(s)[Rounds(s)] = Levels(s)[Len(s)]
<1>1. Len(s) \in Nat
  BY DEF IsSeq
<1>2. PICK f : f = Levels(s)
  OBVIOUS
<1>3. \A n \in 1 .. Len(s) : f[n] = IF Len(f[n - 1]) > 1 THEN LevelUp(f[n - 1]) ELSE f[n - 1]
  BY <1>1, <1>2, LevelsEquation
<1>4. \A n \in 0 .. Len(s) : Len(f[n]) \in Nat /\ Len(f[n]) > 0
  BY <1>2, LevelShrinks
<1>5. Len(f[Len(s)]) = 1
  BY <1>2, OneHashIsLeft
<1>6. PICK r \in 0 .. Len(s) : Len(f[r]) = 1 /\ \A k \in 0 .. r - 1 : Len(f[k]) > 1
  <2> DEFINE R == {n \in 0 .. Len(s) : Len(f[n]) = 1}
  <2>1. R \in SUBSET Nat /\ Len(s) \in R
    BY <1>1, <1>5
  <2>2. PICK r \in R : \A k \in R : r <= k
    <3> HIDE DEF R
    <3> QED BY <2>1, NatSetMin
  <2>3. ASSUME NEW k \in 0 .. r - 1 PROVE Len(f[k]) > 1
    <3>1. r \in Nat /\ k \in 0 .. Len(s) /\ ~(r <= k)
      BY <1>1
    <3>2. k \notin R
      BY <2>2, <3>1
    <3>3. PICK n : n = Len(f[k])
      OBVIOUS
    <3>4. n \in Nat /\ n > 0 /\ n # 1
      BY <1>4, <3>1, <3>2, <3>3
    <3>5. n > 1
      BY ONLY <3>4
    <3> QED BY <3>3, <3>5, Zenon
  <2> QED BY <2>3
<1>7. /\ Rounds(s) \in 0 .. Len(s) /\ Len(f[Rounds(s)]) = 1
      /\ \A k \in 0 .. Rounds(s) - 1 : Len(f[k]) > 1
  <2> DEFINE P(n) == Len(f[n]) = 1 /\ \A k \in 0 .. n - 1 : Len(f[k]) > 1
  <2>1. \E n \in 0 .. Len(s) : P(n)
    BY <1>6
  <2>2. Rounds(s) = CHOOSE n \in 0 .. Len(s) : P(n)
    BY <1>2 DEF Rounds
  <2> HIDE DEF P
  <2>3. Rounds(s) \in 0 .. Len(s) /\ P(Rounds(s))
    BY <2>1, <2>2, Zenon
  <2> QED BY <2>3 DEF P
<1>8. PICK q : q = Rounds(s)
  OBVIOUS
<1>9. f[q] = f[Len(s)]
  <2> DEFINE T == {n \in Nat : q + n \in 0 .. Len(s) => f[q + n] = f[q]}
  <2>0. q \in Nat /\ Len(f[q]) = 1 /\ q <= Len(s)
    BY <1>1, <1>7, <1>8
  <2>1. 0 \in T
    BY <2>0
  <2>2. ASSUME NEW n \in T PROVE n + 1 \in T
    <3> SUFFICES ASSUME q + (n + 1) \in 0 .. Len(s) PROVE f[q + (n + 1)] = f[q]
      OBVIOUS
    <3>1. PICK k : k = q + n
      OBVIOUS
    <3>2. k \in 0 .. Len(s) /\ k + 1 \in 1 .. Len(s) /\ q + (n + 1) = k + 1 /\ k + 1 - 1 = k
      BY <1>1, <2>0, <3>1
    <3>3. f[k] = f[q]
      BY <3>1, <3>2
    <3>4. f[k + 1] = IF Len(f[k]) > 1 THEN LevelUp(f[k]) ELSE f[k]
      BY <1>3, <3>2
    <3>5. ~(Len(f[k]) > 1)
      <4>1. Len(f[k]) = 1
        BY <2>0, <3>3, Zenon
      <4> QED BY <4>1
    <3>6. f[k + 1] = f[k]
      BY <3>4, <3>5, Zenon
    <3> QED BY <3>2, <3>3, <3>6
  <2>3. T = Nat
    <3> HIDE DEF T
    <3>1. T \in SUBSET Nat
      BY DEF T
    <3> QED BY <2>1, <2>2, <3>1, NatSetInduction
  <2>4. Len(s) - q \in T /\ q + (Len(s) - q) = Len(s)
    <3> HIDE DEF T
    <3> QED BY <1>1, <2>0, <2>3
  <2> QED BY <1>1, <2>4
<1> QED BY <1>2, <1>7, <1>8, <1>9

\* What the indices have to be.
AreIndices(f, i, n) == f = [k \in 0 .. n |-> IF k = 0 THEN i ELSE (f[k - 1] + 1) \div 2]

LEMMA IndicesExist ==
  ASSUME NEW i \in Nat, NEW n \in Nat PROVE \E f : AreIndices(f, i, n)
<1> DEFINE Right(f, k) == f[k] = IF k = 0 THEN i ELSE (f[k - 1] + 1) \div 2
           Good == {m \in Nat : \E f : \A k \in 0 .. m : Right(f, k)}
<1>1. 0 \in Good
  <2>1. \A k \in 0 .. 0 : Right([m \in {0} |-> i], k)
    OBVIOUS
  <2> QED BY <2>1
<1>2. ASSUME NEW m \in Good PROVE m + 1 \in Good
  <2>1. PICK f : \A k \in 0 .. m : Right(f, k)
    OBVIOUS
  <2> DEFINE g == [k \in 0 .. m + 1 |-> IF k = m + 1 THEN (f[m] + 1) \div 2 ELSE f[k]]
  <2>2. ASSUME NEW k \in 0 .. m + 1 PROVE Right(g, k)
    <3>1. m \in Nat /\ k \in Nat
      OBVIOUS
    <3>2. CASE k = m + 1
      <4>1. g[k] = (f[m] + 1) \div 2
        BY <3>1, <3>2
      <4>2. g[k - 1] = f[m] /\ k # 0
        BY <3>1, <3>2
      <4> HIDE DEF g
      <4> QED BY <4>1, <4>2
    <3>3. CASE k # m + 1
      <4>1. k \in 0 .. m
        BY <3>1, <3>3
      <4>2. g[k] = f[k] /\ (k # 0 => g[k - 1] = f[k - 1])
        BY <3>1, <4>1
      <4>3. Right(f, k)
        BY <2>1, <4>1
      <4> HIDE DEF g
      <4> QED BY <4>2, <4>3
    <3> QED BY <3>2, <3>3
  <2>3. m + 1 \in Nat
    OBVIOUS
  <2> HIDE DEF g
  <2> QED BY <2>2, <2>3
<1>3. Good = Nat
  <2> HIDE DEF Good
  <2>1. Good \in SUBSET Nat
    BY DEF Good
  <2> QED BY <1>1, <1>2, <2>1, NatSetInduction
<1>4. PICK f : \A k \in 0 .. n : Right(f, k)
  <2>1. n \in Good
    <3> HIDE DEF Good
    <3> QED BY <1>3
  <2> QED BY <2>1
<1> DEFINE h == [k \in 0 .. n |-> f[k]]
<1>5. ASSUME NEW k \in 0 .. n PROVE f[k] = IF k = 0 THEN i ELSE (h[k - 1] + 1) \div 2
  <2>1. Right(f, k)
    BY <1>4
  <2>2. k # 0 => h[k - 1] = f[k - 1]
    OBVIOUS
  <2> HIDE DEF h
  <2> QED BY <2>1, <2>2
<1>6. AreIndices(h, i, n)
  BY <1>5 DEF AreIndices
<1> QED BY <1>6

LEMMA IndicesEquation ==
  ASSUME NEW i \in Nat, NEW n \in Nat
  PROVE  /\ PairIndices(i, n)[0] = i
         /\ \A k \in 1 .. n : PairIndices(i, n)[k] = (PairIndices(i, n)[k - 1] + 1) \div 2
<1>1. PairIndices(i, n) = CHOOSE f : AreIndices(f, i, n)
  BY DEF PairIndices, AreIndices
<1>2. AreIndices(PairIndices(i, n), i, n)
  BY <1>1, IndicesExist
<1>3. PICK f : f = PairIndices(i, n)
  OBVIOUS
<1>4. f[0] = i /\ \A k \in 1 .. n : f[k] = (f[k - 1] + 1) \div 2
  BY <1>2, <1>3 DEF AreIndices
<1> QED BY <1>3, <1>4

\* The index stays in its level, and the pair it is in has the next one.
LEMMA IndexInLevel ==
  ASSUME NEW s, IsSeq(s), Len(s) > 0, NEW i \in 1 .. Len(s), NEW k \in 0 .. Rounds(s)
  PROVE  PairIndices(i, Rounds(s))[k] \in 1 .. Len(Levels(s)[k])
<1>1. Len(s) \in Nat
  BY DEF IsSeq
<1>2. PICK f, r, place : f = Levels(s) /\ r = Rounds(s) /\ place = PairIndices(i, r)
  OBVIOUS
<1>3. r \in 0 .. Len(s) /\ r \in Nat /\ i \in Nat /\ \A n \in 0 .. r - 1 : Len(f[n]) > 1
  <2>1. /\ Rounds(s) \in 0 .. Len(s)
        /\ \A n \in 0 .. Rounds(s) - 1 : Len(Levels(s)[n]) > 1
    BY RoundsEnd
  <2>2. r \in 0 .. Len(s)
    BY <1>2, <2>1, Zenon
  <2>3. \A n \in 0 .. r - 1 : Len(f[n]) > 1
    BY <1>2, <2>1, Zenon
  <2> QED BY <1>1, <2>2, <2>3
<1>4. /\ f[0] = s
      /\ \A n \in 1 .. Len(s) : f[n] = IF Len(f[n - 1]) > 1 THEN LevelUp(f[n - 1]) ELSE f[n - 1]
  BY <1>1, <1>2, LevelsEquation
<1>5. \A n \in 0 .. Len(s) : IsSeq(f[n]) /\ Len(f[n]) \in Nat /\ Len(f[n]) > 0
  BY <1>2, LevelShrinks
<1>6. place[0] = i /\ \A n \in 1 .. r : place[n] = (place[n - 1] + 1) \div 2
  <2>1. /\ PairIndices(i, r)[0] = i
        /\ \A n \in 1 .. r : PairIndices(i, r)[n] = (PairIndices(i, r)[n - 1] + 1) \div 2
    BY <1>3, IndicesEquation
  <2> QED BY <1>2, <2>1, Zenon
<1> DEFINE T == {n \in Nat : n \in 0 .. r => place[n] \in 1 .. Len(f[n])}
<1>7. 0 \in T
  BY <1>4, <1>6
<1>8. ASSUME NEW n \in T PROVE n + 1 \in T
  <2> SUFFICES ASSUME n + 1 \in 0 .. r PROVE place[n + 1] \in 1 .. Len(f[n + 1])
    OBVIOUS
  <2>1. /\ n \in 0 .. r /\ n \in 0 .. Len(s) /\ n \in 0 .. r - 1 /\ n + 1 \in 1 .. r
        /\ n + 1 \in 1 .. Len(s) /\ n + 1 - 1 = n
    <3>1. n \in Nat /\ Len(s) \in Nat /\ r \in Nat /\ r <= Len(s)
      BY <1>1, <1>3
    <3> QED BY <3>1
  <2>2. PICK c, d, a, l : c = f[n] /\ d = f[n + 1] /\ a = place[n] /\ l = Len(c)
    OBVIOUS
  <2>3. IsSeq(c) /\ l > 1 /\ l \in Nat /\ a \in 1 .. l
    BY <1>3, <1>5, <2>1, <2>2
  <2>4. d = LevelUp(c)
    <3>1. d = IF Len(c) > 1 THEN LevelUp(c) ELSE c
      BY <1>4, <2>1, <2>2
    <3> QED BY <2>2, <2>3, <3>1, Zenon
  <2>5. Len(d) = (l + 1) \div 2
    <3>1. Len(c) > 0
      BY <2>2, <2>3
    <3> QED BY <2>2, <2>3, <2>4, <3>1, LevelUpPairs
  <2>6. place[n + 1] = (a + 1) \div 2
    BY <1>6, <2>1, <2>2
  <2>7. (a + 1) \div 2 \in 1 .. (l + 1) \div 2
    BY <2>3
  <2> QED BY <2>2, <2>5, <2>6, <2>7
<1>9. T = Nat
  <2> HIDE DEF T
  <2>1. T \in SUBSET Nat
    BY DEF T
  <2> QED BY <1>7, <1>8, <2>1, NatSetInduction
<1>10. k \in T /\ k \in 0 .. r
  <2> HIDE DEF T
  <2> QED BY <1>2, <1>3, <1>9
<1> QED BY <1>2, <1>10

\* A hash and its sibling have the hash above their pair.
LEMMA SiblingsPair ==
  ASSUME NEW c, NEW l \in Nat, Len(c) = l, NEW a \in 1 .. l
  PROVE  Above(c, (a + 1) \div 2) = IF a % 2 = 0 THEN Parent(Sibling(c, a), c[a])
                                    ELSE Parent(c[a], Sibling(c, a))
<1>1. PICK j : j = (a + 1) \div 2
  OBVIOUS
<1>2. CASE a % 2 = 0
  <2>1. 2 * j = a /\ 2 * j - 1 = a - 1 /\ 2 * j <= Len(c)
    BY <1>1, <1>2
  <2>2. Above(c, j) = Parent(c[a - 1], c[a])
    BY <2>1 DEF Above
  <2> QED BY <1>1, <1>2, <2>2 DEF Sibling
<1>3. CASE a % 2 # 0
  <2>1. 2 * j = a + 1 /\ 2 * j - 1 = a
    BY <1>1, <1>3
  <2>2. CASE a < Len(c)
    <3>1. 2 * j <= Len(c)
      BY <2>1, <2>2
    <3>2. Above(c, j) = Parent(c[a], c[a + 1])
      BY <2>1, <3>1 DEF Above
    <3>3. Sibling(c, a) = c[a + 1]
      BY <1>3, <2>2 DEF Sibling
    <3> QED BY <1>1, <1>3, <3>2, <3>3
  <2>3. CASE ~(a < Len(c))
    <3>1. ~(2 * j <= Len(c))
      BY <2>1, <2>3
    <3>2. Above(c, j) = Parent(c[a], c[a])
      BY <2>1, <3>1 DEF Above
    <3>3. Sibling(c, a) = c[a]
      BY <1>3, <2>3 DEF Sibling
    <3> QED BY <1>1, <1>3, <3>2, <3>3
  <2> QED BY <2>2, <2>3
<1> QED BY <1>2, <1>3

\* What the steps of verify_merkle_proof have to be.
IsClimbed(f, hash, path) ==
    f = [k \in 0 .. Len(path) |->
            IF k = 0 THEN hash
            ELSE IF path[k].position = "left" THEN Parent(path[k].hash, f[k - 1])
            ELSE Parent(f[k - 1], path[k].hash)]

LEMMA HashesOfBlock ==
  ASSUME NEW b, IsSeq(b)
  PROVE  /\ IsSeq(Hashes(b)) /\ Len(Hashes(b)) = Len(b)
         /\ \A k \in 1 .. Len(b) : Hashes(b)[k] = TxHash(b[k])
<1>1. Len(b) \in Nat
  BY DEF IsSeq
<1>2. Hashes(b) = [k \in 1 .. Len(b) |-> Hashes(b)[k]]
  BY DEF Hashes
<1> QED BY <1>1, <1>2, ElementwiseSeq DEF Hashes

(* A proof leads from its transaction to the root of the block. *)
LEMMA ProofLeadsToRoot ==
  ASSUME NEW b, IsSeq(b), Len(b) > 0, NEW i \in 1 .. Len(b)
  PROVE  Climbed(TxHash(b[i]), GetMerkleProof(b, i))[Len(GetMerkleProof(b, i))] = MerkleRoot(b)
<1>0. PICK s, f, r, place, path, hash :
         /\ s = Hashes(b) /\ f = Levels(Hashes(b)) /\ r = Rounds(Hashes(b))
         /\ place = PairIndices(i, Rounds(Hashes(b))) /\ path = GetMerkleProof(b, i) /\ hash = TxHash(b[i])
  OBVIOUS
<1>1. IsSeq(s) /\ Len(s) = Len(b) /\ Len(s) \in Nat /\ Len(s) > 0 /\ s[i] = hash /\ i \in 1 .. Len(s)
  <2>1. Len(b) \in Nat
    BY DEF IsSeq
  <2> QED BY <1>0, <2>1, HashesOfBlock
<1>2. /\ r \in 0 .. Len(s) /\ r \in Nat /\ f[r] = f[Len(s)]
      /\ \A n \in 0 .. r - 1 : Len(f[n]) > 1
  <2>1. /\ Rounds(s) \in 0 .. Len(s)
        /\ \A n \in 0 .. Rounds(s) - 1 : Len(Levels(s)[n]) > 1
        /\ Levels(s)[Rounds(s)] = Levels(s)[Len(s)]
    BY <1>1, RoundsEnd
  <2>2. r = Rounds(s) /\ f = Levels(s)
    BY <1>0
  <2>3. r \in 0 .. Len(s) /\ f[r] = f[Len(s)]
    BY <2>1, <2>2, Zenon
  <2>4. \A n \in 0 .. r - 1 : Len(f[n]) > 1
    BY <2>1, <2>2, Zenon
  <2> QED BY <1>1, <2>3, <2>4
<1>3. /\ f[0] = s
      /\ \A n \in 1 .. Len(s) : f[n] = IF Len(f[n - 1]) > 1 THEN LevelUp(f[n - 1]) ELSE f[n - 1]
      /\ \A n \in 0 .. Len(s) : IsSeq(f[n]) /\ Len(f[n]) \in Nat /\ Len(f[n]) > 0
  <2>0. f = Levels(s)
    BY <1>0, Zenon
  <2>1. /\ Levels(s)[0] = s
        /\ \A n \in 1 .. Len(s) :
              Levels(s)[n] = IF Len(Levels(s)[n - 1]) > 1 THEN LevelUp(Levels(s)[n - 1])
                             ELSE Levels(s)[n - 1]
    BY <1>1, LevelsEquation
  <2>2. \A n \in 0 .. Len(s) : /\ IsSeq(Levels(s)[n]) /\ Len(Levels(s)[n]) \in Nat
                               /\ Len(Levels(s)[n]) > 0
    BY <1>1, LevelShrinks
  <2> QED BY <2>0, <2>1, <2>2, Zenon
<1>4. place[0] = i /\ \A n \in 1 .. r : place[n] = (place[n - 1] + 1) \div 2
  <2>1. PairIndices(i, r)[0] = i /\ \A n \in 1 .. r : PairIndices(i, r)[n] = (PairIndices(i, r)[n - 1] + 1) \div 2
    BY <1>1, <1>2, IndicesEquation
  <2> QED BY <1>0, <2>1
<1>5. \A n \in 0 .. r : place[n] \in 1 .. Len(f[n])
  <2>1. \A n \in 0 .. Rounds(s) : PairIndices(i, Rounds(s))[n] \in 1 .. Len(Levels(s)[n])
    BY <1>1, IndexInLevel
  <2> QED BY <1>0, <2>1, Zenon
<1>6. /\ Len(path) = r
      /\ \A k \in 1 .. r : path[k] = [hash |-> Sibling(f[k - 1], place[k - 1]),
                                      position |-> IF place[k - 1] % 2 = 0 THEN "left" ELSE "right"]
  <2>1. path = [k \in 1 .. r |-> [hash |-> Sibling(f[k - 1], place[k - 1]),
                                  position |-> IF place[k - 1] % 2 = 0 THEN "left" ELSE "right"]]
    BY <1>0 DEF GetMerkleProof
  <2>2. path = [k \in 1 .. r |-> path[k]]
    BY <2>1
  <2>3. Len(path) = r
    BY <1>2, <2>2, ElementwiseSeq
  <2> QED BY <2>1, <2>3
<1> DEFINE up == [k \in 0 .. r |-> f[k][place[k]]]
<1>7. ASSUME NEW k \in 1 .. r
      PROVE  up[k] = IF path[k].position = "left" THEN Parent(path[k].hash, up[k - 1])
                     ELSE Parent(up[k - 1], path[k].hash)
  <2>1. k - 1 \in 0 .. r - 1 /\ k - 1 \in 0 .. r /\ k - 1 \in 0 .. Len(s) /\ k \in 1 .. Len(s)
    <3>1. k \in Nat /\ r \in Nat /\ Len(s) \in Nat /\ r <= Len(s)
      BY <1>1, <1>2
    <3> QED BY <3>1
  <2>2. PICK c, a, l : c = f[k - 1] /\ a = place[k - 1] /\ l = Len(c)
    OBVIOUS
  <2>3. IsSeq(c) /\ l \in Nat /\ Len(c) > 0 /\ Len(c) > 1 /\ a \in 1 .. l
    BY <1>2, <1>3, <1>5, <2>1, <2>2
  <2>4. f[k] = LevelUp(c)
    <3>1. f[k] = IF Len(c) > 1 THEN LevelUp(c) ELSE c
      BY <1>3, <2>1, <2>2
    <3> QED BY <2>3, <3>1, Zenon
  <2>5. place[k] = (a + 1) \div 2 /\ (a + 1) \div 2 \in 1 .. (l + 1) \div 2
    <3>1. place[k] = (a + 1) \div 2
      BY <1>4, <2>2
    <3>2. (a + 1) \div 2 \in 1 .. (l + 1) \div 2
      BY <2>3
    <3> QED BY <3>1, <3>2
  <2>6. LevelUp(c)[(a + 1) \div 2] = Above(c, (a + 1) \div 2)
    BY <2>2, <2>3, <2>5, LevelUpPairs
  <2>7. up[k] = Above(c, (a + 1) \div 2) /\ up[k - 1] = c[a]
    BY <2>1, <2>2, <2>4, <2>5, <2>6
  <2>8. path[k].hash = Sibling(c, a) /\ path[k].position = (IF a % 2 = 0 THEN "left" ELSE "right")
    BY <1>6, <2>2
  <2>9. Above(c, (a + 1) \div 2) = IF a % 2 = 0 THEN Parent(Sibling(c, a), c[a])
                                   ELSE Parent(c[a], Sibling(c, a))
    BY <2>2, <2>3, SiblingsPair
  <2> HIDE DEF up
  <2>10. CASE a % 2 = 0
    BY <2>7, <2>8, <2>9, <2>10
  <2>11. CASE a % 2 # 0
    BY <2>7, <2>8, <2>9, <2>11
  <2> QED BY <2>10, <2>11
<1>8. up[0] = hash
  BY <1>1, <1>2, <1>3, <1>4
<1>9. IsClimbed(up, hash, path)
  <2>1. up = [k \in 0 .. r |-> up[k]]
    OBVIOUS
  <2> HIDE DEF up
  <2>2. ASSUME NEW k \in 0 .. r
        PROVE  up[k] = IF k = 0 THEN hash
                       ELSE IF path[k].position = "left" THEN Parent(path[k].hash, up[k - 1])
                       ELSE Parent(up[k - 1], path[k].hash)
    <3>1. CASE k = 0
      BY <1>8, <3>1
    <3>2. CASE k # 0
      <4>1. k \in 1 .. r
        BY <1>2, <3>2
      <4> QED BY <1>7, <3>2, <4>1
    <3> QED BY <3>1, <3>2
  <2> QED BY <1>6, <2>1, <2>2 DEF IsClimbed
<1>10. PICK g : g = Climbed(hash, path)
  OBVIOUS
<1>11. IsClimbed(g, hash, path)
  <2>1. Climbed(hash, path) = CHOOSE h : IsClimbed(h, hash, path)
    BY DEF Climbed, IsClimbed
  <2> HIDE DEF up
  <2> QED BY <1>9, <1>10, <2>1
<1>12. g[r] = up[r]
  <2> DEFINE T == {n \in Nat : n <= r => g[n] = up[n]}
  <2> HIDE DEF up
  <2>1. /\ g[0] = hash
        /\ \A k \in 1 .. r : g[k] = IF path[k].position = "left" THEN Parent(path[k].hash, g[k - 1])
                                    ELSE Parent(g[k - 1], path[k].hash)
    BY <1>2, <1>6, <1>11 DEF IsClimbed
  <2>2. 0 \in T
    BY <1>8, <2>1
  <2>3. ASSUME NEW n \in T PROVE n + 1 \in T
    <3> SUFFICES ASSUME n + 1 <= r PROVE g[n + 1] = up[n + 1]
      OBVIOUS
    <3>1. n + 1 \in 1 .. r /\ n + 1 - 1 = n /\ g[n] = up[n]
      BY <1>2
    <3>2. /\ g[n + 1] = IF path[n + 1].position = "left" THEN Parent(path[n + 1].hash, g[n])
                        ELSE Parent(g[n], path[n + 1].hash)
          /\ up[n + 1] = IF path[n + 1].position = "left" THEN Parent(path[n + 1].hash, up[n])
                         ELSE Parent(up[n], path[n + 1].hash)
      BY <1>7, <2>1, <3>1
    <3> QED BY <3>1, <3>2
  <2>4. T = Nat
    <3> HIDE DEF T
    <3>1. T \in SUBSET Nat
      BY DEF T
    <3> QED BY <2>2, <2>3, <3>1, NatSetInduction
  <2>5. r \in T
    <3> HIDE DEF T
    <3> QED BY <1>2, <2>4
  <2> QED BY <1>2, <2>5
<1>13. up[r] = f[Len(s)][1]
  <2>1. Len(f[r]) = 1
    <3>1. Len(Levels(s)[Len(s)]) = 1
      BY <1>1, OneHashIsLeft
    <3> QED BY <1>0, <1>2, <3>1
  <2>2. place[r] \in 1 .. 1
    <3>1. r \in 0 .. r
      BY <1>2
    <3> QED BY <1>5, <2>1, <3>1
  <2>3. place[r] = 1 /\ r \in 0 .. r
    BY <1>2, <2>2
  <2> QED BY <1>2, <2>3
<1>14. MerkleRoot(b) = f[Len(s)][1]
  BY <1>0, <1>1 DEF MerkleRoot
<1> QED
  <2> HIDE DEF up
  <2> QED BY <1>0, <1>6, <1>10, <1>12, <1>13, <1>14

\* The fields the hash of a transaction covers can be read off it.
LEMMA HashesTell ==
  ASSUME NEW b, IsSeq(b), NEW c, IsSeq(c), Len(c) = Len(b), Len(b) > 0,
         MerkleRoot(b) = MerkleRoot(c), NEW k \in 1 .. Len(b)
  PROVE  TxHash(b[k]) = TxHash(c[k])
<1>1. /\ IsSeq(Hashes(b)) /\ Len(Hashes(b)) = Len(b) /\ Hashes(b)[k] = TxHash(b[k])
      /\ IsSeq(Hashes(c)) /\ Len(Hashes(c)) = Len(b) /\ Hashes(c)[k] = TxHash(c[k])
  BY HashesOfBlock
<1>2. PICK s, t : s = Hashes(b) /\ t = Hashes(c)
  OBVIOUS
<1>3. Levels(s)[Len(s)][1] = Levels(t)[Len(s)][1]
  <2>1. MerkleRoot(b) = Levels(s)[Len(b)][1] /\ MerkleRoot(c) = Levels(t)[Len(c)][1]
    BY <1>2 DEF MerkleRoot
  <2> QED BY <1>1, <1>2, <2>1
<1>4. IsSeq(s) /\ Len(s) > 0 /\ IsSeq(t) /\ Len(t) = Len(s)
  BY <1>1, <1>2
<1>5. s = t
  BY <1>3, <1>4, RootsInject
<1> QED BY <1>1, <1>2, <1>5

Transactions == [name : Nat, system : BOOLEAN, replaceable : BOOLEAN, key : BOOLEAN]

(* A block that is built has its reward first, one that is reloaded only     *)
(* replaceable transactions of users; and a proof leads to the root of the   *)
(* process that gave it.                                                     *)
MerkleInv ==
    /\ life \in 0 .. Lives
    /\ life > 0 => block \in Seq(Transactions) /\ Len(block) > 0 /\ root = MerkleRoot(block)
    /\ life = 1 => block[1].replaceable = FALSE
    /\ life = 2 => block[1].replaceable = TRUE /\ block[1].system = FALSE
    /\ \A p \in proofs : /\ p.life \in 1 .. life
                         /\ Climbed(p.tx, p.path)[Len(p.path)] = root <=> p.life = life
    /\ verdict = "valid" => life = 1

LEMMA MerkleInitial == MerkleInit => MerkleInv
  BY DEF MerkleInit, MerkleInv, Lives

LEMMA BuildStep ==
  ASSUME MerkleInv, NEW n \in 0 .. MaxBlock, BuildBlock(n) PROVE MerkleInv'
<1>1. PICK b : b = <<Reward>> \o [k \in 1 .. n |-> Payment(k)]
  OBVIOUS
<1>2. b \in Seq(Transactions) /\ Len(b) > 0 /\ b[1] = Reward
  <2>1. PICK t : t = [k \in 1 .. n |-> Payment(k)]
    OBVIOUS
  <2>2. n \in Nat /\ \A k \in 1 .. n : Payment(k) \in Transactions
    BY BlockAssumption DEF Payment, Transactions
  <2>3. t \in Seq(Transactions)
    BY <2>1, <2>2
  <2>4. <<Reward>> \in Seq(Transactions) /\ Len(<<Reward>>) = 1
    BY DEF Reward, Transactions
  <2>5. b = <<Reward>> \o t
    BY <1>1, <2>1
  <2> QED BY <2>3, <2>4, <2>5
<1>3. /\ life = 0 /\ life' = 1 /\ block' = b /\ root' = MerkleRoot(b)
      /\ proofs' = proofs /\ verdict' = verdict
  BY <1>1 DEF BuildBlock
<1>4. proofs = {} /\ verdict # "valid"
  BY <1>3 DEF MerkleInv
<1>5. b[1].replaceable = FALSE
  BY <1>2 DEF Reward
<1> QED BY <1>2, <1>3, <1>4, <1>5 DEF MerkleInv, Lives

LEMMA ProofStep ==
  ASSUME MerkleInv, NEW i \in 1 .. MaxBlock + 1, GiveProof(i) PROVE MerkleInv'
<1>1. PICK p : p = [tx |-> TxHash(block[i]), path |-> GetMerkleProof(block, i), life |-> life]
  OBVIOUS
<1>2. /\ life > 0 /\ i \in 1 .. Len(block) /\ proofs' = proofs \cup {p}
      /\ UNCHANGED <<block, root, life, verdict>>
  BY <1>1 DEF GiveProof
<1>3. Climbed(p.tx, p.path)[Len(p.path)] = root
  <2>1. PICK b : b = block
    OBVIOUS
  <2>2. /\ b \in Seq(Transactions) /\ Len(b) > 0 /\ i \in 1 .. Len(b)
        /\ root = MerkleRoot(b)
    BY <1>2, <2>1 DEF MerkleInv
  <2>3. Climbed(TxHash(b[i]), GetMerkleProof(b, i))[Len(GetMerkleProof(b, i))] = MerkleRoot(b)
    <3>1. IsSeq(b)
      BY <2>2 DEF IsSeq
    <3> QED BY <2>2, <3>1, ProofLeadsToRoot
  <2>4. p.tx = TxHash(b[i]) /\ p.path = GetMerkleProof(b, i)
    BY <1>1, <2>1
  <2> QED BY <2>2, <2>3, <2>4
<1>4. p.life = life /\ life \in 1 .. life
  BY <1>1, <1>2 DEF MerkleInv
<1>5. ASSUME NEW q \in proofs'
      PROVE  /\ q.life \in 1 .. life'
             /\ Climbed(q.tx, q.path)[Len(q.path)] = root' <=> q.life = life'
  <2>1. CASE q = p
    BY <1>2, <1>3, <1>4, <2>1
  <2>2. CASE q # p
    <3>1. q \in proofs
      BY <1>2, <2>2
    <3> QED BY <1>2, <3>1 DEF MerkleInv
  <2> QED BY <2>1, <2>2
<1> QED BY <1>2, <1>5 DEF MerkleInv

LEMMA ReloadStep ==
  ASSUME MerkleInv, Reload PROVE MerkleInv'
<1>1. PICK b, m : b = block /\ m = Len(block)
  OBVIOUS
<1>2. /\ life = 1 /\ life' = 2 /\ b \in Seq(Transactions) /\ IsSeq(b) /\ m \in Nat /\ m > 0 /\ Len(b) = m
      /\ b[1].replaceable = FALSE /\ root = MerkleRoot(b)
      /\ root' = MerkleRoot(block') /\ proofs' = proofs /\ verdict' = "none"
  <2>1. life > 0 /\ life < Lives /\ life' = life + 1
    BY DEF Reload
  <2>2. life = 1 /\ life' = 2
    BY <2>1 DEF MerkleInv, Lives
  <2>3. /\ b \in Seq(Transactions) /\ Len(b) > 0 /\ root = MerkleRoot(b)
        /\ b[1].replaceable = FALSE
    BY <1>1, <2>2 DEF MerkleInv
  <2>4. Len(b) \in Nat /\ IsSeq(b)
    BY <2>3 DEF IsSeq
  <2> QED BY <1>1, <2>2, <2>3, <2>4 DEF Reload
<1>3. PICK order, c :
         /\ order \in [1 .. m - 1 -> 2 .. m]
         /\ c = [k \in 1 .. m - 1 |-> Reloaded(b[order[k]])] \o <<Reloaded(Reward)>>
         /\ block' = c
  BY <1>1, Zenon DEF Reload
<1>4. /\ c \in Seq(Transactions) /\ Len(c) = m
      /\ c[1].replaceable = TRUE /\ c[1].system = FALSE
  <2>1. ASSUME NEW x \in Transactions
        PROVE  /\ Reloaded(x) \in Transactions
               /\ Reloaded(x).replaceable = TRUE /\ Reloaded(x).system = FALSE
    BY DEF Reloaded, Transactions
  <2>2. PICK t, last : t = [k \in 1 .. m - 1 |-> Reloaded(b[order[k]])] /\ last = Reloaded(Reward)
    OBVIOUS
  <2>3. ASSUME NEW k \in 1 .. m - 1 PROVE b[order[k]] \in Transactions
    <3>1. order[k] \in 1 .. Len(b)
      BY <1>2, <1>3
    <3> QED BY <1>2, <3>1
  <2>4. m - 1 \in Nat /\ \A k \in 1 .. m - 1 : t[k] \in Transactions
    <3>1. m - 1 \in Nat
      BY <1>2
    <3>2. ASSUME NEW k \in 1 .. m - 1 PROVE t[k] \in Transactions
      <4>1. t[k] = Reloaded(b[order[k]])
        BY <2>2
      <4> QED BY <2>1, <2>3, <4>1
    <3> QED BY <3>1, <3>2
  <2>5. t \in Seq(Transactions) /\ Len(t) = m - 1
    BY <2>2, <2>4
  <2>6. last \in Transactions /\ last.replaceable = TRUE /\ last.system = FALSE
    BY <2>1, <2>2 DEF Reward, Transactions
  <2>7. c = t \o <<last>>
    BY <1>3, <2>2
  <2>8. c \in Seq(Transactions) /\ Len(c) = m
    BY <1>2, <2>5, <2>6, <2>7
  <2>9. CASE m = 1
    <3>1. c[1] = last
      BY <2>5, <2>7, <2>9
    <3> QED BY <2>6, <2>8, <3>1
  <2>10. CASE m # 1
    <3>1. 1 \in 1 .. m - 1
      BY <1>2, <2>10
    <3>2. c[1] = t[1]
      BY <2>5, <2>7, <3>1
    <3>3. PICK x \in Transactions : x = b[order[1]]
      BY <2>3, <3>1
    <3>4. c[1] = Reloaded(x)
      BY <2>2, <3>1, <3>2, <3>3
    <3>5. Reloaded(x).replaceable = TRUE /\ Reloaded(x).system = FALSE
      BY <2>1
    <3> QED BY <2>8, <3>4, <3>5
  <2> QED BY <2>9, <2>10
<1>5. IsSeq(c)
  BY <1>4 DEF IsSeq
<1>6. MerkleRoot(b) # MerkleRoot(c)
  <2> SUFFICES ASSUME MerkleRoot(b) = MerkleRoot(c) PROVE FALSE
    OBVIOUS
  <2>1. 1 \in 1 .. Len(b) /\ Len(c) = Len(b) /\ Len(b) > 0
    BY <1>2, <1>4
  <2>2. TxHash(b[1]) = TxHash(c[1])
    BY <1>2, <1>4, <1>5, <2>1, HashesTell
  <2>3. b[1].replaceable = c[1].replaceable
    BY <2>2 DEF TxHash
  <2> QED BY <1>2, <1>4, <2>3
<1>7. ASSUME NEW q \in proofs'
      PROVE  /\ q.life \in 1 .. life'
             /\ Climbed(q.tx, q.path)[Len(q.path)] = root' <=> q.life = life'
  <2>1. q.life \in 1 .. 1 /\ Climbed(q.tx, q.path)[Len(q.path)] = root
    BY <1>2 DEF MerkleInv
  <2>2. root # root'
    BY <1>2, <1>3, <1>6
  <2>3. q.life = 1 /\ life' = 2
    BY <1>2, <2>1
  <2> QED BY <2>1, <2>2, <2>3
<1>8. /\ block' \in Seq(Transactions) /\ Len(block') > 0
      /\ block'[1].replaceable = TRUE /\ block'[1].system = FALSE
  BY <1>2, <1>3, <1>4
<1>9. root' = MerkleRoot(block)'
  BY <1>2
<1>10. life' = 2 /\ verdict' = "none" /\ life' \in 0 .. Lives
  BY <1>2 DEF Lives
<1> QED BY <1>7, <1>8, <1>9, <1>10 DEF MerkleInv

LEMMA ValidateStep ==
  ASSUME MerkleInv, Validate PROVE MerkleInv'
<1>1. life > 0 /\ UNCHANGED <<block, root, life, proofs>>
  BY DEF Validate
<1>2. verdict' = "valid" => life = 1
  <2> SUFFICES ASSUME verdict' = "valid", life # 1 PROVE FALSE
    OBVIOUS
  <2>1. life = 2
    BY <1>1 DEF MerkleInv, Lives
  <2>2. Coinbase(block[1]) = "raised"
    BY <2>1 DEF MerkleInv, Coinbase
  <2>3. verdict' \in {"invalid", "raised"}
    BY <2>2 DEF Validate
  <2> QED BY <2>3
<1> QED BY <1>1, <1>2 DEF MerkleInv

LEMMA MerkleStep == MerkleInv /\ [MerkleNext]_mkvars => MerkleInv'
<1>1. ASSUME MerkleInv, UNCHANGED mkvars PROVE MerkleInv'
  BY <1>1 DEF MerkleInv, mkvars
<1> QED BY <1>1, BuildStep, ProofStep, ReloadStep, ValidateStep DEF MerkleNext

(* A proof holds exactly as long as the process that gave it, and no         *)
(* reloaded block of block.py ever validates, however many transactions it   *)
(* has.                                                                      *)
THEOREM ProofsDieWithTheProcess == MerkleSpec => []ReloadIsAnotherBlock
<1>1. MerkleInv => ReloadIsAnotherBlock
  BY DEF MerkleInv, ReloadIsAnotherBlock, VerifyMerkleProof
<1> QED
  BY <1>1, MerkleInitial, MerkleStep, PTL DEF MerkleSpec

-----------------------------------------------------------------------------
(***************************************************************************)
(* The types of the cache: its map never grows over the limit              *)
(***************************************************************************)

\* An entry that is not of the output makes room when the output is dropped.
LEMMA HitMakesRoom ==
  ASSUME CacheTypes, NEW p \in Procs, NEW o \in Outpoints, Cached(p, o)
  PROVE  Len(Without(p, o)) < Len(mem[p])
<1>1. PICK s \in Seq(Entries) : s = mem[p]
  BY DEF CacheTypes
<1>2. PICK r : r = Selected(s, Others(o))
  OBVIOUS
<1>3. r \in Seq(Entries \cap Others(o)) /\ Len(r) <= Len(s)
  BY <1>2, SelectedType
<1>4. Len(r) # Len(s)
  <2>1. PICK k \in 1 .. Len(s) : s[k].out = o
    BY <1>1 DEF Cached
  <2>2. s[k] \in Range(s) /\ s[k] \notin Others(o)
    BY <2>1 DEF Range, Others
  <2> QED BY <1>2, <2>2, SelectedIsShorter
<1>5. Len(r) \in Nat /\ Len(s) \in Nat
  BY <1>3
<1> QED BY <1>1, <1>2, <1>3, <1>4, <1>5 DEF Without

\* The map is full, or takes one entry more.
LEMMA RememberedFits ==
  ASSUME CacheTypes, NEW p \in Procs, NEW o \in Outpoints, NEW v, Len(mem[p]) <= MaxMemory
  PROVE  Len(Remembered(p, o, v)) <= MaxMemory
<1>1. PICK s \in Seq(Entries) : s = mem[p]
  BY DEF CacheTypes
<1>2. PICK kept : kept = IF Len(s) >= MaxMemory THEN Tail(s) ELSE s
  OBVIOUS
<1>3. kept \in Seq(Entries) /\ Len(kept) < MaxMemory
  <2>1. MaxMemory \in Nat \ {0} /\ Len(s) \in Nat /\ Len(s) <= MaxMemory
    BY <1>1, CacheAssumption
  <2>2. CASE Len(s) >= MaxMemory
    <3>1. s # << >> /\ kept = Tail(s)
      BY <1>2, <2>1, <2>2
    <3>2. kept \in Seq(Entries) /\ Len(kept) = Len(s) - 1
      BY <3>1
    <3> QED BY <2>1, <3>2
  <2>3. CASE ~(Len(s) >= MaxMemory)
    BY <1>2, <2>1, <2>3
  <2> QED BY <2>2, <2>3
<1>4. PICK r \in Seq(Entries \cap Others(o)) : r = Selected(kept, Others(o)) /\ Len(r) <= Len(kept)
  BY <1>3, SelectedType
<1>5. Remembered(p, o, v) = Append(r, [out |-> o, content |-> v])
  BY <1>1, <1>2, <1>4 DEF Remembered
<1>6. Len(Append(r, [out |-> o, content |-> v])) = Len(r) + 1 /\ Len(r) \in Nat /\ Len(kept) \in Nat
  BY <1>3
<1> QED BY <1>3, <1>4, <1>5, <1>6, CacheAssumption

\* No map grows over the limit, and only outputs of calls are marked.
CacheBounds ==
    /\ \A p \in Procs : Len(mem[p]) <= MaxMemory
    /\ foreign \subseteq Procs \X Outpoints /\ unwritten \subseteq Procs \X Outpoints

LEMMA BoundsInit == CacheInit => CacheBounds
<1>1. MaxMemory \in Nat
  BY CacheAssumption
<1>2. Len(<< >>) = 0
  OBVIOUS
<1> QED BY <1>1, <1>2 DEF CacheInit, CacheBounds

\* One map changes, to one within the limit.
LEMMA OneMapFits ==
  ASSUME CacheTypes, CacheBounds, NEW p \in Procs, NEW s, mem' = [mem EXCEPT ![p] = s],
         Len(s) <= MaxMemory
  PROVE  \A q \in Procs : Len(mem'[q]) <= MaxMemory
<1>1. \A q \in Procs : mem'[q] = IF q = p THEN s ELSE mem[q]
  BY DEF CacheTypes
<1> QED BY <1>1 DEF CacheBounds

LEMMA BoundsStep == CacheInv /\ CacheBounds /\ [CacheNext]_cvars => CacheBounds'
<1> SUFFICES ASSUME CacheInv, CacheBounds, [CacheNext]_cvars PROVE CacheBounds'
  OBVIOUS
<1>0. CacheTypes /\ \A p \in Procs : HalfWay(p)
  BY DEF CacheInv
<1>1. ASSUME NEW p \in Procs, NEW o \in Outpoints, NEW v \in Versions, SetOutput(p, o, v)
      PROVE  CacheBounds'
  <2>1. Len(Remembered(p, o, v)) <= MaxMemory
    BY <1>0, RememberedFits DEF CacheBounds
  <2>2. mem' = [mem EXCEPT ![p] = Remembered(p, o, v)] /\ UNCHANGED <<foreign, unwritten>>
    BY <1>1 DEF SetOutput
  <2> QED BY <1>0, <2>1, <2>2, OneMapFits DEF CacheBounds
<1>2. ASSUME NEW p \in Procs, NEW o \in Outpoints, Invalidate(p, o) PROVE CacheBounds'
  <2>1. mem' = [mem EXCEPT ![p] = Without(p, o)] /\ UNCHANGED <<foreign, unwritten>>
    BY <1>2 DEF Invalidate
  <2>2. Len(Without(p, o)) <= MaxMemory
    <3>1. PICK s \in Seq(Entries) : s = mem[p] /\ Len(s) <= MaxMemory
      BY <1>0 DEF CacheTypes, CacheBounds
    <3>2. PICK r \in Seq(Entries \cap Others(o)) : r = Selected(s, Others(o)) /\ Len(r) <= Len(s)
      BY SelectedType
    <3>3. Len(r) \in Nat /\ Len(s) \in Nat /\ MaxMemory \in Nat
      BY CacheAssumption
    <3> QED BY <3>1, <3>2, <3>3 DEF Without
  <2> QED BY <1>0, <2>1, <2>2, OneMapFits DEF CacheBounds
<1>3. ASSUME NEW p \in Procs, NEW o \in Outpoints, Hit(p, o) PROVE CacheBounds'
  <2>1. PICK e : /\ mem' = [mem EXCEPT ![p] = Append(Without(p, o), e)] /\ Cached(p, o)
                 /\ UNCHANGED <<foreign, unwritten>>
    BY <1>3 DEF Hit
  <2>2. PICK r \in Seq(Entries) : r = Without(p, o)
    BY <1>0, WithoutOutput DEF CacheTypes
  <2>3. PICK n : n = Len(mem[p]) /\ Len(r) < n /\ n <= MaxMemory
    BY <1>0, <2>1, <2>2, HitMakesRoom DEF CacheBounds
  <2>4. Len(Append(r, e)) = Len(r) + 1 /\ Len(r) \in Nat
    OBVIOUS
  <2>5. n \in Nat
    <3>1. PICK s \in Seq(Entries) : s = mem[p]
      BY <1>0 DEF CacheTypes
    <3> QED BY <2>3, <3>1
  <2>6. Len(Append(r, e)) <= MaxMemory
    BY <2>3, <2>4, <2>5, CacheAssumption
  <2> QED BY <1>0, <2>1, <2>2, <2>6, OneMapFits DEF CacheBounds
<1>4. ASSUME NEW p \in Procs, NEW o \in Outpoints, ReadCacheRow(p, o) PROVE CacheBounds'
  BY <1>4 DEF ReadCacheRow, CacheBounds
<1>5. ASSUME NEW p \in Procs, CommitRow(p) PROVE CacheBounds'
  <2>1. step[p].out \in Outpoints
    BY <1>0, <1>5 DEF CommitRow, HalfWay
  <2> QED BY <1>5, <2>1 DEF CommitRow, CacheBounds
<1>6. ASSUME NEW p \in Procs, RowRaises(p) PROVE CacheBounds'
  <2>1. step[p].out \in Outpoints
    BY <1>0, <1>6 DEF RowRaises, HalfWay
  <2> QED BY <1>6, <2>1 DEF RowRaises, CacheBounds
<1>7. ASSUME NEW p \in Procs, Promote(p) PROVE CacheBounds'
  <2>1. PICK o, v : o = step[p].out /\ v = step[p].content /\ o \in Outpoints
    BY <1>0, <1>7 DEF Promote, HalfWay
  <2>2. Len(Remembered(p, o, v)) <= MaxMemory
    BY <1>0, <2>1, RememberedFits DEF CacheBounds
  <2>3. mem' = [mem EXCEPT ![p] = Remembered(p, o, v)] /\ UNCHANGED <<foreign, unwritten>>
    BY <1>7, <2>1 DEF Promote
  <2> QED BY <1>0, <2>2, <2>3, OneMapFits DEF CacheBounds
<1>8. ASSUME NEW p \in Procs, Restart(p) PROVE CacheBounds'
  <2>1. mem' = [mem EXCEPT ![p] = << >>] /\ UNCHANGED <<foreign, unwritten>>
    BY <1>8 DEF Restart
  <2>2. Len(<< >>) <= MaxMemory
    BY CacheAssumption
  <2> QED BY <1>0, <2>1, <2>2, OneMapFits DEF CacheBounds
<1>9. CASE UNCHANGED cvars
  BY <1>9 DEF cvars, CacheBounds
<1> QED BY <1>1, <1>2, <1>3, <1>4, <1>5, <1>6, <1>7, <1>8, <1>9 DEF CacheNext

LEMMA CacheTypesHold == CacheSpec => []CacheTypeOK
<1>1. CacheInv /\ CacheBounds => CacheTypeOK
  BY DEF CacheInv, CacheTypes, CacheBounds, CacheTypeOK
<1> QED BY <1>1, CacheInitInv, CacheStep, BoundsInit, BoundsStep, PTL DEF CacheSpec

-----------------------------------------------------------------------------
(***************************************************************************)
(* The types of the fee estimator                                          *)
(***************************************************************************)

\* A bounded deque keeps its bound.
LEMMA KeptFits ==
  ASSUME NEW s \in Seq(Nat), NEW v \in Nat, NEW max \in Nat \ {0}, Len(s) <= max
  PROVE  Kept(s, v, max) \in Seq(Nat) /\ Len(Kept(s, v, max)) <= max
<1>1. CASE Len(s) < max
  BY <1>1 DEF Kept
<1>2. CASE ~(Len(s) < max)
  <2>1. s # << >>
    BY <1>2
  <2>2. Tail(s) \in Seq(Nat) /\ Len(Tail(s)) = Len(s) - 1
    BY <2>1
  <2>3. Append(Tail(s), v) \in Seq(Nat) /\ Len(Append(Tail(s), v)) = Len(s)
    BY <2>2
  <2> QED BY <1>2, <2>3 DEF Kept
<1> QED BY <1>1, <1>2

LEMMA QuotientIsNat ==
  ASSUME NEW a \in Nat, NEW b \in Nat, b > 0
  PROVE  a \div b \in Nat
OBVIOUS

LEMMA ChargedBlock ==
  ASSUME EstimatorTypeOK, NEW txs \in Seq(Offers), RecordBlockFees(txs)
  PROVE  EstimatorTypeOK'
<1> DEFINE chosen == {t \in Offers : t.fee > 0}
<1>1. PICK c : c = Charged(txs)
  OBVIOUS
<1>2. c \in Seq(chosen)
  <2>1. Offers \cap chosen = chosen
    OBVIOUS
  <2> HIDE DEF chosen
  <2>2. Selected(txs, chosen) \in Seq(Offers \cap chosen)
    BY SelectedType
  <2> QED BY <1>1, <2>1, <2>2 DEF Charged, chosen
<1>3. PICK n \in Nat \ {0} : n = Len(c)
  BY <1>1, <1>2 DEF RecordBlockFees
<1>4. \A k \in 1 .. n : c[k].fee \in Nat /\ c[k].size \in Nat /\ c[k].size > 0
  <2>1. \A k \in 1 .. n : c[k] \in Offers
    BY <1>2, <1>3
  <2>2. \A k \in 1 .. n : c[k].size > 0
    BY <1>1, <1>3 DEF RecordBlockFees
  <2> QED BY <2>1, <2>2, EstimatorAssumption
<1> HIDE DEF chosen
<1>5. PICK fees : fees = [k \in 1 .. n |-> c[k].fee \div c[k].size]
  OBVIOUS
<1>6. \A k \in 1 .. n : fees[k] \in Nat
  BY <1>4, <1>5, QuotientIsNat
<1>7. IsFiniteSet(1 .. n)
  BY FS_Interval
<1>8. SumFunctionOnSet(fees, 1 .. n) \in Nat
  BY <1>6, <1>7, SumNonNegative
<1>9. PICK avg \in Nat : avg = SumFunctionOnSet(fees, 1 .. n) \div n
  BY <1>8, QuotientIsNat
<1> DEFINE F == {fees[k] : k \in 1 .. n}
           low == CHOOSE f \in F : \A k \in 1 .. n : f <= fees[k]
           high == CHOOSE f \in F : \A k \in 1 .. n : f >= fees[k]
<1>a. F \subseteq Nat /\ F # {} /\ IsFiniteSet(F)
  <2>1. 1 \in 1 .. n
    OBVIOUS
  <2>2. IsFiniteSet(F)
    <3>1. fees \in Seq(Nat) /\ Range(fees) = F
      BY <1>5, <1>6 DEF Range
    <3> QED BY <3>1, ElementsOf
  <2> QED BY <1>6, <2>1, <2>2
<1>b. low \in Nat /\ high \in Nat
  <2>1. /\ \E f \in F : \A g \in F : f <= g
        /\ \E f \in F : \A g \in F : g <= f
    <3> HIDE DEF F
    <3>1. F \subseteq Int
      BY <1>a
    <3> QED BY <1>a, <3>1, IntSetBounds
  <2>2. /\ \E f \in F : \A k \in 1 .. n : f <= fees[k]
        /\ \E f \in F : \A k \in 1 .. n : f >= fees[k]
    BY <1>6, <2>1
  <2>3. low \in F /\ high \in F
    <3> HIDE DEF F
    <3> QED BY <2>2
  <2> HIDE DEF low, high, F
  <2> QED BY <1>a, <2>3
<1>c. history' = Append(history, [avg |-> avg, min |-> low, max |-> high, count |-> n])
  BY <1>1, <1>3, <1>5, <1>9 DEF RecordBlockFees
<1>d. blockFees' = Kept(blockFees, avg, MaxBlocks) /\ UNCHANGED mempoolFees
  BY <1>1, <1>3, <1>5, <1>9 DEF RecordBlockFees
<1>e. blockFees' \in Seq(Nat) /\ Len(blockFees') <= MaxBlocks
  BY <1>d, KeptFits, EstimatorAssumption DEF EstimatorTypeOK
<1>f. history' \in Seq([avg : Nat, min : Nat, max : Nat, count : Nat])
  <2> HIDE DEF low, high
  <2>1. [avg |-> avg, min |-> low, max |-> high, count |-> n]
           \in [avg : Nat, min : Nat, max : Nat, count : Nat]
    BY <1>b
  <2> QED BY <1>c, <2>1 DEF EstimatorTypeOK
<1> QED BY <1>d, <1>e, <1>f DEF EstimatorTypeOK

LEMMA EstimatorTypeStep == EstimatorTypeOK /\ [EstimatorNext]_fvars => EstimatorTypeOK'
<1> SUFFICES ASSUME EstimatorTypeOK, [EstimatorNext]_fvars PROVE EstimatorTypeOK'
  OBVIOUS
<1>1. ASSUME NEW t \in Offers, AddTransactionFee(t) PROVE EstimatorTypeOK'
  <2>1. t.fee \in Nat /\ t.size \in Nat
    BY EstimatorAssumption
  <2>2. PICK v \in Nat : v = IF t.size > 0 THEN t.fee \div t.size ELSE t.fee
    BY <2>1, QuotientIsNat
  <2>3. mempoolFees' = Kept(mempoolFees, v, MaxFees) /\ UNCHANGED <<blockFees, history>>
    BY <1>1, <2>2 DEF AddTransactionFee
  <2>4. Kept(mempoolFees, v, MaxFees) \in Seq(Nat) /\ Len(Kept(mempoolFees, v, MaxFees)) <= MaxFees
    BY KeptFits, EstimatorAssumption DEF EstimatorTypeOK
  <2> QED BY <2>3, <2>4 DEF EstimatorTypeOK
<1>2. CASE RestartEstimator
  BY <1>2, EstimatorAssumption DEF RestartEstimator, EstimatorTypeOK
<1>3. ASSUME NEW t \in Offers, NEW u \in Offers, RecordBlockFees(<<t, u>>)
      PROVE  EstimatorTypeOK'
  <2>1. <<t, u>> \in Seq(Offers)
    OBVIOUS
  <2> QED BY <1>3, <2>1, ChargedBlock
<1>4. CASE UNCHANGED fvars
  BY <1>4 DEF fvars, EstimatorTypeOK
<1> QED BY <1>1, <1>2, <1>3, <1>4 DEF EstimatorNext

LEMMA EstimatorTypesHold == EstimatorSpec => []EstimatorTypeOK
<1>1. EstimatorInit => EstimatorTypeOK
  BY EstimatorAssumption DEF EstimatorInit, EstimatorTypeOK
<1> QED BY <1>1, EstimatorTypeStep, PTL DEF EstimatorSpec

-----------------------------------------------------------------------------
(***************************************************************************)
(* The types of a block and its proofs                                     *)
(***************************************************************************)

Tx == [name : 0 .. MaxBlock, system : BOOLEAN, replaceable : BOOLEAN, key : BOOLEAN]
BlockShape == MerkleTypeOK /\ IsFiniteSet(proofs)

LEMMA BlockShapeStep == BlockShape /\ [MerkleNext]_mkvars => BlockShape'
<1> SUFFICES ASSUME BlockShape, [MerkleNext]_mkvars PROVE BlockShape'
  OBVIOUS
<1>0. /\ block \in Seq(Tx) /\ life \in 0 .. Lives /\ Cardinality(proofs) <= MaxProofs
      /\ verdict \in {"none", "valid", "invalid", "raised"} /\ IsFiniteSet(proofs)
  BY DEF BlockShape, MerkleTypeOK, Tx
<1>1. SUFFICES /\ block' \in Seq(Tx) /\ life' \in 0 .. Lives /\ Cardinality(proofs') <= MaxProofs
               /\ verdict' \in {"none", "valid", "invalid", "raised"} /\ IsFiniteSet(proofs')
  BY DEF BlockShape, MerkleTypeOK, Tx
<1>2. ASSUME NEW n \in 0 .. MaxBlock, BuildBlock(n)
      PROVE  block' \in Seq(Tx) /\ life' \in 0 .. Lives /\ UNCHANGED <<proofs, verdict>>
  <2>1. Reward \in Tx
    BY BlockAssumption DEF Reward, Tx
  <2>2. ASSUME NEW k \in 1 .. n PROVE Payment(k) \in Tx
    BY BlockAssumption DEF Payment, Tx
  <2> DEFINE s == [k \in 1 .. n |-> Payment(k)]
  <2>3. s \in Seq(Tx)
    BY <2>2, BlockAssumption
  <2>4. block' = <<Reward>> \o s
    BY <1>2 DEF BuildBlock
  <2> HIDE DEF s
  <2>5. <<Reward>> \in Seq(Tx)
    BY <2>1
  <2>6. <<Reward>> \o s \in Seq(Tx)
    BY <2>3, <2>5
  <2>7. block' \in Seq(Tx)
    BY <2>4, <2>6
  <2>8. life' \in 0 .. Lives /\ UNCHANGED <<proofs, verdict>>
    BY <1>2 DEF BuildBlock, Lives
  <2> QED BY <2>7, <2>8
<1>3. ASSUME NEW i \in 1 .. MaxBlock + 1, GiveProof(i)
      PROVE  /\ UNCHANGED <<block, life, verdict>>
             /\ IsFiniteSet(proofs') /\ Cardinality(proofs') <= MaxProofs
  <2>1. PICK x : proofs' = proofs \cup {x} /\ Cardinality(proofs) < MaxProofs
    BY <1>3 DEF GiveProof
  <2>2. /\ IsFiniteSet(proofs')
        /\ Cardinality(proofs') = Cardinality(proofs) \/ Cardinality(proofs') = Cardinality(proofs) + 1
    BY <1>0, <2>1, FS_AddElement
  <2>3. Cardinality(proofs) \in Nat
    BY <1>0, FS_CardinalityType
  <2> QED BY <1>3, <2>1, <2>2, <2>3, BlockAssumption DEF GiveProof
<1>4. ASSUME Reload
      PROVE  block' \in Seq(Tx) /\ life' \in 0 .. Lives /\ UNCHANGED proofs /\ verdict' = "none"
  <2>1. PICK order \in [1 .. Len(block) - 1 -> 2 .. Len(block)] :
           block' = [k \in 1 .. Len(block) - 1 |-> Reloaded(block[order[k]])] \o <<Reloaded(Reward)>>
    BY <1>4 DEF Reload
  <2>2. PICK b \in Seq(Tx) : b = block
    BY <1>0
  <2>3. ASSUME NEW t \in Tx PROVE Reloaded(t) \in Tx
    BY DEF Reloaded, Tx
  <2>4. Reward \in Tx
    BY BlockAssumption DEF Reward, Tx
  <2>5. PICK n \in Nat : n = Len(b)
    OBVIOUS
  <2>6. ASSUME NEW k \in 1 .. n - 1 PROVE Reloaded(b[order[k]]) \in Tx
    <3>1. order \in [1 .. n - 1 -> 2 .. n]
      BY <2>2, <2>5
    <3>2. order[k] \in 2 .. n
      BY <3>1
    <3>3. order[k] \in 1 .. n
      BY <3>2
    <3>4. b[order[k]] \in Tx
      BY <2>5, <3>3
    <3> QED BY <2>3, <3>4
  <2> DEFINE s == [k \in 1 .. n - 1 |-> Reloaded(b[order[k]])]
  <2>7. s \in Seq(Tx)
    <3>1. CASE n = 0
      <4>1. s = << >>
        BY <3>1
      <4> HIDE DEF s
      <4> QED BY <4>1
    <3>2. CASE n # 0
      <4>1. n - 1 \in Nat
        BY <3>2
      <4> QED BY <2>6, <4>1
    <3> QED BY <3>1, <3>2
  <2>8. block' = s \o <<Reloaded(Reward)>>
    BY <2>1, <2>2, <2>5
  <2> HIDE DEF s
  <2>9. PICK r \in Tx : r = Reloaded(Reward)
    BY <2>3, <2>4
  <2>a. s \o <<r>> \in Seq(Tx)
    BY <2>7
  <2>b. block' \in Seq(Tx)
    BY <2>8, <2>9, <2>a
  <2>c. life \in 0 .. Lives /\ life < Lives /\ life' = life + 1 /\ Lives = 2
    BY <1>0, <1>4 DEF Reload, Lives
  <2>d. life' \in 0 .. Lives
    BY <2>c
  <2> QED BY <1>4, <2>b, <2>d DEF Reload
<1>5. ASSUME Validate
      PROVE  verdict' \in {"none", "valid", "invalid", "raised"} /\ UNCHANGED <<block, life, proofs>>
  BY <1>5 DEF Validate, Coinbase
<1>6. CASE UNCHANGED mkvars
  BY <1>0, <1>6 DEF mkvars
<1> QED BY <1>0, <1>2, <1>3, <1>4, <1>5, <1>6 DEF MerkleNext

LEMMA MerkleTypesHold == MerkleSpec => []MerkleTypeOK
<1>1. MerkleInit => BlockShape
  BY FS_EmptySet, BlockAssumption DEF MerkleInit, BlockShape, MerkleTypeOK, Lives
<1>2. BlockShape => MerkleTypeOK
  BY DEF BlockShape
<1> QED BY <1>1, <1>2, BlockShapeStep, PTL DEF MerkleSpec

-----------------------------------------------------------------------------
(***************************************************************************)
(* The types of the register of rewards                                    *)
(***************************************************************************)

\* A miner that builds has a height to build, and a reward.
RewardsShapes ==
    /\ RewardsTypeOK /\ DOMAIN miner = Miners
    /\ \A m \in Miners : miner[m].step = "build" => miner[m].length <= Top /\ miner[m].reward # 0

\* One miner takes a step.
LEMMA OneMinerMoves ==
  ASSUME RewardsShapes, NEW m \in Miners, NEW r,
         miner' = [miner EXCEPT ![m] = r],
         r.step \in {"down", "idle", "build"}, r.length \in 1 .. Top + 1, r.reward \in Nat,
         r.step = "build" => r.length <= Top /\ r.reward # 0
  PROVE  /\ DOMAIN miner' = Miners
         /\ \A n \in Miners : /\ miner'[n].step \in {"down", "idle", "build"}
                              /\ miner'[n].length \in 1 .. Top + 1 /\ miner'[n].reward \in Nat
         /\ \A n \in Miners : miner'[n].step = "build" => miner'[n].length <= Top /\ miner'[n].reward # 0
<1>1. DOMAIN miner' = Miners
  BY DEF RewardsShapes
<1>2. ASSUME NEW n \in Miners PROVE miner'[n] = IF n = m THEN r ELSE miner[n]
  BY DEF RewardsShapes
<1> QED BY <1>1, <1>2 DEF RewardsShapes, RewardsTypeOK

LEMMA RewardsShapesStep == RewardsShapes /\ [RewardsNext]_rwvars => RewardsShapes'
<1> SUFFICES ASSUME RewardsShapes, [RewardsNext]_rwvars PROVE RewardsShapes'
  OBVIOUS
<1>0. /\ RewardsTypeOK /\ DOMAIN miner = Miners /\ Top \in Nat
      /\ \A m \in Miners : miner[m].step = "build" => miner[m].length <= Top /\ miner[m].reward # 0
  BY RewardsAssumption DEF RewardsShapes
<1>1. IsFiniteSet(HasBlock) /\ Cardinality(HasBlock) \in 0 .. Top
  <2>0. Top \in Nat
    BY RewardsAssumption
  <2>1. IsFiniteSet(1 .. Top) /\ Cardinality(1 .. Top) = Top
    BY <2>0, FS_Interval
  <2>2. HasBlock \subseteq 1 .. Top
    BY DEF HasBlock, BlockHeights
  <2>3. IsFiniteSet(HasBlock) /\ Cardinality(HasBlock) <= Cardinality(1 .. Top)
    BY <2>1, <2>2, FS_Subset
  <2>4. Cardinality(HasBlock) \in Nat
    BY <2>3, FS_CardinalityType
  <2> QED BY <1>0, <2>1, <2>3, <2>4
<1>2. NoReport \in [rewards : Nat, height : Nat, raised : BOOLEAN]
  BY DEF NoReport
<1>3. ASSUME NEW n \in Stakes, Restake(n) PROVE RewardsShapes'
  BY <1>2, <1>3 DEF Restake, Silent, RewardsShapes, RewardsTypeOK
<1>4. ASSUME NEW m \in Miners, OpenChain(m) PROVE RewardsShapes'
  <2> DEFINE r == [step |-> "idle", length |-> Cardinality(HasBlock) + 1, reward |-> 0]
  <2>1. miner' = [miner EXCEPT ![m] = r] /\ UNCHANGED <<tables, begun, failed, supply>> /\ reported' = NoReport
    BY <1>4 DEF OpenChain, Silent
  <2>2. r.step = "idle" /\ r.length \in 1 .. Top + 1 /\ r.reward \in Nat
    BY <1>0, <1>1
  <2> HIDE DEF r
  <2>3. /\ DOMAIN miner' = Miners
        /\ \A n \in Miners : /\ miner'[n].step \in {"down", "idle", "build"}
                             /\ miner'[n].length \in 1 .. Top + 1 /\ miner'[n].reward \in Nat
        /\ \A n \in Miners : miner'[n].step = "build" => miner'[n].length <= Top /\ miner'[n].reward # 0
    BY <2>1, <2>2, OneMinerMoves
  <2> QED BY <1>0, <1>2, <2>1, <2>3 DEF RewardsShapes, RewardsTypeOK, tables
<1>5. ASSUME NEW m \in Miners, RecordReward(m) PROVE RewardsShapes'
  <2>1. PICK h \in 1 .. Top : h = miner[m].length
    BY <1>0, <1>5 DEF RecordReward, RewardsTypeOK
  <2>2. BlockReward(h) \in Nat \ {0}
    <3>1. staked \in Nat /\ h \in Nat
      BY <1>0, RewardsAssumption DEF RewardsTypeOK
    <3> QED BY <3>1, RewardIsPaid
  <2>3. PICK b : b = BlockReward(h)
    OBVIOUS
  <2>4. PICK r : r = [miner[m] EXCEPT !.step = "build", !.reward = b]
    OBVIOUS
  <2>5. miner' = [miner EXCEPT ![m].step = "build", ![m].reward = b]
    BY <1>5, <2>1, <2>3 DEF RecordReward
  <2>6. miner' = [miner EXCEPT ![m] = r]
    BY <2>4, <2>5
  <2>7. r.step = "build" /\ r.length = h /\ r.reward = b
    <3>1. miner[m].step \in {"down", "idle", "build"} /\ miner[m].length \in 1 .. Top + 1
      BY <1>0 DEF RewardsTypeOK
    <3> QED BY <2>1, <2>4
  <2>8. /\ DOMAIN miner' = Miners
        /\ \A n \in Miners : /\ miner'[n].step \in {"down", "idle", "build"}
                             /\ miner'[n].length \in 1 .. Top + 1 /\ miner'[n].reward \in Nat
        /\ \A n \in Miners : miner'[n].step = "build" => miner'[n].length <= Top /\ miner'[n].reward # 0
    <3>1. r.length \in 1 .. Top + 1 /\ r.length <= Top /\ r.reward \in Nat /\ r.reward # 0
      BY <1>0, <2>1, <2>2, <2>3, <2>7
    <3> QED BY <2>6, <2>7, <3>1, OneMinerMoves
  <2>9. /\ \/ /\ credits' = [g \in DOMAIN credits \cup {h} |->
                                IF g \in DOMAIN credits THEN credits[g] ELSE b]
              /\ UNCHANGED failed
           \/ failed' = TRUE /\ UNCHANGED credits
        /\ begun' = IF h \in DOMAIN credits THEN begun \cup {h} ELSE begun
        /\ reported' = NoReport /\ UNCHANGED <<supply, pays, staked>>
    BY <1>5, <2>1, <2>3 DEF RecordReward, Silent
  <2>a. credits' \in [DOMAIN credits' -> Nat \ {0}] /\ DOMAIN credits' \subseteq BlockHeights
    BY <1>0, <2>1, <2>2, <2>3, <2>9 DEF RewardsTypeOK, BlockHeights
  <2>b. begun' \subseteq BlockHeights /\ failed' \in BOOLEAN
    BY <1>0, <2>1, <2>9 DEF RewardsTypeOK, BlockHeights
  <2> QED BY <1>0, <1>2, <2>8, <2>9, <2>a, <2>b DEF RewardsShapes, RewardsTypeOK
<1>6. ASSUME NEW m \in Miners, StorePaidBlock(m) PROVE RewardsShapes'
  <2>1. PICK n \in 1 .. Top : n = miner[m].length
    BY <1>0, <1>6 DEF StorePaidBlock, RewardsTypeOK
  <2> DEFINE r == [step |-> "idle", length |-> n + 1, reward |-> 0]
  <2>2. miner' = [miner EXCEPT ![m] = r]
    BY <1>6, <2>1 DEF StorePaidBlock
  <2>3. r.step = "idle" /\ r.length \in 1 .. Top + 1 /\ r.reward \in Nat
    BY <1>0
  <2> HIDE DEF r
  <2>4. /\ DOMAIN miner' = Miners
        /\ \A k \in Miners : /\ miner'[k].step \in {"down", "idle", "build"}
                             /\ miner'[k].length \in 1 .. Top + 1 /\ miner'[k].reward \in Nat
        /\ \A k \in Miners : miner'[k].step = "build" => miner'[k].length <= Top /\ miner'[k].reward # 0
    BY <2>2, <2>3, OneMinerMoves
  <2>5. /\ \/ pays' = [pays EXCEPT ![n] = miner[m].reward] /\ UNCHANGED failed
           \/ failed' = TRUE /\ UNCHANGED pays
        /\ reported' = NoReport /\ UNCHANGED <<supply, credits, staked, begun>>
    BY <1>6, <2>1 DEF StorePaidBlock, Silent
  <2>6. pays' \in [BlockHeights -> Nat] /\ failed' \in BOOLEAN
    <3>1. miner[m].reward \in Nat
      BY <1>0 DEF RewardsTypeOK
    <3> QED BY <1>0, <2>5, <3>1 DEF RewardsTypeOK
  <2> QED BY <1>0, <1>2, <2>4, <2>5, <2>6 DEF RewardsShapes, RewardsTypeOK
<1>7. CASE SumRewards
  <2>1. IsFiniteSet(DOMAIN credits) /\ \A h \in DOMAIN credits : credits[h] \in Nat
    <3>0. Top \in Nat
      BY RewardsAssumption
    <3>1. IsFiniteSet(1 .. Top)
      BY <3>0, FS_Interval
    <3>2. DOMAIN credits \subseteq 1 .. Top /\ \A h \in DOMAIN credits : credits[h] \in Nat
      BY <1>0 DEF RewardsTypeOK, BlockHeights
    <3> QED BY <3>1, <3>2, FS_Subset
  <2>2. PICK c : c = credits
    OBVIOUS
  <2>3. SumFunctionOnSet(c, DOMAIN c) \in Nat
    BY <2>1, <2>2, SumNonNegative
  <2>4. supply' \in Nat /\ reported' = NoReport /\ UNCHANGED <<tables, miner, begun, failed>>
    BY <1>7, <2>2, <2>3 DEF SumRewards
  <2> QED BY <1>0, <1>2, <2>4 DEF RewardsShapes, RewardsTypeOK, tables
<1>8. CASE GetHeight
  <2>1. supply \in Nat
    BY <1>0, <1>8 DEF GetHeight, RewardsTypeOK
  <2>2. reported' \in [rewards : Nat, height : Nat, raised : BOOLEAN]
    <3>1. PICK c \in Nat : c = Cardinality(HasBlock) + 1
      BY <1>1
    <3>2. LastHeight \in Nat
      BY RewardsAssumption
    <3>3. \/ reported' = [rewards |-> supply, height |-> c, raised |-> FALSE]
          \/ reported' = [rewards |-> supply, height |-> LastHeight, raised |-> TRUE]
      BY <1>8, <3>1 DEF GetHeight
    <3>4. CASE reported' = [rewards |-> supply, height |-> c, raised |-> FALSE]
      BY <2>1, <3>4
    <3>5. CASE reported' = [rewards |-> supply, height |-> LastHeight, raised |-> TRUE]
      BY <2>1, <3>2, <3>5
    <3> QED BY <3>3, <3>4, <3>5
  <2>3. supply' = Unasked /\ UNCHANGED <<tables, miner, begun, failed>>
    BY <1>8 DEF GetHeight
  <2> QED BY <1>0, <2>2, <2>3 DEF RewardsShapes, RewardsTypeOK, tables
<1>9. CASE UNCHANGED rwvars
  BY <1>0, <1>9 DEF RewardsShapes, RewardsTypeOK, rwvars, tables
<1> QED BY <1>3, <1>4, <1>5, <1>6, <1>7, <1>8, <1>9 DEF RewardsNext

LEMMA RewardsTypesHold == RewardsSpec => []RewardsTypeOK
<1>1. ASSUME RewardsInit PROVE RewardsShapes
  <2>1. << >> \in [DOMAIN << >> -> Nat \ {0}] /\ DOMAIN << >> = {}
    OBVIOUS
  <2>2. credits \in [DOMAIN credits -> Nat \ {0}] /\ DOMAIN credits \subseteq BlockHeights
    BY <1>1, <2>1 DEF RewardsInit
  <2>3. /\ pays \in [BlockHeights -> Nat] /\ staked \in Stakes /\ supply \in Nat \cup {Unasked}
        /\ begun \subseteq BlockHeights /\ failed \in BOOLEAN
    BY <1>1, RewardsAssumption DEF RewardsInit
  <2>4. NoReport \in [rewards : Nat, height : Nat, raised : BOOLEAN]
    BY DEF NoReport
  <2>5. /\ DOMAIN miner = Miners
        /\ \A m \in Miners : miner[m] = [step |-> "down", length |-> 1, reward |-> 0]
    BY <1>1 DEF RewardsInit, Stopped
  <2>6. 1 \in 1 .. Top + 1
    BY RewardsAssumption
  <2> QED BY <1>1, <2>2, <2>3, <2>4, <2>5, <2>6 DEF RewardsInit, RewardsShapes, RewardsTypeOK
<1>2. RewardsShapes => RewardsTypeOK
  BY DEF RewardsShapes
<1> QED BY <1>1, <1>2, RewardsShapesStep, PTL DEF RewardsSpec

-----------------------------------------------------------------------------
(***************************************************************************)
(* The services side by side                                               *)
(***************************************************************************)

(* Only the service in focus moves, and so what is true of every behaviour   *)
(* of one service is true of it beside the others.                           *)
THEOREM ServicesMoveAlone ==
    ServicesSpec => /\ Spec /\ RegistrySpec /\ PoolSpec /\ CacheSpec
                    /\ EstimatorSpec /\ MerkleSpec /\ RewardsSpec
<1>1. ServicesInit => /\ Init /\ RegistryInit /\ PoolInit /\ CacheInit
                      /\ EstimatorInit /\ MerkleInit /\ RewardsInit
  BY DEF ServicesInit
<1>2. [ServicesNext]_<<focus, vars, rvars, plvars, cvars, fvars, mkvars, rwvars>> =>
          /\ [Next]_vars /\ [RegistryNext]_rvars /\ [PoolNext]_plvars /\ [CacheNext]_cvars
          /\ [EstimatorNext]_fvars /\ [MerkleNext]_mkvars /\ [RewardsNext]_rwvars
  BY DEF ServicesNext
<1> QED
  BY <1>1, <1>2, PTL DEF ServicesSpec, Spec, RegistrySpec, PoolSpec, CacheSpec, EstimatorSpec, MerkleSpec, RewardsSpec

(* Each service has its types, whatever is sent to it: the sequences, sets   *)
(* and counters keep the bounds the code gives them, the cache of outputs    *)
(* (max_memory_cache of utxo_cache.py) and the deques of fee_estimator.py    *)
(* among them.                                                               *)
THEOREM ServicesAreTyped == ServicesSpec => []ServicesTypeOK
<1>1. TypeOK /\ RegistryTypeOK /\ PoolTypeOK /\ CacheTypeOK /\ EstimatorTypeOK /\ MerkleTypeOK
      /\ RewardsTypeOK => ServicesTypeOK
  BY DEF ServicesTypeOK
<1>2. PoolInv => PoolTypeOK
  BY DEF PoolInv
<1>3. PoolSpec => []PoolTypeOK
  BY <1>2, RestartIsAccounted, PTL
<1> QED
  BY <1>1, <1>3, ServicesMoveAlone, TypeCorrect, RegistryTypeCorrect, CacheTypesHold,
     EstimatorTypesHold, MerkleTypesHold, RewardsTypesHold, PTL
=============================================================================
