-------------------------- MODULE EkushChain_proofs -------------------------
(***************************************************************************)
(* Proofs about EkushChain for every set of hashes, transactions and       *)
(* accounts, every bound on the chain and any number of crashes: the types *)
(* on a store that may fail, the store and the balances of any number of   *)
(* objects when it does not, and the single miner that entrypoint.sh       *)
(* starts.                                                                 *)
(***************************************************************************)
EXTENDS EkushChain, DataTheorems, FiniteSetTheorems, SequenceTheorems, TLAPS

-----------------------------------------------------------------------------
(* Types, on a store that may fail                                           *)

(* A finite set of heights has an element with i smaller ones, for each i    *)
(* below its size.                                                           *)
LEMMA RankExists ==
  ASSUME NEW N \in Nat, NEW S \in SUBSET (0 .. N), NEW i \in Nat, i < Cardinality(S)
  PROVE  \E k \in S : Cardinality({j \in S : j < k}) = i
<1> DEFINE Ranked(T) == \A r \in Nat : r < Cardinality(T) =>
                           \E k \in T : Cardinality({j \in T : j < k}) = r
           Good == {n \in Nat : \A T \in SUBSET (0 .. N) : Cardinality(T) = n => Ranked(T)}
<1>0. IsFiniteSet(0 .. N)
  BY FS_Interval
<1>1. 0 \in Good
  OBVIOUS
<1>2. ASSUME NEW n \in Good PROVE n + 1 \in Good
  <2> SUFFICES ASSUME NEW T \in SUBSET (0 .. N), Cardinality(T) = n + 1,
                      NEW r \in Nat, r < Cardinality(T)
               PROVE  \E k \in T : Cardinality({j \in T : j < k}) = r
    OBVIOUS
  <2>1. IsFiniteSet(T) /\ n \in Nat /\ T # {}
    <3>1. n \in Nat /\ T # {}
      BY FS_EmptySet
    <3> QED
      BY <1>0, <3>1, FS_Subset
  <2>2. PICK m \in T : \A j \in T : j <= m
    <3> DEFINE Bounds == {b \in Nat : \A j \in T : j <= b}
    <3>1. Bounds \in SUBSET Nat /\ N \in Bounds
      OBVIOUS
    <3>2. PICK b \in Bounds : \A c \in Bounds : b <= c
      BY <3>1, NatSetMin
    <3>3. b \in T
      <4>1. SUFFICES ASSUME b \notin T PROVE FALSE
        OBVIOUS
      <4>2. \A j \in T : j <= b - 1 /\ j \in Nat
        BY <4>1
      <4>3. b - 1 \in Nat
        <5>1. PICK j \in T : TRUE
          BY <2>1
        <5>2. j \in Nat /\ j <= b - 1 /\ b \in Nat
          BY <4>2
        <5> QED
          BY <5>2
      <4>4. b - 1 \in Bounds
        BY <4>2, <4>3
      <4> QED
        BY <3>2, <4>3, <4>4
    <3> QED
      BY <3>3
  <2> DEFINE R == T \ {m}
  <2>3. IsFiniteSet(R) /\ Cardinality(R) = n /\ R \in SUBSET (0 .. N)
    <3>1. Cardinality(R) = Cardinality(T) - 1 /\ IsFiniteSet(R)
      BY <2>1, <2>2, FS_RemoveElement
    <3> QED
      BY <2>1, <3>1
  <2>4. CASE r = n
    <3>1. {j \in T : j < m} = R
      <4>1. \A j \in T : j < m <=> j # m
        BY <2>2
      <4> QED
        BY <4>1
    <3> QED
      BY <2>3, <2>4, <3>1
  <2>5. CASE r # n
    <3>1. r < Cardinality(R)
      BY <2>1, <2>3, <2>5
    <3>2. Ranked(R)
      BY <2>3
    <3>3. PICK k \in R : Cardinality({j \in R : j < k}) = r
      BY <3>1, <3>2
    <3>4. {j \in R : j < k} = {j \in T : j < k}
      BY <2>2
    <3> QED
      BY <3>3, <3>4
  <2> QED
    BY <2>4, <2>5
<1>3. Good = Nat
  <2> HIDE DEF Good
  <2>1. Good \in SUBSET Nat
    BY DEF Good
  <2> QED
    BY <1>1, <1>2, <2>1, NatSetInduction
<1>4. Cardinality(S) \in Good
  BY <1>0, <1>3, FS_Subset, FS_CardinalityType
<1>5. Ranked(S)
  BY <1>4
<1> QED
  BY <1>5

(* What the constructor loads is a chain, whatever heights are stored. *)
LEMMA LoadedTypes ==
  ASSUME TypeOK, Stored # {}
  PROVE  LoadChain \in Seq(Block) /\ Len(LoadChain) \in Nat /\ Len(LoadChain) >= 1
<1> DEFINE K == Cardinality(Stored)
<1>1. Stored \in SUBSET (0 .. MaxHeight) /\ IsFiniteSet(Stored) /\ MaxHeight \in Nat
  <2>1. Stored \in SUBSET (0 .. MaxHeight) /\ 0 \in Int /\ MaxHeight \in Int /\ MaxHeight \in Nat
    BY ConstantAssumption DEF Stored, Heights
  <2>2. IsFiniteSet(0 .. MaxHeight)
    BY <2>1, FS_Interval
  <2> QED
    BY <2>1, <2>2, FS_Subset
<1>2. K \in Nat /\ K >= 1
  BY <1>1, FS_CardinalityType, FS_EmptySet
<1>3. ASSUME NEW i \in 1 .. K
      PROVE  LoadChain[i] \in Block
  <2> DEFINE h == CHOOSE k \in Stored : Cardinality({j \in Stored : j < k}) = i - 1
             T == {t \in Txs : included[t] = h}
  <2>1. i - 1 \in Nat /\ i - 1 < K
    BY <1>2
  <2>2. \E k \in Stored : Cardinality({j \in Stored : j < k}) = i - 1
    BY <1>1, <2>1, RankExists
  <2>3. h \in Stored
    BY <2>2
  <2>4. LoadChain[i] = [hash |-> blocks[h].hash, prev |-> blocks[h].prev, idx |-> h,
                        txs |-> T, rewards |-> 0]
    BY DEF LoadChain
  <2>5. T \in SUBSET Txs /\ 0 \in 0 .. MaxRewards
    BY ConstantAssumption
  <2> HIDE DEF h, T
  <2>6. h \in Heights /\ blocks[h] \in Link
    BY <2>3 DEF Stored, TypeOK
  <2>7. blocks[h].hash \in Hashes /\ blocks[h].prev \in Hashes \cup {NoHash}
    BY <2>6 DEF Link
  <2> QED
    BY <2>4, <2>5, <2>6, <2>7 DEF Block
<1>4. LoadChain \in [1 .. K -> Block]
  BY <1>3 DEF LoadChain
<1> QED
  BY <1>2, <1>4, SeqDef

(* Beyond the types: an object that runs has at least the genesis block, and *)
(* builds no block above the bound.                                          *)
TypesInv ==
    /\ TypeOK
    /\ \A n \in Nodes : /\ pc[n] # "down" => Len(chain[n]) >= 1
                        /\ pc[n] = "build" => Len(chain[n]) <= MaxHeight

LEMMA TypesQuiet ==
  ASSUME TypesInv, TypeOK',
         \A n \in Nodes :
            \/ pc'[n] = "down"
            \/ /\ chain'[n] = chain[n]
               /\ \/ pc'[n] = pc[n]
                  \/ /\ pc[n] # "down"
                     /\ pc'[n] = "build" => Len(chain[n]) <= MaxHeight
  PROVE  TypesInv'
BY DEF TypesInv

(* A popped list is made of elements of the list it comes from. *)
LEMMA PoppedIsPending ==
  ASSUME TypeOK, NEW n \in Nodes, NEW k, NEW p \in PopLowest(n, k)
  PROVE  p.keep \in SUBSET Entry /\ p.rewards \in 0 .. MaxRewards
<1>1. p.keep \subseteq pending[n] /\ p.rewards \in 0 .. coinbases[n]
  BY DEF PopLowest
<1>2. pending[n] \in SUBSET Entry /\ coinbases[n] \in 0 .. MaxRewards
  BY DEF TypeOK
<1> QED
  BY <1>1, <1>2, ConstantAssumption

LEMMA TypesMempool ==
  ASSUME TypesInv, NEW n \in Nodes,
         \/ LoadPending(n) \/ Settle(n) \/ RejectTimestamp(n)
         \/ \E t \in Txs : AddTransaction(n, t)
  PROVE  TypesInv'
<1>0. TypeOK /\ pc \in [Nodes -> States]
  BY DEF TypesInv, TypeOK
<1>1. CASE LoadPending(n)
  <2>1. TypeOK'
    <3>1. \A t \in rows : [tx |-> t, keyed |-> FALSE] \in Entry
      BY <1>0 DEF Entry, TypeOK
    <3>2. {[tx |-> t, keyed |-> FALSE] : t \in rows} \in SUBSET Entry
      BY <3>1
    <3> QED
      BY <1>0, <1>1, <3>2 DEF LoadPending, tables, TypeOK, States
  <2>2. chain' = chain /\ \A m \in Nodes : pc'[m] = pc[m] \/ (pc[m] = "replay" /\ pc'[m] = "idle")
    <3>1. pc[n] = "replay" /\ pc' = [pc EXCEPT ![n] = "idle"] /\ chain' = chain
      BY <1>1 DEF LoadPending
    <3> QED
      BY <1>0, <3>1, Zenon
  <2> QED
    BY <2>1, <2>2, TypesQuiet
<1>2. CASE Settle(n)
  <2>1. TypeOK'
    <3>1. CASE Debit(n)
      <4>1. PICK t \in Txs : Take(n, t, Debited(t)) /\ spent' = [spent EXCEPT ![n] = @ \cup {t}]
        BY <3>1 DEF Debit
      <4>2. t.from \in Addresses /\ t.amount \in Nat /\ t.fee \in Nat
        BY TxAssumption
      <4>3. balances' \in [Addresses -> Int]
        BY <1>0, <4>1, <4>2 DEF Take, Debited, TypeOK
      <4> QED
        BY <1>0, <4>1, <4>3 DEF Take, TypeOK
    <3>2. CASE Credit(n)
      <4>1. PICK t \in Txs : Complete(n, Credited(t))
        BY <3>2 DEF Credit
      <4>2. t.to \in Addresses /\ t.amount \in Nat
        BY TxAssumption
      <4>3. balances' \in [Addresses -> Int]
        BY <1>0, <4>1, <4>2 DEF Complete, Credited, TypeOK
      <4> QED
        BY <1>0, <4>1, <4>3 DEF Complete, TypeOK
    <3> QED
      BY <1>2, <3>1, <3>2 DEF Settle
  <2>2. chain' = chain /\ pc' = pc
    BY <1>2 DEF Settle, Debit, Credit, Take, Complete
  <2> QED
    BY <2>1, <2>2, TypesQuiet
<1>3. CASE RejectTimestamp(n)
  <2>1. TypeOK'
    BY <1>0, <1>3, PoppedIsPending DEF RejectTimestamp, Trimmed, tables, TypeOK
  <2>2. chain' = chain /\ pc' = pc
    BY <1>3 DEF RejectTimestamp
  <2> QED
    BY <2>1, <2>2, TypesQuiet
<1>4. ASSUME NEW t \in Txs, AddTransaction(n, t)
      PROVE  TypesInv'
  <2> DEFINE k == IF Length(n) >= MaxMempool /\ Length(n) > 0 THEN 1 ELSE 0
  <2>1. PICK p \in PopLowest(n, k) :
          /\ pending' = [pending EXCEPT ![n] = p.keep \cup {[tx |-> t, keyed |-> TRUE]}]
          /\ coinbases' = [coinbases EXCEPT ![n] = p.rewards]
    BY <1>4 DEF AddTransaction
  <2>2. p.keep \cup {[tx |-> t, keyed |-> TRUE]} \in SUBSET Entry /\ p.rewards \in 0 .. MaxRewards
    <3>1. p.keep \in SUBSET Entry /\ p.rewards \in 0 .. MaxRewards
      BY <1>0, PoppedIsPending
    <3>2. [tx |-> t, keyed |-> TRUE] \in Entry
      BY DEF Entry
    <3> QED
      BY <3>1, <3>2
  <2>3. rows' \in SUBSET Txs /\ accepted' \in SUBSET Txs
    BY <1>0, <1>4 DEF AddTransaction, TypeOK
  <2>4. TypeOK'
    BY <1>0, <1>4, <2>1, <2>2, <2>3 DEF AddTransaction, TypeOK
  <2>5. chain' = chain /\ pc' = pc
    BY <1>4 DEF AddTransaction
  <2> QED
    BY <2>4, <2>5, TypesQuiet
<1> QED
  BY <1>1, <1>2, <1>3, <1>4

LEMMA TypesBookkeeping ==
  ASSUME TypesInv, NEW n \in Nodes,
         \/ StartBlock(n) \/ RefuseBlock(n) \/ ClearPending(n) \/ FinishBlock(n)
         \/ FailBlock(n) \/ Crash(n)
  PROVE  TypesInv'
<1>0. TypeOK /\ pc \in [Nodes -> States] /\ chain \in [Nodes -> Seq(Block)]
  BY DEF TypesInv, TypeOK
<1>1. CASE StartBlock(n)
  <2>1. PICK p \in Trimmed(n) :
          /\ pending' = [pending EXCEPT ![n] = p.keep]
          /\ coinbases' = [coinbases EXCEPT ![n] = OneMore(p.rewards)]
    BY <1>1 DEF StartBlock
  <2>2. p.keep \in SUBSET Entry /\ p.rewards \in 0 .. MaxRewards
    BY <1>0, PoppedIsPending DEF Trimmed
  <2>3. OneMore(p.rewards) \in 0 .. MaxRewards
    BY <2>2, ConstantAssumption DEF OneMore
  <2>4. /\ Len(chain[n]) \in Heights /\ Len(chain[n]) <= MaxHeight
        /\ rewarded' \in SUBSET Heights
    <3>1. chain[n] \in Seq(Block) /\ Len(chain[n]) \in Nat /\ Len(chain[n]) <= MaxHeight
      BY <1>0, <1>1 DEF StartBlock
    <3>2. Len(chain[n]) \in Heights
      BY <3>1, ConstantAssumption DEF Heights
    <3> QED
      BY <1>0, <1>1, <3>1, <3>2 DEF StartBlock, TypeOK
  <2>5. pc[n] = "idle" /\ pc' = [pc EXCEPT ![n] = "build"] /\ chain' = chain
    BY <1>1 DEF StartBlock
  <2>6. TypeOK'
    BY <1>0, <1>1, <2>1, <2>2, <2>3, <2>4 DEF StartBlock, TypeOK, States
  <2>7. \A m \in Nodes : pc'[m] = pc[m] \/ (m = n /\ pc'[m] = "build")
    BY <1>0, <2>5, Zenon
  <2> QED
    BY <2>4, <2>5, <2>6, <2>7, TypesQuiet
<1>2. CASE RefuseBlock(n) \/ FailBlock(n) \/ FinishBlock(n)
  <2>1. pc[n] # "down" /\ pc' = [pc EXCEPT ![n] = "idle"] /\ chain' = chain
    BY <1>2 DEF RefuseBlock, FailBlock, FinishBlock, object
  <2>2. TypeOK'
    <3>1. CASE RefuseBlock(n) \/ FailBlock(n)
      BY <1>0, <3>1 DEF RefuseBlock, FailBlock, object, tables, TypeOK, States
    <3>2. CASE FinishBlock(n)
      BY <1>0, <3>2, ConstantAssumption DEF FinishBlock, tables, TypeOK, States
    <3> QED
      BY <1>2, <3>1, <3>2
  <2>3. \A m \in Nodes : pc'[m] = pc[m] \/ (m = n /\ pc'[m] = "idle")
    BY <1>0, <2>1, Zenon
  <2> QED
    BY <2>1, <2>2, <2>3, TypesQuiet
<1>3. CASE ClearPending(n)
  <2>1. pc[n] = "clear" /\ pc' = [pc EXCEPT ![n] = "settle"] /\ chain' = chain
    BY <1>3 DEF ClearPending
  <2>2. Tip(n).txs \in SUBSET Txs
    <3>1. chain[n] \in Seq(Block) /\ Len(chain[n]) \in 1 .. Len(chain[n])
      BY <1>0, <2>1 DEF TypesInv
    <3>2. Tip(n) \in Block
      BY <3>1 DEF Tip
    <3> QED
      BY <3>2 DEF Block
  <2>3. TypeOK'
    BY <1>0, <1>3, <2>2 DEF ClearPending, TypeOK, States
  <2>4. \A m \in Nodes : pc'[m] = pc[m] \/ (m = n /\ pc'[m] = "settle")
    BY <1>0, <2>1, Zenon
  <2> QED
    BY <2>1, <2>3, <2>4, TypesQuiet
<1>4. CASE Crash(n)
  <2>1. pc' = [pc EXCEPT ![n] = "down"] /\ chain' = [chain EXCEPT ![n] = <<>>]
    BY <1>4 DEF Crash
  <2>2. TypeOK'
    BY <1>0, <1>4, ConstantAssumption DEF Crash, tables, TypeOK, States
  <2>3. \A m \in Nodes : pc'[m] = "down" \/ (pc'[m] = pc[m] /\ chain'[m] = chain[m])
    BY <1>0, <2>1, Zenon
  <2> QED
    BY <2>2, <2>3, TypesQuiet
<1> QED
  BY <1>1, <1>2, <1>3, <1>4

LEMMA TypesBlocks ==
  ASSUME TypesInv, NEW n \in Nodes,
         \/ AppendBlock(n) \/ SaveBlock(n) \/ ResaveBlock(n) \/ Bootstrap(n) \/ Load(n)
  PROVE  TypesInv'
<1>0. TypeOK /\ pc \in [Nodes -> States] /\ chain \in [Nodes -> Seq(Block)]
  BY DEF TypesInv, TypeOK
<1>1. CASE AppendBlock(n)
  <2> DEFINE L == Len(chain[n])
  <2>1. PICK id \in Hashes :
          chain' = [chain EXCEPT ![n] = Append(@,
                      [hash |-> id, prev |-> Tip(n).hash, idx |-> Len(@),
                       txs |-> {e.tx : e \in pending[n]}, rewards |-> coinbases[n]])]
    BY <1>1 DEF AppendBlock
  <2> DEFINE T == {e.tx : e \in pending[n]}
             b == [hash |-> id, prev |-> Tip(n).hash, idx |-> L, txs |-> T, rewards |-> coinbases[n]]
  <2>2. pc[n] = "build" /\ pc' = [pc EXCEPT ![n] = "save"]
    BY <1>1 DEF AppendBlock
  <2>3. L \in Nat /\ L >= 1 /\ L \in Heights
    BY <1>0, <2>2, ConstantAssumption DEF TypesInv, Heights
  <2>4. Tip(n) \in Block
    BY <1>0, <2>3 DEF Tip
  <2>5. T \in SUBSET Txs
    BY <1>0 DEF TypeOK, Entry
  <2>6. Tip(n).hash \in Hashes /\ coinbases[n] \in 0 .. MaxRewards
    BY <1>0, <2>4 DEF Block, TypeOK
  <2>7. b \in Block
    <3> HIDE DEF T
    <3> QED
      BY <2>3, <2>5, <2>6 DEF Block
  <2>8. chain' = [chain EXCEPT ![n] = Append(chain[n], b)]
    BY <2>1
  <2> HIDE DEF b, T
  <2>9. /\ chain'[n] = Append(chain[n], b) /\ chain'[n] \in Seq(Block)
        /\ Len(chain'[n]) = L + 1
        /\ \A m \in Nodes : m # n => chain'[m] = chain[m]
    BY <1>0, <2>7, <2>8
  <2>10. TypeOK'
    <3>1. chain' \in [Nodes -> Seq(Block)]
      BY <1>0, <2>8, <2>9
    <3>2. pc' \in [Nodes -> States]
      BY <1>0, <2>2 DEF States
    <3> QED
      BY <1>0, <1>1, <3>1, <3>2 DEF AppendBlock, tables, TypeOK
  <2>11. pc'[n] = "save" /\ \A m \in Nodes : m # n => pc'[m] = pc[m]
    BY <1>0, <2>2
  <2> QED
    BY <2>3, <2>9, <2>10, <2>11 DEF TypesInv
<1>2. CASE SaveBlock(n) \/ ResaveBlock(n)
  <2>1. /\ WriteBlock(Tip(n)) /\ pc[n] # "down" /\ chain' = chain
        /\ UNCHANGED <<rows, rewarded, balances, object, accepted, crashes>>
        /\ \E s \in {"resave", "clear"} : pc' = [pc EXCEPT ![n] = s]
    BY <1>2 DEF SaveBlock, ResaveBlock, object
  <2>2. Tip(n) \in Block
    <3>1. chain[n] \in Seq(Block) /\ Len(chain[n]) \in 1 .. Len(chain[n])
      BY <1>0, <2>1 DEF TypesInv
    <3> QED
      BY <3>1 DEF Tip
  <2>3. [hash |-> Tip(n).hash, prev |-> Tip(n).prev] \in Link /\ Tip(n).idx \in Heights
    BY <2>2 DEF Block, Link
  <2>4. TypeOK'
    <3>1. blocks' \in [Heights -> Link \cup {None}] /\ included' \in [Txs -> Heights \cup {None}]
      BY <1>0, <2>1, <2>3 DEF WriteBlock, TypeOK
    <3>2. pc' \in [Nodes -> States]
      BY <1>0, <2>1 DEF States
    <3> QED
      BY <1>0, <2>1, <3>1, <3>2 DEF object, TypeOK
  <2>5. \A m \in Nodes : pc'[m] = pc[m] \/ (m = n /\ pc'[m] # "build")
    BY <1>0, <2>1
  <2> QED
    BY <2>1, <2>4, <2>5, TypesQuiet
<1>3. CASE Bootstrap(n)
  <2>1. PICK g \in Hashes : blocks' = [blocks EXCEPT ![0] = [hash |-> g, prev |-> NoHash]]
    BY <1>3 DEF Bootstrap
  <2>2. [hash |-> g, prev |-> NoHash] \in Link /\ 0 \in Heights
    BY ConstantAssumption DEF Link, Heights
  <2>3. TypeOK' /\ pc' = pc /\ chain' = chain
    BY <1>0, <1>3, <2>1, <2>2 DEF Bootstrap, object, TypeOK
  <2> QED
    BY <2>3, TypesQuiet
<1>4. CASE Load(n)
  <2>1. /\ Stored # {}
        /\ chain' = [chain EXCEPT ![n] = LoadChain]
        /\ pc' = [pc EXCEPT ![n] = "replay"]
    BY <1>4 DEF Load
  <2>2. LoadChain \in Seq(Block) /\ Len(LoadChain) \in Nat /\ Len(LoadChain) >= 1
    BY <1>0, <2>1, LoadedTypes
  <2>3. LoadChain[Len(LoadChain)].txs \in SUBSET Txs
    <3>1. LoadChain[Len(LoadChain)] \in Block
      BY <2>2
    <3> QED
      BY <3>1 DEF Block
  <2>4. TypeOK'
    BY <1>0, <1>4, <2>2, <2>3 DEF Load, tables, TypeOK, States
  <2>5. /\ pc'[n] = "replay" /\ chain'[n] = LoadChain
        /\ \A m \in Nodes : m # n => pc'[m] = pc[m] /\ chain'[m] = chain[m]
    BY <1>0, <2>1
  <2> QED
    BY <2>2, <2>4, <2>5 DEF TypesInv
<1> QED
  BY <1>1, <1>2, <1>3, <1>4

LEMMA TypesInit == Init => TypesInv
<1> SUFFICES ASSUME Init PROVE TypesInv
  OBVIOUS
<1>1. TypeOK
  BY ConstantAssumption DEF Init, TypeOK, Heights, States
<1> QED
  BY <1>1 DEF Init, TypesInv

LEMMA TypesStep == TypesInv /\ [Next]_vars => TypesInv'
<1> SUFFICES ASSUME TypesInv, [Next]_vars PROVE TypesInv'
  OBVIOUS
<1>1. CASE UNCHANGED vars
  BY <1>1 DEF vars, tables, object, TypesInv, TypeOK
<1>2. ASSUME NEW t \in ApiTxs, ApiSubmit(t)
      PROVE  TypesInv'
  BY <1>2, ConstantAssumption DEF ApiSubmit, object, TypesInv, TypeOK
<1>3. ASSUME NEW n \in Nodes,
             \/ Startup(n) \/ Settle(n) \/ Mine(n) \/ RejectTimestamp(n) \/ FailBlock(n)
             \/ Crash(n) \/ \E t \in Txs : AddTransaction(n, t)
      PROVE  TypesInv'
  BY <1>3, TypesMempool, TypesBookkeeping, TypesBlocks DEF Startup, Mine
<1> QED
  BY <1>1, <1>2, <1>3 DEF Next

(* However many objects there are, whatever the store refuses and wherever   *)
(* the processes die, every table and every object keeps its shape.          *)
THEOREM TypeCorrect == Spec => []TypeOK
<1>1. TypesInv => TypeOK
  BY DEF TypesInv
<1> QED
  BY <1>1, TypesInit, TypesStep, PTL DEF Spec

-----------------------------------------------------------------------------
(* The store of any number of objects, when it does not fail                 *)

LoadedMatchesStore ==
    /\ Cardinality(Stored) \in Nat
    /\ LoadChain \in Seq(Block)
    /\ Len(LoadChain) = Cardinality(Stored)
    /\ \A i \in 1 .. Cardinality(Stored) :
         /\ i - 1 \in Stored
         /\ LoadChain[i].idx = i - 1
         /\ blocks[i - 1] = [hash |-> LoadChain[i].hash, prev |-> LoadChain[i].prev]

(* With no gaps the i-th loaded block is the row of idx i - 1. *)
LEMMA LoadedChain == TypeOK /\ NoGaps => LoadedMatchesStore
<1> SUFFICES ASSUME TypeOK, NoGaps
             PROVE  LoadedMatchesStore
  OBVIOUS
<1> DEFINE K == Cardinality(Stored)
<1>1. K \in Nat
  <2>1. Stored \subseteq Heights
    BY DEF Stored
  <2>2. IsFiniteSet(Heights)
    BY FS_Interval, ConstantAssumption DEF Heights
  <2> QED
    BY <2>1, <2>2, FS_Subset, FS_CardinalityType
<1>2. ASSUME NEW h \in Stored
      PROVE  Cardinality({j \in Stored : j < h}) = h
  <2>1. h \in Nat /\ {j \in Stored : j < h} = 0 .. h - 1
    BY <1>1, <1>2 DEF NoGaps
  <2>2. Cardinality(0 .. h - 1) = IF 0 > h - 1 THEN 0 ELSE (h - 1) - 0 + 1
    BY <2>1, FS_Interval
  <2>3. Cardinality(0 .. h - 1) = h
    BY <2>1, <2>2
  <2> QED
    BY <2>1, <2>3, Zenon
<1>3. ASSUME NEW i \in 1 .. K
      PROVE  (CHOOSE k \in Stored : Cardinality({j \in Stored : j < k}) = i - 1) = i - 1
  <2>1. i - 1 \in Stored
    BY <1>1 DEF NoGaps
  <2> QED
    BY <1>2, <2>1
<1>4. ASSUME NEW i \in 1 .. K
      PROVE  /\ i - 1 \in Stored
             /\ LoadChain[i] = [hash |-> blocks[i - 1].hash, prev |-> blocks[i - 1].prev,
                                idx |-> i - 1, txs |-> {t \in Txs : included[t] = i - 1},
                                rewards |-> 0]
  <2>1. i - 1 \in Stored
    BY <1>1 DEF NoGaps
  <2> DEFINE h == CHOOSE k \in Stored : Cardinality({j \in Stored : j < k}) = i - 1
  <2>2. LoadChain[i] = [hash |-> blocks[h].hash, prev |-> blocks[h].prev, idx |-> h,
                        txs |-> {t \in Txs : included[t] = h}, rewards |-> 0]
    BY DEF LoadChain
  <2>3. h = i - 1
    BY <1>3
  <2> QED
    BY <2>1, <2>2, <2>3
<1>5. ASSUME NEW i \in 1 .. K
      PROVE  /\ blocks[i - 1] \in Link
             /\ i - 1 \in Heights
  BY <1>4 DEF TypeOK, Stored
<1>6. ASSUME NEW i \in 1 .. K
      PROVE  LoadChain[i] \in Block
  <2>1. 0 \in 0 .. MaxRewards
    BY ConstantAssumption
  <2> DEFINE T == {t \in Txs : included[t] = i - 1}
  <2>2. T \in SUBSET Txs
    OBVIOUS
  <2>3. blocks[i - 1].hash \in Hashes /\ blocks[i - 1].prev \in Hashes \cup {NoHash}
    BY <1>5 DEF Link
  <2>4. LoadChain[i] = [hash |-> blocks[i - 1].hash, prev |-> blocks[i - 1].prev,
                        idx |-> i - 1, txs |-> T, rewards |-> 0]
    BY <1>4
  <2> HIDE DEF T
  <2> QED
    BY <1>5, <2>1, <2>2, <2>3, <2>4 DEF Block
<1>7. LoadChain \in Seq(Block) /\ Len(LoadChain) = K
  <2>1. LoadChain \in [1 .. K -> Block]
    BY <1>6 DEF LoadChain
  <2> QED
    BY <1>1, <2>1, SeqDef
<1> QED
  BY <1>1, <1>4, <1>5, <1>7 DEF Link, LoadedMatchesStore

(* Steps that leave the stored heights alone, start no save and only add     *)
(* reward rows keep everything but the types.                                *)
LEMMA QuietStep ==
  ASSUME Inv,
         Stored' = Stored,
         rewarded \subseteq rewarded',
         \A n \in Nodes :
            \/ pc'[n] = "down"
            \/ /\ chain'[n] = chain[n]
               /\ \/ pc'[n] = pc[n]
                  \/ /\ pc[n] \notin {"down", "save"}
                     /\ pc'[n] \notin {"save", "resave"}
                     /\ pc'[n] = "build" => Len(chain[n]) \in rewarded'
  PROVE  NoGaps' /\ ChainsFit' /\ UnsavedBlockFits' /\ BlocksAreRewarded'
<1>1. NoGaps' /\ BlocksAreRewarded'
  BY DEF Inv, NoGaps, BlocksAreRewarded
<1>2. ChainsFit'
  BY DEF Inv, ChainsFit, Saved
<1>3. UnsavedBlockFits'
  BY DEF Inv, UnsavedBlockFits, Tip
<1> QED
  BY <1>1, <1>2, <1>3

LEMMA InvTypes == Inv => TypesInv
<1> SUFFICES ASSUME Inv, NEW n \in Nodes
             PROVE  /\ pc[n] # "down" => Len(chain[n]) >= 1
                    /\ pc[n] = "build" => Len(chain[n]) <= MaxHeight
  BY DEF Inv, TypesInv
<1>1. Len(chain[n]) \in Nat
  BY DEF Inv, TypeOK
<1>2. pc[n] # "down" => Len(chain[n]) >= 1
  BY <1>1 DEF Inv, ChainsFit, Saved
<1>3. pc[n] = "build" => Len(chain[n]) <= MaxHeight
  BY <1>1 DEF Inv, UnsavedBlockFits, TypeOK, Heights
<1> QED
  BY <1>2, <1>3

LEMMA InvInit == Init => Inv
<1> SUFFICES ASSUME Init PROVE Inv
  OBVIOUS
<1>1. Stored = {}
  BY DEF Init, Stored
<1>2. TypeOK
  BY ConstantAssumption DEF Init, TypeOK, Heights, States
<1>3. NoGaps /\ BlocksAreRewarded
  BY <1>1, FS_EmptySet DEF NoGaps, BlocksAreRewarded
<1>4. ChainsFit /\ UnsavedBlockFits
  BY DEF Init, ChainsFit, UnsavedBlockFits
<1> QED
  BY <1>2, <1>3, <1>4 DEF Inv

(* The steps of the mempool and of the balance loop. *)
LEMMA InvMempool ==
  ASSUME Inv, ~MayFail,
         NEW n \in Nodes,
         \/ LoadPending(n) \/ Settle(n) \/ RejectTimestamp(n)
         \/ \E t \in Txs : AddTransaction(n, t)
  PROVE  Inv'
<1> USE DEF Inv
<1>types. TypeOK'
  BY InvTypes, TypesMempool DEF TypesInv
<1>1. CASE LoadPending(n)
  <2>2. Stored' = Stored /\ rewarded' = rewarded /\ chain' = chain
    BY <1>1 DEF LoadPending, tables, Stored
  <2>3. \A m \in Nodes : pc'[m] = pc[m] \/ (pc[m] = "replay" /\ pc'[m] = "idle")
    <3>1. pc \in [Nodes -> States] /\ pc[n] = "replay" /\ pc' = [pc EXCEPT ![n] = "idle"]
      BY <1>1 DEF LoadPending, TypeOK
    <3> QED
      BY <3>1, Zenon
  <2> QED
    BY <1>types, <2>2, <2>3, QuietStep
<1>2. CASE Settle(n)
  <2>2. blocks' = blocks /\ rewarded' = rewarded /\ chain' = chain /\ pc' = pc
    BY <1>2 DEF Settle, Debit, Credit, Take, Complete
  <2>3. Stored' = Stored
    BY <2>2 DEF Stored
  <2> QED
    BY <1>types, <2>2, <2>3, QuietStep
<1>3. CASE RejectTimestamp(n)
  <2>2. Stored' = Stored /\ rewarded' = rewarded /\ chain' = chain /\ pc' = pc
    BY <1>3 DEF RejectTimestamp, tables, Stored
  <2> QED
    BY <1>types, <2>2, QuietStep
<1>4. CASE \E t \in Txs : AddTransaction(n, t)
  <2>1. PICK t \in Txs : AddTransaction(n, t)
    BY <1>4
  <2>4. Stored' = Stored /\ rewarded' = rewarded /\ chain' = chain /\ pc' = pc
    BY <2>1 DEF AddTransaction, Stored
  <2> QED
    BY <1>types, <2>4, QuietStep
<1> QED
  BY <1>1, <1>2, <1>3, <1>4

(* The steps of add_block that leave the tables' heights and the chain alone. *)
LEMMA InvBookkeeping ==
  ASSUME Inv, ~MayFail,
         NEW n \in Nodes,
         StartBlock(n) \/ RefuseBlock(n) \/ ClearPending(n) \/ FinishBlock(n) \/ Crash(n)
  PROVE  Inv'
<1> USE DEF Inv
<1>types. TypeOK'
  BY InvTypes, TypesBookkeeping DEF TypesInv
<1>0. pc \in [Nodes -> States] /\ chain \in [Nodes -> Seq(Block)]
  BY DEF TypeOK
<1>1. CASE StartBlock(n)
  <2>1. PICK p \in Trimmed(n) :
          /\ pending' = [pending EXCEPT ![n] = p.keep]
          /\ coinbases' = [coinbases EXCEPT ![n] = OneMore(p.rewards)]
    BY <1>1 DEF StartBlock
  <2>4. Len(chain[n]) \in Heights /\ rewarded' = rewarded \cup {Len(chain[n])}
    BY <1>0, <1>1, ConstantAssumption DEF StartBlock, Heights
  <2>5. pc[n] = "idle" /\ pc' = [pc EXCEPT ![n] = "build"] /\ chain' = chain
    BY <1>1 DEF StartBlock
  <2>7. Stored' = Stored
    BY <1>1 DEF StartBlock, Stored
  <2>8. \A m \in Nodes : pc'[m] = pc[m] \/ (m = n /\ pc'[m] = "build")
    BY <1>0, <2>5, Zenon
  <2> QED
    BY <2>4, <2>5, <1>types, <2>7, <2>8, QuietStep
<1>2. CASE RefuseBlock(n)
  <2>1. pc[n] = "build" /\ pc' = [pc EXCEPT ![n] = "idle"] /\ chain' = chain /\ rewarded' = rewarded
    BY <1>2 DEF RefuseBlock, tables, object
  <2>3. Stored' = Stored
    BY <1>2 DEF RefuseBlock, tables, Stored
  <2>4. \A m \in Nodes : pc'[m] = pc[m] \/ (m = n /\ pc'[m] = "idle")
    BY <1>0, <2>1, Zenon
  <2> QED
    BY <2>1, <1>types, <2>3, <2>4, QuietStep
<1>3. CASE ClearPending(n)
  <2>1. pc[n] = "clear" /\ pc' = [pc EXCEPT ![n] = "settle"] /\ chain' = chain /\ rewarded' = rewarded
    BY <1>3 DEF ClearPending
  <2>4. Stored' = Stored
    BY <1>3 DEF ClearPending, Stored
  <2>5. \A m \in Nodes : pc'[m] = pc[m] \/ (m = n /\ pc'[m] = "settle")
    BY <1>0, <2>1, Zenon
  <2> QED
    BY <2>1, <1>types, <2>4, <2>5, QuietStep
<1>4. CASE FinishBlock(n)
  <2>1. pc[n] = "settle" /\ pc' = [pc EXCEPT ![n] = "idle"] /\ chain' = chain /\ rewarded' = rewarded
    BY <1>4 DEF FinishBlock, tables
  <2>3. Stored' = Stored
    BY <1>4 DEF FinishBlock, tables, Stored
  <2>4. \A m \in Nodes : pc'[m] = pc[m] \/ (m = n /\ pc'[m] = "idle")
    BY <1>0, <2>1, Zenon
  <2> QED
    BY <2>1, <1>types, <2>3, <2>4, QuietStep
<1>5. CASE Crash(n)
  <2>1. /\ pc' = [pc EXCEPT ![n] = "down"]
        /\ chain' = [chain EXCEPT ![n] = <<>>]
        /\ rewarded' = rewarded
    BY <1>5 DEF Crash, tables
  <2>3. Stored' = Stored
    BY <1>5 DEF Crash, tables, Stored
  <2>4. \A m \in Nodes : pc'[m] = "down" \/ (pc'[m] = pc[m] /\ chain'[m] = chain[m])
    BY <1>0, <2>1, Zenon
  <2> QED
    BY <2>1, <1>types, <2>3, <2>4, QuietStep
<1> QED
  BY <1>1, <1>2, <1>3, <1>4, <1>5

(* A row at an index that is stored or the next one leaves no gap. *)
LEMMA StoreRow ==
  ASSUME TypeOK, NoGaps,
         NEW h \in Heights, h <= Cardinality(Stored),
         NEW r \in Link, blocks' = [blocks EXCEPT ![h] = r]
  PROVE  /\ Stored' = Stored \cup {h}
         /\ NoGaps'
         /\ Cardinality(Stored)' = IF h \in Stored THEN Cardinality(Stored)
                                   ELSE Cardinality(Stored) + 1
<1> DEFINE K == Cardinality(Stored)
<1>1. K \in Nat
  BY LoadedChain DEF LoadedMatchesStore
<1>2. Stored' = Stored \cup {h}
  BY ConstantAssumption DEF TypeOK, Stored
<1>3. h \in Nat /\ Stored = 0 .. K - 1
  BY ConstantAssumption DEF Heights, NoGaps
<1>4. CASE h \in Stored
  <2>1. Stored' = Stored
    BY <1>2, <1>4
  <2> QED
    BY <1>2, <1>4, <2>1 DEF NoGaps
<1>5. CASE h \notin Stored
  <2>1. h = K
    BY <1>1, <1>3, <1>5
  <2>2. Stored' = 0 .. K
    BY <1>1, <1>2, <1>3, <2>1
  <2>3. Cardinality(0 .. K) = K + 1
    BY <1>1, FS_Interval
  <2>4. Cardinality(Stored') = K + 1
    BY <2>2, <2>3, Zenon
  <2> HIDE DEF K
  <2>5. NoGaps'
    BY <1>1, <2>2, <2>4 DEF NoGaps
  <2> QED
    BY <1>2, <1>5, <2>4, <2>5 DEF K
<1> QED
  BY <1>4, <1>5

(* Both saves of a block write the row of the next height, or one that is    *)
(* already there.                                                            *)
LEMMA InvSave ==
  ASSUME Inv, NEW n \in Nodes, SaveBlock(n) \/ ResaveBlock(n)
  PROVE  Inv' /\ blocks' = [blocks EXCEPT ![Len(chain[n]) - 1] =
                              [hash |-> Tip(n).hash, prev |-> Tip(n).prev]]
<1> USE DEF Inv
<1>types. TypeOK'
  BY InvTypes, TypesBlocks DEF TypesInv
<1> DEFINE h == Len(chain[n]) - 1
           K == Cardinality(Stored)
<1>0. pc \in [Nodes -> States] /\ chain \in [Nodes -> Seq(Block)] /\ K \in Nat
  BY LoadedChain DEF TypeOK, LoadedMatchesStore
<1>1. /\ WriteBlock(Tip(n))
      /\ UNCHANGED <<rows, rewarded, balances, object, accepted, crashes>>
      /\ \/ pc[n] = "save" /\ pc' = [pc EXCEPT ![n] = "resave"]
         \/ pc[n] = "resave" /\ pc' = [pc EXCEPT ![n] = "clear"]
  BY DEF SaveBlock, ResaveBlock
<1>2. Len(chain[n]) \in Nat /\ Len(chain[n]) > 1 /\ h <= K
  BY <1>0, <1>1 DEF ChainsFit, UnsavedBlockFits, Saved
<1>3. Tip(n) \in Block
  <2>1. chain[n] \in Seq(Block) /\ Len(chain[n]) \in 1 .. Len(chain[n])
    BY <1>0, <1>2
  <2> QED
    BY <2>1 DEF Tip
<1>4. Tip(n).idx = h /\ h \in rewarded /\ h \in Heights
  BY <1>1, <1>3 DEF UnsavedBlockFits, Block
<1>5. [hash |-> Tip(n).hash, prev |-> Tip(n).prev] \in Link
  BY <1>3 DEF Block, Link
<1>6. blocks' = [blocks EXCEPT ![h] = [hash |-> Tip(n).hash, prev |-> Tip(n).prev]]
  BY <1>1, <1>4 DEF WriteBlock
<1>7. /\ Stored' = Stored \cup {h}
      /\ NoGaps'
      /\ Cardinality(Stored)' = IF h \in Stored THEN K ELSE K + 1
  BY <1>2, <1>4, <1>5, <1>6, StoreRow
<1>9. /\ chain' = chain /\ rewarded' = rewarded
      /\ \A m \in Nodes : \/ pc'[m] = pc[m] /\ m # n
                          \/ m = n /\ pc[m] = "save" /\ pc'[m] = "resave"
                          \/ m = n /\ pc[m] = "resave" /\ pc'[m] = "clear"
  BY <1>0, <1>1 DEF object
<1>10. ChainsFit'
  <2>1. K <= Cardinality(Stored)' /\ h + 1 <= Cardinality(Stored)'
    <3>1. CASE h \in Stored
      BY <1>0, <1>2, <1>7, <3>1 DEF NoGaps
    <3>2. CASE h \notin Stored
      BY <1>0, <1>2, <1>7, <3>2
    <3> QED
      BY <3>1, <3>2
  <2>2. Cardinality(Stored)' \in Nat
    BY <1>0, <1>7
  <2> SUFFICES ASSUME NEW m \in Nodes, pc'[m] # "down"
               PROVE  Saved(m)' \in 1 .. Cardinality(Stored)'
    BY Zenon DEF ChainsFit
  <2>3. CASE m = n
    BY <1>0, <1>2, <1>9, <2>1, <2>2, <2>3 DEF Saved
  <2>4. CASE m # n
    <3>1. Saved(m)' = Saved(m) /\ pc[m] # "down"
      BY <1>9, <2>4 DEF Saved
    <3>2. Saved(m) \in 1 .. K
      BY <3>1 DEF ChainsFit
    <3> QED
      BY <1>0, <2>1, <2>2, <3>1, <3>2
  <2> QED
    BY <2>3, <2>4
<1>11. UnsavedBlockFits'
  BY <1>9 DEF UnsavedBlockFits, Tip
<1>12. BlocksAreRewarded'
  BY <1>4, <1>7, <1>9 DEF BlocksAreRewarded
<1> QED
  BY <1>6, <1>7, <1>types, <1>10, <1>11, <1>12

(* An appended block takes the next index and names the old tip. *)
LEMMA InvAppend ==
  ASSUME Inv, NEW n \in Nodes, AppendBlock(n)
  PROVE  /\ Inv'
         /\ Len(chain'[n]) = Len(chain[n]) + 1
         /\ \A i \in 1 .. Len(chain[n]) : chain'[n][i] = chain[n][i]
<1> USE DEF Inv
<1>types. TypeOK'
  BY InvTypes, TypesBlocks DEF TypesInv
<1> DEFINE L == Len(chain[n])
<1>0. pc \in [Nodes -> States] /\ chain \in [Nodes -> Seq(Block)]
  BY DEF TypeOK
<1>1. PICK id \in Hashes :
        chain' = [chain EXCEPT ![n] = Append(@,
                    [hash |-> id, prev |-> Tip(n).hash, idx |-> Len(@),
                     txs |-> {e.tx : e \in pending[n]}, rewards |-> coinbases[n]])]
  BY DEF AppendBlock
<1> DEFINE b == [hash |-> id, prev |-> Tip(n).hash, idx |-> L,
                 txs |-> {e.tx : e \in pending[n]}, rewards |-> coinbases[n]]
<1>2. pc[n] = "build" /\ pc' = [pc EXCEPT ![n] = "save"] /\ UNCHANGED <<blocks, rewarded>>
  BY DEF AppendBlock, tables
<1>3. L \in Nat /\ L >= 1 /\ L \in rewarded /\ L \in Heights
  BY <1>0, <1>2 DEF ChainsFit, UnsavedBlockFits, Saved, TypeOK
<1>4. Tip(n) = chain[n][L] /\ Tip(n) \in Block
  BY <1>0, <1>3 DEF Tip
<1>5. b \in Block
  <2> DEFINE T == {e.tx : e \in pending[n]}
  <2>1. T \in SUBSET Txs
    BY DEF TypeOK, Entry
  <2>2. Tip(n).hash \in Hashes /\ coinbases[n] \in 0 .. MaxRewards
    BY <1>4 DEF Block, TypeOK
  <2> HIDE DEF T
  <2>3. [hash |-> id, prev |-> Tip(n).hash, idx |-> L, txs |-> T,
         rewards |-> coinbases[n]] \in Block
    BY <1>3, <2>1, <2>2 DEF Block
  <2> QED
    BY <2>3 DEF T
<1> HIDE DEF b
<1>6. chain' = [chain EXCEPT ![n] = Append(chain[n], b)]
  BY <1>1 DEF b
<1>7. /\ chain'[n] = Append(chain[n], b) /\ chain'[n] \in Seq(Block)
      /\ Len(chain'[n]) = L + 1 /\ chain'[n][L + 1] = b
      /\ \A i \in 1 .. L : chain'[n][i] = chain[n][i]
  BY <1>0, <1>5, <1>6
<1>9. \A m \in Nodes : m # n => pc'[m] = pc[m] /\ chain'[m] = chain[m]
  BY <1>0, <1>2, <1>6
<1>10. Stored' = Stored /\ pc'[n] = "save"
  BY <1>0, <1>2 DEF Stored
<1>11. NoGaps' /\ BlocksAreRewarded'
  BY <1>2, <1>10 DEF NoGaps, BlocksAreRewarded
<1>12. ChainsFit'
  <2>1. Saved(n)' = Saved(n)
    BY <1>2, <1>3, <1>7, <1>10 DEF Saved
  <2>2. \A m \in Nodes : m # n => Saved(m)' = Saved(m)
    BY <1>9 DEF Saved
  <2> QED
    BY <1>2, <1>9, <1>10, <2>1, <2>2 DEF ChainsFit
<1>13. UnsavedBlockFits'
  <2>1. Tip(n)' = b /\ b.idx = L /\ b.prev = chain'[n][L].hash
    BY <1>3, <1>4, <1>7 DEF Tip, b
  <2>2. \A m \in Nodes : m # n => Tip(m)' = Tip(m)
    BY <1>9 DEF Tip
  <2> QED
    BY <1>2, <1>3, <1>7, <1>9, <1>10, <2>1, <2>2 DEF UnsavedBlockFits
<1> QED
  BY <1>7, <1>types, <1>11, <1>12, <1>13

LEMMA InvStartup ==
  ASSUME Inv, NEW n \in Nodes, Bootstrap(n) \/ Load(n)
  PROVE  Inv'
<1> USE DEF Inv
<1>types. TypeOK'
  BY InvTypes, TypesBlocks DEF TypesInv
<1>0. pc \in [Nodes -> States] /\ chain \in [Nodes -> Seq(Block)]
  BY DEF TypeOK
<1>1. CASE Bootstrap(n)
  <2>1. PICK g \in Hashes : blocks' = [blocks EXCEPT ![0] = [hash |-> g, prev |-> NoHash]]
    BY <1>1 DEF Bootstrap
  <2>2. [hash |-> g, prev |-> NoHash] \in Link /\ 0 \in Heights
    BY ConstantAssumption DEF Link, Heights
  <2>3. Stored = {} /\ Cardinality(Stored) = 0
    BY <1>1, FS_EmptySet DEF Bootstrap
  <2>4. /\ Stored' = {0}
        /\ NoGaps'
        /\ Cardinality(Stored)' = 1
    <3>1. TypeOK /\ NoGaps /\ 0 <= Cardinality(Stored) /\ 0 \notin Stored
      BY <2>3
    <3>2. /\ Stored' = Stored \cup {0}
          /\ NoGaps'
          /\ Cardinality(Stored)' = IF 0 \in Stored THEN Cardinality(Stored)
                                    ELSE Cardinality(Stored) + 1
      BY <2>1, <2>2, <3>1, StoreRow
    <3> QED
      BY <2>3, <3>1, <3>2
  <2>5. \A m \in Nodes : pc[m] = "down"
    BY <2>3 DEF ChainsFit
  <2>6. pc' = pc /\ chain' = chain /\ rewarded' = rewarded
    BY <1>1 DEF Bootstrap, object
  <2> QED
    BY <2>4, <2>5, <2>6, <1>types DEF ChainsFit, UnsavedBlockFits, BlocksAreRewarded
<1>2. CASE Load(n)
  <2>1. /\ pc[n] = "down" /\ Stored # {}
        /\ chain' = [chain EXCEPT ![n] = LoadChain]
        /\ pc' = [pc EXCEPT ![n] = "replay"]
        /\ UNCHANGED <<blocks, rewarded>>
    BY <1>2 DEF Load, tables
  <2>2. LoadedMatchesStore
    BY LoadedChain
  <2>3. Len(LoadChain) \in 1 .. Cardinality(Stored)
    BY <2>1, <2>2, FS_EmptySet DEF LoadedMatchesStore, NoGaps
  <2>6. Stored' = Stored
    BY <2>1 DEF Stored
  <2>7. /\ pc'[n] = "replay" /\ chain'[n] = LoadChain
        /\ \A m \in Nodes : m # n => pc'[m] = pc[m] /\ chain'[m] = chain[m]
    BY <1>0, <2>1
  <2>8. NoGaps' /\ BlocksAreRewarded'
    BY <2>1, <2>6 DEF NoGaps, BlocksAreRewarded
  <2>9. ChainsFit'
    BY <2>3, <2>6, <2>7 DEF ChainsFit, Saved
  <2>10. UnsavedBlockFits'
    BY <2>1, <2>7 DEF UnsavedBlockFits, Tip
  <2> QED
    BY <1>types, <2>8, <2>9, <2>10
<1> QED
  BY <1>1, <1>2

(* Every step of any number of objects preserves the invariant. *)
LEMMA InvStep == ~MayFail /\ Inv /\ [Next]_vars => Inv'
<1> SUFFICES ASSUME ~MayFail, Inv, [Next]_vars
             PROVE  Inv'
  OBVIOUS
<1>1. CASE \E t \in ApiTxs : ApiSubmit(t)
  <2>1. TypeOK'
    BY <1>1, ConstantAssumption DEF Inv, ApiSubmit, object, TypeOK
  <2>2. Stored' = Stored /\ rewarded' = rewarded /\ chain' = chain /\ pc' = pc
    BY <1>1 DEF ApiSubmit, object, Stored
  <2> QED
    BY <2>1, <2>2, QuietStep DEF Inv
<1>2. ASSUME NEW n \in Nodes,
             \/ LoadPending(n) \/ Settle(n) \/ RejectTimestamp(n)
             \/ \E t \in Txs : AddTransaction(n, t)
      PROVE  Inv'
  BY <1>2, InvMempool
<1>3. ASSUME NEW n \in Nodes,
             StartBlock(n) \/ RefuseBlock(n) \/ ClearPending(n) \/ FinishBlock(n) \/ Crash(n)
      PROVE  Inv'
  BY <1>3, InvBookkeeping
<1>4. ASSUME NEW n \in Nodes, SaveBlock(n) \/ ResaveBlock(n)
      PROVE  Inv'
  BY <1>4, InvSave
<1>5. ASSUME NEW n \in Nodes, AppendBlock(n)
      PROVE  Inv'
  BY <1>5, InvAppend
<1>6. ASSUME NEW n \in Nodes, Bootstrap(n) \/ Load(n)
      PROVE  Inv'
  BY <1>6, InvStartup
<1>7. ASSUME NEW n \in Nodes, FailBlock(n)
      PROVE  Inv'
  BY <1>7 DEF FailBlock
<1>8. CASE UNCHANGED vars
  BY <1>8 DEF vars, tables, object, Inv, TypeOK, Stored, NoGaps, ChainsFit, Saved,
              UnsavedBlockFits, Tip, BlocksAreRewarded
<1> QED
  BY <1>1, <1>2, <1>3, <1>4, <1>5, <1>6, <1>7, <1>8 DEF Next, Startup, Mine

(* On a store that does not fail, whatever number of objects write to it and *)
(* wherever they die: the heights have no gaps, no object is more than its   *)
(* unsaved block ahead, and every block has its mining_rewards row.          *)
THEOREM StoreInvariant == ASSUME ~MayFail PROVE Spec => []Inv
<1>1. Init => Inv
  BY InvInit
<1>2. Inv /\ [Next]_vars => Inv'
  BY InvStep
<1> QED
  BY <1>1, <1>2, PTL DEF Spec

(* Every stored block after genesis has its mining_rewards row. *)
THEOREM RewardRowsExist == ASSUME ~MayFail PROVE Spec => []BlocksAreRewarded
<1>1. Inv => BlocksAreRewarded
  BY DEF Inv
<1> QED
  BY <1>1, StoreInvariant, PTL

-----------------------------------------------------------------------------
(* One miner                                                                 *)

(* The abstract ledger is the blocks table read by idx. *)
LEMMA StoredLedgerRows ==
  TypeOK /\ NoGaps
    => /\ Cardinality(Stored) \in Nat
       /\ StoredLedger = [i \in 1 .. Cardinality(Stored) |-> blocks[i - 1]]
       /\ StoredLedger \in Seq(Link)
<1> SUFFICES ASSUME TypeOK, NoGaps
             PROVE  /\ Cardinality(Stored) \in Nat
                    /\ StoredLedger = [i \in 1 .. Cardinality(Stored) |-> blocks[i - 1]]
                    /\ StoredLedger \in Seq(Link)
  OBVIOUS
<1>1. LoadedMatchesStore
  BY LoadedChain
<1>2. StoredLedger = [i \in 1 .. Cardinality(Stored) |-> blocks[i - 1]]
  BY <1>1 DEF StoredLedger, LoadedMatchesStore
<1>3. \A i \in 1 .. Cardinality(Stored) : blocks[i - 1] \in Link
  BY <1>1 DEF LoadedMatchesStore, TypeOK, Stored
<1>4. Cardinality(Stored) \in Nat
  BY <1>1 DEF LoadedMatchesStore
<1>5. StoredLedger \in [1 .. Cardinality(Stored) -> Link]
  BY <1>2, <1>3
<1>6. StoredLedger \in Seq(Link)
  BY <1>4, <1>5, SeqDef
<1> QED
  BY <1>2, <1>4, <1>6

(* A single object always holds the stored chain. *)
LEMMA MemoryStep ==
  ASSUME NEW m, Nodes = {m}, ~MayFail, Inv, Inv', MemoryMatchesStore, [Next]_vars
  PROVE  MemoryMatchesStore'
<1>0. pc \in [Nodes -> States] /\ chain \in [Nodes -> Seq(Block)]
  BY DEF Inv, TypeOK
<1>1. m \in Nodes /\ (pc[m] # "down" => Matches(m))
  BY DEF MemoryMatchesStore
<1>2. SUFFICES ASSUME pc'[m] # "down" PROVE Matches(m)'
  BY DEF MemoryMatchesStore
<1>3. ASSUME pc[m] # "down", blocks' = blocks, chain'[m] = chain[m],
             pc'[m] = pc[m] \/ (pc[m] # "save" /\ pc'[m] # "save")
      PROVE  Matches(m)'
  <2>1. Stored' = Stored /\ Saved(m)' = Saved(m)
    BY <1>3 DEF Stored, Saved
  <2> QED
    BY <1>1, <1>3, <2>1 DEF Matches
<1>4. CASE Load(m)
  <2>1. LoadedMatchesStore
    BY LoadedChain DEF Inv
  <2>2. /\ Stored # {} /\ UNCHANGED blocks
        /\ pc'[m] = "replay" /\ chain'[m] = LoadChain
    BY <1>0, <1>1, <1>4 DEF Load, tables
  <2>3. Stored' = Stored /\ Saved(m)' = Cardinality(Stored) /\ Cardinality(Stored) >= 1
    <3>1. Stored' = Stored
      BY <2>2 DEF Stored
    <3>2. Saved(m)' = Len(LoadChain)
      BY <2>2 DEF Saved
    <3>3. Cardinality(Stored) \in Nat /\ Len(LoadChain) = Cardinality(Stored)
      BY <2>1 DEF LoadedMatchesStore
    <3>4. Cardinality(Stored) # 0
      BY <2>2, <3>3 DEF Inv, NoGaps
    <3> QED
      BY <3>1, <3>2, <3>3, <3>4
  <2> QED
    BY <2>1, <2>2, <2>3 DEF Matches, LoadedMatchesStore
<1>5. CASE AppendBlock(m)
  <2>1. pc[m] = "build" /\ pc'[m] = "save" /\ UNCHANGED blocks
    BY <1>0, <1>1, <1>5 DEF AppendBlock, tables
  <2>2. /\ Len(chain'[m]) = Len(chain[m]) + 1
        /\ \A i \in 1 .. Len(chain[m]) : chain'[m][i] = chain[m][i]
    BY <1>1, <1>5, InvAppend
  <2>3. Stored' = Stored /\ Saved(m)' = Saved(m) /\ Saved(m) = Len(chain[m])
    BY <1>0, <1>1, <2>1, <2>2 DEF Stored, Saved
  <2> QED
    BY <1>1, <2>1, <2>2, <2>3 DEF Matches
<1>6. CASE SaveBlock(m) \/ ResaveBlock(m)
  <2> DEFINE L == Len(chain[m])
  <2>1. /\ Inv'
        /\ blocks' = [blocks EXCEPT ![L - 1] = [hash |-> Tip(m).hash, prev |-> Tip(m).prev]]
    BY <1>1, <1>6, InvSave
  <2>2. /\ chain' = chain
        /\ pc[m] \in {"save", "resave"} /\ pc'[m] # "save"
        /\ pc[m] = "resave" => pc'[m] = "clear"
    BY <1>0, <1>1, <1>6 DEF SaveBlock, ResaveBlock, object
  <2>3. /\ L \in Nat /\ L > 1 /\ Tip(m).idx = L - 1
        /\ Tip(m) = chain[m][L] /\ L - 1 \in Heights
    BY <1>0, <1>1, <2>2 DEF Inv, UnsavedBlockFits, BlocksAreRewarded, TypeOK, Tip
  <2>4. blocks \in [Heights -> Link \cup {None}]
    BY DEF Inv, TypeOK
  <2>5. blocks'[L - 1] = [hash |-> chain[m][L].hash, prev |-> chain[m][L].prev]
    BY <2>1, <2>3, <2>4
  <2>6. chain[m][L] \in Block /\ blocks'[L - 1] # None
    <3>1. chain[m][L] \in Block
      BY <1>0, <1>1, <2>3
    <3>2. blocks'[L - 1] \in Link
      BY <2>5, <3>1 DEF Block, Link
    <3> QED
      BY <3>1, <3>2, ConstantAssumption
  <2>7. /\ Saved(m)' = L
        /\ Saved(m) \in {L - 1, L}
        /\ \A i \in 1 .. L - 1 : /\ i - 1 \in Stored
                               /\ chain[m][i].idx = i - 1
                               /\ blocks[i - 1] = [hash |-> chain[m][i].hash,
                                                   prev |-> chain[m][i].prev]
    BY <1>1, <2>2, <2>3 DEF Saved, Matches
  <2>8. Stored' = Stored \cup {L - 1}
    BY <2>1, <2>3, <2>4, <2>6 DEF Stored
  <2>9. \A i \in 1 .. L : /\ i - 1 \in Stored'
                         /\ chain'[m][i].idx = i - 1
                         /\ blocks'[i - 1] = [hash |-> chain'[m][i].hash,
                                              prev |-> chain'[m][i].prev]
    <3> SUFFICES ASSUME NEW i \in 1 .. L
                 PROVE  /\ i - 1 \in Stored'
                        /\ chain'[m][i].idx = i - 1
                        /\ blocks'[i - 1] = [hash |-> chain'[m][i].hash,
                                             prev |-> chain'[m][i].prev]
      OBVIOUS
    <3>1. CASE i = L
      BY <2>2, <2>3, <2>5, <2>8, <3>1
    <3>2. CASE i # L
      <4>1. i \in 1 .. L - 1 /\ i - 1 # L - 1
        BY <2>3, <3>2
      <4>2. blocks'[i - 1] = blocks[i - 1]
        BY <2>1, <2>4, <2>7, <4>1 DEF Stored
      <4> QED
        BY <2>2, <2>7, <2>8, <4>1, <4>2
    <3> QED
      BY <3>1, <3>2
  <2>10. Cardinality(Stored') = L
    <3>1. Cardinality(Stored) \in Nat
      BY LoadedChain DEF Inv, LoadedMatchesStore
    <3>2. Cardinality(Stored)' = IF L - 1 \in Stored THEN Cardinality(Stored)
                                ELSE Cardinality(Stored) + 1
      <4>1. L - 1 <= Cardinality(Stored)
        BY <1>1, <2>2, <2>3, <2>7, <3>1 DEF Matches
      <4>2. [hash |-> Tip(m).hash, prev |-> Tip(m).prev] \in Link
        BY <2>3, <2>6 DEF Block, Link
      <4> QED
        BY <2>1, <2>3, <4>1, <4>2, StoreRow DEF Inv
    <3>3. CASE pc[m] = "save"
      BY <1>1, <2>3, <3>1, <3>2, <3>3 DEF Matches, Saved, NoGaps, Inv
    <3>4. CASE pc[m] = "resave"
      BY <1>1, <2>3, <3>1, <3>2, <3>4 DEF Matches, Saved, NoGaps, Inv
    <3> QED
      BY <2>2, <3>3, <3>4
  <2> QED
    BY <2>3, <2>7, <2>9, <2>10 DEF Matches
<1>7. CASE \/ \E t \in ApiTxs : ApiSubmit(t)
           \/ \E n \in Nodes :
                \/ LoadPending(n) \/ Settle(n) \/ RejectTimestamp(n)
                \/ \E t \in Txs : AddTransaction(n, t)
                \/ StartBlock(n) \/ RefuseBlock(n) \/ ClearPending(n) \/ FinishBlock(n)
           \/ UNCHANGED vars
  <2>1. /\ blocks' = blocks /\ chain' = chain
        /\ pc' = pc \/ (pc[m] \notin {"save", "down"} /\ pc'[m] # "save")
    BY <1>0, <1>1, <1>7
       DEF ApiSubmit, LoadPending, Settle, Debit, Credit, Take, Complete, RejectTimestamp,
           AddTransaction, StartBlock, RefuseBlock, ClearPending, FinishBlock, tables, object, vars
  <2> QED
    BY <1>2, <1>3, <2>1
<1>8. CASE Bootstrap(m)
  <2>1. Stored = {} /\ pc' = pc
    BY <1>8 DEF Bootstrap
  <2>2. pc[m] = "down"
    BY <1>1, <2>1, FS_EmptySet DEF Matches
  <2> QED
    BY <1>2, <2>1, <2>2
<1>9. CASE Crash(m)
  BY <1>0, <1>1, <1>2, <1>9 DEF Crash
<1> QED
  BY <1>4, <1>5, <1>6, <1>7, <1>8, <1>9 DEF Next, Startup, Mine, FailBlock

(* A step of the node is a step of the ledger or leaves it as it is. *)
LEMMA LedgerStep ==
  ASSUME NEW m, Nodes = {m}, ~MayFail, Inv, Inv', MemoryMatchesStore, [Next]_vars
  PROVE  [Promise!Next]_StoredLedger
<1> DEFINE K == Cardinality(Stored)
<1>1. /\ K \in Nat
      /\ StoredLedger = [i \in 1 .. K |-> blocks[i - 1]]
      /\ StoredLedger \in Seq(Link)
  BY StoredLedgerRows DEF Inv
<1>2. /\ K' \in Nat
      /\ StoredLedger' = [i \in 1 .. K' |-> blocks'[i - 1]]
      /\ StoredLedger' \in Seq(Link)
  <2>1. (TypeOK /\ NoGaps
          => /\ Cardinality(Stored) \in Nat
             /\ StoredLedger = [i \in 1 .. Cardinality(Stored) |-> blocks[i - 1]]
             /\ StoredLedger \in Seq(Link))'
    BY StoredLedgerRows, PTL
  <2> QED
    BY <2>1 DEF Inv
<1>3. ASSUME blocks' = blocks
      PROVE  StoredLedger' = StoredLedger
  BY <1>1, <1>2, <1>3 DEF Stored
<1>4. ASSUME NEW b \in Link, blocks' = [blocks EXCEPT ![K] = b], K \in Heights,
             b.prev = IF K = 0 THEN NoHash ELSE blocks[K - 1].hash
      PROVE  Promise!Next
  <2>1. K \notin Stored
    BY <1>1 DEF Inv, NoGaps
  <2>2. K' = K + 1
    <3>1. TypeOK /\ NoGaps /\ K <= Cardinality(Stored)
      BY <1>1 DEF Inv
    <3>2. Cardinality(Stored)' = IF K \in Stored THEN Cardinality(Stored)
                                ELSE Cardinality(Stored) + 1
      BY <1>4, <3>1, StoreRow
    <3> QED
      BY <2>1, <3>2
  <2>3. blocks \in [Heights -> Link \cup {None}]
    BY DEF Inv, TypeOK
  <2>4. StoredLedger' = Append(StoredLedger, b)
    <3>1. Len(StoredLedger) = K
      BY <1>1
    <3>2. Append(StoredLedger, b) = [i \in 1 .. K + 1 |-> IF i = K + 1 THEN b ELSE blocks[i - 1]]
      BY <1>1, <3>1
    <3>3. \A i \in 1 .. K + 1 : blocks'[i - 1] = IF i = K + 1 THEN b ELSE blocks[i - 1]
      <4>1. \A i \in 1 .. K : i - 1 \in Heights /\ i - 1 # K
        <5>1. \A i \in 1 .. K : i - 1 \in Stored
          BY LoadedChain DEF Inv, LoadedMatchesStore
        <5> QED
          BY <1>1, <5>1 DEF Stored
      <4> QED
        BY <1>1, <1>4, <2>3, <4>1
    <3> QED
      BY <1>2, <2>2, <3>2, <3>3
  <2>5. b.prev = Promise!Tip
    BY <1>1, <1>4 DEF Promise!Tip
  <2>6. b \in Promise!Link
    BY <1>4 DEF Promise!Link, Link
  <2> QED
    BY <2>4, <2>5, <2>6 DEF Promise!Next, Promise!Extend
<1>5. pc \in [Nodes -> States] /\ m \in Nodes /\ (pc[m] # "down" => Matches(m))
  BY DEF Inv, TypeOK, MemoryMatchesStore
<1>6. CASE Bootstrap(m)
  <2>1. PICK g \in Hashes : blocks' = [blocks EXCEPT ![0] = [hash |-> g, prev |-> NoHash]]
    BY <1>6 DEF Bootstrap
  <2>2. K = 0
    BY <1>6, FS_EmptySet DEF Bootstrap
  <2>3. [hash |-> g, prev |-> NoHash] \in Link /\ 0 \in Heights
    BY ConstantAssumption DEF Link, Heights
  <2> QED
    BY <1>4, <2>1, <2>2, <2>3
<1>7. CASE SaveBlock(m) \/ ResaveBlock(m)
  <2> DEFINE L == Len(chain[m])
             b == [hash |-> Tip(m).hash, prev |-> Tip(m).prev]
  <2>1. pc[m] \in {"save", "resave"}
    BY <1>7 DEF SaveBlock, ResaveBlock
  <2>2. blocks' = [blocks EXCEPT ![L - 1] = b]
    BY <1>5, <1>7, InvSave
  <2>3. /\ L \in Nat /\ L > 1 /\ Tip(m) = chain[m][L] /\ Tip(m) \in Block
        /\ Tip(m).prev = chain[m][L - 1].hash
        /\ Tip(m).idx = L - 1
    <3>1. chain[m] \in Seq(Block) /\ L > 1
      BY <1>5, <2>1 DEF Inv, TypeOK, UnsavedBlockFits
    <3>2. chain[m][L] \in Block
      BY <3>1
    <3> QED
      BY <1>5, <2>1, <3>1, <3>2 DEF Inv, UnsavedBlockFits, Tip
  <2>4. b \in Link /\ L - 1 \in Heights
    BY <2>3 DEF Block, Link
  <2>5. CASE pc[m] = "save"
    <3>1. K = L - 1
      BY <1>5, <2>5 DEF Matches, Saved
    <3>2. blocks[K - 1].hash = chain[m][L - 1].hash
      <4>1. L - 1 \in 1 .. Saved(m) /\ Matches(m)
        BY <1>5, <2>3, <2>5 DEF Saved
      <4>2. blocks[(L - 1) - 1] = [hash |-> chain[m][L - 1].hash, prev |-> chain[m][L - 1].prev]
        BY <4>1 DEF Matches
      <4> QED
        BY <3>1, <4>2
    <3>3. b.prev = IF K = 0 THEN NoHash ELSE blocks[K - 1].hash
      BY <2>3, <3>1, <3>2
    <3> HIDE DEF b, K
    <3> QED
      BY <1>4, <2>2, <2>4, <3>1, <3>3
  <2>6. CASE pc[m] = "resave"
    <3>1. blocks[L - 1] = b
      BY <1>5, <2>3, <2>6 DEF Matches, Saved
    <3>2. blocks' = blocks
      BY <2>2, <2>4, <3>1 DEF Inv, TypeOK
    <3> QED
      BY <1>3, <3>2
  <2> QED
    BY <2>1, <2>5, <2>6
<1>8. CASE \/ \E t \in ApiTxs : ApiSubmit(t)
           \/ \E n \in Nodes :
                \/ Load(n) \/ LoadPending(n) \/ Settle(n) \/ RejectTimestamp(n)
                \/ \E t \in Txs : AddTransaction(n, t)
                \/ StartBlock(n) \/ RefuseBlock(n) \/ AppendBlock(n)
                \/ ClearPending(n) \/ FinishBlock(n) \/ Crash(n)
           \/ UNCHANGED vars
  <2>1. blocks' = blocks
    BY <1>8
       DEF ApiSubmit, Load, LoadPending, Settle, Debit, Credit, Take, Complete, RejectTimestamp,
           AddTransaction, StartBlock, RefuseBlock, AppendBlock, ClearPending, FinishBlock, Crash,
           tables, vars
  <2> QED
    BY <1>3, <2>1
<1> QED
  BY <1>6, <1>7, <1>8 DEF Next, Startup, Mine, FailBlock

(* What one miner maintains. *)
LEMMA OneMiner ==
  ASSUME NEW m, Nodes = {m}, ~MayFail
  PROVE  Spec => [](Inv /\ MemoryMatchesStore)
<1>1. Init => Inv /\ MemoryMatchesStore
  BY InvInit DEF Init, MemoryMatchesStore
<1>2. Inv /\ MemoryMatchesStore /\ [Next]_vars => Inv' /\ MemoryMatchesStore'
  BY InvStep, MemoryStep
<1> QED
  BY <1>1, <1>2, PTL DEF Spec

(* Whatever step add_block is in and wherever the miner dies, its in-memory  *)
(* chain is the blocks table, plus at most the block not saved yet.          *)
THEOREM MemoryCorrect ==
  ASSUME NEW m, Nodes = {m}, ~MayFail
  PROVE  Spec => []MemoryMatchesStore
BY OneMiner, PTL

(* With one miner the blocks table is an append-only linked ledger.          *)
THEOREM Refinement ==
  ASSUME NEW m, Nodes = {m}, ~MayFail
  PROVE  Spec => ImplementsLedger
<1>1. Init => Promise!Init
  <2>1. ASSUME Init PROVE StoredLedger = <<>>
    <3>1. TypeOK /\ NoGaps
      BY <2>1, InvInit DEF Inv
    <3>2. Stored = {}
      BY <2>1 DEF Init, Stored
    <3>3. Cardinality(Stored) = 0
      BY <3>2, FS_EmptySet
    <3>4. StoredLedger \in Seq(Link) /\ DOMAIN StoredLedger = 1 .. 0
      BY <3>1, <3>3, StoredLedgerRows
    <3> QED
      BY <3>4
  <2> QED
    BY <2>1 DEF Promise!Init
<1>2. Spec => [](Inv /\ MemoryMatchesStore)
  BY OneMiner, PTL
<1>3. Inv /\ Inv' /\ MemoryMatchesStore /\ [Next]_vars => [Promise!Next]_StoredLedger
  BY LedgerStep
<1> QED
  BY <1>1, <1>2, <1>3, PTL DEF Spec, ImplementsLedger, Promise!Spec

-----------------------------------------------------------------------------
(* Payments                                                                  *)

(* What one object has mined since it was constructed it remembers as spent, *)
(* or is about to; what it can mine next it has not spent.                   *)
Remembered(n, last) ==
    \A i \in 1 .. last : base[n] <= i => chain[n][i].txs \subseteq spent[n] \cup todo[n]
MinedOnce(n) ==
    /\ \A i, j \in 1 .. Len(chain[n]) :
          base[n] <= i /\ i < j => chain[n][i].txs \cap chain[n][j].txs = {}
    /\ pc[n] \in {"replay", "idle", "build", "settle"} => Remembered(n, Len(chain[n]))
    /\ pc[n] \in {"save", "resave", "clear"} => Remembered(n, Len(chain[n]) - 1)
    /\ pc[n] \notin {"replay", "settle"} => todo[n] = {}
    /\ pc[n] \in {"idle", "build"} => \A e \in pending[n] : e.keyed => e.tx \notin spent[n]

(* An object another one's step leaves alone keeps it. *)
LEMMA OthersMineOnce ==
  ASSUME NEW n \in Nodes, MinedOnce(n),
         /\ pc'[n] = pc[n] /\ chain'[n] = chain[n] /\ base'[n] = base[n]
         /\ spent'[n] = spent[n] /\ todo'[n] = todo[n] /\ pending'[n] = pending[n]
  PROVE  MinedOnce(n)'
BY DEF MinedOnce, Remembered

(* The steps of the mempool: a list only loses elements, or gains one that is *)
(* not spent.                                                                 *)
LEMMA OnceMempool ==
  ASSUME Inv, NEW n \in Nodes, MinedOnce(n),
         \/ LoadPending(n) \/ RejectTimestamp(n) \/ StartBlock(n) \/ RefuseBlock(n)
         \/ FinishBlock(n) \/ \E t \in Txs : AddTransaction(n, t)
  PROVE  MinedOnce(n)'
<1>0. /\ pc \in [Nodes -> States] /\ pending \in [Nodes -> SUBSET Entry]
      /\ todo \in [Nodes -> SUBSET Txs]
  BY DEF Inv, TypeOK
<1>1. /\ UNCHANGED <<chain, spent, todo, base>>
      /\ \/ pc[n] = "replay" /\ pc'[n] = "idle" /\ todo[n] = {}
         \/ pc[n] = "settle" /\ pc'[n] = "idle" /\ todo[n] = {}
         \/ pc[n] \in {"idle", "build"} /\ pc'[n] \in {"idle", "build"}
  BY <1>0 DEF LoadPending, RejectTimestamp, StartBlock, RefuseBlock, FinishBlock,
              AddTransaction, tables, object
<1>2. \A e \in pending'[n] : e.keyed => e.tx \notin spent[n]
  <2>1. CASE LoadPending(n) \/ FinishBlock(n)
    BY <1>0, <2>1 DEF LoadPending, FinishBlock
  <2>2. CASE RejectTimestamp(n) \/ StartBlock(n)
    <3>1. pc[n] = "idle" /\ pending'[n] \subseteq pending[n]
      BY <1>0, <2>2 DEF RejectTimestamp, StartBlock, Trimmed, PopLowest
    <3> QED
      BY <3>1 DEF MinedOnce
  <2>3. CASE RefuseBlock(n)
    BY <2>3 DEF RefuseBlock, object, MinedOnce
  <2>4. ASSUME NEW t \in Txs, AddTransaction(n, t)
        PROVE  \A e \in pending'[n] : e.keyed => e.tx \notin spent[n]
    <3>1. PICK p \in PopLowest(n, IF Length(n) >= MaxMempool /\ Length(n) > 0 THEN 1 ELSE 0) :
             pending' = [pending EXCEPT ![n] = p.keep \cup {[tx |-> t, keyed |-> TRUE]}]
      BY <2>4 DEF AddTransaction
    <3>2. pc[n] = "idle" /\ t \notin spent[n] /\ p.keep \subseteq pending[n]
      BY <2>4 DEF AddTransaction, Acceptable, PopLowest
    <3> QED
      BY <1>0, <3>1, <3>2 DEF MinedOnce
  <2> QED
    BY <2>1, <2>2, <2>3, <2>4
<1> QED
  BY <1>1, <1>2 DEF MinedOnce, Remembered

(* The steps of a block from AppendBlock to the balances. *)
LEMMA OnceBlock ==
  ASSUME Inv, ~MayFail, NEW n \in Nodes, MinedOnce(n),
         \/ AppendBlock(n) \/ SaveBlock(n) \/ ResaveBlock(n) \/ ClearPending(n) \/ Settle(n)
  PROVE  MinedOnce(n)'
<1>0. /\ pc \in [Nodes -> States] /\ pending \in [Nodes -> SUBSET Entry]
      /\ todo \in [Nodes -> SUBSET Txs] /\ spent \in [Nodes -> SUBSET Txs]
      /\ chain \in [Nodes -> Seq(Block)] /\ Len(chain[n]) \in Nat
  BY DEF Inv, TypeOK
<1>1. CASE AppendBlock(n)
  <2> DEFINE L == Len(chain[n])
             T == {e.tx : e \in pending[n]}
  <2>0. L \in Nat
    BY <1>0
  <2>1. /\ Len(chain'[n]) = L + 1
        /\ \A i \in 1 .. L : chain'[n][i] = chain[n][i]
    BY <1>1, InvAppend
  <2>2. chain'[n][L + 1].txs = T
    BY <1>0, <1>1 DEF AppendBlock
  <2>3. /\ pc[n] = "build" /\ pc'[n] = "save" /\ UNCHANGED <<spent, todo, base>>
        /\ \A e \in pending[n] : e.keyed
    BY <1>0, <1>1 DEF AppendBlock
  <2>4. T \cap spent[n] = {} /\ todo[n] = {} /\ Remembered(n, L)
    BY <2>3 DEF MinedOnce
  <2>5. ASSUME NEW i \in 1 .. L, base'[n] <= i
        PROVE  chain'[n][i].txs \subseteq spent'[n] \cup todo'[n]
    BY <2>1, <2>3, <2>4, <2>5 DEF Remembered
  <2> HIDE DEF L, T
  <2>6. ASSUME NEW i \in 1 .. L, base[n] <= i
        PROVE  chain'[n][i].txs \cap chain'[n][L + 1].txs = {}
    BY <2>1, <2>2, <2>4, <2>6 DEF Remembered
  <2>7. ASSUME NEW i \in 1 .. L + 1, NEW j \in 1 .. L + 1, base[n] <= i, i < j
        PROVE  chain'[n][i].txs \cap chain'[n][j].txs = {}
    <3>1. CASE j = L + 1
      BY <2>0, <2>6, <2>7, <3>1
    <3>2. CASE j # L + 1
      <4>1. i \in 1 .. L /\ j \in 1 .. L
        BY <2>0, <2>7, <3>2
      <4>2. chain[n][i].txs \cap chain[n][j].txs = {}
        BY <2>7, <4>1 DEF MinedOnce, L
      <4> QED
        BY <2>1, <4>1, <4>2
    <3> QED
      BY <3>1, <3>2
  <2>8. Len(chain'[n]) - 1 = L
    BY <2>0, <2>1
  <2> QED
    BY <2>1, <2>3, <2>4, <2>5, <2>7, <2>8 DEF MinedOnce, Remembered
<1>2. CASE SaveBlock(n) \/ ResaveBlock(n)
  BY <1>0, <1>2 DEF SaveBlock, ResaveBlock, object, MinedOnce, Remembered
<1>3. CASE ClearPending(n)
  <2>1. /\ UNCHANGED <<chain, spent, base>> /\ pc[n] = "clear" /\ pc'[n] = "settle"
        /\ todo'[n] = chain[n][Len(chain[n])].txs /\ todo[n] = {}
    BY <1>0, <1>3 DEF ClearPending, Tip, MinedOnce
  <2>2. ASSUME NEW i \in 1 .. Len(chain[n]), base[n] <= i
        PROVE  chain[n][i].txs \subseteq spent[n] \cup todo'[n]
    <3>1. CASE i = Len(chain[n])
      BY <2>1, <3>1
    <3>2. CASE i # Len(chain[n])
      <4>1. i \in 1 .. Len(chain[n]) - 1
        BY <1>0, <3>2
      <4>2. Remembered(n, Len(chain[n]) - 1)
        BY <2>1 DEF MinedOnce
      <4>3. chain[n][i].txs \subseteq spent[n] \cup todo[n]
        BY <2>2, <4>1, <4>2 DEF Remembered
      <4> QED
        BY <2>1, <4>3
    <3> QED
      BY <3>1, <3>2
  <2> QED
    BY <2>1, <2>2 DEF MinedOnce, Remembered
<1>4. CASE Settle(n)
  <2>1. CASE Debit(n)
    <3>1. /\ UNCHANGED <<chain, base, pc>> /\ pc[n] \in {"replay", "settle"}
          /\ spent[n] \cup todo[n] \subseteq spent'[n] \cup todo'[n]
      BY <1>0, <2>1 DEF Debit, Take, Applying
    <3> QED
      BY <3>1 DEF MinedOnce, Remembered
  <2>2. CASE Credit(n)
    BY <2>2, OthersMineOnce DEF Credit, Complete
  <2> QED
    BY <1>4, <2>1, <2>2 DEF Settle
<1> QED
  BY <1>1, <1>2, <1>3, <1>4

(* A loaded chain has one block the object answers for, its last.             *)
LEMMA OnceStartup ==
  ASSUME Inv, NEW n \in Nodes, MinedOnce(n), Bootstrap(n) \/ Load(n) \/ Crash(n)
  PROVE  MinedOnce(n)'
<1>0. /\ pc \in [Nodes -> States] /\ todo \in [Nodes -> SUBSET Txs]
      /\ chain \in [Nodes -> Seq(Block)] /\ base \in [Nodes -> Nat]
  BY DEF Inv, TypeOK
<1>1. CASE Bootstrap(n)
  BY <1>1, OthersMineOnce DEF Bootstrap, object
<1>2. CASE Load(n)
  <2> DEFINE L == Len(LoadChain)
  <2>1. L \in Nat
    BY LoadedChain DEF Inv, LoadedMatchesStore
  <2>2. /\ chain'[n] = LoadChain /\ base'[n] = L /\ todo'[n] = LoadChain[L].txs
        /\ pc'[n] = "replay"
    BY <1>0, <1>2 DEF Load
  <2> HIDE DEF L
  <2>3. \A i \in 1 .. L : base'[n] <= i => i = L
    BY <2>1, <2>2
  <2>4. ASSUME NEW i \in 1 .. L, base'[n] <= i
        PROVE  chain'[n][i].txs \subseteq spent'[n] \cup todo'[n]
    BY <2>2, <2>3, <2>4
  <2>5. \A i, j \in 1 .. L : ~(base'[n] <= i /\ i < j)
    BY <2>1, <2>2
  <2>6. Len(chain'[n]) = L
    BY <2>2 DEF L
  <2> QED
    BY <2>2, <2>4, <2>5, <2>6 DEF MinedOnce, Remembered
<1>3. CASE Crash(n)
  <2>1. chain'[n] = <<>> /\ pc'[n] = "down" /\ todo'[n] = {}
    BY <1>0, <1>3 DEF Crash
  <2> QED
    BY <2>1 DEF MinedOnce
<1> QED
  BY <1>1, <1>2, <1>3

LEMMA OnceStep ==
  ASSUME Inv, ~MayFail, [Next]_vars, NEW m \in Nodes, MinedOnce(m)
  PROVE  MinedOnce(m)'
<1>1. CASE UNCHANGED vars \/ \E t \in ApiTxs : ApiSubmit(t)
  BY <1>1, OthersMineOnce DEF vars, object, ApiSubmit
<1>2. ASSUME NEW n \in Nodes,
             \/ Startup(n) \/ Settle(n) \/ Mine(n) \/ RejectTimestamp(n) \/ FailBlock(n)
             \/ Crash(n) \/ \E t \in Txs : AddTransaction(n, t)
      PROVE  MinedOnce(m)'
  <2>1. CASE m = n
    BY <1>2, <2>1, OnceMempool, OnceBlock, OnceStartup DEF Startup, Mine, FailBlock
  <2>2. CASE m # n
    <3>0. /\ DOMAIN pc = Nodes /\ DOMAIN chain = Nodes /\ DOMAIN pending = Nodes
          /\ DOMAIN spent = Nodes /\ DOMAIN todo = Nodes /\ DOMAIN base = Nodes
      BY DEF Inv, TypeOK
    <3>1. /\ pc'[m] = pc[m] /\ chain'[m] = chain[m] /\ base'[m] = base[m]
          /\ spent'[m] = spent[m] /\ todo'[m] = todo[m] /\ pending'[m] = pending[m]
      <4>1. CASE Startup(n) \/ RejectTimestamp(n) \/ FailBlock(n) \/ Crash(n)
        BY <2>2, <3>0, <4>1 DEF Startup, Bootstrap, Load, LoadPending, RejectTimestamp,
           FailBlock, Crash, object, tables
      <4>2. CASE Settle(n) \/ \E t \in Txs : AddTransaction(n, t)
        BY <2>2, <3>0, <4>2 DEF Settle, Debit, Credit, Take, Complete, AddTransaction
      <4>3. CASE StartBlock(n) \/ RefuseBlock(n) \/ AppendBlock(n) \/ FinishBlock(n)
        BY <2>2, <3>0, <4>3 DEF StartBlock, RefuseBlock, AppendBlock, FinishBlock, object, tables
      <4>4. CASE SaveBlock(n) \/ ResaveBlock(n) \/ ClearPending(n)
        BY <2>2, <3>0, <4>4 DEF SaveBlock, ResaveBlock, ClearPending, object
      <4> QED
        BY <1>2, <4>1, <4>2, <4>3, <4>4 DEF Mine
    <3> QED
      BY <3>1, OthersMineOnce
  <2> QED
    BY <2>1, <2>2
<1> QED
  BY <1>1, <1>2 DEF Next

(* However many objects write to one store and wherever they die, none puts  *)
(* a payment into two blocks, nor into one after the block that held it when *)
(* the object was constructed.                                               *)
THEOREM PaymentsAreMinedOnce == ASSUME ~MayFail PROVE Spec => []NoDoubleMine
<1> DEFINE AllOnce == \A n \in Nodes : MinedOnce(n)
<1>1. Init => AllOnce
  BY DEF Init, MinedOnce
<1>2. Inv /\ AllOnce /\ [Next]_vars => AllOnce'
  BY OnceStep
<1>3. Inv /\ AllOnce => NoDoubleMine
  <2> SUFFICES ASSUME Inv, AllOnce, NEW n \in Nodes,
                      NEW i \in DOMAIN chain[n], NEW j \in DOMAIN chain[n],
                      base[n] <= i, i < j
               PROVE  chain[n][i].txs \cap chain[n][j].txs = {}
    BY DEF NoDoubleMine
  <2>1. DOMAIN chain[n] = 1 .. Len(chain[n])
    BY DEF Inv, TypeOK
  <2> QED
    BY <2>1 DEF MinedOnce
<1> HIDE DEF AllOnce
<1> QED
  BY <1>1, <1>2, <1>3, StoreInvariant, PTL DEF Spec

-----------------------------------------------------------------------------
(* Balances                                                                  *)

(* What each object has debited and not yet credited. *)
InFlight == [n \in Nodes |-> IF half[n] = None THEN 0 ELSE half[n].amount]

(* Payments in flight are covered by what was debited for them. *)
FlightIsCovered ==
    SumOf(balances) + SumFunctionOnSet(InFlight, Nodes) <= SumOf(InitialBalance)

LEMMA SumOfType == ASSUME NEW b \in [Addresses -> Int] PROVE SumOf(b) \in Int
BY SumType, ConstantAssumption DEF SumOf

(* Changing one balance changes the total by as much. *)
LEMMA SumOfUpdate ==
  ASSUME NEW b \in [Addresses -> Int], NEW a \in Addresses, NEW d \in Int,
         NEW c \in [Addresses -> Int], c[a] = b[a] + d,
         \A x \in Addresses \ {a} : c[x] = b[x]
  PROVE  SumOf(c) = SumOf(b) + d
<1>2. SumOf(c) = SumOf(b) - b[a] + c[a]
  <2>1. \A s \in Addresses : b[s] \in Int /\ c[s] \in Int
    OBVIOUS
  <2>2. IsFiniteSet(Addresses)
    BY ConstantAssumption
  <2>3. SumFunctionOnSet(c, Addresses) = SumFunctionOnSet(b, Addresses) - b[a] + c[a]
    BY <2>1, <2>2, SumUpdate
  <2> QED
    BY <2>3 DEF SumOf
<1> QED
  BY <1>2, SumOfType

(* The same for what is in flight, of which one object changes its part. *)
LEMMA FlightUpdate ==
  ASSUME TypeOK, TypeOK', NEW n \in Nodes, \A m \in Nodes \ {n} : half'[m] = half[m]
  PROVE  /\ SumFunctionOnSet(InFlight, Nodes) \in Int
         /\ SumFunctionOnSet(InFlight, Nodes)'
              = SumFunctionOnSet(InFlight, Nodes) - InFlight[n] + InFlight'[n]
         /\ InFlight[n] \in Nat /\ InFlight'[n] \in Nat
<1>1. \A m \in Nodes : InFlight[m] \in Nat /\ InFlight'[m] \in Nat
  <2> SUFFICES ASSUME NEW m \in Nodes PROVE InFlight[m] \in Nat /\ InFlight'[m] \in Nat
    OBVIOUS
  <2>1. half[m] \in Txs \cup {None} /\ half'[m] \in Txs \cup {None}
    BY DEF TypeOK
  <2> QED
    BY <2>1, TxAssumption DEF InFlight
<1>2. \A m \in Nodes \ {n} : InFlight'[m] = InFlight[m]
  BY DEF InFlight
<1>3. PICK f, g : f = InFlight /\ g = InFlight'
  OBVIOUS
<1>4. SumFunctionOnSet(g, Nodes) = SumFunctionOnSet(f, Nodes) - f[n] + g[n]
  BY <1>1, <1>2, <1>3, SumUpdate, ConstantAssumption
<1>5. SumFunctionOnSet(f, Nodes) \in Int
  BY <1>1, <1>3, SumType, ConstantAssumption
<1>6. SumFunctionOnSet(InFlight, Nodes)' = SumFunctionOnSet(g, Nodes)
  BY <1>3
<1> QED
  BY <1>1, <1>3, <1>4, <1>5, <1>6

LEMMA CoveredStep ==
  ASSUME TypesInv, TypesInv', FlightIsCovered, ~MayFail, [Next]_vars
  PROVE  FlightIsCovered'
<1>0. /\ TypeOK /\ TypeOK' /\ half \in [Nodes -> Txs \cup {None}]
      /\ balances \in [Addresses -> Int] /\ SumOf(balances) \in Int
      /\ SumOf(InitialBalance) \in Int
  BY SumOfType, ConstantAssumption DEF TypesInv, TypeOK
<1>1. CASE UNCHANGED <<balances, half>>
  BY <1>1 DEF FlightIsCovered, InFlight
<1>2. ASSUME NEW n \in Nodes, Debit(n)
      PROVE  FlightIsCovered'
  <2>1. PICK t \in Txs : Take(n, t, Debited(t))
    BY <1>2 DEF Debit
  <2>2. t.from \in Addresses /\ t.amount \in Nat /\ t.fee \in Nat
    BY TxAssumption
  <2>3. half[n] = None /\ half' = [half EXCEPT ![n] = t]
        /\ balances' = [balances EXCEPT ![t.from] = @ - (t.amount + t.fee)]
    BY <2>1 DEF Take, Debited
  <2>4. SumOf(balances') = SumOf(balances) - (t.amount + t.fee)
    <3>1. PICK d \in Int : d = - (t.amount + t.fee)
      BY <2>2
    <3>2. /\ balances' \in [Addresses -> Int] /\ balances'[t.from] = balances[t.from] + d
          /\ \A x \in Addresses \ {t.from} : balances'[x] = balances[x]
      BY <1>0, <2>2, <2>3, <3>1
    <3>3. SumOf(balances') = SumOf(balances) + d
      BY <1>0, <2>2, <3>2, SumOfUpdate
    <3> QED
      BY <1>0, <2>2, <3>1, <3>3
  <2>5. InFlight[n] = 0 /\ InFlight'[n] = t.amount
    BY <1>0, <2>3, ConstantAssumption DEF InFlight
  <2>6. \A m \in Nodes \ {n} : half'[m] = half[m]
    BY <1>0, <2>3
  <2> QED
    BY <1>0, <2>2, <2>4, <2>5, <2>6, FlightUpdate DEF FlightIsCovered
<1>3. ASSUME NEW n \in Nodes, Credit(n)
      PROVE  FlightIsCovered'
  <2>1. PICK t \in Txs : half[n] = t /\ Complete(n, Credited(t))
    BY <1>3 DEF Credit
  <2>2. t.to \in Addresses /\ t.amount \in Nat
    BY TxAssumption
  <2>3. /\ half' = [half EXCEPT ![n] = None]
        /\ balances' = [balances EXCEPT ![t.to] = @ + t.amount]
    BY <2>1 DEF Complete, Credited
  <2>4. SumOf(balances') = SumOf(balances) + t.amount
    <3>1. PICK d \in Int : d = t.amount
      BY <2>2
    <3>2. /\ balances' \in [Addresses -> Int] /\ balances'[t.to] = balances[t.to] + d
          /\ \A x \in Addresses \ {t.to} : balances'[x] = balances[x]
      BY <1>0, <2>2, <2>3, <3>1
    <3>3. SumOf(balances') = SumOf(balances) + d
      BY <1>0, <2>2, <3>2, SumOfUpdate
    <3> QED
      BY <3>1, <3>3
  <2>5. InFlight[n] = t.amount /\ InFlight'[n] = 0
    BY <1>0, <2>1, <2>3, ConstantAssumption DEF InFlight
  <2>6. \A m \in Nodes \ {n} : half'[m] = half[m]
    BY <1>0, <2>3
  <2> QED
    BY <1>0, <2>2, <2>4, <2>5, <2>6, FlightUpdate DEF FlightIsCovered
<1>4. ASSUME NEW n \in Nodes, Crash(n)
      PROVE  FlightIsCovered'
  <2>1. balances' = balances /\ half' = [half EXCEPT ![n] = None]
    BY <1>4 DEF Crash, tables
  <2>2. InFlight'[n] = 0 /\ \A m \in Nodes \ {n} : half'[m] = half[m]
    BY <1>0, <2>1 DEF InFlight
  <2> QED
    BY <1>0, <2>1, <2>2, FlightUpdate DEF FlightIsCovered
<1>5. CASE \E t \in ApiTxs : ApiSubmit(t)
  BY <1>1, <1>5 DEF ApiSubmit, object
<1>6. ASSUME NEW n \in Nodes,
             \/ Startup(n) \/ Mine(n) \/ RejectTimestamp(n) \/ FailBlock(n)
             \/ \E t \in Txs : AddTransaction(n, t)
      PROVE  FlightIsCovered'
  BY <1>1, <1>6 DEF Startup, Bootstrap, Load, LoadPending, Mine, StartBlock, RefuseBlock,
     AppendBlock, SaveBlock, ResaveBlock, ClearPending, FinishBlock, RejectTimestamp,
     FailBlock, AddTransaction, tables, object
<1>7. CASE UNCHANGED vars
  BY <1>1, <1>7 DEF vars, tables, object
<1> QED
  BY <1>2, <1>3, <1>4, <1>5, <1>6, <1>7 DEF Next, Settle

(* However many objects replay and settle, and wherever they die between a   *)
(* debit and its credit, the balances never hold more than was allocated.    *)
THEOREM NothingInflates == ASSUME ~MayFail PROVE Spec => []NoInflation
<1>1. Init => FlightIsCovered
  <2> SUFFICES ASSUME Init PROVE FlightIsCovered
    OBVIOUS
  <2>1. balances = InitialBalance /\ \A n \in Nodes : InFlight[n] = 0
    BY DEF Init, InFlight
  <2>2. SumFunctionOnSet(InFlight, Nodes) = 0
    BY <2>1, SumZero, ConstantAssumption
  <2>3. SumOf(InitialBalance) \in Int
    BY SumOfType, ConstantAssumption
  <2> QED
    BY <2>1, <2>2, <2>3 DEF FlightIsCovered
<1>2. FlightIsCovered /\ TypesInv => NoInflation
  <2> SUFFICES ASSUME FlightIsCovered, TypesInv PROVE NoInflation
    OBVIOUS
  <2>1. \A n \in Nodes : InFlight[n] \in Nat
    <3> SUFFICES ASSUME NEW n \in Nodes PROVE InFlight[n] \in Nat
      OBVIOUS
    <3>1. half[n] \in Txs \cup {None}
      BY DEF TypesInv, TypeOK
    <3> QED
      BY <3>1, TxAssumption DEF InFlight
  <2>2. SumFunctionOnSet(InFlight, Nodes) \in Nat
    BY <2>1, SumNonNegative, ConstantAssumption
  <2>3. SumOf(balances) \in Int /\ SumOf(InitialBalance) \in Int
    BY SumOfType, ConstantAssumption DEF TypesInv, TypeOK
  <2> QED
    BY <2>2, <2>3 DEF FlightIsCovered, NoInflation
<1>3. FlightIsCovered /\ TypesInv /\ TypesInv' /\ [Next]_vars => FlightIsCovered'
  BY CoveredStep
<1> QED
  BY <1>1, <1>2, <1>3, TypesInit, TypesStep, PTL DEF Spec

-----------------------------------------------------------------------------
(* What is accepted is kept                                                  *)

(* Every transaction there is fits into the list and into a block, next to   *)
(* the rewards: nothing is evicted.  Eviction is how add_transaction and     *)
(* add_block forget a payment for good, as its row goes with the next block. *)
NothingIsEvicted ==
    /\ IsFiniteSet(Txs)
    /\ Cardinality(Txs) + MaxRewards <= MaxMempool
    /\ Cardinality(Txs) + MaxRewards <= MaxBlockWeight

Safe(t, n) == included[t] # None \/ t \in Listed(n)
OneEntryEach(n) == \A e, f \in pending[n] : e.tx = f.tx => e = f

(* Where an accepted payment is, at each step of the miner: while its row    *)
(* can still be deleted it is in the list, from which the block is built,    *)
(* and when the rows are deleted the block is stored.                        *)
KeptInv(n) ==
    /\ AcceptedIsKept
    /\ OneEntryEach(n)
    /\ pc[n] \in {"idle", "build", "save", "resave", "clear"}
         => \A t \in accepted \cap rows : Safe(t, n)
    /\ pc[n] \in {"save", "resave", "clear"} => Len(chain[n]) \in Nat \ {0} /\ Tip(n).txs = Listed(n)
    /\ pc[n] = "clear" => \A t \in Listed(n) : included[t] # None
    /\ pc[n] = "settle" => \A t \in accepted : included[t] # None
    /\ pc[n] \in {"down", "replay"} => pending[n] = {}

(* A list with one entry for each of some transactions is no longer than     *)
(* their number.                                                             *)
LEMMA ListIsShort ==
  ASSUME TypeOK, NEW n \in Nodes, OneEntryEach(n), NEW T, IsFiniteSet(T), Listed(n) \subseteq T
  PROVE  IsFiniteSet(pending[n]) /\ Cardinality(pending[n]) <= Cardinality(T)
<1> DEFINE f == [e \in pending[n] |-> e.tx]
<1>1. f \in Injection(pending[n], T)
  <2>1. f \in [pending[n] -> T]
    BY DEF Listed
  <2>2. \A e, g \in pending[n] : f[e] = f[g] => e = g
    BY DEF OneEntryEach
  <2> QED
    BY <2>1, <2>2 DEF Injection, IsInjective
<1> QED
  BY <1>1, FS_Injection

(* Popping nothing leaves the list as it is. *)
LEMMA PopNothing ==
  ASSUME TypeOK, NEW n \in Nodes, IsFiniteSet(pending[n]), NEW p \in PopLowest(n, 0)
  PROVE  p.keep = pending[n]
<1>1. /\ p.keep \in SUBSET pending[n] /\ p.rewards \in 0 .. coinbases[n]
      /\ Cardinality(p.keep) + p.rewards + 0 = Cardinality(pending[n]) + coinbases[n]
  BY DEF PopLowest, Length
<1>2. Cardinality(p.keep) \in Nat /\ Cardinality(pending[n]) \in Nat /\ coinbases[n] \in Nat
  BY <1>1, FS_Subset, FS_CardinalityType, ConstantAssumption DEF TypeOK
<1>3. Cardinality(p.keep) <= Cardinality(pending[n])
  BY <1>1, FS_Subset
<1>4. Cardinality(p.keep) = Cardinality(pending[n])
  BY <1>1, <1>2, <1>3
<1> QED
  BY <1>1, <1>4, FS_Subset

(* Nothing is trimmed before a block. *)
LEMMA NothingTrimmed ==
  ASSUME TypeOK, NothingIsEvicted, NEW n \in Nodes, OneEntryEach(n), NEW p \in Trimmed(n)
  PROVE  p.keep = pending[n]
<1>1. Listed(n) \subseteq Txs
  BY DEF TypeOK, Entry, Listed
<1>2. IsFiniteSet(pending[n]) /\ Cardinality(pending[n]) <= Cardinality(Txs)
  BY <1>1, ListIsShort DEF NothingIsEvicted
<1>3. /\ Cardinality(pending[n]) \in Nat /\ Cardinality(Txs) \in Nat
      /\ coinbases[n] \in 0 .. MaxRewards
  BY <1>2, FS_CardinalityType DEF NothingIsEvicted, TypeOK
<1>4. ~(Length(n) > MaxBlockWeight)
  BY <1>2, <1>3, ConstantAssumption DEF Length, NothingIsEvicted
<1>5. p \in PopLowest(n, 0)
  BY <1>4 DEF Trimmed
<1> QED
  BY <1>2, <1>5, PopNothing

(* Nothing is evicted for a transaction that is not in the list. *)
LEMMA NothingPushedOut ==
  ASSUME TypeOK, NothingIsEvicted, NEW n \in Nodes, OneEntryEach(n),
         NEW t \in Txs, t \notin Listed(n),
         NEW p \in PopLowest(n, IF Length(n) >= MaxMempool /\ Length(n) > 0 THEN 1 ELSE 0)
  PROVE  p.keep = pending[n]
<1> DEFINE T == Txs \ {t}
<1>1. IsFiniteSet(T) /\ Cardinality(T) = Cardinality(Txs) - 1
  BY FS_RemoveElement DEF NothingIsEvicted
<1>2. Listed(n) \subseteq T
  BY DEF TypeOK, Entry, Listed
<1> HIDE DEF T
<1>3. IsFiniteSet(pending[n]) /\ Cardinality(pending[n]) <= Cardinality(T)
  BY <1>1, <1>2, ListIsShort
<1>4. /\ Cardinality(pending[n]) \in Nat /\ Cardinality(Txs) \in Nat
      /\ coinbases[n] \in 0 .. MaxRewards
  BY <1>3, FS_CardinalityType DEF NothingIsEvicted, TypeOK
<1>5. ~(Length(n) >= MaxMempool)
  BY <1>1, <1>3, <1>4, ConstantAssumption DEF Length, NothingIsEvicted
<1>6. p \in PopLowest(n, 0)
  BY <1>5
<1> QED
  BY <1>3, <1>6, PopNothing

LEMMA KeptMempool ==
  ASSUME NEW m, Nodes = {m}, TypesInv, NothingIsEvicted, KeptInv(m),
         \/ LoadPending(m) \/ RejectTimestamp(m) \/ StartBlock(m) \/ RefuseBlock(m)
         \/ FinishBlock(m) \/ \E t \in Txs : AddTransaction(m, t)
  PROVE  KeptInv(m)'
<1>0. /\ TypeOK /\ m \in Nodes
      /\ pc \in [Nodes -> States] /\ pending \in [Nodes -> SUBSET Entry]
  BY DEF TypesInv, TypeOK
<1>1. CASE LoadPending(m)
  <2>1. /\ UNCHANGED <<rows, included, chain, accepted>> /\ pc'[m] = "idle"
        /\ pending'[m] = {[tx |-> t, keyed |-> FALSE] : t \in rows}
    BY <1>0, <1>1 DEF LoadPending, tables
  <2>2. ASSUME NEW e \in pending'[m]
        PROVE  e.tx \in rows /\ e = [tx |-> e.tx, keyed |-> FALSE]
    BY <2>1
  <2>3. ASSUME NEW t \in rows
        PROVE  t \in Listed(m)'
    <3> DEFINE e == [tx |-> t, keyed |-> FALSE]
    <3>1. e \in pending'[m] /\ e.tx = t
      BY <2>1
    <3> HIDE DEF e
    <3> QED
      BY <3>1 DEF Listed
  <2>4. OneEntryEach(m)'
    <3> SUFFICES ASSUME NEW e \in pending'[m], NEW f \in pending'[m], e.tx = f.tx
                 PROVE  e = f
      BY DEF OneEntryEach
    <3>1. e = [tx |-> e.tx, keyed |-> FALSE] /\ f = [tx |-> f.tx, keyed |-> FALSE]
      BY <2>2
    <3> QED
      BY <3>1, Zenon
  <2> QED
    BY <2>1, <2>3, <2>4 DEF KeptInv, AcceptedIsKept, Safe
<1>2. CASE RejectTimestamp(m) \/ StartBlock(m)
  <2>1. PICK p \in Trimmed(m) : pending'[m] = p.keep
    BY <1>0, <1>2 DEF RejectTimestamp, StartBlock
  <2>2. pending'[m] = pending[m]
    BY <1>0, <2>1, NothingTrimmed DEF KeptInv
  <2>3. /\ UNCHANGED <<rows, included, chain, accepted>>
        /\ pc[m] = "idle" /\ pc'[m] \in {"idle", "build"}
    BY <1>0, <1>2 DEF RejectTimestamp, StartBlock, tables
  <2> QED
    BY <2>2, <2>3 DEF KeptInv, AcceptedIsKept, OneEntryEach, Safe, Listed
<1>3. CASE RefuseBlock(m)
  <2>1. /\ UNCHANGED <<rows, included, chain, accepted, pending>>
        /\ pc[m] = "build" /\ pc'[m] = "idle"
    BY <1>0, <1>3 DEF RefuseBlock, tables, object
  <2> QED
    BY <2>1 DEF KeptInv, AcceptedIsKept, OneEntryEach, Safe, Listed
<1>4. CASE FinishBlock(m)
  <2>1. /\ UNCHANGED <<rows, included, chain, accepted>>
        /\ pc[m] = "settle" /\ pc'[m] = "idle" /\ pending'[m] = {}
    BY <1>0, <1>4 DEF FinishBlock, tables
  <2> QED
    BY <2>1 DEF KeptInv, AcceptedIsKept, OneEntryEach, Safe, Listed
<1>5. ASSUME NEW t \in Txs, AddTransaction(m, t)
      PROVE  KeptInv(m)'
  <2>1. PICK p \in PopLowest(m, IF Length(m) >= MaxMempool /\ Length(m) > 0 THEN 1 ELSE 0) :
           pending' = [pending EXCEPT ![m] = p.keep \cup {[tx |-> t, keyed |-> TRUE]}]
    BY <1>5 DEF AddTransaction
  <2>2. t \notin Listed(m)
    BY <1>5 DEF AddTransaction, Acceptable, Listed
  <2>3. p.keep = pending[m]
    BY <1>0, <2>2, NothingPushedOut DEF KeptInv
  <2> DEFINE new == [tx |-> t, keyed |-> TRUE]
  <2>4. pending'[m] = pending[m] \cup {new} /\ new.tx = t
    BY <1>0, <2>1, <2>3
  <2> HIDE DEF new
  <2>5. /\ UNCHANGED <<included, chain, pc>> /\ pc[m] = "idle"
        /\ \/ rows' = rows \cup {t} /\ accepted' = accepted \cup {t}
           \/ rows' = rows /\ accepted' = accepted
    BY <1>5 DEF AddTransaction
  <2>6. Listed(m)' = Listed(m) \cup {t}
    BY <2>4 DEF Listed
  <2>7. OneEntryEach(m)'
    BY <2>2, <2>4 DEF KeptInv, OneEntryEach, Listed
  <2> QED
    BY <2>5, <2>6, <2>7 DEF KeptInv, AcceptedIsKept, Safe
<1> QED
  BY <1>1, <1>2, <1>3, <1>4, <1>5

LEMMA KeptBlock ==
  ASSUME NEW m, Nodes = {m}, TypesInv, KeptInv(m),
         AppendBlock(m) \/ SaveBlock(m) \/ ResaveBlock(m) \/ ClearPending(m)
  PROVE  KeptInv(m)'
<1>0. /\ TypeOK /\ m \in Nodes
      /\ pc \in [Nodes -> States] /\ chain \in [Nodes -> Seq(Block)]
      /\ Len(chain[m]) \in Nat /\ included \in [Txs -> Heights \cup {None}]
  BY DEF TypesInv, TypeOK
<1>1. CASE AppendBlock(m)
  <2>1. /\ UNCHANGED <<rows, included, accepted, pending>>
        /\ pc[m] = "build" /\ pc'[m] = "save"
    BY <1>0, <1>1 DEF AppendBlock, tables
  <2>2. Len(chain'[m]) = Len(chain[m]) + 1 /\ Tip(m)'.txs = Listed(m)
    <3>1. PICK id \in Hashes :
            chain' = [chain EXCEPT ![m] = Append(@,
                        [hash |-> id, prev |-> Tip(m).hash, idx |-> Len(@),
                         txs |-> {e.tx : e \in pending[m]}, rewards |-> coinbases[m]])]
      BY <1>1 DEF AppendBlock
    <3> DEFINE b == [hash |-> id, prev |-> Tip(m).hash, idx |-> Len(chain[m]),
                     txs |-> {e.tx : e \in pending[m]}, rewards |-> coinbases[m]]
    <3>2. chain'[m] = Append(chain[m], b) /\ b.txs = Listed(m)
      BY <1>0, <3>1 DEF Listed
    <3> HIDE DEF b
    <3>3. Len(chain'[m]) = Len(chain[m]) + 1 /\ chain'[m][Len(chain[m]) + 1] = b
      BY <1>0, <3>2
    <3> QED
      BY <3>2, <3>3 DEF Tip
  <2> QED
    BY <1>0, <2>1, <2>2 DEF KeptInv, AcceptedIsKept, OneEntryEach, Safe, Listed
<1>2. CASE SaveBlock(m) \/ ResaveBlock(m)
  <2>1. /\ UNCHANGED <<rows, accepted, pending, chain>>
        /\ pc[m] \in {"save", "resave"} /\ pc'[m] \in {"resave", "clear"}
        /\ included' = [t \in Txs |-> IF t \in Tip(m).txs THEN Tip(m).idx ELSE included[t]]
    BY <1>0, <1>2 DEF SaveBlock, ResaveBlock, WriteBlock, object
  <2>2. Tip(m) \in Block /\ Tip(m).txs = Listed(m) /\ Tip(m)' = Tip(m) /\ Listed(m)' = Listed(m)
    BY <1>0, <2>1 DEF KeptInv, Tip, Listed
  <2>3. Tip(m).idx # None /\ Listed(m) \subseteq Txs
    BY <2>2, ConstantAssumption DEF Block
  <2>4. \A t \in Listed(m) : included'[t] # None
    BY <2>1, <2>2, <2>3
  <2>5. \A t \in Txs : included[t] # None => included'[t] # None
    BY <2>1, <2>3
  <2>6. accepted \subseteq Txs
    BY <1>0 DEF TypeOK
  <2> QED
    BY <2>1, <2>2, <2>4, <2>5, <2>6 DEF KeptInv, AcceptedIsKept, OneEntryEach, Safe
<1>3. CASE ClearPending(m)
  <2>1. /\ UNCHANGED <<included, accepted, pending, chain>>
        /\ pc[m] = "clear" /\ pc'[m] = "settle" /\ rows' = {}
    BY <1>0, <1>3 DEF ClearPending
  <2>2. \A t \in accepted : included[t] # None
    BY <2>1 DEF KeptInv, AcceptedIsKept, Safe
  <2> QED
    BY <2>1, <2>2 DEF KeptInv, AcceptedIsKept, OneEntryEach, Safe
<1> QED
  BY <1>1, <1>2, <1>3

LEMMA KeptStep ==
  ASSUME NEW m, Nodes = {m}, TypesInv, NothingIsEvicted, KeptInv(m), [Next]_vars
  PROVE  KeptInv(m)'
<1>0. m \in Nodes /\ pc \in [Nodes -> States] /\ pending \in [Nodes -> SUBSET Entry]
  BY DEF TypesInv, TypeOK
<1>1. ASSUME UNCHANGED <<rows, included, accepted, pending, chain, pc>>
      PROVE  KeptInv(m)'
  BY <1>1 DEF KeptInv, AcceptedIsKept, OneEntryEach, Safe, Listed, Tip
<1>2. ASSUME NEW t \in ApiTxs, ApiSubmit(t)
      PROVE  KeptInv(m)'
  <2>1. UNCHANGED <<included, accepted, pending, chain, pc>> /\ rows' = rows \cup {t}
    BY <1>2 DEF ApiSubmit, object
  <2>2. \A u \in accepted \cap rows' : u \in rows \/ included[u] # None
    BY <2>1 DEF KeptInv, AcceptedIsKept
  <2> QED
    BY <2>1, <2>2 DEF KeptInv, AcceptedIsKept, OneEntryEach, Safe, Listed, Tip
<1>3. CASE Bootstrap(m) \/ Settle(m) \/ UNCHANGED vars
  BY <1>1, <1>3 DEF Bootstrap, Settle, Debit, Credit, Take, Complete, object, vars, tables
<1>4. CASE Load(m) \/ Crash(m)
  <2>1. /\ UNCHANGED <<rows, included, accepted>>
        /\ pc'[m] \in {"down", "replay"} /\ pending'[m] = {}
    BY <1>0, <1>4 DEF Load, Crash, tables, KeptInv
  <2> QED
    BY <2>1 DEF KeptInv, AcceptedIsKept, OneEntryEach
<1>5. CASE \/ LoadPending(m) \/ RejectTimestamp(m) \/ StartBlock(m) \/ RefuseBlock(m)
           \/ FinishBlock(m) \/ \E t \in Txs : AddTransaction(m, t)
  BY <1>5, KeptMempool
<1>6. CASE AppendBlock(m) \/ SaveBlock(m) \/ ResaveBlock(m) \/ ClearPending(m)
  BY <1>6, KeptBlock
<1>7. CASE FailBlock(m)
  <2>1. /\ UNCHANGED <<rows, included, accepted, pending, chain>>
        /\ pc[m] \in {"save", "resave", "clear"} /\ pc'[m] = "idle"
    BY <1>0, <1>7 DEF FailBlock, tables, object
  <2> QED
    BY <2>1 DEF KeptInv, AcceptedIsKept, OneEntryEach, Safe, Listed
<1> QED
  BY <1>2, <1>3, <1>4, <1>5, <1>6, <1>7 DEF Next, Startup, Mine

(* One miner that may die at any commit, on a store that may refuse any of   *)
(* them, with a list and a block that hold every transaction there is: a     *)
(* payment add_transaction accepted is in the pending table or in a stored   *)
(* block for ever.                                                           *)
THEOREM AcceptedStays ==
  ASSUME NEW m, Nodes = {m}, NothingIsEvicted
  PROVE  Spec => []AcceptedIsKept
<1>1. Init => KeptInv(m)
  BY DEF Init, KeptInv, AcceptedIsKept, OneEntryEach
<1>2. TypesInv /\ KeptInv(m) /\ [Next]_vars => KeptInv(m)'
  BY KeptStep
<1>3. KeptInv(m) => AcceptedIsKept
  BY DEF KeptInv
<1> QED
  BY <1>1, <1>2, <1>3, TypesInit, TypesStep, PTL DEF Spec

(* On a store that does not fail it is also mined once. *)
THEOREM PaymentsKept ==
  ASSUME NEW m, Nodes = {m}, ~MayFail, NothingIsEvicted
  PROVE  Spec => []PaymentsAreKept
BY AcceptedStays, PaymentsAreMinedOnce, PTL DEF PaymentsAreKept
-----------------------------------------------------------------------------
(* What a block takes out of the pending table                               *)

(* From the block's construction until its balances are settled its          *)
(* transactions are those of the list it was built from, and once it is      *)
(* saved each of them has its row.                                           *)
BlockHoldsList(n) ==
    /\ pc[n] \in {"save", "resave", "clear", "settle"}
         => Len(chain[n]) \in Nat \ {0} /\ Tip(n).txs = Listed(n)
    /\ pc[n] \in {"resave", "clear", "settle"}
         => \A t \in Listed(n) : included[t] # None
ListInv == \A n \in Nodes : BlockHoldsList(n)

(* A transaction's row is never deleted: saving a block writes its index. *)
LEMMA SavedStaysSaved ==
  ASSUME TypesInv, ListInv, [Next]_vars
  PROVE  \A t \in Txs : included[t] # None => included'[t] # None
<1>0. chain \in [Nodes -> Seq(Block)] /\ included \in [Txs -> Heights \cup {None}]
  BY DEF TypesInv, TypeOK
<1>1. ASSUME NEW n \in Nodes, SaveBlock(n) \/ ResaveBlock(n)
      PROVE  \A t \in Txs : included[t] # None => included'[t] # None
  <2>1. /\ included' = [t \in Txs |-> IF t \in Tip(n).txs THEN Tip(n).idx ELSE included[t]]
        /\ pc[n] \in {"save", "resave"}
    BY <1>1 DEF SaveBlock, ResaveBlock, WriteBlock
  <2>2. Tip(n) \in Block
    BY <1>0, <2>1 DEF ListInv, BlockHoldsList, Tip
  <2>3. Tip(n).idx # None
    BY <2>2, ConstantAssumption DEF Block
  <2> QED
    BY <2>1, <2>3
<1>2. ASSUME ~ \E n \in Nodes : SaveBlock(n) \/ ResaveBlock(n)
      PROVE  UNCHANGED included
  <2>1. CASE UNCHANGED vars
    BY <2>1 DEF vars, tables
  <2>2. ASSUME NEW t \in ApiTxs, ApiSubmit(t) PROVE UNCHANGED included
    BY <2>2 DEF ApiSubmit
  <2>3. ASSUME NEW n \in Nodes, Startup(n) \/ Settle(n) PROVE UNCHANGED included
    BY <2>3 DEF Startup, Bootstrap, Load, LoadPending, Settle, Debit, Credit, Take, Complete,
                tables
  <2>4. ASSUME NEW n \in Nodes,
               \/ StartBlock(n) \/ RefuseBlock(n) \/ AppendBlock(n) \/ ClearPending(n)
               \/ FinishBlock(n)
        PROVE  UNCHANGED included
    BY <2>4 DEF StartBlock, RefuseBlock, AppendBlock, ClearPending, FinishBlock, tables
  <2>5. ASSUME NEW n \in Nodes, RejectTimestamp(n) \/ FailBlock(n) \/ Crash(n)
        PROVE  UNCHANGED included
    BY <2>5 DEF RejectTimestamp, FailBlock, Crash, tables
  <2>6. ASSUME NEW n \in Nodes, NEW t \in Txs, AddTransaction(n, t) PROVE UNCHANGED included
    BY <2>6 DEF AddTransaction
  <2> QED
    BY <1>2, <2>1, <2>2, <2>3, <2>4, <2>5, <2>6 DEF Next, Mine
<1> QED
  BY <1>1, <1>2

(* The object that takes a step. *)
LEMMA ListOwnStep ==
  ASSUME TypesInv, NEW n \in Nodes, BlockHoldsList(n),
         \A t \in Txs : included[t] # None => included'[t] # None,
         \/ Startup(n) \/ Settle(n) \/ Mine(n)
         \/ RejectTimestamp(n) \/ FailBlock(n) \/ Crash(n)
         \/ \E t \in Txs : AddTransaction(n, t)
  PROVE  BlockHoldsList(n)'
<1>0. /\ pc \in [Nodes -> States] /\ chain \in [Nodes -> Seq(Block)]
      /\ Len(chain[n]) \in Nat /\ included \in [Txs -> Heights \cup {None}]
      /\ Listed(n) \subseteq Txs
  BY DEF TypesInv, TypeOK, Listed, Entry
<1>1. ASSUME pc'[n] = pc[n], chain'[n] = chain[n], pending'[n] = pending[n]
      PROVE  BlockHoldsList(n)'
  BY <1>0, <1>1 DEF BlockHoldsList, Listed, Tip
<1>2. ASSUME pc'[n] \in {"down", "replay", "idle", "build"}
      PROVE  BlockHoldsList(n)'
  BY <1>2 DEF BlockHoldsList
<1>3. CASE Startup(n)
  <2>1. CASE Bootstrap(n)
    BY <1>1, <2>1 DEF Bootstrap, object
  <2>2. CASE Load(n) \/ LoadPending(n)
    BY <1>0, <1>2, <2>2 DEF Load, LoadPending
  <2> QED
    BY <1>3, <2>1, <2>2 DEF Startup
<1>4. CASE Settle(n)
  BY <1>1, <1>4 DEF Settle, Debit, Credit, Take, Complete
<1>5. CASE \/ RejectTimestamp(n) \/ FailBlock(n) \/ Crash(n)
           \/ StartBlock(n) \/ RefuseBlock(n) \/ FinishBlock(n)
           \/ \E t \in Txs : AddTransaction(n, t)
  BY <1>0, <1>2, <1>5 DEF RejectTimestamp, FailBlock, Crash, StartBlock, RefuseBlock,
                          FinishBlock, AddTransaction
<1>6. CASE AppendBlock(n)
  <2>1. pc'[n] = "save" /\ Listed(n)' = Listed(n)
    BY <1>0, <1>6 DEF AppendBlock, Listed
  <2>2. PICK id \in Hashes :
          chain' = [chain EXCEPT ![n] = Append(@,
                      [hash |-> id, prev |-> Tip(n).hash, idx |-> Len(@),
                       txs |-> {e.tx : e \in pending[n]}, rewards |-> coinbases[n]])]
    BY <1>6 DEF AppendBlock
  <2> DEFINE b == [hash |-> id, prev |-> Tip(n).hash, idx |-> Len(chain[n]),
                   txs |-> {e.tx : e \in pending[n]}, rewards |-> coinbases[n]]
  <2>3. chain'[n] = Append(chain[n], b) /\ b.txs = Listed(n)
    BY <1>0, <2>2 DEF Listed
  <2> HIDE DEF b
  <2>4. Len(chain'[n]) = Len(chain[n]) + 1 /\ chain'[n][Len(chain[n]) + 1] = b
    BY <1>0, <2>3
  <2>5. Tip(n)'.txs = Listed(n)
    BY <2>3, <2>4 DEF Tip
  <2> QED
    BY <1>0, <2>1, <2>4, <2>5 DEF BlockHoldsList
<1>7. CASE SaveBlock(n) \/ ResaveBlock(n)
  <2>1. /\ UNCHANGED <<pending, chain>>
        /\ pc[n] \in {"save", "resave"} /\ pc'[n] \in {"resave", "clear"}
        /\ included' = [t \in Txs |-> IF t \in Tip(n).txs THEN Tip(n).idx ELSE included[t]]
    BY <1>0, <1>7 DEF SaveBlock, ResaveBlock, WriteBlock, object
  <2>2. /\ Tip(n) \in Block /\ Tip(n).txs = Listed(n) /\ Len(chain[n]) \in Nat \ {0}
        /\ Tip(n)' = Tip(n) /\ Listed(n)' = Listed(n)
    BY <1>0, <2>1 DEF BlockHoldsList, Tip, Listed
  <2>3. Tip(n).idx # None
    BY <2>2, ConstantAssumption DEF Block
  <2>4. \A t \in Listed(n) : included'[t] # None
    BY <1>0, <2>1, <2>2, <2>3
  <2> QED
    BY <2>1, <2>2, <2>4 DEF BlockHoldsList
<1>8. CASE ClearPending(n)
  <2>1. UNCHANGED <<included, pending, chain>> /\ pc[n] = "clear" /\ pc'[n] = "settle"
    BY <1>0, <1>8 DEF ClearPending
  <2> QED
    BY <2>1 DEF BlockHoldsList, Listed, Tip
<1> QED
  BY <1>3, <1>4, <1>5, <1>6, <1>7, <1>8 DEF Mine

(* Any step: the objects that do not take it keep their list and chain. *)
LEMMA ListStep == TypesInv /\ ListInv /\ [Next]_vars => ListInv'
<1> SUFFICES ASSUME TypesInv, ListInv, [Next]_vars, NEW n \in Nodes
             PROVE  BlockHoldsList(n)'
  BY DEF ListInv
<1>0. /\ \A t \in Txs : included[t] # None => included'[t] # None
      /\ BlockHoldsList(n) /\ Listed(n) \subseteq Txs
  BY SavedStaysSaved DEF ListInv, TypesInv, TypeOK, Listed, Entry
<1>1. ASSUME pc'[n] = pc[n], chain'[n] = chain[n], pending'[n] = pending[n]
      PROVE  BlockHoldsList(n)'
  BY <1>0, <1>1 DEF BlockHoldsList, Listed, Tip
<1>2. CASE UNCHANGED vars
  BY <1>1, <1>2 DEF vars, object
<1>3. ASSUME NEW t \in ApiTxs, ApiSubmit(t) PROVE BlockHoldsList(n)'
  BY <1>1, <1>3 DEF ApiSubmit, object
<1>4. ASSUME NEW m \in Nodes,
             \/ Startup(m) \/ Settle(m) \/ Mine(m)
             \/ RejectTimestamp(m) \/ FailBlock(m) \/ Crash(m)
             \/ \E t \in Txs : AddTransaction(m, t)
      PROVE  BlockHoldsList(n)'
  <2>1. CASE m = n
    BY <1>0, <1>4, <2>1, ListOwnStep
  <2>2. CASE m # n
    <3>1. /\ pc \in [Nodes -> States] /\ chain \in [Nodes -> Seq(Block)]
          /\ pending \in [Nodes -> SUBSET Entry]
      BY DEF TypesInv, TypeOK
    <3>2. CASE Startup(m) \/ Settle(m)
      BY <1>1, <2>2, <3>1, <3>2
         DEF Startup, Bootstrap, Load, LoadPending, Settle, Debit, Credit, Take, Complete, object
    <3>3. CASE Mine(m)
      BY <1>1, <2>2, <3>1, <3>3
         DEF Mine, StartBlock, RefuseBlock, AppendBlock, SaveBlock, ResaveBlock, ClearPending,
             FinishBlock, object
    <3>4. CASE RejectTimestamp(m) \/ FailBlock(m) \/ Crash(m)
      BY <1>1, <2>2, <3>1, <3>4 DEF RejectTimestamp, FailBlock, Crash, object
    <3>5. ASSUME NEW t \in Txs, AddTransaction(m, t) PROVE BlockHoldsList(n)'
      BY <1>1, <2>2, <3>1, <3>5 DEF AddTransaction
    <3> QED
      BY <1>4, <3>2, <3>3, <3>4, <3>5
  <2> QED
    BY <2>1, <2>2
<1> QED
  BY <1>2, <1>3, <1>4 DEF Next

(* However many objects and wallet requests share the store, and whichever   *)
(* commit fails: clear_pending deletes no unmined payment of the object that *)
(* runs it (storage.py:221); what it can lose was recorded by another.       *)
THEOREM ClearingIsSafe == Spec => OnlyForeignRowsLost
<1>1. Init => ListInv
  BY DEF Init, ListInv, BlockHoldsList
<1>2. ListInv => (\A n \in Nodes :
         /\ pc[n] = "clear" /\ pc'[n] = "settle"
              => \A t \in rows \ rows' : t \in Listed(n) => included[t] # None
         /\ pc[n] = "settle" /\ pc'[n] = "idle"
              => \A t \in Listed(n) : included[t] # None)
  BY DEF ListInv, BlockHoldsList
<1> QED
  BY <1>1, <1>2, ListStep, TypesInit, TypesStep, PTL DEF Spec, OnlyForeignRowsLost
=============================================================================
