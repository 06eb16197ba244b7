----------------------------- MODULE EkushChain -----------------------------
(***************************************************************************)
(* EKUSHChain (core/block.py) on its SQLite store (core/storage.py): the   *)
(* constructor that reloads the chain, add_transaction, add_block commit   *)
(* by commit, and the loop of fixed_miner.py around it.                    *)
(*                                                                         *)
(* A node is a process that holds one EKUSHChain object.  The tables are   *)
(* shared by all processes and survive crashes; the object does not.  Each *)
(* action ends at a commit, the points where another process can look and  *)
(* where a crash makes a difference.                                       *)
(*                                                                         *)
(* A transaction is its hash with the fields the rules compare.  The       *)
(* reward transactions carry no balance (add_block skips them), so a list  *)
(* only counts them, in the lists and blocks this object built (a reloaded *)
(* block counts none).  Every transaction weighs 1 and is above the dust   *)
(* limit.                                                                  *)
(***************************************************************************)
EXTENDS Integers, FiniteSets, Sequences, Functions

CONSTANTS Nodes,            \* processes with an EKUSHChain object
          Hashes,           \* block hashes
          NoHash,           \* "0" * 64
          None,             \* no row, no value
          Txs,              \* user transactions: [id, from, to, amount, fee]
          ApiTxs,           \* those the wallet API writes to pending_transactions
          Addresses,        \* account addresses
          InitialBalance,   \* the balances table before the node first starts
          MaxHeight,        \* bound: the highest block of a behaviour
          MaxRewards,       \* bound: reward transactions counted in one list
          MaxMempool,       \* MAX_MEMPOOL_SIZE
          MaxBlockWeight,   \* MAX_BLOCK_WEIGHT
          MaxCrashes,       \* bound: process deaths in a behaviour
          MayFail           \* whether SQLite may answer "database is locked"

Heights == 0 .. MaxHeight
Link == [hash : Hashes, prev : Hashes \cup {NoHash}]

ASSUME TxAssumption ==
    \A t \in Txs : /\ t.from \in Addresses /\ t.to \in Addresses
                   /\ t.amount \in Nat \ {0} /\ t.fee \in Nat

ASSUME ConstantAssumption ==
    /\ MaxHeight \in Nat /\ MaxRewards \in Nat
    /\ MaxMempool \in Nat /\ MaxBlockWeight \in Nat
    /\ ApiTxs \subseteq Txs
    /\ NoHash \notin Hashes
    /\ None \notin Link /\ None \notin Txs /\ None \notin Heights
    /\ IsFiniteSet(Addresses) /\ InitialBalance \in [Addresses -> Int]
    /\ IsFiniteSet(Nodes)
    /\ MaxCrashes \in Nat /\ MayFail \in BOOLEAN

VARIABLES
    \* the tables
    blocks,     \* blocks: hash and previous_hash by idx, or None
    included,   \* transactions: the block_idx of each user transaction
    rows,       \* pending_transactions
    rewarded,   \* mining_rewards: the heights with a row
    balances,   \* balances
    \* the object of each node
    pc,         \* where its process is
    chain,      \* self.chain
    pending,    \* self.pending_transactions, user transactions
    coinbases,  \* self.pending_transactions, number of reward transactions
    spent,      \* self.spent_outputs
    todo,       \* transactions whose balances the running loop has to update
    half,       \* the transaction debited and not yet credited
    base,       \* history: blocks the object was constructed with
    \* history
    accepted,   \* transactions add_transaction answered True for
    crashes     \* process deaths so far

tables == <<blocks, included, rows, rewarded, balances>>
object == <<chain, pending, coinbases, spent, todo, half, base>>
vars == <<tables, pc, object, accepted, crashes>>

\* A reloaded transaction has lost its public key and no longer verifies.
Entry == [tx : Txs, keyed : BOOLEAN]
Block == [hash : Hashes, prev : Hashes \cup {NoHash}, idx : Heights,
          txs : SUBSET Txs, rewards : 0 .. MaxRewards]

States == {"down", "replay", "idle", "build", "save", "resave", "clear", "settle"}

TypeOK ==
    /\ blocks \in [Heights -> Link \cup {None}]
    /\ included \in [Txs -> Heights \cup {None}]
    /\ rows \in SUBSET Txs
    /\ rewarded \in SUBSET Heights
    /\ balances \in [Addresses -> Int]
    /\ pc \in [Nodes -> States]
    /\ chain \in [Nodes -> Seq(Block)]
    /\ pending \in [Nodes -> SUBSET Entry]
    /\ coinbases \in [Nodes -> 0 .. MaxRewards]
    /\ spent \in [Nodes -> SUBSET Txs]
    /\ todo \in [Nodes -> SUBSET Txs]
    /\ half \in [Nodes -> Txs \cup {None}]
    /\ base \in [Nodes -> Nat]
    /\ accepted \in SUBSET Txs
    /\ crashes \in 0 .. MaxCrashes

Init ==
    /\ blocks = [h \in Heights |-> None]
    /\ included = [t \in Txs |-> None]
    /\ rows = {}
    /\ rewarded = {}
    /\ balances = InitialBalance
    /\ pc = [n \in Nodes |-> "down"]
    /\ chain = [n \in Nodes |-> <<>>]
    /\ pending = [n \in Nodes |-> {}]
    /\ coinbases = [n \in Nodes |-> 0]
    /\ spent = [n \in Nodes |-> {}]
    /\ todo = [n \in Nodes |-> {}]
    /\ half = [n \in Nodes |-> None]
    /\ base = [n \in Nodes |-> 0]
    /\ accepted = {}
    /\ crashes = 0

Stored == {h \in Heights : blocks[h] # None}
Used == {blocks[h].hash : h \in Stored}
        \cup UNION {{chain[n][i].hash : i \in DOMAIN chain[n]} : n \in Nodes}
Tip(n) == chain[n][Len(chain[n])]
OneMore(k) == IF k = MaxRewards THEN MaxRewards ELSE k + 1

-----------------------------------------------------------------------------
(* The constructor                                                           *)

\* On an empty store the constructor saves the genesis block and then fails on
\* the loop variable it never bound; the supervisor restarts the process.
Bootstrap(n) ==
    /\ pc[n] = "down"
    /\ Stored = {}
    /\ \E g \in Hashes \ Used : blocks' = [blocks EXCEPT ![0] = [hash |-> g, prev |-> NoHash]]
    /\ UNCHANGED <<included, rows, rewarded, balances, pc, object, accepted, crashes>>

\* Mutant: ORDER BY idx DESC.
LoadChainDescending ==
    [i \in 1 .. Cardinality(Stored) |->
        LET h == CHOOSE k \in Stored : Cardinality({j \in Stored : j > k}) = i - 1
        IN [hash |-> blocks[h].hash, prev |-> blocks[h].prev, idx |-> h,
            txs |-> {t \in Txs : included[t] = h}, rewards |-> 0]]

\* load_chain: rows by ascending idx, gaps closed; the transactions of a block
\* are those whose row carries its idx.
LoadChain ==
    [i \in 1 .. Cardinality(Stored) |->
        LET h == CHOOSE k \in Stored : Cardinality({j \in Stored : j < k}) = i - 1
        IN [hash |-> blocks[h].hash, prev |-> blocks[h].prev, idx |-> h,
            txs |-> {t \in Txs : included[t] = h}, rewards |-> 0]]

Load(n) ==
    /\ pc[n] = "down"
    /\ Stored # {}
    /\ chain' = [chain EXCEPT ![n] = LoadChain]
    \* "for tx in block.transactions" runs with the last loaded block
    /\ todo' = [todo EXCEPT ![n] = LoadChain[Len(LoadChain)].txs]
    /\ base' = [base EXCEPT ![n] = Len(LoadChain)]
    /\ pc' = [pc EXCEPT ![n] = "replay"]
    /\ UNCHANGED <<tables, pending, coinbases, spent, half, accepted, crashes>>

LoadPending(n) ==
    /\ pc[n] = "replay" /\ todo[n] = {} /\ half[n] = None
    /\ pending' = [pending EXCEPT ![n] = {[tx |-> t, keyed |-> FALSE] : t \in rows}]
    /\ pc' = [pc EXCEPT ![n] = "idle"]
    /\ UNCHANGED <<tables, chain, coinbases, spent, todo, half, base, accepted, crashes>>

-----------------------------------------------------------------------------
(* _apply_transaction_to_balances: two commits per transaction, each of     *)
(* which _update_balance gives up silently when SQLite fails.                *)

Applying(n) == pc[n] \in {"replay", "settle"}
Debited(t) == [balances EXCEPT ![t.from] = @ - (t.amount + t.fee)]
Credited(t) == [balances EXCEPT ![t.to] = @ + t.amount]

\* The loop takes the next transaction t, whose first balance update gives b.
Take(n, t, b) ==
    /\ Applying(n) /\ half[n] = None /\ t \in todo[n]
    /\ todo' = [todo EXCEPT ![n] = @ \ {t}]
    /\ half' = [half EXCEPT ![n] = t]
    /\ balances' = b \/ (MayFail /\ UNCHANGED balances)
    /\ UNCHANGED <<blocks, included, rows, rewarded, pc, chain, pending, coinbases, base, accepted, crashes>>

\* Mutant: spent_outputs is not updated.
DebitUnrecorded(n) ==
    /\ \E t \in Txs : Take(n, t, Debited(t))
    /\ UNCHANGED spent

Debit(n) == \E t \in Txs : /\ Take(n, t, Debited(t))
                          /\ spent' = [spent EXCEPT ![n] = @ \cup {t}]

\* The second update of the transaction, which gives b.
Complete(n, b) ==
    /\ half[n] # None
    /\ half' = [half EXCEPT ![n] = None]
    /\ balances' = b \/ (MayFail /\ UNCHANGED balances)
    /\ UNCHANGED <<blocks, included, rows, rewarded, pc, chain, pending, coinbases, spent, todo, base, accepted, crashes>>

Credit(n) == \E t \in Txs : half[n] = t /\ Complete(n, Credited(t))

\* Mutant: the recipient is credited before the sender is debited.
SettleCreditFirst(n) ==
    \E t \in Txs :
        \/ /\ Take(n, t, Credited(t))
           /\ spent' = [spent EXCEPT ![n] = @ \cup {t}]
        \/ half[n] = t /\ Complete(n, Debited(t))

Settle(n) == Debit(n) \/ Credit(n)

-----------------------------------------------------------------------------
(* The mempool                                                               *)

Fee(e) == e.tx.fee
Length(n) == Cardinality(pending[n]) + coinbases[n]

\* The lists left when k elements of the lowest fee are popped; a reward
\* transaction has fee 0, and ties are broken by list order.
PopLowest(n, k) ==
    {p \in [keep : SUBSET pending[n], rewards : 0 .. coinbases[n]] :
        /\ Cardinality(p.keep) + p.rewards + k = Length(n)
        /\ \A e \in pending[n] \ p.keep :
             /\ \A f \in p.keep : Fee(e) <= Fee(f)
             /\ p.rewards > 0 => Fee(e) = 0}

\* The wallet API records a payment for the miner, on its own connection.
ApiSubmit(t) ==
    /\ t \notin rows
    /\ rows' = rows \cup {t}
    /\ UNCHANGED <<blocks, included, rewarded, balances, pc, object, accepted, crashes>>

Acceptable(n, t) ==
    /\ t \notin spent[n]
    /\ \A e \in pending[n] : ~(e.tx.from = t.from /\ e.tx.amount = t.amount)
    /\ balances[t.from] >= t.amount + t.fee

\* Mutant: the appended transaction has lost its public key.
AddUnkeyed(n, t) ==
    /\ pc[n] = "idle"
    /\ Acceptable(n, t)
    /\ pending' = [pending EXCEPT ![n] = @ \cup {[tx |-> t, keyed |-> FALSE]}]
    /\ rows' = rows \cup {t} /\ accepted' = accepted \cup {t}
    /\ UNCHANGED <<blocks, included, rewarded, balances, pc, chain, coinbases, spent, todo, half, base, crashes>>

\* add_transaction of a signed transaction; save_pending is its last step.
AddTransaction(n, t) ==
    /\ pc[n] = "idle"
    /\ Acceptable(n, t)
    /\ \E p \in PopLowest(n, IF Length(n) >= MaxMempool /\ Length(n) > 0 THEN 1 ELSE 0) :
         /\ pending' = [pending EXCEPT ![n] = p.keep \cup {[tx |-> t, keyed |-> TRUE]}]
         /\ coinbases' = [coinbases EXCEPT ![n] = p.rewards]
    /\ \/ rows' = rows \cup {t} /\ accepted' = accepted \cup {t}
       \/ MayFail /\ UNCHANGED <<rows, accepted>>
    /\ UNCHANGED <<blocks, included, rewarded, balances, pc, chain, spent, todo, half, base, crashes>>

-----------------------------------------------------------------------------
(* add_block                                                                 *)

Trimmed(n) ==
    PopLowest(n, IF Length(n) > MaxBlockWeight THEN Length(n) - MaxBlockWeight ELSE 0)

\* The clock is not past the median of the last blocks: None, after the trim.
RejectTimestamp(n) ==
    /\ pc[n] = "idle"
    /\ \E p \in Trimmed(n) :
         /\ pending' = [pending EXCEPT ![n] = p.keep]
         /\ coinbases' = [coinbases EXCEPT ![n] = p.rewards]
    /\ UNCHANGED <<tables, pc, chain, spent, todo, half, base, accepted, crashes>>

\* Mutant: the mining_rewards row is not written here.
RewardUnrecorded(n) ==
    /\ pc[n] = "idle"
    /\ Len(chain[n]) <= MaxHeight
    /\ \E p \in Trimmed(n) :
         /\ pending' = [pending EXCEPT ![n] = p.keep]
         /\ coinbases' = [coinbases EXCEPT ![n] = OneMore(p.rewards)]
    /\ pc' = [pc EXCEPT ![n] = "build"]
    /\ UNCHANGED <<tables, chain, spent, todo, half, base, accepted, crashes>>

\* Trim, add the reward transaction, commit the mining_rewards row (INSERT OR
\* IGNORE, and failures are ignored).
StartBlock(n) ==
    /\ pc[n] = "idle"
    /\ Len(chain[n]) <= MaxHeight
    /\ \E p \in Trimmed(n) :
         /\ pending' = [pending EXCEPT ![n] = p.keep]
         /\ coinbases' = [coinbases EXCEPT ![n] = OneMore(p.rewards)]
    /\ \/ rewarded' = rewarded \cup {Len(chain[n])}
       \/ MayFail /\ UNCHANGED rewarded
    /\ pc' = [pc EXCEPT ![n] = "build"]
    /\ UNCHANGED <<blocks, included, rows, balances, chain, spent, todo, half, base, accepted, crashes>>

\* A transaction without its public key fails verify_transactions: None, and
\* the reward transaction stays in the list.
RefuseBlock(n) ==
    /\ pc[n] = "build"
    /\ \E e \in pending[n] : ~e.keyed
    /\ pc' = [pc EXCEPT ![n] = "idle"]
    /\ UNCHANGED <<tables, object, accepted, crashes>>

\* Mutant: the index is one too high.
AppendBlockOffByOne(n) ==
    /\ pc[n] = "build"
    /\ \A e \in pending[n] : e.keyed
    /\ \E id \in Hashes \ Used :
         chain' = [chain EXCEPT ![n] = Append(@,
             [hash |-> id, prev |-> Tip(n).hash, idx |-> Len(@) + 1,
              txs |-> {e.tx : e \in pending[n]}, rewards |-> coinbases[n]])]
    /\ pc' = [pc EXCEPT ![n] = "save"]
    /\ UNCHANGED <<tables, pending, coinbases, spent, todo, half, base, accepted, crashes>>

AppendBlock(n) ==
    /\ pc[n] = "build"
    /\ \A e \in pending[n] : e.keyed
    /\ \E id \in Hashes \ Used :
         chain' = [chain EXCEPT ![n] = Append(@,
             [hash |-> id, prev |-> Tip(n).hash, idx |-> Len(@),
              txs |-> {e.tx : e \in pending[n]}, rewards |-> coinbases[n]])]
    /\ pc' = [pc EXCEPT ![n] = "save"]
    /\ UNCHANGED <<tables, pending, coinbases, spent, todo, half, base, accepted, crashes>>

\* Mutant: the rows of the block's transactions are not written.
WriteHeader(b) ==
    /\ blocks' = [blocks EXCEPT ![b.idx] = [hash |-> b.hash, prev |-> b.prev]]
    /\ UNCHANGED included

WriteBlock(b) ==
    /\ blocks' = [blocks EXCEPT ![b.idx] = [hash |-> b.hash, prev |-> b.prev]]
    /\ included' = [t \in Txs |-> IF t \in b.txs THEN b.idx ELSE included[t]]

\* _save_block_sqlite writes and commits the same rows twice.
SaveBlock(n) ==
    /\ pc[n] = "save"
    /\ WriteBlock(Tip(n))
    /\ pc' = [pc EXCEPT ![n] = "resave"]
    /\ UNCHANGED <<rows, rewarded, balances, object, accepted, crashes>>

ResaveBlock(n) ==
    /\ pc[n] = "resave"
    /\ WriteBlock(Tip(n))
    /\ pc' = [pc EXCEPT ![n] = "clear"]
    /\ UNCHANGED <<rows, rewarded, balances, object, accepted, crashes>>

\* Mutant: the pending rows are deleted before the block is saved.
ClearEarly(n) ==
    /\ pc[n] \in {"save", "clear"}
    /\ pc[n] = "save" => rows # {}
    /\ rows' = {}
    /\ IF pc[n] = "save" THEN UNCHANGED <<pc, todo>>
       ELSE /\ todo' = [todo EXCEPT ![n] = Tip(n).txs]
            /\ pc' = [pc EXCEPT ![n] = "settle"]
    /\ UNCHANGED <<blocks, included, rewarded, balances, chain, pending, coinbases, spent, half, base, accepted, crashes>>

\* clear_pending deletes every row, whoever wrote it.
ClearPending(n) ==
    /\ pc[n] = "clear"
    /\ rows' = {}
    /\ todo' = [todo EXCEPT ![n] = Tip(n).txs]
    /\ pc' = [pc EXCEPT ![n] = "settle"]
    /\ UNCHANGED <<blocks, included, rewarded, balances, chain, pending, coinbases, spent, half, base, accepted, crashes>>

FinishBlock(n) ==
    /\ pc[n] = "settle" /\ todo[n] = {} /\ half[n] = None
    /\ pending' = [pending EXCEPT ![n] = {}]
    /\ coinbases' = [coinbases EXCEPT ![n] = 0]
    /\ pc' = [pc EXCEPT ![n] = "idle"]
    /\ UNCHANGED <<tables, chain, spent, todo, half, base, accepted, crashes>>

\* The store refuses a commit of add_block: the exception leaves the object as
\* it is, and the miner loop goes on with it.
FailBlock(n) ==
    /\ MayFail
    /\ pc[n] \in {"save", "resave", "clear"}
    /\ pc' = [pc EXCEPT ![n] = "idle"]
    /\ UNCHANGED <<tables, object, accepted, crashes>>

\* The process dies, or the request that owned the object ends.
Crash(n) ==
    /\ pc[n] # "down"
    /\ crashes < MaxCrashes
    /\ crashes' = crashes + 1
    /\ pc' = [pc EXCEPT ![n] = "down"]
    /\ chain' = [chain EXCEPT ![n] = <<>>]
    /\ pending' = [pending EXCEPT ![n] = {}]
    /\ coinbases' = [coinbases EXCEPT ![n] = 0]
    /\ spent' = [spent EXCEPT ![n] = {}]
    /\ todo' = [todo EXCEPT ![n] = {}]
    /\ half' = [half EXCEPT ![n] = None]
    /\ base' = [base EXCEPT ![n] = 0]
    /\ UNCHANGED <<tables, accepted>>

Startup(n) == Bootstrap(n) \/ Load(n) \/ LoadPending(n)
Mine(n) ==
    \/ StartBlock(n) \/ RefuseBlock(n) \/ AppendBlock(n) \/ SaveBlock(n)
    \/ ResaveBlock(n) \/ ClearPending(n) \/ FinishBlock(n)

Next ==
    \/ \E t \in ApiTxs : ApiSubmit(t)
    \/ \E n \in Nodes :
         \/ Startup(n) \/ Settle(n) \/ Mine(n)
         \/ RejectTimestamp(n) \/ FailBlock(n) \/ Crash(n)
         \/ \E t \in Txs : AddTransaction(n, t)

Spec == Init /\ [][Next]_vars

\* The miner loop calls add_block for ever and the constructor runs to its end.
\* The clock advances, so a rejected timestamp is accepted later.
FairSpec ==
    /\ Spec
    /\ \A n \in Nodes : /\ WF_vars(Startup(n) \/ Settle(n) \/ Mine(n))
                        /\ SF_vars(StartBlock(n))

-----------------------------------------------------------------------------
(* Rows of blocks, oldest first, as the ledger they stand for. *)
StoredLedger == [i \in 1 .. Cardinality(Stored) |->
                   [hash |-> LoadChain[i].hash, prev |-> LoadChain[i].prev]]

(* With one miner the blocks table is an append-only linked ledger: no crash *)
(* between appending to the in-memory chain, the two saves and a reload ever *)
(* rewrites a stored block, skips an index or breaks previous_hash.          *)
Promise == INSTANCE Ledger WITH ledger <- StoredLedger
ImplementsLedger == Promise!Spec

(* The stored heights have no gaps, so an idx is a position in the chain.    *)
NoGaps == Stored = 0 .. Cardinality(Stored) - 1

(* Whatever step the object is in, its chain is the stored chain, plus the   *)
(* block it appended and has not saved yet.                                  *)
Saved(n) == IF pc[n] = "save" THEN Len(chain[n]) - 1 ELSE Len(chain[n])
Matches(n) ==
    /\ Saved(n) >= 1
    /\ Saved(n) = Cardinality(Stored)
    /\ \A i \in 1 .. Saved(n) :
          /\ i - 1 \in Stored
          /\ chain[n][i].idx = i - 1
          /\ blocks[i - 1] = [hash |-> chain[n][i].hash, prev |-> chain[n][i].prev]
MemoryMatchesStore == \A n \in Nodes : pc[n] # "down" => Matches(n)

(* However many objects write to one store, none is more than its own        *)
(* unsaved block ahead of it.                                                *)
ChainsFit ==
    \A n \in Nodes : pc[n] # "down" => Saved(n) \in 1 .. Cardinality(Stored)

(* A block being saved continues the chain of its object and has its         *)
(* mining_rewards row; so has the height about to be built.                  *)
UnsavedBlockFits ==
    \A n \in Nodes :
        /\ pc[n] = "build" => Len(chain[n]) \in rewarded
        /\ pc[n] \in {"save", "resave"}
             => /\ Len(chain[n]) > 1
                /\ Tip(n).idx = Len(chain[n]) - 1
                /\ Tip(n).idx \in rewarded
                /\ Tip(n).prev = chain[n][Len(chain[n]) - 1].hash

(* The balances table never holds more than was allocated, whatever prefix   *)
(* of the debits and credits of however many replays a crash leaves behind.  *)
SumOf(b) == SumFunctionOnSet(b, Addresses)
NoInflation == SumOf(balances) <= SumOf(InitialBalance)

(* An object that has accepted a transaction once does not put it into two   *)
(* of its blocks, nor into a block after the one that held it when it loaded.*)
NoDoubleMine ==
    \A n \in Nodes : \A i, j \in DOMAIN chain[n] :
        base[n] <= i /\ i < j => chain[n][i].txs \cap chain[n][j].txs = {}

(* A transaction add_transaction accepted is in the pending table or in a    *)
(* stored block, at every point of add_block and after every crash.          *)
AcceptedIsKept == \A t \in accepted : t \in rows \/ included[t] # None

(* A payment is mined once, and until then it is kept.                       *)
PaymentsAreKept == NoDoubleMine /\ AcceptedIsKept

(* clear_pending deletes every row of pending_transactions, and the object   *)
(* then empties its own list (storage.py:221). Every payment of that list is *)
(* in a stored block by then: all the deletion can lose are payments that    *)
(* the wallet API or another object recorded and this one never loaded.      *)
Listed(n) == {e.tx : e \in pending[n]}
OnlyForeignRowsLost ==
    [][\A n \in Nodes :
         /\ pc[n] = "clear" /\ pc'[n] = "settle"
              => \A t \in rows \ rows' : t \in Listed(n) => included[t] # None
         /\ pc[n] = "settle" /\ pc'[n] = "idle"
              => \A t \in Listed(n) : included[t] # None]_vars

(* Every stored block after genesis has its mining_rewards row.              *)
BlocksAreRewarded == Stored \ {0} \subseteq rewarded

(* What any number of objects maintain on a store that does not fail.        *)
Inv == TypeOK /\ NoGaps /\ ChainsFit /\ UnsavedBlockFits /\ BlocksAreRewarded

(* "[MINER] Started - mining every 3 seconds" (fixed_miner.py:34): a running *)
(* miner eventually extends its chain.                                       *)
KeepsMining ==
    \A n \in Nodes, k \in 1 .. MaxHeight :
        pc[n] = "idle" /\ Len(chain[n]) = k
            ~> pc[n] = "down" \/ Len(chain[n]) > k
=============================================================================
