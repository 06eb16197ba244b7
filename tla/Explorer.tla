------------------------------ MODULE Explorer ------------------------------
(***************************************************************************)
(* What the node reports of its chain while it is written: the endpoints   *)
(* /blocks and /stats (api.py), is_valid and get_fork_info of the          *)
(* EKUSHChain objects (core/block.py) and the reorganisation manager       *)
(* (core/reorg.py).  Each SELECT sees the store of its moment; between two *)
(* SELECTs of one answer the objects mine, die and reload, and blocks are  *)
(* downloaded.  A name stands for a block hash, 0 for the genesis block's. *)
(***************************************************************************)
EXTENDS Integers, Sequences, FiniteSets, FiniteSetsExt

CONSTANTS Objects,      \* programs that construct an EKUSHChain
          Spends,       \* payments that may be in a block
          MaxDepth,     \* max_depth of a reorganisation
          Peak,         \* bound: the highest idx
          MaxMade,      \* bound: blocks mined and downloaded
          MaxSynced     \* bound: blocks downloaded

ASSUME ExplorerAssumption ==
    /\ MaxDepth \in Nat
    /\ Peak \in Nat /\ MaxMade \in Nat /\ MaxSynced \in Nat
    /\ IsFiniteSet(Spends) /\ Spends \cap 1 .. MaxMade = {}

VARIABLES
    stored,     \* blocks: name and previous_hash of each idx
    listed,     \* transactions: the block_idx of each
    object,     \* of each program: is it up, self.chain and self.spent_outputs
    reading,    \* the answer in the making
    given,      \* the one just given
    mined,      \* history: every block an object made, and whether it was stored
    synced,     \* history: every block downloaded
    failed,     \* history: an INSERT failed
    overwrote   \* history: a block was stored over another

store == <<stored, listed>>
trace == <<mined, synced, failed, overwrote>>
evars == <<store, object, reading, given, trace>>

NoRow == [name |-> -1, prev |-> -1]
Genesis == [name |-> 0, prev |-> -1]
NotRunning == [up |-> FALSE, chain |-> << >>, known |-> {}]
NoAnswer == [of |-> "none"]
Rows == {h \in 0 .. Peak : stored[h] # NoRow}
Downloaded(h) == MaxMade + h    \* the peer's block at h, on the same genesis block

ExplorerTypeOK ==
    /\ stored \in [0 .. Peak -> [name : Int, prev : Int]]
    /\ DOMAIN listed \subseteq Spends \cup (1 .. MaxMade)
    /\ \A o \in Objects :
          /\ object[o].up \in BOOLEAN
          /\ object[o].chain \in Seq([name : Int, prev : Int, idx : 0 .. Peak])
          /\ object[o].known \subseteq Spends
    /\ reading.of \in {"none", "block", "stats", "reorg"}
    /\ given.of \in {"none", "block", "stats", "reorg"}
    /\ failed \in BOOLEAN /\ overwrote \in BOOLEAN

ExplorerInit ==
    /\ stored = [h \in 0 .. Peak |-> IF h = 0 THEN Genesis ELSE NoRow]
    /\ listed = << >>
    /\ object = [o \in Objects |-> NotRunning] /\ reading = NoAnswer /\ given = NoAnswer
    /\ mined = {} /\ synced = {} /\ failed = FALSE /\ overwrote = FALSE

-----------------------------------------------------------------------------
(* The writers                                                               *)

Made == Cardinality(mined) + Cardinality(synced)
Unread == reading' = reading /\ given' = NoAnswer
ListedAt(h) == {t \in DOMAIN listed : listed[t] = h}

\* load_chain: by ascending idx, gaps closed.
ChainReloaded ==
    [i \in 1 .. Cardinality(Rows) |->
        LET h == CHOOSE k \in Rows : Cardinality({j \in Rows : j < k}) = i - 1
        IN [name |-> stored[h].name, prev |-> stored[h].prev, idx |-> h]]

\* The program is started, or dies anywhere and is started again.  Of the
\* payments reloaded only those of the last block are known as spent.
LoadObject(o) ==
    /\ object' = [object EXCEPT ![o] = [up |-> TRUE, chain |-> ChainReloaded,
                                       known |-> ListedAt(Max(Rows)) \cap Spends]]
    /\ Unread /\ UNCHANGED <<store, trace>>

\* Mutant: the transactions of a block are stored under the idx before.
TxRowsBelow(b) == [t \in b.txs \cup DOMAIN listed |-> IF t \in b.txs THEN b.idx - 1 ELSE listed[t]]

\* INSERT OR REPLACE by tx_hash: the row of a payment moves to the new block.
TxRows(b) == [t \in b.txs \cup DOMAIN listed |-> IF t \in b.txs THEN b.idx ELSE listed[t]]

\* add_block: the block is in self.chain, and stored unless the database is locked; the
\* second commit of _save_block_sqlite writes the same rows.
StoreBlock(o) ==
    LET chain == object[o].chain
        name == Cardinality(mined) + 1
    IN /\ object[o].up /\ Len(chain) <= Peak /\ Made < MaxMade
       /\ \E S \in SUBSET (Spends \ object[o].known), kept \in BOOLEAN :
            LET b == [name |-> name, prev |-> chain[Len(chain)].name, idx |-> Len(chain)]
                new == [name |-> name, idx |-> b.idx, txs |-> S \cup {name}, kept |-> kept]
            IN /\ object' = [object EXCEPT ![o] = [up |-> TRUE, chain |-> Append(chain, b),
                                                  known |-> @.known \cup S]]
               /\ mined' = mined \cup {new}
               /\ IF kept
                  THEN /\ stored' = [stored EXCEPT ![b.idx] = [name |-> b.name, prev |-> b.prev]]
                       /\ listed' = TxRows(new) /\ UNCHANGED failed
                       /\ overwrote' = (overwrote \/ stored[b.idx] # NoRow)
                  ELSE failed' = TRUE /\ UNCHANGED <<stored, listed, overwrote>>
       /\ Unread /\ UNCHANGED synced

\* save_synced_block: at the height of the store, or above it when one before
\* could not be saved.  Its transactions are not stored, its parent not compared.
SyncBlock(h) ==
    /\ Cardinality(synced) < MaxSynced /\ Made < MaxMade /\ stored[h] = NoRow /\ h >= Cardinality(Rows)
    /\ stored' = [stored EXCEPT ![h] = [name |-> Downloaded(h),
                                        prev |-> IF h = 1 THEN 0 ELSE Downloaded(h - 1)]]
    /\ synced' = synced \cup {Downloaded(h)} /\ failed' = (failed \/ h > Cardinality(Rows))
    /\ Unread /\ UNCHANGED <<listed, object, mined, overwrote>>

-----------------------------------------------------------------------------
(* The readers: the first SELECT of an answer, and its last                   *)

Asking(first) ==
    /\ reading = NoAnswer /\ reading' = first /\ given' = NoAnswer
    /\ UNCHANGED <<store, object, trace>>

Answering(last) ==
    /\ given' = last /\ reading' = NoAnswer
    /\ UNCHANGED <<store, object, trace>>

\* One block, or each of a range: its row, and its transactions.
ReadBlock(h) == stored[h] # NoRow /\ Asking([of |-> "block", at |-> h, name |-> stored[h].name])
ReadTransactions ==
    /\ reading.of = "block"
    /\ Answering([of |-> "block", at |-> reading.at, name |-> reading.name,
                  txs |-> ListedAt(reading.at)])

\* /stats: COUNT(*) of the blocks, then of the transactions.
CountBlocks == Asking([of |-> "stats", length |-> Cardinality(Rows)])
CountTransactions ==
    /\ reading.of = "stats"
    /\ Answering([of |-> "stats", length |-> reading.length,
                  total |-> Cardinality(DOMAIN listed)])

\* The heights found from a hash by following previous_hash, k rows at most.
Back[k \in 0 .. Peak + 1, name \in Int] ==
    LET at == {h \in Rows : stored[h].name = name}
    IN IF k = 0 \/ at = {} THEN {}
       ELSE at \cup UNION {Back[k - 1, stored[h].prev] : h \in at}

\* _find_fork_point: 0 when nothing is shared.
ForkPoint(name) == LET shared == Back[Peak + 1, name] IN IF shared = {} THEN 0 ELSE Max(shared)

\* detect_and_recover: the tip, unless it is the hash it is called with ...
ReadTip(name) ==
    stored[Max(Rows)].name # name /\ Asking([of |-> "reorg", tip |-> Max(Rows), to |-> name])

\* ... the fork point, unless it is too deep ...
FindFork ==
    /\ reading.of = "reorg" /\ "fork" \notin DOMAIN reading
    /\ LET fork == ForkPoint(reading.to)
       IN reading' = IF reading.tip - fork > MaxDepth THEN NoAnswer
                     ELSE [of |-> "reorg", tip |-> reading.tip, to |-> reading.to, fork |-> fork]
    /\ given' = NoAnswer /\ UNCHANGED <<store, object, trace>>

\* ... and with blocks to disconnect the UPDATE names a column that does not
\* exist, and the call raises; without, nothing is left to connect either.
Disconnect ==
    /\ reading.of = "reorg" /\ "fork" \in DOMAIN reading
    /\ \A h \in Rows : h <= reading.fork
    /\ Answering(reading)
ReorgRaises ==
    /\ reading.of = "reorg" /\ "fork" \in DOMAIN reading
    /\ \E h \in Rows : h > reading.fork
    /\ Answering(NoAnswer)

ExplorerNext ==
    \/ \E o \in Objects : LoadObject(o) \/ StoreBlock(o)
    \/ \E h \in 0 .. Peak : SyncBlock(h) \/ ReadBlock(h)
    \/ ReadTransactions \/ CountBlocks \/ CountTransactions
    \/ \E name \in (1 .. MaxMade) \cup {Downloaded(h) : h \in 1 .. Peak} : ReadTip(name)
    \/ FindFork \/ Disconnect \/ ReorgRaises

ExplorerSpec == ExplorerInit /\ [][ExplorerNext]_evars

-----------------------------------------------------------------------------
\* is_valid, and get_fork_info: two blocks of one chain with one index.
IsValid(chain) == \A i \in 2 .. Len(chain) : chain[i].prev = chain[i - 1].name
HasForks(chain) == \E i, j \in DOMAIN chain : i < j /\ chain[i].idx = chain[j].idx

TxsOf(name) == UNION {b.txs : b \in {c \in mined : c.name = name}}

\* A block is shown with other transactions than its own only if another one
\* was stored at its height or with a payment of its own.
BlocksAreShownWhole ==
    given.of = "block" =>
        \/ given.txs = TxsOf(given.name)
        \/ \E c \in mined : /\ c.kept /\ c.name # given.name
                            /\ c.idx = given.at \/ c.txs \cap TxsOf(given.name) # {}

\* /stats counts no mined block whose transactions it does not count.
CountsAgree ==
    given.of = "stats" => given.length <= given.total + 1 + Cardinality(synced)

\* An object's chain is linked, and numbered once, unless a block was stored
\* over another one or lost, or came from a peer; /stats and /chain say
\* chain_valid all the same.
ChainsAreLinked ==
    \A o \in Objects :
        /\ IsValid(object[o].chain) \/ overwrote \/ failed \/ synced # {}
        /\ HasForks(object[o].chain) => failed

\* A reorganisation is reported done only where nothing is disconnected of the
\* chain that was there when it began.
ReorgsDisconnectNothing == given.of = "reorg" => given.fork >= given.tip

(* Every irregular report has its cause in another writer, a block that was *)
(* lost or one that came from a peer.                                       *)
ReportsAreAccounted ==
    BlocksAreShownWhole /\ CountsAgree /\ ChainsAreLinked /\ ReorgsDisconnectNothing
=============================================================================
