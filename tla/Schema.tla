------------------------------- MODULE Schema -------------------------------
(***************************************************************************)
(* The tables of the shared SQLite file and the programs that create them  *)
(* at their start: run_node.py (core/db_init.py), api.py, and the programs *)
(* that construct an EKUSHChain (core/block.py, core/storage.py).  Every   *)
(* CREATE TABLE IF NOT EXISTS commits by itself, so starts interleave and  *)
(* a crash leaves a part of them.  Of a table's columns the model keeps    *)
(* those that some statement names and some creator leaves out.            *)
(***************************************************************************)
EXTENDS Naturals, Sequences, FiniteSets

CONSTANT Chains         \* the programs that construct an EKUSHChain

ASSUME SchemaAssumption == {"node", "api", "none"} \cap Chains = {}

Programs == {"node", "api"} \cup Chains

VARIABLES
    tables,     \* the columns of each table, {} before it exists
    genesis,    \* the program whose block is at idx 0, or "none"
    status,     \* of each program
    at,         \* the number of its next statement
    memory,     \* chain[0] of each EKUSHChain: whose genesis block it is
    began,     \* history: the starting chains that began without a block
    overlap     \* history: a chain replaced a genesis block written since its start

svars == <<tables, genesis, status, at, memory, began, overlap>>

Create(new) == [do |-> "create", tables |-> new]
Need(table, columns) == [do |-> "need", table |-> table, columns |-> columns]
\* COUNT(*) of the blocks: when there is one, the next statements are skipped.
Count(next) == [do |-> "count", table |-> "blocks", columns |-> {"idx"}, skip |-> next]
Insert(how) == [do |-> how, table |-> "blocks", columns |-> {"idx"}]

\* Tables created in one step are not told apart by what runs in between.
\* init_all_tables: the tables other programs create, too, under other columns ...
ChainTables ==
    << Create([blocks |-> {"idx", "transactions_count"}]),
       Create([transactions |-> {"tx_hash", "public_key"},
               pending_transactions |-> {"tx_hash", "public_key"}]),
       Create([utxos |-> {"outpoint", "address", "is_spent", "spent_at"}]) >>

\* ... those of which there is one definition ...
RegistryTables ==
    << Create([mempool |-> {"tx_hash"}, balances |-> {"address", "balance"},
               validators |-> {"address"}, mining_rewards |-> {"block_height"},
               allocation_wallets |-> {"id"}, voters |-> {"voter_id", "public_key"},
               wallets |-> {"address"}, nonces |-> {"nonce"},
               governance_proposals |-> {"proposal_id"},
               governance_votes |-> {"proposal_id"}, elections |-> {"election_id"}]) >>

\* Mutant: no index on utxos.is_spent.
IndicesWithoutSpent == << Need("utxos", {"address"}), Need("blocks", {"idx"}) >>

\* ... and the indices, each of which needs its columns.
Indices == << Need("utxos", {"address", "is_spent"}), Need("blocks", {"idx"}) >>

InitAllocationWallets == << Need("allocation_wallets", {"id"}) >>
InitGenesisBlock == << Count(1), Insert("insert") >>

EnsureInitialized ==
    ChainTables \o RegistryTables \o Indices \o InitAllocationWallets \o InitGenesisBlock

\* api.py, when it is imported: the managers it imports first, ...
ValidatorTable == << Create([validators |-> {"address"}]) >>

\* ... its own tables, ...
InitWalletDb ==
    << Create([wallets |-> {"address"}, nonces |-> {"nonce"}, utxos |-> {"txid", "address"}]) >>

\* ... and the ledger of the allocations, whose import is further down.
AllocationTable == << Create([allocation_wallets |-> {"id"}]) >>

ImportApi == ValidatorTable \o InitWalletDb \o AllocationTable

InitBalanceDb == << Create([balances |-> {"address", "balance"}]) >>

\* storage.init_db.
InitDb ==
    << Create([blocks |-> {"idx"}]),
       Create([transactions |-> {"tx_hash"}, pending_transactions |-> {"tx_hash"}]) >>

\* Mutant: chain_exists is not asked.
InitChainAnew == InitBalanceDb \o InitDb \o << Insert("replace") >>

\* EKUSHChain(): chain_exists, and the first start.
InitChain == InitBalanceDb \o << Count(3) >> \o InitDb \o << Insert("replace") >>

Program(p) ==
    CASE p = "node" -> EnsureInitialized \o ImportApi
      [] p = "api" -> ImportApi
      [] OTHER -> InitChain

Tables == {"blocks", "transactions", "pending_transactions", "mempool", "utxos", "balances",
           "validators", "mining_rewards", "allocation_wallets", "voters", "wallets",
           "nonces", "governance_proposals", "governance_votes", "elections", "utxoset",
           "pruned_blocks", "contracts"}

SchemaTypeOK ==
    /\ DOMAIN tables = Tables
    /\ genesis \in {"none"} \cup Programs
    /\ status \in [Programs -> {"down", "starting", "up"}]
    /\ \A p \in Programs : at[p] \in 1 .. Len(Program(p)) + 1
    /\ memory \in [Chains -> {"none"} \cup Programs]
    /\ began \subseteq Chains /\ overlap \in BOOLEAN

SchemaInit ==
    /\ tables = [t \in Tables |-> {}] /\ genesis = "none"
    /\ status = [p \in Programs |-> "down"] /\ at = [p \in Programs |-> 1]
    /\ memory = [p \in Chains |-> "none"] /\ began = {}
    /\ overlap = FALSE

Runs(statement) ==
    /\ tables[statement.table] # {}
    /\ statement.columns \subseteq tables[statement.table]

Forgotten(p) == [c \in Chains |-> IF c = p THEN "none" ELSE memory[c]]

\* sqlite3.OperationalError or IntegrityError, which nothing catches.
Fails(p, statement) ==
    CASE statement.do = "create" -> FALSE
      [] statement.do = "insert" -> ~Runs(statement) \/ genesis # "none"
      [] OTHER -> ~Runs(statement)

-----------------------------------------------------------------------------
Start(p) ==
    /\ status[p] = "down"
    /\ status' = [status EXCEPT ![p] = "starting"]
    /\ began' = IF genesis = "none" THEN began \cup ({p} \cap Chains) ELSE began
    /\ UNCHANGED <<tables, genesis, at, memory, overlap>>

\* One statement of the program's start.
Execute(p) ==
    LET s == Program(p)[at[p]]
        skip == s.do = "count" /\ genesis # "none"
        next == at[p] + 1 + (IF skip THEN s.skip ELSE 0)
    IN /\ status[p] = "starting" /\ at[p] <= Len(Program(p))
       /\ IF Fails(p, s)
          THEN /\ status' = [status EXCEPT ![p] = "down"]
               /\ at' = [at EXCEPT ![p] = 1] /\ memory' = Forgotten(p)
               /\ began' = began \ {p} /\ UNCHANGED <<tables, genesis, overlap>>
          ELSE /\ at' = [at EXCEPT ![p] = next]
               /\ tables' = IF s.do # "create" THEN tables
                            ELSE [t \in Tables |-> IF tables[t] = {} /\ t \in DOMAIN s.tables
                                                   THEN s.tables[t] ELSE tables[t]]
               /\ genesis' = IF s.do \in {"insert", "replace"} THEN p ELSE genesis
               /\ memory' = [c \in Chains |-> IF c = p /\ skip THEN genesis
                                              ELSE IF c = p /\ s.do = "replace" THEN p
                                              ELSE memory[c]]
               /\ overlap' = (overlap \/ (s.do = "replace" /\ p \in began /\ genesis # "none"))
               /\ UNCHANGED <<status, began>>

Finish(p) ==
    /\ status[p] = "starting" /\ at[p] > Len(Program(p))
    /\ status' = [status EXCEPT ![p] = "up"] /\ at' = [at EXCEPT ![p] = 1]
    /\ began' = began \ {p}
    /\ UNCHANGED <<tables, genesis, memory, overlap>>

Crash(p) ==
    /\ status[p] \in {"starting", "up"} /\ status' = [status EXCEPT ![p] = "down"]
    /\ at' = [at EXCEPT ![p] = 1] /\ memory' = Forgotten(p)
    /\ began' = began \ {p} /\ UNCHANGED <<tables, genesis, overlap>>

SchemaNext ==
    \E p \in Programs : Start(p) \/ Execute(p) \/ Finish(p) \/ Crash(p)

SchemaSpec == SchemaInit /\ [][SchemaNext]_svars

-----------------------------------------------------------------------------
\* The statements a running node issues: the whole call fails with its statement.
SendTransaction == Need("utxos", {"outpoint", "address", "is_spent", "spent_at"})
StoreSynced == Need("blocks", {"idx", "transactions_count"})
GetPrivateKey == Need("voters", {"private_key"})
PruneOldBlocks == Need("blocks", {"is_pruned"})
DisconnectBlocks == Need("blocks", {"is_active"})
CreateSnapshot == Need("utxoset", {"outpoint"})
LoadSnapshot == Need("utxoset", {"outpoint"})
BootSnapshot == Need("blocks", {"is_active", "height"})
ComputeFullHash == Need("utxoset", {"outpoint"})
DeployContract == Need("contracts", {"contract_id"})
ExecuteContract == Need("contracts", {"contract_id"})
VerifyOnStartup == Need("utxoset", {"outpoint"})     \* asks for the table only
CloseElection == Need("elections", {"candidates"})

Unsupported == {GetPrivateKey, PruneOldBlocks, DisconnectBlocks, CreateSnapshot, LoadSnapshot,
                BootSnapshot, ComputeFullHash, DeployContract, ExecuteContract, VerifyOnStartup,
                CloseElection}

(* A node that is up has the tables its payments and its synchronisation    *)
(* need, whatever was started before it: if api.py created utxos first,     *)
(* under other columns, the node does not start.  No order of starts makes  *)
(* pruning, reorganisations, snapshots, contracts, the election vote, the   *)
(* end of an election or the verification of the database run: nothing      *)
(* creates what they name.  And the genesis block an EKUSHChain works on is *)
(* the stored one, unless some chain began to start on an empty table and   *)
(* replaced the block another program wrote meanwhile.                      *)
UpMeansUsable ==
    /\ status["node"] = "up" => Runs(SendTransaction) /\ Runs(StoreSynced)
    /\ \A s \in Unsupported : ~Runs(s)
    /\ \A p \in Chains : memory[p] # "none" => memory[p] = genesis \/ overlap
=============================================================================
