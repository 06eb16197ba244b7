# TLA+ specifications of EverestKush

EverestKush is a proof-of-authority chain in Python: a miner process, a Flask
API served by several workers, a validator set with voting and slashing, a
wallet on unspent outputs, and a peer-to-peer layer. All of them meet in one
SQLite file. This directory holds TLA+ models of the parts of the program that
keep state, the TLC configurations that check them, and TLAPS proofs of their
main invariants.

How to run it (inside this directory):

    tlc -workers 2 -config EkushChain_crash.cfg MCEkushChain.tla
    tlapm EkushChain_proofs.tla

`PROJECT.json` lists the components, the runs with their properties, for each
property a plausible bug it detects, the source lines behind every definition,
the hazards of the code and the theorems.

## 1. Inventory

What all parts share: SQLite through Python's `sqlite3`, in WAL mode. A
connection is in autocommit mode until its first write, so a SELECT followed by
an INSERT is two steps and another worker can run between them; everything from
the first write to `commit()` is one step, because the first write takes the
only write lock. A connection waits 30 s for that lock and then raises
"database is locked". Only committed rows survive the death of a process. The
models are cut into actions by these rules. State that is only in memory is
guarded by a lock where the code has one, and otherwise every access of a thread
to it is a step.

| Component (source) | State | Operations | Hard part | What makes it correct | Status |
|---|---|---|---|---|---|
| Finality gadget (`core/bft_finality.py`, `/validator/vote`, `/validator/finality`) | `bft_votes`, `finalized_blocks` | vote, count, mark final | four steps per request, any number of workers, worker death | a height is finalized once, for a hash with a quorum; an answered "finalized" stays true | modelled |
| Chain and miner (`core/block.py`, `core/storage.py`, `fixed_miner.py`) | `blocks`, `transactions`, `pending_transactions`, `mining_rewards`, `balances`; in memory the chain, the mempool, `spent_outputs` | construct from store, accept a payment, build, save, settle; Merkle root, proofs, `validate_block` | six commits per block, crash between any two, locked database, second object on one store, a reload that builds other transactions | stored blocks form an append-only linked chain; nothing accepted is lost or mined twice; no inflation; the miner goes on | partly |
| UTXO wallet and coin control (`api.py` send_transaction, `core/coin_control.py`) | `utxos`, `pending_transactions`; the selection of coin control | select, pay, freeze, auto_select | the outputs are read before the transaction begins | an output pays once; inputs cover outputs and fee | modelled |
| Slashing (`core/slashing.py`) | `slashing_events`, `validator_jail` | report, is_jailed | two reads before the transaction, several workers, time | the jail record is the sum of the events; one penalty per offence | modelled |
| Gossip (`network/p2p_gossip.py`) | peers, known hashes, two queues, all in memory | receive, relay, announce | a thread per connection, two queue threads, connections that fail | a hash reaches the connected peers, once, and the relaying ends | modelled |
| Registers: validators, governance, elections, airdrop (`core/validator.py`, `core/airdrop.py`, endpoints of `api.py`, `voting/api.py`) | `validators`, `governance_*`, `voters`, `elections`, `airdrop_recipients`, voter lists in SQLite and RocksDB | bond, propose, vote, register, cast, claim | check-then-act with no unique key; weights read on another connection | tallies are the sum of the votes; a second entry needs an overlap; power is backed by coins | modelled |
| Mempool with priorities (`core/mempool.py`) | heap, map, table | add, pop, clear, load | three copies of one set, a statement that raises in between | the copies agree but for what failed; the cheapest is evicted | modelled |
| UTXO cache (`core/utxo_cache.py`) | a map per process, one SQLite table | read, set, invalidate | a lock per process, several processes | a stale answer needs another process | modelled |
| Rewards, supply, fees (`core/block.py`, `difficulty.py`, `/supply`, `fee_estimator.py`, `halving.py`) | `mining_rewards`, the deques and `fee_history` of the estimator | credit a height, report the supply, estimate | the reward is recorded before the block exists and computed again after a failure | the register says what the blocks pay; waiting longer is not dearer | partly |
| Tables and start-up (`run_node.py`, `db_init.py`, `api.py`, `block.py`) | the schema, the genesis row | create, count, insert at start | programs start in any order and create one table in two forms | a node that is up can do what its endpoints promise | modelled |
| Block download (`network/sync.py`) | rows of `blocks` | ask, insert, ask again | several threads beside the miner | no gaps, no endless repetition | modelled |
| P2P server (`network/p2p_server.py`) | connection times, set of peers, handler threads | admit, handle, end, stop | a handler that ends takes out an address another one serves | the set is the addresses with handlers; the rate is kept | modelled |
| Peer table and addresses (`network/p2p.py`, `addrmgr.py`, `addr_rand.py`) | peers, scores, bans; new and tried tables | add, judge, evict, rounds over the set, mark | judgements change the set that is being walked | banned peers are out; tables agree; the limit holds | modelled |
| Inventory of announced blocks (`core/inv_manager.py`) | requested and received | request, receive, expire | cleanup thread on the same dictionary, no lock | one request at a time per hash | modelled |
| Graceful shutdown (`core/shutdown.py`, `run_node.py`) | backup, marker, the handler's list | restore, signal, save, die | the handler's list is not always the node's | a clean exit loses no pending payment | partly |
| Reports on the chain (`/blocks`, `/block`, `/stats`, `/chain`, `is_valid`, `get_fork_info`) | none of their own | several SELECTs per answer | blocks are stored between two SELECTs | what is reported was there | modelled |
| Reorganisation, pruning, fork choice (`core/reorg.py`, `pruning.py`, `checkpoints.py`, `stale_tip.py`, `resolve_fork`) | `is_active`, checkpoints | detect, reorganise, prune | the statements name columns and tables nothing creates | never below what is final | partly |
| Snapshots (`core/assumeutxo.py`, `muhash.py`, ...) | `utxoset` | export, load, hash | the table does not exist | hash of what was exported | partly |
| Header download, compact blocks and other relay helpers (`network/headers_sync.py`, `core/compact_block.py`, ...) | `block_headers`; a mempool and what a sender takes it for | fetch, validate; build, reconstruct | peers on several branches; short ids | valid means one branch; complete means complete | partly |
| Script interpreter (`core/script_vm.py`, `script.py`) | a stack | opcodes | mixed types, exceptions | success is earned | partly |
| Smart contracts (`contracts/`) | one machine for all contracts | opcodes, execute | what a contract leaves to the next | a stopped machine; words stay words | partly |
| Witness, keys and encodings; wallet files and clients; RocksDB and connection helpers; observability and request filters; older copies of the network package | see section 6 | | | | not modelled |

How the parts meet: the wallet endpoint writes `pending_transactions` rows that
the miner's constructor loads (action `ApiSubmit` of `EkushChain`);
`clear_pending` deletes them, with every row recorded since (`OnlyForeignRowsLost`
says that nothing else goes). The mine endpoint builds a second chain object on
the store of the running miner (`chain_two`). The block download inserts rows
into the table the miner writes (`BlockSync`, with the miner as an actor), and
the reports read it while both write (`Explorer`). Payments move the balances
the registers have read (`Registry!Transfer`). The shutdown keeps the list that
`add_block` replaces (`Shutdown!MineAll`). The schema decides which statements
of all of them can run at all (`Schema`). The finality gadget and slashing know
validators by name only and share no table with the registers. The mempool, the
output cache, the fee estimator, the inventory, header download and compact
blocks are libraries the rest of the program imports without calling, or calls
only to read: they are modelled with the concurrency their own threads and locks
provide for.

## 2. Modules

| Module | What it is |
|---|---|
| `Finality` | abstract: each height is decided at most once |
| `BftFinality` | the gadget and its two endpoints; implements `Finality` |
| `Ledger` | abstract: an append-only sequence of linked blocks |
| `EkushChain` | the chain object on its store and the miner loop; implements `Ledger` |
| `UtxoWallet` | the payment endpoint and coin control on the `utxos` table |
| `Slashing` | reports of equivocation and the jail |
| `Gossip` | nodes, connection threads, queue threads, failing relays |
| `Registry` | votes, registrations, ballots, claims, bonds, elections |
| `PriorityPool`, `UtxoCache`, `FeeEstimates` | the mempool with its table, the output cache, the fee estimator |
| `MerkleBlock`, `Rewards` | one block through build, proof, reload and validation; the register of rewards and the supply |
| `Schema` | the programs that create the tables, in any order |
| `BlockSync`, `HeadersSync`, `CompactBlock` | the three ways of getting blocks from a peer |
| `Peers`, `Inventory`, `PeerServer` | peers, scores and addresses; announced blocks; the listening side |
| `Shutdown` | signals, backup, restore |
| `Explorer` | what endpoints and chain objects report while the chain is written |
| `ScriptVM`, `ContractVM` | the two interpreters |
| `MCServices`, `MCNode` | several parts side by side, for TLC |
| other `MC*` | instances of one module for TLC: small sets, symmetry |
| `Selection` | what a list comprehension selects of a sequence, without recursion |
| `DataTheorems` | lemmas about naturals, finite sets, sums and sequences |
| `*_proofs` | theorems and their proofs: `Services_proofs` for the parts of `MCServices`, `Node_proofs` for those of `MCNode` but the tables and the reports, `Store_proofs` for these two, the others for the module they are named after |

The operators marked `Mutant:` are variants of the operator below them with
one plausible bug. Nothing refers to them: they document which bug each
property is able to find.

`MCServices` and `MCNode` check parts that share no state in one run. As no step
of a part reads or writes a variable of another, a property of one part holds of
all behaviours exactly if it holds while that part moves alone: the variable
`focus`, chosen at the start and never changed, says which one. That every
behaviour of the run is one of each part is proved (`ServicesMoveAlone`,
`PartsMoveAlone`). `Peers` is split
in two such parts, because marks of an address change no peer and no score, and
a ban only takes away calls that would add the address again. The symmetric
values are shared between the parts (the two workers are also the two clerks,
processes and miners), which costs nothing and permutes all of them at once.

### BftFinality

`votes` is the table `bft_votes` with its primary key (height, validator);
`final` and `count` are `finalized_blocks`; `req[w]` is the request worker `w`
is executing. `CheckVote` is the "already voted" SELECT, `RecordVote` the INSERT
with its commit (which raises when the key exists by now), `Tally` the
COUNT and the comparison with two thirds, `MarkFinalized` the INSERT OR REPLACE,
`QueryFinality` the GET endpoint and `Crash` the death of a worker at any point.
One fact about the code is visible in the model: the GET endpoint asks
`check_finality(height, "")` (`api.py:794`), nobody votes for the empty hash, so
it never answers that a block is final.

### EkushChain

One object per process. `blocks`, `included`, `rows`, `rewarded` and `balances`
are the tables; `chain`, `pending`, `coinbases`, `spent`, `todo` and `half` are
the object. `Bootstrap`, `Load`, `Settle`, `LoadPending` are the constructor,
`AddTransaction` is `add_transaction`, and `add_block` is `StartBlock`,
`AppendBlock`, `SaveBlock`, `ResaveBlock`, `ClearPending`, the two balance
updates of every payment (`Debit`, `Credit`) and `FinishBlock`: one action for
each commit. `RejectTimestamp` and `RefuseBlock` are its two early returns,
`FailBlock` an exception of SQLite, `Crash` the end of the process. Every
transaction weighs 1 and is above the dust limit; signatures are valid or, for
a reloaded transaction, absent; a reward transaction is only counted, because
`add_block` applies no balance for it. What a reward amounts to is in `Rewards`,
what a reload does to a block's hashes in `MerkleBlock`, and `is_valid` and
`get_fork_info` are in `Explorer`.

### UtxoWallet

`utxos` is the table, `phase`, `picked` and `known` the handler of each payment,
`wanted` and `selected` the coin control object. `Select` is everything
`send_transaction` does before `BEGIN IMMEDIATE`, `Commit` everything from there
to the commit. A fee is at least 1 (`fee_amount`); amounts are assumed to be
positive (`WalletAssumption`), of which the endpoint itself only checks that
they are given.

### Slashing

`events` and `jail` are the tables, `report[w]` the report a worker handles,
`now` the clock in hours (the unit of the jail term). `Check`, `Count` and
`Slash` are the two reads and the transaction of `report_equivocation`.

### Gossip

`inbox` holds connections whose message is not processed, `checked` those whose
thread has found the hash unknown and not yet added it: the gap between
`if tx_hash not in self.known_tx` and `.add`. `relays` are calls of
`_relay_to_peers` at work, one peer at a time. Transactions and blocks have the
same handler on separate sets, so one set of items stands for both. `copy`
numbers the acceptances of one item at one node, so that repeated relays are
distinct messages. The peers of a node are the seeds it reached when it
started; a node that is in no seed list is nobody's peer, and a restarted node
does not catch up.

### Registry

`coins` is what an account's unspent outputs sum to; `rows` the rows written to
the five registers that are checked before they are written (governance votes,
two lists of voters, ballots, claims); `tally` the vote columns of the
proposals, `allotted` the airdrop table, `bonded` and `elections` the two tables
that check nothing but an amount; `call[w]` the request of each handler.
`ProposeGovernance`, `VoteGovernance`, `RegisterWithWallet`, `RegisterWallet`,
`CastVote`, `ClaimAirdrop`, `Bond` and `CreateTieredElection` are what a handler
reads first, `CheckVote` (or `RefuseVote`) the second read of a vote, and
`InsertProposal`, `RecordVote`, `Enter`, `InsertValidator` and `InsertElection`
the transaction that writes; `Abandon` is an exception or a death in between.
`GenerateWallets` fills the airdrop table, and `Transfer` is any payment that
moves coins between those steps. `known` in a row is the highest row its handler
could have seen.

### PriorityPool, UtxoCache, FeeEstimates

In `PriorityPool`, `queue` is heap and map, `table` the mempool table and `work`
the one statement a call still owes: `Offer` changes the memory, `InsertRow` and
`DeleteRow` the table, `StatementRaises` is a locked database, `RestartPool` a
death and the load of the next process. `unsaved` and `undeleted` remember which
statements did not happen.

In `UtxoCache`, `mem[p]` is the OrderedDict of process `p`, oldest first,
`sqlite` the shared tier and `step[p]` the half of a call still to come; the disk
tier raises, as its table does not exist. `foreign` holds the pairs of process
and output for which another process was the last to write.

`FeeEstimates` holds the two deques and the history table; percentiles are
computed by sorting, as the code does.

### MerkleBlock and Rewards

`MerkleBlock` follows one block: `BuildBlock` is the end of `add_block`,
`GiveProof` a proof for one of its transactions, `Reload` a restart
(`storage.load_chain`) and `Validate` is `validate_block`. A hash is the term it
is computed from: equal hashes mean that equal things were hashed.

`Rewards` has `credits`, the table `mining_rewards`, next to `pays`, what the
block stored at each height pays. `RecordReward` commits the first, possibly
lifetimes before `StorePaidBlock` commits the second; `Restake` moves the staked
coins the reward depends on after the first year; `SumRewards` and `GetHeight`
are the two SELECTs of `/supply`, whose failure of the second answers a height
of its own.

### Schema

Each program is the list of its CREATE, COUNT, INSERT and index statements, one
commit each; `tables` keeps of each table the columns that some statement names
and some creator leaves out. `Start`, `Execute`, `Finish` and `Crash` run them
in any order. `Unsupported` collects the statements of the program that no
order of starts makes possible.

### BlockSync, HeadersSync, CompactBlock

`BlockSync`: `rows` are the heights in `blocks`, `tip` the miner's chain in
memory, `sync[t]` what thread `t` holds of its batch; the peer is external and
answers with blocks, with nothing, or under a key the client does not read.
`HeadersSync`: a header is named by the branch that ends with it; `headers` is
the table, in which rows are replaced by hash and never removed. `CompactBlock`:
`mempool` is the peer's, `believed` what the sender takes it for, `ShortId` may
map two transactions to one id.

### Peers, Inventory, PeerServer

`Peers`: `peers`, `score` and `banned` are the fields of `P2PNetwork`, `round`
an iteration over the set (broadcast, ping, synchronisation) that waits at a
peer; a judgement during it may change the set, upon which the iteration raises
or goes on over what the set has become. `fresh`, `tried`, `wins` and `fails`
are the address manager. Scores are in half points because the code rewards by
0.5. `Inventory`: `requested` is the dictionary, `thread[t]` a connection thread
between its look-up and its write, `cleaner` the cleanup thread between its copy
of the expired keys and their removal, or dead of the exception. `PeerServer`:
`counts` is the rate limiter, `admitting` the accept loop between `peers.add`
and `Thread.start`, `handlers` the threads of each address.

### Shutdown and Explorer

`Shutdown`: `pool` is the node's list, `shared` says whether the handler's list
is the same object; `Signal`, `WriteBackup`, `FlushDatabase` and
`ExitCleanly` are the steps of the handler, `SignalAgain` and `Killed` what may
end the process in each of them, `ReadBackup` and `SetUpHandler` the next start.

`Explorer`: `stored` and `listed` are the tables, `object[o]` the chain of each
program that constructs one, `reading` an answer of which the first SELECT has
been made, `given` the last answer. `given` and the histories `synced`,
`failed` and `overwrote` let the properties name the cause of an irregular
answer.

### ScriptVM and ContractVM

A script is the sequence of operations chosen, one action each; a contract is
one of `Contracts`, run instruction by instruction on a machine whose stack,
memory and stopped flag are those the contract before has left. Byte and word
sizes are constants (256 and 32 bytes in the code), small in the runs. An opcode
of 0x80 or more raises, because the test on `DUP16` comes first and the
enumeration has no such member: RETURN and REVERT are among them.

## 3. Runs

| Run | Instance | What it shows |
|---|---|---|
| `bft_safety` | 4 validators (quorum 3), 2 hashes, 1 height, 3 workers that may die | `IInv`: rows, marks in flight and answers have a recorded quorum, for ever and only once; implements `Finality` |
| `bft_liveness` | same, 2 workers, no deaths | a recorded quorum is eventually finalized, although each worker counts at its own time |
| `chain_crash` | one miner, 2 user payments, 1 payment from the API, 2 blocks after genesis, 2 deaths | memory equals the store plus at most the unsaved block; the table is an append-only ledger; accepted payments are kept and mined once; no inflation |
| `chain_locked` | the same miner, every commit of a block may be refused | the miner still makes progress, and accepted payments are kept |
| `chain_two` | two objects on one store, 1 payment to them and 1 from the API, 1 death | `Inv`: no gaps, every block rewarded, no object ahead by more than its unsaved block; `clear_pending` deletes what others recorded, never an unmined payment of the object's own list (`OnlyForeignRowsLost`) |
| `chain_stall` (violated) | one miner, one API payment, one death | finding 1 |
| `wallet_race` | 2 payments of one sender at once, 2 outputs, freezing and auto-selection between their steps | recorded payments are covered by spent inputs and excess supply is exactly the outputs used twice (`SupplyAddsUp`); only the window between read and commit allows that (`SharedInputIsARace`) |
| `wallet_doublespend` (violated) | same | finding 2 |
| `gossip_spread` | a seed (also its own peer) and a second node, 2 connection threads each, one failed connection, one death | duplicates are bounded by the threads; accepted hashes spread despite one failure; every exchange ends |
| `gossip_announce` (violated) | same, no failures at all | finding 3 |
| `services` | the parts of `MCServices`, each moved by itself | see below |
| `node` | the parts of `MCNode`, each moved by itself | see below |

The properties of `services`, part by part:

| Part | Property | What it says |
|---|---|---|
| Slashing | `JailMatchesEvents`, `DuplicateIsARace`, `ServesAnHour` | jail record, count and penalty agree with the events; a second event for one offence needs an overlap; every event is served for an hour, although a handler with an old count may shorten a longer term |
| Registry | `SecondEntryOverlaps`, `PowerIsAccounted` | a second vote, claim or registration needs a handler that read before the first was written; tallies are the sums of the rows; more power or bond than there are coins needs a transfer or a doubled vote |
| PriorityPool | `PoolKeepsItsPromise` | memory and table differ by what a failed statement accounts for; the cheapest entry is evicted, and only above the limit |
| UtxoCache | `StaleNeedsAnother` | a stale answer needs a change by another process or a failed statement |
| FeeEstimates | `WaitingIsNotDearer` | whatever was seen, a longer target is not dearer |
| MerkleBlock | `ReloadIsAnotherBlock` | a proof holds exactly as long as the process that gave it, and no reloaded block validates |
| Rewards | `RewardsAreRecorded` | register and blocks agree except where a block was begun twice and the stake moved; the supply reported is one the chain can have paid |

and of `node`:

| Part | Property | What it says |
|---|---|---|
| Schema | `UpMeansUsable` | a node that is up can pay and synchronise; what `Unsupported` lists runs in no order of starts; a genesis block is replaced under an object only by an overlap of starts |
| BlockSync | `DownloadsAreAccounted` | a gap needs a failed INSERT, a repeated batch another writer or a failed INSERT |
| Peers | `PeersAgree`, `OverfullNeedsAGhost` | a banned peer is out of the set in every interleaving; an address is in one table; the set outgrows its limit only by evicting a peer that is not in it |
| Inventory | `AskedTwiceOverlaps` | a hash is requested again too early only for an overlap, a reception or a removal by the cleanup |
| PeerServer | `ServerKeepsCount` | the set of peers is the addresses with handlers unless connections overlapped or a thread could not start; the rate holds in every window |
| Shutdown | `CleanExitKeeps` | a clean exit loses a payment only when the handler held another list or a death took it |
| ScriptVM | `SuccessIsAnEquality` | a script succeeds only if an OP_EQUAL found equal operands |
| ContractVM | `MachineKeepsState` | words stay words from one contract to the next; a stop ends them all |
| HeadersSync | `HeadersFollowOneBranch` | "valid" exactly as long as all answers were of one branch, whichever thread stored them |
| CompactBlock | `CompleteNeedsACollision` | a block is reconstructed at once only by a collision of short ids |
| Explorer | `ReportsAreAccounted` | a report that is not of one moment, a chain that is not linked and a reorganisation that does nothing each have their cause in another writer, a lost or a downloaded block |

`ServicesTypeOK` and `NodeTypeOK` are the type invariants of all parts.

### Bounds

* Four validators are the fewest for which a quorum (3) is neither all nor a
  bare half; two hashes are enough for disagreement and three workers for a
  marker, a faster marker and a vote between them. Heights do not interact.
* `EkushChain`, `MaxHeight = 2`: a block on genesis and one on it, so a reload
  in the middle of the chain and a wrong parent are both possible.
  `MaxRewards = 2` counts the two rewards a failed block leaves in the list.
  `MaxMempool = 4` and `MaxBlockWeight = 4` are reached with two payments and
  two rewards; with 1 (`chain_two`) both limits evict at once. Five hashes
  suffice for all blocks two objects can build; hashes are interchangeable
  (symmetry). Accounts of 4 with payments of 3 allow both an accepted and a
  refused payment. `MaxCrashes = 2` covers a crash during recovery from a crash.
* `UtxoWallet`: outputs of 2 and 3 with the two payments give an exact payment
  (no change row), one with change, a payment that spends the change of another
  and one that is refused.
* `Gossip`, `MaxThreads = 2` is the smallest number with a race; `MaxLosses = 1`
  is what the double relay survives, with 2 it does not. Three nodes exceed what
  can be checked in minutes.
* `Slashing`: `MaxHour = 1` covers a term that has ended and one that has not;
  three events at two heights of two validators give repeated and first
  offences, and duplicates.
* `Registry`: four calls are two rows for one key and two that vote or bond in
  between; one transfer moves coins from an account that has voted to one that
  has not. Accounts with 2 and 1 are above and at the minima.
* `PriorityPool` and `UtxoCache` with a limit of 1: the second entry evicts.
  `FeeEstimates`: five fees, the deque full and rotating; offers with a size of
  0 and of a fee under every tier.
* `MerkleBlock`: up to four payments give levels of even and odd length;
  `Lives = 2` is one reload. `Rewards`: `FirstYear = 2` and `Top = 2` put one
  height on each side of the boundary.
* `BlockSync`: batches of 2 from a peer of 5 blocks are a full batch, another
  and a short one; the miner adds two. `HeadersSync`: branches that part after
  the first header, one longer; three calls of two threads with two peers each.
* `Peers`: two addresses in one bucket of size 1 with room for one peer, scores
  from full to the ban. `Inventory`: a timeout of 1, clock to 2; `MaxAsked = 3`
  leaves out the case that needs four requests, which `RepeatsAreOverlaps`
  covers. `PeerServer`: limit 2, window 2, clock 3: the window has passed once.
* `Shutdown`: two payments and two signals in one life. `CompactBlock`: of three
  transactions two share an id and one shares the reward's. `Explorer`: three
  blocks, one of them downloaded, two objects.
* `ScriptVM` and `ContractVM`: two byte values and words of two bytes, so that
  sums overflow a byte, a word and both; programs of every opcode, of operands
  that are missing, and of jumps out of the program.

Where two parts use a constant of the same name (`MaxCalls`), the same bound is
meant for both.

### Fairness

* `BftFinality!FairSpec`: weak fairness of the steps of a started request.
  Flask does not abandon a handler, and SQLite grants the write lock within the
  timeout of the connection. No fairness on arrivals or deaths.
* `EkushChain!FairSpec`: weak fairness of what the process does next (the
  constructor runs to its end, the miner loop calls `add_block` for ever) and
  strong fairness of `StartBlock`: the clock advances, so a rejected timestamp
  is accepted some time later. None on failures, deaths or new payments.
* `Gossip!FairSpec`: weak fairness of the threads of a node: they run as long as
  the process does, and every connection gives up after five seconds. None on
  clients, starts, failures or deaths.

The parts of `services` and `node` have no liveness property: what they would
have to promise, the code does not do (a download repeats itself for ever, the
cleanup thread dies, headers are never valid again after a reorganisation), and
the safety properties name the cause instead.

The Gossip configurations switch off deadlock checking because its clients say a
finite number of things, and when all is relayed nothing is left to do
(`NoStorm` shows that this state is reached); `Services.cfg` and `Node.cfg`
because the clocks, calls and histories are bounded and scripts, contracts and
processes end.

## 4. Findings

1. After a restart with a pending payment no block is ever mined again:
   `load_pending` (`storage.py:202`) rebuilds a transaction without its public
   key, `verify_transactions` fails, `add_block` returns None, and the payment
   stays in the list (`chain_stall`).
2. Two concurrent payments of one sender spend one output twice:
   `send_transaction` reads the outputs before `BEGIN IMMEDIATE` and its UPDATE
   does not ask for `is_spent = 0` (`wallet_doublespend`). `RaceIsTheOnlyWay`
   proves that nothing else does.
3. Announcements of a node reach nobody: they are encoded twice, and the
   receiver fails on the string (`gossip_announce`). `OnlyClientsHeard` proves
   it for any nodes and any number of failures.

Other behaviours of the code that the models show and no document contradicts,
so no run claims them:

* with a locked database a failed debit is printed and ignored
  (`block.py:242`), and the credit still happens: `NoInflation` is checked
  without such failures only;
* a failed commit in `add_block` leaves the reward transaction in the list, so
  the next block carries two (`block.py:395`);
* every restart applies the payments of the last block again, which deflates
  the balances by their fees (`block.py:205`), and gives every block that holds
  a payment another Merkle root;
* a block is announced before it is saved (`block.py:389-394`);
* an output frozen through coin control is spent by the payment endpoint
  (`api.py:344` does not read `is_frozen`), and `auto_select` may end with less
  than its target because `select_utxos` reads the rows again;
* processes that do not call `p2p_gossip.start()` (the miner, extra API
  workers) queue announcements that no thread ever sends; a `getblocks` message
  raises a swallowed NameError (`p2p_gossip.py:89`);
* `network/sync.py` asks with `start_height` and reads `blocks`, the server
  reads `from` and answers under `payload`; the handler that matches is nested
  in `get_p2p` (`p2p_server.py:133`) and never reached, so a sync from this
  program inserts nothing;
* `bond` commits and then raises a NameError (`validator.py:93`);
  `MAX_VALIDATORS` is compared with nothing, and the finality gadget relies on
  it; `end_time` of a proposal is written and never read; elections are never
  closed;
* the tables `utxoset`, `pruned_blocks`, `contracts` and `contract_executions`
  and the columns `is_active` and `is_pruned` of `blocks` are created by
  nothing: pruning, reorganisation, snapshots, deployment and execution of
  contracts, verification of the database and the election vote always raise
  (`Schema!Unsupported`); and if `api.py` starts before `run_node.py`, `utxos`
  has fewer columns, payments fail and the node does not start;
* `run_node.py:44` imports `election_scheduler` from a place where it is not, and the constructor of
  `unified_validator.py` raises;
* after one STOP or exception a contract machine runs nothing more; `resolve_fork`
  compares lengths under the name of work; unknown script opcodes are no-ops;
  compact blocks prefill nothing;
* `/stats` and `/chain` report the chain as valid without looking.

## 5. Proofs

All proofs hold for every value of the constants that satisfies the named
assumptions; each assumption is evaluated by TLC in the runs. Every safety
invariant and action property of a passing run is stated by a theorem below, and
so is the refinement of both abstract specifications.

| Module | Theorems | Argument |
|---|---|---|
| `BftFinality_proofs` | `TypeCorrect`, `Invariance`, `QuorumBehindFinality`, `AnswersAreDurable`, `VotesKept`, `LeaderCorrect`, `Refinement` | `IInv`: rows, marks in flight and answers are each backed by a quorum that recorded votes still cover. Two quorums of more than two thirds share a voter and a voter has one vote, so a second mark names the same hash. Assumes at most `TotalValidators` voter names (`ValidatorsAssumption`): the gadget does not check its voters, and without the bound the claim is false |
| `EkushChain_proofs` | `TypeCorrect` for any store; `StoreInvariant`, `RewardRowsExist`, `PaymentsAreMinedOnce`, `NothingInflates` for any number of objects; `ClearingIsSafe` for any number of objects on any store; `MemoryCorrect`, `Refinement`, `PaymentsKept`, `AcceptedStays` for one miner | `TypesInv`: types, and an object that runs has a chain. `Inv` says where an object can be relative to the store; for one miner it is strengthened to equality with the store (`MemoryMatchesStore`). A save then writes the row after the last one, so the ledger is extended or unchanged. `MinedOnce`: an object's `spent` set covers every block from the one that was last when it loaded. `FlightIsCovered`: what the payments between debit and credit still carry, added to the balances, is at most the first allocation; a death only loses what is in flight. `KeptInv`: what was accepted is in a row, in the list, or in the block being saved. It holds also on a store that may refuse any commit; `PaymentsKept` adds that a payment is mined once, which does not. `ListInv`: an object between `save_block` and the emptying of its list is saving, or has saved, a block with every payment of that list; a stored payment stays stored |
| `UtxoWallet_proofs` | `WalletInvariant`, `RaceIsTheOnlyWay`, `SpentStaysSpent`, `NoMoneyButBySpendingTwice` | `WalletInv`: inputs of recorded payments are spent and stay spent, and what was recorded when a handler selected is disjoint from its selection. `MoneyInv`: each recorded payment is the sum of what it spends, minus its change; summed over the payments by the output they spend, the excess of the supply is what was spent again |
| `Gossip_proofs` | `GossipInvariant`, `TypeCorrect`, `DuplicatesBounded`, `OnlyClientsHeard` | `GossipInv`: a hash is counted as accepted only while it is known, and then no thread newly finds it unknown; what a node relays in readable form it knows, and what it knows a client submitted |
| `Services_proofs`, registers | `RegistryTypeCorrect`, `DoubledOnlyByOverlap`, `PowerAddsUp` | `RegistryInv`: ids are 1 to the number of rows, and a handler that has looked has no row of its key up to the id it remembers. `PowerInv`: each tally is the sum of the powers of its rows, kept by every insertion; while no coins have moved, a power is the wealth of its account |
| `Services_proofs`, slashing | `SlashingInvariant`, `TypeCorrect`, `DuplicatesOverlap`, `SlashCountIsExact`, `JailServed`, `RecordsMatch` | `SlashInv`: ids are in order, a handler has seen no event of its offence up to the id it remembers, a count above zero was read from a record, and every event lies in the term being served. `PenaltyInv`: the count a handler carries lies between the events up to its look-up and those there are now, and percentages grow with the count |
| `Services_proofs`, the rest | `RestartIsAccounted`, `PoolPromise`, `CreditsFollowBlocks`, `SupplyAnswersAreEarned`, `StaleAnswersHaveACause`, `WaitingCostsNoMore`, `ProofsDieWithTheProcess`, `ServicesMoveAlone`, `ServicesAreTyped` | `PoolInv`: what is owed to the table the memory has already done, and every other difference is in one of the two histories. `RewardsInv`: the blocks are 1 to some k, no miner is further than the next one, and the reward about to be stored is the one in the register unless the block was begun again after the first year. `EarnedInv`: a credit is at most the best reward of its height, so a sum read is at most what the heights counted then or later earn. `CacheInv`: what each half-finished operation has read and not yet written. `WaitingCostsNoMore` needs only that the deque holds numbers (`FeesInv`): each tier's estimate is a maximum with the tier's fee of a value that the sorted deque orders. `MerkleInv`: a proof climbs to the root of the process that gave it; a tree of another process has another first leaf, and terms that are equal have equal leaves. The types of every part follow from these invariants and are lifted to `ServicesSpec`, of which only the part in focus moves |
| `Node_proofs`, the network | `GapsAndRepeatsHaveACause`, `OneForkInvalidates`, `WholeBlocksCollide`, `RepeatsAreOverlaps`, `OnlyGhostsOverfill`, `BannedStayOut`, `PeersAndAddressesAgree`, `PeersHaveHandlers`, `ConnectionsAreCounted` | `DownloadInv`: unless an INSERT failed, the rows are a prefix that covers all that the miner and every thread count as stored. `FetchedInv`: the header table is the union of the answers stored. `CompactInv`: a message holds the ids of a block that begins with its reward. `RequestsInv`: the dictionary's time of a hash is that of its latest request. `ScoresInv`: no banned peer is in the set, also while a round waits. `AddressesInv`: the two tables hold known addresses and are disjoint. `HandlersInv`: an address in the set has a handler or is being admitted. `RateInv`: the limiter's times of an address are the end of the admitted ones, and what is missing is out of the window, so any two admissions `Limit` apart are a window apart |
| `Node_proofs`, the rest | `CleanExitIsKept`, `SuccessNeedsAnEquality`, `WordsStayWords`, `PartsMoveAlone`, `NodePartsAreTyped` | `ShutdownInv`: what the backup lacks is excused. `ScriptInv`: an integer on the stack with value 1 was earned. `MachineInv`: the memory holds bytes and the stack words, unless an address longer than a word was pushed; that `Width` digits below `Base` spell less than `Base` to the power of `Width` is proved by induction (`SpelledFits`), and the step proofs of the flag are in `StopIsForGood`. `CountsInv`: no address is listed twice and the two counts of an address stay below the limits at which it moves or is forgotten. `ScriptTyped`: what a step puts on the stack is bytes, the digits of a number, or a truth value. With them each part has its types, and they are lifted to `NodeSpec` |
| `Store_proofs` | `NodesThatAreUpWork`, `ReportsHaveCauses` | `SchemaInv`: the shapes each table can have, which of them a program at each statement has already met (`StartsInv`), and how the objects' genesis relates to the stored one (`MemoryInv`). `ExplorerInv`: the rows of blocks and payments, what an object can hold of them, how blocks are numbered and linked, and what an answer between its SELECTs has read. |

`DataTheorems` has the lemmas about data that several of these need. A library
theorem that takes a predicate as a parameter cannot be used here, so induction
is stated for sets: a subset of the naturals that has 0 and with n also n + 1 is
all of them (`NatSetInduction`), and likewise for the subsets of a finite set
(`FiniteSetInduction`) and the sequences over a set (`SeqSetInduction`). On them
rest the equations of the sum of a function on a finite set and of the
subsequence that a list comprehension selects (`Selection`).

What the proofs assume beyond the models' first constants, each time because
the code provides it: accounts, payments, nodes, validators and transfers are
finitely many; a stake has a largest possible value; branches and contracts are
sequences, and what a script pushes is a sequence of byte values; the programs that create tables have different names; there is an
address a contract can run at. In `EkushChain_proofs` most theorems assume a
store that does not fail (`~MayFail`): with failures an object keeps an unsaved
block and the statements are false. `PaymentsKept` and `AcceptedStays` also
assume that nothing is evicted (`NothingIsEvicted`), which is how the code
forgets a payment. `ProofsDieWithTheProcess` speaks of one reload (`Lives`).

Why the invariants need strengthening: a property about tables alone says
nothing of a worker between its read and its write, so each inductive invariant
adds what the requests in flight carry.

Only model-checked is liveness (`QuorumIsFinalized`, `KeepsMining`,
`SpreadsDespiteALoss`, `NoStorm`), which needs fairness and ENABLED.

## 6. Not modelled

* Witness, keys and encodings (`core/witness.py`, `segwit.py`, `taproot.py`,
  `schnorr.py`, `multisig.py`, `psbt.py`, `bip32.py` ... `bech32.py`): functions
  of single values. A signature is valid or not, a hash is a name.
* Wallet files and HTTP clients (`core/wallet.py`, `electrum.py`, `sdk/`): no
  state shared with the node.
* RocksDB and connection helpers: the backend is switched off by default, and
  the migrations run once. The one RocksDB register that is used, the voters of
  `voting/api.py`, is in `Registry`.
* Observability and request filters (`metrics.py`, `health.py`, `rate_limiter.py`,
  `events.py`, `webhook.py`, launchers): nothing the other parts keep depends on
  them.
* `src/network/network/` holds byte copies of `src/network/`.
* Inside modelled components: `save_chain_to_db`, `dandelion.py`,
  `assume_valid.py`, `stale_tip.py`, `scheduler.py` and `nonce_tracker.py`, which
  nothing calls; the second reward schedule in `halving.py`, which no miner uses;
  `Token.sol`, which nothing here runs; the script compiler and templates, which
  only build byte strings; the JavaScript and shell launchers.

What a further extension could take up: `EkushChain` with a failing store and
two objects at once, whose state space is beyond minutes at the present bounds.
