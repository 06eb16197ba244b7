------------------------------- MODULE MCNode --------------------------------
(***************************************************************************)
(* The parts of a node that share no state with each other: the tables of  *)
(* its database at start-up, the download of blocks, the table of peers,   *)
(* the inventory of announced blocks, the listening server, the shutdown,  *)
(* the download of headers, the relay of compact blocks, the reports on    *)
(* the chain and the two interpreters.  Only the part in focus moves, and  *)
(* the run takes every part for its focus (see MCServices).  The table of  *)
(* peers is two parts: marks of an address change no peer and no score,    *)
(* and a ban only takes calls away that add an address again.              *)
(***************************************************************************)
EXTENDS Schema, BlockSync, Peers, Inventory, PeerServer, Shutdown,
        HeadersSync, CompactBlock, ScriptVM, ContractVM, Explorer, TLC

VARIABLE focus      \* the part that moves

MCBucket == [u \in Urls |-> 1]      \* the addresses share a bucket
MCItems == {<< >>, <<1>>, <<1, 1>>}
MCDigests == {<<0, 1>>}

\* Programs of the contract compiler: two operands and an operation, then
\* operations short of operands, jumps, stops, unknown tokens and addresses.
MCContracts ==
    { <<"PUSH1", x, "PUSH1", y, op>> : x, y \in {"STOP", "ADD"},
        op \in {"ADD", "SUB", "MUL", "DIV", "LT", "GT", "EQ", "SHA3", "MSTORE", "JUMP", "JUMPI"} }
    \cup { <<"PUSH1", "ADD", "MLOAD", "BALANCE">>, <<"ADDRESS", "PUSH1", "STOP", "MSTORE">>,
           <<"PUSH1", "ADD", "ADDRESS", "DIV", "JUMPDEST">>, <<"PUSH1", "STOP", "JUMPDEST", "JUMPI">>,
           <<"PUSH1", "ADD", "JUMP">>, <<"STOP">>, <<"other", "LT">>,
           <<"PUSH1", "STOP", "ADDRESS", "PUSH32", "ADD", "STOP", "MSTORE", "PUSH1", "STOP", "high">>,
           <<"PUSH1">>, <<"SHA3", "MLOAD", "MSTORE", "BALANCE">> }

\* Two branches of headers that part after the first, and one that is longer.
MCBranches == {<<1, 1, 1>>, <<1, 2>>}

\* 21 shares its short id with the reward, 22 and 23 share theirs.
MCShortId == [t \in Transfers \cup {Reward} |-> IF t \in {Reward, 21} THEN 1 ELSE 2]

\* The same values stand for the addresses, threads and chains of each part.
Symmetry == Permutations(Urls) \cup Permutations(Threads)

NodeInit ==
    /\ focus \in {"schema", "sync", "peers", "addresses", "inventory", "server", "shutdown", "script",
                 "contract", "headers", "relay", "explorer"}
    /\ SchemaInit /\ BlockSyncInit /\ PeersInit /\ InventoryInit
    /\ ServerInit /\ ShutdownInit /\ ScriptInit /\ MachineInit
    /\ HeadersInit /\ CompactInit /\ ExplorerInit

\* What the schema and the download, the peers and the inventory, the server
\* and the shutdown, the interpreters, and the headers, the relay and
\* the reports keep.
Stores == <<svars, bvars>>
Directory == <<pvars, ivars>>
Process == <<svvars, sdvars>>
Machines == <<scvars, mvars>>
Relay == <<hvars, cbvars, evars>>

NodeNext ==
    /\ focus' = focus
    /\ \/ focus = "schema" /\ SchemaNext /\ UNCHANGED <<bvars, Directory, Process, Machines, Relay>>
       \/ focus = "sync" /\ BlockSyncNext /\ UNCHANGED <<svars, Directory, Process, Machines, Relay>>
       \/ focus = "peers" /\ ScoresNext /\ UNCHANGED <<ivars, Stores, Process, Machines, Relay>>
       \/ focus = "addresses" /\ AddressesNext /\ UNCHANGED <<ivars, Stores, Process, Machines, Relay>>
       \/ focus = "inventory" /\ InventoryNext /\ UNCHANGED <<pvars, Stores, Process, Machines, Relay>>
       \/ focus = "server" /\ ServerNext /\ UNCHANGED <<sdvars, Stores, Directory, Machines, Relay>>
       \/ focus = "shutdown" /\ ShutdownNext /\ UNCHANGED <<svvars, Stores, Directory, Machines, Relay>>
       \/ focus = "script" /\ ScriptNext /\ UNCHANGED <<mvars, Stores, Directory, Process, Relay>>
       \/ focus = "contract" /\ MachineNext /\ UNCHANGED <<scvars, Stores, Directory, Process, Relay>>
       \/ focus = "headers" /\ HeadersNext /\ UNCHANGED <<cbvars, evars, Stores, Directory, Process, Machines>>
       \/ focus = "relay" /\ CompactNext /\ UNCHANGED <<hvars, evars, Stores, Directory, Process, Machines>>
       \/ focus = "explorer" /\ ExplorerNext /\ UNCHANGED <<hvars, cbvars, Stores, Directory, Process, Machines>>

NodeSpec == NodeInit /\ [][NodeNext]_<<focus, Stores, Directory, Process, Machines, Relay>>

\* The state of every part stays in its types.
NodeTypeOK ==
    /\ SchemaTypeOK /\ BlockSyncTypeOK /\ PeersTypeOK /\ InventoryTypeOK
    /\ ServerTypeOK /\ ShutdownTypeOK /\ ScriptTypeOK /\ MachineTypeOK
    /\ HeadersTypeOK /\ CompactTypeOK /\ ExplorerTypeOK
=============================================================================
