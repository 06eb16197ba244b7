---------------------------- MODULE Store_proofs ----------------------------
(***************************************************************************)
(* What the shared store is for: that a program which is up finds tables   *)
(* its queries run against, and that what the node's pages say of the      *)
(* chain is what its rows hold or has a cause that can be named.           *)
(***************************************************************************)
EXTENDS Schema, Explorer, DataTheorems, FiniteSetTheorems, SequenceTheorems, TLAPS

(***************************************************************************)
(* The tables and the starts of the programs                               *)
(***************************************************************************)

\* A concatenation, element by element.
LEMMA Joined ==
  ASSUME NEW S, NEW s \in Seq(S), NEW t \in Seq(S)
  PROVE  /\ s \o t \in Seq(S) /\ Len(s \o t) = Len(s) + Len(t)
         /\ \A k \in 1 .. Len(s) : (s \o t)[k] = s[k]
         /\ \A k \in 1 .. Len(t) : (s \o t)[Len(s) + k] = t[k]
  OBVIOUS

(* The programs, statement by statement. *)
LEMMA ApiProgram ==
  /\ Len(ImportApi) = 3
  /\ ImportApi[1] = ValidatorTable[1] /\ ImportApi[2] = InitWalletDb[1]
  /\ ImportApi[3] = AllocationTable[1]
  /\ \A S : (ValidatorTable[1] \in S /\ InitWalletDb[1] \in S /\ AllocationTable[1] \in S)
               => ImportApi \in Seq(S)
<1> DEFINE v == ValidatorTable[1]
           w == InitWalletDb[1]
           a == AllocationTable[1]
<1>1. ValidatorTable = <<v>> /\ InitWalletDb = <<w>> /\ AllocationTable = <<a>>
  BY DEF ValidatorTable, InitWalletDb, AllocationTable
<1> HIDE DEF v, w, a
<1>2. ASSUME NEW S, v \in S, w \in S, a \in S
      PROVE  /\ ImportApi \in Seq(S) /\ Len(ImportApi) = 3
             /\ ImportApi[1] = v /\ ImportApi[2] = w /\ ImportApi[3] = a
  <2>1. <<v>> \in Seq(S) /\ <<w>> \in Seq(S) /\ <<a>> \in Seq(S)
    BY <1>2
  <2>2. PICK r : r = <<v>> \o <<w>>
    OBVIOUS
  <2>3. r \in Seq(S) /\ Len(r) = 2 /\ r[1] = v /\ r[2] = w
    BY <2>1, <2>2
  <2>4. PICK z : z = r \o <<a>>
    OBVIOUS
  <2>5. z \in Seq(S) /\ Len(z) = 3 /\ z[1] = v /\ z[2] = w /\ z[3] = a
    BY <2>1, <2>3, <2>4, Joined
  <2> QED BY <1>1, <2>2, <2>4, <2>5 DEF ImportApi
<1>3. /\ Len(ImportApi) = 3 /\ ImportApi[1] = v /\ ImportApi[2] = w /\ ImportApi[3] = a
  <2>1. PICK S : S = {v, w, a}
    OBVIOUS
  <2> QED BY <1>2, <2>1
<1> QED BY <1>2, <1>3 DEF v, w, a

LEMMA NodeProgram ==
  /\ Len(Program("node")) = 12
  /\ \A k \in 1 .. 3 : Program("node")[k] = ChainTables[k]
  /\ Program("node")[4] = RegistryTables[1]
  /\ Program("node")[5] = Indices[1] /\ Program("node")[6] = Indices[2]
  /\ Program("node")[7] = InitAllocationWallets[1]
  /\ Program("node")[8] = Count(1) /\ Program("node")[9] = Insert("insert")
  /\ \A k \in 1 .. 3 : Program("node")[9 + k] = ImportApi[k]
<1> DEFINE c1 == ChainTables[1]
           c2 == ChainTables[2]
           c3 == ChainTables[3]
           r1 == RegistryTables[1]
           i1 == Indices[1]
           i2 == Indices[2]
           w1 == InitAllocationWallets[1]
           g1 == Count(1)
           g2 == Insert("insert")
           v1 == ValidatorTable[1]
           v2 == InitWalletDb[1]
           v3 == AllocationTable[1]
<1>1. /\ ChainTables = <<c1, c2, c3>> /\ RegistryTables = <<r1>> /\ Indices = <<i1, i2>>
      /\ InitAllocationWallets = <<w1>> /\ InitGenesisBlock = <<g1, g2>>
  BY DEF ChainTables, RegistryTables, Indices, InitAllocationWallets, InitGenesisBlock
<1>2. PICK S : S = {c1, c2, c3, r1, i1, i2, w1, g1, g2, v1, v2, v3}
  OBVIOUS
<1>3. PICK p : p = ImportApi
  OBVIOUS
<1>4. p \in Seq(S) /\ Len(p) = 3
  BY <1>2, <1>3, ApiProgram
<1> HIDE DEF c1, c2, c3, r1, i1, i2, w1, g1, g2, v1, v2, v3
<1>5. PICK a, b, c, d, e : /\ a = <<c1, c2, c3>> \o <<r1>> /\ b = a \o <<i1, i2>> /\ c = b \o <<w1>>
                           /\ d = c \o <<g1, g2>> /\ e = d \o p
  OBVIOUS
<1>6. /\ <<c1, c2, c3>> \in Seq(S) /\ <<r1>> \in Seq(S) /\ <<i1, i2>> \in Seq(S)
      /\ <<w1>> \in Seq(S) /\ <<g1, g2>> \in Seq(S)
  BY <1>2
<1>7. a \in Seq(S) /\ Len(a) = 4 /\ a[1] = c1 /\ a[2] = c2 /\ a[3] = c3 /\ a[4] = r1
  BY <1>5, <1>6, Joined
<1>8. /\ b \in Seq(S) /\ Len(b) = 6 /\ b[5] = i1 /\ b[6] = i2
      /\ \A k \in 1 .. 4 : b[k] = a[k]
  BY <1>5, <1>6, <1>7, Joined
<1>9. c \in Seq(S) /\ Len(c) = 7 /\ c[7] = w1 /\ \A k \in 1 .. 6 : c[k] = b[k]
  BY <1>5, <1>6, <1>8, Joined
<1>10. /\ d \in Seq(S) /\ Len(d) = 9 /\ d[8] = g1 /\ d[9] = g2
       /\ \A k \in 1 .. 7 : d[k] = c[k]
  BY <1>5, <1>6, <1>9, Joined
<1>11. /\ Len(e) = 12 /\ \A k \in 1 .. 9 : e[k] = d[k]
       /\ \A k \in 1 .. 3 : e[9 + k] = p[k]
  <2>0. d \in Seq(S) /\ p \in Seq(S) /\ e = d \o p
    BY <1>4, <1>5, <1>10
  <2>1. /\ Len(e) = Len(d) + Len(p) /\ \A k \in 1 .. Len(d) : e[k] = d[k]
        /\ \A k \in 1 .. Len(p) : e[Len(d) + k] = p[k]
    BY <2>0, Joined
  <2> QED BY <1>4, <1>10, <2>1
<1>12. Program("node") = e
  BY <1>1, <1>3, <1>5 DEF Program, EnsureInitialized
<1>13. /\ e[1] = c1 /\ e[2] = c2 /\ e[3] = c3 /\ e[4] = r1 /\ e[5] = i1 /\ e[6] = i2
       /\ e[7] = w1 /\ e[8] = g1 /\ e[9] = g2
  BY <1>7, <1>8, <1>9, <1>10, <1>11
<1>14. \A k \in 1 .. 3 : e[k] = ChainTables[k]
  <2>1. ASSUME NEW k \in 1 .. 3 PROVE e[k] = ChainTables[k]
    <3>1. k = 1 \/ k = 2 \/ k = 3
      OBVIOUS
    <3> QED BY <1>13, <3>1 DEF c1, c2, c3
  <2> QED BY <2>1
<1> QED BY <1>3, <1>11, <1>12, <1>13, <1>14 DEF r1, i1, i2, w1, g1, g2

LEMMA ChainProgram ==
  ASSUME NEW p \in Chains
  PROVE  /\ Len(Program(p)) = 5
         /\ Program(p)[1] = InitBalanceDb[1] /\ Program(p)[2] = Count(3)
         /\ Program(p)[3] = InitDb[1] /\ Program(p)[4] = InitDb[2]
         /\ Program(p)[5] = Insert("replace")
<1> DEFINE b == InitBalanceDb[1]
           n == Count(3)
           d == InitDb[1]
           e == InitDb[2]
           r == Insert("replace")
<1>1. InitBalanceDb = <<b>> /\ InitDb = <<d, e>>
  BY DEF InitBalanceDb, InitDb
<1> HIDE DEF b, n, d, e, r
<1>2. PICK S : S = {b, n, d, e, r}
  OBVIOUS
<1>3. <<b>> \in Seq(S) /\ <<n>> \in Seq(S) /\ <<d, e>> \in Seq(S) /\ <<r>> \in Seq(S)
  BY <1>2
<1>4. PICK x, y, z : x = <<b>> \o <<n>> /\ y = x \o <<d, e>> /\ z = y \o <<r>>
  OBVIOUS
<1>5. x \in Seq(S) /\ Len(x) = 2 /\ x[1] = b /\ x[2] = n
  BY <1>3, <1>4, Joined
<1>6. y \in Seq(S) /\ Len(y) = 4 /\ y[1] = b /\ y[2] = n /\ y[3] = d /\ y[4] = e
  BY <1>3, <1>4, <1>5, Joined
<1>7. Len(z) = 5 /\ z[1] = b /\ z[2] = n /\ z[3] = d /\ z[4] = e /\ z[5] = r
  BY <1>3, <1>4, <1>6, Joined
<1>8. Program(p) = z
  BY <1>1, <1>4, SchemaAssumption DEF Program, InitChain, n, r
<1> QED BY <1>7, <1>8 DEF b, n, d, e, r

NodeBlocks == {"idx", "transactions_count"}
NodeOutputs == {"outpoint", "address", "is_spent", "spent_at"}
ApiOutputs == {"txid", "address"}

(* What a CREATE TABLE may give a table; a chain's own table of blocks comes *)
(* only when there is one.                                                   *)
Creates(s) ==
    /\ s.do = "create"
    /\ DOMAIN s.tables \cap {"utxoset", "contracts"} = {}
    /\ "voters" \in DOMAIN s.tables => s.tables["voters"] = {"voter_id", "public_key"}
    /\ "elections" \in DOMAIN s.tables => s.tables["elections"] = {"election_id"}
    /\ "utxos" \in DOMAIN s.tables => s.tables["utxos"] \in {NodeOutputs, ApiOutputs}

CreatesNodeBlocks(s) == "blocks" \in DOMAIN s.tables => s.tables["blocks"] = NodeBlocks

LEMMA NodeCreates ==
  /\ Creates(ChainTables[1]) /\ CreatesNodeBlocks(ChainTables[1])
  /\ Creates(ChainTables[2]) /\ CreatesNodeBlocks(ChainTables[2])
  /\ Creates(ChainTables[3]) /\ CreatesNodeBlocks(ChainTables[3])
  /\ Creates(RegistryTables[1]) /\ CreatesNodeBlocks(RegistryTables[1])
<1>1. Creates(ChainTables[1]) /\ CreatesNodeBlocks(ChainTables[1])
  BY DEF Creates, CreatesNodeBlocks, ChainTables, Create, NodeBlocks
<1>2. Creates(ChainTables[2]) /\ CreatesNodeBlocks(ChainTables[2])
  BY DEF Creates, CreatesNodeBlocks, ChainTables, Create
<1>3. Creates(ChainTables[3]) /\ CreatesNodeBlocks(ChainTables[3])
  BY DEF Creates, CreatesNodeBlocks, ChainTables, Create, NodeOutputs
<1>4. Creates(RegistryTables[1]) /\ CreatesNodeBlocks(RegistryTables[1])
  BY DEF Creates, CreatesNodeBlocks, RegistryTables, Create
<1> QED BY <1>1, <1>2, <1>3, <1>4

LEMMA ApiCreates ==
  ASSUME NEW k \in 1 .. 3 PROVE Creates(ImportApi[k]) /\ CreatesNodeBlocks(ImportApi[k])
<1>1. Creates(ValidatorTable[1]) /\ CreatesNodeBlocks(ValidatorTable[1])
  BY DEF Creates, CreatesNodeBlocks, ValidatorTable, Create
<1>2. Creates(InitWalletDb[1]) /\ CreatesNodeBlocks(InitWalletDb[1])
  BY DEF Creates, CreatesNodeBlocks, InitWalletDb, Create, ApiOutputs
<1>3. Creates(AllocationTable[1]) /\ CreatesNodeBlocks(AllocationTable[1])
  BY DEF Creates, CreatesNodeBlocks, AllocationTable, Create
<1>4. k = 1 \/ k = 2 \/ k = 3
  OBVIOUS
<1> QED BY <1>1, <1>2, <1>3, <1>4, ApiProgram

LEMMA ChainCreates ==
  /\ Creates(InitBalanceDb[1]) /\ CreatesNodeBlocks(InitBalanceDb[1])
  /\ Creates(InitDb[1])
  /\ Creates(InitDb[2]) /\ CreatesNodeBlocks(InitDb[2])
<1>1. Creates(InitBalanceDb[1]) /\ CreatesNodeBlocks(InitBalanceDb[1])
  BY DEF Creates, CreatesNodeBlocks, InitBalanceDb, Create
<1>2. Creates(InitDb[1])
  BY DEF Creates, InitDb, Create
<1>3. Creates(InitDb[2]) /\ CreatesNodeBlocks(InitDb[2])
  BY DEF Creates, CreatesNodeBlocks, InitDb, Create
<1> QED BY <1>1, <1>2, <1>3

(* What the tables can look like. *)
ColumnsInv ==
    /\ tables["utxoset"] = {} /\ tables["contracts"] = {}
    /\ tables["voters"] \in {{}, {"voter_id", "public_key"}}
    /\ tables["elections"] \in {{}, {"election_id"}}
    /\ tables["blocks"] \in {{}, NodeBlocks}
    /\ tables["utxos"] \in {{}, NodeOutputs, ApiOutputs}

(* A node that is past its indices, and a chain that is past its look at the *)
(* blocks, found them; a chain that found none began before there was one.   *)
StartsInv ==
    /\ status \in [Programs -> {"down", "starting", "up"}] /\ at \in [Programs -> Nat \ {0}]
    /\ status["node"] = "up" \/ at["node"] > 5 => tables["utxos"] = NodeOutputs
    /\ status["node"] = "up" \/ at["node"] > 6 => tables["blocks"] = NodeBlocks
    /\ \A c \in Chains :
        /\ at[c] > 2 => tables["blocks"] # {}
        /\ at[c] \in 3 .. 5 => c \in began
        /\ status[c] = "starting" /\ at[c] <= 2 /\ genesis = "none" => c \in began

MemoryInv ==
    \A c \in Chains :
        memory[c] # "none" => genesis # "none" /\ (memory[c] = genesis \/ overlap)

SchemaInv == ColumnsInv /\ StartsInv /\ MemoryInv

TablesKept == \A t \in Tables : tables[t] # {} => tables'[t] = tables[t]

\* Creating tables keeps those that are there.
LEMMA CreateStep ==
  ASSUME ColumnsInv, NEW s, Creates(s), CreatesNodeBlocks(s) \/ tables["blocks"] # {},
         tables' = [t \in Tables |-> IF tables[t] = {} /\ t \in DOMAIN s.tables
                                    THEN s.tables[t] ELSE tables[t]]
  PROVE  ColumnsInv' /\ TablesKept
<1>1. \A t \in Tables : tables'[t] = IF tables[t] = {} /\ t \in DOMAIN s.tables
                                     THEN s.tables[t] ELSE tables[t]
  OBVIOUS
<1>2. {"utxoset", "contracts", "voters", "elections", "blocks", "utxos"} \subseteq Tables
  BY DEF Tables
<1>3. TablesKept
  BY <1>1 DEF TablesKept
<1>4. tables'["utxoset"] = {} /\ tables'["contracts"] = {}
  BY <1>1, <1>2 DEF ColumnsInv, Creates
<1>5. /\ tables'["voters"] \in {{}, {"voter_id", "public_key"}}
      /\ tables'["elections"] \in {{}, {"election_id"}}
  BY <1>1, <1>2 DEF ColumnsInv, Creates
<1>6. tables'["blocks"] \in {{}, NodeBlocks}
  BY <1>1, <1>2 DEF ColumnsInv, CreatesNodeBlocks
<1>7. tables'["utxos"] \in {{}, NodeOutputs, ApiOutputs}
  BY <1>1, <1>2 DEF ColumnsInv, Creates
<1> QED BY <1>3, <1>4, <1>5, <1>6, <1>7 DEF ColumnsInv

\* A program goes on to its next statement.
LEMMA Advances ==
  ASSUME SchemaInv, NEW p \in Programs, NEW next \in Nat \ {0},
         status' = status, began' = began, at' = [at EXCEPT ![p] = next],
         TablesKept, ColumnsInv', MemoryInv', genesis # "none" => genesis' # "none",
         p = "node" /\ next > 5 => tables'["utxos"] = NodeOutputs,
         p = "node" /\ next > 6 => tables'["blocks"] = NodeBlocks,
         p \in Chains /\ next > 2 => tables'["blocks"] # {},
         p \in Chains /\ next \in 3 .. 5 => p \in began,
         p \in Chains /\ next <= 2 /\ genesis = "none" => p \in began
  PROVE  SchemaInv'
<1>1. at' \in [Programs -> Nat \ {0}] /\ at'[p] = next /\ \A q \in Programs \ {p} : at'[q] = at[q]
  BY DEF SchemaInv, StartsInv
<1>2. "node" \in Programs /\ Chains \subseteq Programs /\ "node" \notin Chains
  BY SchemaAssumption DEF Programs
<1>3. /\ tables["utxos"] # {} => tables'["utxos"] = tables["utxos"]
      /\ tables["blocks"] # {} => tables'["blocks"] = tables["blocks"]
  BY DEF TablesKept, Tables
<1>4. NodeOutputs # {} /\ NodeBlocks # {}
  BY DEF NodeOutputs, NodeBlocks
<1>5. status'["node"] = "up" \/ at'["node"] > 5 => tables'["utxos"] = NodeOutputs
  BY <1>1, <1>2, <1>3, <1>4 DEF SchemaInv, StartsInv
<1>6. status'["node"] = "up" \/ at'["node"] > 6 => tables'["blocks"] = NodeBlocks
  BY <1>1, <1>2, <1>3, <1>4 DEF SchemaInv, StartsInv
<1>7. ASSUME NEW c \in Chains
      PROVE  /\ at'[c] > 2 => tables'["blocks"] # {}
             /\ at'[c] \in 3 .. 5 => c \in began
             /\ status[c] = "starting" /\ at'[c] <= 2 /\ genesis' = "none" => c \in began
  <2>1. CASE c = p
    BY <1>1, <2>1
  <2>2. CASE c # p
    BY <1>1, <1>2, <1>3, <2>2 DEF SchemaInv, StartsInv
  <2> QED BY <2>1, <2>2
<1> QED BY <1>1, <1>5, <1>6, <1>7 DEF SchemaInv, StartsInv

\* A program falls back to its beginning, and its memory is gone.
LEMMA FallsBack ==
  ASSUME SchemaInv, NEW p \in Programs, UNCHANGED <<tables, genesis, overlap>>,
         status' = [status EXCEPT ![p] = "down"], at' = [at EXCEPT ![p] = 1],
         memory' = Forgotten(p), began' = began \ {p}
  PROVE  SchemaInv'
<1>1. /\ at' \in [Programs -> Nat \ {0}] /\ at'[p] = 1 /\ status'[p] = "down"
      /\ \A q \in Programs \ {p} : at'[q] = at[q] /\ status'[q] = status[q]
      /\ status' \in [Programs -> {"down", "starting", "up"}]
  BY DEF SchemaInv, StartsInv
<1>2. "node" \in Programs /\ Chains \subseteq Programs
  BY DEF Programs
<1>3. ColumnsInv'
  BY DEF SchemaInv, ColumnsInv
<1>4. MemoryInv'
  BY DEF SchemaInv, MemoryInv, Forgotten
<1>5. StartsInv'
  <2>1. /\ status'["node"] = "up" \/ at'["node"] > 5 => tables'["utxos"] = NodeOutputs
        /\ status'["node"] = "up" \/ at'["node"] > 6 => tables'["blocks"] = NodeBlocks
    BY <1>1, <1>2 DEF SchemaInv, StartsInv
  <2>2. ASSUME NEW c \in Chains
        PROVE  /\ at'[c] > 2 => tables'["blocks"] # {}
               /\ at'[c] \in 3 .. 5 => c \in began'
               /\ status'[c] = "starting" /\ at'[c] <= 2 /\ genesis' = "none" => c \in began'
    <3>1. CASE c = p
      BY <1>1, <3>1
    <3>2. CASE c # p
      BY <1>1, <1>2, <3>2 DEF SchemaInv, StartsInv
    <3> QED BY <3>1, <3>2
  <2> QED BY <1>1, <2>1, <2>2 DEF StartsInv
<1> QED BY <1>3, <1>4, <1>5 DEF SchemaInv

LEMMA SchemaInitial == SchemaInit => SchemaInv
<1> SUFFICES ASSUME SchemaInit PROVE SchemaInv
  OBVIOUS
<1>1. "node" \in Programs /\ Chains \subseteq Programs
  BY DEF Programs
<1>2. \A q \in Programs : at[q] = 1 /\ status[q] = "down"
  BY DEF SchemaInit
<1>3. ColumnsInv
  BY DEF SchemaInit, ColumnsInv, Tables
<1>4. StartsInv
  <2>1. status \in [Programs -> {"down", "starting", "up"}] /\ at \in [Programs -> Nat \ {0}]
    BY DEF SchemaInit
  <2> QED BY <1>1, <1>2, <2>1 DEF StartsInv
<1>5. MemoryInv
  BY DEF SchemaInit, MemoryInv
<1> QED BY <1>3, <1>4, <1>5 DEF SchemaInv

LEMMA SchemaStart ==
  ASSUME SchemaInv, NEW p \in Programs, Start(p) PROVE SchemaInv'
<1>1. /\ status' \in [Programs -> {"down", "starting", "up"}] /\ status'[p] = "starting"
      /\ \A q \in Programs \ {p} : status'[q] = status[q]
  BY DEF SchemaInv, StartsInv, Start
<1>2. "node" \in Programs /\ Chains \subseteq Programs
  BY DEF Programs
<1>3. UNCHANGED <<tables, genesis, at, memory, overlap>> /\ began \subseteq began'
      /\ (genesis = "none" /\ p \in Chains => p \in began')
  BY DEF Start
<1>4. ColumnsInv' /\ MemoryInv'
  BY <1>3 DEF SchemaInv, ColumnsInv, MemoryInv
<1>5. StartsInv'
  <2>1. /\ status'["node"] = "up" \/ at'["node"] > 5 => tables'["utxos"] = NodeOutputs
        /\ status'["node"] = "up" \/ at'["node"] > 6 => tables'["blocks"] = NodeBlocks
    BY <1>1, <1>2, <1>3 DEF SchemaInv, StartsInv
  <2>2. ASSUME NEW c \in Chains
        PROVE  /\ at'[c] > 2 => tables'["blocks"] # {}
               /\ at'[c] \in 3 .. 5 => c \in began'
               /\ status'[c] = "starting" /\ at'[c] <= 2 /\ genesis' = "none" => c \in began'
    <3>1. CASE c = p
      BY <1>3, <3>1 DEF SchemaInv, StartsInv
    <3>2. CASE c # p
      BY <1>1, <1>2, <1>3, <3>2 DEF SchemaInv, StartsInv
    <3> QED BY <3>1, <3>2
  <2> QED BY <1>1, <1>3, <2>1, <2>2 DEF SchemaInv, StartsInv
<1> QED BY <1>4, <1>5 DEF SchemaInv

LEMMA SchemaFinish ==
  ASSUME SchemaInv, NEW p \in Programs, Finish(p) PROVE SchemaInv'
<1>1. /\ status' \in [Programs -> {"down", "starting", "up"}] /\ status'[p] = "up"
      /\ at' \in [Programs -> Nat \ {0}] /\ at'[p] = 1
      /\ \A q \in Programs \ {p} : status'[q] = status[q] /\ at'[q] = at[q]
  BY DEF SchemaInv, StartsInv, Finish
<1>2. "node" \in Programs /\ Chains \subseteq Programs
  BY DEF Programs
<1>3. /\ UNCHANGED <<tables, genesis, memory, overlap>> /\ began' = began \ {p}
      /\ at[p] > Len(Program(p))
  BY DEF Finish
<1>4. ColumnsInv' /\ MemoryInv'
  BY <1>3 DEF SchemaInv, ColumnsInv, MemoryInv
<1>5. StartsInv'
  <2>0. p = "node" => at["node"] > 12
    BY <1>3, NodeProgram
  <2>1. p = "node" => tables["utxos"] = NodeOutputs /\ tables["blocks"] = NodeBlocks
    BY <1>2, <2>0 DEF SchemaInv, StartsInv
  <2>2. /\ status'["node"] = "up" \/ at'["node"] > 5 => tables'["utxos"] = NodeOutputs
        /\ status'["node"] = "up" \/ at'["node"] > 6 => tables'["blocks"] = NodeBlocks
    BY <1>1, <1>2, <1>3, <2>1 DEF SchemaInv, StartsInv
  <2>3. ASSUME NEW c \in Chains
        PROVE  /\ at'[c] > 2 => tables'["blocks"] # {}
               /\ at'[c] \in 3 .. 5 => c \in began'
               /\ status'[c] = "starting" /\ at'[c] <= 2 /\ genesis' = "none" => c \in began'
    <3>1. CASE c = p
      BY <1>1, <3>1
    <3>2. CASE c # p
      BY <1>1, <1>2, <1>3, <3>2 DEF SchemaInv, StartsInv
    <3> QED BY <3>1, <3>2
  <2> QED BY <1>1, <2>2, <2>3 DEF StartsInv
<1> QED BY <1>4, <1>5 DEF SchemaInv

\* What a statement that runs does: to the program, ...
LEMMA StatementOfProgram ==
  ASSUME SchemaInv, NEW p \in Programs, Execute(p), NEW s, s = Program(p)[at[p]], ~Fails(p, s)
  PROVE  /\ status' = status /\ began' = began /\ at[p] \in 1 .. Len(Program(p))
         /\ status[p] = "starting"
         /\ s.do # "count" \/ genesis = "none" => at' = [at EXCEPT ![p] = at[p] + 1]
         /\ s.do = "count" /\ genesis # "none" => at' = [at EXCEPT ![p] = at[p] + 1 + s.skip]
<1>1. at[p] \in Nat \ {0}
  BY DEF SchemaInv, StartsInv
<1>2. status' = status /\ began' = began /\ status[p] = "starting" /\ at[p] <= Len(Program(p))
  BY DEF Execute
<1>3. at' = [at EXCEPT ![p] = at[p] + 1 + (IF s.do = "count" /\ genesis # "none"
                                         THEN s.skip ELSE 0)]
  BY DEF Execute
<1>4. at[p] \in 1 .. Len(Program(p))
  <2>1. Len(Program(p)) \in Nat
    <3>1. p = "node" \/ p = "api" \/ p \in Chains
      BY DEF Programs
    <3>2. Len(Program("api")) = 3
      BY ApiProgram DEF Program
    <3>3. Len(Program("node")) = 12 /\ \A c \in Chains : Len(Program(c)) = 5
      BY NodeProgram, ChainProgram
    <3>4. CASE p = "node"
      BY <3>3, <3>4
    <3>5. CASE p = "api"
      BY <3>2, <3>5
    <3> QED BY <3>1, <3>3, <3>4, <3>5
  <2> QED BY <1>1, <1>2, <2>1
<1>5. s.do # "count" \/ genesis = "none" => at' = [at EXCEPT ![p] = at[p] + 1]
  <2>1. s.do # "count" \/ genesis = "none" => at' = [at EXCEPT ![p] = at[p] + 1 + 0]
    BY <1>3, Zenon
  <2>2. at[p] + 1 + 0 = at[p] + 1
    BY <1>1
  <2> QED BY <2>1, <2>2, Zenon
<1>6. s.do = "count" /\ genesis # "none" => at' = [at EXCEPT ![p] = at[p] + 1 + s.skip]
  BY <1>3, Zenon
<1> QED BY <1>2, <1>4, <1>5, <1>6, Zenon

\* ... to the tables, ...
LEMMA StatementOfTables ==
  ASSUME SchemaInv, NEW p \in Programs, Execute(p), NEW s, s = Program(p)[at[p]], ~Fails(p, s)
  PROVE  /\ s.do = "create" =>
                tables' = [t \in Tables |-> IF tables[t] = {} /\ t \in DOMAIN s.tables
                                            THEN s.tables[t] ELSE tables[t]]
         /\ s.do # "create" => tables' = tables /\ TablesKept /\ ColumnsInv'
<1>1. /\ s.do # "create" => tables' = tables
      /\ s.do = "create" =>
             tables' = [t \in Tables |-> IF tables[t] = {} /\ t \in DOMAIN s.tables
                                         THEN s.tables[t] ELSE tables[t]]
  BY DEF Execute
<1>2. s.do # "create" => TablesKept /\ ColumnsInv'
  BY <1>1 DEF SchemaInv, ColumnsInv, TablesKept
<1> QED BY <1>1, <1>2

\* ... and to the genesis block and the chains that know it.
LEMMA StatementOfGenesis ==
  ASSUME SchemaInv, NEW p \in Programs, Execute(p), NEW s, s = Program(p)[at[p]], ~Fails(p, s)
  PROVE  /\ s.do \notin {"insert", "replace"} => genesis' = genesis /\ MemoryInv'
         /\ s.do \in {"insert", "replace"} => genesis' = p
         /\ \A c \in Chains : c # p \/ s.do # "replace" =>
                memory'[c] = memory[c] \/ (s.do = "count" /\ memory'[c] = genesis)
         /\ s.do = "replace" /\ p \in Chains => memory'[p] = p
         /\ overlap => overlap'
         /\ s.do = "replace" /\ p \in began /\ genesis # "none" => overlap'
<1>1. /\ s.do \notin {"insert", "replace"} => genesis' = genesis
      /\ s.do \in {"insert", "replace"} => genesis' = p
  BY DEF Execute
<1>2. \A c \in Chains :
         memory'[c] = IF c = p /\ s.do = "count" /\ genesis # "none" THEN genesis
                      ELSE IF c = p /\ s.do = "replace" THEN p ELSE memory[c]
  BY DEF Execute
<1>3. overlap => overlap'
  BY DEF Execute
<1>4. s.do = "replace" /\ p \in began /\ genesis # "none" => overlap'
  BY DEF Execute
<1>5. s.do \notin {"insert", "replace"} => MemoryInv'
  BY <1>1, <1>2, <1>3 DEF SchemaInv, MemoryInv
<1>6. \A c \in Chains : c # p \/ s.do # "replace" =>
         memory'[c] = memory[c] \/ (s.do = "count" /\ memory'[c] = genesis)
  BY <1>2
<1>7. s.do = "replace" /\ p \in Chains => memory'[p] = p
  BY <1>2
<1> QED BY <1>1, <1>3, <1>4, <1>5, <1>6, <1>7

\* A program that goes on to the statement below.
LEMMA NextStatement ==
  ASSUME SchemaInv, NEW p \in Programs, Execute(p), NEW s, s = Program(p)[at[p]], ~Fails(p, s),
         s.do # "count" \/ genesis = "none", TablesKept, ColumnsInv', MemoryInv',
         genesis # "none" => genesis' # "none",
         p = "node" /\ at[p] = 5 => tables["utxos"] = NodeOutputs,
         p = "node" /\ at[p] = 6 => tables["blocks"] = NodeBlocks,
         p \in Chains /\ at[p] = 2 => tables["blocks"] # {} /\ genesis = "none"
  PROVE  SchemaInv'
<1>1. /\ status' = status /\ began' = began /\ status[p] = "starting"
      /\ at' = [at EXCEPT ![p] = at[p] + 1]
  BY StatementOfProgram
<1>2. PICK next : next = at[p] + 1
  OBVIOUS
<1>3. at[p] \in Nat \ {0} /\ next \in Nat \ {0}
  BY <1>2 DEF SchemaInv, StartsInv
<1>4. /\ tables["utxos"] # {} => tables'["utxos"] = tables["utxos"]
      /\ tables["blocks"] # {} => tables'["blocks"] = tables["blocks"]
  BY DEF TablesKept, Tables
<1>5. NodeOutputs # {} /\ NodeBlocks # {}
  BY DEF NodeOutputs, NodeBlocks
<1>6. p = "node" /\ next > 5 => tables'["utxos"] = NodeOutputs
  BY <1>2, <1>3, <1>4, <1>5 DEF SchemaInv, StartsInv
<1>7. p = "node" /\ next > 6 => tables'["blocks"] = NodeBlocks
  BY <1>2, <1>3, <1>4, <1>5 DEF SchemaInv, StartsInv
<1>8. p \in Chains /\ next > 2 => tables'["blocks"] # {}
  BY <1>2, <1>3, <1>4 DEF SchemaInv, StartsInv
<1>9. p \in Chains /\ next \in 3 .. 5 => p \in began
  BY <1>1, <1>2, <1>3 DEF SchemaInv, StartsInv
<1>10. p \in Chains /\ next <= 2 /\ genesis = "none" => p \in began
  BY <1>1, <1>2, <1>3 DEF SchemaInv, StartsInv
<1> QED BY <1>1, <1>2, <1>3, <1>6, <1>7, <1>8, <1>9, <1>10, Advances

\* A statement that creates tables.
LEMMA CreatesTables ==
  ASSUME SchemaInv, NEW p \in Programs, Execute(p), NEW s, s = Program(p)[at[p]], Creates(s),
         CreatesNodeBlocks(s) \/ tables["blocks"] # {},
         p = "node" => at[p] \notin {5, 6}, p \in Chains => at[p] # 2
  PROVE  SchemaInv'
<1>1. s.do = "create"
  BY DEF Creates
<1>2. ~Fails(p, s)
  BY <1>1 DEF Fails
<1>3. tables' = [t \in Tables |-> IF tables[t] = {} /\ t \in DOMAIN s.tables
                                  THEN s.tables[t] ELSE tables[t]]
  BY <1>1, <1>2, StatementOfTables
<1>4. ColumnsInv' /\ TablesKept
  BY <1>3, CreateStep DEF SchemaInv
<1>5. genesis' = genesis /\ MemoryInv'
  BY <1>1, <1>2, StatementOfGenesis
<1> QED BY <1>1, <1>2, <1>4, <1>5, NextStatement

LEMMA ExecuteApi ==
  ASSUME SchemaInv, Execute("api"), NEW s, s = Program("api")[at["api"]], ~Fails("api", s)
  PROVE  SchemaInv'
<1>1. "api" \in Programs /\ "api" \notin Chains
  BY SchemaAssumption DEF Programs
<1>2. at["api"] \in 1 .. 3
  <2>1. at["api"] \in 1 .. Len(Program("api"))
    BY <1>1, StatementOfProgram
  <2> QED BY <2>1, ApiProgram DEF Program
<1>3. Creates(s) /\ CreatesNodeBlocks(s)
  BY <1>2, ApiCreates DEF Program
<1> QED BY <1>1, <1>3, CreatesTables

LEMMA ExecuteNode ==
  ASSUME SchemaInv, Execute("node"), NEW s, s = Program("node")[at["node"]], ~Fails("node", s)
  PROVE  SchemaInv'
<1>1. "node" \in Programs /\ "node" \notin Chains /\ "node" # "none"
  BY SchemaAssumption DEF Programs
<1>2. PICK k : k = at["node"]
  OBVIOUS
<1>3. k \in 1 .. 12
  BY <1>1, <1>2, StatementOfProgram, NodeProgram
<1>4. CASE k \in 1 .. 4 \/ k \in 10 .. 12
  <2>1. Creates(s) /\ CreatesNodeBlocks(s)
    <3>1. CASE k \in 1 .. 4
      <4>1. k = 1 \/ k = 2 \/ k = 3 \/ k = 4
        BY <3>1
      <4> QED BY <1>2, <4>1, NodeProgram, NodeCreates
    <3>2. CASE k \in 10 .. 12
      <4>1. PICK j \in 1 .. 3 : k = 9 + j
        <5>1. k - 9 \in 1 .. 3 /\ k = 9 + (k - 9)
          BY <3>2
        <5> QED BY <5>1
      <4>2. s = ImportApi[j]
        BY <1>2, <4>1, NodeProgram
      <4> QED BY <4>2, ApiCreates
    <3> QED BY <1>4, <3>1, <3>2
  <2> QED BY <1>1, <1>2, <1>4, <2>1, CreatesTables
<1>5. CASE k \in 5 .. 7
  <2>1. /\ k = 5 => s = Need("utxos", {"address", "is_spent"})
        /\ k = 6 => s = Need("blocks", {"idx"})
        /\ k = 7 => s = Need("allocation_wallets", {"id"})
    BY <1>2, NodeProgram DEF Indices, InitAllocationWallets
  <2>2. s.do = "need"
    BY <1>5, <2>1 DEF Need
  <2>3. tables' = tables /\ TablesKept /\ ColumnsInv' /\ genesis' = genesis /\ MemoryInv'
    BY <1>1, <2>2, StatementOfTables, StatementOfGenesis
  <2>4. Runs(s)
    BY <2>2 DEF Fails
  <2>5. k = 5 => tables["utxos"] = NodeOutputs
    <3>1. k = 5 => s.table = "utxos" /\ "is_spent" \in s.columns
      BY <2>1 DEF Need
    <3> QED BY <2>4, <3>1 DEF Runs, SchemaInv, ColumnsInv, ApiOutputs
  <2>6. k = 6 => tables["blocks"] = NodeBlocks
    <3>1. k = 6 => s.table = "blocks"
      BY <2>1 DEF Need
    <3> QED BY <2>4, <3>1 DEF Runs, SchemaInv, ColumnsInv
  <2> QED BY <1>1, <1>2, <2>2, <2>3, <2>5, <2>6, NextStatement
<1>6. CASE k = 8
  <2>1. s.do = "count" /\ s.skip = 1
    BY <1>2, <1>6, NodeProgram DEF Count
  <2>2. tables' = tables /\ TablesKept /\ ColumnsInv' /\ genesis' = genesis /\ MemoryInv'
    BY <1>1, <2>1, StatementOfTables, StatementOfGenesis
  <2>3. CASE genesis = "none"
    <3>1. at["node"] # 5 /\ at["node"] # 6 /\ (genesis # "none" => genesis' # "none")
      BY <1>2, <1>6, <2>3
    <3> QED BY <1>1, <2>2, <2>3, <3>1, NextStatement
  <2>4. CASE genesis # "none"
    <3>1. status' = status /\ began' = began /\ at' = [at EXCEPT !["node"] = at["node"] + 1 + s.skip]
      BY <1>1, <2>1, <2>4, StatementOfProgram
    <3>2. at["node"] + 1 + s.skip = 10
      BY <1>2, <1>6, <2>1
    <3>3. at' = [at EXCEPT !["node"] = 10]
      BY <3>1, <3>2
    <3>4. tables'["utxos"] = NodeOutputs /\ tables'["blocks"] = NodeBlocks
      BY <1>2, <1>6, <2>2 DEF SchemaInv, StartsInv
    <3>5. 10 \in Nat \ {0} /\ genesis' # "none"
      BY <2>2, <2>4
    <3>6. MemoryInv' /\ ColumnsInv' /\ TablesKept
      BY <2>2
    <3> QED BY ONLY SchemaInv, <1>1, <3>1, <3>3, <3>4, <3>5, <3>6, Advances
  <2> QED BY <2>3, <2>4
<1>7. CASE k = 9
  <2>1. s.do = "insert"
    BY <1>2, <1>7, NodeProgram DEF Insert
  <2>2. genesis = "none"
    BY <2>1 DEF Fails
  <2>3. TablesKept /\ ColumnsInv'
    BY <1>1, <2>1, StatementOfTables
  <2>4. MemoryInv'
    <3>1. \A c \in Chains : memory'[c] = memory[c]
      BY <1>1, <2>1, StatementOfGenesis
    <3> QED BY <2>2, <3>1 DEF SchemaInv, MemoryInv
  <2>5. at["node"] # 5 /\ at["node"] # 6 /\ s.do # "count"
    BY <1>2, <1>7, <2>1
  <2> QED BY <1>1, <2>2, <2>3, <2>4, <2>5, NextStatement
<1> QED BY <1>3, <1>4, <1>5, <1>6, <1>7

LEMMA ExecuteChain ==
  ASSUME SchemaInv, NEW p \in Chains, Execute(p), NEW s, s = Program(p)[at[p]], ~Fails(p, s)
  PROVE  SchemaInv'
<1>1. p \in Programs /\ p # "node" /\ p # "none"
  BY SchemaAssumption DEF Programs
<1>2. PICK k : k = at[p]
  OBVIOUS
<1>3. k \in 1 .. 5
  BY <1>1, <1>2, StatementOfProgram, ChainProgram
<1>4. CASE k \in {1, 3, 4}
  <2>1. k # 1 => tables["blocks"] # {}
    BY <1>2, <1>4 DEF SchemaInv, StartsInv
  <2>2. Creates(s) /\ (CreatesNodeBlocks(s) \/ tables["blocks"] # {})
    BY <1>2, <1>4, <2>1, ChainProgram, ChainCreates
  <2> QED BY <1>1, <1>2, <1>4, <2>2, CreatesTables
<1>5. CASE k = 2
  <2>1. s.do = "count" /\ s.skip = 3 /\ s.table = "blocks"
    BY <1>2, <1>5, ChainProgram DEF Count
  <2>2. tables' = tables /\ TablesKept /\ ColumnsInv' /\ genesis' = genesis /\ MemoryInv'
    BY <1>1, <2>1, StatementOfTables, StatementOfGenesis
  <2>3. tables["blocks"] # {}
    BY <2>1 DEF Fails, Runs
  <2>4. CASE genesis = "none"
    BY <1>1, <1>2, <1>5, <2>1, <2>2, <2>3, <2>4, NextStatement
  <2>5. CASE genesis # "none"
    <3>1. status' = status /\ began' = began /\ at' = [at EXCEPT ![p] = at[p] + 1 + s.skip]
      BY <1>1, <2>1, <2>5, StatementOfProgram
    <3>2. at[p] + 1 + s.skip = 6
      BY <1>2, <1>5, <2>1
    <3>3. at' = [at EXCEPT ![p] = 6]
      BY <3>1, <3>2
    <3>4. 6 \in Nat \ {0} /\ genesis' # "none" /\ ~(6 \in 3 .. 5) /\ ~(6 <= 2)
      BY <2>2, <2>5
    <3>5. tables'["blocks"] # {} /\ MemoryInv' /\ ColumnsInv' /\ TablesKept
      BY <2>2, <2>3
    <3> QED BY ONLY SchemaInv, <1>1, <3>1, <3>3, <3>4, <3>5, Advances
  <2> QED BY <2>4, <2>5
<1>6. CASE k = 5
  <2>1. s.do = "replace"
    BY <1>2, <1>6, ChainProgram DEF Insert
  <2>2. TablesKept /\ ColumnsInv'
    BY <1>1, <2>1, StatementOfTables
  <2>3. p \in began
    <3>1. at[p] \in 3 .. 5
      BY <1>2, <1>6
    <3> QED BY <3>1 DEF SchemaInv, StartsInv
  <2>4. /\ genesis' = p /\ memory'[p] = p /\ (overlap => overlap')
        /\ \A c \in Chains \ {p} : memory'[c] = memory[c]
        /\ genesis # "none" => overlap'
    <3>1. s.do \in {"insert", "replace"} /\ s.do # "count"
      BY <2>1
    <3>2. genesis' = p
      BY <1>1, <3>1, StatementOfGenesis
    <3>3. memory'[p] = p
      BY <1>1, <2>1, StatementOfGenesis
    <3>4. \A c \in Chains \ {p} : memory'[c] = memory[c]
      BY <1>1, <3>1, StatementOfGenesis
    <3>5. (overlap => overlap') /\ (genesis # "none" => overlap')
      BY <1>1, <2>1, <2>3, StatementOfGenesis
    <3> QED BY <3>2, <3>3, <3>4, <3>5
  <2>5. MemoryInv'
    <3>1. ASSUME NEW c \in Chains, memory'[c] # "none"
          PROVE  genesis' # "none" /\ (memory'[c] = genesis' \/ overlap')
      <4>1. CASE c = p
        BY <1>1, <2>4, <4>1
      <4>2. CASE c # p
        BY <1>1, <2>4, <3>1, <4>2 DEF SchemaInv, MemoryInv
      <4> QED BY <4>1, <4>2
    <3> QED BY <3>1 DEF MemoryInv
  <2>6. at[p] # 2 /\ s.do # "count" /\ genesis' # "none"
    BY <1>1, <1>2, <1>6, <2>1, <2>4
  <2> QED BY <1>1, <2>2, <2>5, <2>6, NextStatement
<1> QED BY <1>3, <1>4, <1>5, <1>6

LEMMA SchemaExecute ==
  ASSUME SchemaInv, NEW p \in Programs, Execute(p) PROVE SchemaInv'
<1>1. PICK s : s = Program(p)[at[p]]
  OBVIOUS
<1>2. CASE Fails(p, s)
  BY <1>1, <1>2, FallsBack DEF Execute
<1>3. CASE ~Fails(p, s)
  <2>1. p = "node" \/ p = "api" \/ p \in Chains
    BY DEF Programs
  <2>2. CASE p = "node"
    BY <1>1, <1>3, <2>2, ExecuteNode
  <2>3. CASE p = "api"
    BY <1>1, <1>3, <2>3, ExecuteApi
  <2>4. CASE p \in Chains
    BY <1>1, <1>3, <2>4, ExecuteChain
  <2> QED BY <2>1, <2>2, <2>3, <2>4
<1> QED BY <1>2, <1>3

LEMMA SchemaStep == SchemaInv /\ [SchemaNext]_svars => SchemaInv'
<1> SUFFICES ASSUME SchemaInv, [SchemaNext]_svars PROVE SchemaInv'
  OBVIOUS
<1>1. ASSUME NEW p \in Programs, Crash(p) PROVE SchemaInv'
  BY <1>1, FallsBack DEF Crash
<1>2. CASE UNCHANGED svars
  BY <1>2 DEF svars, SchemaInv, ColumnsInv, StartsInv, MemoryInv
<1>3. CASE SchemaNext
  BY <1>1, <1>3, SchemaStart, SchemaFinish, SchemaExecute DEF SchemaNext
<1> QED BY <1>2, <1>3

LEMMA SchemaImplies == SchemaInv => UpMeansUsable
<1> SUFFICES ASSUME SchemaInv PROVE UpMeansUsable
  OBVIOUS
<1>1. status["node"] = "up" => Runs(SendTransaction) /\ Runs(StoreSynced)
  BY DEF SchemaInv, StartsInv, Runs, SendTransaction, StoreSynced, Need, NodeOutputs, NodeBlocks
<1>2. /\ ~Runs(GetPrivateKey) /\ ~Runs(PruneOldBlocks) /\ ~Runs(DisconnectBlocks)
      /\ ~Runs(BootSnapshot)
  BY DEF SchemaInv, ColumnsInv, NodeBlocks, Runs, Need, GetPrivateKey, PruneOldBlocks,
         DisconnectBlocks, BootSnapshot
<1>3. /\ ~Runs(CreateSnapshot) /\ ~Runs(LoadSnapshot) /\ ~Runs(ComputeFullHash)
      /\ ~Runs(VerifyOnStartup) /\ ~Runs(DeployContract) /\ ~Runs(ExecuteContract)
  BY DEF SchemaInv, ColumnsInv, Runs, Need, CreateSnapshot, LoadSnapshot, ComputeFullHash,
         VerifyOnStartup, DeployContract, ExecuteContract
<1>4. ~Runs(CloseElection)
  BY DEF SchemaInv, ColumnsInv, Runs, Need, CloseElection
<1>5. \A s \in Unsupported : ~Runs(s)
  BY <1>2, <1>3, <1>4 DEF Unsupported
<1> QED BY <1>1, <1>5 DEF SchemaInv, MemoryInv, UpMeansUsable

(* Whatever programs start, in whatever interleaving of their statements and *)
(* with whatever crashes: a node that came up finds the columns of its       *)
(* payments and of its synchronisation, what nothing creates stays missing,  *)
(* and a chain works on the stored genesis block unless one that began       *)
(* before there was any replaced it.                                         *)
THEOREM NodesThatAreUpWork == SchemaSpec => []UpMeansUsable
<1>1. SchemaSpec => []SchemaInv
  BY SchemaInitial, SchemaStep, PTL DEF SchemaSpec
<1> QED BY <1>1, SchemaImplies, PTL

-----------------------------------------------------------------------------
(***************************************************************************)
(* What the node reports of its chain                                      *)
(***************************************************************************)

ChainBlocks == [name : Int, prev : Int, idx : 0 .. Peak]

(* Every name comes from one block: of two that were mined, the later one    *)
(* has the higher name, and a downloaded one is above all of them.           *)
StoredAt(name, h) ==
    /\ name \in 0 .. Cardinality(mined) \/ (name \in Int /\ name > MaxMade)
    /\ \A b \in mined : b.name = name => b.kept /\ b.idx = h

(* Rows are never removed, and each but the first brought a transaction of   *)
(* its own or was downloaded.                                                *)
BlockRowsInv ==
    /\ stored \in [0 .. Peak -> [name : Int, prev : Int]] /\ 0 \in Rows
    /\ IsFiniteSet(mined) /\ IsFiniteSet(synced)
    /\ Cardinality(mined) + Cardinality(synced) <= MaxMade
    /\ \A b \in mined : b.name \in 1 .. Cardinality(mined)
    /\ \A x \in synced : \E h \in Rows : x = Downloaded(h)
    /\ \A h \in Rows : StoredAt(stored[h].name, h)

(* A transaction is listed where some stored block has it, and at any other  *)
(* height than a stored block's own only if another stored block has it too. *)
PaymentRowsInv ==
    /\ DOMAIN listed \subseteq Spends \cup 1 .. Cardinality(mined)
    /\ Cardinality(Rows) <= Cardinality(DOMAIN listed) + 1 + Cardinality(synced)
    /\ \A t \in DOMAIN listed : \E c \in mined : c.kept /\ t \in c.txs /\ c.idx = listed[t]
    /\ \A b \in mined : b.kept => \A t \in b.txs :
          /\ t \in DOMAIN listed
          /\ listed[t] = b.idx \/ \E c \in mined : c.kept /\ c.name # b.name /\ t \in c.txs

ObjectsInv ==
    object \in [Objects -> {q \in [up : BOOLEAN, chain : Seq(ChainBlocks), known : SUBSET Spends] :
                              q.up => Len(q.chain) > 0}]

(* While no INSERT failed the rows have no gap, and reach as far as every    *)
(* chain, whose blocks are numbered as they stand.                           *)
NumberedUpTo(chain, n) ==
    Len(chain) <= n /\ \A i \in 1 .. Len(chain) : chain[i].idx = i - 1
NumberedInv ==
    failed \/ \E n \in Nat : Rows = 0 .. n - 1 /\ \A o \in Objects : NumberedUpTo(object[o].chain, n)

(* While, besides, no row was replaced and none downloaded, every chain is a *)
(* beginning of the rows, and these are linked.                              *)
Copied(chain) ==
    \A i \in 1 .. Len(chain) :
        chain[i].name = stored[i - 1].name /\ chain[i].prev = stored[i - 1].prev
LinkedInv ==
    \/ failed \/ overwrote \/ synced # {}
    \/ /\ \A h \in Rows : h > 0 => stored[h].prev = stored[h - 1].name
       /\ \A o \in Objects : Copied(object[o].chain)

AnswersInv ==
    /\ reading.of = "block" => StoredAt(reading.name, reading.at)
    /\ reading.of = "stats" =>
          /\ reading.length \in Nat
          /\ reading.length <= Cardinality(DOMAIN listed) + 1 + Cardinality(synced)
    /\ reading.of = "reorg" => reading.tip \in Rows

ExplorerInv ==
    /\ BlockRowsInv /\ PaymentRowsInv /\ ObjectsInv /\ NumberedInv /\ LinkedInv /\ AnswersInv
    /\ BlocksAreShownWhole /\ CountsAgree /\ ReorgsDisconnectNothing

LEMMA RowsAreFinite ==
  /\ Rows \subseteq 0 .. Peak /\ IsFiniteSet(Rows) /\ Cardinality(Rows) \in Nat
<1>1. Rows \subseteq 0 .. Peak
  BY DEF Rows
<1>2. IsFiniteSet(0 .. Peak)
  BY FS_Interval, ExplorerAssumption
<1> QED BY <1>1, <1>2, FS_Subset, FS_CardinalityType

LEMMA ListedAreFinite ==
  ASSUME BlockRowsInv, PaymentRowsInv
  PROVE  /\ IsFiniteSet(DOMAIN listed) /\ Cardinality(DOMAIN listed) \in Nat
         /\ Cardinality(mined) \in Nat /\ Cardinality(synced) \in Nat
<1>1. Cardinality(mined) \in Nat /\ Cardinality(synced) \in Nat
  BY FS_CardinalityType DEF BlockRowsInv
<1>2. IsFiniteSet(1 .. Cardinality(mined))
  BY <1>1, FS_Interval
<1>3. IsFiniteSet(Spends \cup 1 .. Cardinality(mined))
  BY <1>2, FS_Union, ExplorerAssumption
<1> QED BY <1>1, <1>3, FS_Subset, FS_CardinalityType DEF PaymentRowsInv

\* The row number i from below.
RowNumber(i) == CHOOSE k \in Rows : Cardinality({j \in Rows : j < k}) = i - 1

LEMMA RowNumbered ==
  ASSUME NEW i \in 1 .. Cardinality(Rows)
  PROVE  RowNumber(i) \in Rows /\ Cardinality({j \in Rows : j < RowNumber(i)}) = i - 1
<1>1. PICK R, m : R = Rows /\ m = Cardinality(Rows)
  OBVIOUS
<1>2. /\ m \in Nat /\ i \in Nat /\ i <= m /\ i > 0 /\ Peak \in Nat /\ m = Cardinality(R)
      /\ IsFiniteSet(R) /\ \A j \in R : j \in Nat /\ j < Peak + 1
  BY <1>1, RowsAreFinite, ExplorerAssumption
<1> DEFINE RowsBelow(k) == {j \in R : j < k}
           T == {k \in Nat : Cardinality(RowsBelow(k + 1)) >= i}
<1>3. \A k \in Nat : IsFiniteSet(RowsBelow(k)) /\ Cardinality(RowsBelow(k)) \in Nat
  BY <1>2, FS_Subset, FS_CardinalityType
<1>4. Peak \in T
  <2>1. RowsBelow(Peak + 1) = R
    BY <1>2
  <2> HIDE DEF RowsBelow
  <2> QED BY <1>2, <2>1
<1>5. PICK k \in T : \A n \in T : k <= n
  <2>1. T \in SUBSET Nat /\ T # {}
    BY <1>4
  <2> HIDE DEF T
  <2> QED BY <2>1, NatSetMin
<1>6. k \in Nat /\ Cardinality(RowsBelow(k + 1)) >= i
  BY <1>5
<1>7. Cardinality(RowsBelow(k)) < i
  <2>1. CASE k = 0
    <3>1. RowsBelow(k) = {}
      BY <1>2, <2>1
    <3> HIDE DEF RowsBelow
    <3> QED BY <1>2, <3>1, FS_EmptySet
  <2>2. CASE k # 0
    <3>1. k - 1 \in Nat /\ (k - 1) + 1 = k /\ ~(k <= k - 1)
      BY <1>6, <2>2
    <3>2. k - 1 \notin T
      BY <1>5, <3>1
    <3> HIDE DEF RowsBelow
    <3>3. ~(Cardinality(RowsBelow((k - 1) + 1)) >= i)
      BY <3>1, <3>2
    <3>4. Cardinality(RowsBelow(k)) \in Nat
      BY <1>3, <1>6
    <3> QED BY <1>2, <3>1, <3>3, <3>4
  <2> QED BY <2>1, <2>2
<1>8. k \in R
  <2>1. ASSUME k \notin R PROVE RowsBelow(k + 1) = RowsBelow(k)
    BY <1>2, <1>6, <2>1
  <2>2. Cardinality(RowsBelow(k)) \in Nat
    BY <1>3, <1>6
  <2> HIDE DEF RowsBelow
  <2> QED BY <1>2, <1>6, <1>7, <2>1, <2>2
<1>9. RowsBelow(k + 1) = RowsBelow(k) \cup {k} /\ k \notin RowsBelow(k)
  <2>1. \A j \in R : j < k + 1 <=> j < k \/ j = k
    BY <1>2, <1>6
  <2>2. ~(k < k)
    BY <1>6
  <2> QED BY <1>8, <2>1, <2>2
<1>10. Cardinality(RowsBelow(k)) = i - 1
  <2>1. IsFiniteSet(RowsBelow(k)) /\ Cardinality(RowsBelow(k)) \in Nat
    BY <1>3, <1>6
  <2> HIDE DEF RowsBelow
  <2>2. Cardinality(RowsBelow(k + 1)) = Cardinality(RowsBelow(k)) + 1
    BY <1>9, <2>1, FS_AddElement
  <2> QED BY <1>2, <1>6, <1>7, <2>1, <2>2
<1>11. k \in Rows /\ Cardinality({j \in Rows : j < k}) = i - 1
  <2>1. {j \in Rows : j < k} = RowsBelow(k)
    BY <1>1
  <2> HIDE DEF RowsBelow
  <2> QED BY <1>1, <1>8, <1>10, <2>1
<1>12. PICK P : P = {q \in Rows : Cardinality({j \in Rows : j < q}) = i - 1}
  OBVIOUS
<1>13. k \in P /\ RowNumber(i) = CHOOSE q \in Rows : q \in P
  BY <1>11, <1>12 DEF RowNumber
<1> QED BY <1>12, <1>13

\* A chain that was reloaded: its blocks are rows, by ascending number.
LEMMA Reloading ==
  ASSUME BlockRowsInv
  PROVE  /\ ChainReloaded \in Seq(ChainBlocks) /\ Len(ChainReloaded) = Cardinality(Rows)
         /\ Len(ChainReloaded) > 0
         /\ \A n \in Nat : Rows = 0 .. n - 1 => NumberedUpTo(ChainReloaded, n) /\ Copied(ChainReloaded)
<1>0. PICK m : m = Cardinality(Rows)
  OBVIOUS
<1>1. m \in Nat /\ m > 0
  BY <1>0, RowsAreFinite, FS_EmptySet DEF BlockRowsInv
<1>2. ChainReloaded = [i \in 1 .. m |-> [name |-> stored[RowNumber(i)].name,
                                         prev |-> stored[RowNumber(i)].prev,
                                         idx |-> RowNumber(i)]]
  BY <1>0 DEF ChainReloaded, RowNumber
<1>3. \A i \in 1 .. m : RowNumber(i) \in Rows /\ Cardinality({j \in Rows : j < RowNumber(i)}) = i - 1
  BY <1>0, RowNumbered
<1>4. \A i \in 1 .. m : [name |-> stored[RowNumber(i)].name, prev |-> stored[RowNumber(i)].prev,
                         idx |-> RowNumber(i)] \in ChainBlocks
  BY <1>3, RowsAreFinite DEF BlockRowsInv, ChainBlocks
<1>5. PICK c : c = ChainReloaded
  OBVIOUS
<1>6. c \in Seq(ChainBlocks) /\ Len(c) = m
  BY <1>1, <1>2, <1>4, <1>5
<1>7. \A i \in 1 .. m : /\ c[i].name = stored[RowNumber(i)].name
                        /\ c[i].prev = stored[RowNumber(i)].prev /\ c[i].idx = RowNumber(i)
  BY <1>2, <1>5
<1>8. ASSUME NEW n \in Nat, Rows = 0 .. n - 1 PROVE NumberedUpTo(c, n) /\ Copied(c)
  <2>1. m = n
    BY <1>0, <1>8, FS_Interval
  <2>2. ASSUME NEW i \in 1 .. m PROVE RowNumber(i) = i - 1
    <3>1. PICK h : h = RowNumber(i)
      OBVIOUS
    <3>2. h \in 0 .. n - 1 /\ Cardinality({j \in Rows : j < h}) = i - 1
      BY <1>3, <1>8, <3>1
    <3>3. {j \in Rows : j < h} = 0 .. h - 1
      BY <1>8, <3>2
    <3>4. Cardinality(0 .. h - 1) = h
      BY <3>2, FS_Interval
    <3> QED BY <3>1, <3>2, <3>3, <3>4
  <2>3. NumberedUpTo(c, n)
    BY <1>6, <1>7, <2>1, <2>2 DEF NumberedUpTo
  <2>4. Copied(c)
    BY <1>6, <1>7, <2>2 DEF Copied
  <2> QED BY <2>3, <2>4
<1> QED BY <1>0, <1>1, <1>5, <1>6, <1>8

LEMMA ExplorerInitial == ExplorerInit => ExplorerInv
<1> SUFFICES ASSUME ExplorerInit PROVE ExplorerInv
  OBVIOUS
<1>1. Rows = {0}
  BY ExplorerAssumption DEF ExplorerInit, Rows, Genesis, NoRow
<1>2. /\ IsFiniteSet({}) /\ Cardinality({}) = 0 /\ Cardinality({0}) = 1
      /\ mined = {} /\ synced = {} /\ DOMAIN listed = {}
  <2>1. DOMAIN << >> = {}
    OBVIOUS
  <2>2. IsFiniteSet({}) /\ Cardinality({}) = 0 /\ Cardinality({0}) = 1
    BY FS_EmptySet, FS_Singleton
  <2>3. mined = {} /\ synced = {} /\ DOMAIN listed = {}
    BY <2>1 DEF ExplorerInit
  <2> QED BY <2>2, <2>3
<1>3. BlockRowsInv
  <2>1. stored \in [0 .. Peak -> [name : Int, prev : Int]]
    BY DEF ExplorerInit, Genesis, NoRow
  <2>2. stored[0].name = 0
    BY ExplorerAssumption DEF ExplorerInit, Genesis
  <2>3. \A h \in Rows : StoredAt(stored[h].name, h)
    BY <1>1, <1>2, <2>2 DEF StoredAt
  <2> QED BY <1>1, <1>2, <2>1, <2>3, ExplorerAssumption DEF BlockRowsInv
<1>4. PaymentRowsInv
  BY <1>1, <1>2 DEF PaymentRowsInv
<1>5. ObjectsInv
  <2>1. << >> \in Seq(ChainBlocks) /\ NotRunning.up = FALSE
    BY DEF NotRunning
  <2> QED BY <2>1 DEF ExplorerInit, ObjectsInv, NotRunning
<1>6. \A o \in Objects : object[o].chain = << >>
  BY DEF ExplorerInit, NotRunning
<1>7. NumberedInv
  <2>1. Rows = 0 .. 1 - 1 /\ 1 \in Nat
    BY <1>1
  <2>2. \A o \in Objects : NumberedUpTo(object[o].chain, 1)
    BY <1>6 DEF NumberedUpTo
  <2> QED BY <2>1, <2>2 DEF NumberedInv
<1>8. LinkedInv
  <2>1. \A o \in Objects : Copied(object[o].chain)
    BY <1>6 DEF Copied
  <2>2. \A h \in Rows : ~(h > 0)
    BY <1>1
  <2> QED BY <2>1, <2>2 DEF LinkedInv
<1>9. reading.of = "none" /\ given.of = "none"
  BY DEF ExplorerInit, NoAnswer
<1> QED BY <1>3, <1>4, <1>5, <1>7, <1>8, <1>9 DEF ExplorerInv, AnswersInv, BlocksAreShownWhole,
          CountsAgree, ReorgsDisconnectNothing

\* An answer begins or ends: what is stored and what the objects hold stays.
LEMMA AnswerStep ==
  ASSUME ExplorerInv, UNCHANGED <<store, object, trace>>, AnswersInv',
         (BlocksAreShownWhole /\ CountsAgree /\ ReorgsDisconnectNothing)'
  PROVE  ExplorerInv'
<1>1. UNCHANGED <<stored, listed, object, mined, synced, failed, overwrote>>
  BY DEF store, trace
<1>2. Rows' = Rows /\ \A n, h : StoredAt(n, h) => StoredAt(n, h)'
  BY <1>1 DEF Rows, StoredAt
<1>3. BlockRowsInv'
  BY <1>1, <1>2 DEF ExplorerInv, BlockRowsInv, Downloaded
<1>4. PaymentRowsInv'
  BY <1>1, <1>2 DEF ExplorerInv, PaymentRowsInv
<1>5. ObjectsInv' /\ NumberedInv'
  BY <1>1, <1>2 DEF ExplorerInv, ObjectsInv, NumberedInv, NumberedUpTo
<1>6. LinkedInv'
  BY <1>1, <1>2 DEF ExplorerInv, LinkedInv, Copied
<1> QED BY <1>3, <1>4, <1>5, <1>6 DEF ExplorerInv

LEMMA LastRow ==
  ASSUME BlockRowsInv PROVE Max(Rows) \in Rows
<1>1. PICK R : R = Rows
  OBVIOUS
<1>2. IsFiniteSet(R) /\ R \subseteq Int /\ R # {}
  BY <1>1, RowsAreFinite DEF BlockRowsInv
<1>3. PICK high \in R : \A x \in R : x <= high
  BY <1>2, IntSetBounds
<1>4. high \in Int /\ \A x \in R : x \in Int /\ high >= x
  BY <1>2, <1>3
<1>5. Max(R) \in R
  BY <1>4 DEF Max
<1> QED BY <1>1, <1>5

\* What the transactions listed at a height say of the block that was read there.
LEMMA ShownTransactions ==
  ASSUME ExplorerInv, NEW name, NEW h, StoredAt(name, h)
  PROVE  \/ ListedAt(h) = TxsOf(name)
         \/ \E c \in mined : /\ c.kept /\ c.name # name
                             /\ c.idx = h \/ c.txs \cap TxsOf(name) # {}
<1> SUFFICES ASSUME \A c \in mined : c.kept /\ c.name # name =>
                                         c.idx # h /\ c.txs \cap TxsOf(name) = {}
             PROVE  ListedAt(h) = TxsOf(name)
  OBVIOUS
<1>1. ASSUME NEW t \in ListedAt(h) PROVE t \in TxsOf(name)
  <2>1. PICK c \in mined : c.kept /\ t \in c.txs /\ c.idx = h
    BY DEF ListedAt, ExplorerInv, PaymentRowsInv
  <2>2. c.name = name
    BY <2>1
  <2> QED BY <2>1, <2>2 DEF TxsOf
<1>2. ASSUME NEW t \in TxsOf(name) PROVE t \in ListedAt(h)
  <2>1. PICK b \in mined : b.name = name /\ t \in b.txs
    BY DEF TxsOf
  <2>2. b.kept /\ b.idx = h
    BY <2>1 DEF StoredAt
  <2>3. t \in DOMAIN listed
        /\ (listed[t] = b.idx \/ \E c \in mined : c.kept /\ c.name # b.name /\ t \in c.txs)
    BY <2>1, <2>2 DEF ExplorerInv, PaymentRowsInv
  <2>4. ~ \E c \in mined : c.kept /\ c.name # b.name /\ t \in c.txs
    BY <2>1
  <2> QED BY <2>2, <2>3, <2>4 DEF ListedAt
<1> QED BY <1>1, <1>2

LEMMA ReadersStep ==
  ASSUME ExplorerInv,
         \/ \E h \in 0 .. Peak : ReadBlock(h)
         \/ ReadTransactions \/ CountBlocks \/ CountTransactions
         \/ \E name : ReadTip(name)
         \/ FindFork \/ Disconnect \/ ReorgRaises
  PROVE  ExplorerInv'
<1> DEFINE Given == (BlocksAreShownWhole /\ CountsAgree /\ ReorgsDisconnectNothing)'
<1>0. given' = NoAnswer => Given
  BY DEF NoAnswer, BlocksAreShownWhole, CountsAgree, ReorgsDisconnectNothing
<1>00. reading' = NoAnswer => AnswersInv'
  BY DEF NoAnswer, AnswersInv
<1>1. ASSUME NEW h \in 0 .. Peak, ReadBlock(h) PROVE ExplorerInv'
  <2>1. UNCHANGED <<store, object, trace>> /\ given' = NoAnswer
        /\ reading' = [of |-> "block", at |-> h, name |-> stored[h].name] /\ stored[h] # NoRow
    BY <1>1 DEF ReadBlock, Asking
  <2>2. StoredAt(stored[h].name, h)
    BY <2>1 DEF ExplorerInv, BlockRowsInv, Rows
  <2>3. \A n, k : StoredAt(n, k) => StoredAt(n, k)'
    BY <2>1 DEF StoredAt, trace
  <2>4. reading'.of = "block" /\ reading'.name = stored[h].name /\ reading'.at = h
    BY <2>1
  <2>5. AnswersInv'
    BY <2>2, <2>3, <2>4 DEF AnswersInv
  <2> QED BY <1>0, <2>1, <2>5, AnswerStep
<1>2. CASE ReadTransactions
  <2>1. UNCHANGED <<store, object, trace>> /\ reading' = NoAnswer /\ reading.of = "block"
        /\ given' = [of |-> "block", at |-> reading.at, name |-> reading.name,
                     txs |-> ListedAt(reading.at)]
    BY <1>2 DEF ReadTransactions, Answering
  <2>2. PICK n, h : n = reading.name /\ h = reading.at
    OBVIOUS
  <2>3. StoredAt(n, h)
    BY <2>1, <2>2 DEF ExplorerInv, AnswersInv
  <2>4. \/ ListedAt(h) = TxsOf(n)
        \/ \E c \in mined : /\ c.kept /\ c.name # n
                            /\ c.idx = h \/ c.txs \cap TxsOf(n) # {}
    BY <2>3, ShownTransactions
  <2>5. mined' = mined
    BY <2>1 DEF trace
  <2>6. given'.of = "block" /\ given'.at = h /\ given'.name = n /\ given'.txs = ListedAt(h)
    BY <2>1, <2>2
  <2>7. BlocksAreShownWhole'
    BY <2>4, <2>5, <2>6 DEF BlocksAreShownWhole, TxsOf
  <2>8. Given
    BY <2>6, <2>7 DEF BlocksAreShownWhole, CountsAgree, ReorgsDisconnectNothing
  <2> QED BY <1>00, <2>1, <2>8, AnswerStep
<1>3. CASE CountBlocks
  <2>1. UNCHANGED <<store, object, trace>> /\ given' = NoAnswer
        /\ reading' = [of |-> "stats", length |-> Cardinality(Rows)]
    BY <1>3 DEF CountBlocks, Asking
  <2>2. reading'.of = "stats" /\ reading'.length = Cardinality(Rows)
    BY <2>1
  <2>3. Cardinality(Rows) <= Cardinality(DOMAIN listed) + 1 + Cardinality(synced)
    BY DEF ExplorerInv, PaymentRowsInv
  <2>4. listed' = listed /\ synced' = synced
    BY <2>1 DEF store, trace
  <2>5. AnswersInv'
    BY <2>2, <2>3, <2>4, RowsAreFinite DEF AnswersInv
  <2> QED BY <1>0, <2>1, <2>5, AnswerStep
<1>4. CASE CountTransactions
  <2>1. UNCHANGED <<store, object, trace>> /\ reading' = NoAnswer /\ reading.of = "stats"
        /\ given' = [of |-> "stats", length |-> reading.length,
                     total |-> Cardinality(DOMAIN listed)]
    BY <1>4 DEF CountTransactions, Answering
  <2>2. given'.of = "stats" /\ given'.length = reading.length
        /\ given'.total = Cardinality(DOMAIN listed) /\ synced' = synced
    BY <2>1 DEF trace
  <2>3. reading.length <= Cardinality(DOMAIN listed) + 1 + Cardinality(synced)
    BY <2>1 DEF ExplorerInv, AnswersInv
  <2>4. Given
    BY <2>2, <2>3 DEF BlocksAreShownWhole, CountsAgree, ReorgsDisconnectNothing
  <2> QED BY <1>00, <2>1, <2>4, AnswerStep
<1>5. ASSUME NEW name, ReadTip(name) PROVE ExplorerInv'
  <2>1. UNCHANGED <<store, object, trace>> /\ given' = NoAnswer
        /\ reading' = [of |-> "reorg", tip |-> Max(Rows), to |-> name]
    BY <1>5 DEF ReadTip, Asking
  <2>2. Max(Rows) \in Rows /\ Rows' = Rows
    BY <2>1, LastRow DEF ExplorerInv, store, Rows
  <2>3. reading'.of = "reorg" /\ reading'.tip = Max(Rows)
    BY <2>1
  <2>4. AnswersInv'
    BY <2>2, <2>3 DEF AnswersInv
  <2> QED BY <1>0, <2>1, <2>4, AnswerStep
<1>6. CASE FindFork
  <2>1. UNCHANGED <<store, object, trace>> /\ given' = NoAnswer /\ reading.of = "reorg"
        /\ reading' = IF reading.tip - ForkPoint(reading.to) > MaxDepth THEN NoAnswer
                      ELSE [of |-> "reorg", tip |-> reading.tip, to |-> reading.to,
                            fork |-> ForkPoint(reading.to)]
    BY <1>6 DEF FindFork
  <2>2. reading' = NoAnswer \/ (reading'.of = "reorg" /\ reading'.tip = reading.tip)
    BY <2>1
  <2>3. reading.tip \in Rows /\ Rows' = Rows
    BY <2>1 DEF ExplorerInv, AnswersInv, store, Rows
  <2>4. AnswersInv'
    BY <1>00, <2>2, <2>3 DEF AnswersInv
  <2> QED BY <1>0, <2>1, <2>4, AnswerStep
<1>7. CASE Disconnect
  <2>1. UNCHANGED <<store, object, trace>> /\ reading' = NoAnswer /\ reading.of = "reorg"
        /\ given' = reading /\ \A h \in Rows : h <= reading.fork
    BY <1>7 DEF Disconnect, Answering
  <2>2. reading.tip <= reading.fork
    BY <2>1 DEF ExplorerInv, AnswersInv
  <2>3. given'.of = "reorg" /\ given'.fork >= given'.tip
    BY <2>1, <2>2
  <2>4. Given
    BY <2>3 DEF BlocksAreShownWhole, CountsAgree, ReorgsDisconnectNothing
  <2> QED BY <1>00, <2>1, <2>4, AnswerStep
<1>8. CASE ReorgRaises
  BY <1>0, <1>00, <1>8, AnswerStep DEF ReorgRaises, Answering
<1> QED BY <1>1, <1>2, <1>3, <1>4, <1>5, <1>6, <1>7, <1>8

LEMMA LoadStep ==
  ASSUME ExplorerInv, NEW o \in Objects, LoadObject(o) PROVE ExplorerInv'
<1>1. /\ UNCHANGED <<stored, listed, mined, synced, failed, overwrote>>
      /\ reading' = reading /\ given' = NoAnswer
      /\ object' = [object EXCEPT ![o] = [up |-> TRUE, chain |-> ChainReloaded,
                                         known |-> ListedAt(Max(Rows)) \cap Spends]]
  BY DEF LoadObject, Unread, store, trace
<1>2. Rows' = Rows /\ \A n, h : StoredAt(n, h) => StoredAt(n, h)'
  BY <1>1 DEF Rows, StoredAt
<1>3. BlockRowsInv' /\ PaymentRowsInv'
  <2>1. BlockRowsInv'
    BY <1>1, <1>2 DEF ExplorerInv, BlockRowsInv, Downloaded
  <2>2. PaymentRowsInv'
    BY <1>1, <1>2 DEF ExplorerInv, PaymentRowsInv
  <2> QED BY <2>1, <2>2
<1>4. PICK q : q = [up |-> TRUE, chain |-> ChainReloaded, known |-> ListedAt(Max(Rows)) \cap Spends]
  OBVIOUS
<1>5. /\ q \in [up : BOOLEAN, chain : Seq(ChainBlocks), known : SUBSET Spends]
      /\ Len(q.chain) > 0 /\ q.chain = ChainReloaded
  BY <1>4, Reloading DEF ExplorerInv
<1>6. object'[o] = q /\ \A p \in Objects \ {o} : object'[p] = object[p]
  BY <1>1, <1>4 DEF ExplorerInv, ObjectsInv
<1>7. ObjectsInv'
  BY <1>1, <1>4, <1>5 DEF ExplorerInv, ObjectsInv
<1>8. NumberedInv'
  <2>1. ASSUME NEW n \in Nat, Rows = 0 .. n - 1, \A p \in Objects : NumberedUpTo(object[p].chain, n)
        PROVE  \A p \in Objects : NumberedUpTo(object'[p].chain, n)
    BY <1>5, <1>6, <2>1, Reloading DEF ExplorerInv
  <2> QED BY <1>1, <1>2, <2>1 DEF ExplorerInv, NumberedInv, NumberedUpTo
<1>9. LinkedInv'
  <2>1. ASSUME ~failed PROVE Copied(ChainReloaded)
    <3>1. PICK n \in Nat : Rows = 0 .. n - 1
      BY <2>1 DEF ExplorerInv, NumberedInv
    <3> QED BY <3>1, Reloading DEF ExplorerInv
  <2>2. \A c : Copied(c) => Copied(c)'
    BY <1>1 DEF Copied
  <2>3. CASE failed \/ overwrote \/ synced # {}
    BY <1>1, <2>3 DEF LinkedInv
  <2>4. CASE ~(failed \/ overwrote \/ synced # {})
    <3>1. /\ \A h \in Rows : h > 0 => stored[h].prev = stored[h - 1].name
          /\ \A p \in Objects : Copied(object[p].chain)
      BY <2>4 DEF ExplorerInv, LinkedInv
    <3>2. ASSUME NEW p \in Objects PROVE Copied(object[p].chain)'
      <4>1. PICK c : c = object'[p].chain
        OBVIOUS
      <4>2. Copied(c)
        BY <1>5, <1>6, <2>1, <2>4, <3>1, <4>1
      <4>3. Copied(c)'
        BY <2>2, <4>2
      <4> QED BY <4>1, <4>3 DEF Copied
    <3> QED BY <1>1, <1>2, <3>1, <3>2 DEF LinkedInv
  <2> QED BY <2>3, <2>4
<1>10. AnswersInv'
  BY <1>1, <1>2 DEF ExplorerInv, AnswersInv
<1> QED BY <1>1, <1>3, <1>7, <1>8, <1>9, <1>10 DEF ExplorerInv, NoAnswer, BlocksAreShownWhole,
          CountsAgree, ReorgsDisconnectNothing

\* The bounds that Made keeps.
LEMMA MadeBelow ==
  ASSUME BlockRowsInv, Made < MaxMade
  PROVE  /\ Cardinality(mined) \in Nat /\ Cardinality(synced) \in Nat /\ MaxMade \in Nat
         /\ Cardinality(mined) + 1 + Cardinality(synced) <= MaxMade
         /\ Cardinality(mined) + 1 \in 1 .. MaxMade
<1>1. Cardinality(mined) \in Nat /\ Cardinality(synced) \in Nat /\ MaxMade \in Nat
  BY FS_CardinalityType, ExplorerAssumption DEF BlockRowsInv
<1> QED BY <1>1 DEF Made

\* A row is added: the rows together.
LEMMA MoreRows ==
  ASSUME BlockRowsInv, NEW h \in 0 .. Peak, NEW name \in Int, NEW prev \in Int, name # -1,
         stored' = [stored EXCEPT ![h] = [name |-> name, prev |-> prev]]
  PROVE  /\ stored' \in [0 .. Peak -> [name : Int, prev : Int]] /\ Rows' = Rows \cup {h}
         /\ stored'[h].name = name /\ stored'[h].prev = prev
         /\ \A k \in Rows \ {h} : stored'[k] = stored[k]
         /\ h \notin Rows => Cardinality(Rows') = Cardinality(Rows) + 1
         /\ Cardinality(Rows') <= Cardinality(Rows) + 1
<1>1. PICK row : row = [name |-> name, prev |-> prev]
  OBVIOUS
<1>2. row \in [name : Int, prev : Int] /\ row # NoRow /\ row.name = name /\ row.prev = prev
  BY <1>1 DEF NoRow
<1>3. /\ stored' \in [0 .. Peak -> [name : Int, prev : Int]] /\ stored'[h] = row
      /\ \A k \in 0 .. Peak \ {h} : stored'[k] = stored[k]
  BY <1>1, <1>2 DEF BlockRowsInv
<1>4. Rows' = Rows \cup {h}
  BY <1>2, <1>3 DEF Rows
<1>5. /\ h \notin Rows => Cardinality(Rows') = Cardinality(Rows) + 1
      /\ h \in Rows => Rows' = Rows
  BY <1>4, RowsAreFinite, FS_AddElement
<1>6. Cardinality(Rows') <= Cardinality(Rows) + 1
  BY <1>5, RowsAreFinite
<1> QED BY <1>2, <1>3, <1>4, <1>5, <1>6, RowsAreFinite

\* What a step that stores a block leaves of the answer in the making.
LEMMA StillReading ==
  ASSUME ExplorerInv, reading' = reading, given' = NoAnswer, Rows \subseteq Rows',
         \A n, h : StoredAt(n, h) => StoredAt(n, h)',
         Cardinality(DOMAIN listed) + Cardinality(synced)
            <= Cardinality(DOMAIN listed') + Cardinality(synced'),
         Cardinality(DOMAIN listed') \in Nat, Cardinality(synced') \in Nat
  PROVE  AnswersInv' /\ (BlocksAreShownWhole /\ CountsAgree /\ ReorgsDisconnectNothing)'
<1>1. (BlocksAreShownWhole /\ CountsAgree /\ ReorgsDisconnectNothing)'
  BY DEF NoAnswer, BlocksAreShownWhole, CountsAgree, ReorgsDisconnectNothing
<1>2. reading.of = "block" => StoredAt(reading.name, reading.at)'
  BY DEF ExplorerInv, AnswersInv
<1>3. reading.of = "reorg" => reading.tip \in Rows'
  BY DEF ExplorerInv, AnswersInv
<1>4. ASSUME reading.of = "stats"
      PROVE  reading.length <= Cardinality(DOMAIN listed') + 1 + Cardinality(synced')
  <2>1. PICK x, d, s, e, r : /\ x = reading.length /\ d = Cardinality(DOMAIN listed)
                             /\ s = Cardinality(synced) /\ e = Cardinality(DOMAIN listed')
                             /\ r = Cardinality(synced')
    OBVIOUS
  <2>2. x <= d + 1 + s /\ d \in Nat /\ s \in Nat /\ e \in Nat /\ r \in Nat /\ d + s <= e + r
    BY <1>4, <2>1, ListedAreFinite DEF ExplorerInv, AnswersInv
  <2>3. reading.length \in Int
    BY <1>4 DEF ExplorerInv, AnswersInv
  <2> QED BY <2>1, <2>2, <2>3
<1>5. reading.of = "stats" => reading.length \in Nat
  BY DEF ExplorerInv, AnswersInv
<1> QED BY <1>1, <1>2, <1>3, <1>4, <1>5 DEF AnswersInv

LEMMA SyncStep ==
  ASSUME ExplorerInv, NEW h \in 0 .. Peak, SyncBlock(h) PROVE ExplorerInv'
<1>1. /\ Made < MaxMade /\ stored[h] = NoRow /\ h >= Cardinality(Rows)
      /\ stored' = [stored EXCEPT ![h] = [name |-> Downloaded(h),
                                          prev |-> IF h = 1 THEN 0 ELSE Downloaded(h - 1)]]
      /\ synced' = synced \cup {Downloaded(h)}
      /\ failed' = (failed \/ h > Cardinality(Rows))
      /\ reading' = reading /\ given' = NoAnswer
      /\ UNCHANGED <<listed, object, mined, overwrote>>
  BY DEF SyncBlock, Unread
<1>2. /\ Cardinality(mined) \in Nat /\ Cardinality(synced) \in Nat /\ MaxMade \in Nat
      /\ Cardinality(mined) + 1 + Cardinality(synced) <= MaxMade
  BY <1>1, MadeBelow DEF ExplorerInv
<1>3. h \notin Rows /\ h > 0 /\ h \in Nat
  BY <1>1 DEF ExplorerInv, BlockRowsInv, Rows
<1>4. PICK name, prev : name = Downloaded(h) /\ prev = IF h = 1 THEN 0 ELSE Downloaded(h - 1)
  OBVIOUS
<1>5. name \in Nat /\ prev \in Int /\ name > MaxMade
  BY <1>2, <1>3, <1>4 DEF Downloaded
<1>6. /\ stored' \in [0 .. Peak -> [name : Int, prev : Int]] /\ Rows' = Rows \cup {h}
      /\ stored'[h].name = name /\ \A k \in Rows \ {h} : stored'[k] = stored[k]
      /\ Cardinality(Rows') = Cardinality(Rows) + 1
  <2>1. name \in Int /\ prev \in Int /\ name # -1
    BY <1>5
  <2> QED BY <1>1, <1>3, <1>4, <2>1, MoreRows DEF ExplorerInv
<1>7. Downloaded(h) \notin synced
  <2>1. ASSUME Downloaded(h) \in synced PROVE FALSE
    <3>1. PICK k \in Rows : Downloaded(h) = Downloaded(k)
      BY <2>1 DEF ExplorerInv, BlockRowsInv
    <3>2. k \in Int /\ h = k
      BY <1>2, <1>3, <3>1, RowsAreFinite DEF Downloaded
    <3> QED BY <1>3, <3>2
  <2> QED BY <2>1
<1>8. IsFiniteSet(synced') /\ Cardinality(synced') = Cardinality(synced) + 1
  BY <1>1, <1>7, FS_AddElement DEF ExplorerInv, BlockRowsInv
<1>9. \A n, k : StoredAt(n, k) => StoredAt(n, k)'
  BY <1>1 DEF StoredAt
<1>10. BlockRowsInv'
  <2>1. ASSUME NEW k \in Rows' PROVE StoredAt(stored[k].name, k)'
    <3>1. CASE k = h
      <4>1. \A b \in mined : b.name # name
        BY <1>2, <1>5 DEF ExplorerInv, BlockRowsInv
      <4> QED BY <1>1, <1>5, <1>6, <3>1, <4>1 DEF StoredAt
    <3>2. CASE k # h
      <4>1. k \in Rows /\ stored'[k] = stored[k]
        BY <1>6, <3>2
      <4>2. StoredAt(stored[k].name, k)
        BY <4>1 DEF ExplorerInv, BlockRowsInv
      <4> QED BY <1>9, <4>1, <4>2
    <3> QED BY <3>1, <3>2
  <2>2. \A x \in synced' : \E k \in Rows' : x = Downloaded(k)
    BY <1>1, <1>6 DEF ExplorerInv, BlockRowsInv
  <2>3. Cardinality(mined) + Cardinality(synced') <= MaxMade
    BY <1>2, <1>8
  <2>4. 0 \in Rows' /\ IsFiniteSet(mined) /\ \A b \in mined : b.name \in 1 .. Cardinality(mined)
    BY <1>6 DEF ExplorerInv, BlockRowsInv
  <2>5. mined' = mined
    BY <1>1
  <2> QED BY <1>6, <1>8, <2>1, <2>2, <2>3, <2>4, <2>5 DEF BlockRowsInv, Downloaded
<1>11. PaymentRowsInv'
  <2>1. Cardinality(Rows') <= Cardinality(DOMAIN listed) + 1 + Cardinality(synced')
    BY <1>2, <1>6, <1>8, RowsAreFinite, ListedAreFinite DEF ExplorerInv, PaymentRowsInv
  <2> QED BY <1>1, <2>1 DEF ExplorerInv, PaymentRowsInv
<1>12. ObjectsInv'
  BY <1>1 DEF ExplorerInv, ObjectsInv
<1>13. NumberedInv'
  <2>1. CASE failed \/ h > Cardinality(Rows)
    BY <1>1, <2>1 DEF NumberedInv
  <2>2. CASE ~failed /\ ~(h > Cardinality(Rows))
    <3>1. PICK n \in Nat : Rows = 0 .. n - 1 /\ \A o \in Objects : NumberedUpTo(object[o].chain, n)
      BY <2>2 DEF ExplorerInv, NumberedInv
    <3>2. Cardinality(Rows) = n
      BY <3>1, FS_Interval
    <3>3. h = n
      BY <1>1, <1>3, <2>2, <3>2
    <3>4. Rows' = 0 .. (n + 1) - 1
      BY <1>6, <3>1, <3>3
    <3>5. \A o \in Objects : NumberedUpTo(object'[o].chain, n + 1)
      <4>1. ASSUME NEW o \in Objects PROVE NumberedUpTo(object'[o].chain, n + 1)
        <5>1. Len(object[o].chain) <= n /\ Len(object[o].chain) \in Nat
          BY <3>1 DEF NumberedUpTo, ExplorerInv, ObjectsInv
        <5> QED BY <1>1, <3>1, <5>1 DEF NumberedUpTo
      <4> QED BY <4>1
    <3>6. PICK m : m = n + 1
      OBVIOUS
    <3>7. m \in Nat /\ Rows' = 0 .. m - 1 /\ \A o \in Objects : NumberedUpTo(object'[o].chain, m)
      BY <3>1, <3>4, <3>5, <3>6
    <3> QED BY <3>7 DEF NumberedInv, NumberedUpTo
  <2> QED BY <2>1, <2>2
<1>14. LinkedInv'
  BY <1>1 DEF LinkedInv
<1>15. AnswersInv' /\ (BlocksAreShownWhole /\ CountsAgree /\ ReorgsDisconnectNothing)'
  <2>1. Cardinality(DOMAIN listed) \in Nat
    BY ListedAreFinite DEF ExplorerInv
  <2>2. /\ Cardinality(DOMAIN listed') \in Nat /\ Cardinality(synced') \in Nat
        /\ Cardinality(DOMAIN listed) + Cardinality(synced)
             <= Cardinality(DOMAIN listed') + Cardinality(synced')
    BY <1>1, <1>2, <1>8, <2>1
  <2>3. Rows \subseteq Rows'
    BY <1>6
  <2> QED BY <1>1, <1>9, <2>2, <2>3, StillReading
<1> QED BY <1>10, <1>11, <1>12, <1>13, <1>14, <1>15 DEF ExplorerInv

ChainGrows(o, b) ==
    /\ Len(object'[o].chain) = Len(object[o].chain) + 1
    /\ object'[o].chain[Len(object[o].chain) + 1] = b
    /\ \A i \in 1 .. Len(object[o].chain) : object'[o].chain[i] = object[o].chain[i]
    /\ \A p \in Objects \ {o} : object'[p] = object[p]

\* An object's new block: whatever becomes of its INSERT.
LEMMA NewBlock ==
  ASSUME ExplorerInv, NEW o \in Objects, object[o].up, Len(object[o].chain) <= Peak,
         NEW S \in SUBSET Spends, NEW name \in Int, NEW prev \in Int, NEW b,
         b = [name |-> name, prev |-> prev, idx |-> Len(object[o].chain)],
         object' = [object EXCEPT ![o] = [up |-> TRUE, chain |-> Append(object[o].chain, b),
                                         known |-> object[o].known \cup S]]
  PROVE  ObjectsInv' /\ ChainGrows(o, b)
<1>1. PICK c, n : c = object[o].chain /\ n = Len(object[o].chain)
  OBVIOUS
<1>2. /\ c \in Seq(ChainBlocks) /\ object[o].known \in SUBSET Spends
      /\ n = Len(c) /\ n \in Nat /\ n > 0 /\ n <= Peak /\ Peak \in Nat
  BY <1>1, ExplorerAssumption DEF ExplorerInv, ObjectsInv
<1>3. b \in ChainBlocks
  BY <1>1, <1>2 DEF ChainBlocks
<1>4. PICK d : d = Append(c, b)
  OBVIOUS
<1>5. /\ d \in Seq(ChainBlocks) /\ Len(d) = n + 1 /\ d[n + 1] = b
      /\ \A i \in 1 .. n : d[i] = c[i]
  BY <1>2, <1>3, <1>4
<1>6. PICK q : q = [up |-> TRUE, chain |-> d, known |-> object[o].known \cup S]
  OBVIOUS
<1>7. /\ q \in [up : BOOLEAN, chain : Seq(ChainBlocks), known : SUBSET Spends]
      /\ q.chain = d /\ Len(q.chain) > 0
  BY <1>2, <1>5, <1>6
<1>8. object' = [object EXCEPT ![o] = q]
  BY <1>1, <1>4, <1>6
<1>9. object'[o] = q /\ \A p \in Objects \ {o} : object'[p] = object[p]
  BY <1>8 DEF ExplorerInv, ObjectsInv
<1>10. ObjectsInv'
  BY <1>7, <1>8 DEF ExplorerInv, ObjectsInv
<1>11. ChainGrows(o, b)
  BY <1>1, <1>5, <1>7, <1>9 DEF ChainGrows
<1> QED BY <1>10, <1>11

\* A block that was made counts, and has a name of its own.
LEMMA BlockMade ==
  ASSUME ExplorerInv, Made < MaxMade, NEW new, new.name = Cardinality(mined) + 1,
         mined' = mined \cup {new}
  PROVE  /\ IsFiniteSet(mined') /\ Cardinality(mined') = Cardinality(mined) + 1
         /\ \A b \in mined : b.name \in 1 .. Cardinality(mined) /\ b.name # new.name
         /\ \A b \in mined' : b.name \in 1 .. Cardinality(mined')
         /\ \A n, h : StoredAt(n, h) => StoredAt(n, h)'
<1>1. /\ Cardinality(mined) \in Nat /\ MaxMade \in Nat /\ Cardinality(mined) + 1 <= MaxMade
  BY MadeBelow DEF ExplorerInv
<1>2. \A b \in mined : b.name \in 1 .. Cardinality(mined) /\ b.name # new.name
  BY <1>1 DEF ExplorerInv, BlockRowsInv
<1>3. IsFiniteSet(mined') /\ Cardinality(mined') = Cardinality(mined) + 1
  BY <1>2, FS_AddElement DEF ExplorerInv, BlockRowsInv
<1>4. \A b \in mined' : b.name \in 1 .. Cardinality(mined')
  BY <1>1, <1>2, <1>3
<1>5. ASSUME NEW n, NEW h, StoredAt(n, h) PROVE StoredAt(n, h)'
  <2>1. n # new.name /\ (n \in 0 .. Cardinality(mined') \/ (n \in Int /\ n > MaxMade))
    BY <1>1, <1>3, <1>5 DEF StoredAt
  <2> QED BY <1>5, <2>1 DEF StoredAt
<1> QED BY <1>2, <1>3, <1>4, <1>5

\* The INSERT of a block fails: it is in the chain of its object only.
LEMMA BlockLost ==
  ASSUME ExplorerInv, Made < MaxMade, NEW new, new.name = Cardinality(mined) + 1, new.kept = FALSE,
         mined' = mined \cup {new}, ObjectsInv', failed' = TRUE,
         UNCHANGED <<stored, listed, overwrote, synced, reading>>, given' = NoAnswer
  PROVE  ExplorerInv'
<1>1. /\ IsFiniteSet(mined') /\ Cardinality(mined') = Cardinality(mined) + 1
      /\ \A b \in mined : b.name # new.name
      /\ \A b \in mined' : b.name \in 1 .. Cardinality(mined')
      /\ \A n, h : StoredAt(n, h) => StoredAt(n, h)'
  BY BlockMade
<1>2. /\ Cardinality(mined) \in Nat /\ Cardinality(synced) \in Nat /\ MaxMade \in Nat
      /\ Cardinality(mined) + 1 + Cardinality(synced) <= MaxMade
  BY MadeBelow DEF ExplorerInv
<1>3. Rows' = Rows
  BY DEF Rows
<1>4. BlockRowsInv'
  BY <1>1, <1>2, <1>3 DEF ExplorerInv, BlockRowsInv, Downloaded
<1>5. PaymentRowsInv'
  <2>1. DOMAIN listed' \subseteq Spends \cup 1 .. Cardinality(mined')
    BY <1>1, <1>2 DEF ExplorerInv, PaymentRowsInv
  <2>2. \A t \in DOMAIN listed' : \E c \in mined' : c.kept /\ t \in c.txs /\ c.idx = listed'[t]
    BY DEF ExplorerInv, PaymentRowsInv
  <2>3. \A b \in mined' : b.kept => \A t \in b.txs :
          /\ t \in DOMAIN listed'
          /\ listed'[t] = b.idx \/ \E c \in mined' : c.kept /\ c.name # b.name /\ t \in c.txs
    BY DEF ExplorerInv, PaymentRowsInv
  <2>4. Cardinality(Rows') <= Cardinality(DOMAIN listed') + 1 + Cardinality(synced')
    BY <1>3 DEF ExplorerInv, PaymentRowsInv
  <2> QED BY <2>1, <2>2, <2>3, <2>4 DEF PaymentRowsInv
<1>6. NumberedInv' /\ LinkedInv'
  BY DEF NumberedInv, LinkedInv
<1>7. AnswersInv' /\ (BlocksAreShownWhole /\ CountsAgree /\ ReorgsDisconnectNothing)'
  BY <1>1, <1>3, ListedAreFinite, StillReading DEF ExplorerInv
<1> QED BY <1>4, <1>5, <1>6, <1>7 DEF ExplorerInv

\* The rows of the transactions of a block that is stored.
LEMMA PaymentsListed ==
  ASSUME ExplorerInv, Made < MaxMade, NEW new, NEW S \in SUBSET Spends,
         new.name = Cardinality(mined) + 1, new.kept = TRUE, new.txs = S \cup {new.name},
         mined' = mined \cup {new}, listed' = TxRows(new), synced' = synced,
         Cardinality(Rows') <= Cardinality(Rows) + 1
  PROVE  /\ PaymentRowsInv' /\ Cardinality(DOMAIN listed') \in Nat
         /\ Cardinality(DOMAIN listed) <= Cardinality(DOMAIN listed')
<1>1. /\ IsFiniteSet(mined') /\ Cardinality(mined') = Cardinality(mined) + 1
      /\ \A b \in mined : b.name # new.name
  BY BlockMade
<1>2. /\ Cardinality(mined) \in Nat /\ Cardinality(synced) \in Nat /\ new.name \in 1 .. MaxMade
      /\ new.name \in 1 .. Cardinality(mined')
  BY <1>1, MadeBelow DEF ExplorerInv
<1>3. /\ DOMAIN listed' = new.txs \cup DOMAIN listed
      /\ \A t \in new.txs : listed'[t] = new.idx
      /\ \A t \in DOMAIN listed \ new.txs : listed'[t] = listed[t]
  BY DEF TxRows
<1>4. DOMAIN listed' \subseteq Spends \cup 1 .. Cardinality(mined')
  BY <1>1, <1>2, <1>3 DEF ExplorerInv, PaymentRowsInv
<1>5. IsFiniteSet(DOMAIN listed')
  <2>1. IsFiniteSet(1 .. Cardinality(mined'))
    BY <1>1, <1>2, FS_Interval
  <2>2. IsFiniteSet(Spends \cup 1 .. Cardinality(mined'))
    BY <2>1, FS_Union, ExplorerAssumption
  <2>3. PICK D, P : D = DOMAIN listed' /\ P = Spends \cup 1 .. Cardinality(mined')
    OBVIOUS
  <2>4. IsFiniteSet(P) /\ D \subseteq P
    BY <1>4, <2>2, <2>3
  <2> QED BY <2>3, <2>4, FS_Subset
<1>6. new.name \notin DOMAIN listed
  <2>1. new.name \notin Spends
    BY <1>2, ExplorerAssumption
  <2> QED BY <1>2, <2>1 DEF ExplorerInv, PaymentRowsInv
<1>7. /\ Cardinality(DOMAIN listed') \in Nat
      /\ Cardinality(DOMAIN listed) + 1 <= Cardinality(DOMAIN listed')
  <2>1. PICK D : D = DOMAIN listed
    OBVIOUS
  <2>2. IsFiniteSet(D) /\ Cardinality(D) \in Nat
    BY <2>1, ListedAreFinite DEF ExplorerInv
  <2>3. Cardinality(D \cup {new.name}) = Cardinality(D) + 1
    BY <1>6, <2>1, <2>2, FS_AddElement
  <2>4. D \cup {new.name} \subseteq DOMAIN listed'
    BY <1>3, <2>1
  <2>5. Cardinality(D \cup {new.name}) <= Cardinality(DOMAIN listed')
    BY <1>5, <2>4, FS_Subset
  <2> QED BY <1>5, <2>1, <2>2, <2>3, <2>5, FS_CardinalityType
<1>8. Cardinality(Rows') <= Cardinality(DOMAIN listed') + 1 + Cardinality(synced')
  <2>1. Cardinality(Rows) <= Cardinality(DOMAIN listed) + 1 + Cardinality(synced)
    BY DEF ExplorerInv, PaymentRowsInv
  <2>2. Cardinality(Rows') \in Nat /\ Cardinality(Rows) \in Nat /\ Cardinality(DOMAIN listed) \in Nat
    <3>1. IsFiniteSet(Rows')
      <4>1. IsFiniteSet(0 .. Peak) /\ Rows' \subseteq 0 .. Peak
        BY FS_Interval, ExplorerAssumption DEF Rows
      <4> QED BY <4>1, FS_Subset
    <3> QED BY <3>1, RowsAreFinite, ListedAreFinite, FS_CardinalityType DEF ExplorerInv
  <2> QED BY <1>2, <1>7, <2>1, <2>2
<1>9. ASSUME NEW t \in DOMAIN listed'
      PROVE  \E c \in mined' : c.kept /\ t \in c.txs /\ c.idx = listed'[t]
  <2>1. CASE t \in new.txs
    BY <1>3, <2>1
  <2>2. CASE t \notin new.txs
    BY <1>3, <2>2 DEF ExplorerInv, PaymentRowsInv
  <2> QED BY <2>1, <2>2
<1>10. ASSUME NEW b \in mined', b.kept, NEW t \in b.txs
       PROVE  /\ t \in DOMAIN listed'
              /\ listed'[t] = b.idx \/ \E c \in mined' : c.kept /\ c.name # b.name /\ t \in c.txs
  <2>1. CASE b = new
    BY <1>3, <2>1
  <2>2. CASE b # new /\ t \in new.txs
    <3>1. b \in mined
      BY <2>2
    <3>2. b.name # new.name
      BY <1>1, <3>1
    <3> QED BY <1>3, <2>2, <3>2
  <2>3. CASE b # new /\ t \notin new.txs
    <3>1. b \in mined
      BY <2>3
    <3>2. /\ t \in DOMAIN listed
          /\ listed[t] = b.idx \/ \E c \in mined : c.kept /\ c.name # b.name /\ t \in c.txs
      BY <1>10, <3>1 DEF ExplorerInv, PaymentRowsInv
    <3> QED BY <1>3, <2>3, <3>2
  <2> QED BY <2>1, <2>2, <2>3
<1>11. PaymentRowsInv'
  BY <1>4, <1>8, <1>9, <1>10 DEF PaymentRowsInv
<1>12. Cardinality(DOMAIN listed) <= Cardinality(DOMAIN listed')
  BY <1>7, ListedAreFinite DEF ExplorerInv
<1> QED BY <1>7, <1>11, <1>12

\* The INSERT of a block succeeds.
LEMMA BlockKept ==
  ASSUME ExplorerInv, NEW o \in Objects, object[o].up, Len(object[o].chain) <= Peak,
         Made < MaxMade, NEW S \in SUBSET Spends, NEW b, NEW new,
         b = [name |-> Cardinality(mined) + 1,
              prev |-> object[o].chain[Len(object[o].chain)].name,
              idx |-> Len(object[o].chain)],
         new = [name |-> Cardinality(mined) + 1, idx |-> b.idx,
                txs |-> S \cup {Cardinality(mined) + 1}, kept |-> TRUE],
         object' = [object EXCEPT ![o] = [up |-> TRUE, chain |-> Append(object[o].chain, b),
                                         known |-> object[o].known \cup S]],
         mined' = mined \cup {new},
         stored' = [stored EXCEPT ![b.idx] = [name |-> b.name, prev |-> b.prev]],
         listed' = TxRows(new), UNCHANGED <<failed, synced, reading>>, given' = NoAnswer,
         overwrote' = (overwrote \/ stored[b.idx] # NoRow)
  PROVE  ExplorerInv'
<1>1. PICK name, prev, k : /\ name = Cardinality(mined) + 1 /\ k = Len(object[o].chain)
                           /\ prev = object[o].chain[Len(object[o].chain)].name
  OBVIOUS
<1>2. /\ Cardinality(mined) \in Nat /\ Cardinality(synced) \in Nat /\ MaxMade \in Nat
      /\ Cardinality(mined) + 1 + Cardinality(synced) <= MaxMade /\ name \in 1 .. MaxMade
  BY <1>1, MadeBelow DEF ExplorerInv
<1>3. prev \in Int /\ k \in 1 .. Peak
  <2>1. object[o].chain \in Seq(ChainBlocks) /\ Len(object[o].chain) > 0 /\ Peak \in Nat
    BY ExplorerAssumption DEF ExplorerInv, ObjectsInv
  <2>2. Len(object[o].chain) \in 1 .. Len(object[o].chain) /\ k \in 1 .. Peak
    BY <1>1, <2>1
  <2>3. object[o].chain[Len(object[o].chain)] \in ChainBlocks
    BY <2>1, <2>2
  <2> QED BY <1>1, <2>2, <2>3 DEF ChainBlocks
<1>4. /\ b = [name |-> name, prev |-> prev, idx |-> k]
      /\ b.name = name /\ b.prev = prev /\ b.idx = k
      /\ new.name = name /\ new.idx = k /\ new.txs = S \cup {name} /\ new.kept = TRUE
  BY <1>1
<1>5. /\ ObjectsInv' /\ Len(object'[o].chain) = k + 1 /\ object'[o].chain[k + 1] = b
      /\ \A i \in 1 .. k : object'[o].chain[i] = object[o].chain[i]
      /\ \A p \in Objects \ {o} : object'[p] = object[p]
  <2>0. name \in Int /\ prev \in Int
    BY <1>2, <1>3
  <2>1. /\ Len(object[o].chain) <= Peak /\ object[o].up
        /\ b = [name |-> name, prev |-> prev, idx |-> Len(object[o].chain)]
        /\ object' = [object EXCEPT ![o] = [up |-> TRUE, chain |-> Append(object[o].chain, b),
                                           known |-> object[o].known \cup S]]
    BY <1>1, <1>2
  <2>2. ObjectsInv' /\ ChainGrows(o, b)
    BY ONLY ExplorerInv, o \in Objects, S \in SUBSET Spends, <2>0, <2>1, NewBlock
  <2> QED BY <1>1, <2>2 DEF ChainGrows
<1>6. /\ stored' \in [0 .. Peak -> [name : Int, prev : Int]] /\ Rows' = Rows \cup {k}
      /\ stored'[k].name = name /\ stored'[k].prev = prev
      /\ \A h \in Rows \ {k} : stored'[h] = stored[h]
      /\ Cardinality(Rows') <= Cardinality(Rows) + 1
  <2>1. name \in Int /\ name # -1 /\ k \in 0 .. Peak
    BY <1>2, <1>3
  <2>2. stored' = [stored EXCEPT ![k] = [name |-> name, prev |-> prev]]
    BY <1>4
  <2>3. BlockRowsInv
    BY DEF ExplorerInv
  <2> QED BY ONLY <1>3, <2>1, <2>2, <2>3, MoreRows
<1>7. /\ IsFiniteSet(mined') /\ Cardinality(mined') = Cardinality(mined) + 1
      /\ \A c \in mined : c.name # name
      /\ \A c \in mined' : c.name \in 1 .. Cardinality(mined')
      /\ \A n, h : StoredAt(n, h) => StoredAt(n, h)'
  <2>1. new.name = Cardinality(mined) + 1 /\ mined' = mined \cup {new}
    BY <1>1, <1>4
  <2>2. /\ IsFiniteSet(mined') /\ Cardinality(mined') = Cardinality(mined) + 1
        /\ \A c \in mined : c.name \in 1 .. Cardinality(mined) /\ c.name # new.name
        /\ \A c \in mined' : c.name \in 1 .. Cardinality(mined')
        /\ \A n, h : StoredAt(n, h) => StoredAt(n, h)'
    BY ONLY ExplorerInv, Made < MaxMade, <2>1, BlockMade
  <2> QED BY <1>4, <2>2
<1>8. BlockRowsInv'
  <2>1. ASSUME NEW h \in Rows' PROVE StoredAt(stored[h].name, h)'
    <3>1. CASE h = k
      <4>1. name \in 0 .. Cardinality(mined')
        BY <1>1, <1>2, <1>7
      <4>2. \A c \in mined' : c.name = name => c.kept /\ c.idx = k
        BY <1>4, <1>7
      <4> QED BY <1>6, <3>1, <4>1, <4>2 DEF StoredAt
    <3>2. CASE h # k
      <4>1. h \in Rows /\ stored'[h] = stored[h]
        BY <1>6, <3>2
      <4>2. StoredAt(stored[h].name, h)
        BY <4>1 DEF ExplorerInv, BlockRowsInv
      <4> QED BY <1>7, <4>1, <4>2
    <3> QED BY <3>1, <3>2
  <2>2. /\ IsFiniteSet(synced') /\ \A x \in synced' : \E h \in Rows' : x = Downloaded(h)
        /\ 0 \in Rows'
    BY <1>6 DEF ExplorerInv, BlockRowsInv
  <2>3. Cardinality(mined') + Cardinality(synced') <= MaxMade
    BY <1>2, <1>7
  <2> QED BY <1>6, <1>7, <2>1, <2>2, <2>3 DEF BlockRowsInv, Downloaded
<1>9. /\ PaymentRowsInv' /\ Cardinality(DOMAIN listed') \in Nat
      /\ Cardinality(DOMAIN listed) <= Cardinality(DOMAIN listed')
  BY <1>1, <1>4, <1>6, PaymentsListed
<1>10. NumberedInv'
  <2>1. CASE failed
    BY <2>1 DEF NumberedInv
  <2>2. CASE ~failed
    <3>1. PICK n \in Nat : Rows = 0 .. n - 1 /\ \A p \in Objects : NumberedUpTo(object[p].chain, n)
      BY <2>2 DEF ExplorerInv, NumberedInv
    <3>2. k <= n /\ \A i \in 1 .. k : object[o].chain[i].idx = i - 1
      BY <1>1, <3>1 DEF NumberedUpTo
    <3>3. PICK m : m = IF k = n THEN n + 1 ELSE n
      OBVIOUS
    <3>4. m \in Nat /\ n <= m /\ k + 1 <= m
      BY <1>3, <3>2, <3>3
    <3>5. Rows' = 0 .. m - 1
      <4>1. CASE k = n
        BY <1>6, <3>1, <3>3, <4>1
      <4>2. CASE k # n
        <5>1. k \in 0 .. n - 1 /\ m = n
          BY <1>3, <3>2, <3>3, <4>2
        <5> QED BY <1>6, <3>1, <5>1
      <4> QED BY <4>1, <4>2
    <3>6. ASSUME NEW p \in Objects PROVE NumberedUpTo(object'[p].chain, m)
      <4>1. CASE p = o
        <5>1. ASSUME NEW i \in 1 .. k + 1 PROVE object'[o].chain[i].idx = i - 1
          <6>1. CASE i = k + 1
            BY <1>3, <1>4, <1>5, <6>1
          <6>2. CASE i # k + 1
            <7>1. i \in 1 .. k
              BY <1>3, <6>2
            <7> QED BY <1>5, <3>2, <7>1
          <6> QED BY <6>1, <6>2
        <5> QED BY <1>5, <3>4, <4>1, <5>1 DEF NumberedUpTo
      <4>2. CASE p # o
        <5>1. Len(object[p].chain) \in Nat
          BY DEF ExplorerInv, ObjectsInv
        <5> QED BY <1>5, <3>1, <3>4, <4>2, <5>1 DEF NumberedUpTo
      <4> QED BY <4>1, <4>2
    <3> QED BY <3>4, <3>5, <3>6 DEF NumberedInv, NumberedUpTo
  <2> QED BY <2>1, <2>2
<1>11. LinkedInv'
  <2>1. CASE failed \/ overwrote \/ synced # {} \/ k \in Rows
    BY <1>4, <2>1 DEF LinkedInv, Rows
  <2>2. CASE ~(failed \/ overwrote \/ synced # {} \/ k \in Rows)
    <3>1. PICK n \in Nat : Rows = 0 .. n - 1 /\ \A p \in Objects : NumberedUpTo(object[p].chain, n)
      BY <2>2 DEF ExplorerInv, NumberedInv
    <3>2. k = n
      BY <1>1, <1>3, <2>2, <3>1 DEF NumberedUpTo
    <3>3. /\ \A h \in Rows : h > 0 => stored[h].prev = stored[h - 1].name
          /\ \A p \in Objects : Copied(object[p].chain)
      BY <2>2 DEF ExplorerInv, LinkedInv
    <3>4. \A h \in 0 .. n - 1 : stored'[h] = stored[h]
      BY <1>6, <2>2, <3>1
    <3>5. prev = stored[k - 1].name
      <4>1. k \in 1 .. Len(object[o].chain) /\ prev = object[o].chain[k].name
        BY <1>1, <1>3
      <4> QED BY <3>3, <4>1 DEF Copied
    <3>6. ASSUME NEW h \in Rows', h > 0 PROVE stored'[h].prev = stored'[h - 1].name
      <4>1. CASE h = k
        <5>1. k - 1 \in 0 .. n - 1
          BY <1>3, <3>2
        <5> QED BY <1>6, <3>4, <3>5, <4>1, <5>1
      <4>2. CASE h # k
        <5>1. h \in Rows /\ h \in 0 .. n - 1 /\ h - 1 \in 0 .. n - 1
          BY <1>6, <3>1, <3>6, <4>2
        <5> QED BY <3>3, <3>4, <3>6, <5>1
      <4> QED BY <4>1, <4>2
    <3>7. ASSUME NEW p \in Objects, NEW i \in 1 .. Len(object'[p].chain)
          PROVE  /\ object'[p].chain[i].name = stored'[i - 1].name
                 /\ object'[p].chain[i].prev = stored'[i - 1].prev
      <4>1. CASE p = o /\ i = k + 1
        <5>1. i - 1 = k
          BY <1>3, <4>1
        <5>2. object'[p].chain[i] = b
          BY <1>5, <4>1
        <5>3. stored'[i - 1].name = name /\ stored'[i - 1].prev = prev
          BY <1>6, <5>1
        <5> QED BY <1>4, <5>2, <5>3
      <4>2. CASE ~(p = o /\ i = k + 1)
        <5>1. /\ i \in 1 .. Len(object[p].chain) /\ object'[p].chain[i] = object[p].chain[i]
          <6>1. CASE p = o
            <7>1. i \in 1 .. k
              BY <1>3, <1>5, <4>2, <6>1
            <7> QED BY <1>1, <1>5, <6>1, <7>1
          <6>2. CASE p # o
            BY <1>5, <6>2
          <6> QED BY <6>1, <6>2
        <5>2. i - 1 \in 0 .. n - 1
          <6>1. Len(object[p].chain) \in Nat /\ Len(object[p].chain) <= n
            BY <3>1 DEF NumberedUpTo, ExplorerInv, ObjectsInv
          <6> QED BY <5>1, <6>1
        <5>3. /\ object[p].chain[i].name = stored[i - 1].name
              /\ object[p].chain[i].prev = stored[i - 1].prev
          BY <3>3, <5>1 DEF Copied
        <5> QED BY <3>4, <5>1, <5>2, <5>3
      <4> QED BY <4>1, <4>2
    <3> QED BY <3>6, <3>7 DEF LinkedInv, Copied
  <2> QED BY <2>1, <2>2
<1>12. AnswersInv' /\ (BlocksAreShownWhole /\ CountsAgree /\ ReorgsDisconnectNothing)'
  <2>1. /\ Cardinality(DOMAIN listed) + Cardinality(synced)
              <= Cardinality(DOMAIN listed') + Cardinality(synced')
        /\ Cardinality(synced') \in Nat
    BY <1>2, <1>9, ListedAreFinite DEF ExplorerInv
  <2>2. Rows \subseteq Rows'
    BY <1>6
  <2> QED BY <1>7, <1>9, <2>1, <2>2, StillReading
<1> QED BY <1>5, <1>8, <1>9, <1>10, <1>11, <1>12 DEF ExplorerInv

LEMMA StoreStep ==
  ASSUME ExplorerInv, NEW o \in Objects, StoreBlock(o) PROVE ExplorerInv'
<1>1. PICK chain, name, known : chain = object[o].chain /\ name = Cardinality(mined) + 1
                                /\ known = object[o].known
  OBVIOUS
<1>2. PICK S, kept, b, new :
         /\ S \in SUBSET (Spends \ known) /\ kept \in BOOLEAN
         /\ b = [name |-> name, prev |-> chain[Len(chain)].name, idx |-> Len(chain)]
         /\ new = [name |-> name, idx |-> b.idx, txs |-> S \cup {name}, kept |-> kept]
         /\ object' = [object EXCEPT ![o] = [up |-> TRUE, chain |-> Append(chain, b),
                                             known |-> known \cup S]]
         /\ mined' = mined \cup {new}
         /\ IF kept
            THEN /\ stored' = [stored EXCEPT ![b.idx] = [name |-> b.name, prev |-> b.prev]]
                 /\ listed' = TxRows(new) /\ UNCHANGED failed
                 /\ overwrote' = (overwrote \/ stored[b.idx] # NoRow)
            ELSE failed' = TRUE /\ UNCHANGED <<stored, listed, overwrote>>
  <2> DEFINE B == [name |-> Cardinality(mined) + 1,
                   prev |-> object[o].chain[Len(object[o].chain)].name,
                   idx |-> Len(object[o].chain)]
             N(S, kept) == [name |-> Cardinality(mined) + 1, idx |-> B.idx,
                            txs |-> S \cup {Cardinality(mined) + 1}, kept |-> kept]
  <2>1. PICK S \in SUBSET (Spends \ object[o].known), kept \in BOOLEAN :
           /\ object' = [object EXCEPT ![o] = [up |-> TRUE, chain |-> Append(object[o].chain, B),
                                               known |-> object[o].known \cup S]]
           /\ mined' = mined \cup {N(S, kept)}
           /\ IF kept
              THEN /\ stored' = [stored EXCEPT ![B.idx] = [name |-> B.name, prev |-> B.prev]]
                   /\ listed' = TxRows(N(S, kept)) /\ UNCHANGED failed
                   /\ overwrote' = (overwrote \/ stored[B.idx] # NoRow)
              ELSE failed' = TRUE /\ UNCHANGED <<stored, listed, overwrote>>
    BY Zenon DEF StoreBlock
  <2>2. PICK b, new : b = B /\ new = N(S, kept)
    OBVIOUS
  <2> HIDE DEF B, N
  <2>3. /\ b = [name |-> name, prev |-> chain[Len(chain)].name, idx |-> Len(chain)]
        /\ new = [name |-> name, idx |-> b.idx, txs |-> S \cup {name}, kept |-> kept]
    BY <1>1, <2>2 DEF B, N
  <2> QED BY <1>1, <2>1, <2>2, <2>3
<1>3. /\ object[o].up /\ Len(chain) <= Peak /\ Made < MaxMade
      /\ reading' = reading /\ given' = NoAnswer /\ synced' = synced
  BY <1>1 DEF StoreBlock, Unread
<1>4. CASE kept
  <2>1. /\ b = [name |-> Cardinality(mined) + 1,
                 prev |-> object[o].chain[Len(object[o].chain)].name,
                 idx |-> Len(object[o].chain)]
        /\ new = [name |-> Cardinality(mined) + 1, idx |-> b.idx,
                   txs |-> S \cup {Cardinality(mined) + 1}, kept |-> TRUE]
        /\ object' = [object EXCEPT ![o] = [up |-> TRUE, chain |-> Append(object[o].chain, b),
                                           known |-> object[o].known \cup S]]
        /\ S \in SUBSET Spends
    BY <1>1, <1>2, <1>4
  <2>2. /\ mined' = mined \cup {new}
        /\ stored' = [stored EXCEPT ![b.idx] = [name |-> b.name, prev |-> b.prev]]
        /\ listed' = TxRows(new) /\ failed' = failed
        /\ overwrote' = (overwrote \/ stored[b.idx] # NoRow)
    BY <1>2, <1>4
  <2>3. object[o].up /\ Len(object[o].chain) <= Peak
    BY <1>1, <1>3
  <2> QED BY ONLY ExplorerInv, o \in Objects, <1>3, <2>1, <2>2, <2>3, BlockKept
<1>5. CASE ~kept
  <2>1. ObjectsInv'
    <3>1. PICK prev : prev = chain[Len(chain)].name
      OBVIOUS
    <3>2. name \in Int /\ prev \in Int
      <4>1. chain \in Seq(ChainBlocks) /\ Len(chain) \in 1 .. Len(chain)
        BY <1>1, <1>3 DEF ExplorerInv, ObjectsInv
      <4>2. chain[Len(chain)] \in ChainBlocks
        BY <4>1
      <4> QED BY <1>1, <1>3, <3>1, <4>2, MadeBelow DEF ExplorerInv, ChainBlocks
    <3>3. /\ b = [name |-> name, prev |-> prev, idx |-> Len(object[o].chain)]
          /\ object' = [object EXCEPT ![o] = [up |-> TRUE, chain |-> Append(object[o].chain, b),
                                             known |-> object[o].known \cup S]]
          /\ S \in SUBSET Spends /\ object[o].up /\ Len(object[o].chain) <= Peak
      BY <1>1, <1>2, <1>3, <3>1
    <3> QED BY ONLY ExplorerInv, o \in Objects, <3>2, <3>3, NewBlock
  <2>2. /\ new.name = Cardinality(mined) + 1 /\ new.kept = FALSE /\ mined' = mined \cup {new}
        /\ failed' = TRUE /\ UNCHANGED <<stored, listed, overwrote, synced, reading>>
    BY <1>1, <1>2, <1>3, <1>5
  <2> QED BY ONLY ExplorerInv, <1>3, <2>1, <2>2, BlockLost
<1> QED BY <1>4, <1>5

LEMMA ExplorerStep == ExplorerInv /\ [ExplorerNext]_evars => ExplorerInv'
<1> SUFFICES ASSUME ExplorerInv, [ExplorerNext]_evars PROVE ExplorerInv'
  OBVIOUS
<1>1. CASE UNCHANGED evars
  <2>1. UNCHANGED <<store, object, trace>> /\ reading' = reading /\ given' = given
    BY <1>1 DEF evars
  <2>2. UNCHANGED <<stored, listed, mined, synced>>
    BY <2>1 DEF store, trace
  <2>3. AnswersInv'
    BY <2>1, <2>2 DEF ExplorerInv, AnswersInv, StoredAt, Rows
  <2>4. (BlocksAreShownWhole /\ CountsAgree /\ ReorgsDisconnectNothing)'
    BY <2>1, <2>2 DEF ExplorerInv, BlocksAreShownWhole, CountsAgree, ReorgsDisconnectNothing, TxsOf
  <2> QED BY <2>1, <2>3, <2>4, AnswerStep
<1>2. CASE ExplorerNext
  BY <1>2, LoadStep, StoreStep, SyncStep, ReadersStep DEF ExplorerNext
<1> QED BY <1>1, <1>2

LEMMA ExplorerImplies == ExplorerInv => ReportsAreAccounted
<1> SUFFICES ASSUME ExplorerInv PROVE ReportsAreAccounted
  OBVIOUS
<1>1. ASSUME NEW o \in Objects
      PROVE  /\ IsValid(object[o].chain) \/ overwrote \/ failed \/ synced # {}
             /\ HasForks(object[o].chain) => failed
  <2>1. PICK c : c = object[o].chain
    OBVIOUS
  <2>2. c \in Seq(ChainBlocks) /\ Len(c) \in Nat /\ DOMAIN c = 1 .. Len(c)
    BY <2>1 DEF ExplorerInv, ObjectsInv
  <2>3. ASSUME ~failed
        PROVE  \E n \in Nat : Rows = 0 .. n - 1 /\ NumberedUpTo(c, n)
    BY <2>1, <2>3 DEF ExplorerInv, NumberedInv
  <2>4. HasForks(c) => failed
    BY <2>2, <2>3 DEF HasForks, NumberedUpTo
  <2>5. ASSUME ~(overwrote \/ failed \/ synced # {}), NEW i \in 2 .. Len(c)
        PROVE  c[i].prev = c[i - 1].name
    <3>1. PICK n \in Nat : Rows = 0 .. n - 1 /\ NumberedUpTo(c, n)
      BY <2>3, <2>5
    <3>2. Copied(c) /\ \A h \in Rows : h > 0 => stored[h].prev = stored[h - 1].name
      BY <2>1, <2>5 DEF ExplorerInv, LinkedInv
    <3>3. /\ i \in 1 .. Len(c) /\ i - 1 \in 1 .. Len(c) /\ i - 1 \in 0 .. n - 1 /\ i - 1 > 0
          /\ Len(c) <= n
      BY <2>2, <3>1 DEF NumberedUpTo
    <3>4. c[i].prev = stored[i - 1].prev /\ c[i - 1].name = stored[(i - 1) - 1].name
      BY <3>2, <3>3 DEF Copied
    <3>5. stored[i - 1].prev = stored[(i - 1) - 1].name
      BY <3>1, <3>2, <3>3
    <3> QED BY <3>4, <3>5
  <2>6. IsValid(c) \/ overwrote \/ failed \/ synced # {}
    BY <2>5 DEF IsValid
  <2> QED BY <2>1, <2>4, <2>6
<1> QED BY <1>1 DEF ExplorerInv, ReportsAreAccounted, ChainsAreLinked

(* Whatever objects mine, die and reload, whatever INSERTs fail and whatever *)
(* is downloaded between two SELECTs of an answer: a block that is shown     *)
(* with transactions not its own, an answer of /stats that is behind, a      *)
(* chain that is not linked and a reorganisation that is said to be done     *)
(* each have their cause in another writer, a lost block or a peer's.        *)
THEOREM ReportsHaveCauses == ExplorerSpec => []ReportsAreAccounted
<1>1. ExplorerSpec => []ExplorerInv
  BY ExplorerInitial, ExplorerStep, PTL DEF ExplorerSpec
<1> QED BY <1>1, ExplorerImplies, PTL

\* The programs are as long as they are, and a skip stays inside of them.
LEMMA ProgramLengths ==
  ASSUME NEW p \in Programs
  PROVE  Len(Program(p)) \in Nat /\ Len(Program(p)) > 0
<1>1. p = "node" \/ p = "api" \/ p \in Chains
  BY DEF Programs
<1>2. CASE p = "node"
  BY <1>2, NodeProgram
<1>3. CASE p = "api"
  <2>1. Program("api") = ImportApi
    BY DEF Program
  <2> QED BY <1>3, <2>1, ApiProgram
<1>4. CASE p \in Chains
  BY <1>4, ChainProgram
<1> QED BY <1>1, <1>2, <1>3, <1>4

LEMMA SkipsStayInside ==
  ASSUME NEW p \in Programs, NEW k \in 1 .. Len(Program(p)), NEW s, s = Program(p)[k],
         s.do = "count"
  PROVE  s.skip \in Nat /\ k + s.skip <= Len(Program(p))
<1>1. p = "node" \/ p = "api" \/ p \in Chains
  BY DEF Programs
<1>2. \A x : Creates(x) => x.do # "count"
  BY DEF Creates
<1>3. CASE p = "node"
  <2>1. k \in 1 .. 12 /\ Len(Program(p)) = 12
    BY <1>3, NodeProgram
  <2>2. CASE k = 8
    <3>1. s = Count(1)
      BY <1>3, <2>2, NodeProgram
    <3> QED BY <2>1, <2>2, <3>1 DEF Count
  <2>3. CASE k \in 1 .. 3
    <3>1. k = 1 \/ k = 2 \/ k = 3
      BY <2>3
    <3> QED BY <1>2, <1>3, <2>3, <3>1, NodeProgram, NodeCreates
  <2>4. CASE k = 4
    BY <1>2, <1>3, <2>4, NodeProgram, NodeCreates
  <2>5. CASE k = 5 \/ k = 6
    BY <1>3, <2>5, NodeProgram DEF Indices, Need
  <2>6. CASE k = 7
    BY <1>3, <2>6, NodeProgram DEF InitAllocationWallets, Need
  <2>7. CASE k = 9
    BY <1>3, <2>7, NodeProgram DEF Insert
  <2>8. CASE k \in 10 .. 12
    <3>1. PICK j \in 1 .. 3 : k = 9 + j
      <4>1. k - 9 \in 1 .. 3 /\ k = 9 + (k - 9)
        BY <2>8
      <4> QED BY <4>1
    <3>2. s = ImportApi[j]
      BY <1>3, <3>1, NodeProgram
    <3> QED BY <1>2, <3>2, ApiCreates
  <2>9. k = 8 \/ k \in 1 .. 3 \/ k = 4 \/ k = 5 \/ k = 6 \/ k = 7 \/ k = 9 \/ k \in 10 .. 12
    BY <2>1
  <2> QED BY <2>2, <2>3, <2>4, <2>5, <2>6, <2>7, <2>8, <2>9
<1>4. CASE p = "api"
  <2>1. Program(p) = ImportApi
    BY <1>4 DEF Program
  <2>2. k \in 1 .. 3
    BY <2>1, ApiProgram
  <2> QED BY <1>2, <2>1, <2>2, ApiCreates
<1>5. CASE p \in Chains
  <2>1. k \in 1 .. 5 /\ Len(Program(p)) = 5
    BY <1>5, ChainProgram
  <2>2. CASE k = 2
    <3>1. s = Count(3)
      BY <1>5, <2>2, ChainProgram
    <3> QED BY <2>1, <2>2, <3>1 DEF Count
  <2>3. CASE k = 1 \/ k = 3 \/ k = 4
    BY <1>2, <1>5, <2>3, ChainProgram, ChainCreates
  <2>4. CASE k = 5
    BY <1>5, <2>4, ChainProgram DEF Insert
  <2> QED BY <2>1, <2>2, <2>3, <2>4
<1> QED BY <1>1, <1>3, <1>4, <1>5

\* A program that falls back, or one that is at another statement.
SchemaTypes == SchemaTypeOK /\ at \in [Programs -> Nat]

LEMMA SchemaTypesStep == SchemaTypes /\ [SchemaNext]_svars => SchemaTypes'
<1> SUFFICES ASSUME SchemaTypes, [SchemaNext]_svars PROVE SchemaTypes'
  OBVIOUS
<1>0. /\ DOMAIN tables = Tables /\ genesis \in {"none"} \cup Programs
      /\ status \in [Programs -> {"down", "starting", "up"}]
      /\ at \in [Programs -> Nat] /\ \A p \in Programs : at[p] \in 1 .. Len(Program(p)) + 1
      /\ memory \in [Chains -> {"none"} \cup Programs]
      /\ began \subseteq Chains /\ overlap \in BOOLEAN
  BY DEF SchemaTypes, SchemaTypeOK
<1>1. ASSUME NEW p \in Programs, at' = [at EXCEPT ![p] = 1]
      PROVE  at' \in [Programs -> Nat] /\ \A q \in Programs : at'[q] \in 1 .. Len(Program(q)) + 1
  <2>1. \A q \in Programs : at'[q] = IF q = p THEN 1 ELSE at[q]
    BY <1>0, <1>1
  <2>2. 1 \in 1 .. Len(Program(p)) + 1
    BY ProgramLengths
  <2> QED BY <1>0, <1>1, <2>1, <2>2
<1>2. \A p \in Programs : Forgotten(p) \in [Chains -> {"none"} \cup Programs]
  BY <1>0 DEF Forgotten
<1>3. ASSUME NEW p \in Programs, Start(p) PROVE SchemaTypes'
  BY <1>0, <1>3 DEF Start, SchemaTypes, SchemaTypeOK
<1>4. ASSUME NEW p \in Programs, Finish(p) PROVE SchemaTypes'
  <2>1. /\ status' = [status EXCEPT ![p] = "up"] /\ at' = [at EXCEPT ![p] = 1]
        /\ began' = began \ {p} /\ UNCHANGED <<tables, genesis, memory, overlap>>
    BY <1>4 DEF Finish
  <2>2. at' \in [Programs -> Nat] /\ \A q \in Programs : at'[q] \in 1 .. Len(Program(q)) + 1
    BY <1>1, <2>1
  <2>3. status' \in [Programs -> {"down", "starting", "up"}] /\ began' \subseteq Chains
    BY <1>0, <2>1
  <2> QED BY <1>0, <2>1, <2>2, <2>3 DEF SchemaTypes, SchemaTypeOK
<1>5. ASSUME NEW p \in Programs, at' = [at EXCEPT ![p] = 1], memory' = Forgotten(p),
             status' = [status EXCEPT ![p] = "down"], began' = began \ {p},
             UNCHANGED <<tables, genesis, overlap>>
      PROVE  SchemaTypes'
  <2>1. at' \in [Programs -> Nat] /\ \A q \in Programs : at'[q] \in 1 .. Len(Program(q)) + 1
    BY <1>1, <1>5
  <2>2. status' \in [Programs -> {"down", "starting", "up"}] /\ began' \subseteq Chains
    BY <1>0, <1>5
  <2>3. memory' \in [Chains -> {"none"} \cup Programs]
    BY <1>2, <1>5
  <2> QED BY <1>0, <1>5, <2>1, <2>2, <2>3 DEF SchemaTypes, SchemaTypeOK
<1>6. ASSUME NEW p \in Programs, Crash(p) PROVE SchemaTypes'
  BY <1>5, <1>6 DEF Crash
<1>7. ASSUME NEW p \in Programs, Execute(p) PROVE SchemaTypes'
  <2>1. PICK s : s = Program(p)[at[p]]
    OBVIOUS
  <2>2. CASE Fails(p, s)
    <3>1. /\ at' = [at EXCEPT ![p] = 1] /\ memory' = Forgotten(p) /\ began' = began \ {p}
          /\ status' = [status EXCEPT ![p] = "down"] /\ UNCHANGED <<tables, genesis, overlap>>
      BY <1>7, <2>1, <2>2 DEF Execute
    <3> QED BY <1>5, <3>1
  <2>3. CASE ~Fails(p, s)
    <3> DEFINE skip == s.do = "count" /\ genesis # "none"
               next == at[p] + 1 + (IF skip THEN s.skip ELSE 0)
    <3>1. /\ at[p] <= Len(Program(p)) /\ at' = [at EXCEPT ![p] = next]
          /\ tables' = IF s.do # "create" THEN tables
                       ELSE [t \in Tables |-> IF tables[t] = {} /\ t \in DOMAIN s.tables
                                              THEN s.tables[t] ELSE tables[t]]
          /\ genesis' = IF s.do \in {"insert", "replace"} THEN p ELSE genesis
          /\ memory' = [c \in Chains |-> IF c = p /\ skip THEN genesis
                                         ELSE IF c = p /\ s.do = "replace" THEN p
                                         ELSE memory[c]]
          /\ overlap' = (overlap \/ (s.do = "replace" /\ p \in began /\ genesis # "none"))
          /\ UNCHANGED <<status, began>>
      BY <1>7, <2>1, <2>3 DEF Execute
    <3>2. next \in Nat /\ next \in 1 .. Len(Program(p)) + 1
      <4>1. PICK k \in 1 .. Len(Program(p)) : k = at[p]
        BY <1>0, <3>1, ProgramLengths
      <4>2. PICK n \in Nat : n = Len(Program(p))
        BY ProgramLengths
      <4>3. CASE skip
        <5>1. s.skip \in Nat /\ k + s.skip <= n
          BY <2>1, <4>1, <4>2, <4>3, SkipsStayInside
        <5>2. PICK j \in Nat : j = s.skip /\ k + j <= n
          BY <5>1
        <5>3. next = k + 1 + j
          BY <4>1, <4>3, <5>2
        <5> HIDE DEF next
        <5> QED BY <4>1, <4>2, <5>2, <5>3
      <4>4. CASE ~skip
        <5>1. next = k + 1 + 0
          BY <4>1, <4>4
        <5> HIDE DEF next
        <5> QED BY <4>1, <4>2, <5>1
      <4> QED BY <4>3, <4>4
    <3> HIDE DEF next
    <3>3. at' \in [Programs -> Nat] /\ \A q \in Programs : at'[q] \in 1 .. Len(Program(q)) + 1
      <4>1. \A q \in Programs : at'[q] = IF q = p THEN next ELSE at[q]
        BY <1>0, <3>1
      <4> QED BY <1>0, <3>1, <3>2, <4>1
    <3>4. DOMAIN tables' = Tables
      BY <1>0, <3>1
    <3>5. memory' \in [Chains -> {"none"} \cup Programs] /\ genesis' \in {"none"} \cup Programs
      BY <1>0, <3>1
    <3>6. overlap' \in BOOLEAN
      BY <1>0, <3>1
    <3> QED BY <1>0, <3>1, <3>3, <3>4, <3>5, <3>6 DEF SchemaTypes, SchemaTypeOK
  <2> QED BY <2>2, <2>3
<1>8. CASE UNCHANGED svars
  BY <1>0, <1>8 DEF svars, SchemaTypes, SchemaTypeOK
<1> QED BY <1>3, <1>4, <1>6, <1>7, <1>8 DEF SchemaNext

LEMMA SchemaTypesHold == SchemaSpec => []SchemaTypeOK
<1>1. ASSUME SchemaInit PROVE SchemaTypes
  <2>1. \A p \in Programs : 1 \in 1 .. Len(Program(p)) + 1
    BY ProgramLengths
  <2> QED BY <1>1, <2>1 DEF SchemaInit, SchemaTypes, SchemaTypeOK
<1>2. SchemaTypes => SchemaTypeOK
  BY DEF SchemaTypes
<1> QED BY <1>1, <1>2, SchemaTypesStep, PTL DEF SchemaSpec

\* An answer is of one of the kinds there are.
KindsOK ==
    /\ reading.of \in {"none", "block", "stats", "reorg"}
    /\ given.of \in {"none", "block", "stats", "reorg"}
    /\ failed \in BOOLEAN /\ overwrote \in BOOLEAN

LEMMA KindsStep == KindsOK /\ [ExplorerNext]_evars => KindsOK'
<1> SUFFICES ASSUME KindsOK, [ExplorerNext]_evars PROVE KindsOK'
  OBVIOUS
<1>0. NoAnswer.of = "none"
  BY DEF NoAnswer
<1>1. ASSUME NEW o \in Objects, LoadObject(o) PROVE KindsOK'
  BY <1>0, <1>1 DEF LoadObject, Unread, trace, KindsOK
<1>2. ASSUME NEW o \in Objects, StoreBlock(o) PROVE KindsOK'
  BY <1>0, <1>2 DEF StoreBlock, Unread, KindsOK
<1>3. ASSUME NEW h \in 0 .. Peak, SyncBlock(h) PROVE KindsOK'
  BY <1>0, <1>3 DEF SyncBlock, Unread, KindsOK
<1>4. ASSUME NEW h \in 0 .. Peak, ReadBlock(h) PROVE KindsOK'
  BY <1>0, <1>4 DEF ReadBlock, Asking, trace, KindsOK
<1>5. CASE ReadTransactions
  BY <1>0, <1>5 DEF ReadTransactions, Answering, trace, KindsOK
<1>6. CASE CountBlocks
  BY <1>0, <1>6 DEF CountBlocks, Asking, trace, KindsOK
<1>7. CASE CountTransactions
  BY <1>0, <1>7 DEF CountTransactions, Answering, trace, KindsOK
<1>8. ASSUME NEW name, ReadTip(name) PROVE KindsOK'
  BY <1>0, <1>8 DEF ReadTip, Asking, trace, KindsOK
<1>9. CASE FindFork
  BY <1>0, <1>9 DEF FindFork, trace, KindsOK
<1>10. CASE Disconnect
  BY <1>0, <1>10 DEF Disconnect, Answering, trace, KindsOK
<1>11. CASE ReorgRaises
  BY <1>0, <1>11 DEF ReorgRaises, Answering, trace, KindsOK
<1>12. CASE UNCHANGED evars
  BY <1>12 DEF evars, trace, KindsOK
<1> QED
  BY <1>1, <1>2, <1>3, <1>4, <1>5, <1>6, <1>7, <1>8, <1>9, <1>10, <1>11, <1>12 DEF ExplorerNext

LEMMA ExplorerTypesHold == ExplorerSpec => []ExplorerTypeOK
<1>1. ASSUME ExplorerInv, KindsOK PROVE ExplorerTypeOK
  <2>1. stored \in [0 .. Peak -> [name : Int, prev : Int]]
    BY <1>1 DEF ExplorerInv, BlockRowsInv
  <2>2. DOMAIN listed \subseteq Spends \cup (1 .. MaxMade)
    <3>1. PICK m, n : m = Cardinality(mined) /\ n = Cardinality(synced)
      OBVIOUS
    <3>2. m \in Nat /\ n \in Nat /\ m + n <= MaxMade /\ MaxMade \in Nat
      BY <1>1, <3>1, FS_CardinalityType, ExplorerAssumption DEF ExplorerInv, BlockRowsInv
    <3>3. 1 .. m \subseteq 1 .. MaxMade
      BY <3>2
    <3> QED BY <1>1, <3>1, <3>3 DEF ExplorerInv, PaymentRowsInv
  <2>3. ASSUME NEW o \in Objects
        PROVE  /\ object[o].up \in BOOLEAN
               /\ object[o].chain \in Seq([name : Int, prev : Int, idx : 0 .. Peak])
               /\ object[o].known \subseteq Spends
    <3>1. object[o] \in [up : BOOLEAN, chain : Seq(ChainBlocks), known : SUBSET Spends]
      BY <1>1 DEF ExplorerInv, ObjectsInv
    <3> QED BY <3>1 DEF ChainBlocks
  <2> QED BY <1>1, <2>1, <2>2, <2>3 DEF ExplorerTypeOK, KindsOK
<1>2. ASSUME ExplorerInit PROVE KindsOK
  <2>1. NoAnswer.of = "none"
    BY DEF NoAnswer
  <2> QED BY <1>2, <2>1 DEF ExplorerInit, KindsOK
<1> QED BY <1>1, <1>2, KindsStep, ExplorerInitial, ExplorerStep, PTL DEF ExplorerSpec
=============================================================================
