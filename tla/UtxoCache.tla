------------------------------ MODULE UtxoCache ------------------------------
(***************************************************************************)
(* The three-tier cache of src/core/utxo_cache.py: a least-recently-used   *)
(* map in each process, one SQLite table for all of them, and the disk     *)
(* tier, which reads a table no module creates and therefore raises.  A    *)
(* lock makes the calls of one process one after the other; another        *)
(* process may run between the two steps of a call, and a statement on     *)
(* the table may raise.                                                    *)
(***************************************************************************)
EXTENDS Integers, Sequences, Selection

CONSTANTS Procs, Outpoints,
          Versions,     \* the contents an output is cached with
          MaxMemory     \* max_memory_cache, 10000 in the code

ASSUMPTION CacheAssumption == MaxMemory \in Nat \ {0}

Absent == "absent"

VARIABLES
    mem,       \* per process: the map, oldest first, as [out, content]
    sqlite,    \* the utxo_cache_sqlite table
    step,      \* per process: the second half of the call it is in
    foreign,   \* history: <<p, o>> whose row another process has written or
               \* removed since p last read or wrote it
    unwritten  \* history: <<p, o>> for which a statement of p raised

cvars == <<mem, sqlite, step, foreign, unwritten>>

Entries == [out : Outpoints, content : Versions]
AtRest == [op |-> "idle", out |-> Absent, content |-> Absent]

CacheTypeOK ==
    /\ mem \in [Procs -> Seq(Entries)]
    /\ \A p \in Procs : Len(mem[p]) <= MaxMemory
    /\ sqlite \in [Outpoints -> Versions \cup {Absent}]
    /\ step \in [Procs -> [op : {"idle", "write", "erase", "promote"},
                           out : Outpoints \cup {Absent},
                           content : Versions \cup {Absent}]]
    /\ foreign \subseteq Procs \X Outpoints /\ unwritten \subseteq Procs \X Outpoints

CacheInit ==
    /\ mem = [p \in Procs |-> <<>>] /\ sqlite = [o \in Outpoints |-> Absent]
    /\ step = [p \in Procs |-> AtRest] /\ foreign = {} /\ unwritten = {}

-----------------------------------------------------------------------------
Others(o) == {e \in Entries : e.out # o}
Without(p, o) == Selected(mem[p], Others(o))
Cached(p, o) == \E k \in 1 .. Len(mem[p]) : mem[p][k].out = o
Content(p, o) == (CHOOSE k \in 1 .. Len(mem[p]) : mem[p][k].out = o)

\* _add_to_memory: a full map drops its oldest entry first, also when the
\* entry added is there already; the entry added becomes the newest.
Remembered(p, o, v) ==
    LET kept == IF Len(mem[p]) >= MaxMemory THEN Tail(mem[p]) ELSE mem[p]
    IN Append(Selected(kept, Others(o)), [out |-> o, content |-> v])

Enter2(p, op, o, v) == step' = [step EXCEPT ![p] = [op |-> op, out |-> o, content |-> v]]
Leave(p) == step' = [step EXCEPT ![p] = AtRest]
Free(p) == step[p].op = "idle"

\* set, under the lock: the memory, then the row.
SetOutput(p, o, v) ==
    /\ Free(p)
    /\ mem' = [mem EXCEPT ![p] = Remembered(p, o, v)] /\ Enter2(p, "write", o, v)
    /\ UNCHANGED <<sqlite, foreign, unwritten>>

\* Mutant: the entry of the memory stays when the row is removed.
InvalidateKeeping(p, o) ==
    /\ Free(p) /\ Enter2(p, "erase", o, Absent)
    /\ UNCHANGED <<mem, sqlite, foreign, unwritten>>

\* invalidate, under the lock: the memory, then the row.
Invalidate(p, o) ==
    /\ Free(p)
    /\ mem' = [mem EXCEPT ![p] = Without(p, o)] /\ Enter2(p, "erase", o, Absent)
    /\ UNCHANGED <<sqlite, foreign, unwritten>>

\* The row is replaced or removed and committed: for every other process it
\* has changed behind its memory.
CommitRow(p) ==
    /\ step[p].op \in {"write", "erase"}
    /\ sqlite' = [sqlite EXCEPT ![step[p].out] = step[p].content]
    /\ foreign' = (foreign \cup (Procs \X {step[p].out})) \ {<<p, step[p].out>>}
    /\ unwritten' = unwritten \ {<<p, step[p].out>>}
    /\ Leave(p) /\ UNCHANGED mem

\* The statement raises: the memory keeps its change.
RowRaises(p) ==
    /\ step[p].op \in {"write", "erase"}
    /\ unwritten' = unwritten \cup {<<p, step[p].out>>}
    /\ Leave(p) /\ UNCHANGED <<mem, sqlite, foreign>>

\* get, first tier: a hit makes the entry the newest.
Hit(p, o) ==
    /\ Free(p) /\ Cached(p, o)
    /\ mem' = [mem EXCEPT ![p] = Append(Without(p, o), mem[p][Content(p, o)])]
    /\ UNCHANGED <<sqlite, step, foreign, unwritten>>

\* get, second tier: the row is read and then promoted.  Without a row the
\* disk tier raises and nothing has changed.
ReadCacheRow(p, o) ==
    /\ Free(p) /\ ~Cached(p, o) /\ sqlite[o] # Absent
    /\ Enter2(p, "promote", o, sqlite[o])
    /\ foreign' = foreign \ {<<p, o>>} /\ unwritten' = unwritten \ {<<p, o>>}
    /\ UNCHANGED <<mem, sqlite>>

Promote(p) ==
    /\ step[p].op = "promote"
    /\ mem' = [mem EXCEPT ![p] = Remembered(p, step[p].out, step[p].content)]
    /\ Leave(p) /\ UNCHANGED <<sqlite, foreign, unwritten>>

\* A process dies and starts with an empty map.
Restart(p) ==
    /\ mem' = [mem EXCEPT ![p] = <<>>] /\ Leave(p)
    /\ UNCHANGED <<sqlite, foreign, unwritten>>

CacheNext ==
    \E p \in Procs :
        \/ \E o \in Outpoints : \/ \E v \in Versions : SetOutput(p, o, v)
                                \/ Invalidate(p, o) \/ Hit(p, o) \/ ReadCacheRow(p, o)
        \/ CommitRow(p) \/ RowRaises(p) \/ Promote(p) \/ Restart(p)

CacheSpec == CacheInit /\ [][CacheNext]_cvars

-----------------------------------------------------------------------------
\* The memory of a process answers with something else than the table only
\* for an output another process has changed since, for one whose statement
\* raised, or while its own set of that output is between its two steps.
StaleNeedsAnother ==
    \A p \in Procs : \A k \in 1 .. Len(mem[p]) :
        LET e == mem[p][k]
        IN \/ e.content = sqlite[e.out]
           \/ <<p, e.out>> \in foreign \cup unwritten
           \/ step[p].op = "write" /\ step[p].out = e.out
=============================================================================
