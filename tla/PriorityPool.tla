----------------------------- MODULE PriorityPool -----------------------------
(***************************************************************************)
(* The mempool of src/core/mempool.py: a heap and a map in memory, and a   *)
(* table of the same entries, written after the memory has changed.  Every *)
(* statement on the table may raise (the database is locked) and the       *)
(* process may die before it; a new process loads the table.               *)
(***************************************************************************)
EXTENDS Integers, FiniteSets

CONSTANTS Txs,        \* transactions that may be offered
          Rate,       \* fee per byte of a transaction
          MaxSize     \* MAX_SIZE, 10000 in the code

ASSUMPTION PoolAssumption == Rate \in [Txs -> Nat] /\ MaxSize \in Nat \ {0}

VARIABLES
    queue,     \* entries of the heap; the keys of the map are the same
    table,     \* rows of the mempool table
    work,      \* the statement owed, at most one: {} between calls
    unsaved,   \* history: the INSERT of this transaction raised
    undeleted  \* history: the DELETE of this transaction did not happen

plvars == <<queue, table, work, unsaved, undeleted>>

PoolTypeOK ==
    /\ queue \subseteq Txs /\ table \subseteq Txs
    /\ work \subseteq [op : {"insert", "trim", "delete"}, tx : Txs] /\ Cardinality(work) <= 1
    /\ unsaved \subseteq Txs /\ undeleted \subseteq Txs

PoolInit == queue = {} /\ table = {} /\ work = {} /\ unsaved = {} /\ undeleted = {}

-----------------------------------------------------------------------------
Lowest == {t \in queue : \A u \in queue : Rate[t] <= Rate[u]}
Highest == {t \in queue : \A u \in queue : Rate[t] >= Rate[u]}

\* add_transaction: the entry is in the heap and the map before its row is.
Offer(t) ==
    /\ work = {} /\ t \notin queue
    /\ queue' = queue \cup {t} /\ work' = {[op |-> "insert", tx |-> t]}
    /\ UNCHANGED <<table, unsaved, undeleted>>

\* Mutant: the heap is read from the other end.
TrimHighest(rows) ==
    /\ table' = rows
    /\ \/ Cardinality(queue) <= MaxSize /\ work' = {} /\ UNCHANGED queue
       \/ /\ Cardinality(queue) > MaxSize
          /\ \E t \in Highest : queue' = queue \ {t} /\ work' = {[op |-> "trim", tx |-> t]}

\* The queue after one more entry of the loop of add_transaction is popped;
\* the call is over when the queue fits.
Trim(rows) ==
    /\ table' = rows
    /\ \/ Cardinality(queue) <= MaxSize /\ work' = {} /\ UNCHANGED queue
       \/ /\ Cardinality(queue) > MaxSize
          /\ \E t \in Lowest : queue' = queue \ {t} /\ work' = {[op |-> "trim", tx |-> t]}

Owed(ops) == {w.tx : w \in {x \in work : x.op \in ops}}

\* INSERT OR REPLACE, commit, and on to the loop.
InsertRow ==
    \E t \in Owed({"insert"}) :
        /\ Trim(table \cup {t})
        /\ unsaved' = unsaved \ {t} /\ undeleted' = undeleted \ {t}

\* Mutant: the pop leaves the row.
DeleteRowOfRemoved ==
    \E t \in Owed({"trim", "delete"}) :
        /\ IF t \in Owed({"trim"}) THEN Trim(table)
           ELSE table' = table \ {t} /\ work' = {} /\ UNCHANGED queue
        /\ undeleted' = undeleted \ {t} /\ unsaved' = unsaved \ {t}

\* DELETE, commit: back to the loop after a pop, or out of remove_transaction.
DeleteRow ==
    \E t \in Owed({"trim", "delete"}) :
        /\ IF t \in Owed({"trim"}) THEN Trim(table \ {t})
           ELSE table' = table \ {t} /\ work' = {} /\ UNCHANGED queue
        /\ undeleted' = undeleted \ {t} /\ unsaved' = unsaved \ {t}

\* The statement raises out of the call: the memory keeps its change, and the
\* rest of the loop is not run.
StatementRaises ==
    /\ work # {} /\ work' = {}
    /\ undeleted' = undeleted \cup Owed({"trim", "delete"})
    /\ unsaved' = (unsaved \cup Owed({"insert"})) \ Owed({"trim", "delete"})
    /\ UNCHANGED <<queue, table>>

\* remove_transaction of a key of the map: heap and map first, then the row.
RemoveEntry(t) ==
    /\ work = {} /\ t \in queue
    /\ queue' = queue \ {t} /\ work' = {[op |-> "delete", tx |-> t]}
    /\ UNCHANGED <<table, unsaved, undeleted>>

\* clear empties the memory and then the table, or raises in between.
Clear ==
    /\ work = {} /\ queue' = {} /\ unsaved' = {}
    /\ \/ table' = {} /\ undeleted' = {}
       \/ UNCHANGED table /\ undeleted' = undeleted \cup (table \cap queue)
    /\ UNCHANGED work

\* Mutant: the loader stops at MAX_SIZE rows.
RestartPoolTrimmed ==
    /\ \E kept \in SUBSET table : Cardinality(kept) <= MaxSize /\ queue' = kept
    /\ work' = {} /\ unsaved' = {} /\ undeleted' = {}
    /\ UNCHANGED table

\* The process dies, and the next one loads every row, however many.
RestartPool ==
    /\ queue' = table /\ work' = {} /\ unsaved' = {} /\ undeleted' = {}
    /\ UNCHANGED table

PoolNext ==
    \/ \E t \in Txs : Offer(t) \/ RemoveEntry(t)
    \/ InsertRow \/ DeleteRow \/ StatementRaises \/ Clear \/ RestartPool

PoolSpec == PoolInit /\ [][PoolNext]_plvars

-----------------------------------------------------------------------------
\* What a restart forgets and what it brings back: an entry without a row is
\* one whose INSERT raised or is owed, and a row without an entry is one whose
\* DELETE raised or is owed.
RestartKeepsThePool ==
    /\ queue \ table \subseteq unsaved \cup Owed({"insert"})
    /\ table \ queue \subseteq undeleted \cup Owed({"trim", "delete"})

\* An eviction takes an entry that pays no more per byte than any entry left,
\* and only a queue above its limit is trimmed.
EvictsTheCheapest ==
    [][\A t \in queue \ queue' :
          work' = {[op |-> "trim", tx |-> t]}
            => /\ Cardinality(queue) > MaxSize
               /\ \A u \in queue' : Rate[t] <= Rate[u]]_plvars

\* The pool evicts what it says it does, and a restart changes nothing but what
\* a failed statement accounts for.
PoolKeepsItsPromise == []RestartKeepsThePool /\ EvictsTheCheapest
=============================================================================
