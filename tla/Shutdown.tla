------------------------------- MODULE Shutdown -------------------------------
(***************************************************************************)
(* The graceful shutdown of src/core/shutdown.py: on the first signal the  *)
(* pending transactions are written to a backup file, the database is      *)
(* checkpointed, the servers are stopped and a marker is written; the next *)
(* start reads the backup and removes it.                                  *)
(*                                                                         *)
(* The handler keeps "mempool or []": an empty list given to it is         *)
(* replaced by one of its own, and nothing the node adds later is in it.   *)
(* add_block replaces the node's list by a new one (block.py:403), so from *)
(* the first block on the handler holds the old list, mined payments and   *)
(* all.                                                                    *)
(***************************************************************************)
EXTENDS Integers, FiniteSets

CONSTANTS Payments,
          MaxSignals     \* bound on the signals of one life

ASSUMPTION ShutdownAssumption == MaxSignals \in Nat

VARIABLES
    life,       \* "down", "restoring", "up", "saving", "flushing", "stopping"
    pool,       \* the node's list of pending transactions
    shared,     \* the handler's list is the node's list
    held,       \* the handler's list when it is not
    backup,     \* mempool_backup.json: "none", "torn" or "whole"
    saved,      \* what a whole backup holds
    marker,     \* shutdown_clean exists
    signals,    \* signals received in this life
    lost,       \* history: payments in the pool of a life that has ended and
                \* not in the pool of the next one
    excused     \* history: the ones a crash, a forced exit, a torn or stale
                \* file or an unshared list accounts for

sdvars == <<life, pool, shared, held, backup, saved, marker, signals, lost, excused>>

ShutdownTypeOK ==
    /\ life \in {"down", "restoring", "up", "saving", "flushing", "stopping"}
    /\ pool \subseteq Payments /\ saved \subseteq Payments /\ held \subseteq Payments
    /\ lost \subseteq Payments /\ excused \subseteq Payments
    /\ shared \in BOOLEAN /\ marker \in BOOLEAN
    /\ backup \in {"none", "torn", "whole"}
    /\ signals \in 0 .. MaxSignals

ShutdownInit ==
    /\ life = "down" /\ pool = {} /\ shared = FALSE /\ held = {} /\ backup = "none" /\ saved = {}
    /\ marker = FALSE /\ signals = 0 /\ lost = {} /\ excused = {}

-----------------------------------------------------------------------------
\* What the handler sees of the pool.
Seen == IF shared THEN pool ELSE held

\* restore_mempool_if_exists: a whole backup is read and then removed, a torn
\* one is left where it is, and without one the pool is empty.
ReadBackup ==
    /\ life = "down" /\ life' = "restoring" /\ signals' = 0
    /\ pool' = IF backup = "whole" THEN saved ELSE {}
    /\ backup' = IF backup = "whole" THEN "none" ELSE backup
    /\ saved' = {} /\ lost' = lost \ pool'
    /\ UNCHANGED <<shared, held, marker, excused>>

\* GracefulShutdown.__init__ is handed the restored list.
SetUpHandler ==
    /\ life = "restoring" /\ life' = "up" /\ shared' = (pool # {}) /\ held' = {}
    /\ UNCHANGED <<pool, backup, saved, marker, signals, lost, excused>>

\* The node adds a payment to its list, or loads one from its own table
\* before the handler is set up.
AddPayment(t) ==
    /\ life \in {"restoring", "up"} /\ t \notin pool /\ pool' = pool \cup {t}
    /\ lost' = lost \ {t} /\ excused' = excused \ {t}
    /\ UNCHANGED <<life, shared, held, backup, saved, marker, signals>>

\* A block takes them all, and the node goes on with a new list.
MineAll ==
    /\ life = "up" /\ pool # {} /\ pool' = {}
    /\ held' = Seen /\ shared' = FALSE
    /\ UNCHANGED <<life, backup, saved, marker, signals, lost, excused>>

Dies(t) ==
    /\ life' = "down" /\ pool' = {} /\ shared' = FALSE /\ held' = {}
    /\ lost' = lost \cup pool /\ excused' = excused \cup t

\* The first signal: the backup is opened, which empties it, when the list
\* the handler sees has a payment.
Signal ==
    /\ life = "up" /\ signals < MaxSignals /\ signals' = signals + 1
    /\ life' = "saving"
    /\ backup' = (IF Seen # {} THEN "torn" ELSE backup)
    /\ saved' = (IF Seen # {} THEN {} ELSE saved)
    /\ UNCHANGED <<pool, shared, held, marker, lost, excused>>

\* Mutant: the file is left to be flushed when the process ends.
WriteBackupTorn ==
    /\ life = "saving" /\ life' = "flushing"
    /\ UNCHANGED <<pool, shared, held, backup, saved, marker, signals, lost, excused>>

\* json.dump ends and the file is closed.
WriteBackup ==
    /\ life = "saving" /\ life' = "flushing"
    /\ backup' = (IF Seen # {} THEN "whole" ELSE backup)
    /\ saved' = (IF Seen # {} THEN Seen ELSE saved)
    /\ UNCHANGED <<pool, shared, held, marker, signals, lost, excused>>

\* The checkpoint of the database and the stops never raise.
FlushDatabase ==
    /\ life = "flushing" /\ life' = "stopping"
    /\ UNCHANGED <<pool, shared, held, backup, saved, marker, signals, lost, excused>>

\* The marker is written and the process exits with 0.
ExitCleanly ==
    /\ life = "stopping" /\ marker' = TRUE
    /\ Dies(pool \ Seen)
    /\ UNCHANGED <<backup, saved, signals>>

\* A second signal exits at once with 1, wherever the first one has come to.
SignalAgain ==
    /\ life \in {"saving", "flushing", "stopping"} /\ signals < MaxSignals
    /\ signals' = signals + 1 /\ Dies(pool)
    /\ UNCHANGED <<backup, saved, marker>>

\* The process dies of something else, of the TypeError of a transaction that
\* json cannot encode among them.
Killed ==
    /\ life # "down" /\ Dies(pool)
    /\ UNCHANGED <<backup, saved, marker, signals>>

ShutdownNext ==
    \/ ReadBackup \/ SetUpHandler \/ MineAll \/ Signal \/ WriteBackup \/ FlushDatabase
    \/ ExitCleanly \/ SignalAgain \/ Killed
    \/ \E t \in Payments : AddPayment(t)

ShutdownSpec == ShutdownInit /\ [][ShutdownNext]_sdvars

-----------------------------------------------------------------------------
\* A payment that was pending when the node exited cleanly is pending again
\* in the next life, unless the handler's list had ceased to be the
\* node's (an empty pool at the start, or a block since) or another death,
\* before or after, was not clean.
CleanExitKeeps == life = "up" => lost \subseteq excused
=============================================================================
