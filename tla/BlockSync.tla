----------------------------- MODULE BlockSync ------------------------------
(***************************************************************************)
(* Block download (network/sync.py): the start-up thread and the threads   *)
(* POST /sync/start begins all run sync_from_peer on one table of blocks,   *)
(* which the miner extends from its own memory.  The peer is external: one  *)
(* that speaks this protocol answers with the blocks asked for; the P2P     *)
(* server of this repository answers under another key, which counts, like  *)
(* a timeout, as no blocks.                                                 *)
(***************************************************************************)
EXTENDS Integers, FiniteSets, FiniteSetsExt

CONSTANTS Syncs,        \* the threads running sync_from_peer
          Remote,       \* the peer's blocks are 0 .. Remote - 1
          Stored,       \* the node starts with the blocks 0 .. Stored - 1
          Batch,        \* max_blocks
          MaxMined      \* bound: blocks the miner adds

ASSUME BlockSyncAssumption ==
    /\ Remote \in Nat /\ Stored \in Nat \ {0} /\ MaxMined \in Nat /\ Batch \in Nat \ {0}

VARIABLES
    rows,       \* the heights in blocks
    tip,        \* len(bc.chain) of the miner
    sync,       \* what each thread is doing
    locked      \* history: an INSERT failed on the locked database

bvars == <<rows, tip, sync, locked>>

Idle == [pc |-> "idle"]
\* from: local_height.  lo .. hi: the blocks of the answer left to save, size of
\* them received, got saved.  again: an answer in full that added nothing.
\* rival: somebody else stored a block since the thread began.
Sync == {Idle} \cup [pc : {"ask", "save"}, from : Nat, lo : Nat, hi : Int, got : Nat,
                     size : Nat, again : BOOLEAN, rival : BOOLEAN]

BlockSyncTypeOK ==
    /\ rows \subseteq Nat /\ tip \in Nat /\ locked \in BOOLEAN
    /\ sync \in [Syncs -> Sync]

BlockSyncInit ==
    /\ rows = 0 .. Stored - 1 /\ tip = Stored
    /\ sync = [t \in Syncs |-> Idle] /\ locked = FALSE

\* The other threads that are running see a rival.
Rivals(t) == [u \in Syncs |-> IF u = t \/ sync[u] = Idle THEN sync[u]
                              ELSE [sync[u] EXCEPT !.rival = TRUE]]

\* auto_sync and trigger_sync: the height is COUNT(*).
StartSync(t) ==
    /\ sync[t] = Idle
    /\ sync' = [sync EXCEPT ![t] = [pc |-> "ask", from |-> Cardinality(rows), lo |-> 0,
                                    hi |-> -1, got |-> 0, size |-> 0, again |-> FALSE,
                                    rival |-> FALSE]]
    /\ UNCHANGED <<rows, tip, locked>>

\* Mutant: the next block is asked for, as if from were the last one stored.
GetBlocksAfter(t) ==
    LET first == sync[t].from + 1
        last == Min({first + Batch, Remote}) - 1
    IN /\ sync[t].pc = "ask"
       /\ \/ /\ first <= last
             /\ sync' = [sync EXCEPT ![t].pc = "save", ![t].lo = first, ![t].hi = last,
                                     ![t].size = last - first + 1, ![t].got = 0]
          \/ sync' = [sync EXCEPT ![t] = Idle]
       /\ UNCHANGED <<rows, tip, locked>>

\* get_blocks_from_peer: some blocks, or none and the loop ends.
GetBlocks(t) ==
    LET first == sync[t].from
        last == Min({first + Batch, Remote}) - 1
    IN /\ sync[t].pc = "ask"
       /\ \/ /\ first <= last
             /\ sync' = [sync EXCEPT ![t].pc = "save", ![t].lo = first, ![t].hi = last,
                                     ![t].size = last - first + 1, ![t].got = 0]
          \/ sync' = [sync EXCEPT ![t] = Idle]
       /\ UNCHANGED <<rows, tip, locked>>

\* Mutant: local_height does not count the blocks saved.
SaveSyncedBlockUncounted(t) ==
    LET h == sync[t].lo
        next == [sync[t] EXCEPT !.lo = h + 1]
    IN /\ sync[t].pc = "save" /\ h <= sync[t].hi
       /\ IF h \in rows
          THEN sync' = [sync EXCEPT ![t] = next] /\ UNCHANGED rows
          ELSE rows' = rows \cup {h} /\ sync' = [Rivals(t) EXCEPT ![t] = [next EXCEPT !.got = @ + 1]]
       /\ UNCHANGED <<tip, locked>>

\* save_synced_block: a row at idx refuses the block, whether the SELECT or the
\* primary key finds it; local_height counts the blocks saved.
SaveSyncedBlock(t) ==
    LET h == sync[t].lo
        next == [sync[t] EXCEPT !.lo = h + 1]
    IN /\ sync[t].pc = "save" /\ h <= sync[t].hi
       /\ IF h \in rows
          THEN sync' = [sync EXCEPT ![t] = next] /\ UNCHANGED rows
          ELSE /\ rows' = rows \cup {h}
               /\ sync' = [Rivals(t) EXCEPT
                             ![t] = [next EXCEPT !.from = @ + 1, !.got = @ + 1]]
       /\ UNCHANGED <<tip, locked>>

\* Its except clause: the INSERT timed out, the loop goes on with the next block.
LoseBlock(t) ==
    /\ sync[t].pc = "save" /\ sync[t].lo <= sync[t].hi /\ sync[t].lo \notin rows
    /\ sync' = [sync EXCEPT ![t].lo = @ + 1] /\ locked' = TRUE
    /\ UNCHANGED <<rows, tip>>

\* End of an answer: a short one ends the loop, a full one asks again.
EndBatch(t) ==
    /\ sync[t].pc = "save" /\ sync[t].lo > sync[t].hi
    /\ sync' = [sync EXCEPT ![t] = IF sync[t].size < Batch THEN Idle
                                   ELSE [sync[t] EXCEPT !.pc = "ask",
                                                        !.again = @ \/ sync[t].got = 0]]
    /\ UNCHANGED <<rows, tip, locked>>

\* The miner's INSERT OR REPLACE at the height of its own chain.
MineBlock ==
    /\ tip < Stored + MaxMined /\ tip' = tip + 1 /\ rows' = rows \cup {tip}
    /\ sync' = [t \in Syncs |-> IF sync[t] = Idle THEN Idle ELSE [sync[t] EXCEPT !.rival = TRUE]]
    /\ UNCHANGED locked

BlockSyncNext ==
    \/ \E t \in Syncs : StartSync(t) \/ GetBlocks(t) \/ SaveSyncedBlock(t)
                          \/ LoseBlock(t) \/ EndBatch(t)
    \/ MineBlock

BlockSyncSpec == BlockSyncInit /\ [][BlockSyncNext]_bvars

-----------------------------------------------------------------------------
(* Only a block whose INSERT failed leaves a gap, whichever threads and      *)
(* miner write: save_synced_block's answer is all that moves local_height.   *)
GapNeedsAFailure == ~locked => rows = 0 .. Cardinality(rows) - 1

(* A thread asks for the same blocks again, and will do so for ever, only    *)
(* when another one stored them while it ran or an INSERT failed.            *)
RepeatNeedsARival == \A t \in Syncs : sync[t] # Idle /\ sync[t].again => sync[t].rival \/ locked

(* Every irregularity of a download has its cause in another actor.          *)
DownloadsAreAccounted == GapNeedsAFailure /\ RepeatNeedsARival
=============================================================================
