---------------------------- MODULE CompactBlock -----------------------------
(***************************************************************************)
(* The relay of compact blocks (core/compact_block.py): a node that built  *)
(* a block sends the short ids of its transactions to a peer whose mempool *)
(* it believes to hold most of them; the peer puts the block together from *)
(* the mempool it has when the ids arrive.  A short id has 6 bytes, and    *)
(* transactions may share one.  The transport is external.                 *)
(***************************************************************************)
EXTENDS Integers, Sequences, FiniteSets, SequencesExt, Selection

CONSTANTS Transfers, Reward,     \* transactions; every block begins with its reward
          ShortId,              \* _calculate_short_id
          MaxHeld               \* bound: transactions of a mempool

ASSUME CompactAssumption ==
    /\ Reward \notin Transfers /\ IsFiniteSet(Transfers) /\ MaxHeld \in Nat
    /\ DOMAIN ShortId = Transfers \cup {Reward}

VARIABLES
    mempool,    \* the peer's, in its order
    believed,   \* what the sender takes it for
    block,      \* the transactions of the block
    compact,    \* the messages on their way, lost or delivered in any order
    rebuilt     \* what the peer made of the last one

cbvars == <<mempool, believed, block, compact, rebuilt>>

Nobody == [transactions |-> << >>, missing |-> << >>, block |-> << >>]

CompactTypeOK ==
    /\ ToSet(mempool) \subseteq Transfers /\ ToSet(believed) \subseteq Transfers
    /\ block \in Seq(Transfers \cup {Reward})
    /\ \A m \in compact : m.block \in Seq(Transfers \cup {Reward})
    /\ ToSet(rebuilt.transactions) \subseteq Transfers

CompactInit ==
    /\ mempool = << >> /\ believed = << >> /\ block = << >>
    /\ compact = {} /\ rebuilt = Nobody

-----------------------------------------------------------------------------
\* The peer's mempool moves on: a payment arrives, or leaves with a block.
Gain(t) ==
    /\ t \notin ToSet(mempool) /\ Len(mempool) < MaxHeld
    /\ mempool' = Append(mempool, t)
    /\ UNCHANGED <<believed, block, compact, rebuilt>>

Lose(t) ==
    /\ t \in ToSet(mempool)
    /\ mempool' = Selected(mempool, Transfers \ {t})
    /\ UNCHANGED <<believed, block, compact, rebuilt>>

\* The sender hears of the peer's mempool.
Hear ==
    /\ believed # mempool /\ believed' = mempool
    /\ UNCHANGED <<mempool, block, compact, rebuilt>>

Mine(S) ==
    /\ block = << >>
    /\ block' = <<Reward>> \o SetToSeq(S)
    /\ UNCHANGED <<mempool, believed, compact, rebuilt>>

\* More than half of the block is in the peer's mempool.
ShouldSendCompact ==
    2 * Len(Selected(block, ToSet(believed))) > Len(block)

\* Nothing is ever added to prefilled_txns.
Prefilled == << >>

\* create_compact_block: the ids of every transaction, the reward's first.
Message == [ids |-> [k \in DOMAIN block |-> ShortId[block[k]]], block |-> block]

SendCompactBlock ==
    /\ block # << >> /\ ShouldSendCompact
    /\ compact' = compact \cup {Message}
    /\ UNCHANGED <<mempool, believed, block, rebuilt>>

\* Mutant: an id that is not found is not counted.
MissingNothing(ids) == << >>

ShortIds == {ShortId[t] : t \in DOMAIN ShortId}
InMempool == {ShortId[mempool[k]] : k \in DOMAIN mempool}
Missing(ids) == Selected(ids, ShortIds \ InMempool)
\* The first transaction of the mempool with this id.
Match(id) == Selected(mempool, {t \in Transfers : ShortId[t] = id})[1]

\* reconstruct_block: the transactions found, in the order of the ids, and
\* the ids to ask for.
Reconstructed(m) ==
    LET found == Selected(m.ids, InMempool)
    IN [transactions |-> Prefilled \o [k \in DOMAIN found |-> Match(found[k])],
        missing |-> Missing(m.ids), block |-> m.block]

\* With the mempool of now.
ReceiveCompactBlock(m) ==
    /\ rebuilt' = Reconstructed(m)
    /\ UNCHANGED <<mempool, believed, block, compact>>

\* The block is buried, and the next one is mined.
NextBlock ==
    /\ block # << >> /\ block' = << >> /\ UNCHANGED <<mempool, believed, compact, rebuilt>>

CompactNext ==
    \/ \E t \in Transfers : Gain(t) \/ Lose(t)
    \/ Hear \/ SendCompactBlock \/ NextBlock
    \/ \E S \in SUBSET Transfers : Mine(S)
    \/ \E m \in compact : ReceiveCompactBlock(m)

CompactSpec == CompactInit /\ [][CompactNext]_cbvars

-----------------------------------------------------------------------------
(* "reconstructed": the peer says it has the whole block only when one of its *)
(* payments shares the short id of the reward, which is in no mempool and is  *)
(* not sent: otherwise every compact block leaves something to ask for.       *)
CompleteNeedsACollision ==
    rebuilt.block # << >> /\ rebuilt.missing = << >>
        => \E k \in DOMAIN rebuilt.transactions :
              /\ ShortId[rebuilt.transactions[k]] = ShortId[rebuilt.block[k]]
              /\ rebuilt.transactions[k] # rebuilt.block[k]
=============================================================================
