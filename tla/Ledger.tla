------------------------------- MODULE Ledger -------------------------------
(***************************************************************************)
(* What a chain store promises: an append-only sequence of blocks in which *)
(* every block names the one before it.                                    *)
(***************************************************************************)
EXTENDS Naturals, Sequences

CONSTANTS Hashes,       \* block hashes
          NoHash        \* the previous_hash of the genesis block

VARIABLE ledger         \* the stored blocks, oldest first

Link == [hash : Hashes, prev : Hashes \cup {NoHash}]

Tip == IF ledger = <<>> THEN NoHash ELSE ledger[Len(ledger)].hash

Init == ledger = <<>>

Extend(b) == b.prev = Tip /\ ledger' = Append(ledger, b)

Next == \E b \in Link : Extend(b)

Spec == Init /\ [][Next]_ledger
=============================================================================
