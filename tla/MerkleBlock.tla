----------------------------- MODULE MerkleBlock -----------------------------
(***************************************************************************)
(* One block of src/core/block.py: its Merkle root, the proofs given of    *)
(* its transactions, its validation, and what a restart makes of it.       *)
(*                                                                         *)
(* A hash is the term it is computed from, so that two hashes are equal    *)
(* only if what was hashed is.  add_block puts the reward first, not       *)
(* replaceable and with the latest time; load_chain (storage.py) reads the *)
(* rows by time and builds every transaction anew, without its public key, *)
(* its system flag and its replaceable flag.                               *)
(***************************************************************************)
EXTENDS Integers, Sequences, FiniteSets, Functions

CONSTANTS MaxBlock,     \* bound on the payments of the block
          MaxProofs     \* bound on the proofs that are kept

ASSUMPTION BlockAssumption == MaxBlock \in Nat /\ MaxProofs \in Nat

VARIABLES
    block,      \* its transactions, as the process holds them
    root,       \* block.merkle_root
    life,       \* 0 before the block is built, then 1 more at each reload
    proofs,     \* the proofs given: [tx, path, life]
    verdict     \* what validate_block last said: "none", "valid", "invalid", "raised"

mkvars == <<block, root, life, proofs, verdict>>

Lives == 2      \* bound: one build and one reload are observed

-----------------------------------------------------------------------------
\* A payment is named by its place in the block, which is all that tells it
\* from the others.
Payment(n) == [name |-> n, system |-> FALSE, replaceable |-> TRUE, key |-> TRUE]
Reward == [name |-> 0, system |-> TRUE, replaceable |-> FALSE, key |-> FALSE]

\* calculate_hash covers the replaceable flag and not the key or the system flag.
TxHash(t) == <<"tx", t.name, t.replaceable, 0>>
Parent(l, r) == <<"node", l, r>>

\* Mutant: an odd level passes its last hash up unpaired.
LevelUpUnpaired(s) ==
    [k \in 1 .. (Len(s) + 1) \div 2 |->
        IF 2 * k > Len(s) THEN s[2 * k - 1] ELSE Parent(s[2 * k - 1], s[2 * k])]

\* One level up: an odd level repeats its last hash.
LevelUp(s) ==
    LET even == IF Len(s) % 2 = 1 THEN Append(s, s[Len(s)]) ELSE s
    IN [k \in 1 .. Len(even) \div 2 |-> Parent(even[2 * k - 1], even[2 * k])]

\* The hashes after each round of the loop, which ends at a single one.
Levels(s) ==
    LET level[k \in 0 .. Len(s)] ==
            IF k = 0 THEN s
            ELSE IF Len(level[k - 1]) > 1 THEN LevelUp(level[k - 1]) ELSE level[k - 1]
    IN level

Hashes(b) == [k \in 1 .. Len(b) |-> TxHash(b[k])]

\* calculate_merkle_root; a block has at least its reward.
MerkleRoot(b) == Levels(Hashes(b))[Len(b)][1]

\* The rounds before one hash is left, and the index a transaction has after each.
Rounds(s) == CHOOSE n \in 0 .. Len(s) : /\ Len(Levels(s)[n]) = 1
                                        /\ \A k \in 0 .. n - 1 : Len(Levels(s)[k]) > 1
PairIndices(i, n) ==
    LET place[k \in 0 .. n] == IF k = 0 THEN i ELSE (place[k - 1] + 1) \div 2
    IN place

\* What a hash is paired with at an index; the last one of an odd level with itself.
Sibling(level, i) == IF i % 2 = 0 THEN level[i - 1]
                     ELSE IF i < Len(level) THEN level[i + 1] ELSE level[i]

\* get_merkle_proof: the sibling in every round, and its side.
GetMerkleProof(b, i) ==
    LET level == Levels(Hashes(b))
        place == PairIndices(i, Rounds(Hashes(b)))
    IN [k \in 1 .. Rounds(Hashes(b)) |->
           [hash |-> Sibling(level[k - 1], place[k - 1]),
            position |-> IF place[k - 1] % 2 = 0 THEN "left" ELSE "right"]]

\* verify_merkle_proof: current_hash after each step of the proof.
Climbed(hash, path) ==
    LET current[k \in 0 .. Len(path)] ==
            IF k = 0 THEN hash
            ELSE IF path[k].position = "left" THEN Parent(path[k].hash, current[k - 1])
            ELSE Parent(current[k - 1], path[k].hash)
    IN current
VerifyMerkleProof(hash, path, against) == Climbed(hash, path)[Len(path)] = against

\* EKUSHTransaction.verify: system senders pass, the others need their key.
VerifyTx(t) == t.name = 0 \/ t.key

-----------------------------------------------------------------------------
MerkleTypeOK ==
    /\ block \in Seq([name : 0 .. MaxBlock, system : BOOLEAN, replaceable : BOOLEAN,
                      key : BOOLEAN])
    /\ life \in 0 .. Lives /\ Cardinality(proofs) <= MaxProofs
    /\ verdict \in {"none", "valid", "invalid", "raised"}

MerkleInit == block = <<>> /\ root = <<>> /\ life = 0 /\ proofs = {} /\ verdict = "none"

\* add_block builds the block; the root is calculated in the constructor.
BuildBlock(n) ==
    /\ life = 0 /\ life' = 1
    /\ block' = <<Reward>> \o [k \in 1 .. n |-> Payment(k)]
    /\ root' = MerkleRoot(block')
    /\ UNCHANGED <<proofs, verdict>>

\* A client asks for a proof by the hash of a transaction.
GiveProof(i) ==
    /\ life > 0 /\ i \in 1 .. Len(block) /\ Cardinality(proofs) < MaxProofs
    /\ proofs' = proofs \cup {[tx |-> TxHash(block[i]), path |-> GetMerkleProof(block, i), life |-> life]}
    /\ UNCHANGED <<block, root, life, verdict>>

Reloaded(t) == [t EXCEPT !.system = FALSE, !.replaceable = TRUE, !.key = FALSE]

\* Mutant: the row keeps the replaceable flag, and the order is the block's.
ReloadFaithfully ==
    /\ life > 0 /\ life < Lives /\ life' = life + 1
    /\ block' = [k \in 1 .. Len(block) |-> [block[k] EXCEPT !.key = FALSE]]
    /\ root' = MerkleRoot(block')
    /\ UNCHANGED proofs /\ verdict' = "none"

\* Rows by time: the payments in some order, the reward last.
Reload ==
    /\ life > 0 /\ life < Lives /\ life' = life + 1
    /\ \E order \in {s \in [1 .. Len(block) - 1 -> 2 .. Len(block)] : IsInjective(s)} :
          block' = [k \in 1 .. Len(block) - 1 |-> Reloaded(block[order[k]])] \o <<Reloaded(Reward)>>
    /\ root' = MerkleRoot(block')
    /\ UNCHANGED proofs /\ verdict' = "none"

\* validate_coinbase_transaction: what add_block puts first is from the system
\* address, above zero and without a fee; a transaction that is not of the
\* system has no coinbase attribute, and reading it raises.
Coinbase(t) == IF t.system THEN "valid" ELSE "raised"

\* validate_block, asked at the height and time the block is for: the root,
\* the transactions, then the difficulty, which no nonce is searched for, and
\* the coinbase.
Validate ==
    /\ life > 0
    /\ \E meets \in BOOLEAN :
          verdict' = CASE root # MerkleRoot(block) -> "invalid"
                       [] \E k \in 1 .. Len(block) : ~VerifyTx(block[k]) -> "invalid"
                       [] ~meets -> "invalid"
                       [] OTHER -> Coinbase(block[1])
    /\ UNCHANGED <<block, root, life, proofs>>

MerkleNext ==
    \/ \E n \in 0 .. MaxBlock : BuildBlock(n)
    \/ \E i \in 1 .. MaxBlock + 1 : GiveProof(i)
    \/ Reload \/ Validate

MerkleSpec == MerkleInit /\ [][MerkleNext]_mkvars

-----------------------------------------------------------------------------
\* A proof verifies against the root of the block exactly as long as the
\* process that gave it lives: a reload changes the reward's hash and the
\* order of the rows, and with them the root, though the stored merkle_root
\* is the old one.  And a reloaded block never validates again.
ReloadIsAnotherBlock ==
    /\ \A p \in proofs : VerifyMerkleProof(p.tx, p.path, root) <=> p.life = life
    /\ verdict = "valid" => life = 1
=============================================================================
