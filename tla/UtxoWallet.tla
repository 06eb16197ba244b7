----------------------------- MODULE UtxoWallet -----------------------------
(***************************************************************************)
(* The wallet over the utxos table: POST /transaction (api.py,             *)
(* send_transaction), run by threads and workers at the same time, and the *)
(* coin control object (core/coin_control.py) that freezes and selects.    *)
(*                                                                         *)
(* A handler reads the unspent outputs in autocommit mode, computes, tells *)
(* the peers, and only then opens a transaction to write.  A payment is    *)
(* one request, already signed and verified; its fee is fee_amount.        *)
(***************************************************************************)
EXTENDS Integers, FiniteSets, Functions

CONSTANTS Payments,     \* requests: [id, from, to, amount, fee]
          Coins,        \* outpoints of the outputs that exist at the start
          CoinOwner,    \* their addresses
          CoinAmount,   \* their amounts
          None,         \* auto_select is not running
          MaxInFlight,  \* requests the server works on at the same time
          Targets       \* amounts auto_select is asked for

Addresses == {p.from : p \in Payments} \cup {p.to : p \in Payments}
             \cup {CoinOwner[o] : o \in Coins}

\* f"{tx_id}:0" pays the recipient, f"{tx_id}:1" is the change; tx_id is the
\* hash of the request with a random token.
Paid(p) == <<p.id, 0>>
Back(p) == <<p.id, 1>>
Outpoints == Coins \cup {Paid(p) : p \in Payments} \cup {Back(p) : p \in Payments}

ASSUME WalletAssumption ==
    /\ IsFiniteSet(Payments) /\ IsFiniteSet(Coins)
    /\ \A p \in Payments : p.amount \in Nat \ {0} /\ p.fee \in Nat \ {0}
    /\ CoinAmount \in [Coins -> Nat \ {0}]
    /\ \A p, q \in Payments : p.id = q.id => p = q
    /\ \A p \in Payments : Paid(p) \notin Coins /\ Back(p) \notin Coins
    /\ MaxInFlight \in Nat \ {0}
    /\ Targets \subseteq Nat \ {0}

VARIABLES
    utxos,      \* the utxos table: the row of each outpoint that has one
    pending,    \* pending_transactions: the payments with a row
    phase,      \* where the handler of each payment is
    picked,     \* selected_utxos of the handler
    known,      \* history: payments recorded when the handler selected
    wanted,     \* select_utxos at work: rows to read, rows taken, the target
    selected    \* coin_control.selected_utxos

handlers == <<phase, picked, known>>
control == <<wanted, selected>>
vars == <<utxos, pending, handlers, control>>

Rows == DOMAIN utxos
Row == [address : Addresses, amount : Nat, spent : BOOLEAN, frozen : BOOLEAN]

TypeOK ==
    /\ Rows \subseteq Outpoints
    /\ utxos \in [Rows -> Row]
    /\ pending \in SUBSET Payments
    /\ phase \in [Payments -> {"new", "selected", "sent", "refused", "failed"}]
    /\ picked \in [Payments -> SUBSET Outpoints]
    /\ known \in [Payments -> SUBSET Payments]
    /\ wanted \in [todo : SUBSET Outpoints, taken : SUBSET Outpoints, target : Targets] \cup {None}
    /\ selected \in SUBSET Outpoints

Output(a, n) == [address |-> a, amount |-> n, spent |-> FALSE, frozen |-> FALSE]

Init ==
    /\ utxos = [o \in Coins |-> Output(CoinOwner[o], CoinAmount[o])]
    /\ pending = {}
    /\ phase = [p \in Payments |-> "new"]
    /\ picked = [p \in Payments |-> {}]
    /\ known = [p \in Payments |-> {}]
    /\ wanted = None
    /\ selected = {}

Amount(o) == utxos[o].amount
Amounts == [o \in Rows |-> Amount(o)]
Total(S) == SumFunctionOnSet(Amounts, S)
Unspent == {o \in Rows : ~utxos[o].spent}
UnspentOf(a) == {o \in Unspent : utxos[o].address = a}
Needed(p) == p.amount + p.fee

\* Mutant: the change is what was selected minus the amount, without the fee.
ChangeWithoutFee(p) == Total(picked[p]) - p.amount

Change(p) == Total(picked[p]) - Needed(p)

\* What a scan of "avail" by ascending amount has taken when it stops at n:
\* the smallest, enough, and not enough without the last one.
Selections(avail, n) ==
    {S \in SUBSET avail :
        /\ Total(S) >= n
        /\ \A o \in S, q \in avail \ S : Amount(o) <= Amount(q)
        /\ \E last \in S : /\ \A o \in S : Amount(o) <= Amount(last)
                           /\ Total(S \ {last}) < n}

-----------------------------------------------------------------------------
(* send_transaction                                                          *)

InFlight == {p \in Payments : phase[p] = "selected"}

\* Mutant: the query forgets "is_spent = 0".
SelectAny(p) ==
    /\ phase[p] = "new"
    /\ Cardinality(InFlight) < MaxInFlight
    /\ \E S \in Selections({o \in Rows : utxos[o].address = p.from}, Needed(p)) :
         picked' = [picked EXCEPT ![p] = S]
    /\ phase' = [phase EXCEPT ![p] = "selected"]
    /\ known' = [known EXCEPT ![p] = pending]
    /\ UNCHANGED <<utxos, pending, control>>

\* The SELECT and the choice of outputs; the broadcast gives the peers the
\* transaction id only.
Select(p) ==
    /\ phase[p] = "new"
    /\ Cardinality(InFlight) < MaxInFlight
    /\ \E S \in Selections(UnspentOf(p.from), Needed(p)) :
         picked' = [picked EXCEPT ![p] = S]
    /\ phase' = [phase EXCEPT ![p] = "selected"]
    /\ known' = [known EXCEPT ![p] = pending]
    /\ UNCHANGED <<utxos, pending, control>>

\* "No UTXOs found" or "Insufficient funds".
Refuse(p) ==
    /\ phase[p] = "new"
    /\ Total(UnspentOf(p.from)) < Needed(p)
    /\ phase' = [phase EXCEPT ![p] = "refused"]
    /\ UNCHANGED <<utxos, pending, picked, known, control>>

NewOutputs(p) == {Paid(p)} \cup (IF Change(p) > 0 THEN {Back(p)} ELSE {})

\* Mutant: the recipient is paid the amount minus the fee.
CommitFeeTwice(p) ==
    /\ phase[p] = "selected"
    /\ utxos' = [o \in Rows \cup NewOutputs(p) |->
           IF o \in picked[p] THEN [utxos[o] EXCEPT !.spent = TRUE]
           ELSE IF o \in Rows THEN utxos[o]
           ELSE IF o = Paid(p) THEN Output(p.to, p.amount - p.fee)
           ELSE Output(p.from, Change(p))]
    /\ pending' = pending \cup {p}
    /\ phase' = [phase EXCEPT ![p] = "sent"]
    /\ UNCHANGED <<picked, known, control>>

\* BEGIN IMMEDIATE ... commit: mark the inputs, insert the outputs.
Commit(p) ==
    /\ phase[p] = "selected"
    /\ utxos' = [o \in Rows \cup NewOutputs(p) |->
           IF o \in picked[p] THEN [utxos[o] EXCEPT !.spent = TRUE]
           ELSE IF o \in Rows THEN utxos[o]
           ELSE IF o = Paid(p) THEN Output(p.to, p.amount)
           ELSE Output(p.from, Change(p))]
    /\ pending' = pending \cup {p}
    /\ phase' = [phase EXCEPT ![p] = "sent"]
    /\ UNCHANGED <<picked, known, control>>

\* Mutant: a failed handler gives its inputs back.
FailReleasing(p) ==
    /\ phase[p] = "selected"
    /\ utxos' = [o \in Rows |->
           IF o \in picked[p] THEN [utxos[o] EXCEPT !.spent = FALSE] ELSE utxos[o]]
    /\ phase' = [phase EXCEPT ![p] = "failed"]
    /\ UNCHANGED <<pending, picked, known, control>>

\* The database stays locked for 30 s, or the worker is killed: the rows are
\* as they were, and nobody takes the broadcast back.
Fail(p) ==
    /\ phase[p] = "selected"
    /\ phase' = [phase EXCEPT ![p] = "failed"]
    /\ UNCHANGED <<utxos, pending, picked, known, control>>

-----------------------------------------------------------------------------
(* Coin control                                                              *)

\* Mutant: the update writes the column is_spent.
SetSpent(o, b) ==
    /\ o \in Rows
    /\ utxos' = [utxos EXCEPT ![o].spent = b]
    /\ UNCHANGED <<pending, handlers, control>>

SetFrozen(o, b) ==
    /\ o \in Rows
    /\ utxos' = [utxos EXCEPT ![o].frozen = b]
    /\ UNCHANGED <<pending, handlers, control>>

Freeze(o) == SetFrozen(o, TRUE)
Unfreeze(o) == SetFrozen(o, FALSE)

Available == {o \in Unspent : ~utxos[o].frozen}

\* auto_select reads the unspent outputs and chooses ...
AutoSelect(n) ==
    /\ wanted = None
    /\ \E S \in Selections(Available, n) :
         wanted' = [todo |-> S, taken |-> {}, target |-> n]
    /\ UNCHANGED <<utxos, pending, handlers, selected>>

\* ... select_utxos reads them again, one at a time, and skips what is spent
\* or frozen by now ...
ReadRow(o) ==
    /\ wanted # None
    /\ o \in wanted.todo
    /\ wanted' = [wanted EXCEPT !.todo = @ \ {o}, !.taken = @ \cup ({o} \cap Available)]
    /\ UNCHANGED <<utxos, pending, handlers, selected>>

\* ... and keeps the rest, whatever it amounts to.
SelectUtxos ==
    /\ wanted # None
    /\ wanted.todo = {}
    /\ selected' = wanted.taken
    /\ wanted' = None
    /\ UNCHANGED <<utxos, pending, handlers>>

ClearSelected ==
    /\ selected # {}
    /\ selected' = {}
    /\ UNCHANGED <<utxos, pending, handlers, wanted>>

Next ==
    \/ \E p \in Payments : Select(p) \/ Refuse(p) \/ Commit(p) \/ Fail(p)
    \/ \E o \in Outpoints : Freeze(o) \/ Unfreeze(o) \/ ReadRow(o)
    \/ \E n \in Targets : AutoSelect(n)
    \/ SelectUtxos \/ ClearSelected

Spec == Init /\ [][Next]_vars

-----------------------------------------------------------------------------
Fees == SumFunctionOnSet([p \in pending |-> p.fee], pending)
Supply == Total(Unspent) + Fees
InitialSupply == SumFunctionOnSet(CoinAmount, Coins)

(* The inputs of a recorded payment are spent, for ever, and cover its two   *)
(* outputs and its fee.                                                      *)
InputsAreSpent ==
    \A p \in pending :
        /\ picked[p] \subseteq Rows \ Unspent
        /\ utxos[Paid(p)].amount = p.amount
        /\ Total(picked[p]) = p.amount + p.fee
             + (IF Back(p) \in Rows THEN utxos[Back(p)].amount ELSE 0)

(* Whatever the interleaving, the supply exceeds the initial one by exactly  *)
(* the outputs recorded payments share, once per extra use.                  *)
Uses(o) == Cardinality({p \in pending : o \in picked[p]})
Extra == [o \in Rows |-> (Uses(o) - 1) * Amount(o)]
InflationIsDoubleSpend ==
    Supply = InitialSupply + SumFunctionOnSet(Extra, {o \in Rows : Uses(o) > 1})

(* No payment creates money by itself: what it records is covered, and only  *)
(* an output used twice adds to the supply.                                  *)
SupplyAddsUp == InputsAreSpent /\ InflationIsDoubleSpend

(* Two recorded payments share an input only if each had selected before the *)
(* other was recorded: the race window is the only way to spend twice.       *)
SharedInputIsARace ==
    \A p, q \in pending :
        p # q /\ picked[p] \cap picked[q] # {} => p \notin known[q] /\ q \notin known[p]

(* No step removes a row, changes its owner or amount, or makes a spent      *)
(* output spendable again.                                                   *)
KeepsRows ==
    /\ \A o \in Rows : /\ o \in Rows'
                      /\ utxos'[o].address = utxos[o].address
                      /\ utxos'[o].amount = utxos[o].amount
    /\ Unspent' \cap Rows \subseteq Unspent
SpentForGood == [][KeepsRows]_vars

(* "Total supply never exceeds 1,000,000,000 EKUSH" and "Transaction fees do *)
(* not increase supply" (SUPPLY_CERTIFICATE.md:22, 24).                      *)
SupplyKept == Supply = InitialSupply
=============================================================================
