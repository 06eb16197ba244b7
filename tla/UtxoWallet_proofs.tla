-------------------------- MODULE UtxoWallet_proofs -------------------------
(***************************************************************************)
(* Proofs about UtxoWallet for every finite set of payments and outputs    *)
(* and any number of handlers at the same time.  The argument about which  *)
(* outputs are spent needs only the shape of a row; what the amounts add   *)
(* up to is in the second part, by the facts about sums of DataTheorems.   *)
(***************************************************************************)
EXTENDS UtxoWallet, DataTheorems, TLAPS

IsRow(r) == r = [address |-> r.address, amount |-> r.amount,
                 spent |-> r.spent, frozen |-> r.frozen]

Shape ==
    /\ utxos = [o \in Rows |-> utxos[o]]
    /\ \A o \in Rows : IsRow(utxos[o])
    /\ pending \in SUBSET Payments
    /\ phase \in [Payments -> {"new", "selected", "sent", "refused", "failed"}]
    /\ picked \in [Payments -> SUBSET Rows]
    /\ known \in [Payments -> SUBSET Payments]

(* The outputs of a payment appear with its row. *)
Fresh == \A p \in Payments : phase[p] # "sent" => Paid(p) \notin Rows /\ Back(p) \notin Rows

Recorded == \A p \in Payments : p \in pending <=> phase[p] = "sent"

PickedAreSpent == \A p \in pending : picked[p] \cap Unspent = {}

(* What was recorded when q selected has no input in common with q. *)
KnownAreDisjoint ==
    \A q \in Payments : /\ known[q] \subseteq pending
                        /\ \A p \in known[q] : picked[p] \cap picked[q] = {}

WalletInv == Shape /\ Fresh /\ Recorded /\ PickedAreSpent /\ KnownAreDisjoint

LEMMA WalletInit == Init => WalletInv
<1> SUFFICES ASSUME Init PROVE WalletInv
  OBVIOUS
<1>1. Rows = Coins
  BY DEF Init, Rows
<1>2. \A o \in Rows : IsRow(utxos[o])
  BY <1>1 DEF Init, IsRow, Output
<1>3. Shape
  BY <1>1, <1>2 DEF Init, Shape, Rows
<1>4. Fresh
  BY <1>1, WalletAssumption DEF Init, Fresh
<1> QED
  BY <1>3, <1>4 DEF Init, WalletInv, Recorded, PickedAreSpent, KnownAreDisjoint

(* A selection takes unspent outputs of the sender. *)
LEMMA SelectStep ==
  ASSUME WalletInv, NEW p \in Payments, Select(p)
  PROVE  WalletInv'
<1> USE DEF WalletInv
<1>1. PICK S \in Selections(UnspentOf(p.from), Needed(p)) : picked' = [picked EXCEPT ![p] = S]
  BY DEF Select
<1>2. S \subseteq Rows /\ S \subseteq Unspent
  BY DEF Selections, UnspentOf, Unspent
<1>3. /\ phase[p] = "new" /\ phase' = [phase EXCEPT ![p] = "selected"]
      /\ known' = [known EXCEPT ![p] = pending]
      /\ UNCHANGED <<utxos, pending>>
  BY DEF Select
<1>4. Rows' = Rows /\ Unspent' = Unspent
  BY <1>3 DEF Rows, Unspent
<1>5. Shape'
  BY <1>1, <1>2, <1>3, <1>4 DEF Shape
<1>6. Fresh' /\ Recorded'
  BY <1>3, <1>4 DEF Shape, Fresh, Recorded
<1>7. p \notin pending
  BY <1>3 DEF Recorded
<1>8. PickedAreSpent'
  BY <1>1, <1>3, <1>4, <1>7 DEF Shape, PickedAreSpent
<1>9. KnownAreDisjoint'
  <2> SUFFICES ASSUME NEW q \in Payments
               PROVE  /\ known'[q] \subseteq pending
                      /\ \A r \in known'[q] : picked'[r] \cap picked'[q] = {}
    BY <1>3 DEF KnownAreDisjoint
  <2>1. CASE q = p
    <3>1. known'[q] = pending /\ picked'[q] = S
      BY <1>1, <1>3, <2>1 DEF Shape
    <3>2. \A r \in pending : picked'[r] = picked[r]
      BY <1>1, <1>7 DEF Shape
    <3> QED
      BY <1>2, <3>1, <3>2 DEF PickedAreSpent
  <2>2. CASE q # p
    BY <1>1, <1>3, <1>7, <2>2 DEF Shape, KnownAreDisjoint
  <2> QED
    BY <2>1, <2>2
<1> QED
  BY <1>5, <1>6, <1>8, <1>9

(* An update of one column leaves the others. *)
LEMMA UpdateSpent ==
  ASSUME NEW r, NEW s, IsRow(r)
  PROVE  /\ IsRow([r EXCEPT !.spent = s])
         /\ [r EXCEPT !.spent = s].address = r.address
         /\ [r EXCEPT !.spent = s].amount = r.amount
         /\ [r EXCEPT !.spent = s].spent = s
<1>1. [r EXCEPT !.spent = s] =
        [address |-> r.address, amount |-> r.amount, spent |-> s, frozen |-> r.frozen]
  BY DEF IsRow
<1> QED
  BY <1>1 DEF IsRow

LEMMA UpdateFrozen ==
  ASSUME NEW r, NEW f, IsRow(r)
  PROVE  /\ IsRow([r EXCEPT !.frozen = f])
         /\ [r EXCEPT !.frozen = f].address = r.address
         /\ [r EXCEPT !.frozen = f].amount = r.amount
         /\ [r EXCEPT !.frozen = f].spent = r.spent
<1>1. [r EXCEPT !.frozen = f] =
        [address |-> r.address, amount |-> r.amount, spent |-> r.spent, frozen |-> f]
  BY DEF IsRow
<1> QED
  BY <1>1 DEF IsRow

(* A commit spends what was picked and adds rows that were not there. *)
LEMMA CommitRows ==
  ASSUME WalletInv, NEW p \in Payments, Commit(p)
  PROVE  /\ Rows' = Rows \cup NewOutputs(p)
         /\ utxos' = [o \in Rows' |-> utxos'[o]]
         /\ \A o \in Rows' : IsRow(utxos'[o])
         /\ \A o \in Rows : /\ utxos'[o].address = utxos[o].address
                           /\ utxos'[o].amount = utxos[o].amount
         /\ Unspent' \cap Rows = Unspent \ picked[p]
<1>1. Rows' = Rows \cup NewOutputs(p)
  BY DEF Commit, Rows
<1>2. utxos' = [o \in Rows' |-> utxos'[o]]
  BY <1>1 DEF Commit
<1>3. /\ picked[p] \subseteq Rows
      /\ \A o \in Rows : IsRow(utxos[o])
  BY DEF WalletInv, Shape
<1>4. ASSUME NEW o \in picked[p]
      PROVE  /\ IsRow(utxos'[o])
             /\ utxos'[o].address = utxos[o].address
             /\ utxos'[o].amount = utxos[o].amount
             /\ utxos'[o].spent = TRUE
  <2>1. utxos'[o] = [utxos[o] EXCEPT !.spent = TRUE]
    BY <1>1, <1>3 DEF Commit
  <2>2. IsRow(utxos[o])
    BY <1>3
  <2> QED
    <3>1. \A s : LET r == [utxos[o] EXCEPT !.spent = s]
                 IN  /\ IsRow(r) /\ r.spent = s
                     /\ r.address = utxos[o].address /\ r.amount = utxos[o].amount
      BY <2>2, UpdateSpent
    <3>2. PICK t : t = TRUE
      OBVIOUS
    <3>3. utxos'[o] = [utxos[o] EXCEPT !.spent = t]
      BY <2>1, <3>2, Zenon
    <3>4. utxos'[o].spent = t
      BY <3>1, <3>3
    <3>5. utxos'[o].spent = TRUE
      BY <3>2, <3>4, Zenon
    <3> QED
      BY <3>1, <3>3, <3>5
<1>5. ASSUME NEW o \in Rows \ picked[p]
      PROVE  utxos'[o] = utxos[o]
  BY <1>1 DEF Commit
<1>6. ASSUME NEW o \in Rows', o \notin Rows
      PROVE  IsRow(utxos'[o])
  <2>1. \A a, n : IsRow(Output(a, n))
    BY DEF IsRow, Output
  <2>2. utxos'[o] = IF o = Paid(p) THEN Output(p.to, p.amount) ELSE Output(p.from, Change(p))
    BY <1>1, <1>3, <1>6 DEF Commit
  <2> QED
    BY <2>1, <2>2
<1>7. \A o \in Rows : /\ IsRow(utxos'[o])
                      /\ utxos'[o].address = utxos[o].address
                      /\ utxos'[o].amount = utxos[o].amount
  BY <1>3, <1>4, <1>5
<1>8. \A o \in Rows : o \in Unspent' <=> o \in Unspent /\ o \notin picked[p]
  <2>1. \A o \in picked[p] : o \notin Unspent'
    BY <1>4, Zenon DEF Unspent
  <2>2. \A o \in Rows \ picked[p] : o \in Unspent' <=> o \in Unspent
    BY <1>1, <1>5 DEF Unspent
  <2> QED
    BY <2>1, <2>2
<1>9. Unspent \subseteq Rows
  BY DEF Unspent
<1> QED
  BY <1>1, <1>2, <1>6, <1>7, <1>8, <1>9

LEMMA CommitStep ==
  ASSUME WalletInv, NEW p \in Payments, Commit(p)
  PROVE  WalletInv'
<1> USE DEF WalletInv
<1>1. /\ Rows' = Rows \cup NewOutputs(p)
      /\ utxos' = [o \in Rows' |-> utxos'[o]]
      /\ \A o \in Rows' : IsRow(utxos'[o])
      /\ Unspent' \cap Rows = Unspent \ picked[p]
  BY CommitRows
<1>2. /\ phase[p] = "selected" /\ phase' = [phase EXCEPT ![p] = "sent"]
      /\ pending' = pending \cup {p}
      /\ UNCHANGED <<picked, known>>
  BY DEF Commit
<1>3. Shape'
  <2>1. pending' \in SUBSET Payments /\ known' \in [Payments -> SUBSET Payments]
    BY <1>2 DEF Shape
  <2>2. phase' \in [Payments -> {"new", "selected", "sent", "refused", "failed"}]
    BY <1>2 DEF Shape
  <2>3. picked' \in [Payments -> SUBSET Rows']
    BY <1>1, <1>2 DEF Shape
  <2> QED
    BY <1>1, <2>1, <2>2, <2>3 DEF Shape
<1>4. Fresh'
  <2> SUFFICES ASSUME NEW q \in Payments, phase'[q] # "sent"
               PROVE  Paid(q) \notin Rows' /\ Back(q) \notin Rows'
    BY DEF Fresh
  <2>1. q # p /\ phase'[q] = phase[q]
    BY <1>2 DEF Shape
  <2>2. q.id # p.id
    BY <2>1, WalletAssumption
  <2>3. \A o \in NewOutputs(p) : o = <<p.id, 0>> \/ o = <<p.id, 1>>
    BY DEF NewOutputs, Paid, Back
  <2>4. Paid(q) = <<q.id, 0>> /\ Back(q) = <<q.id, 1>>
    BY DEF Paid, Back
  <2> QED
    BY <1>1, <2>1, <2>2, <2>3, <2>4 DEF Fresh
<1>5. Recorded'
  BY <1>2 DEF Shape, Recorded
<1>6. PickedAreSpent'
  <2> SUFFICES ASSUME NEW q \in pending'
               PROVE  picked[q] \cap Unspent' = {}
    BY <1>2 DEF PickedAreSpent
  <2>1. picked[q] \subseteq Rows
    BY <1>2 DEF Shape
  <2>2. q = p \/ picked[q] \cap Unspent = {}
    BY <1>2 DEF PickedAreSpent
  <2> QED
    BY <1>1, <2>1, <2>2
<1>7. KnownAreDisjoint'
  BY <1>2 DEF KnownAreDisjoint
<1> QED
  BY <1>3, <1>4, <1>5, <1>6, <1>7

(* Freezing an output changes nothing else. *)
LEMMA FrozenRows ==
  ASSUME WalletInv, NEW o, NEW b \in BOOLEAN, SetFrozen(o, b)
  PROVE  /\ Rows' = Rows /\ Unspent' = Unspent
         /\ utxos' = [q \in Rows' |-> utxos'[q]]
         /\ \A q \in Rows : /\ IsRow(utxos'[q])
                           /\ utxos'[q].address = utxos[q].address
                           /\ utxos'[q].amount = utxos[q].amount
<1>1. o \in Rows /\ utxos' = [utxos EXCEPT ![o].frozen = b]
  BY DEF SetFrozen
<1>2. Rows' = Rows
  BY <1>1 DEF Rows
<1>3. /\ utxos = [q \in Rows |-> utxos[q]]
      /\ \A q \in Rows : IsRow(utxos[q])
  BY DEF WalletInv, Shape
<1>4. utxos' = [q \in Rows' |-> utxos'[q]]
  BY <1>1, <1>2, <1>3
<1>5. ASSUME NEW q \in Rows
      PROVE  /\ IsRow(utxos'[q])
             /\ utxos'[q].address = utxos[q].address
             /\ utxos'[q].amount = utxos[q].amount
             /\ utxos'[q].spent = utxos[q].spent
  <2>1. IsRow(utxos[q])
    BY <1>3
  <2>2. CASE q = o
    <3>1. utxos'[q] = [utxos[q] EXCEPT !.frozen = b]
      BY <1>1, <1>3, <2>2
    <3> QED
      BY <2>1, <3>1, UpdateFrozen
  <2>3. CASE q # o
    <3>1. utxos'[q] = utxos[q]
      BY <1>1, <1>3, <2>3
    <3> QED
      BY <2>1, <3>1
  <2> QED
    BY <2>2, <2>3
<1>6. Unspent' = Unspent
  BY <1>2, <1>5 DEF Unspent
<1> QED
  BY <1>2, <1>4, <1>5, <1>6

LEMMA WalletStep == WalletInv /\ [Next]_vars => WalletInv'
<1> SUFFICES ASSUME WalletInv, [Next]_vars
             PROVE  WalletInv'
  OBVIOUS
<1>1. ASSUME NEW p \in Payments, Select(p)
      PROVE  WalletInv'
  BY <1>1, SelectStep
<1>2. ASSUME NEW p \in Payments, Commit(p)
      PROVE  WalletInv'
  BY <1>2, CommitStep
<1>3. ASSUME NEW p \in Payments, Refuse(p) \/ Fail(p)
      PROVE  WalletInv'
  <2>1. /\ phase[p] \in {"new", "selected"}
        /\ phase' = [phase EXCEPT ![p] = "refused"] \/ phase' = [phase EXCEPT ![p] = "failed"]
        /\ UNCHANGED <<utxos, pending, picked, known>>
    BY <1>3 DEF Refuse, Fail
  <2>2. Rows' = Rows /\ Unspent' = Unspent
    BY <2>1 DEF Rows, Unspent
  <2>3. Shape' /\ PickedAreSpent' /\ KnownAreDisjoint'
    BY <2>1, <2>2 DEF WalletInv, Shape, PickedAreSpent, KnownAreDisjoint
  <2>4. \A q \in Payments : phase'[q] = "sent" <=> phase[q] = "sent"
    BY <2>1 DEF WalletInv, Shape
  <2>5. Fresh' /\ Recorded'
    BY <2>1, <2>2, <2>4 DEF WalletInv, Fresh, Recorded
  <2> QED
    BY <2>3, <2>5 DEF WalletInv
<1>4. ASSUME NEW o \in Outpoints, NEW b \in BOOLEAN, SetFrozen(o, b)
      PROVE  WalletInv'
  <2>1. UNCHANGED <<pending, phase, picked, known>>
    BY <1>4 DEF SetFrozen, handlers
  <2>2. /\ Rows' = Rows /\ Unspent' = Unspent
        /\ utxos' = [q \in Rows' |-> utxos'[q]]
        /\ \A q \in Rows : IsRow(utxos'[q])
    BY <1>4, FrozenRows
  <2> QED
    BY <2>1, <2>2 DEF WalletInv, Shape, Fresh, Recorded, PickedAreSpent, KnownAreDisjoint
<1>5. CASE \/ \E n \in Targets : AutoSelect(n)
           \/ \E o \in Outpoints : ReadRow(o)
           \/ SelectUtxos \/ ClearSelected
           \/ UNCHANGED vars
  <2>1. UNCHANGED <<utxos, pending, phase, picked, known>>
    BY <1>5 DEF AutoSelect, ReadRow, SelectUtxos, ClearSelected, handlers, vars
  <2>2. Rows' = Rows /\ Unspent' = Unspent
    BY <2>1 DEF Rows, Unspent
  <2> QED
    BY <2>1, <2>2 DEF WalletInv, Shape, Fresh, Recorded, PickedAreSpent, KnownAreDisjoint
<1> QED
  BY <1>1, <1>2, <1>3, <1>4, <1>5 DEF Next, Freeze, Unfreeze

THEOREM WalletInvariant == Spec => []WalletInv
<1>1. Init => WalletInv
  BY WalletInit
<1>2. WalletInv /\ [Next]_vars => WalletInv'
  BY WalletStep
<1> QED
  BY <1>1, <1>2, PTL DEF Spec

(* Two recorded payments share an input only when the later one selected     *)
(* before the earlier one was recorded: send_transaction double spends in no *)
(* other way, whatever the outputs, payments and number of workers.          *)
THEOREM RaceIsTheOnlyWay == Spec => []SharedInputIsARace
<1>1. WalletInv => SharedInputIsARace
  <2> SUFFICES ASSUME WalletInv, NEW p \in pending, NEW q \in pending,
                      p # q, picked[p] \cap picked[q] # {}
               PROVE  p \notin known[q] /\ q \notin known[p]
    BY DEF SharedInputIsARace
  <2> QED
    BY DEF WalletInv, Shape, KnownAreDisjoint
<1> QED
  BY <1>1, WalletInvariant, PTL

(* No step removes a row of the utxos table, changes its owner or amount, or *)
(* makes a spent output spendable again.                                     *)
THEOREM SpentStaysSpent == Spec => SpentForGood
<1>1. WalletInv /\ [Next]_vars => [KeepsRows]_vars
  <2> SUFFICES ASSUME WalletInv, [Next]_vars
               PROVE  KeepsRows
    OBVIOUS
  <2>1. ASSUME NEW p \in Payments, Commit(p)
        PROVE  KeepsRows
    BY <2>1, CommitRows DEF KeepsRows
  <2>2. ASSUME NEW o \in Outpoints, NEW b \in BOOLEAN, SetFrozen(o, b)
        PROVE  KeepsRows
    BY <2>2, FrozenRows DEF KeepsRows
  <2>3. CASE utxos' = utxos
    BY <2>3 DEF KeepsRows, Rows, Unspent
  <2> QED
    BY <2>1, <2>2, <2>3
       DEF Next, Select, Refuse, Fail, Freeze, Unfreeze, AutoSelect, ReadRow, SelectUtxos, ClearSelected, vars
<1> QED
  BY <1>1, WalletInvariant, PTL DEF Spec, SpentForGood

-----------------------------------------------------------------------------
(* What the amounts add up to                                                *)

Funded ==
    /\ IsFiniteSet(Rows) /\ \A o \in Rows : utxos[o].amount \in Nat
    /\ \A p \in Payments : phase[p] = "selected" => Total(picked[p]) >= Needed(p)

(* An output is spent by a recorded payment and by nothing else. *)
SpentIsUsed == \A o \in Rows : o \notin Unspent => \E p \in pending : o \in picked[p]

Covers(p) ==
    /\ Paid(p) \in Rows /\ utxos[Paid(p)].amount = p.amount
    /\ Total(picked[p]) = p.amount + p.fee
         + (IF Back(p) \in Rows THEN utxos[Back(p)].amount ELSE 0)

MoneyInv ==
    /\ WalletInv /\ Funded /\ SpentIsUsed
    /\ \A p \in pending : Covers(p)
    /\ InflationIsDoubleSpend

(* The sum over some rows stays as long as the rows keep their amounts. *)
LEMMA TotalKept ==
  ASSUME Funded, Rows \subseteq Rows',
         \A o \in Rows : utxos'[o].amount = utxos[o].amount,
         NEW S \in SUBSET Rows
  PROVE  /\ SumFunctionOnSet(Amounts', S) = SumFunctionOnSet(Amounts, S)
         /\ SumFunctionOnSet(Amounts, S) \in Nat
<1>1. IsFiniteSet(S)
  BY FS_Subset DEF Funded
<1>2. PICK f, g : f = Amounts /\ g = Amounts'
  OBVIOUS
<1>3. \A o \in Rows : f[o] \in Nat /\ g[o] = f[o]
  BY <1>2 DEF Amounts, Amount, Funded
<1>4. \A o \in S : f[o] \in Nat /\ f[o] \in Int /\ g[o] = f[o]
  BY <1>3
<1>5. SumFunctionOnSet(g, S) = SumFunctionOnSet(f, S) /\ SumFunctionOnSet(f, S) \in Nat
  BY <1>1, <1>4, SumAgree, SumNonNegative
<1> QED BY <1>2, <1>5

LEMMA AmountsType ==
  ASSUME Funded
  PROVE  \A o \in Rows : Amounts[o] = utxos[o].amount /\ Amounts[o] \in Nat /\ Amounts[o] \in Int
BY DEF Funded, Amounts, Amount

LEMMA PendingIsFinite ==
  ASSUME pending \in SUBSET Payments
  PROVE  IsFiniteSet(pending) /\ \A o : IsFiniteSet({p \in pending : o \in picked[p]})
                                        /\ Uses(o) \in Nat
<1>1. IsFiniteSet(pending)
  BY WalletAssumption, FS_Subset
<1>2. ASSUME NEW o PROVE IsFiniteSet({p \in pending : o \in picked[p]})
  <2>1. {p \in pending : o \in picked[p]} \in SUBSET pending
    OBVIOUS
  <2> QED BY <1>1, <2>1, FS_Subset
<1> QED BY <1>1, <1>2, FS_CardinalityType DEF Uses

(* The rows and amounts, and what was recorded, stay as they are. *)
LEMMA MoneyQuiet ==
  ASSUME MoneyInv, WalletInv', Rows' = Rows, Unspent' = Unspent, pending' = pending,
         \A o \in Rows : utxos'[o].amount = utxos[o].amount,
         \A p \in pending : picked'[p] = picked[p],
         \A p \in Payments : phase'[p] = "selected" =>
             picked'[p] \in SUBSET Rows /\ SumFunctionOnSet(Amounts, picked'[p]) >= Needed(p)
  PROVE  MoneyInv'
<1>0. Funded /\ pending \in SUBSET Payments /\ \A p \in pending : picked[p] \in SUBSET Rows
  BY DEF MoneyInv, WalletInv, Shape
<1>1. \A S \in SUBSET Rows : SumFunctionOnSet(Amounts', S) = SumFunctionOnSet(Amounts, S)
  BY <1>0, TotalKept, Zenon
<1>2. Amounts' = Amounts
  BY DEF Amounts, Amount
<1>3. Funded'
  BY <1>0, <1>1 DEF Funded, Total, Needed
<1>4. SpentIsUsed'
  BY DEF MoneyInv, SpentIsUsed
<1>5. ASSUME NEW p \in pending PROVE Covers(p)'
  <2>1. Covers(p) /\ picked'[p] = picked[p]
    BY DEF MoneyInv
  <2> QED BY <1>2, <2>1 DEF Covers, Total, Paid, Back
<1>6. InflationIsDoubleSpend'
  <2>1. Supply' = Supply
    BY <1>2 DEF Supply, Total, Fees
  <2>2. \A o : {p \in pending' : o \in picked'[p]} = {p \in pending : o \in picked[p]}
    OBVIOUS
  <2>3. \A o \in Rows : Cardinality({p \in pending' : o \in picked'[p]}) = Uses(o)
    BY <2>2, Zenon DEF Uses
  <2>4. Extra' = Extra /\ {o \in Rows : Uses(o) > 1}' = {o \in Rows : Uses(o) > 1}
    BY <2>3 DEF Extra, Amount, Uses
  <2> QED BY <2>1, <2>4 DEF MoneyInv, InflationIsDoubleSpend, InitialSupply
<1> QED BY <1>3, <1>4, <1>5, <1>6 DEF MoneyInv

LEMMA MoneyInit == Init => MoneyInv
<1> SUFFICES ASSUME Init PROVE MoneyInv
  OBVIOUS
<1>1. Rows = Coins /\ pending = {} /\ \A p \in Payments : phase[p] = "new"
  BY DEF Init, Rows
<1>2. \A o \in Rows : utxos[o].amount = CoinAmount[o] /\ CoinAmount[o] \in Nat /\ ~ utxos[o].spent
  BY <1>1, WalletAssumption DEF Init, Output
<1>3. Funded
  BY <1>1, <1>2, WalletAssumption DEF Funded
<1>4. Unspent = Rows
  BY <1>2 DEF Unspent
<1>5. InflationIsDoubleSpend
  <2>1. Total(Unspent) = SumFunctionOnSet(CoinAmount, Coins) /\ Total(Unspent) \in Int
    <3>1. \A o \in Coins : CoinAmount[o] \in Int /\ Amounts[o] = CoinAmount[o]
      BY <1>1, <1>2 DEF Amounts, Amount
    <3>2. PICK f : f = Amounts
      OBVIOUS
    <3>3. /\ SumFunctionOnSet(f, Coins) = SumFunctionOnSet(CoinAmount, Coins)
          /\ SumFunctionOnSet(CoinAmount, Coins) \in Int
      BY <3>1, <3>2, WalletAssumption, SumAgree, SumType
    <3> QED BY <1>1, <1>4, <3>2, <3>3 DEF Total
  <2>2. Fees = 0
    BY <1>1, SumEmpty DEF Fees
  <2>3. {o \in Rows : Uses(o) > 1} = {}
    <3>1. \A o : {p \in pending : o \in picked[p]} = {}
      BY <1>1
    <3>2. \A o : Uses(o) = 0
      BY <3>1, FS_EmptySet DEF Uses
    <3> QED BY <3>2
  <2>4. SumFunctionOnSet(Extra, {o \in Rows : Uses(o) > 1}) = 0
    BY <2>3, SumEmpty, Zenon
  <2> QED BY <2>1, <2>2, <2>4 DEF InflationIsDoubleSpend, Supply, InitialSupply
<1> QED BY <1>1, <1>3, <1>4, <1>5, WalletInit DEF MoneyInv, SpentIsUsed

(* Rows R with amounts a, the uses u of each, and ex[o] = (u[o] - 1) * a[o]; *)
(* after a commit, rows Q with amounts b, uses v and ey.  The rows of T are  *)
(* used once more; those in U had not been used before; the others of Q are  *)
(* new.  M and N are what is used more than once, before and after.          *)
UsedOnceMore(R, Q, T, U, u, v, a, b, ex, ey, M, N) ==
    /\ IsFiniteSet(Q) /\ R \subseteq Q /\ T \subseteq R /\ M \subseteq R /\ N \subseteq Q
    /\ \A o \in R : /\ u[o] \in Nat /\ a[o] \in Nat /\ b[o] = a[o]
                    /\ v[o] = IF o \in T THEN u[o] + 1 ELSE u[o]
                    /\ IF o \in U THEN u[o] = 0 ELSE u[o] >= 1
                    /\ ex[o] = (u[o] - 1) * a[o]
                    /\ o \in M <=> u[o] > 1
    /\ \A o \in Q : /\ o \notin R => v[o] = 0
                    /\ ey[o] = (v[o] - 1) * b[o]
                    /\ o \in N <=> v[o] > 1

(* What is used again grows by the rows of T that were used before.          *)
LEMMA ExtraGrows ==
  ASSUME NEW R, NEW Q, NEW T, NEW U, NEW u, NEW v, NEW a, NEW b, NEW ex, NEW ey, NEW M, NEW N,
         UsedOnceMore(R, Q, T, U, u, v, a, b, ex, ey, M, N)
  PROVE  SumFunctionOnSet(ey, N) = SumFunctionOnSet(ex, M) + SumFunctionOnSet(a, T \ U)
<1> USE DEF UsedOnceMore
<1> DEFINE f == [o \in Q |-> IF o \in M THEN ex[o] ELSE 0]
           d == [o \in Q |-> IF o \in T \ U THEN a[o] ELSE 0]
           g == [o \in Q |-> IF o \in N THEN ey[o] ELSE 0]
<1>1. ASSUME NEW x \in Nat, NEW y \in Nat
      PROVE  x * y \in Int /\ (x - 1) * y \in Int /\ ((x + 1) - 1) * y = (x - 1) * y + y
  OBVIOUS
<1>2. \A o \in R : ex[o] \in Int /\ a[o] \in Int
  <2> SUFFICES ASSUME NEW o \in R PROVE ex[o] \in Int /\ a[o] \in Int
    OBVIOUS
  <2>1. u[o] \in Nat /\ a[o] \in Nat /\ ex[o] = (u[o] - 1) * a[o]
    OBVIOUS
  <2> QED BY <1>1, <2>1
<1>3. ASSUME NEW o \in Q
      PROVE  f[o] \in Int /\ d[o] \in Int /\ g[o] = f[o] + d[o]
  <2>1. CASE o \notin R
    <3>1. o \notin M /\ o \notin N /\ o \notin T
      BY <2>1
    <3>2. f[o] = 0 /\ d[o] = 0 /\ g[o] = 0
      BY <3>1
    <3> QED BY <3>2
  <2>2. CASE o \in R /\ o \notin T
    <3>1. v[o] = u[o] /\ ey[o] = (u[o] - 1) * a[o] /\ ex[o] = (u[o] - 1) * a[o]
      BY <2>2
    <3>2. (o \in M <=> o \in N) /\ ey[o] = ex[o] /\ ex[o] \in Int
      BY <1>2, <2>2, <3>1, Zenon
    <3>3. d[o] = 0 /\ g[o] = f[o] /\ f[o] \in Int
      BY <2>2, <3>2
    <3> QED BY <3>3
  <2>3. CASE o \in T /\ o \in U
    <3>1. u[o] = 0 /\ v[o] = 1
      BY <2>3
    <3>2. o \notin M /\ o \notin N
      BY <3>1
    <3>3. f[o] = 0 /\ d[o] = 0 /\ g[o] = 0
      BY <2>3, <3>2
    <3> QED BY <3>3
  <2>4. CASE o \in T /\ o \notin U
    <3> PICK x, y : x = u[o] /\ y = a[o]
      OBVIOUS
    <3>1. x \in Nat /\ x >= 1 /\ v[o] = x + 1 /\ y \in Nat
      BY <2>4
    <3>2. ey[o] = ((x + 1) - 1) * y /\ ex[o] = (x - 1) * y
      BY <2>4, <3>1
    <3>3. ey[o] = ex[o] + y /\ ex[o] \in Int
      <4>1. (x - 1) * y \in Int /\ ((x + 1) - 1) * y = (x - 1) * y + y
        BY <1>1, <3>1, Zenon
      <4> QED BY <3>2, <4>1, Zenon
    <3>4. o \in N /\ d[o] = y
      BY <2>4, <3>1
    <3>5. CASE x > 1
      <4>1. o \in M
        BY <2>4, <3>5
      <4>2. f[o] = ex[o] /\ g[o] = ey[o]
        BY <3>4, <4>1
      <4> QED BY <3>1, <3>3, <3>4, <4>2
    <3>6. CASE ~ (x > 1)
      <4>1. x = 1 /\ o \notin M
        BY <3>1, <3>6
      <4>2. ex[o] = 0
        BY <3>1, <3>2, <4>1
      <4>3. f[o] = 0 /\ g[o] = ey[o]
        BY <3>4, <4>1
      <4>4. ey[o] = y
        BY <3>1, <3>3, <4>2
      <4> HIDE DEF f, d, g
      <4> QED BY <3>1, <3>4, <4>3, <4>4
    <3> QED BY <3>5, <3>6
  <2> QED BY <2>1, <2>2, <2>3, <2>4
<1>4. /\ M \in SUBSET Q /\ N \in SUBSET Q /\ T \ U \in SUBSET Q
      /\ IsFiniteSet(M) /\ IsFiniteSet(N) /\ IsFiniteSet(T \ U)
  <2>1. M \in SUBSET Q /\ N \in SUBSET Q /\ T \ U \in SUBSET Q
    OBVIOUS
  <2> QED BY <2>1, FS_Subset
<1>5. /\ \A o \in M : f[o] = ex[o] /\ ex[o] \in Int
      /\ \A o \in Q \ M : f[o] = 0
      /\ \A o \in T \ U : d[o] = a[o] /\ a[o] \in Int
      /\ \A o \in Q \ (T \ U) : d[o] = 0
      /\ \A o \in N : g[o] = ey[o]
      /\ \A o \in Q \ N : g[o] = 0
  BY <1>2, <1>4
<1>6. \A o \in Q : f[o] \in Int /\ d[o] \in Int /\ g[o] = f[o] + d[o] /\ g[o] \in Int
  <2> SUFFICES ASSUME NEW o \in Q
               PROVE  f[o] \in Int /\ d[o] \in Int /\ g[o] = f[o] + d[o] /\ g[o] \in Int
    OBVIOUS
  <2>1. f[o] \in Int /\ d[o] \in Int /\ g[o] = f[o] + d[o]
    BY <1>3
  <2> HIDE DEF f, d, g
  <2> QED BY <2>1
<1> HIDE DEF f, d, g
<1>7. SumFunctionOnSet(g, Q) = SumFunctionOnSet(f, Q) + SumFunctionOnSet(d, Q)
  BY <1>6, SumPlus
<1>8. SumFunctionOnSet(f, Q) = SumFunctionOnSet(ex, M)
  <2>1. SumFunctionOnSet(f, Q) = SumFunctionOnSet(f, M)
    BY <1>4, <1>5, <1>6, SumSupport
  <2>2. SumFunctionOnSet(f, M) = SumFunctionOnSet(ex, M)
    BY <1>4, <1>5, SumAgree
  <2> QED BY <2>1, <2>2
<1>9. SumFunctionOnSet(d, Q) = SumFunctionOnSet(a, T \ U)
  <2>1. SumFunctionOnSet(d, Q) = SumFunctionOnSet(d, T \ U)
    BY <1>4, <1>5, <1>6, SumSupport
  <2>2. SumFunctionOnSet(d, T \ U) = SumFunctionOnSet(a, T \ U)
    BY <1>4, <1>5, SumAgree
  <2> QED BY <2>1, <2>2
<1>10. SumFunctionOnSet(g, Q) = SumFunctionOnSet(ey, N)
  <2>1. SumFunctionOnSet(g, Q) = SumFunctionOnSet(g, N)
    BY <1>4, <1>5, <1>6, SumSupport
  <2>2. \A o \in N : g[o] \in Int /\ ey[o] = g[o]
    BY <1>4, <1>5, <1>6
  <2>3. SumFunctionOnSet(ey, N) = SumFunctionOnSet(g, N)
    BY <1>4, <2>2, SumAgree
  <2> QED BY <2>1, <2>3
<1> QED BY <1>7, <1>8, <1>9, <1>10

(* A commit adds what it pays and gives back, uses its inputs once more, and *)
(* owes the fee.                                                             *)
LEMMA CommitFacts ==
  ASSUME MoneyInv, NEW p \in Payments, Commit(p)
  PROVE  /\ p \notin pending /\ pending' = pending \cup {p} /\ picked' = picked
         /\ picked[p] \in SUBSET Rows /\ Total(picked[p]) \in Nat
         /\ Change(p) \in Nat /\ p.amount \in Nat /\ p.fee \in Nat
         /\ Total(picked[p]) = p.amount + p.fee + Change(p)
         /\ Rows \cap NewOutputs(p) = {} /\ Rows' = Rows \cup NewOutputs(p)
         /\ Paid(p) # Back(p)
         /\ \A o \in Rows : utxos'[o].amount = utxos[o].amount
         /\ Unspent' = (Unspent \ picked[p]) \cup NewOutputs(p)
         /\ utxos'[Paid(p)].amount = p.amount
         /\ Change(p) > 0 => utxos'[Back(p)].amount = Change(p)
         /\ IsFiniteSet(NewOutputs(p)) /\ IsFiniteSet(Rows')
<1>0. WalletInv /\ Shape /\ Fresh /\ Recorded /\ Funded
  BY DEF MoneyInv, WalletInv
<1>1. /\ phase[p] = "selected" /\ pending' = pending \cup {p} /\ picked' = picked
      /\ utxos' = [o \in Rows \cup NewOutputs(p) |->
           IF o \in picked[p] THEN [utxos[o] EXCEPT !.spent = TRUE]
           ELSE IF o \in Rows THEN utxos[o]
           ELSE IF o = Paid(p) THEN Output(p.to, p.amount)
           ELSE Output(p.from, Change(p))]
  BY DEF Commit
<1>2. /\ Rows' = Rows \cup NewOutputs(p) /\ Unspent' \cap Rows = Unspent \ picked[p]
      /\ \A o \in Rows : utxos'[o].amount = utxos[o].amount
  BY <1>0, CommitRows
<1>3. p \notin pending /\ picked[p] \in SUBSET Rows
  BY <1>0, <1>1 DEF Shape, Recorded
<1>4. Paid(p) \notin Rows /\ Back(p) \notin Rows /\ Paid(p) # Back(p)
  BY <1>0, <1>1 DEF Fresh, Paid, Back
<1>5. NewOutputs(p) \subseteq {Paid(p), Back(p)} /\ Paid(p) \in NewOutputs(p)
      /\ (Change(p) > 0 => Back(p) \in NewOutputs(p))
  BY DEF NewOutputs
<1>6. /\ Total(picked[p]) \in Nat /\ p.amount \in Nat /\ p.fee \in Nat
      /\ Total(picked[p]) >= p.amount + p.fee
  <2>1. SumFunctionOnSet(Amounts, picked[p]) \in Nat
    <3>1. IsFiniteSet(picked[p])
      BY <1>0, <1>3, FS_Subset DEF Funded
    <3>2. \A o \in picked[p] : Amounts[o] \in Nat
      BY <1>0, <1>3, AmountsType
    <3> QED BY <3>1, <3>2, SumNonNegative
  <2> QED BY <1>0, <1>1, <2>1, WalletAssumption DEF Funded, Total, Needed
<1>7. Change(p) \in Nat /\ Total(picked[p]) = p.amount + p.fee + Change(p)
  <2>1. PICK t, a, f : t = Total(picked[p]) /\ a = p.amount /\ f = p.fee
    OBVIOUS
  <2>2. Change(p) = t - (a + f)
    BY <2>1 DEF Change, Needed
  <2>3. t \in Nat /\ a \in Nat /\ f \in Nat /\ t >= a + f
    BY <1>6, <2>1
  <2>4. Change(p) \in Nat /\ t = a + f + Change(p)
    BY <2>2, <2>3
  <2> QED BY <2>1, <2>4
<1>8. ASSUME NEW o \in NewOutputs(p)
      PROVE  /\ utxos'[o] = IF o = Paid(p) THEN Output(p.to, p.amount) ELSE Output(p.from, Change(p))
             /\ ~ utxos'[o].spent
  <2>1. o \notin Rows /\ o \notin picked[p]
    BY <1>3, <1>4, <1>5
  <2>2. utxos'[o] = IF o = Paid(p) THEN Output(p.to, p.amount) ELSE Output(p.from, Change(p))
    BY <1>1, <2>1
  <2>3. \A a, n : ~ Output(a, n).spent
    BY DEF Output
  <2> QED BY <2>2, <2>3
<1>9. Unspent' = (Unspent \ picked[p]) \cup NewOutputs(p)
  BY <1>2, <1>8 DEF Unspent
<1>10. /\ utxos'[Paid(p)].amount = p.amount
       /\ Change(p) > 0 => utxos'[Back(p)].amount = Change(p)
  <2>1. \A a, n : Output(a, n).amount = n
    BY DEF Output
  <2> QED BY <1>4, <1>5, <1>8, <2>1
<1>11. IsFiniteSet(NewOutputs(p)) /\ IsFiniteSet(Rows')
  <2>1. IsFiniteSet({Paid(p)} \cup {Back(p)})
    BY FS_Singleton, FS_Union
  <2>2. NewOutputs(p) \in SUBSET ({Paid(p)} \cup {Back(p)})
    BY <1>5
  <2>3. IsFiniteSet(NewOutputs(p))
    BY <2>1, <2>2, FS_Subset
  <2> QED BY <1>0, <1>2, <2>3, FS_Union DEF Funded
<1> QED BY <1>1, <1>2, <1>3, <1>4, <1>5, <1>6, <1>7, <1>9, <1>10, <1>11

(* The two outputs are worth the amount and the change. *)
LEMMA NewOutputsWorth ==
  ASSUME MoneyInv, NEW p \in Payments, Commit(p)
  PROVE  /\ SumFunctionOnSet(Amounts', NewOutputs(p)) = p.amount + Change(p)
         /\ \A o \in Rows' : Amounts'[o] = utxos'[o].amount /\ Amounts'[o] \in Nat
<1>1. PICK f, a, c : f = Amounts' /\ a = p.amount /\ c = Change(p)
  OBVIOUS
<1>2. /\ Rows' = Rows \cup NewOutputs(p) /\ a \in Nat /\ c \in Nat /\ Paid(p) # Back(p)
      /\ utxos'[Paid(p)].amount = a /\ (c > 0 => utxos'[Back(p)].amount = c)
      /\ \A o \in Rows : utxos'[o].amount = utxos[o].amount /\ utxos[o].amount \in Nat
  BY <1>1, CommitFacts DEF MoneyInv, Funded
<1>3. NewOutputs(p) = {Paid(p)} \cup (IF c > 0 THEN {Back(p)} ELSE {})
  BY <1>1 DEF NewOutputs
<1>4. \A o \in Rows' : f[o] = utxos'[o].amount
  BY <1>1 DEF Amounts, Amount
<1>5. f[Paid(p)] = a /\ (c > 0 => f[Back(p)] = c)
  BY <1>2, <1>3, <1>4
<1>6. \A o \in Rows' : f[o] \in Nat
  BY <1>2, <1>3, <1>4, <1>5
<1>7. SumFunctionOnSet(f, {Paid(p)}) = a
  <2> PICK o : o = Paid(p)
    OBVIOUS
  <2>0. f[o] \in Int /\ IsFiniteSet({}) /\ \A x \in {} \cup {o} : f[x] \in Int
    <3>1. f[o] \in Int
      BY <1>2, <1>5
    <3> QED BY <3>1, FS_EmptySet
  <2>1. SumFunctionOnSet(f, {} \cup {o}) = f[o] + SumFunctionOnSet(f, {})
    BY <2>0, SumAdd
  <2>2. {} \cup {Paid(p)} = {Paid(p)}
    OBVIOUS
  <2> QED BY <1>2, <1>5, <2>1, <2>2, SumEmpty
<1>8. SumFunctionOnSet(f, NewOutputs(p)) = a + c
  <2>1. CASE c > 0
    <3>1. NewOutputs(p) = {Paid(p)} \cup {Back(p)} /\ f[Back(p)] = c
      BY <1>3, <1>5, <2>1
    <3> PICK o, b : o = Paid(p) /\ b = Back(p)
      OBVIOUS
    <3>2. f[o] \in Int /\ f[b] \in Int /\ o # b
      BY <1>2, <1>5, <3>1
    <3>3. IsFiniteSet({o}) /\ b \notin {o} /\ \A x \in {o} \cup {b} : f[x] \in Int
      BY <3>2, FS_Singleton
    <3>4. SumFunctionOnSet(f, {o} \cup {b}) = f[b] + SumFunctionOnSet(f, {o})
      BY <3>3, SumAdd
    <3> QED BY <1>2, <1>7, <3>1, <3>4
  <2>2. CASE ~ (c > 0)
    <3>1. NewOutputs(p) = {Paid(p)} /\ c = 0
      BY <1>2, <1>3, <2>2
    <3> QED BY <1>2, <1>7, <3>1
  <2> QED BY <2>1, <2>2
<1> QED BY <1>1, <1>4, <1>6, <1>8

LEMMA CommitSupply ==
  ASSUME MoneyInv, NEW p \in Payments, Commit(p)
  PROVE  /\ Supply' = Supply + SumFunctionOnSet(Amounts, picked[p] \ Unspent)
         /\ Supply \in Int /\ SumFunctionOnSet(Amounts, picked[p] \ Unspent) \in Int
<1> PICK S, U, N, R : S = picked[p] /\ U = Unspent /\ N = NewOutputs(p) /\ R = Rows
  OBVIOUS
<1> PICK f, g : f = Amounts /\ g = Amounts'
  OBVIOUS
<1>0. /\ p \notin pending /\ pending' = pending \cup {p} /\ picked[p] \in SUBSET Rows
      /\ Total(picked[p]) = p.amount + p.fee + Change(p) /\ Change(p) \in Nat
      /\ p.amount \in Nat /\ p.fee \in Nat /\ Total(picked[p]) \in Nat
      /\ Rows \cap NewOutputs(p) = {} /\ Rows' = Rows \cup NewOutputs(p)
      /\ Unspent' = (Unspent \ picked[p]) \cup NewOutputs(p)
      /\ \A o \in Rows : utxos'[o].amount = utxos[o].amount
      /\ IsFiniteSet(NewOutputs(p))
  BY CommitFacts
<1>1. S \in SUBSET R /\ U \in SUBSET R /\ R \cap N = {} /\ Unspent' = (U \ S) \cup N
      /\ IsFiniteSet(R) /\ IsFiniteSet(N)
  BY <1>0 DEF Unspent, MoneyInv, Funded
<1>2. IsFiniteSet(U \ S) /\ IsFiniteSet(U \cap S) /\ IsFiniteSet(S \ U) /\ IsFiniteSet(U)
  BY <1>1, FS_Subset, FS_Difference, FS_Intersection
<1>3. /\ \A o \in R : f[o] \in Nat /\ f[o] \in Int
      /\ \A o \in R \cup N : g[o] \in Int
      /\ \A o \in R : g[o] = f[o]
  <2>1. \A o \in R : f[o] = utxos[o].amount /\ f[o] \in Nat /\ f[o] \in Int
    BY AmountsType DEF MoneyInv
  <2>2. \A o \in R \cup N : g[o] = utxos'[o].amount /\ g[o] \in Nat
    BY <1>0, NewOutputsWorth
  <2> QED BY <1>0, <2>1, <2>2
<1>4. SumFunctionOnSet(g, (U \ S) \cup N) = SumFunctionOnSet(g, U \ S) + SumFunctionOnSet(g, N)
  BY <1>1, <1>2, <1>3, SumUnion
<1>5. SumFunctionOnSet(g, U \ S) = SumFunctionOnSet(f, U \ S)
  BY <1>1, <1>2, <1>3, SumAgree
<1>6. SumFunctionOnSet(f, U) = SumFunctionOnSet(f, U \ S) + SumFunctionOnSet(f, U \cap S)
  <2>1. (U \ S) \cup (U \cap S) = U /\ (U \ S) \cap (U \cap S) = {}
        /\ \A o \in (U \ S) \cup (U \cap S) : f[o] \in Int
    BY <1>1, <1>3
  <2>2. SumFunctionOnSet(f, (U \ S) \cup (U \cap S))
          = SumFunctionOnSet(f, U \ S) + SumFunctionOnSet(f, U \cap S)
    BY <1>2, <2>1, SumUnion
  <2> QED BY <2>1, <2>2
<1>7. SumFunctionOnSet(f, S) = SumFunctionOnSet(f, S \ U) + SumFunctionOnSet(f, U \cap S)
  <2>1. (S \ U) \cup (U \cap S) = S /\ (S \ U) \cap (U \cap S) = {}
        /\ \A o \in (S \ U) \cup (U \cap S) : f[o] \in Int
    BY <1>1, <1>3
  <2>2. SumFunctionOnSet(f, (S \ U) \cup (U \cap S))
          = SumFunctionOnSet(f, S \ U) + SumFunctionOnSet(f, U \cap S)
    BY <1>2, <2>1, SumUnion
  <2> QED BY <2>1, <2>2
<1>8. /\ SumFunctionOnSet(f, U \ S) \in Int /\ SumFunctionOnSet(f, U \cap S) \in Int
      /\ SumFunctionOnSet(f, S \ U) \in Int
  BY <1>1, <1>2, <1>3, SumType
<1>9. Fees' = p.fee + Fees /\ Fees \in Int
  <2>1. IsFiniteSet(pending) /\ \A q \in pending \cup {p} : q.fee \in Int
    BY PendingIsFinite, WalletAssumption DEF MoneyInv, WalletInv, Shape
  <2> PICK D : D = pending
    OBVIOUS
  <2> DEFINE h == [q \in D |-> q.fee]
             k == [q \in D \cup {p} |-> q.fee]
  <2>2. /\ \A q \in D : h[q] = q.fee /\ k[q] = h[q] /\ h[q] \in Int
        /\ \A q \in D \cup {p} : k[q] \in Int
        /\ k[p] = p.fee /\ IsFiniteSet(D) /\ p \notin D
    BY <1>0, <2>1
  <2>3. Fees = SumFunctionOnSet(h, D) /\ Fees' = SumFunctionOnSet(k, D \cup {p})
    BY <1>0 DEF Fees
  <2> HIDE DEF h, k
  <2>4. SumFunctionOnSet(k, D \cup {p}) = k[p] + SumFunctionOnSet(k, D)
    BY <2>2, SumAdd
  <2>5. SumFunctionOnSet(k, D) = SumFunctionOnSet(h, D) /\ SumFunctionOnSet(h, D) \in Int
    BY <2>2, SumAgree, SumType
  <2> QED BY <2>2, <2>3, <2>4, <2>5
<1>10. SumFunctionOnSet(g, N) = p.amount + Change(p)
  BY NewOutputsWorth
<1>11. /\ Supply = SumFunctionOnSet(f, U) + Fees
       /\ Supply' = SumFunctionOnSet(g, (U \ S) \cup N) + Fees'
       /\ SumFunctionOnSet(f, S) = p.amount + p.fee + Change(p)
  BY <1>0, <1>1 DEF Supply, Total
<1>12. PICK x \in Int, y \in Int, z \in Int, fees \in Int :
         /\ x = SumFunctionOnSet(f, U \ S) /\ y = SumFunctionOnSet(f, U \cap S)
         /\ z = SumFunctionOnSet(f, S \ U) /\ fees = Fees
  BY <1>8, <1>9
<1>13. PICK a \in Nat, e \in Nat, c \in Nat : a = p.amount /\ e = p.fee /\ c = Change(p)
  BY <1>0
<1>14. z + y = a + e + c
  BY <1>7, <1>11, <1>12, <1>13
<1>15. Supply = (x + y) + fees
  BY <1>6, <1>11, <1>12
<1>16. Supply' = (x + (a + c)) + (e + fees)
  BY <1>4, <1>5, <1>9, <1>10, <1>11, <1>12, <1>13
<1>17. (x + (a + c)) + (e + fees) = ((x + y) + fees) + z /\ (x + y) + fees \in Int
  BY <1>14
<1> QED BY <1>12, <1>15, <1>16, <1>17

LEMMA CommitUses ==
  ASSUME MoneyInv, NEW p \in Payments, Commit(p), NEW o
  PROVE  /\ Uses(o) \in Nat
         /\ Uses(o)' = IF o \in picked[p] THEN Uses(o) + 1 ELSE Uses(o)
         /\ o \in Unspent => Uses(o) = 0
         /\ o \in Rows \ Unspent => Uses(o) >= 1
         /\ o \notin Rows => Uses(o) = 0
<1> PICK A, B : A = {q \in pending : o \in picked[q]} /\ B = {q \in pending' : o \in picked'[q]}
  OBVIOUS
<1>0. /\ p \notin pending /\ pending' = pending \cup {p} /\ picked' = picked
      /\ picked[p] \in SUBSET Rows
  BY CommitFacts
<1>1. Uses(o) = Cardinality(A) /\ Uses(o)' = Cardinality(B)
  BY DEF Uses
<1>2. IsFiniteSet(A) /\ Cardinality(A) \in Nat
  BY PendingIsFinite, FS_CardinalityType DEF MoneyInv, WalletInv, Shape
<1>5. o \in Unspent => Cardinality(A) = 0
  <2>1. o \in Unspent => A = {}
    BY DEF MoneyInv, WalletInv, PickedAreSpent
  <2> QED BY <2>1, FS_EmptySet
<1>6. o \in Rows \ Unspent => Cardinality(A) >= 1
  <2>1. o \in Rows \ Unspent => A # {}
    BY DEF MoneyInv, SpentIsUsed
  <2>2. A # {} => Cardinality(A) # 0
    BY <1>2, FS_EmptySet
  <2> QED BY <1>2, <2>1, <2>2
<1>7. o \notin Rows => Cardinality(A) = 0
  <2>1. o \notin Rows => A = {}
    BY DEF MoneyInv, WalletInv, Shape
  <2> QED BY <2>1, FS_EmptySet
<1>3. CASE o \in picked[p]
  <2>1. B = A \cup {p} /\ p \notin A
    BY <1>0, <1>3
  <2>2. Cardinality(B) = Cardinality(A) + 1
    BY <1>2, <2>1, FS_AddElement
  <2> QED BY <1>1, <1>2, <1>3, <2>2, <1>5, <1>6, <1>7
<1>4. CASE o \notin picked[p]
  <2>1. B = A
    BY <1>0, <1>4
  <2> QED BY <1>1, <1>2, <1>4, <2>1, <1>5, <1>6, <1>7
<1> QED BY <1>3, <1>4

LEMMA CommitExtra ==
  ASSUME MoneyInv, NEW p \in Payments, Commit(p)
  PROVE  SumFunctionOnSet(Extra', {o \in Rows' : Uses(o)' > 1})
           = SumFunctionOnSet(Extra, {o \in Rows : Uses(o) > 1})
               + SumFunctionOnSet(Amounts, picked[p] \ Unspent)
<1> PICK R, Q, T, U : R = Rows /\ Q = Rows' /\ T = picked[p] /\ U = Unspent
  OBVIOUS
<1> PICK a, b, ex, ey : a = Amounts /\ b = Amounts' /\ ex = Extra /\ ey = Extra'
  OBVIOUS
<1> PICK u, v : u = [o \in R |-> Uses(o)] /\ v = [o \in Q |-> Uses(o)']
  OBVIOUS
<1>0. /\ picked[p] \in SUBSET Rows /\ Rows' = Rows \cup NewOutputs(p) /\ IsFiniteSet(Rows')
      /\ \A o \in Rows : utxos'[o].amount = utxos[o].amount
  BY CommitFacts
<1>1. IsFiniteSet(Q) /\ R \subseteq Q /\ T \in SUBSET R
  BY <1>0
<1>2. \A o \in R : u[o] = Uses(o)
  OBVIOUS
<1>3. \A o \in Q : v[o] = Uses(o)'
  OBVIOUS
<1>4. ASSUME NEW o \in R
      PROVE  /\ u[o] \in Nat /\ a[o] \in Nat /\ b[o] = a[o]
             /\ v[o] = IF o \in T THEN u[o] + 1 ELSE u[o]
             /\ IF o \in U THEN u[o] = 0 ELSE u[o] >= 1
             /\ ex[o] = (u[o] - 1) * a[o]
  <2>1. a[o] \in Nat /\ b[o] = a[o]
    <3>1. a[o] = utxos[o].amount /\ a[o] \in Nat
      BY AmountsType DEF MoneyInv
    <3>2. b[o] = utxos'[o].amount
      BY <1>1, NewOutputsWorth
    <3> QED BY <1>0, <3>1, <3>2
  <2>2. ex[o] = (u[o] - 1) * a[o]
    BY DEF Extra, Amounts
  <2>3. /\ Uses(o) \in Nat /\ Uses(o)' = IF o \in picked[p] THEN Uses(o) + 1 ELSE Uses(o)
        /\ o \in Unspent => Uses(o) = 0
        /\ o \in Rows \ Unspent => Uses(o) >= 1
    BY CommitUses
  <2> QED BY <1>1, <1>2, <1>3, <2>1, <2>2, <2>3
<1>5. \A o \in Q \ R : v[o] = 0
  <2> SUFFICES ASSUME NEW o \in Q \ R PROVE v[o] = 0
    OBVIOUS
  <2>1. Uses(o)' = IF o \in picked[p] THEN Uses(o) + 1 ELSE Uses(o)
    BY CommitUses
  <2>2. o \notin Rows => Uses(o) = 0
    BY CommitUses
  <2> QED BY <1>0, <1>3, <2>1, <2>2
<1>6. \A o \in Q : ey[o] = (v[o] - 1) * b[o]
  <2> SUFFICES ASSUME NEW o \in Q PROVE ey[o] = (v[o] - 1) * b[o]
    OBVIOUS
  <2>1. ey[o] = (Uses(o)' - 1) * Amount(o)' /\ b[o] = Amount(o)'
    BY DEF Extra, Amounts
  <2> QED BY <1>3, <2>1, Zenon
<1> PICK M, N : M = {o \in Rows : Uses(o) > 1} /\ N = {o \in Rows' : Uses(o)' > 1}
  OBVIOUS
<1>7. M \in SUBSET R /\ \A o \in R : o \in M <=> u[o] > 1
  BY <1>2
<1>8. N \in SUBSET Q /\ \A o \in Q : o \in N <=> v[o] > 1
  BY <1>3
<1>9. UsedOnceMore(R, Q, T, U, u, v, a, b, ex, ey, M, N)
  <2>1. \A o \in Q : /\ o \notin R => v[o] = 0
                     /\ ey[o] = (v[o] - 1) * b[o]
                     /\ o \in N <=> v[o] > 1
    BY <1>5, <1>6, <1>8, Zenon
  <2>2. ASSUME NEW o \in R
        PROVE  /\ u[o] \in Nat /\ a[o] \in Nat /\ b[o] = a[o]
               /\ v[o] = IF o \in T THEN u[o] + 1 ELSE u[o]
               /\ IF o \in U THEN u[o] = 0 ELSE u[o] >= 1
               /\ ex[o] = (u[o] - 1) * a[o]
               /\ o \in M <=> u[o] > 1
    BY <1>4, <1>7
  <2> QED BY <1>1, <1>7, <1>8, <2>1, <2>2 DEF UsedOnceMore
<1>10. SumFunctionOnSet(ey, N) = SumFunctionOnSet(ex, M) + SumFunctionOnSet(a, T \ U)
  BY <1>9, ExtraGrows
<1> QED BY <1>10, Zenon

LEMMA MoneyCommit ==
  ASSUME MoneyInv, NEW p \in Payments, Commit(p)
  PROVE  MoneyInv'
<1>0. /\ p \notin pending /\ pending' = pending \cup {p} /\ picked' = picked
      /\ picked[p] \in SUBSET Rows
      /\ Total(picked[p]) = p.amount + p.fee + Change(p) /\ Change(p) \in Nat
      /\ p.amount \in Nat /\ p.fee \in Nat
      /\ Rows \cap NewOutputs(p) = {} /\ Rows' = Rows \cup NewOutputs(p)
      /\ \A o \in Rows : utxos'[o].amount = utxos[o].amount
      /\ Unspent' = (Unspent \ picked[p]) \cup NewOutputs(p)
      /\ utxos'[Paid(p)].amount = p.amount
      /\ Change(p) > 0 => utxos'[Back(p)].amount = Change(p)
      /\ IsFiniteSet(Rows') /\ Paid(p) # Back(p)
  BY CommitFacts
<1>1. WalletInv' /\ Funded /\ Shape /\ Fresh /\ Recorded
  BY CommitStep DEF MoneyInv, WalletInv
<1>2. phase[p] = "selected" /\ phase' = [phase EXCEPT ![p] = "sent"]
  BY DEF Commit
<1>3. \A S \in SUBSET Rows : SumFunctionOnSet(Amounts', S) = SumFunctionOnSet(Amounts, S)
  BY <1>0, <1>1, TotalKept
<1>4. Funded'
  <2>1. ASSUME NEW q \in Payments, phase'[q] = "selected"
        PROVE  SumFunctionOnSet(Amounts', picked'[q]) >= Needed(q)
    <3>1. phase[q] = "selected" /\ picked[q] \in SUBSET Rows
      BY <1>1, <1>2, <2>1 DEF Shape
    <3> QED BY <1>0, <1>1, <1>3, <3>1 DEF Funded, Total
  <2>2. \A o \in Rows' : utxos'[o].amount \in Nat
    BY NewOutputsWorth
  <2> QED BY <1>0, <2>1, <2>2 DEF Funded, Total, Needed
<1>5. SpentIsUsed'
  BY <1>0 DEF MoneyInv, SpentIsUsed
<1>6. ASSUME NEW q \in pending' PROVE Covers(q)'
  <2>1. Total(picked[q])' = Total(picked[q])
    <3>1. picked[q] \in SUBSET Rows
      BY <1>0, <1>1 DEF Shape
    <3> QED BY <1>0, <1>3, <3>1 DEF Total
  <2>2. CASE q = p
    <3>1. Paid(p) \in NewOutputs(p) /\ (Back(p) \in NewOutputs(p) <=> Change(p) > 0)
      BY <1>0 DEF NewOutputs
    <3>2. Back(p) \notin Rows
      BY <1>1, <1>2 DEF Fresh
    <3>3. Change(p) = IF Back(p) \in Rows' THEN utxos'[Back(p)].amount ELSE 0
      <4>1. CASE Change(p) > 0
        BY <1>0, <3>1, <4>1
      <4>2. CASE ~ (Change(p) > 0)
        BY <1>0, <3>1, <3>2, <4>2
      <4> QED BY <4>1, <4>2
    <3>4. Total(picked[p])' = p.amount + p.fee
            + (IF Back(p) \in Rows' THEN utxos'[Back(p)].amount ELSE 0)
      BY <1>0, <2>1, <2>2, <3>3
    <3> QED BY <1>0, <2>2, <3>1, <3>4 DEF Covers, Paid, Back
  <2>3. CASE q # p
    <3>1. q \in pending /\ Covers(q)
      BY <1>0, <2>3 DEF MoneyInv
    <3>2. q.id # p.id
      BY <1>1, <2>3, <3>1, WalletAssumption DEF Shape
    <3>3. Back(q) \notin NewOutputs(p)
      BY <3>2 DEF NewOutputs, Paid, Back
    <3>4. Back(q) \in Rows' <=> Back(q) \in Rows
      BY <1>0, <3>3
    <3>5. Paid(q) \in Rows' /\ utxos'[Paid(q)].amount = q.amount
      BY <1>0, <3>1 DEF Covers
    <3>6. (IF Back(q) \in Rows' THEN utxos'[Back(q)].amount ELSE 0)
            = IF Back(q) \in Rows THEN utxos[Back(q)].amount ELSE 0
      BY <1>0, <3>4
    <3>7. Total(picked[q])' = q.amount + q.fee
            + (IF Back(q) \in Rows' THEN utxos'[Back(q)].amount ELSE 0)
      BY <2>1, <3>1, <3>6 DEF Covers
    <3> QED BY <3>5, <3>7 DEF Covers, Paid, Back
  <2> QED BY <2>2, <2>3
<1>7. InflationIsDoubleSpend'
  <2>1. PICK x \in Int, y \in Int :
          /\ x = Supply /\ y = SumFunctionOnSet(Amounts, picked[p] \ Unspent)
          /\ Supply' = x + y
    BY CommitSupply
  <2>2. PICK i, e : i = InitialSupply /\ e = SumFunctionOnSet(Extra, {o \in Rows : Uses(o) > 1})
    OBVIOUS
  <2>3. i \in Int /\ e \in Int
    <3>1. \A o \in Coins : CoinAmount[o] \in Int
      BY WalletAssumption
    <3>2. i \in Int
      BY <2>2, <3>1, WalletAssumption, SumType DEF InitialSupply
    <3> DEFINE M == {o \in Rows : Uses(o) > 1}
    <3>3. IsFiniteSet(M)
      BY <1>1, FS_Subset DEF Funded
    <3>4. ASSUME NEW o \in M PROVE Extra[o] \in Int
      <4>1. Uses(o) \in Nat /\ utxos[o].amount \in Nat
        BY <1>1, PendingIsFinite DEF Shape, Funded
      <4>2. \A m, n \in Nat : (m - 1) * n \in Int
        OBVIOUS
      <4>3. Extra[o] = (Uses(o) - 1) * utxos[o].amount
        BY DEF Extra, Amount
      <4> QED BY <4>1, <4>2, <4>3
    <3> HIDE DEF M
    <3>5. SumFunctionOnSet(Extra, M) \in Int
      BY <3>3, <3>4, SumType
    <3> QED BY <2>2, <3>2, <3>5 DEF M
  <2>4. x = i + e
    BY <2>1, <2>2 DEF MoneyInv, InflationIsDoubleSpend
  <2>5. SumFunctionOnSet(Extra', {o \in Rows' : Uses(o)' > 1}) = e + y
    BY <2>1, <2>2, CommitExtra, Zenon
  <2>6. x + y = i + (e + y)
    BY <2>3, <2>4
  <2>7. InitialSupply' = i
    BY <2>2 DEF InitialSupply
  <2> QED BY <2>1, <2>5, <2>6, <2>7, Zenon DEF InflationIsDoubleSpend
<1> QED BY <1>1, <1>4, <1>5, <1>6, <1>7 DEF MoneyInv

LEMMA MoneyStep == MoneyInv /\ [Next]_vars => MoneyInv'
<1> SUFFICES ASSUME MoneyInv, [Next]_vars PROVE MoneyInv'
  OBVIOUS
<1>0. WalletInv /\ WalletInv' /\ Shape /\ Recorded /\ Funded
  BY WalletStep DEF MoneyInv, WalletInv
<1>1. ASSUME NEW p \in Payments, Select(p) PROVE MoneyInv'
  <2>1. PICK S \in Selections(UnspentOf(p.from), Needed(p)) : picked' = [picked EXCEPT ![p] = S]
    BY <1>1 DEF Select
  <2>2. S \in SUBSET Rows /\ SumFunctionOnSet(Amounts, S) >= Needed(p)
    BY DEF Selections, UnspentOf, Unspent, Total
  <2>3. /\ phase[p] = "new" /\ phase' = [phase EXCEPT ![p] = "selected"]
        /\ utxos' = utxos /\ pending' = pending
    BY <1>1 DEF Select
  <2>4. Rows' = Rows /\ Unspent' = Unspent
    BY <2>3 DEF Rows, Unspent
  <2>5. \A q \in pending : picked'[q] = picked[q]
    BY <1>0, <2>1, <2>3 DEF Shape, Recorded
  <2>6. ASSUME NEW q \in Payments, phase'[q] = "selected"
        PROVE  picked'[q] \in SUBSET Rows /\ SumFunctionOnSet(Amounts, picked'[q]) >= Needed(q)
    <3>1. CASE q = p
      BY <1>0, <2>1, <2>2, <3>1 DEF Shape
    <3>2. CASE q # p
      BY <1>0, <2>1, <2>3, <2>6, <3>2 DEF Shape, Funded, Total
    <3> QED BY <3>1, <3>2
  <2> QED BY <1>0, <2>3, <2>4, <2>5, <2>6, MoneyQuiet
<1>2. ASSUME NEW p \in Payments, Commit(p) PROVE MoneyInv'
  BY <1>2, MoneyCommit
<1>3. ASSUME pending' = pending, picked' = picked, Rows' = Rows, Unspent' = Unspent,
             \A o \in Rows : utxos'[o].amount = utxos[o].amount,
             \A q \in Payments : phase'[q] = "selected" => phase[q] = "selected"
      PROVE  MoneyInv'
  <2>1. \A q \in Payments : phase'[q] = "selected" =>
          picked'[q] \in SUBSET Rows /\ SumFunctionOnSet(Amounts, picked'[q]) >= Needed(q)
    BY <1>0, <1>3 DEF Shape, Funded, Total
  <2> QED BY <1>0, <1>3, <2>1, MoneyQuiet
<1>4. ASSUME NEW p \in Payments, Refuse(p) \/ Fail(p) PROVE MoneyInv'
  <2>1. /\ phase' = [phase EXCEPT ![p] = "refused"] \/ phase' = [phase EXCEPT ![p] = "failed"]
        /\ UNCHANGED <<utxos, pending, picked>>
    BY <1>4 DEF Refuse, Fail
  <2>2. \A q \in Payments : phase'[q] = "selected" => phase[q] = "selected"
    BY <1>0, <2>1 DEF Shape
  <2>3. Rows' = Rows /\ Unspent' = Unspent
    BY <2>1 DEF Rows, Unspent
  <2> QED BY <1>3, <2>1, <2>2, <2>3
<1>5. ASSUME NEW o \in Outpoints, NEW b \in BOOLEAN, SetFrozen(o, b) PROVE MoneyInv'
  <2>1. /\ Rows' = Rows /\ Unspent' = Unspent
        /\ \A q \in Rows : utxos'[q].amount = utxos[q].amount
    BY <1>0, <1>5, FrozenRows
  <2>2. UNCHANGED <<pending, phase, picked>>
    BY <1>5 DEF SetFrozen, handlers
  <2> QED BY <1>3, <2>1, <2>2
<1>6. CASE \/ \E n \in Targets : AutoSelect(n)
           \/ \E o \in Outpoints : ReadRow(o)
           \/ SelectUtxos \/ ClearSelected
           \/ UNCHANGED vars
  <2>1. UNCHANGED <<utxos, pending, phase, picked>>
    BY <1>6 DEF AutoSelect, ReadRow, SelectUtxos, ClearSelected, handlers, vars
  <2>2. Rows' = Rows /\ Unspent' = Unspent
    BY <2>1 DEF Rows, Unspent
  <2> QED BY <1>3, <2>1, <2>2
<1> QED BY <1>1, <1>2, <1>4, <1>5, <1>6 DEF Next, Freeze, Unfreeze

(* Whatever the interleaving of handlers: what a payment records is covered  *)
(* by the outputs it spends, and the supply grows by exactly what recorded   *)
(* payments spend again (send_transaction, api.py:323).                      *)
THEOREM NoMoneyButBySpendingTwice == Spec => []SupplyAddsUp
<1>1. MoneyInv => SupplyAddsUp
  <2> SUFFICES ASSUME MoneyInv PROVE InputsAreSpent
    BY DEF SupplyAddsUp, MoneyInv
  <2>1. \A p \in pending : picked[p] \subseteq Rows \ Unspent
    BY DEF MoneyInv, WalletInv, Shape, PickedAreSpent
  <2> QED BY <2>1 DEF MoneyInv, Covers, InputsAreSpent
<1> QED
  BY <1>1, MoneyInit, MoneyStep, PTL DEF Spec
=============================================================================
