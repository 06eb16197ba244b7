----------------------------- MODULE FeeEstimates -----------------------------
(***************************************************************************)
(* The fee estimator of src/core/fee_estimator.py: the fees per byte of    *)
(* the last MaxFees (1000) transactions, the mean fees of the last         *)
(* MaxBlocks (100) blocks and the fee_history table, and the estimates     *)
(* made from them: percentiles of the first, never under a tier.           *)
(***************************************************************************)
EXTENDS Integers, Sequences, FiniteSets, SequencesExt, Selection

CONSTANTS Offers,       \* [fee, size] a transaction may have
          Tiers,        \* FEE_TIERS
          MaxFees, MaxBlocks,
          MaxHistory    \* bound on the rows of fee_history

ASSUMPTION EstimatorAssumption ==
    /\ Offers \subseteq [fee : Nat, size : Nat]
    /\ Tiers \in [{"economy", "low", "medium", "high", "priority"} -> Nat]
    /\ Tiers["economy"] <= Tiers["low"] /\ Tiers["low"] <= Tiers["medium"]
    /\ Tiers["medium"] <= Tiers["high"] /\ Tiers["high"] <= Tiers["priority"]
    /\ MaxFees \in Nat \ {0} /\ MaxBlocks \in Nat \ {0} /\ MaxHistory \in Nat

VARIABLES
    mempoolFees,   \* deque of fees per byte, oldest first
    blockFees,     \* deque of mean fees of the blocks of this process
    history        \* the fee_history table: [avg, min, max, count]

fvars == <<mempoolFees, blockFees, history>>

EstimatorTypeOK ==
    /\ mempoolFees \in Seq(Nat) /\ Len(mempoolFees) <= MaxFees
    /\ blockFees \in Seq(Nat) /\ Len(blockFees) <= MaxBlocks
    /\ history \in Seq([avg : Nat, min : Nat, max : Nat, count : Nat])

EstimatorInit == mempoolFees = <<>> /\ blockFees = <<>> /\ history = <<>>

-----------------------------------------------------------------------------
\* A bounded deque drops its oldest element.
Kept(s, v, max) == IF Len(s) < max THEN Append(s, v) ELSE Append(Tail(s), v)

\* add_transaction_fee.
AddTransactionFee(t) ==
    /\ mempoolFees' =
          Kept(mempoolFees, IF t.size > 0 THEN t.fee \div t.size ELSE t.fee, MaxFees)
    /\ UNCHANGED <<blockFees, history>>

\* record_block_fees: transactions without a fee are left out, a size of zero
\* raises, and so may the INSERT; a block of them alone records nothing.
Charged(txs) == Selected(txs, {t \in Offers : t.fee > 0})

RecordBlockFees(txs) ==
    /\ Charged(txs) # <<>> /\ \A k \in 1 .. Len(Charged(txs)) : Charged(txs)[k].size > 0
    /\ Len(history) < MaxHistory
    /\ LET n == Len(Charged(txs))
           fees == [k \in 1 .. n |-> Charged(txs)[k].fee \div Charged(txs)[k].size]
           avg == SumFunctionOnSet(fees, 1 .. n) \div n
           low == CHOOSE f \in {fees[k] : k \in 1 .. n} : \A k \in 1 .. n : f <= fees[k]
           high == CHOOSE f \in {fees[k] : k \in 1 .. n} : \A k \in 1 .. n : f >= fees[k]
       IN /\ history' = Append(history, [avg |-> avg, min |-> low, max |-> high, count |-> n])
          /\ blockFees' = Kept(blockFees, avg, MaxBlocks)
    /\ UNCHANGED mempoolFees

\* The process starts again: the deques are empty, the table is not read.
RestartEstimator == mempoolFees' = <<>> /\ blockFees' = <<>> /\ UNCHANGED history

EstimatorNext ==
    \/ \E t \in Offers : AddTransactionFee(t)
    \/ \E t, u \in Offers : RecordBlockFees(<<t, u>>)
    \/ RestartEstimator

EstimatorSpec == EstimatorInit /\ [][EstimatorNext]_fvars

-----------------------------------------------------------------------------
Higher(a, b) == IF a >= b THEN a ELSE b

\* sorted(mempool_fees)[k - 1]: the least fee with k fees that are not above.
NotAbove(f) == {k \in DOMAIN mempoolFees : mempoolFees[k] <= f}
Ranked(k) == CHOOSE f \in Range(mempoolFees) :
    /\ Cardinality(NotAbove(f)) >= k
    /\ \A g \in Range(mempoolFees) : Cardinality(NotAbove(g)) >= k => f <= g

\* sorted_fees[int(n * percent / 100)], counted from zero.
Percentile(percent) == Ranked((Len(mempoolFees) * percent) \div 100 + 1)

\* Mutant: the median is taken of the fees as they came.
MedianUnsorted == LET n == Len(mempoolFees) IN
    IF n % 2 = 1 THEN mempoolFees[(n + 1) \div 2]
    ELSE (mempoolFees[n \div 2] + mempoolFees[n \div 2 + 1]) \div 2

\* statistics.median, cut to an integer.
Median == LET n == Len(mempoolFees) IN
    IF n % 2 = 1 THEN Ranked((n + 1) \div 2)
    ELSE (Ranked(n \div 2) + Ranked(n \div 2 + 1)) \div 2

\* estimate_fee for a target of so many blocks.
EstimateFee(target) ==
    LET some == mempoolFees # <<>>
    IN CASE target = 1 ->
              IF some THEN Higher(Percentile(95), Tiers["priority"]) ELSE Tiers["priority"]
         [] target \in 2 .. 3 ->
              IF some THEN Higher(Percentile(75), Tiers["high"]) ELSE Tiers["high"]
         [] target \in 4 .. 6 ->
              IF some THEN Higher(Median, Tiers["medium"]) ELSE Tiers["medium"]
         [] OTHER -> Tiers["economy"]

\* get_dynamic_recommendation: the same percentiles; slow is a tier.
Recommendation ==
    LET some == mempoolFees # <<>>
    IN [fastest |-> IF some THEN Higher(Percentile(95), Tiers["priority"]) ELSE Tiers["priority"],
        fast |-> IF some THEN Higher(Percentile(75), Tiers["high"]) ELSE Tiers["high"],
        medium |-> IF some THEN Higher(Median, Tiers["medium"]) ELSE Tiers["medium"],
        slow |-> Tiers["low"]]

\* Whatever fees were seen, in whatever order, waiting longer never costs
\* more: neither through the targets nor through the recommendation.
WaitingIsNotDearer ==
    /\ \A target \in 1 .. 6 : EstimateFee(target) >= EstimateFee(target + 1)
    /\ LET r == Recommendation
       IN r.fastest >= r.fast /\ r.fast >= r.medium /\ r.medium >= r.slow
=============================================================================
