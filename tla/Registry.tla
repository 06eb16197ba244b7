------------------------------ MODULE Registry ------------------------------
(***************************************************************************)
(* The registers of the API: governance votes (api.py), wallets registered *)
(* for voting (api.py, voting/api.py), ballots (voting/api.py), airdrop    *)
(* claims (core/airdrop.py), validator bonds (core/validator.py) and tiered*)
(* elections (api.py).  Every handler first reads (a balance on a          *)
(* connection of its own, or the row that would forbid the request) and    *)
(* then writes in one transaction; other requests, and payments that move  *)
(* the coins, come in between.  No table has a unique key over what its    *)
(* handler checked.                                                        *)
(***************************************************************************)
EXTENDS Integers, FiniteSets, Functions

CONSTANTS Clerks,         \* handlers at work at the same time
          Accounts,       \* addresses
          Proposals,      \* governance proposals
          Nothing,        \* no choice
          Wealth,         \* unspent base units of each account at the start
          Amounts,        \* amounts asked for in a bond, offered in an airdrop
          MinimumBond,    \* ValidatorManager.MINIMUM_BOND, compared with base units
          VoteMinimum,    \* one EKUSH
          ProposerMinimum,\* what a proposer must hold
          TierFees,       \* ELECTION_FEES
          MaxCalls,       \* bound: requests handled
          MaxTransfers    \* bound: payments between accounts

VoteChoices == {"yes", "no", "abstain"}
\* The registers and what a row of them is about: the vote on a proposal, the two
\* lists of voters (one in SQLite, one in RocksDB), the ballot of a voter id (the
\* id of its "wallet" row) and the airdrop.
Tables == {"vote", "voter", "wallet", "ballot", "claim"}
Key == Tables \X (Proposals \cup Nat) \X Accounts

ASSUME RegistryAssumption ==
    /\ Wealth \in [Accounts -> Nat] /\ Amounts \subseteq Nat \ {0}
    /\ TierFees \subseteq Nat
    /\ MinimumBond \in Nat /\ ProposerMinimum \in Nat /\ VoteMinimum \in Nat
    /\ MaxCalls \in Nat /\ MaxTransfers \in Nat
    /\ IsFiniteSet(Accounts) /\ Nothing \notin VoteChoices /\ Proposals \cap Nat = {}

VARIABLES
    coins,      \* SUM(amount) of the unspent outputs of each account
    rows,       \* rows written to the registers
    tally,      \* yes_votes, no_votes and abstain_votes of the proposals made
    allotted,   \* airdrop_recipients: amount of each recipient, 0 without a row
    bonded,     \* validators: bonded_amount, 0 without a row
    elections,  \* elections: creator and fee_paid
    call,       \* the request each worker handles
    calls, transfers

rvars == <<coins, rows, tally, allotted, bonded, elections, call, calls, transfers>>

\* A row.  known is history: the highest id when its handler looked for an
\* earlier row with this key.
Row == [id : Nat, key : Key, choice : VoteChoices \cup {Nothing}, power : Nat, known : Nat]
NoCall == [pc |-> "idle"]
Call == {NoCall}
    \cup [pc : {"propose"}, who : Accounts, item : Proposals]
    \cup [pc : {"bond", "elect"}, who : Accounts, power : Nat]
    \cup [pc : {"weighed"}, key : Key, choice : VoteChoices, power : Nat]
    \cup [pc : {"checked"}, key : Key, choice : VoteChoices \cup {Nothing}, power : Nat,
          known : Nat]

RegistryTypeOK ==
    /\ coins \in [Accounts -> Nat]
    /\ rows \subseteq Row
    /\ DOMAIN tally \subseteq Proposals
    /\ \A p \in DOMAIN tally : tally[p] \in [VoteChoices -> Nat]
    /\ allotted \in [Accounts -> Nat] /\ bonded \in [Accounts -> Nat]
    /\ elections \subseteq [creator : Accounts, fee : Nat]
    /\ call \in [Clerks -> Call]
    /\ calls \in Nat /\ transfers \in Nat

RegistryInit ==
    /\ coins = Wealth
    /\ rows = {} /\ tally = << >>
    /\ allotted = [a \in Accounts |-> 0] /\ bonded = [a \in Accounts |-> 0]
    /\ elections = {}
    /\ call = [w \in Clerks |-> NoCall]
    /\ calls = 0 /\ transfers = 0

Tabled == <<rows, tally, allotted, bonded, elections>>
LastRow == Cardinality(rows)
Written(key) == \E r \in rows : r.key = key

\* A worker takes a request: what it has read so far.
Take(w, c) ==
    /\ call[w] = NoCall /\ calls < MaxCalls
    /\ call' = [call EXCEPT ![w] = c] /\ calls' = calls + 1
    /\ UNCHANGED <<coins, Tabled, transfers>>

Answer(w) == call' = [call EXCEPT ![w] = NoCall] /\ UNCHANGED <<coins, calls, transfers>>

-----------------------------------------------------------------------------
(* get_real_balance on its own connection, and the limits that compare it.   *)
ProposeGovernance(w, a, p) ==
    /\ p \notin DOMAIN tally /\ coins[a] >= ProposerMinimum
    /\ Take(w, [pc |-> "propose", who |-> a, item |-> p])

InsertProposal(w) ==
    /\ call[w].pc = "propose" /\ call[w].item \notin DOMAIN tally
    /\ tally' = [p \in DOMAIN tally \cup {call[w].item} |->
                   IF p \in DOMAIN tally THEN tally[p] ELSE [c \in VoteChoices |-> 0]]
    /\ Answer(w)
    /\ UNCHANGED <<rows, allotted, bonded, elections>>

VoteGovernance(w, a, p, c) ==
    /\ p \in DOMAIN tally /\ coins[a] >= VoteMinimum
    /\ Take(w, [pc |-> "weighed", key |-> <<"vote", p, a>>, choice |-> c, power |-> coins[a]])

\* Mutant: the query looks for a vote on any other proposal.
CheckAnyVote(w) ==
    /\ call[w].pc = "weighed"
    /\ call' = [call EXCEPT ![w] =
         [pc |-> "checked", key |-> call[w].key, choice |-> call[w].choice,
          power |-> call[w].power, known |-> LastRow]]
    /\ UNCHANGED <<coins, Tabled, calls, transfers>>

\* The SELECT found no vote; a second connection than the balance was read on.
CheckVote(w) ==
    /\ call[w].pc = "weighed" /\ ~ Written(call[w].key)
    /\ call' = [call EXCEPT ![w] =
         [pc |-> "checked", key |-> call[w].key, choice |-> call[w].choice,
          power |-> call[w].power, known |-> LastRow]]
    /\ UNCHANGED <<coins, Tabled, calls, transfers>>

\* "Already voted"
RefuseVote(w) ==
    /\ call[w].pc = "weighed" /\ Written(call[w].key)
    /\ Answer(w) /\ UNCHANGED Tabled

Write(w) ==
    rows' = rows \cup {[id |-> LastRow + 1, key |-> call[w].key, choice |-> call[w].choice,
                        power |-> call[w].power, known |-> call[w].known]}

\* Mutant: the vote counts with what the voter holds at the commit.
RecordVoteNow(w) ==
    LET p == call[w].key[2]
    IN /\ call[w].pc = "checked" /\ call[w].key[1] = "vote"
       /\ Write(w)
       /\ tally' = [tally EXCEPT ![p][call[w].choice] = @ + coins[call[w].key[3]]]
       /\ Answer(w)
       /\ UNCHANGED <<allotted, bonded, elections>>

\* INSERT of the row and UPDATE of the tally in one transaction.
RecordVote(w) ==
    LET p == call[w].key[2]
    IN /\ call[w].pc = "checked" /\ call[w].key[1] = "vote"
       /\ Write(w)
       /\ tally' = [tally EXCEPT ![p][call[w].choice] = @ + call[w].power]
       /\ Answer(w)
       /\ UNCHANGED <<allotted, bonded, elections>>

\* The answer of governance_results: the sums, and whether the yes votes pass.
TotalPower(p) == SumFunctionOnSet(tally[p], VoteChoices)
Passes(p, quorum) ==
    /\ TotalPower(p) >= quorum
    /\ 100 * tally[p]["yes"] >= 67 * TotalPower(p)

-----------------------------------------------------------------------------
(* The registers that only look for an earlier row.                          *)
Look(w, key, choice, power) ==
    /\ ~ Written(key)
    /\ Take(w, [pc |-> "checked", key |-> key, choice |-> choice, power |-> power,
                known |-> LastRow])

\* POST /voter/register_with_wallet: the SELECT for the wallet found nothing.
RegisterWithWallet(w, a) == Look(w, <<"voter", 0, a>>, Nothing, 0)

\* The voting service walks its RocksDB records for the wallet.
RegisterWallet(w, a) == Look(w, <<"wallet", 0, a>>, Nothing, 0)

\* The voting service reads the voter's record: has_voted is 0.
CastVote(w, voter, c) ==
    /\ voter.key[1] = "wallet"
    /\ Look(w, <<"ballot", voter.id, voter.key[3]>>, c, 0)

\* SELECT amount, claimed ... WHERE claimed = 0 found the recipient.
ClaimAirdrop(w, a) ==
    /\ allotted[a] > 0
    /\ Look(w, <<"claim", 0, a>>, Nothing, allotted[a])

\* The INSERT, the UPDATE claimed = 1 or the put of the whole record: without a
\* second look, so the record of the handler that writes last stays.
Enter(w) ==
    /\ call[w].pc = "checked" /\ call[w].key[1] # "vote"
    /\ Write(w) /\ Answer(w)
    /\ UNCHANGED <<tally, allotted, bonded, elections>>

\* Mutant: INSERT OR REPLACE.
GenerateReplacing(S, amount) ==
    /\ calls < MaxCalls /\ calls' = calls + 1
    /\ allotted' = [a \in Accounts |-> IF a \in S THEN amount ELSE allotted[a]]
    /\ UNCHANGED <<coins, rows, tally, bonded, elections, call, transfers>>

\* generate_wallets: the addresses depend on the second and the position only,
\* and INSERT OR IGNORE keeps the row of an address that is there.
GenerateWallets(S, amount) ==
    /\ calls < MaxCalls /\ calls' = calls + 1
    /\ allotted' = [a \in Accounts |->
         IF a \in S /\ allotted[a] = 0 THEN amount ELSE allotted[a]]
    /\ UNCHANGED <<coins, rows, tally, bonded, elections, call, transfers>>

-----------------------------------------------------------------------------
\* Mutant: the balance is compared with the minimum only.
BondUnchecked(w, a, amount) ==
    /\ amount >= MinimumBond /\ coins[a] >= MinimumBond
    /\ Take(w, [pc |-> "bond", who |-> a, power |-> amount])

\* bond: the amount against the minimum and against a balance.
Bond(w, a, amount) ==
    /\ amount >= MinimumBond /\ coins[a] >= amount
    /\ Take(w, [pc |-> "bond", who |-> a, power |-> amount])

\* INSERT OR REPLACE and its commit; the answer then fails with a NameError.
\* Nothing is locked and nothing compares the rows with MAX_VALIDATORS.
InsertValidator(w) ==
    /\ call[w].pc = "bond"
    /\ bonded' = [bonded EXCEPT ![call[w].who] = call[w].power]
    /\ Answer(w)
    /\ UNCHANGED <<rows, tally, allotted, elections>>

\* create_tiered_election: the creator must hold the fee of the tier ...
CreateTieredElection(w, a, fee) ==
    /\ fee > 0 => coins[a] >= fee
    /\ Take(w, [pc |-> "elect", who |-> a, power |-> fee])

\* ... which is written to fee_paid and not taken from anybody.
InsertElection(w) ==
    /\ call[w].pc = "elect"
    /\ elections' = elections \cup {[creator |-> call[w].who, fee |-> call[w].power]}
    /\ Answer(w)
    /\ UNCHANGED <<rows, tally, allotted, bonded>>

\* The worker is killed, or the database stays locked: nothing is written.
Abandon(w) == call[w] # NoCall /\ Answer(w) /\ UNCHANGED Tabled

\* A payment through the wallet API (module UtxoWallet).
Transfer(a, b) ==
    /\ a # b /\ coins[a] > 0 /\ transfers < MaxTransfers
    /\ coins' = [coins EXCEPT ![a] = 0, ![b] = @ + coins[a]]
    /\ transfers' = transfers + 1
    /\ UNCHANGED <<Tabled, call, calls>>

RegistryNext ==
    \/ \E w \in Clerks :
         \/ \E a \in Accounts :
              \/ \E p \in Proposals :
                   \/ ProposeGovernance(w, a, p)
                   \/ \E c \in VoteChoices : VoteGovernance(w, a, p, c)
              \/ RegisterWithWallet(w, a) \/ RegisterWallet(w, a) \/ ClaimAirdrop(w, a)
              \/ \E n \in Amounts : Bond(w, a, n)
              \/ \E f \in TierFees : CreateTieredElection(w, a, f)
         \/ \E voter \in rows, c \in VoteChoices : CastVote(w, voter, c)
         \/ InsertProposal(w) \/ CheckVote(w) \/ RefuseVote(w) \/ RecordVote(w)
         \/ Enter(w) \/ InsertValidator(w) \/ InsertElection(w) \/ Abandon(w)
    \/ \E S \in SUBSET Accounts \ {{}}, n \in Amounts : GenerateWallets(S, n)
    \/ \E a, b \in Accounts : Transfer(a, b)

RegistrySpec == RegistryInit /\ [][RegistryNext]_rvars

-----------------------------------------------------------------------------
(* "Already voted", "Wallet already registered", "No airdrop found": a key   *)
(* is written a second time only by a handler that had looked for it before  *)
(* the first row was committed.                                              *)
SecondEntryOverlaps ==
    \A e, f \in rows : e.key = f.key /\ e.id < f.id => f.known < e.id

Votes(p) == {r \in rows : r.key[1] = "vote" /\ r.key[2] = p}
Repeated(p) == \E e, f \in Votes(p) : e # f /\ e.key = f.key

Powers == [r \in rows |-> r.power]
Total(f) == SumFunctionOnSet(f, Accounts)

(* However votes race with each other and with payments, the tally of a      *)
(* proposal is the sum of its rows, choice by choice, and what a claim was   *)
(* answered is what the airdrop table still grants.  A vote and a bond lock  *)
(* nothing, yet more power votes on a proposal than there are coins only if  *)
(* coins moved or a vote was doubled, and more is bonded than there is only  *)
(* if coins moved.                                                           *)
PowerIsAccounted ==
    /\ \A p \in DOMAIN tally, c \in VoteChoices :
          tally[p][c] = SumFunctionOnSet(Powers, {r \in Votes(p) : r.choice = c})
    /\ \A r \in rows : r.key[1] = "claim" => r.power = allotted[r.key[3]]
    /\ transfers = 0 =>
          /\ Total(bonded) <= Total(Wealth)
          /\ \A p \in DOMAIN tally :
                TotalPower(p) > Total(Wealth) => Repeated(p)
=============================================================================
