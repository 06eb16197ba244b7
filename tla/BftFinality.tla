---------------------------- MODULE BftFinality -----------------------------
(***************************************************************************)
(* The BFT finality gadget (core/bft_finality.py) and the two endpoints    *)
(* that drive it (POST /validator/vote and GET /validator/finality in      *)
(* api.py).                                                                *)
(*                                                                         *)
(* Requests run in concurrent API workers on one SQLite file.  Python's    *)
(* sqlite3 opens a transaction only at the first write, so the "already    *)
(* voted" SELECT, the INSERT and its commit, the COUNT on a second         *)
(* connection and the INSERT OR REPLACE on a third are four separate steps *)
(* of a request, and any other worker may run between two of them.  A      *)
(* worker may be killed between any two steps; only the tables survive.    *)
(***************************************************************************)
EXTENDS Naturals, FiniteSets

CONSTANTS Workers,          \* concurrent API request handlers
          Heights,          \* block heights voted on
          Hashes,           \* block hashes voted for
          Validators,       \* the names that appear in vote requests
          TotalValidators,  \* total_validators, 21 in the deployed gadget
          EmptyHash,        \* the "" the finality endpoint asks about
          None,             \* no row
          MayCrash          \* whether workers may be killed

\* Mutant: the "+ 1" of a strict two-thirds majority is lost.
RequiredWithoutPlusOne == (TotalValidators * 2) \div 3

\* int(total_validators * 2 / 3) + 1
RequiredConsensus == (TotalValidators * 2) \div 3 + 1

\* The gadget never compares a voter with the validator set, so the code is
\* safe only while at most total_validators distinct names vote: the bound
\* validator.py states as MAX_VALIDATORS.
ASSUME ValidatorsAssumption ==
    /\ TotalValidators \in Nat
    /\ IsFiniteSet(Validators)
    /\ Cardinality(Validators) <= TotalValidators

ASSUME HashAssumption ==
    /\ None \notin Hashes
    /\ EmptyHash \notin Hashes
    /\ EmptyHash # None

ASSUME CrashAssumption == MayCrash \in BOOLEAN

VARIABLES votes,    \* bft_votes: the hash each validator voted for, by height
          final,    \* finalized_blocks: block_hash by height
          count,    \* finalized_blocks: votes_count by height
          req       \* the request each worker is executing

vars == <<votes, final, count, req>>

Idle == [pc |-> "idle"]

AnyHash == Hashes \cup {EmptyHash}

\* add_vote found no vote of its validator.
Checked == [pc : {"checked"}, height : Heights, validator : Validators, hash : Hashes]
\* check_finality is about to count.
Tallying == [pc : {"tally"}, height : Heights, hash : AnyHash]
\* check_finality counted a quorum (never for "", which nobody votes for).
Marking == [pc : {"mark"}, height : Heights, hash : Hashes, count : Nat]
\* The request is answered.
Answered == [pc : {"done"}, height : Heights, hash : AnyHash, finalized : BOOLEAN]

Request == {Idle} \cup Checked \cup Tallying \cup Marking \cup Answered

TypeOK ==
    /\ votes \in [Heights -> [Validators -> Hashes \cup {None}]]
    /\ final \in [Heights -> Hashes \cup {None}]
    /\ count \in [Heights -> Nat]
    /\ req \in [Workers -> Request]

Supporters(h, b) == {v \in Validators : votes[h][v] = b}

Init ==
    /\ votes = [h \in Heights |-> [v \in Validators |-> None]]
    /\ final = [h \in Heights |-> None]
    /\ count = [h \in Heights |-> 0]
    /\ req = [w \in Workers |-> Idle]

Free(w) == req[w].pc \in {"idle", "done"}

\* add_vote's SELECT finds no vote; with one it answers "Already voted".
CheckVote(w, h, v, b) ==
    /\ Free(w)
    /\ req' = [req EXCEPT ![w] =
         IF votes[h][v] = None
         THEN [pc |-> "checked", height |-> h, validator |-> v, hash |-> b]
         ELSE Idle]
    /\ UNCHANGED <<votes, final, count>>

\* Mutant: INSERT OR REPLACE, so a racing request overwrites the vote.
RecordVoteReplacing(w) ==
    /\ req[w].pc = "checked"
    /\ votes' = [votes EXCEPT ![req[w].height][req[w].validator] = req[w].hash]
    /\ req' = [req EXCEPT ![w] =
         [pc |-> "tally", height |-> req[w].height, hash |-> req[w].hash]]
    /\ UNCHANGED <<final, count>>

\* The INSERT and its commit.  The primary key (block_height, validator) makes
\* it raise when another worker recorded a vote of v since the SELECT.
RecordVote(w) ==
    /\ req[w].pc = "checked"
    /\ LET h == req[w].height
           v == req[w].validator
           b == req[w].hash
       IN \/ /\ votes[h][v] = None
             /\ votes' = [votes EXCEPT ![h][v] = b]
             /\ req' = [req EXCEPT ![w] = [pc |-> "tally", height |-> h, hash |-> b]]
          \/ /\ votes[h][v] # None
             /\ req' = [req EXCEPT ![w] = Idle]
             /\ UNCHANGED votes
    /\ UNCHANGED <<final, count>>

\* GET /validator/finality/<height> calls check_finality(height, "").
QueryFinality(w, h) ==
    /\ Free(w)
    /\ req' = [req EXCEPT ![w] = [pc |-> "tally", height |-> h, hash |-> EmptyHash]]
    /\ UNCHANGED <<votes, final, count>>

\* Mutant: the COUNT forgets "AND vote_hash = ?".
TallyAnyHash(w) ==
    /\ req[w].pc = "tally"
    /\ LET h == req[w].height
           b == req[w].hash
           n == Cardinality({v \in Validators : votes[h][v] # None})
       IN req' = [req EXCEPT ![w] =
            IF n >= RequiredConsensus
            THEN [pc |-> "mark", height |-> h, hash |-> b, count |-> n]
            ELSE [pc |-> "done", height |-> h, hash |-> b, finalized |-> FALSE]]
    /\ UNCHANGED <<votes, final, count>>

\* Mutant: the comparison is strict.
TallyStrict(w) ==
    /\ req[w].pc = "tally"
    /\ LET h == req[w].height
           b == req[w].hash
           n == Cardinality(Supporters(h, b))
       IN req' = [req EXCEPT ![w] =
            IF n > RequiredConsensus
            THEN [pc |-> "mark", height |-> h, hash |-> b, count |-> n]
            ELSE [pc |-> "done", height |-> h, hash |-> b, finalized |-> FALSE]]
    /\ UNCHANGED <<votes, final, count>>

\* Mutant: a quorum is answered but never written to finalized_blocks.
TallyWithoutMark(w) ==
    /\ req[w].pc = "tally"
    /\ req' = [req EXCEPT ![w] =
         [pc |-> "done", height |-> req[w].height, hash |-> req[w].hash,
          finalized |-> Cardinality(Supporters(req[w].height, req[w].hash))
                          >= RequiredConsensus]]
    /\ UNCHANGED <<votes, final, count>>

\* check_finality's COUNT(DISTINCT validator) and comparison.
Tally(w) ==
    /\ req[w].pc = "tally"
    /\ LET h == req[w].height
           b == req[w].hash
           n == Cardinality(Supporters(h, b))
       IN req' = [req EXCEPT ![w] =
            IF n >= RequiredConsensus
            THEN [pc |-> "mark", height |-> h, hash |-> b, count |-> n]
            ELSE [pc |-> "done", height |-> h, hash |-> b, finalized |-> FALSE]]
    /\ UNCHANGED <<votes, final, count>>

\* _mark_finalized: INSERT OR REPLACE, so the last marker's row stays.
MarkFinalized(w) ==
    /\ req[w].pc = "mark"
    /\ LET h == req[w].height
           b == req[w].hash
       IN /\ final' = [final EXCEPT ![h] = b]
          /\ count' = [count EXCEPT ![h] = req[w].count]
          /\ req' = [req EXCEPT ![w] =
               [pc |-> "done", height |-> h, hash |-> b, finalized |-> TRUE]]
    /\ UNCHANGED votes

\* The worker's process dies; what it committed stays.
Crash(w) ==
    /\ MayCrash
    /\ req[w] # Idle
    /\ req' = [req EXCEPT ![w] = Idle]
    /\ UNCHANGED <<votes, final, count>>

Step(w) == RecordVote(w) \/ Tally(w) \/ MarkFinalized(w)

Arrive(w) ==
    \/ \E h \in Heights, v \in Validators, b \in Hashes : CheckVote(w, h, v, b)
    \/ \E h \in Heights : QueryFinality(w, h)

Next == \E w \in Workers : Arrive(w) \/ Step(w) \/ Crash(w)

Spec == Init /\ [][Next]_vars

\* A started handler runs to its end: Flask never abandons a request, and
\* SQLite grants the write lock within the 30 s timeout of every connection.
FairSpec == Spec /\ \A w \in Workers : WF_vars(Step(w))

-----------------------------------------------------------------------------
(* get_finality_status: GROUP BY vote_hash ORDER BY COUNT( * ) DESC, first row *)
Leading(h) ==
    {b \in Hashes :
        /\ Supporters(h, b) # {}
        /\ \A c \in Hashes :
              Cardinality(Supporters(h, c)) <= Cardinality(Supporters(h, b))}

-----------------------------------------------------------------------------
(* Every row of finalized_blocks is backed by recorded votes: a two-thirds   *)
(* quorum voted for that very hash at that height, and votes_count, although *)
(* a slower worker may have replaced it with an older count, is a quorum and *)
(* no more than the votes on record.                                         *)
FinalizedHasQuorum ==
    \A h \in Heights :
        final[h] # None
            => /\ final[h] \in Hashes
               /\ count[h] >= RequiredConsensus
               /\ count[h] <= Cardinality(Supporters(h, final[h]))

(* A worker about to mark a height carries a count that was a quorum when it *)
(* was taken and that the votes on record still cover.                       *)
MarkHasQuorum ==
    \A w \in Workers :
        req[w].pc = "mark"
            => /\ req[w].count >= RequiredConsensus
               /\ req[w].count <= Cardinality(Supporters(req[w].height, req[w].hash))

(* A client that was answered "finalized" for a hash finds that hash in      *)
(* finalized_blocks, whatever other workers did or died in the meantime.     *)
AnswerIsDurable ==
    \A w \in Workers :
        req[w].pc = "done" /\ req[w].finalized
            => final[req[w].height] = req[w].hash

(* The inductive invariant: rows, marks in flight and answers together.      *)
IInv == TypeOK /\ FinalizedHasQuorum /\ MarkHasQuorum /\ AnswerIsDurable

(* get_finality_status never reports a finalized height with a leading hash  *)
(* other than the finalized one: no second hash can even tie with it.        *)
LeaderIsFinal ==
    \A h \in Heights : final[h] # None => Leading(h) = {final[h]}

(* No request, however it races with another one for the same validator,     *)
(* changes or removes a vote that is on record.                              *)
VotesAreKept ==
    [][\A h \in Heights, v \in Validators :
          votes[h][v] # None => votes'[h][v] = votes[h][v]]_vars

(* The table of finalized blocks implements the promise of Finality: each    *)
(* height is decided at most once, although _mark_finalized is an INSERT OR  *)
(* REPLACE any worker may execute at any time.                               *)
Promise == INSTANCE Finality
ImplementsFinality == Promise!Spec

(* When no worker is killed, a quorum on record is followed by finalization, *)
(* although every request counts before it knows of later votes.             *)
QuorumIsFinalized ==
    \A h \in Heights, b \in Hashes :
        Cardinality(Supporters(h, b)) >= RequiredConsensus ~> final[h] = b
=============================================================================
