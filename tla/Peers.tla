------------------------------- MODULE Peers --------------------------------
(***************************************************************************)
(* The HTTP node's peers (network/p2p.py) and its address manager          *)
(* (core/addrmgr.py).  Calls that add a peer or judge its behaviour are    *)
(* short; broadcasts, pings and synchronisation iterate over the set of    *)
(* peers and wait for the network at every peer, so other calls come in    *)
(* between, and their own judgements change the set they iterate over.     *)
(* Scores are counted in half points.                                      *)
(***************************************************************************)
EXTENDS Integers, Sequences, FiniteSets, SequencesExt, Selection

CONSTANTS Urls,         \* peer addresses
          NoUrl,        \* no peer is waited for
          NoScore,      \* no PeerScore object
          FullScore,    \* 200 half points
          MaxPeers,     \* MAX_PEERS
          Bucket,       \* _get_bucket: the two tables hash an address alike
          BucketSize,   \* NEW_BUCKET_SIZE
          TriedAfter,   \* successes that move an address to the tried table
          ForgetAfter,  \* failures that remove it
          LowestScore   \* bound: answers that only cost points stop there

ASSUME PeersAssumption ==
    /\ FullScore \in Nat \ {0} /\ MaxPeers \in Nat \ {0} /\ BucketSize \in Nat \ {0}
    /\ TriedAfter \in Nat \ {0} /\ ForgetAfter \in Nat \ {0}
    /\ DOMAIN Bucket = Urls /\ LowestScore \in Int /\ NoScore \notin Int /\ NoUrl \notin Urls

VARIABLES
    peers,      \* self.peers
    score,      \* peer_scores: the score of each url, or NoScore
    banned,     \* the urls with banned = True
    round,      \* the loop over the peers that is going on
    seen,       \* addr_info, least recently seen first
    fresh,      \* the addresses in the buckets of new
    tried,      \* the addresses in the buckets of tried
    wins, fails \* success_count (up to TriedAfter) and fail_count

scores == <<peers, score, banned>>
addresses == <<seen, fresh, tried, wins, fails>>
pvars == <<scores, round, addresses>>

\* A round: who it started with, their number, who it has met, who it waits for.
NoRound == [kind |-> "none"]
Round == {NoRound} \cup [kind : {"probe", "tx", "sync"}, start : SUBSET Urls,
                         size : Nat, done : SUBSET Urls, at : Urls \cup {NoUrl}]

PeersTypeOK ==
    /\ peers \subseteq Urls /\ banned \subseteq Urls
    /\ score \in [Urls -> Int \cup {NoScore}]
    /\ round \in Round
    /\ ToSet(seen) \subseteq Urls /\ IsInjective(seen)
    /\ fresh \subseteq Urls /\ tried \subseteq Urls
    /\ wins \in [Urls -> 0 .. TriedAfter] /\ fails \in [Urls -> 0 .. ForgetAfter]

PeersInit ==
    /\ peers = {} /\ banned = {} /\ score = [u \in Urls |-> NoScore]
    /\ round = NoRound
    /\ seen = << >> /\ fresh = {} /\ tried = {}
    /\ wins = [u \in Urls |-> 0] /\ fails = [u \in Urls |-> 0]

-----------------------------------------------------------------------------
(* AddrMan *)
Known == ToSet(seen)
\* Mutant: the address keeps its old place as well.
RefreshedTwice(u) == Append(seen, u)

Refreshed(u) == Append(Selected(seen, Urls \ {u}), u)
InBucket(b, table) == {u \in table : Bucket[u] = b}

\* Mutant: the bucket is trimmed although the address is only refreshed.
AddAddressTrimming(u) ==
    LET full == InBucket(Bucket[u], fresh)
        oldest == {v \in full : \A x \in full : v = x \/
                      \E i, j \in DOMAIN seen : seen[i] = v /\ seen[j] = x /\ i < j}
    IN /\ seen' = Refreshed(u)
       /\ fresh' = {u} \cup (IF Cardinality(full) >= BucketSize THEN fresh \ oldest ELSE fresh)
       /\ wins' = [wins EXCEPT ![u] = 0] /\ fails' = [fails EXCEPT ![u] = 0]
       /\ UNCHANGED tried

\* add_address: a known address is only refreshed; a new one goes to its new
\* bucket, out of which the address seen longest ago is dropped when it is full
\* (it stays in addr_info).
AddAddress(u) ==
    IF u \in Known
    THEN seen' = Refreshed(u) /\ UNCHANGED <<fresh, tried, wins, fails>>
    ELSE LET full == InBucket(Bucket[u], fresh)
             oldest == {v \in full : \A x \in full : v = x \/
                           \E i, j \in DOMAIN seen : seen[i] = v /\ seen[j] = x /\ i < j}
         IN /\ seen' = Append(seen, u)
            /\ fresh' = {u} \cup (IF Cardinality(full) >= BucketSize
                                  THEN fresh \ oldest ELSE fresh)
            /\ wins' = [wins EXCEPT ![u] = 0] /\ fails' = [fails EXCEPT ![u] = 0]
            /\ UNCHANGED tried

\* mark_success: the third success moves an address that is still in its new
\* bucket; the tried bucket has no limit here.
MarkSuccess(u) ==
    LET n == IF wins[u] < TriedAfter THEN wins[u] + 1 ELSE TriedAfter
        moves == n = TriedAfter /\ u \in fresh
    IN /\ u \in Known
       /\ seen' = Refreshed(u) /\ wins' = [wins EXCEPT ![u] = n]
       /\ fresh' = IF moves THEN fresh \ {u} ELSE fresh
       /\ tried' = IF moves THEN tried \cup {u} ELSE tried
       /\ UNCHANGED <<scores, round, fails>>

\* Mutant: the address is not taken out of the tried table.
MarkFailureKeepingTried(u) ==
    LET gone == fails[u] + 1 >= ForgetAfter
    IN /\ u \in Known
       /\ fails' = [fails EXCEPT ![u] = IF gone THEN 0 ELSE @ + 1]
       /\ wins' = IF gone THEN [wins EXCEPT ![u] = 0] ELSE wins
       /\ seen' = IF gone THEN Selected(seen, Urls \ {u}) ELSE seen
       /\ fresh' = IF gone THEN fresh \ {u} ELSE fresh
       /\ UNCHANGED <<scores, round, tried>>

\* mark_failure and remove_address: the counts go with the entry.
MarkFailure(u) ==
    LET gone == fails[u] + 1 >= ForgetAfter
    IN /\ u \in Known
       /\ fails' = [fails EXCEPT ![u] = IF gone THEN 0 ELSE @ + 1]
       /\ wins' = IF gone THEN [wins EXCEPT ![u] = 0] ELSE wins
       /\ seen' = IF gone THEN Selected(seen, Urls \ {u}) ELSE seen
       /\ fresh' = IF gone THEN fresh \ {u} ELSE fresh
       /\ tried' = IF gone THEN tried \ {u} ELSE tried
       /\ UNCHANGED <<scores, round>>

\* get_peer_for_connection offers one address of each bucket in use (ten tried
\* buckets, then new ones): never two of one bucket, never one in no bucket.
Offers(S) ==
    /\ S \subseteq fresh \cup tried
    /\ \A u, v \in S : Bucket[u] = Bucket[v] => u = v

-----------------------------------------------------------------------------
(* Scores *)
ScoreOf(s, u) == IF s[u] = NoScore THEN FullScore ELSE s[u]
Capped(n) == IF n > FullScore THEN FullScore ELSE n

\* The record_* methods: what each behaviour, and each latency, does to the
\* score.  Slow answers never ban.
Judged(n, behaviour) ==
    CASE behaviour = "valid_block" -> Capped(n + 2)
      [] behaviour = "valid_tx" -> Capped(n + 1)
      [] behaviour = "fast" -> Capped(n + 1)
      [] behaviour = "slow" -> n - 2
      [] behaviour = "timeout" -> n - 4
      [] behaviour = "invalid_tx" -> n - 20
      [] behaviour = "invalid_block" -> n - 40
Behaviours == {"valid_block", "valid_tx", "invalid_block", "invalid_tx", "timeout"}
Bans(behaviour) == behaviour \in {"timeout", "invalid_tx", "invalid_block"}

\* Mutant: the banned peer stays in the set.
JudgeKeeping(u, n, behaviour) ==
    LET m == IF u \in banned THEN n ELSE Judged(n, behaviour)
        out == u \notin banned /\ Bans(behaviour) /\ m <= 0
    IN /\ score' = [score EXCEPT ![u] = m]
       /\ banned' = IF out THEN banned \cup {u} ELSE banned
       /\ UNCHANGED peers

\* record_peer_behavior, of a peer whose score is n: nothing more is recorded
\* of a banned peer; a ban takes the peer out of the set, whoever iterates over it.
Judge(u, n, behaviour) ==
    LET m == IF u \in banned THEN n ELSE Judged(n, behaviour)
        out == u \notin banned /\ Bans(behaviour) /\ m <= 0
    IN /\ score' = [score EXCEPT ![u] = m]
       /\ banned' = IF out THEN banned \cup {u} ELSE banned
       /\ peers' = IF out THEN peers \ {u} ELSE peers

RecordPeerBehavior(u, behaviour) ==
    /\ u \notin banned
    /\ Judge(u, ScoreOf(score, u), behaviour)
    /\ UNCHANGED <<round, addresses>>

\* Mutant: room is made one peer too late.
AddPeerLate(u) ==
    /\ u \notin banned
    /\ LET s == [score EXCEPT ![u] = ScoreOf(score, u)]
           worst == {v \in Urls : s[v] # NoScore
                        /\ \A x \in Urls : s[x] # NoScore => s[v] <= s[x]}
       IN /\ score' = s
          /\ \E v \in worst :
                peers' = {u} \cup (IF Cardinality(peers) > MaxPeers THEN peers \ {v} ELSE peers)
    /\ AddAddress(u)
    /\ UNCHANGED <<banned, round>>

\* add_peer with _evict_worst_peer: asking whether the peer is banned gives it a
\* score, and the one dropped is a worst of everybody who ever had a score.
AddPeer(u) ==
    /\ u \notin banned
    /\ LET s == [score EXCEPT ![u] = ScoreOf(score, u)]
           worst == {v \in Urls : s[v] # NoScore
                        /\ \A x \in Urls : s[x] # NoScore => s[v] <= s[x]}
       IN /\ score' = s
          /\ \E v \in worst :
                peers' = {u} \cup (IF Cardinality(peers) >= MaxPeers THEN peers \ {v} ELSE peers)
    /\ AddAddress(u)
    /\ UNCHANGED <<banned, round>>

-----------------------------------------------------------------------------
(* Rounds over the set of peers *)
StartRound(kind) ==
    /\ round = NoRound /\ peers # {}
    /\ round' = [kind |-> kind, start |-> peers, size |-> Cardinality(peers),
                 done |-> {}, at |-> NoUrl]
    /\ UNCHANGED <<scores, addresses>>

\* The iterator compares sizes only.  While the set is the one it started with,
\* every peer comes once; a set that changed and has its old size again may be
\* met in any order.  A banned peer was taken out of the set, so the test for
\* banned peers finds none.
Visit(u) ==
    /\ round # NoRound /\ round.at = NoUrl /\ u \in peers
    /\ Cardinality(peers) = round.size
    /\ peers = round.start => u \notin round.done
    /\ round' = [round EXCEPT !.done = @ \cup {u}, !.at = u]
    /\ UNCHANGED <<scores, addresses>>

\* The latency of the peer's answer, recorded even if it was banned meanwhile.
Latencies == {"fast", "slow"}
Timed(latency) ==
    /\ latency = "slow" => score[round.at] > LowestScore
    /\ score' = [score EXCEPT ![round.at] = Judged(@, latency)]
    /\ UNCHANGED <<peers, banned>>

\* The answer, or none, after the wait.
Heard(kind) ==
    /\ round.kind = kind /\ round.at # NoUrl
    /\ round' = [round EXCEPT !.at = NoUrl]
    /\ UNCHANGED addresses

\* broadcast_block and ping_peers: a latency or a timeout.
Probe ==
    /\ Heard("probe")
    /\ \/ \E l \in Latencies : Timed(l)
       \/ Judge(round.at, score[round.at], "timeout")

\* broadcast_transaction also reads the answer as JSON, after its latency was
\* recorded: one that is not JSON costs a timeout on top.
BroadcastTransaction ==
    /\ Heard("tx")
    /\ \/ \E l \in Latencies : Timed(l)
       \/ Judge(round.at, score[round.at], "timeout")
       \/ \E l \in Latencies : Judge(round.at, Judged(score[round.at], l), "timeout")

\* A peer with a longer chain earns a point; its chain is not taken over.
SyncWithPeers ==
    /\ Heard("sync")
    /\ \/ \E j \in {"valid_block", "timeout"} : Judge(round.at, score[round.at], j)
       \/ UNCHANGED scores

EndRound ==
    /\ round # NoRound /\ round.at = NoUrl /\ Cardinality(peers) = round.size
    /\ peers = round.start => peers \subseteq round.done
    /\ round' = NoRound /\ UNCHANGED <<scores, addresses>>

\* RuntimeError: Set changed size during iteration.
RoundDies ==
    /\ round # NoRound /\ round.at = NoUrl /\ Cardinality(peers) # round.size
    /\ round' = NoRound /\ UNCHANGED <<scores, addresses>>

\* What the scores depend on, and what the addresses depend on: a new peer is
\* added to both, and what is known of its address never decides over a peer.
ScoresNext ==
    \/ \E u \in Urls :
         \/ AddPeer(u) \/ Visit(u)
         \/ \E b \in Behaviours : RecordPeerBehavior(u, b)
    \/ \E k \in {"probe", "tx", "sync"} : StartRound(k)
    \/ Probe \/ BroadcastTransaction \/ SyncWithPeers
    \/ EndRound \/ RoundDies
AddressesNext == \E u \in Urls : AddPeer(u) \/ MarkSuccess(u) \/ MarkFailure(u)

PeersNext == ScoresNext \/ AddressesNext
PeersSpec == PeersInit /\ [][PeersNext]_pvars

-----------------------------------------------------------------------------
(* "Peer is banned, rejecting connection": whatever rounds are going on, a   *)
(* banned peer is not in the set, and it never comes back.                   *)
BannedIsOut == banned \cap peers = {}

(* "MAX_PEERS = 125": the set grows past its limit only because the peer to  *)
(* be evicted, a worst of all scores ever kept, was not in it.               *)
OverfullNeedsAGhost ==
    [][Cardinality(peers') > MaxPeers /\ Cardinality(peers') > Cardinality(peers)
         => \E g \in Urls \ peers :
               \A p \in peers : ScoreOf(score', g) <= ScoreOf(score', p)]_pvars

(* "organizing peers into diverse buckets": an address in a bucket is known, *)
(* is in one table only, no new bucket is over its size, and no address is   *)
(* offered from a bucket it was dropped from.                                *)
AddressesAgree ==
    /\ fresh \cup tried \subseteq Known
    /\ fresh \cap tried = {}
    /\ \A u \in fresh : Cardinality(InBucket(Bucket[u], fresh)) <= BucketSize
    /\ \A S \in SUBSET Urls : Offers(S) => S \subseteq Known

(* Whatever rounds and judgements overlap, the set of peers keeps its ban and *)
(* the two tables of addresses keep in step.                                  *)
PeersAgree == BannedIsOut /\ AddressesAgree
=============================================================================
