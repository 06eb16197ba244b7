----------------------------- MODULE HeadersSync -----------------------------
(***************************************************************************)
(* Headers-first synchronisation (network/headers_sync.py): threads that   *)
(* ask one peer after another for its headers from height 0, store them in *)
(* one table and then validate the whole table.  Rows are replaced by hash *)
(* and never removed.  The peers are external: each follows some branch    *)
(* and may change it between two requests.  As the hash of a header covers *)
(* everything before it, a header is named here by the part of its branch  *)
(* that ends with it.                                                      *)
(***************************************************************************)
EXTENDS Integers, Sequences, SequencesExt

CONSTANTS Fetchers,     \* threads in sync_headers
          Branches,     \* the chains of block names peers may serve
          PeerCount,    \* length of the list of peers a thread is given
          MaxSyncs      \* bound: calls of sync_headers

BlockNames == UNION {ToSet(b) : b \in Branches}

ASSUME HeadersAssumption ==
    PeerCount \in Nat \ {0} /\ MaxSyncs \in Nat /\ Branches \subseteq Seq(BlockNames)

VARIABLES
    headers,        \* block_headers
    inProgress,     \* sync_in_progress
    fetch,          \* what each thread is doing
    syncs,
    served,         \* history: the answers stored
    outcome         \* of each thread: its last answer, and what was served by then

hvars == <<headers, inProgress, fetch, syncs, served, outcome>>

\* What a peer answers: its chain so far, from height 0.
Answers == UNION {{SubSeq(b, 1, n) : n \in 1 .. Len(b)} : b \in Branches}
HeadersOf(answer) == {SubSeq(answer, 1, n) : n \in 1 .. Len(answer)}
HeightOf(header) == Len(header) - 1

\* left: peers still to ask.  ended: another thread's sync ended since it began.
NoFetch == [pc |-> "idle"]
NoOutcome == [valid |-> "none", served |-> {}]

HeadersTypeOK ==
    /\ headers \subseteq Answers /\ inProgress \in BOOLEAN
    /\ fetch \in [Fetchers -> {NoFetch} \cup [pc : {"ask", "stored", "done"}, left : 0 .. PeerCount,
                                              ended : BOOLEAN]]
    /\ syncs \in 0 .. MaxSyncs /\ served \subseteq Answers
    /\ outcome \in [Fetchers -> [valid : {"none", "yes", "no", "nothing"}, served : SUBSET Answers]]

HeadersInit ==
    /\ headers = {} /\ inProgress = FALSE
    /\ fetch = [f \in Fetchers |-> NoFetch] /\ syncs = 0
    /\ served = {} /\ outcome = [f \in Fetchers |-> NoOutcome]

-----------------------------------------------------------------------------
\* sync_headers is entered: nothing looks at the flag it sets.
BeginSync(f) ==
    /\ fetch[f] = NoFetch /\ syncs < MaxSyncs
    /\ inProgress' = TRUE /\ syncs' = syncs + 1
    /\ fetch' = [fetch EXCEPT ![f] = [pc |-> "ask", left |-> PeerCount, ended |-> FALSE]]
    /\ UNCHANGED <<headers, served, outcome>>

\* No answer, no headers in it, or an exception before the commit of the rows.
PeerFails(f) ==
    /\ fetch[f].pc = "ask" /\ fetch[f].left > 0
    /\ fetch' = [fetch EXCEPT ![f].left = @ - 1]
    /\ UNCHANGED <<headers, inProgress, syncs, served, outcome>>

\* Mutant: the rows of earlier downloads are dropped.
StoreOnly(answer) == headers' = HeadersOf(answer)

\* _store_headers: INSERT OR REPLACE by hash, one commit.
StoreHeaders(answer) == headers' = headers \cup HeadersOf(answer)

\* download_headers: the first peer that answers is the last one asked.
DownloadHeaders(f, answer) ==
    /\ fetch[f].pc = "ask" /\ fetch[f].left > 0
    /\ StoreHeaders(answer) /\ served' = served \cup {answer}
    /\ fetch' = [fetch EXCEPT ![f].pc = "stored"]
    /\ UNCHANGED <<inProgress, syncs, outcome>>

\* ORDER BY height: h may come right after g.
Follows(g, h) ==
    /\ g # h /\ Len(g) <= Len(h)
    /\ ~\E x \in headers : Len(g) < Len(x) /\ Len(x) < Len(h)

\* Mutant: only the heights are compared.
LinkedByHeight ==
    \A g, h \in headers : Follows(g, h) => HeightOf(h) >= HeightOf(g)

\* validate_header_chain: by height, each one above the one before and linked to it.
LinkedChain ==
    \A g, h \in headers :
        Follows(g, h) => HeightOf(h) = HeightOf(g) + 1 /\ Front(h) = g

Said(f, answer) == outcome' = [outcome EXCEPT ![f] = [valid |-> answer, served |-> served]]

\* The table is read after the download has committed, whatever came in between.
ValidateHeaders(f) ==
    /\ fetch[f].pc = "stored"
    /\ Said(f, IF LinkedChain THEN "yes" ELSE "no")
    /\ fetch' = [fetch EXCEPT ![f].pc = "done"]
    /\ UNCHANGED <<headers, inProgress, syncs, served>>

\* Every peer failed: the result has no "valid".
NothingSynced(f) ==
    /\ fetch[f].pc = "ask" /\ fetch[f].left = 0
    /\ Said(f, "nothing")
    /\ fetch' = [fetch EXCEPT ![f].pc = "done"]
    /\ UNCHANGED <<headers, inProgress, syncs, served>>

\* The others that run have seen a sync end.
Left(f) == [g \in Fetchers |-> IF g = f \/ fetch[g] = NoFetch THEN NoFetch
                               ELSE [fetch[g] EXCEPT !.ended = TRUE]]

EndSync(f) ==
    /\ fetch[f].pc = "done" /\ fetch' = Left(f)
    /\ inProgress' = FALSE /\ UNCHANGED <<headers, syncs, served, outcome>>

\* The SELECT raises out of sync_headers: the flag stays.
ValidationRaises(f) ==
    /\ fetch[f].pc = "stored" /\ fetch' = [fetch EXCEPT ![f] = NoFetch]
    /\ UNCHANGED <<headers, inProgress, syncs, served, outcome>>

HeadersNext ==
    \E f \in Fetchers :
        \/ BeginSync(f) \/ PeerFails(f) \/ ValidateHeaders(f) \/ NothingSynced(f)
        \/ EndSync(f) \/ ValidationRaises(f)
        \/ \E a \in Answers : DownloadHeaders(f, a)

HeadersSpec == HeadersInit /\ [][HeadersNext]_hvars

-----------------------------------------------------------------------------
\* Two peers, or one peer at two times, were on different branches.
Forked(answers) == \E a, b \in answers : ~IsPrefix(a, b) /\ ~IsPrefix(b, a)

(* "Validate header chain integrity": the answer is yes exactly as long as    *)
(* every answer ever stored, by whichever thread, was of one branch.  After   *)
(* one reorganisation of a peer no synchronisation is ever valid again.  And  *)
(* the flag is down during a synchronisation only when another one has ended. *)
HeadersFollowOneBranch ==
    \A f \in Fetchers :
        /\ outcome[f].valid = "yes" => ~Forked(outcome[f].served)
        /\ outcome[f].valid = "no" => Forked(outcome[f].served)
        /\ ~inProgress /\ fetch[f] # NoFetch => fetch[f].ended
=============================================================================
