----------------------------- MODULE Node_proofs -----------------------------
(***************************************************************************)
(* What the parts of a node that MCNode puts side by side keep, for any    *)
(* threads, blocks, hashes, addresses, peers and payments: the download of *)
(* blocks and of headers, the inventory of announced blocks, the table of  *)
(* peers and the addresses, the listening server, compact blocks, the      *)
(* shutdown and the two interpreters.                                      *)
(***************************************************************************)
EXTENDS MCNode, Store_proofs,
        DataTheorems, FiniteSetTheorems, SequenceTheorems, TLAPS

(***************************************************************************)
(* The download of blocks                                                  *)
(***************************************************************************)

Downloading == {t \in Syncs : sync[t] # Idle}
Saving == {t \in Downloading : sync[t].pc = "save"}

(* While no INSERT failed, the table is a prefix that reaches the miner's    *)
(* tip and everything a thread counted or is about to store.                 *)
PrefixReaches(n) ==
    /\ rows = 0 .. n - 1 /\ tip <= n
    /\ \A t \in Downloading : sync[t].from <= n
    /\ \A t \in Saving : sync[t].lo <= n

(* A thread whose table nobody else extends has counted all of it, and what  *)
(* it saved of an answer is what it has gone through.                        *)
Counted(n) ==
    \A t \in Downloading : ~sync[t].rival =>
        /\ sync[t].from = n
        /\ sync[t].pc = "save" =>
             /\ sync[t].lo = n /\ sync[t].lo <= sync[t].hi + 1 /\ sync[t].size > 0
             /\ sync[t].got = sync[t].size - (sync[t].hi + 1 - sync[t].lo)

SyncRecords == \A t \in Syncs : sync[t] \in Sync

DownloadInv ==
    /\ IsFiniteSet(rows) /\ tip \in Nat /\ locked \in BOOLEAN
    /\ DOMAIN sync = Syncs /\ SyncRecords
    /\ ~locked => \E n \in Nat : PrefixReaches(n) /\ Counted(n)
    /\ RepeatNeedsARival

\* The smaller of two integers.
LEMMA SmallerOfTwo ==
  ASSUME NEW a \in Int, NEW b \in Int
  PROVE  Min({a, b}) \in {a, b} /\ Min({a, b}) <= a /\ Min({a, b}) <= b
<1>1. \E x \in {a, b} : \A y \in {a, b} : x <= y
  OBVIOUS
<1> QED
  BY <1>1 DEF Min

\* What a record of a thread holds.
LEMMA SyncRecord ==
  ASSUME NEW r \in Sync, r # Idle
  PROVE  /\ r.pc \in {"ask", "save"} /\ r.from \in Nat /\ r.lo \in Nat /\ r.hi \in Int
         /\ r.got \in Nat /\ r.size \in Nat /\ r.again \in BOOLEAN /\ r.rival \in BOOLEAN
  BY DEF Sync, Idle

\* A record keeps everything but its rival when somebody else stores a block.
LEMMA OthersRecord ==
  ASSUME NEW r \in Sync, r # Idle
  PROVE  LET q == [r EXCEPT !.rival = TRUE]
         IN /\ q \in Sync /\ q # Idle /\ q.rival /\ q.pc = r.pc /\ q.from = r.from
            /\ q.lo = r.lo /\ q.again = r.again
  BY SyncRecord DEF Sync, Idle

\* What a block that is passed over makes of a record.
LEMMA PassedRecord ==
  ASSUME NEW r \in Sync, r # Idle, NEW h \in Nat
  PROVE  LET q == [r EXCEPT !.lo = h + 1]
         IN /\ q \in Sync /\ q # Idle /\ q.pc = r.pc /\ q.lo = h + 1 /\ q.from = r.from
            /\ q.got = r.got /\ q.hi = r.hi /\ q.size = r.size
            /\ q.again = r.again /\ q.rival = r.rival
  BY SyncRecord DEF Sync, Idle

\* What a block that is stored makes of a record.
LEMMA StoredRecord ==
  ASSUME NEW r \in Sync, r # Idle
  PROVE  LET q == [r EXCEPT !.from = @ + 1, !.got = @ + 1]
         IN /\ q \in Sync /\ q # Idle /\ q.pc = r.pc /\ q.lo = r.lo /\ q.from = r.from + 1
            /\ q.got = r.got + 1 /\ q.hi = r.hi /\ q.size = r.size
            /\ q.again = r.again /\ q.rival = r.rival
<1>1. r.from + 1 \in Nat /\ r.got + 1 \in Nat
  BY SyncRecord
<1> QED
  BY <1>1, SyncRecord DEF Sync, Idle

\* A thread that ends leaves what the others know as it is.
LEMMA Rested ==
  ASSUME DownloadInv, NEW t \in Syncs, sync' = [sync EXCEPT ![t] = Idle],
         UNCHANGED <<rows, tip, locked>>
  PROVE  DownloadInv'
<1>1. \A n \in Nat : PrefixReaches(n) /\ Counted(n) => (PrefixReaches(n) /\ Counted(n))'
  BY DEF DownloadInv, PrefixReaches, Counted, Downloading, Saving
<1> QED
  BY <1>1 DEF DownloadInv, SyncRecords, Sync, RepeatNeedsARival

\* The node starts with a prefix that is its miner's, and nobody downloads.
LEMMA DownloadInit == BlockSyncInit => DownloadInv
<1> SUFFICES ASSUME BlockSyncInit PROVE DownloadInv
  OBVIOUS
<1> USE BlockSyncAssumption
<1>1. IsFiniteSet(rows)
  BY FS_Interval DEF BlockSyncInit
<1>2. PrefixReaches(Stored) /\ Counted(Stored)
  BY DEF BlockSyncInit, PrefixReaches, Counted, Downloading, Saving
<1> QED
  BY <1>1, <1>2 DEF DownloadInv, BlockSyncInit, SyncRecords, Sync, RepeatNeedsARival

\* Every step of a thread and of the miner keeps the invariant.
LEMMA DownloadStep == DownloadInv /\ [BlockSyncNext]_bvars => DownloadInv'
<1> SUFFICES ASSUME DownloadInv, [BlockSyncNext]_bvars PROVE DownloadInv'
  OBVIOUS
<1> USE BlockSyncAssumption DEF DownloadInv
<1>1. ASSUME NEW t \in Syncs, StartSync(t) PROVE DownloadInv'
  <2> DEFINE r == [pc |-> "ask", from |-> Cardinality(rows), lo |-> 0, hi |-> -1,
                   got |-> 0, size |-> 0, again |-> FALSE, rival |-> FALSE]
  <2>1. Cardinality(rows) \in Nat
    BY FS_CardinalityType
  <2>2. r \in Sync /\ r.pc = "ask" /\ r.from = Cardinality(rows) /\ ~r.again
    BY <2>1 DEF Sync
  <2> HIDE DEF r
  <2>3. sync' = [sync EXCEPT ![t] = r] /\ UNCHANGED <<rows, tip, locked>>
    BY <1>1 DEF StartSync, r
  <2>4. ASSUME NEW n \in Nat, PrefixReaches(n), Counted(n)
        PROVE  PrefixReaches(n)' /\ Counted(n)'
    <3>1. Cardinality(rows) = n
      BY <2>4, FS_Interval DEF PrefixReaches
    <3> QED
      BY <2>2, <2>3, <2>4, <3>1 DEF PrefixReaches, Counted, Downloading, Saving
  <2> QED
    BY <2>2, <2>3, <2>4 DEF SyncRecords, RepeatNeedsARival
<1>2. ASSUME NEW t \in Syncs, GetBlocks(t) PROVE DownloadInv'
  <2> DEFINE first == sync[t].from
             last == Min({first + Batch, Remote}) - 1
             r == [sync[t] EXCEPT !.pc = "save", !.lo = first, !.hi = last,
                                  !.size = last - first + 1, !.got = 0]
  <2>1. sync[t] \in Sync /\ sync[t] # Idle
    BY <1>2 DEF GetBlocks, SyncRecords, Idle
  <2>2. first \in Nat /\ last \in Int
    <3>1. first \in Nat /\ first + Batch \in Int /\ Remote \in Int
      BY <2>1, SyncRecord
    <3>2. Min({first + Batch, Remote}) \in {first + Batch, Remote}
      BY <3>1, SmallerOfTwo
    <3> HIDE DEF first
    <3> QED
      BY <3>1, <3>2
  <2>3. CASE first <= last /\ sync' = [sync EXCEPT ![t] = r]
    <3>1. r \in Sync /\ r # Idle /\ r.pc = "save" /\ r.lo = first /\ r.hi = last
          /\ r.size = last - first + 1 /\ r.got = 0 /\ r.from = first
          /\ r.again = sync[t].again /\ r.rival = sync[t].rival
      <4> DEFINE q == sync[t]
                 size == last - first + 1
      <4>1. q \in Sync /\ q # Idle
        BY <2>1
      <4>2. first \in Nat /\ last \in Int /\ size \in Nat
        BY <2>2, <2>3
      <4>3. r = [q EXCEPT !.pc = "save", !.lo = first, !.hi = last, !.size = size, !.got = 0]
        OBVIOUS
      <4>4. q.from = first /\ size = last - first + 1
        OBVIOUS
      <4> HIDE DEF r, last, first, q, size
      <4>5. LET z == [q EXCEPT !.pc = "save", !.lo = first, !.hi = last, !.size = size, !.got = 0]
            IN /\ z \in Sync /\ z # Idle /\ z.pc = "save" /\ z.lo = first /\ z.hi = last
               /\ z.size = size /\ z.got = 0 /\ z.from = q.from
               /\ z.again = q.again /\ z.rival = q.rival
        BY <4>1, <4>2, SyncRecord DEF Sync, Idle
      <4>6. /\ r \in Sync /\ r # Idle /\ r.pc = "save" /\ r.lo = first /\ r.hi = last
            /\ r.size = size /\ r.got = 0 /\ r.from = q.from
            /\ r.again = q.again /\ r.rival = q.rival
        BY <4>3, <4>5, Zenon
      <4> QED
        BY <4>4, <4>6 DEF q
    <3> HIDE DEF r, last
    <3>2. UNCHANGED <<rows, tip, locked>>
      BY <1>2 DEF GetBlocks
    <3>3. ASSUME NEW n \in Nat, PrefixReaches(n), Counted(n)
          PROVE  PrefixReaches(n)' /\ Counted(n)'
      BY <2>1, <2>2, <2>3, <3>1, <3>2, <3>3 DEF PrefixReaches, Counted, Downloading, Saving
    <3> QED
      BY <2>1, <2>3, <3>1, <3>2, <3>3 DEF SyncRecords, RepeatNeedsARival
  <2>4. CASE sync' = [sync EXCEPT ![t] = Idle]
    BY <1>2, <2>4, Rested DEF GetBlocks
  <2>5. sync' = [sync EXCEPT ![t].pc = "save", ![t].lo = first, ![t].hi = last,
                             ![t].size = last - first + 1, ![t].got = 0]
          => sync' = [sync EXCEPT ![t] = r]
    OBVIOUS
  <2> QED
    BY <1>2, <2>3, <2>4, <2>5 DEF GetBlocks
<1>3. ASSUME NEW t \in Syncs, SaveSyncedBlock(t) PROVE DownloadInv'
  <2> DEFINE h == sync[t].lo
             next == [sync[t] EXCEPT !.lo = h + 1]
             more == [next EXCEPT !.from = @ + 1, !.got = @ + 1]
  <2>1. sync[t] \in Sync /\ sync[t] # Idle /\ sync[t].pc = "save" /\ h <= sync[t].hi
    BY <1>3 DEF SaveSyncedBlock, SyncRecords, Idle
  <2>2. /\ h \in Nat /\ sync[t].hi \in Int /\ sync[t].from \in Nat /\ sync[t].got \in Nat
        /\ sync[t].size \in Nat /\ UNCHANGED <<tip, locked>>
    BY <1>3, <2>1, SyncRecord DEF SaveSyncedBlock
  <2>3. CASE h \in rows
    <3>1. sync' = [sync EXCEPT ![t] = next] /\ UNCHANGED rows
      BY <1>3, <2>3 DEF SaveSyncedBlock
    <3>2. next \in Sync /\ next # Idle /\ next.pc = "save" /\ next.lo = h + 1
          /\ next.from = sync[t].from /\ next.again = sync[t].again
          /\ next.rival = sync[t].rival
      BY <2>1, <2>2 DEF Sync, Idle
    <3> HIDE DEF next
    <3>3. ASSUME NEW n \in Nat, PrefixReaches(n), Counted(n)
          PROVE  PrefixReaches(n)' /\ Counted(n)'
      <4> HIDE DEF next, more
      <4>1. h < n /\ sync[t].rival
        BY <2>1, <2>2, <2>3, <3>3, SyncRecord DEF PrefixReaches, Counted, Downloading
      <4>2. h + 1 \in Nat /\ h + 1 <= n
        BY <2>2, <4>1
      <4>3. sync'[t] = next /\ \A u \in Syncs \ {t} : sync'[u] = sync[u]
        BY <3>1
      <4>4. PrefixReaches(n)'
        BY <2>1, <2>2, <3>1, <3>2, <3>3, <4>2, <4>3 DEF PrefixReaches, Downloading, Saving
      <4>5. Counted(n)'
        <5>1. ASSUME NEW u \in Downloading', ~sync'[u].rival
              PROVE  u \in Downloading /\ sync'[u] = sync[u]
          BY <3>2, <4>1, <4>3, <5>1 DEF Downloading
        <5> QED
          BY <3>3, <5>1 DEF Counted
      <4> QED
        BY <4>4, <4>5
    <3> QED
      BY <2>1, <2>2, <3>1, <3>2, <3>3 DEF SyncRecords, RepeatNeedsARival
  <2>4. CASE h \notin rows
    <3>1. rows' = rows \cup {h} /\ sync' = [Rivals(t) EXCEPT ![t] = more]
      BY <1>3, <2>4 DEF SaveSyncedBlock
    <3>2. more \in Sync /\ more # Idle /\ more.pc = "save" /\ more.lo = h + 1
          /\ more.from = sync[t].from + 1 /\ more.got = sync[t].got + 1
          /\ more.hi = sync[t].hi /\ more.size = sync[t].size
          /\ more.again = sync[t].again /\ more.rival = sync[t].rival
      <4> DEFINE r == sync[t]
      <4>1. r \in Sync /\ r # Idle /\ h \in Nat
        BY <2>1, <2>2
      <4> HIDE DEF r, h
      <4>2. next \in Sync /\ next # Idle /\ next.pc = r.pc /\ next.lo = h + 1
            /\ next.from = r.from /\ next.got = r.got /\ next.hi = r.hi
            /\ next.size = r.size /\ next.again = r.again /\ next.rival = r.rival
        BY <4>1, PassedRecord DEF r
      <4> HIDE DEF next
      <4>3. more \in Sync /\ more # Idle /\ more.pc = next.pc /\ more.lo = next.lo
            /\ more.from = next.from + 1 /\ more.got = next.got + 1 /\ more.hi = next.hi
            /\ more.size = next.size /\ more.again = next.again /\ more.rival = next.rival
        BY <4>2, StoredRecord
      <4> QED
        BY <2>1, <4>2, <4>3 DEF r
    <3> HIDE DEF next, more
    <3>3. /\ DOMAIN sync' = Syncs /\ sync'[t] = more
          /\ \A u \in Syncs \ {t} : sync'[u] = IF sync[u] = Idle THEN Idle
                                            ELSE [sync[u] EXCEPT !.rival = TRUE]
      BY <3>1 DEF Rivals
    <3>4. ASSUME NEW n \in Nat, PrefixReaches(n), Counted(n)
          PROVE  PrefixReaches(n + 1)' /\ Counted(n + 1)'
      <4>1. h = n
        BY <2>1, <2>2, <2>4, <3>4 DEF PrefixReaches, Saving, Downloading
      <4>2. rows' = 0 .. (n + 1) - 1
        BY <3>1, <3>4, <4>1 DEF PrefixReaches
      <4>3. \A u \in Syncs \ {t} : sync'[u] # Idle =>
               /\ sync[u] # Idle /\ sync'[u].rival /\ sync'[u].from = sync[u].from
               /\ sync'[u].lo = sync[u].lo /\ sync'[u].pc = sync[u].pc
        <5> SUFFICES ASSUME NEW u \in Syncs \ {t}, sync[u] # Idle
                     PROVE  LET q == [sync[u] EXCEPT !.rival = TRUE]
                            IN /\ q.rival /\ q.from = sync[u].from
                               /\ q.lo = sync[u].lo /\ q.pc = sync[u].pc
          BY <3>3, Zenon
        <5>1. sync[u] \in Sync
          BY DEF SyncRecords
        <5> QED
          BY <5>1, OthersRecord
      <4>4. PrefixReaches(n + 1)'
        <5>1. sync'[t].from <= n + 1 /\ sync'[t].lo <= n + 1
          BY <2>1, <2>2, <3>2, <3>3, <3>4, <4>1 DEF PrefixReaches, Downloading
        <5>2. ASSUME NEW u \in Syncs \ {t}, sync'[u] # Idle
              PROVE  sync'[u].from <= n + 1 /\ (sync'[u].pc = "save" => sync'[u].lo <= n + 1)
          <6>1. sync[u].from \in Nat /\ sync[u].lo \in Nat
            BY <4>3, <5>2, SyncRecord DEF SyncRecords
          <6>2. sync[u].from <= n /\ (sync[u].pc = "save" => sync[u].lo <= n)
            BY <3>4, <4>3, <5>2 DEF PrefixReaches, Downloading, Saving
          <6> QED
            BY <4>3, <5>2, <6>1, <6>2
        <5>3. tip' <= n + 1
          BY <2>2, <3>4 DEF PrefixReaches
        <5> QED
          BY <4>2, <5>1, <5>2, <5>3 DEF PrefixReaches, Downloading, Saving
      <4>5. Counted(n + 1)'
        BY <2>1, <2>2, <3>2, <3>3, <3>4, <4>1, <4>3 DEF Counted, Downloading
      <4> QED
        BY <4>4, <4>5
    <3>5. IsFiniteSet(rows')
      BY <3>1, FS_AddElement
    <3>6. SyncRecords' /\ RepeatNeedsARival'
      <4>1. ASSUME NEW u \in Syncs \ {t}, sync[u] # Idle
            PROVE  sync'[u] \in Sync /\ sync'[u].rival
        <5>1. sync[u] \in Sync /\ sync'[u] = [sync[u] EXCEPT !.rival = TRUE]
          BY <3>3, <4>1 DEF SyncRecords
        <5> QED
          BY <4>1, <5>1, OthersRecord
      <4>2. \A u \in Syncs \ {t} : sync[u] = Idle => sync'[u] = Idle
        BY <3>3
      <4> QED
        BY <2>1, <2>2, <3>2, <3>3, <4>1, <4>2 DEF SyncRecords, RepeatNeedsARival, Sync
    <3> QED
      BY <2>2, <3>3, <3>4, <3>5, <3>6
  <2> QED
    BY <2>3, <2>4
<1>4. ASSUME NEW t \in Syncs, LoseBlock(t) PROVE DownloadInv'
  <2> DEFINE r == [sync[t] EXCEPT !.lo = @ + 1]
  <2>1. sync[t] \in Sync /\ sync[t] # Idle
    BY <1>4 DEF LoseBlock, SyncRecords, Idle
  <2>2. r \in Sync
    BY <2>1, SyncRecord DEF Sync, Idle
  <2>3. sync' = [sync EXCEPT ![t] = r] /\ locked' /\ UNCHANGED <<rows, tip>>
    BY <1>4 DEF LoseBlock
  <2> QED
    BY <2>2, <2>3 DEF SyncRecords, RepeatNeedsARival
<1>5. ASSUME NEW t \in Syncs, EndBatch(t) PROVE DownloadInv'
  <2> DEFINE r == [sync[t] EXCEPT !.pc = "ask", !.again = @ \/ sync[t].got = 0]
  <2>1. sync[t] \in Sync /\ sync[t] # Idle /\ sync[t].pc = "save" /\ sync[t].lo > sync[t].hi
        /\ UNCHANGED <<rows, tip, locked>>
    BY <1>5 DEF EndBatch, SyncRecords, Idle
  <2>2. CASE sync' = [sync EXCEPT ![t] = Idle]
    BY <2>1, <2>2, Rested
  <2>3. CASE sync' = [sync EXCEPT ![t] = r]
    <3>1. r \in Sync /\ r # Idle /\ r.pc = "ask" /\ r.from = sync[t].from
          /\ r.again = (sync[t].again \/ sync[t].got = 0) /\ r.rival = sync[t].rival
      BY <2>1, SyncRecord DEF Sync, Idle
    <3> HIDE DEF r
    <3>2. ASSUME NEW n \in Nat, PrefixReaches(n), Counted(n)
          PROVE  PrefixReaches(n)' /\ Counted(n)'
      BY <2>1, <2>3, <3>1, <3>2 DEF PrefixReaches, Counted, Downloading, Saving
    <3>3. ~locked /\ ~sync[t].rival => sync[t].got # 0
      BY <2>1, SyncRecord DEF Counted, Downloading
    <3> QED
      BY <2>1, <2>3, <3>1, <3>2, <3>3 DEF SyncRecords, RepeatNeedsARival
  <2> QED
    BY <1>5, <2>2, <2>3 DEF EndBatch
<1>6. CASE MineBlock
  <2>1. /\ tip' = tip + 1 /\ rows' = rows \cup {tip} /\ DOMAIN sync' = Syncs /\ locked' = locked
        /\ \A u \in Syncs : sync'[u] = IF sync[u] = Idle THEN Idle
                                      ELSE [sync[u] EXCEPT !.rival = TRUE]
    BY <1>6 DEF MineBlock
  <2>2. \A u \in Syncs : sync'[u] # Idle =>
           /\ sync[u] # Idle /\ sync'[u].rival /\ sync'[u].from = sync[u].from
           /\ sync'[u].lo = sync[u].lo /\ sync'[u].pc = sync[u].pc
    <3> SUFFICES ASSUME NEW u \in Syncs, sync[u] # Idle
                 PROVE  LET q == [sync[u] EXCEPT !.rival = TRUE]
                        IN /\ q.rival /\ q.from = sync[u].from
                           /\ q.lo = sync[u].lo /\ q.pc = sync[u].pc
      BY <2>1, Zenon
    <3>1. sync[u] \in Sync
      BY DEF SyncRecords
    <3> QED
      BY <3>1, OthersRecord
  <2>4. ASSUME NEW n \in Nat, PrefixReaches(n)
        PROVE  \E m \in Nat : PrefixReaches(m)' /\ Counted(m)'
    <3>1. PICK m \in {n, n + 1} : n <= m /\ tip + 1 <= m /\ rows' = 0 .. m - 1
      <4>1. CASE tip = n
        BY <2>1, <2>4, <4>1 DEF PrefixReaches
      <4>2. CASE tip < n
        BY <2>1, <2>4, <4>2 DEF PrefixReaches
      <4> QED
        BY <2>4, <4>1, <4>2 DEF PrefixReaches
    <3>2. PrefixReaches(m)'
      BY <2>1, <2>2, <2>4, <3>1, SyncRecord DEF PrefixReaches, Downloading, Saving, SyncRecords
    <3>3. Counted(m)'
      BY <2>1, <2>2 DEF Counted, Downloading
    <3> QED
      BY <3>1, <3>2, <3>3
  <2>5. SyncRecords' /\ RepeatNeedsARival'
    BY <2>1, <2>2, OthersRecord DEF SyncRecords, RepeatNeedsARival
  <2>6. IsFiniteSet(rows')
    BY <2>1, FS_AddElement
  <2> QED
    BY <2>1, <2>4, <2>5, <2>6
<1>7. CASE UNCHANGED bvars
  <2>1. \A n \in Nat : PrefixReaches(n) /\ Counted(n) => (PrefixReaches(n) /\ Counted(n))'
    BY <1>7 DEF bvars, PrefixReaches, Counted, Downloading, Saving
  <2> QED
    BY <1>7, <2>1 DEF bvars, SyncRecords, RepeatNeedsARival
<1> QED
  BY <1>1, <1>2, <1>3, <1>4, <1>5, <1>6, <1>7 DEF BlockSyncNext

(* Only a failed INSERT leaves a gap in the table, and only another actor's  *)
(* blocks, or one, make a thread ask for the same blocks again.              *)
THEOREM GapsAndRepeatsHaveACause == BlockSyncSpec => []DownloadsAreAccounted
<1>1. DownloadInv => DownloadsAreAccounted
  <2> SUFFICES ASSUME DownloadInv, ~locked PROVE rows = 0 .. Cardinality(rows) - 1
    BY DEF DownloadInv, DownloadsAreAccounted, GapNeedsAFailure
  <2>1. PICK n \in Nat : rows = 0 .. n - 1
    BY DEF DownloadInv, PrefixReaches
  <2>2. Cardinality(rows) = n
    BY <2>1, FS_Interval
  <2> QED
    BY <2>1, <2>2
<1> QED
  BY <1>1, DownloadInit, DownloadStep, PTL DEF BlockSyncSpec

(***************************************************************************)
(* The inventory of announced blocks                                       *)
(***************************************************************************)

Granted == Cardinality(asked)

InventoryShape ==
    /\ asked \subseteq Asked /\ IsFiniteSet(asked)
    /\ requested \in [Invs -> Nat] /\ received \subseteq Invs
    /\ thread \in [Threads -> Thread] /\ cleaner \in Cleaner /\ clock \in Nat
    /\ \A x \in dropped : x \in 1 .. Granted

(* Requests are numbered in the order of their times. *)
Numbered ==
    /\ \A a \in asked : a.id \in 1 .. Granted /\ a.at <= clock
    /\ \A a, b \in asked : a.id = b.id => a = b
    /\ \A a, b \in asked : a.id <= b.id => a.at <= b.at

(* The dictionary holds requests that were granted. *)
HeldWereAsked ==
    \A h \in Pending : \E a \in asked : a.id = requested[h] /\ a.inv = h

(* The cleanup thread dropped the request or one that had replaced it. *)
WentWith(e) ==
    \E d \in asked : d.inv = e.inv /\ e.id <= d.id /\ d.id \in dropped

(* Until its hash is received a request is held, replaced or dropped. *)
HeldOrGone ==
    \A e \in asked : e.inv \in received \/ WentWith(e) \/ e.id <= requested[e.inv]

(* What a thread concluded stays true of the requests it could see. *)
ThreadsAreRight ==
    \A t \in Threads :
        LET r == thread[t]
        IN /\ r.pc = "got" => r.inv \in received
           /\ r.pc \in {"unseen", "free"} => r.since <= Granted
           /\ r.pc = "free" =>
                \A e \in asked : e.inv = r.inv /\ e.id <= r.since
                    => clock - e.at >= Timeout \/ e.inv \in received \/ WentWith(e)

(* What the cleanup thread is about to delete had timed out, or replaced a   *)
(* request that had.                                                         *)
TimedOut(h) ==
    \E d \in asked : /\ d.inv = h /\ clock - d.at > Timeout
                     /\ requested[h] = 0 \/ d.id <= requested[h]
CleanerIsRight ==
    /\ cleaner.pc = "scan" => cleaner.at <= clock
    /\ cleaner.pc = "delete" => \A h \in cleaner.expired : TimedOut(h)

RequestsInv ==
    /\ InventoryShape /\ Numbered /\ HeldWereAsked /\ HeldOrGone
    /\ ThreadsAreRight /\ CleanerIsRight /\ AskedTwiceOverlaps

\* Nothing was asked for at the start.
LEMMA RequestsInit == InventoryInit => RequestsInv
<1> SUFFICES ASSUME InventoryInit PROVE RequestsInv
  OBVIOUS
<1>1. Granted = 0 /\ IsFiniteSet(asked)
  BY FS_EmptySet DEF InventoryInit, Granted
<1>2. InventoryShape
  BY <1>1 DEF InventoryInit, InventoryShape, Thread, Cleaner
<1>3. Numbered /\ HeldOrGone /\ HeldWereAsked /\ CleanerIsRight
  BY DEF InventoryInit, Numbered, HeldOrGone, HeldWereAsked, CleanerIsRight, Pending, Resting
<1>4. ThreadsAreRight /\ AskedTwiceOverlaps
  BY DEF InventoryInit, ThreadsAreRight, Resting, AskedTwiceOverlaps, RepeatsHaveACause,
         EarlyDropsHaveACause
<1> QED
  BY <1>2, <1>3, <1>4 DEF RequestsInv

\* What a thread holds.
LEMMA ThreadRecord ==
  ASSUME NEW r \in Thread, r # Resting
  PROVE  r.pc \in {"unseen", "free", "got"} /\ r.inv \in Invs /\ r.since \in Nat
  BY DEF Thread, Resting

\* What the cleanup thread holds.
LEMMA CleanerRecord ==
  ASSUME NEW c \in Cleaner
  PROVE  /\ c.pc = "scan" => c.size \in Nat /\ c.at \in Nat
         /\ c.pc = "delete" => c.expired \subseteq Invs
  BY DEF Cleaner, Resting

\* The time of the request that is held for a hash.
LEMMA HeldSince ==
  ASSUME RequestsInv, NEW h \in Pending
  PROVE  \E a \in asked : a.id = requested[h] /\ a.inv = h /\ a.at = Since(h)
<1>1. PICK a \in asked : a.id = requested[h] /\ a.inv = h
  BY DEF RequestsInv, HeldWereAsked
<1>2. \A b \in asked : b.id = requested[h] => b = a
  BY <1>1 DEF RequestsInv, Numbered
<1>3. (CHOOSE b \in asked : b.id = requested[h]) = a
  BY <1>1, <1>2
<1> QED
  BY <1>1, <1>3 DEF Since

\* A step of a thread that grants no request and deletes none: it only has to
\* come to a conclusion that is right.
LEMMA ThreadMoves ==
  ASSUME RequestsInv, NEW t \in Threads, NEW r \in Thread,
         thread' = [thread EXCEPT ![t] = r], received \subseteq received', received' \subseteq Invs,
         UNCHANGED <<requested, cleaner, clock, asked, dropped>>,
         r.pc = "got" => r.inv \in received',
         r.pc \in {"unseen", "free"} => r.since <= Granted,
         r.pc = "free" => \A e \in asked : e.inv = r.inv /\ e.id <= r.since
             => clock - e.at >= Timeout \/ e.inv \in received \/ WentWith(e)
  PROVE  RequestsInv'
<1> USE DEF RequestsInv
<1>1. Granted' = Granted /\ \A e : WentWith(e)' <=> WentWith(e)
  BY DEF Granted, WentWith
<1>2. InventoryShape' /\ Numbered' /\ HeldWereAsked'
  BY <1>1 DEF InventoryShape, Numbered, HeldWereAsked, Pending
<1>3. HeldOrGone'
  BY <1>1 DEF HeldOrGone
<1>4. ThreadsAreRight'
  BY <1>1 DEF ThreadsAreRight, InventoryShape
<1>5. CleanerIsRight'
  BY DEF CleanerIsRight, TimedOut
<1>6. AskedTwiceOverlaps'
  BY DEF AskedTwiceOverlaps, RepeatsHaveACause, EarlyDropsHaveACause
<1> QED
  BY <1>2, <1>3, <1>4, <1>5, <1>6

\* A request is granted: it is the latest, and its thread saw what it saw.
LEMMA RequestGranted ==
  ASSUME RequestsInv, NEW t \in Threads, Ask(t)
  PROVE  RequestsInv'
<1> USE DEF RequestsInv
<1> DEFINE r == thread[t]
           h == r.inv
           n == Granted + 1
           new == [id |-> n, inv |-> h, at |-> clock, since |-> r.since]
<1>1. r \in Thread /\ r # Resting /\ r.pc = "free"
  BY DEF Ask, InventoryShape, Resting
<1>2. h \in Invs /\ r.since \in Nat /\ Granted \in Nat /\ r.since <= Granted
  BY <1>1, ThreadRecord, FS_CardinalityType DEF Granted, ThreadsAreRight, InventoryShape
<1>3. new \in Asked /\ new.id = n /\ new.inv = h /\ new.at = clock /\ new.since = r.since
  BY <1>2 DEF Asked, InventoryShape
<1>4. /\ requested' = [requested EXCEPT ![h] = n] /\ asked' = asked \cup {new}
      /\ thread' = [thread EXCEPT ![t] = Resting]
      /\ UNCHANGED <<received, cleaner, clock, dropped>>
  BY DEF Ask, Steps, Granted
<1>5. \A a \in asked : a.id \in 1 .. Granted /\ a.at <= clock /\ a.id \in Nat /\ a.at \in Nat
                       /\ a.since \in Nat /\ a.inv \in Invs
  BY DEF Numbered, InventoryShape, Asked
<1>6. new \notin asked
  BY <1>2, <1>3, <1>5
<1> HIDE DEF new
<1>7. Granted' = n
  BY <1>4, <1>6, FS_AddElement DEF Granted, InventoryShape
<1>8. InventoryShape'
  <2>1. IsFiniteSet(asked')
    BY <1>4, FS_AddElement DEF InventoryShape
  <2> QED
    BY <2>1, <1>2, <1>3, <1>4, <1>7 DEF InventoryShape, Thread
<1>9. Numbered'
  BY <1>2, <1>3, <1>4, <1>5, <1>7 DEF Numbered, InventoryShape
<1>10. HeldWereAsked'
  BY <1>2, <1>3, <1>4 DEF HeldWereAsked, Pending, InventoryShape
<1>11. ASSUME NEW e \in asked, WentWith(e) PROVE WentWith(e)'
  BY <1>4, <1>11 DEF WentWith
<1>12. HeldOrGone'
  BY <1>2, <1>3, <1>4, <1>5, <1>11 DEF HeldOrGone, InventoryShape
<1>13. ThreadsAreRight'
  <2> SUFFICES ASSUME NEW u \in Threads, u # t, thread[u] # Resting
               PROVE  LET q == thread[u]
                      IN /\ q.pc = "got" => q.inv \in received'
                         /\ q.pc \in {"unseen", "free"} => q.since <= Granted'
                         /\ q.pc = "free" => \A e \in asked' : e.inv = q.inv /\ e.id <= q.since
                               => clock' - e.at >= Timeout \/ e.inv \in received' \/ WentWith(e)'
    BY <1>4 DEF ThreadsAreRight, InventoryShape, Resting
  <2> DEFINE q == thread[u]
  <2>1. q.pc \in {"unseen", "free", "got"} /\ q.since \in Nat
    BY ThreadRecord DEF InventoryShape
  <2>2. q.pc \in {"unseen", "free"} => q.since <= Granted
    BY DEF ThreadsAreRight
  <2>3. q.pc = "got" => q.inv \in received
    BY DEF ThreadsAreRight
  <2>4. ASSUME q.pc = "free", NEW e \in asked', e.inv = q.inv, e.id <= q.since
        PROVE  clock' - e.at >= Timeout \/ e.inv \in received' \/ WentWith(e)'
    <3>1. e \in asked
      BY <1>2, <1>3, <1>4, <2>1, <2>2, <2>4
    <3> QED
      BY <1>4, <1>11, <2>4, <3>1 DEF ThreadsAreRight
  <2> QED
    BY <1>2, <1>4, <1>7, <2>1, <2>2, <2>3, <2>4
<1>14. CleanerIsRight'
  <2>1. ASSUME cleaner.pc = "delete", NEW x \in cleaner.expired PROVE TimedOut(x)'
    <3>1. x \in Invs
      BY <2>1, CleanerRecord DEF InventoryShape
    <3>2. PICK d \in asked : /\ d.inv = x /\ clock - d.at > Timeout
                             /\ requested[x] = 0 \/ d.id <= requested[x]
      BY <2>1 DEF CleanerIsRight, TimedOut
    <3>3. requested'[x] = 0 \/ d.id <= requested'[x]
      BY <1>2, <1>4, <1>5, <3>1, <3>2 DEF InventoryShape
    <3> QED
      BY <1>4, <3>2, <3>3 DEF TimedOut
  <2> QED
    BY <1>4, <2>1 DEF CleanerIsRight
<1>15. RepeatsHaveACause'
  <2> SUFFICES ASSUME NEW e \in asked', NEW f \in asked',
                      e.inv = f.inv, e.id < f.id, f.at - e.at < Timeout
               PROVE  \/ f.since < e.id \/ e.inv \in received'
                      \/ \E d \in asked' : /\ d.inv = e.inv /\ e.id <= d.id /\ d.id < f.id
                                           /\ d.id \in dropped'
    BY DEF RepeatsHaveACause
  <2>1. e \in asked
    BY <1>2, <1>3, <1>4, <1>5
  <2>2. CASE f \in asked
    BY <1>4, <2>1, <2>2 DEF AskedTwiceOverlaps, RepeatsHaveACause
  <2>3. CASE f = new
    <3>1. CASE e.id <= r.since
      <4>1. clock - e.at >= Timeout \/ e.inv \in received \/ WentWith(e)
        BY <1>1, <1>3, <2>1, <2>3, <3>1 DEF ThreadsAreRight
      <4>2. ~(clock - e.at >= Timeout)
        BY <1>3, <1>5, <2>1, <2>3, InventoryAssumption DEF InventoryShape
      <4>3. WentWith(e) => \E d \in asked : /\ d.inv = e.inv /\ e.id <= d.id /\ d.id < f.id
                                            /\ d.id \in dropped
        BY <1>2, <1>3, <1>5, <2>3 DEF WentWith
      <4> QED
        BY <1>4, <4>1, <4>2, <4>3
    <3>2. CASE ~(e.id <= r.since)
      BY <1>2, <1>3, <1>5, <2>1, <2>3, <3>2
    <3> QED
      BY <3>1, <3>2
  <2> QED
    BY <1>4, <2>2, <2>3
<1>16. EarlyDropsHaveACause'
  <2>1. new.id \notin dropped
    BY <1>2, <1>3 DEF InventoryShape
  <2> QED
    BY <1>4, <2>1 DEF EarlyDropsHaveACause, AskedTwiceOverlaps
<1> QED
  BY <1>8, <1>9, <1>10, <1>12, <1>13, <1>14, <1>15, <1>16 DEF AskedTwiceOverlaps

\* The cleanup thread deletes one request, which is the one of now.
LEMMA RequestDropped ==
  ASSUME RequestsInv, NEW h \in cleaner.expired, h \in Pending, cleaner.pc = "delete",
         requested' = [requested EXCEPT ![h] = 0],
         cleaner' = [cleaner EXCEPT !.expired = @ \ {h}],
         dropped' = dropped \cup {requested[h]},
         UNCHANGED <<received, thread, clock, asked>>
  PROVE  RequestsInv'
<1> USE DEF RequestsInv
<1>1. h \in Invs /\ requested[h] # 0
  BY DEF Pending
<1>2. PICK a \in asked : a.id = requested[h] /\ a.inv = h
  BY DEF HeldWereAsked
<1>3. Granted' = Granted
  BY DEF Granted
<1>4. \A e : WentWith(e) => WentWith(e)'
  BY DEF WentWith
<1>5. cleaner' \in Cleaner /\ cleaner'.pc = "delete" /\ cleaner'.expired = cleaner.expired \ {h}
  BY DEF InventoryShape, Cleaner, Resting
<1>6. InventoryShape' /\ Numbered'
  BY <1>1, <1>2, <1>3, <1>5 DEF InventoryShape, Numbered
<1>7. HeldWereAsked'
  BY <1>1 DEF HeldWereAsked, Pending, InventoryShape
<1>8. HeldOrGone'
  <2> SUFFICES ASSUME NEW e \in asked
               PROVE  e.inv \in received' \/ WentWith(e)' \/ e.id <= requested'[e.inv]
    BY DEF HeldOrGone
  <2>1. CASE e.inv = h /\ e.id <= requested[h]
    BY <1>2, <2>1 DEF WentWith
  <2>2. CASE ~(e.inv = h /\ e.id <= requested[h])
    <3>1. e.inv \in Invs
      BY DEF InventoryShape, Asked
    <3> QED
      BY <1>1, <1>4, <2>2, <3>1 DEF HeldOrGone, InventoryShape
  <2> QED
    BY <2>1, <2>2
<1>9. ThreadsAreRight'
  BY <1>3, <1>4 DEF ThreadsAreRight
<1>10. CleanerIsRight'
  <2>1. ASSUME NEW x \in cleaner.expired, x # h PROVE TimedOut(x)'
    BY <1>1, <2>1, CleanerRecord DEF CleanerIsRight, TimedOut, InventoryShape
  <2> QED
    BY <1>5, <2>1 DEF CleanerIsRight
<1>11. RepeatsHaveACause'
  BY DEF AskedTwiceOverlaps, RepeatsHaveACause
<1>12. EarlyDropsHaveACause'
  <2> SUFFICES ASSUME NEW e \in asked, e.id = requested[h], clock - e.at <= Timeout
               PROVE  \E d \in asked : d.inv = e.inv /\ d.id < e.id /\ clock - d.at > Timeout
    BY DEF AskedTwiceOverlaps, EarlyDropsHaveACause
  <2>1. e = a /\ e.inv = h
    BY <1>2 DEF Numbered
  <2>2. PICK d \in asked : d.inv = h /\ clock - d.at > Timeout /\ d.id <= requested[h]
    BY <1>1 DEF CleanerIsRight, TimedOut
  <2>3. e.id \in Nat /\ d.id \in Nat /\ e.at \in Nat /\ d.at \in Nat /\ clock \in Nat
    BY DEF InventoryShape, Asked
  <2>4. d # e
    BY <2>2, <2>3, InventoryAssumption
  <2>5. d.id # e.id
    BY <2>4 DEF Numbered
  <2> QED
    BY <2>1, <2>2, <2>3, <2>5
<1> QED
  BY <1>6, <1>7, <1>8, <1>9, <1>10, <1>11, <1>12 DEF AskedTwiceOverlaps

\* Every step of the threads, the cleanup and the clock keeps the invariant.
LEMMA RequestsStep == RequestsInv /\ [InventoryNext]_ivars => RequestsInv'
<1> SUFFICES ASSUME RequestsInv, [InventoryNext]_ivars PROVE RequestsInv'
  OBVIOUS
<1> USE DEF RequestsInv
<1>1. ASSUME NEW t \in Threads, NEW h \in Invs, AddInv(t, h) PROVE RequestsInv'
  <2> DEFINE r == [pc |-> "unseen", inv |-> h, since |-> Granted]
  <2>1. Granted \in Nat
    BY FS_CardinalityType DEF Granted, InventoryShape
  <2>2. r \in Thread /\ r.pc = "unseen" /\ r.since <= Granted
    BY <2>1 DEF Thread
  <2>3. thread' = [thread EXCEPT ![t] = r]
        /\ UNCHANGED <<requested, received, cleaner, clock, asked, dropped>>
    BY <1>1 DEF AddInv, Steps, Granted
  <2> HIDE DEF r
  <2> QED
    BY <2>2, <2>3, ThreadMoves DEF InventoryShape
<1>2. ASSUME NEW t \in Threads, NEW h \in Invs, MarkReceived(t, h) PROVE RequestsInv'
  <2> DEFINE r == [pc |-> "got", inv |-> h, since |-> 0]
  <2>1. r \in Thread /\ r.pc = "got" /\ r.inv = h
    BY DEF Thread
  <2>2. thread' = [thread EXCEPT ![t] = r] /\ received' = received \cup {h}
        /\ UNCHANGED <<requested, cleaner, clock, asked, dropped>>
    BY <1>2 DEF MarkReceived, Steps
  <2>3. received \subseteq received' /\ received' \subseteq Invs
    BY <2>2 DEF InventoryShape
  <2> HIDE DEF r
  <2> QED
    BY <2>1, <2>2, <2>3, ThreadMoves
<1>3. ASSUME NEW t \in Threads, FindFree(t) PROVE RequestsInv'
  <2> DEFINE q == thread[t]
             r == [q EXCEPT !.pc = "free"]
             h == q.inv
  <2>1. q \in Thread /\ q # Resting /\ q.pc = "unseen"
    BY <1>3 DEF FindFree, InventoryShape, Resting
  <2>2. r \in Thread /\ r.pc = "free" /\ r.inv = h /\ r.since = q.since /\ q.since \in Nat
        /\ h \in Invs
    BY <2>1 DEF Thread, Resting
  <2>3. q.since <= Granted
    BY <2>1 DEF ThreadsAreRight
  <2>4. thread' = [thread EXCEPT ![t] = r]
        /\ UNCHANGED <<requested, received, cleaner, clock, asked, dropped>>
    BY <1>3 DEF FindFree, Steps
  <2>5. h \in Pending => clock - Since(h) >= Timeout
    BY <1>3 DEF FindFree
  <2>6. ASSUME NEW e \in asked, e.inv = h
        PROVE  clock - e.at >= Timeout \/ e.inv \in received \/ WentWith(e)
    <3> SUFFICES ASSUME e.id <= requested[h] PROVE clock - e.at >= Timeout
      BY <2>6 DEF HeldOrGone
    <3>1. e.id \in 1 .. Granted /\ e.id \in Nat /\ e.at \in Nat
      BY DEF Numbered, InventoryShape, Asked
    <3>2. h \in Pending
      BY <2>2, <3>1 DEF Pending, InventoryShape
    <3>3. PICK a \in asked : a.id = requested[h] /\ a.at = Since(h)
      BY <3>2, HeldSince
    <3>4. e.at <= a.at /\ a.at \in Nat
      BY <3>3 DEF Numbered, InventoryShape, Asked
    <3> QED
      BY <2>5, <3>1, <3>2, <3>3, <3>4, InventoryAssumption DEF InventoryShape
  <2> HIDE DEF r, q
  <2> QED
    BY <2>2, <2>3, <2>4, <2>6, ThreadMoves DEF InventoryShape
<1>4. ASSUME NEW t \in Threads, Skip(t) PROVE RequestsInv'
  <2>1. Resting \in Thread /\ Resting.pc = "rest"
    BY DEF Thread, Resting
  <2>2. thread' = [thread EXCEPT ![t] = Resting]
        /\ UNCHANGED <<requested, received, cleaner, clock, asked, dropped>>
    BY <1>4 DEF Skip, Steps
  <2> QED
    BY <2>1, <2>2, ThreadMoves DEF InventoryShape
<1>5. ASSUME NEW t \in Threads, Ask(t) PROVE RequestsInv'
  BY <1>5, RequestGranted
<1>6. ASSUME NEW t \in Threads, Complete(t) PROVE RequestsInv'
  <2> DEFINE h == thread[t].inv
  <2>1. h \in Invs /\ h \in received
    BY <1>6, ThreadRecord DEF Complete, InventoryShape, ThreadsAreRight, Resting
  <2>2. requested' = [requested EXCEPT ![h] = 0] /\ thread' = [thread EXCEPT ![t] = Resting]
        /\ UNCHANGED <<received, cleaner, clock, asked, dropped>>
    BY <1>6 DEF Complete, Steps
  <2> HIDE DEF h
  <2>3. Granted' = Granted /\ \A e : WentWith(e)' <=> WentWith(e)
    BY <2>2 DEF Granted, WentWith
  <2>4. InventoryShape' /\ Numbered'
    BY <2>1, <2>2, <2>3 DEF InventoryShape, Numbered, Thread
  <2>5. HeldWereAsked' /\ HeldOrGone'
    BY <2>1, <2>2, <2>3 DEF HeldWereAsked, HeldOrGone, Pending, InventoryShape, Asked
  <2>6. ThreadsAreRight'
    BY <2>2, <2>3 DEF ThreadsAreRight, InventoryShape, Resting
  <2>7. CleanerIsRight'
    BY <2>1, <2>2, CleanerRecord DEF CleanerIsRight, TimedOut, InventoryShape
  <2>8. AskedTwiceOverlaps'
    BY <2>2 DEF AskedTwiceOverlaps, RepeatsHaveACause, EarlyDropsHaveACause
  <2> QED
    BY <2>4, <2>5, <2>6, <2>7, <2>8
<1>7. ASSUME NEW c \in Cleaner, cleaner' = c,
             c.pc = "scan" => c.at <= clock,
             c.pc = "delete" => \A h \in c.expired : TimedOut(h),
             UNCHANGED <<requested, received, thread, clock, asked, dropped>>
      PROVE  RequestsInv'
  <2>1. Granted' = Granted /\ \A e : WentWith(e)' <=> WentWith(e)
    BY <1>7 DEF Granted, WentWith
  <2>2. InventoryShape' /\ Numbered' /\ HeldWereAsked' /\ HeldOrGone' /\ ThreadsAreRight'
    BY <1>7, <2>1 DEF InventoryShape, Numbered, HeldWereAsked, HeldOrGone, ThreadsAreRight, Pending
  <2>3. CleanerIsRight'
    BY <1>7 DEF CleanerIsRight, TimedOut
  <2>4. AskedTwiceOverlaps'
    BY <1>7 DEF AskedTwiceOverlaps, RepeatsHaveACause, EarlyDropsHaveACause
  <2> QED
    BY <2>2, <2>3, <2>4
<1>8. CASE Wake
  <2> DEFINE c == [pc |-> "scan", size |-> Cardinality(Pending), at |-> clock]
  <2>1. Cardinality(Pending) \in Nat
    <3> DEFINE hashes == {a.inv : a \in asked}
    <3>1. [a \in asked |-> a.inv] \in Surjection(asked, hashes)
      BY DEF Surjection
    <3>2. IsFiniteSet(hashes)
      BY <3>1, FS_Surjection DEF InventoryShape
    <3>3. Pending \subseteq hashes
      BY DEF HeldWereAsked
    <3> QED
      BY <3>2, <3>3, FS_Subset, FS_CardinalityType
  <2>2. c \in Cleaner /\ c.pc = "scan" /\ c.at <= clock
    BY <2>1 DEF Cleaner, InventoryShape
  <2>3. cleaner' = c /\ UNCHANGED <<requested, received, thread, clock, asked, dropped>>
    BY <1>8 DEF Wake
  <2> HIDE DEF c
  <2> QED
    BY <1>7, <2>2, <2>3
<1>9. CASE Scan
  <2> DEFINE E == {h \in Pending : cleaner.at - Since(h) > Timeout}
             c == [pc |-> "delete", expired |-> E]
             d == [pc |-> "dead"]
  <2>1. c \in Cleaner /\ c.pc = "delete" /\ c.expired = E
    BY DEF Cleaner, Pending
  <2>2. d \in Cleaner /\ d.pc = "dead"
    BY DEF Cleaner
  <2>3. cleaner' \in {c, d} /\ UNCHANGED <<requested, received, thread, clock, asked, dropped>>
    BY <1>9 DEF Scan
  <2>4. ASSUME NEW h \in E PROVE TimedOut(h)
    <3>1. PICK a \in asked : a.id = requested[h] /\ a.inv = h /\ a.at = Since(h)
      BY HeldSince
    <3>2. cleaner.at \in Nat /\ clock \in Nat /\ cleaner.at <= clock /\ a.at \in Nat /\ a.id \in Nat
      BY <1>9, CleanerRecord DEF Scan, CleanerIsRight, InventoryShape, Asked
    <3>3. cleaner.at - a.at > Timeout
      BY <3>1
    <3> QED
      BY <3>1, <3>2, <3>3, InventoryAssumption DEF TimedOut
  <2> HIDE DEF c, d, E
  <2> QED
    BY <1>7, <2>1, <2>2, <2>3, <2>4
<1>10. CASE DeleteOne
  <2>1. PICK h \in cleaner.expired :
          IF h \in Pending
          THEN /\ requested' = [requested EXCEPT ![h] = 0]
               /\ cleaner' = [cleaner EXCEPT !.expired = @ \ {h}]
               /\ dropped' = dropped \cup {requested[h]}
          ELSE cleaner' = [pc |-> "dead"] /\ UNCHANGED <<requested, dropped>>
    BY <1>10 DEF DeleteOne
  <2>2. CASE h \in Pending
    BY <1>10, <2>1, <2>2, RequestDropped DEF DeleteOne
  <2>3. CASE h \notin Pending
    <3>1. [pc |-> "dead"] \in Cleaner /\ [pc |-> "dead"].pc = "dead"
      BY DEF Cleaner
    <3> QED
      BY <1>7, <1>10, <2>1, <2>3, <3>1 DEF DeleteOne
  <2> QED
    BY <2>2, <2>3
<1>11. CASE Sleep
  <2>1. Resting \in Cleaner /\ Resting.pc = "rest"
    BY DEF Cleaner, Resting
  <2> QED
    BY <1>7, <1>11, <2>1 DEF Sleep
<1>12. CASE Second
  <2>1. clock' = clock + 1 /\ clock \in Nat
        /\ UNCHANGED <<requested, received, thread, cleaner, asked, dropped>>
    BY <1>12 DEF Second, InventoryShape
  <2>2. Granted' = Granted /\ \A e : WentWith(e)' <=> WentWith(e)
    BY <2>1 DEF Granted, WentWith
  <2>3. \A a \in asked : a.at \in Nat
    BY DEF InventoryShape, Asked
  <2>4. InventoryShape' /\ Numbered' /\ HeldWereAsked' /\ HeldOrGone'
    BY <2>1, <2>2, <2>3 DEF InventoryShape, Numbered, HeldWereAsked, HeldOrGone, Pending
  <2>5. ThreadsAreRight'
    BY <2>1, <2>2, <2>3, InventoryAssumption DEF ThreadsAreRight
  <2>6. CleanerIsRight'
    <3>1. \A h : TimedOut(h) => TimedOut(h)'
      BY <2>1, <2>3, InventoryAssumption DEF TimedOut
    <3>2. cleaner.pc = "scan" => cleaner.at \in Nat
      BY CleanerRecord DEF InventoryShape
    <3> QED
      BY <2>1, <3>1, <3>2 DEF CleanerIsRight
  <2>7. AskedTwiceOverlaps'
    BY <2>1, <2>3, InventoryAssumption
       DEF AskedTwiceOverlaps, RepeatsHaveACause, EarlyDropsHaveACause
  <2> QED
    BY <2>4, <2>5, <2>6, <2>7
<1>13. CASE UNCHANGED ivars
  BY <1>7, <1>13 DEF ivars, InventoryShape, CleanerIsRight
<1> QED
  BY <1>1, <1>2, <1>3, <1>4, <1>5, <1>6, <1>8, <1>9, <1>10, <1>11, <1>12, <1>13
     DEF InventoryNext

(* However the threads and the cleanup overlap, a repeated request and an    *)
(* early deletion have the causes named.                                     *)
THEOREM RepeatsAreOverlaps == InventorySpec => []AskedTwiceOverlaps
<1>1. RequestsInv => AskedTwiceOverlaps
  BY DEF RequestsInv
<1> QED
  BY <1>1, RequestsInit, RequestsStep, PTL DEF InventorySpec

(***************************************************************************)
(* The table of peers                                                      *)
(***************************************************************************)

(* Whoever is a peer, is banned or is waited for has a score, and a banned   *)
(* peer is out.                                                              *)
ScoresInv ==
    /\ IsFiniteSet(peers) /\ peers \subseteq Urls /\ banned \subseteq Urls
    /\ score \in [Urls -> Int \cup {NoScore}]
    /\ round # NoRound => round.at \in Urls \cup {NoUrl}
    /\ round # NoRound /\ round.at # NoUrl => score[round.at] # NoScore
    /\ \A p \in peers \cup banned : score[p] # NoScore
    /\ BannedIsOut

\* A judgement: scores stay numbers.
LEMMA JudgedIsAScore ==
  ASSUME NEW n \in Int, NEW b \in Behaviours \cup Latencies
  PROVE  Judged(n, b) \in Int
  BY PeersAssumption DEF Judged, Capped, Behaviours, Latencies

\* A judgement takes a banned peer out of the set, and adds none.
LEMMA JudgeStep ==
  ASSUME ScoresInv, NEW u \in Urls, NEW n \in Int, NEW b \in Behaviours, Judge(u, n, b),
         round' # NoRound => round'.at \in Urls \cup {NoUrl},
         round' # NoRound /\ round'.at # NoUrl => score'[round'.at] # NoScore
  PROVE  ScoresInv' /\ peers' \subseteq peers
<1>1. Judged(n, b) \in Int
  BY JudgedIsAScore
<1>2. peers' = peers \/ peers' = peers \ {u}
  BY DEF Judge
<1>3. IsFiniteSet(peers') /\ peers' \subseteq peers
  BY <1>2, FS_RemoveElement DEF ScoresInv
<1>4. \E m \in Int : score' = [score EXCEPT ![u] = m]
  BY <1>1 DEF Judge
<1>5. banned' = banned \/ (banned' = banned \cup {u} /\ peers' = peers \ {u})
  BY DEF Judge
<1> QED
  BY <1>3, <1>4, <1>5, PeersAssumption DEF ScoresInv, BannedIsOut

\* A latency changes one score.
LEMMA TimedStep ==
  ASSUME ScoresInv, round.at \in Urls, NEW l \in Latencies, Timed(l), score[round.at] \in Int,
         round' # NoRound => round'.at = NoUrl
  PROVE  ScoresInv' /\ peers' = peers
<1>1. Judged(score[round.at], l) \in Int
  BY JudgedIsAScore
<1> QED
  BY <1>1, PeersAssumption DEF Timed, ScoresInv, BannedIsOut

\* The set of peers after a peer was added.
LEMMA RoomIsMade ==
  ASSUME IsFiniteSet(peers), NEW u, NEW v,
         NEW P, P = {u} \cup (IF Cardinality(peers) >= MaxPeers THEN peers \ {v} ELSE peers)
  PROVE  /\ IsFiniteSet(P)
         /\ Cardinality(P) > MaxPeers /\ Cardinality(P) > Cardinality(peers) => v \notin peers
<1>1. Cardinality(peers) \in Nat /\ MaxPeers \in Nat
  BY FS_CardinalityType, PeersAssumption
<1>2. CASE Cardinality(peers) >= MaxPeers
  <2>1. /\ IsFiniteSet(peers \ {v})
        /\ Cardinality(peers \ {v}) = IF v \in peers THEN Cardinality(peers) - 1
                                      ELSE Cardinality(peers)
    BY FS_RemoveElement
  <2>2. P = (peers \ {v}) \cup {u}
    BY <1>2
  <2>3. /\ IsFiniteSet(P)
        /\ Cardinality(P) = IF u \in peers \ {v} THEN Cardinality(peers \ {v})
                            ELSE Cardinality(peers \ {v}) + 1
    BY <2>1, <2>2, FS_AddElement
  <2> QED
    BY <1>1, <2>1, <2>3
<1>3. CASE ~(Cardinality(peers) >= MaxPeers)
  <2>1. P = peers \cup {u}
    BY <1>3
  <2>2. /\ IsFiniteSet(P)
        /\ Cardinality(P) = IF u \in peers THEN Cardinality(peers) ELSE Cardinality(peers) + 1
    BY <2>1, FS_AddElement
  <2> QED
    BY <1>1, <1>3, <2>2
<1> QED
  BY <1>2, <1>3

\* Every step keeps the invariant, and only a new peer makes the set grow.
LEMMA ScoresStep ==
  ASSUME ScoresInv, [PeersNext]_pvars
  PROVE  ScoresInv' /\ (peers' \subseteq peers \/ \E u \in Urls : AddPeer(u))
<1> DEFINE Goal == ScoresInv' /\ (peers' \subseteq peers \/ \E u \in Urls : AddPeer(u))
<1>1. ASSUME UNCHANGED scores, round' # NoRound => round'.at \in peers \cup {NoUrl, round.at},
             round' # NoRound /\ round'.at \notin peers \cup {NoUrl} => round # NoRound
      PROVE  Goal
  BY <1>1 DEF ScoresInv, scores, BannedIsOut
<1>2. ASSUME NEW u \in Urls, AddPeer(u) PROVE Goal
  <2> DEFINE s == [score EXCEPT ![u] = ScoreOf(score, u)]
  <2>1. s \in [Urls -> Int \cup {NoScore}] /\ s[u] # NoScore
        /\ \A x \in Urls : score[x] # NoScore => s[x] = score[x]
    BY PeersAssumption DEF ScoresInv, ScoreOf
  <2>2. /\ score' = s /\ u \notin banned /\ UNCHANGED <<banned, round>>
        /\ \E v \in Urls : peers' = {u} \cup (IF Cardinality(peers) >= MaxPeers
                                             THEN peers \ {v} ELSE peers)
    BY <1>2 DEF AddPeer
  <2>3. IsFiniteSet(peers')
    BY <2>2, RoomIsMade DEF ScoresInv
  <2> HIDE DEF s
  <2>4. peers' \subseteq peers \cup {u}
    BY <2>2
  <2> QED
    BY <1>2, <2>1, <2>2, <2>3, <2>4 DEF ScoresInv, BannedIsOut
<1>3. ASSUME NEW u \in Urls, NEW b \in Behaviours, RecordPeerBehavior(u, b) PROVE Goal
  <2>1. ScoreOf(score, u) \in Int
    BY PeersAssumption DEF ScoreOf, ScoresInv
  <2>2. Judge(u, ScoreOf(score, u), b) /\ UNCHANGED round
    BY <1>3 DEF RecordPeerBehavior
  <2>3. round # NoRound /\ round.at # NoUrl => score'[round.at] # NoScore
    <3>1. Judged(ScoreOf(score, u), b) \in Int
      BY <2>1, JudgedIsAScore
    <3> QED
      BY <2>1, <2>2, <3>1, PeersAssumption DEF Judge, ScoresInv
  <2> QED
    BY <2>1, <2>2, <2>3, JudgeStep DEF ScoresInv
<1>4. ASSUME NEW u \in Urls, Visit(u) PROVE Goal
  <2>1. round'.at = u /\ u \in peers /\ round # NoRound /\ UNCHANGED scores
    BY <1>4 DEF Visit
  <2> QED
    BY <1>1, <2>1
<1>5. ASSUME NEW u \in Urls, MarkSuccess(u) \/ MarkFailure(u) PROVE Goal
  BY <1>1, <1>5 DEF MarkSuccess, MarkFailure
<1>6. ASSUME NEW k \in {"probe", "tx", "sync"}, StartRound(k) PROVE Goal
  <2>1. round'.at = NoUrl /\ UNCHANGED scores
    BY <1>6 DEF StartRound
  <2> QED
    BY <1>1, <2>1
<1>7. ASSUME EndRound \/ RoundDies PROVE Goal
  BY <1>1, <1>7 DEF EndRound, RoundDies
<1>8. ASSUME NEW k \in {"probe", "tx", "sync"}, Heard(k)
      PROVE  /\ round.at \in Urls /\ score[round.at] \in Int /\ round # NoRound
             /\ round' # NoRound => round'.at = NoUrl
  BY <1>8 DEF Heard, ScoresInv, NoRound
<1>9. CASE Probe
  <2>1. Heard("probe")
    BY <1>9 DEF Probe
  <2>2. CASE \E l \in Latencies : Timed(l)
    BY <1>8, <2>1, <2>2, TimedStep
  <2>3. CASE Judge(round.at, score[round.at], "timeout")
    BY <1>8, <2>1, <2>3, JudgeStep DEF Behaviours
  <2> QED
    BY <1>9, <2>2, <2>3 DEF Probe
<1>10. CASE BroadcastTransaction
  <2>1. Heard("tx")
    BY <1>10 DEF BroadcastTransaction
  <2>2. CASE \E l \in Latencies : Timed(l)
    BY <1>8, <2>1, <2>2, TimedStep
  <2>3. CASE Judge(round.at, score[round.at], "timeout")
    BY <1>8, <2>1, <2>3, JudgeStep DEF Behaviours
  <2>4. CASE \E l \in Latencies : Judge(round.at, Judged(score[round.at], l), "timeout")
    BY <1>8, <2>1, <2>4, JudgeStep, JudgedIsAScore DEF Behaviours
  <2> QED
    BY <1>10, <2>2, <2>3, <2>4 DEF BroadcastTransaction
<1>11. CASE SyncWithPeers
  <2>1. Heard("sync")
    BY <1>11 DEF SyncWithPeers
  <2>2. CASE \E j \in {"valid_block", "timeout"} : Judge(round.at, score[round.at], j)
    BY <1>8, <2>1, <2>2, JudgeStep DEF Behaviours
  <2>3. CASE UNCHANGED scores
    BY <1>1, <1>8, <2>1, <2>3
  <2> QED
    BY <1>11, <2>2, <2>3 DEF SyncWithPeers
<1>12. CASE UNCHANGED pvars
  BY <1>1, <1>12 DEF pvars, ScoresInv, scores
<1> QED
  BY <1>2, <1>3, <1>4, <1>5, <1>6, <1>7, <1>9, <1>10, <1>11, <1>12
     DEF PeersNext, ScoresNext, AddressesNext

\* The node starts without peers.
LEMMA ScoresInit == PeersInit => ScoresInv
  BY FS_EmptySet DEF PeersInit, ScoresInv, BannedIsOut

(* Whatever rounds are going on, a banned peer is not in the set.            *)
THEOREM BannedStayOut == PeersSpec => []BannedIsOut
<1>1. ScoresInv => BannedIsOut
  BY DEF ScoresInv
<1> QED
  BY <1>1, ScoresInit, ScoresStep, PTL DEF PeersSpec

(* The set of peers outgrows its limit only because the peer to be evicted,  *)
(* a worst of all scores ever kept, was not in it.                           *)
THEOREM OnlyGhostsOverfill == PeersSpec => OverfullNeedsAGhost
<1>1. ASSUME ScoresInv, [PeersNext]_pvars, Cardinality(peers') > MaxPeers,
             Cardinality(peers') > Cardinality(peers)
      PROVE  \E g \in Urls \ peers :
                 \A p \in peers : ScoreOf(score', g) <= ScoreOf(score', p)
  <2>1. ~(peers' \subseteq peers)
    BY <1>1, FS_Subset, FS_CardinalityType DEF ScoresInv
  <2>2. PICK u \in Urls : AddPeer(u)
    BY <1>1, <2>1, ScoresStep
  <2>3. PICK v \in Urls :
          /\ score'[v] # NoScore
          /\ \A x \in Urls : score'[x] # NoScore => score'[v] <= score'[x]
          /\ peers' = {u} \cup (IF Cardinality(peers) >= MaxPeers THEN peers \ {v} ELSE peers)
    BY <2>2 DEF AddPeer
  <2>4. v \notin peers
    BY <1>1, <2>3, RoomIsMade DEF ScoresInv
  <2>5. \A p \in peers : p \in Urls /\ score'[p] # NoScore
    BY <1>1, <2>2, PeersAssumption DEF AddPeer, ScoresInv, ScoreOf
  <2> QED
    BY <2>3, <2>4, <2>5 DEF ScoreOf
<1>2. ScoresInv /\ [PeersNext]_pvars =>
        [Cardinality(peers') > MaxPeers /\ Cardinality(peers') > Cardinality(peers)
           => \E g \in Urls \ peers :
                 \A p \in peers : ScoreOf(score', g) <= ScoreOf(score', p)]_pvars
  BY <1>1
<1> QED
  BY <1>2, ScoresInit, ScoresStep, PTL DEF PeersSpec, OverfullNeedsAGhost

(***************************************************************************)
(* The listening server                                                    *)
(***************************************************************************)

(* Two connections of an address at once, a second one while the first is    *)
(* handled included, are remembered as long as one of them is.               *)
OverlapsAreSeen ==
    \A i \in Ips :
        /\ handlers[i] >= 2 \/ (handlers[i] >= 1 /\ i \in admitting) => i \in overlapped
        /\ i \in admitting => i \in peerSet \cup overlapped

HandlersInv ==
    /\ handlers \in [Ips -> Nat] /\ admitting \subseteq Ips
    /\ \A i, j \in admitting : i = j
    /\ OverlapsAreSeen /\ PeerSetMatches

\* Every step of the server keeps the invariant.
LEMMA HandlersStep == HandlersInv /\ [ServerNext]_svvars => HandlersInv'
<1> SUFFICES ASSUME HandlersInv, [ServerNext]_svvars PROVE HandlersInv'
  OBVIOUS
<1> USE DEF HandlersInv
<1>1. ASSUME UNCHANGED <<peerSet, handlers, admitting, overlapped, threadless>>
      PROVE  HandlersInv'
  BY <1>1 DEF OverlapsAreSeen, PeerSetMatches
<1>2. ASSUME NEW i \in Ips, AdmitConnection(i) PROVE HandlersInv'
  BY <1>2 DEF AdmitConnection, OverlapsAreSeen, PeerSetMatches
<1>3. CASE StartHandler
  <2>1. PICK i \in admitting :
          /\ admitting' = {}
          /\ \/ handlers' = [handlers EXCEPT ![i] = @ + 1] /\ UNCHANGED threadless
             \/ threadless' = threadless \cup {i} /\ UNCHANGED handlers
          /\ UNCHANGED <<peerSet, overlapped>>
    BY <1>3 DEF StartHandler
  <2>2. CASE threadless' = threadless \cup {i} /\ UNCHANGED handlers
    BY <2>1, <2>2 DEF OverlapsAreSeen, PeerSetMatches
  <2>3. CASE handlers' = [handlers EXCEPT ![i] = @ + 1] /\ UNCHANGED threadless
    <3>1. i \in Ips /\ handlers' \in [Ips -> Nat] /\ handlers'[i] = handlers[i] + 1
      BY <2>3
    <3>2. \A j \in Ips \ {i} : handlers'[j] = handlers[j]
      BY <2>3
    <3> QED
      BY <2>1, <2>3, <3>1, <3>2 DEF OverlapsAreSeen, PeerSetMatches
  <2> QED
    BY <2>1, <2>2, <2>3
<1>4. ASSUME NEW i \in Ips, EndHandler(i) PROVE HandlersInv'
  <2>1. handlers[i] - 1 \in Nat
    BY <1>4 DEF EndHandler
  <2> QED
    BY <1>4, <2>1 DEF EndHandler, OverlapsAreSeen, PeerSetMatches
<1> QED
  BY <1>1, <1>2, <1>3, <1>4 DEF ServerNext, StartServer, StopServer, PassSecond,
     RefuseConnection, svvars

(* An address counted as a peer has a handler, and one with a handler that   *)
(* is not counted has had two connections at once.                           *)
THEOREM PeersHaveHandlers == ServerSpec => []PeerSetMatches
<1>1. ServerInit => HandlersInv
  BY DEF ServerInit, HandlersInv, OverlapsAreSeen, PeerSetMatches
<1>2. HandlersInv => PeerSetMatches
  BY DEF HandlersInv
<1> QED
  BY <1>1, <1>2, HandlersStep, PTL DEF ServerSpec

(***************************************************************************)
(* The shutdown                                                            *)
(***************************************************************************)

(* What the next life will read out of the backup. *)
Readable == IF backup = "whole" THEN saved ELSE {}

(* Between two lives the backup makes up for what is not accounted for. *)
BackupMakesUp == lost \subseteq excused \cup (IF life = "down" THEN Readable ELSE {})

(* From the moment the file is closed it holds what the handler sees. *)
FileIsWhole ==
    life \in {"flushing", "stopping"} /\ Seen # {} => backup = "whole" /\ saved = Seen

ShutdownInv == ShutdownTypeOK /\ BackupMakesUp /\ FileIsWhole

\* The node starts without a pool, a backup or a loss.
LEMMA ShutdownInitInv == ShutdownInit => ShutdownInv
<1> SUFFICES ASSUME ShutdownInit PROVE ShutdownInv
  OBVIOUS
<1>1. ShutdownTypeOK
  <2>1. 0 \in 0 .. MaxSignals
    BY ShutdownAssumption
  <2> QED
    BY <2>1, Zenon DEF ShutdownInit, ShutdownTypeOK
<1>2. BackupMakesUp
  BY DEF ShutdownInit, BackupMakesUp
<1>3. FileIsWhole
  BY DEF ShutdownInit, FileIsWhole
<1> QED
  BY <1>1, <1>2, <1>3 DEF ShutdownInv

\* A life ends, and what of the pool the file does not hold is excused.
LEMMA DeathStep ==
  ASSUME ShutdownInv, life # "down", NEW t \in SUBSET pool, Dies(t),
         UNCHANGED <<backup, saved>>, marker' \in BOOLEAN, signals' \in 0 .. MaxSignals,
         pool \ t \subseteq Readable
  PROVE  ShutdownInv'
<1>1. ShutdownTypeOK'
  BY DEF ShutdownInv, ShutdownTypeOK, Dies
<1>2. BackupMakesUp'
  BY DEF ShutdownInv, BackupMakesUp, Dies, Readable
<1> QED
  BY <1>1, <1>2 DEF ShutdownInv, FileIsWhole, Dies

\* Every step of the node, the handler and the signals keeps the invariant.
LEMMA ShutdownStepInv == ShutdownInv /\ [ShutdownNext]_sdvars => ShutdownInv'
<1> SUFFICES ASSUME ShutdownInv, [ShutdownNext]_sdvars PROVE ShutdownInv'
  OBVIOUS
<1> USE ShutdownAssumption DEF ShutdownInv
<1>1. CASE ReadBackup
  BY <1>1 DEF ReadBackup, ShutdownTypeOK, BackupMakesUp, FileIsWhole, Readable
<1>2. CASE SetUpHandler
  BY <1>2 DEF SetUpHandler, ShutdownTypeOK, BackupMakesUp, FileIsWhole, Readable
<1>3. CASE MineAll
  BY <1>3 DEF MineAll, ShutdownTypeOK, BackupMakesUp, FileIsWhole, Readable, Seen
<1>4. CASE Signal
  BY <1>4 DEF Signal, ShutdownTypeOK, BackupMakesUp, FileIsWhole, Readable
<1>5. CASE WriteBackup
  BY <1>5 DEF WriteBackup, ShutdownTypeOK, BackupMakesUp, FileIsWhole, Readable, Seen
<1>6. CASE FlushDatabase
  BY <1>6 DEF FlushDatabase, ShutdownTypeOK, BackupMakesUp, FileIsWhole, Readable, Seen
<1>7. CASE ExitCleanly
  <2>1. pool \ (pool \ Seen) \subseteq Readable
    BY <1>7 DEF ExitCleanly, FileIsWhole, Readable
  <2> QED
    BY <1>7, <2>1, DeathStep DEF ExitCleanly, ShutdownTypeOK
<1>8. CASE SignalAgain
  <2>1. signals' \in 0 .. MaxSignals
    BY <1>8 DEF SignalAgain, ShutdownTypeOK
  <2> QED
    BY <1>8, <2>1, DeathStep DEF SignalAgain, ShutdownTypeOK
<1>9. CASE Killed
  BY <1>9, DeathStep DEF Killed, ShutdownTypeOK
<1>10. ASSUME NEW t \in Payments, AddPayment(t) PROVE ShutdownInv'
  BY <1>10 DEF AddPayment, ShutdownTypeOK, BackupMakesUp, FileIsWhole, Readable
<1>11. CASE UNCHANGED sdvars
  BY <1>11 DEF sdvars, ShutdownTypeOK, BackupMakesUp, FileIsWhole, Readable, Seen
<1> QED
  BY <1>1, <1>2, <1>3, <1>4, <1>5, <1>6, <1>7, <1>8, <1>9, <1>10, <1>11 DEF ShutdownNext

(* A payment pending at a clean exit of shutdown.py is pending in the next   *)
(* life, unless the handler held another list than the node, or a death that *)
(* was not clean took it.                                                    *)
THEOREM CleanExitIsKept == ShutdownSpec => []CleanExitKeeps
<1>1. ShutdownInv => CleanExitKeeps
  BY DEF ShutdownInv, BackupMakesUp, CleanExitKeeps
<1> QED
  BY <1>1, ShutdownInitInv, ShutdownStepInv, PTL DEF ShutdownSpec

(***************************************************************************)
(* The script interpreter                                                  *)
(***************************************************************************)

(* The true value is on the stack only after OP_EQUAL put it there. *)
TrueIsEarned == \E S : stack \in Seq(S) /\ (Integer(1) \in S => equals)

ScriptInv == TrueIsEarned /\ SuccessIsAnEquality

LEMMA BytesAreNotTrue == \A b : Bytes(b) # Integer(1)
<1> SUFFICES ASSUME NEW b PROVE Bytes(b) # Integer(1)
  OBVIOUS
<1>1. Bytes(b).int = FALSE /\ Integer(1).int = TRUE
  BY DEF Bytes, Integer
<1> QED
  BY <1>1

(* What is left when operands are taken, and what is put on top. *)
LEMMA OperandsTaken ==
  ASSUME NEW S, stack \in Seq(S), NEW n \in Nat, n <= Height
  PROVE  /\ Below(n) \in Seq(S)
         /\ n > 0 => Top(n) \in S
<1>1. Height \in Nat /\ Height - n \in 0 .. Height
  BY DEF Height
<1>2. Below(n) \in Seq(S)
  BY <1>1 DEF Below, Height
<1>3. ASSUME n > 0 PROVE Top(n) \in S
  <2>1. Height - n + 1 \in 1 .. Len(stack)
    BY <1>1, <1>3 DEF Height
  <2> QED
    BY <2>1 DEF Top
<1> QED
  BY <1>2, <1>3

LEMMA PutOnTop ==
  ASSUME NEW S, NEW s \in Seq(S), NEW x
  PROVE  Append(s, x) \in Seq(S \cup {x})
<1>1. s \in Seq(S \cup {x})
  <2>1. Len(s) \in Nat /\ s \in [1 .. Len(s) -> S]
    OBVIOUS
  <2>2. s \in [1 .. Len(s) -> S \cup {x}]
    BY <2>1
  <2> QED
    BY <2>1, <2>2, SeqDef
<1> QED
  BY <1>1

(* The forms of a step: the script goes on with operands taken and nothing,  *)
(* or a byte string, put on top; or it ends otherwise than with success.     *)
LEMMA GoesOn ==
  ASSUME ScriptInv, NEW n \in Nat, n <= Height, verdict' # "true", equals' = equals,
         \/ stack' = Below(n)
         \/ \E b : stack' = Append(Below(n), Bytes(b))
  PROVE  ScriptInv'
<1>1. PICK S : stack \in Seq(S) /\ (Integer(1) \in S => equals)
  BY DEF ScriptInv, TrueIsEarned
<1>2. Below(n) \in Seq(S)
  BY <1>1, OperandsTaken
<1>3. ASSUME NEW b, stack' = Append(Below(n), Bytes(b))
      PROVE  TrueIsEarned'
  <2>1. stack' \in Seq(S \cup {Bytes(b)})
    BY <1>2, <1>3, PutOnTop
  <2>2. Integer(1) \in S \cup {Bytes(b)} => equals'
    BY <1>1, BytesAreNotTrue
  <2> QED
    BY <2>1, <2>2 DEF TrueIsEarned, Integer
<1>4. TrueIsEarned'
  BY <1>1, <1>2, <1>3 DEF TrueIsEarned, Integer
<1> QED
  BY <1>4 DEF ScriptInv, SuccessIsAnEquality

(* A stack made of elements that were on the stack. *)
LEMMA SameElements ==
  ASSUME ScriptInv, UNCHANGED <<verdict, equals>>,
         \A S : stack \in Seq(S) => stack' \in Seq(S)
  PROVE  ScriptInv'
<1>1. PICK S : stack \in Seq(S) /\ (Integer(1) \in S => equals)
  BY DEF ScriptInv, TrueIsEarned
<1>2. stack' \in Seq(S)
  BY <1>1
<1>3. TrueIsEarned'
  BY <1>1, <1>2 DEF TrueIsEarned, Integer
<1> QED
  BY <1>3 DEF ScriptInv, SuccessIsAnEquality

LEMMA NothingTaken == ASSUME ScriptInv PROVE Below(0) = stack /\ Height \in Nat
<1>1. PICK S : stack \in Seq(S)
  BY DEF ScriptInv, TrueIsEarned
<1> QED
  BY <1>1 DEF Below, Height

LEMMA EqualityStep == ASSUME ScriptInv, Equal PROVE ScriptInv'
<1> DEFINE r == Integer(IF Top(1) = Top(2) THEN 1 ELSE 0)
<1>1. PICK S : stack \in Seq(S) /\ (Integer(1) \in S => equals)
  BY DEF ScriptInv, TrueIsEarned
<1>2. Height >= 2 /\ stack' = Append(Below(2), r) /\ UNCHANGED verdict
      /\ equals' = (equals \/ Top(1) = Top(2)) /\ verdict = "running"
  BY DEF Equal, Interpreting
<1>3. r = Integer(1) => Top(1) = Top(2)
  <2> SUFFICES ASSUME Top(1) # Top(2), Integer(0) = Integer(1)
               PROVE  FALSE
    BY DEF r
  <2>1. Integer(0).bytes = <<0>> /\ Integer(1).bytes = <<1>>
    BY DEF Integer
  <2>2. <<0>>[1] = <<1>>[1]
    BY <2>1
  <2> QED
    BY <2>2
<1> HIDE DEF r
<1>4. Below(2) \in Seq(S)
  BY <1>1, <1>2, OperandsTaken
<1>5. stack' \in Seq(S \cup {r})
  BY <1>2, <1>4, PutOnTop
<1>6. Integer(1) \in S \cup {r} => equals'
  BY <1>1, <1>2, <1>3
<1> QED
  BY <1>2, <1>5, <1>6 DEF ScriptInv, TrueIsEarned, SuccessIsAnEquality, Integer

LEMMA VerdictStep == ASSUME ScriptInv, ScriptEnds PROVE ScriptInv'
<1>1. PICK S : stack \in Seq(S) /\ (Integer(1) \in S => equals)
  BY DEF ScriptInv, TrueIsEarned
<1>2. /\ UNCHANGED <<stack, equals>>
      /\ verdict' = "true" => Height > 0 /\ Top(1) = Integer(1)
  BY DEF ScriptEnds, End
<1>3. verdict' = "true" => Integer(1) \in S
  <2> SUFFICES ASSUME verdict' = "true" PROVE Integer(1) \in S
    OBVIOUS
  <2>1. 1 <= Height
    BY <1>1, <1>2 DEF Height
  <2> QED
    BY <1>1, <1>2, <2>1, OperandsTaken
<1> QED
  BY <1>1, <1>2, <1>3 DEF ScriptInv, TrueIsEarned, SuccessIsAnEquality, Integer

LEMMA ScriptStepInv == ScriptInv /\ [ScriptNext]_scvars => ScriptInv'
<1> SUFFICES ASSUME ScriptInv, [ScriptNext]_scvars PROVE ScriptInv'
  OBVIOUS
<1>0. Below(0) = stack /\ Height \in Nat
  BY NothingTaken
<1>1. CASE PushItem
  BY <1>0, <1>1, GoesOn DEF PushItem, Continue, Interpreting
<1>2. CASE Shuffle
  <2>1. verdict = "running" /\ UNCHANGED <<verdict, equals>>
    BY <1>2 DEF Shuffle, Continue, Interpreting
  <2>2. ASSUME NEW S, stack \in Seq(S)
        PROVE  /\ Height >= 1 => Top(1) \in S
               /\ Height >= 2 => Top(2) \in S /\ Below(2) \in Seq(S)
    BY <1>0, <2>2, OperandsTaken
  <2>3. CASE Height >= 1 /\ Continue(Append(stack, Top(1)))
    BY <2>1, <2>2, <2>3, SameElements DEF Continue
  <2>4. CASE Height >= 2 /\ Continue(Append(stack, Top(2)))
    BY <2>1, <2>2, <2>4, SameElements DEF Continue
  <2>5. CASE Height >= 2 /\ Continue(Below(2) \o <<Top(1), Top(2)>>)
    <3>1. ASSUME NEW S, stack \in Seq(S)
          PROVE  Below(2) \o <<Top(1), Top(2)>> \in Seq(S)
      <4>1. <<Top(1), Top(2)>> \in Seq(S)
        BY <1>0, <2>2, <2>5, <3>1
      <4> QED
        BY <2>2, <2>5, <3>1, <4>1
    <3> QED
      BY <2>1, <2>5, <3>1, SameElements DEF Continue
  <2>6. CASE Height >= 2 /\ Continue(stack \o <<Top(2), Top(1)>>)
    <3>1. ASSUME NEW S, stack \in Seq(S)
          PROVE  stack \o <<Top(2), Top(1)>> \in Seq(S)
      <4>1. <<Top(2), Top(1)>> \in Seq(S)
        BY <1>0, <2>2, <2>6, <3>1
      <4> QED
        BY <3>1, <4>1
    <3> QED
      BY <2>1, <2>6, <3>1, SameElements DEF Continue
  <2>7. CASE \E n \in {1, 2} : Height >= n /\ Continue(Below(n))
    BY <1>0, <2>1, <2>7, GoesOn DEF Continue
  <2>8. CASE Continue(Append(stack, Little(Height, Short)))
    <3>1. stack' = Append(Below(0), Little(Height, Short)) /\ 0 <= Height
      BY <1>0, <2>8 DEF Continue
    <3> QED
      BY <2>1, <3>1, GoesOn DEF Little
  <2> QED
    BY <1>2, <2>2, <2>3, <2>4, <2>5, <2>6, <2>7, <2>8 DEF Shuffle
<1>3. CASE Arithmetic
  <2>1. PICK n \in {1, 2} :
          /\ Height >= n /\ verdict' # "true" /\ equals' = equals
          /\ \/ stack' = Below(n) \/ stack' = Below(1)
             \/ \E b : stack' = Append(Below(n), Bytes(b))
    BY <1>3 DEF Arithmetic, Continue, End, Interpreting, Little
  <2> QED
    BY <1>0, <2>1, GoesOn
<1>4. CASE Logic
  <2>1. /\ Height >= 2 /\ verdict' # "true" /\ equals' = equals
        /\ \/ stack' = Below(2) \/ stack' = Below(1)
           \/ \E b : stack' = Append(Below(2), Bytes(b))
    BY <1>4 DEF Logic, Continue, End, Interpreting, Little
  <2> QED
    BY <1>0, <2>1, GoesOn
<1>5. CASE Equal
  BY <1>5, EqualityStep
<1>6. CASE Verify
  BY <1>0, <1>6, GoesOn DEF Verify, Continue, End, Interpreting
<1>7. CASE Digest
  BY <1>0, <1>7, GoesOn DEF Digest, Continue, End, Interpreting
<1>8. CASE Size
  <2>1. /\ verdict' # "true" /\ equals' = equals
        /\ \/ stack' = Below(0)
           \/ \E b : stack' = Append(Below(0), Bytes(b))
    BY <1>0, <1>8 DEF Size, Continue, End, Interpreting, Little
  <2> QED
    BY <1>0, <2>1, GoesOn
<1>9. CASE ReturnFalse
  BY <1>0, <1>9, GoesOn DEF ReturnFalse, End
<1>10. CASE ScriptEnds
  BY <1>10, VerdictStep
<1>11. CASE UNCHANGED scvars
  BY <1>11 DEF scvars, ScriptInv, TrueIsEarned, SuccessIsAnEquality, Integer
<1> QED
  BY <1>1, <1>2, <1>3, <1>4, <1>5, <1>6, <1>7, <1>8, <1>9, <1>10, <1>11 DEF ScriptNext

(* Whatever a script pushes, adds, hashes or compares, and in whatever       *)
(* order: execute of script_vm.py answers True only if an OP_EQUAL found its *)
(* operands equal.                                                           *)
THEOREM SuccessNeedsAnEquality == ScriptSpec => []SuccessIsAnEquality
<1>1. ScriptInit => ScriptInv
  <2> SUFFICES ASSUME ScriptInit PROVE ScriptInv
    OBVIOUS
  <2>1. stack \in Seq({}) /\ verdict = "running"
    BY DEF ScriptInit
  <2> QED
    BY <2>1 DEF ScriptInv, TrueIsEarned, SuccessIsAnEquality
<1>2. ScriptInv => SuccessIsAnEquality
  BY DEF ScriptInv
<1> QED
  BY <1>1, <1>2, ScriptStepInv, PTL DEF ScriptSpec

(***************************************************************************)
(* The contract machine                                                    *)
(***************************************************************************)

MachineShape == DOMAIN vm = {"stack", "memory", "pc", "stopped"}

(* While the flag is up nothing is fetched: only a call and its report are   *)
(* left to happen.                                                           *)
LEMMA OnlyCallsAndReports ==
  ASSUME MachineShape, vm.stopped, [MachineNext]_mvars
  PROVE  /\ vm'.stopped /\ vm'.stack = vm.stack /\ vm'.memory = vm.memory
         /\ answer' \in {"none", "failure", answer}
<1>1. ~Fetching
  BY DEF Fetching
<1>2. ASSUME NEW c \in Contracts, NEW a \in Addresses, CallContract(c, a)
      PROVE  /\ vm'.stopped /\ vm'.stack = vm.stack /\ vm'.memory = vm.memory
             /\ answer' = "none"
  BY <1>2 DEF CallContract, MachineShape
<1>3. CASE Report
  BY <1>3 DEF Report
<1>4. CASE UNCHANGED mvars
  BY <1>4 DEF mvars
<1> QED
  BY <1>1, <1>2, <1>3, <1>4
  DEF MachineNext, Push, Compute, Hash, LoadWord, StoreWord, Jump, PushAddress, Balance,
      Stop, Pass, High

LEMMA MachineShapeStep == MachineShape /\ [MachineNext]_mvars => MachineShape'
<1> SUFFICES ASSUME MachineShape, [MachineNext]_mvars PROVE MachineShape'
  OBVIOUS
<1> USE DEF MachineShape
<1>1. ASSUME NEW c \in Contracts, NEW a \in Addresses, CallContract(c, a)
      PROVE  MachineShape'
  BY <1>1 DEF CallContract
<1>2. CASE Push \/ Compute \/ Hash
  BY <1>2 DEF Push, Compute, Hash, Pushed, Next1
<1>3. CASE LoadWord \/ StoreWord
  BY <1>3 DEF LoadWord, StoreWord, RaiseTaking, Pushed, Next1
<1>4. CASE Jump \/ PushAddress \/ Balance
  BY <1>4 DEF Jump, PushAddress, Balance, RaiseTaking, Pushed, Next1
<1>5. CASE Stop \/ Pass \/ High \/ Report \/ UNCHANGED mvars
  BY <1>5 DEF Stop, Pass, High, Raise, Report, Next1, mvars
<1> QED
  BY <1>1, <1>2, <1>3, <1>4, <1>5 DEF MachineNext

(* Once a contract of smart_contract_vm.py has executed STOP, every later    *)
(* one on the object is a failure that changes neither stack nor memory.     *)
THEOREM StopIsForGood == MachineSpec => StoppedForGood
<1>1. MachineInit => MachineShape
  BY DEF MachineInit, MachineShape
<1>2. MachineShape /\ [MachineNext]_mvars
        => [vm.stopped => /\ vm'.stopped /\ vm'.stack = vm.stack /\ vm'.memory = vm.memory
                          /\ answer' \in {"none", "failure", answer}]_mvars
  BY OnlyCallsAndReports
<1> QED
  BY <1>1, <1>2, MachineShapeStep, PTL DEF MachineSpec, StoppedForGood

-----------------------------------------------------------------------------
(***************************************************************************)
(* The words of the contract machine                                       *)
(***************************************************************************)

\* What a number spelled by the digits after the m-th has to be.
IsSpelled(f, m, n, digit) ==
    f = [k \in m .. n |-> IF k = m THEN 0 ELSE f[k - 1] * Base + digit[k]]

LEMMA SpelledExists ==
  ASSUME NEW m \in Nat, NEW n \in Nat, m <= n, NEW digit
  PROVE  \E f : IsSpelled(f, m, n, digit)
<1> DEFINE Right(f, k) == f[k] = IF k = m THEN 0 ELSE f[k - 1] * Base + digit[k]
           Good == {l \in Nat : \E f : \A k \in m .. m + l : Right(f, k)}
<1>1. 0 \in Good
  <2>1. \A k \in m .. m + 0 : Right([j \in {m} |-> 0], k)
    OBVIOUS
  <2> QED BY <2>1
<1>2. ASSUME NEW l \in Good PROVE l + 1 \in Good
  <2>1. PICK f : \A k \in m .. m + l : Right(f, k)
    OBVIOUS
  <2>2. PICK p : p = m + l
    OBVIOUS
  <2>3. p \in Nat /\ m <= p /\ m + (l + 1) = p + 1
    BY <2>2
  <2> DEFINE g == [k \in m .. p + 1 |-> IF k = p + 1 THEN f[p] * Base + digit[k] ELSE f[k]]
  <2>4. ASSUME NEW k \in m .. p + 1 PROVE Right(g, k)
    <3>1. k \in Nat /\ p + 1 \in m .. p + 1
      BY <2>3
    <3>2. CASE k = p + 1
      <4>1. g[k] = f[p] * Base + digit[k]
        BY <3>1, <3>2
      <4>2. k - 1 = p /\ p \in m .. p + 1 /\ p # p + 1 /\ k # m
        BY <2>3, <3>1, <3>2
      <4>3. g[k - 1] = f[p]
        BY <4>2
      <4> HIDE DEF g
      <4> QED BY <4>1, <4>2, <4>3
    <3>3. CASE k # p + 1
      <4>1. k \in m .. p /\ (k # m => k - 1 \in m .. p)
        BY <2>3, <3>1, <3>3
      <4>2. g[k] = f[k] /\ (k # m => g[k - 1] = f[k - 1])
        BY <2>3, <4>1
      <4>3. Right(f, k)
        BY <2>1, <2>2, <4>1
      <4> HIDE DEF g
      <4> QED BY <4>2, <4>3
    <3> QED BY <3>2, <3>3
  <2>5. l + 1 \in Nat
    OBVIOUS
  <2> HIDE DEF g
  <2> QED BY <2>3, <2>4, <2>5
<1>3. Good = Nat
  <2> HIDE DEF Good
  <2>1. Good \in SUBSET Nat
    BY DEF Good
  <2> QED BY <1>1, <1>2, <2>1, NatSetInduction
<1>4. PICK f : \A k \in m .. n : Right(f, k)
  <2>1. n - m \in Good /\ m + (n - m) = n
    <3> HIDE DEF Good
    <3> QED BY <1>3
  <2> QED BY <2>1
<1> DEFINE h == [k \in m .. n |-> f[k]]
<1>5. ASSUME NEW k \in m .. n PROVE f[k] = IF k = m THEN 0 ELSE h[k - 1] * Base + digit[k]
  <2>1. Right(f, k)
    BY <1>4
  <2>2. k # m => h[k - 1] = f[k - 1]
    OBVIOUS
  <2> HIDE DEF h
  <2> QED BY <2>1, <2>2
<1>6. IsSpelled(h, m, n, digit)
  BY <1>5 DEF IsSpelled
<1> QED BY <1>6

LEMMA PowerEquation ==
  /\ Power[0] = 1 /\ \A n \in 1 .. Width : Power[n] = Power[n - 1] * Base
  /\ \A n \in 0 .. Width : Power[n] \in Nat /\ Power[n] > 0
<1> DEFINE IsPower(f) == f = [n \in 0 .. Width |-> IF n = 0 THEN 1 ELSE f[n - 1] * Base]
<1>1. Width \in Nat /\ Base \in Nat /\ Base > 1
  BY MachineAssumption
<1>2. \E f : IsPower(f)
  <2> DEFINE Right(f, k) == f[k] = IF k = 0 THEN 1 ELSE f[k - 1] * Base
             Good == {l \in Nat : \E f : \A k \in 0 .. l : Right(f, k)}
  <2>1. 0 \in Good
    <3>1. \A k \in 0 .. 0 : Right([j \in {0} |-> 1], k)
      OBVIOUS
    <3> QED BY <3>1
  <2>2. ASSUME NEW l \in Good PROVE l + 1 \in Good
    <3>1. PICK f : \A k \in 0 .. l : Right(f, k)
      OBVIOUS
    <3> DEFINE g == [k \in 0 .. l + 1 |-> IF k = l + 1 THEN f[l] * Base ELSE f[k]]
    <3>2. ASSUME NEW k \in 0 .. l + 1 PROVE Right(g, k)
      <4>1. k \in Nat /\ l \in Nat
        OBVIOUS
      <4>2. CASE k = l + 1
        <5>1. g[k] = f[l] * Base
          BY <4>1, <4>2
        <5>2. g[k - 1] = f[l] /\ k # 0
          BY <4>1, <4>2
        <5> HIDE DEF g
        <5> QED BY <5>1, <5>2
      <4>3. CASE k # l + 1
        <5>1. k \in 0 .. l
          BY <4>1, <4>3
        <5>2. g[k] = f[k] /\ (k # 0 => g[k - 1] = f[k - 1])
          BY <4>1, <5>1
        <5>3. Right(f, k)
          BY <3>1, <5>1
        <5> HIDE DEF g
        <5> QED BY <5>2, <5>3
      <4> QED BY <4>2, <4>3
    <3>3. l + 1 \in Nat
      OBVIOUS
    <3> HIDE DEF g
    <3> QED BY <3>2, <3>3
  <2>3. Good = Nat
    <3> HIDE DEF Good
    <3>1. Good \in SUBSET Nat
      BY DEF Good
    <3> QED BY <2>1, <2>2, <3>1, NatSetInduction
  <2>4. PICK f : \A k \in 0 .. Width : Right(f, k)
    <3>1. Width \in Good
      <4> HIDE DEF Good
      <4> QED BY <1>1, <2>3
    <3> QED BY <3>1
  <2> DEFINE h == [n \in 0 .. Width |-> f[n]]
  <2>5. ASSUME NEW n \in 0 .. Width PROVE f[n] = IF n = 0 THEN 1 ELSE h[n - 1] * Base
    <3>1. Right(f, n)
      BY <2>4
    <3>2. n # 0 => h[n - 1] = f[n - 1]
      BY <1>1
    <3> HIDE DEF h
    <3> QED BY <3>1, <3>2
  <2>6. IsPower(h)
    BY <2>5
  <2> QED BY <2>6
<1>3. IsPower(Power)
  <2>1. Power = CHOOSE f : IsPower(f)
    BY DEF Power
  <2> HIDE DEF IsPower
  <2> QED BY <1>2, <2>1
<1>4. PICK f : f = Power
  OBVIOUS
<1>5. f[0] = 1 /\ \A n \in 1 .. Width : f[n] = f[n - 1] * Base
  <2> DEFINE h == [n \in 0 .. Width |-> IF n = 0 THEN 1 ELSE f[n - 1] * Base]
  <2>1. f = h
    <3>1. IsPower(f)
      <4> HIDE DEF IsPower
      <4> QED BY <1>3, <1>4
    <3> QED BY ONLY <3>1
  <2>2. \A n \in 0 .. Width : h[n] = IF n = 0 THEN 1 ELSE f[n - 1] * Base
    BY ONLY Zenon
  <2>3. 0 \in 0 .. Width /\ \A n \in 1 .. Width : n \in 0 .. Width /\ n # 0
    BY <1>1
  <2> HIDE DEF h
  <2> QED BY ONLY <2>1, <2>2, <2>3, Zenon
<1> DEFINE T == {n \in Nat : n <= Width => f[n] \in Nat /\ f[n] > 0}
<1>6. 0 \in T
  BY <1>5
<1>7. ASSUME NEW n \in T PROVE n + 1 \in T
  <2> SUFFICES ASSUME n + 1 <= Width PROVE f[n + 1] \in Nat /\ f[n + 1] > 0
    OBVIOUS
  <2>1. f[n] \in Nat /\ f[n] > 0 /\ n + 1 \in 1 .. Width /\ n + 1 - 1 = n
    BY <1>1
  <2>2. f[n + 1] = f[n] * Base
    BY <1>5, <2>1
  <2> QED BY <1>1, <2>1, <2>2
<1>8. T = Nat
  <2> HIDE DEF T
  <2>1. T \in SUBSET Nat
    BY DEF T
  <2> QED BY <1>6, <1>7, <2>1, NatSetInduction
<1>9. ASSUME NEW n \in 0 .. Width PROVE f[n] \in Nat /\ f[n] > 0
  <2>1. n \in T /\ n <= Width
    <3> HIDE DEF T
    <3> QED BY <1>1, <1>8
  <2> QED BY <2>1
<1> HIDE DEF T
<1> QED BY <1>4, <1>5, <1>9

LEMMA PowerGrows == ASSUME NEW n \in 0 .. Width PROVE Power[n] <= Word
<1>1. Width \in Nat /\ Base \in Nat /\ Base > 1
  BY MachineAssumption
<1>2. PICK f : f = Power
  OBVIOUS
<1>3. /\ \A k \in 1 .. Width : f[k] = f[k - 1] * Base
      /\ \A k \in 0 .. Width : f[k] \in Nat /\ f[k] > 0
  BY <1>2, PowerEquation
<1> DEFINE T == {k \in Nat : n + k <= Width => f[n] <= f[n + k]}
<1>4. 0 \in T
  BY <1>1, <1>3
<1>5. ASSUME NEW k \in T PROVE k + 1 \in T
  <2> SUFFICES ASSUME n + (k + 1) <= Width PROVE f[n] <= f[n + (k + 1)]
    OBVIOUS
  <2>1. PICK p : p = n + k
    OBVIOUS
  <2>2. p \in 0 .. Width /\ p + 1 \in 1 .. Width /\ n + (k + 1) = p + 1 /\ p + 1 - 1 = p
    BY <1>1, <2>1
  <2>3. f[n] <= f[p]
    BY <1>1, <2>1, <2>2
  <2>4. f[p + 1] = f[p] * Base /\ f[p] \in Nat /\ f[n] \in Nat
    BY <1>3, <2>2
  <2>5. f[p] <= f[p] * Base
    BY <1>1, <2>4
  <2> QED BY <1>1, <2>2, <2>3, <2>4, <2>5
<1>6. T = Nat
  <2> HIDE DEF T
  <2>1. T \in SUBSET Nat
    BY DEF T
  <2> QED BY <1>4, <1>5, <2>1, NatSetInduction
<1>7. Width - n \in T /\ n + (Width - n) = Width
  <2> HIDE DEF T
  <2> QED BY <1>1, <1>6
<1> QED BY <1>1, <1>2, <1>7 DEF Word

\* Digits below Base, as many as a word has bytes or fewer, spell a word.
LEMMA SpelledFits ==
  ASSUME NEW m \in Nat, NEW n \in m .. m + Width, NEW digit,
         \A k \in m + 1 .. n : digit[k] \in 0 .. Base - 1,
         NEW f, IsSpelled(f, m, n, digit)
  PROVE  f[n] \in Nat /\ f[n] < Word
<1>1. Width \in Nat /\ Base \in Nat /\ Base > 1 /\ n \in Nat
  BY MachineAssumption
<1>2. f[m] = 0 /\ \A k \in m + 1 .. n : f[k] = f[k - 1] * Base + digit[k]
  <2> DEFINE h == [k \in m .. n |-> IF k = m THEN 0 ELSE f[k - 1] * Base + digit[k]]
  <2>1. f = h
    <3>1. IsSpelled(f, m, n, digit)
      OBVIOUS
    <3> QED BY ONLY <3>1 DEF IsSpelled
  <2>2. \A k \in m .. n : h[k] = IF k = m THEN 0 ELSE f[k - 1] * Base + digit[k]
    BY ONLY Zenon
  <2>3. m \in m .. n /\ \A k \in m + 1 .. n : k \in m .. n /\ k # m
    BY <1>1
  <2> HIDE DEF h
  <2> QED BY ONLY <2>1, <2>2, <2>3, Zenon
<1>3. PICK g : g = Power
  OBVIOUS
<1>4. /\ g[0] = 1 /\ \A k \in 1 .. Width : g[k] = g[k - 1] * Base
      /\ \A k \in 0 .. Width : g[k] \in Nat /\ g[k] > 0
  BY <1>3, PowerEquation
<1> DEFINE T == {k \in Nat : m + k <= n => f[m + k] \in Nat /\ f[m + k] < g[k]}
<1>5. 0 \in T
  BY <1>2, <1>4
<1>6. ASSUME NEW k \in T PROVE k + 1 \in T
  <2> SUFFICES ASSUME m + (k + 1) <= n PROVE f[m + (k + 1)] \in Nat /\ f[m + (k + 1)] < g[k + 1]
    OBVIOUS
  <2>1. PICK p : p = m + k
    OBVIOUS
  <2>0. k \in Nat /\ p \in Nat
    BY <2>1
  <2>2. /\ p + 1 \in m + 1 .. n /\ m + (k + 1) = p + 1 /\ p + 1 - 1 = p
        /\ k + 1 \in 1 .. Width /\ k \in 0 .. Width /\ k + 1 - 1 = k
    BY <1>1, <2>1
  <2>3. PICK x, d, q : x = f[p] /\ d = digit[p + 1] /\ q = g[k]
    OBVIOUS
  <2>4. x \in Nat /\ x < q /\ q \in Nat /\ d \in 0 .. Base - 1
    BY <1>1, <1>4, <2>1, <2>2, <2>3
  <2>5. f[p + 1] = x * Base + d /\ g[k + 1] = q * Base
    <3> HIDE DEF T
    <3>1. PICK r, s : r = p + 1 /\ s = k + 1
      OBVIOUS
    <3>2. r \in m + 1 .. n /\ r - 1 = p /\ s \in 1 .. Width /\ s - 1 = k
      BY <2>0, <2>2, <3>1
    <3>3. f[r] = f[r - 1] * Base + digit[r]
      BY <1>2, <3>2, Zenon
    <3>4. g[s] = g[s - 1] * Base
      BY <1>4, <3>2, Zenon
    <3> QED BY <2>3, <3>1, <3>2, <3>3, <3>4, Zenon
  <2>6. x * Base + d \in Nat /\ x * Base + d < q * Base
    <3>1. x + 1 <= q /\ d \in Nat /\ d < Base
      BY <1>1, <2>4
    <3>2. (x + 1) * Base <= q * Base /\ (x + 1) * Base = x * Base + Base /\ x * Base \in Nat
      BY <1>1, <2>4, <3>1
    <3> QED BY <1>1, <2>4, <3>1, <3>2
  <2> QED BY <2>2, <2>5, <2>6
<1>7. T = Nat
  <2> HIDE DEF T
  <2>1. T \in SUBSET Nat
    BY DEF T
  <2> QED BY <1>5, <1>6, <2>1, NatSetInduction
<1>8. n - m \in T /\ m + (n - m) = n /\ n - m \in 0 .. Width
  <2> HIDE DEF T
  <2> QED BY <1>1, <1>7
<1>9. f[n] \in Nat /\ f[n] < g[n - m]
  BY <1>1, <1>8
<1>10. g[n - m] <= Word /\ g[n - m] \in Nat /\ Word \in Nat
  <2>1. Width \in 0 .. Width
    BY <1>1
  <2> QED BY <1>3, <1>4, <1>8, <2>1, PowerGrows DEF Word
<1> QED BY <1>9, <1>10

\* A stack of numbers, words unless an address longer than a word was pushed.
Fits(s, l) ==
  /\ s \in Seq(Nat)
  /\ \A k \in 1 .. Len(s) : s[k] >= Word => l

LEMMA RestFits ==
  ASSUME NEW s, NEW l, Fits(s, l), NEW n \in Nat, n <= Len(s)
  PROVE  Fits(SubSeq(s, 1, Len(s) - n), l)
<1>1. s \in Seq(Nat) /\ Len(s) \in Nat
  BY DEF Fits
<1>2. PICK e : e = Len(s) - n
  OBVIOUS
<1>3. e \in Nat /\ e <= Len(s)
  BY <1>1, <1>2
<1>4. SubSeq(s, 1, e) = [k \in 1 .. e |-> s[k]]
  BY <1>1, <1>3
<1>5. PICK t : t = SubSeq(s, 1, e)
  OBVIOUS
<1>6. t \in Seq(Nat) /\ Len(t) = e /\ \A k \in 1 .. e : t[k] = s[k] /\ k \in 1 .. Len(s)
  <2>1. \A k \in 1 .. e : s[k] \in Nat /\ k \in 1 .. Len(s)
    BY <1>1, <1>3
  <2> QED BY <1>3, <1>4, <1>5, <2>1
<1>7. Fits(t, l)
  BY <1>6 DEF Fits
<1> QED BY <1>2, <1>5, <1>7

LEMMA AppendFits ==
  ASSUME NEW s, NEW l, Fits(s, l), NEW v \in Nat, v >= Word => l
  PROVE  Fits(Append(s, v), l)
<1>1. s \in Seq(Nat) /\ Len(s) \in Nat
  BY DEF Fits
<1>2. PICK t : t = Append(s, v)
  OBVIOUS
<1>3. /\ t \in Seq(Nat) /\ Len(t) = Len(s) + 1 /\ t[Len(s) + 1] = v
      /\ \A k \in 1 .. Len(s) : t[k] = s[k]
  BY <1>1, <1>2
<1>4. ASSUME NEW k \in 1 .. Len(t), t[k] >= Word PROVE l
  <2>1. CASE k = Len(s) + 1
    BY <1>3, <1>4, <2>1
  <2>2. CASE k # Len(s) + 1
    <3>1. k \in 1 .. Len(s)
      BY <1>1, <1>3, <2>2
    <3>2. s[k] >= Word
      BY <1>3, <1>4, <3>1
    <3> QED BY <3>1, <3>2 DEF Fits
  <2> QED BY <2>1, <2>2
<1> QED BY <1>2, <1>3, <1>4 DEF Fits

MachineInv ==
  /\ vm \in [stack : Seq(Nat), memory : Seq(0 .. Base - 1), pc : Nat, stopped : BOOLEAN]
  /\ code \in Seq(STRING)
  /\ self \in Addresses
  /\ long \in BOOLEAN
  /\ Fits(vm.stack, long)

LEMMA WordIsNat == Word \in Nat /\ Word > 1
<1>1. Width \in Nat /\ Base \in Nat /\ Base > 1 /\ Width \in 0 .. Width /\ 1 \in 0 .. Width /\ 0 \in 0 .. Width /\ 1 \in 1 .. Width
  BY MachineAssumption
<1>2. Power[1] = Power[1 - 1] * Base /\ Power[0] = 1 /\ Power[1] \in Nat /\ Power[Width] \in Nat
  BY <1>1, PowerEquation
<1>3. Power[1] <= Word
  BY <1>1, PowerGrows
<1>4. Power[1] = Base
  BY <1>1, <1>2
<1> QED BY <1>1, <1>2, <1>3, <1>4 DEF Word

LEMMA ArgFits ==
  ASSUME MachineInv, NEW n \in {1, 2}, Holds(n)
  PROVE  Arg(n) \in Nat /\ (Arg(n) >= Word => long) /\ Fits(Rest(n), long) /\ n \in Nat /\ n <= Len(vm.stack)
<1>1. PICK s : s = vm.stack
  OBVIOUS
<1>2. s \in Seq(Nat) /\ Len(s) \in Nat /\ n <= Len(s) /\ n \in Nat /\ Fits(s, long)
  BY <1>1 DEF MachineInv, Holds, Fits
<1>3. PICK k : k = Len(s) - n + 1
  OBVIOUS
<1>4. k \in 1 .. Len(s)
  BY <1>2, <1>3
<1>5. s[k] \in Nat /\ (s[k] >= Word => long)
  BY <1>2, <1>4 DEF Fits
<1>6. Fits(SubSeq(s, 1, Len(s) - n), long)
  BY <1>2, RestFits
<1> QED BY <1>1, <1>2, <1>3, <1>5, <1>6 DEF Arg, Rest

\* What is computed of two words is a word, and of two numbers a number.
LEMMA BinaryFits ==
  ASSUME NEW a \in Nat, NEW b \in Nat,
         NEW op \in {"ADD", "SUB", "MUL", "DIV", "LT", "GT", "EQ"}
  PROVE  /\ Binary(op, a, b) \in Nat
         /\ Binary(op, a, b) >= Word => a >= Word
<1>1. PICK w : w = Word
  OBVIOUS
<1>2. w \in Nat /\ w > 1
  BY <1>1, WordIsNat
<1>3. (a + b) % w \in 0 .. w - 1 /\ (a - b) % w \in 0 .. w - 1
  BY <1>2
<1>4. a * b \in Nat
  OBVIOUS
<1>5. (a * b) % w \in 0 .. w - 1
  BY <1>2, <1>4
<1>6. CASE op = "DIV"
  <2>1. b # 0 => a \div b \in Nat /\ a \div b <= a
    OBVIOUS
  <2>2. Binary(op, a, b) = IF b = 0 THEN 0 ELSE a \div b
    BY <1>6 DEF Binary
  <2> QED BY <1>1, <1>2, <2>1, <2>2
<1>7. CASE op = "ADD"
  <2>1. Binary(op, a, b) = (a + b) % w
    BY <1>1, <1>7 DEF Binary
  <2> QED BY <1>1, <1>2, <1>3, <2>1
<1>8. CASE op = "SUB"
  <2>1. Binary(op, a, b) = (a - b) % w
    BY <1>1, <1>8 DEF Binary
  <2> QED BY <1>1, <1>2, <1>3, <2>1
<1>9. CASE op = "MUL"
  <2>1. Binary(op, a, b) = (a * b) % w
    BY <1>1, <1>9 DEF Binary
  <2> QED BY <1>1, <1>2, <1>5, <2>1
<1>10. CASE op \in {"LT", "GT", "EQ"}
  <2>1. Binary(op, a, b) \in {0, 1}
    BY <1>10 DEF Binary
  <2> QED BY <1>1, <1>2, <2>1
<1> QED BY <1>6, <1>7, <1>8, <1>9, <1>10

\* The immediate of a push is a word.
LEMMA ImmediateFits ==
  ASSUME MachineInv, Fetching, NEW w \in 1 .. Width
  PROVE  Immediate(w) \in Nat /\ Immediate(w) < Word
<1>1. PICK m, n : m = vm.pc + 1 /\ n = IF m + w < Len(code) THEN m + w ELSE Len(code)
  OBVIOUS
<1>2. m \in Nat /\ n \in Nat /\ m <= n /\ n <= m + w /\ w <= Width /\ Width \in Nat /\ Base \in Nat /\ Base > 1
  <2>1. PICK l : l = Len(code)
    OBVIOUS
  <2>2. PICK p : p = vm.pc
    OBVIOUS
  <2>3. l \in Nat /\ p \in Nat /\ p < l /\ w \in Nat /\ w <= Width /\ Width \in Nat /\ Base \in Nat /\ Base > 1
    BY <2>1, <2>2, MachineAssumption DEF MachineInv, Fetching
  <2>4. m = p + 1 /\ n = IF m + w < l THEN m + w ELSE l
    BY <1>1, <2>1, <2>2
  <2> QED BY ONLY <2>3, <2>4
<1> DEFINE digit == [k \in m .. n |-> ByteOf(code[k])]
           IsNum(f) == f = [k \in m .. n |-> IF k = m THEN 0 ELSE f[k - 1] * Base + ByteOf(code[k])]
<1>3. Immediate(w) = (CHOOSE f : IsNum(f))[n]
  BY <1>1 DEF Immediate
<1>4. ASSUME NEW f PROVE IsSpelled(f, m, n, digit) <=> IsNum(f)
  <2>1. \A k \in m .. n : digit[k] = ByteOf(code[k])
    OBVIOUS
  <2> HIDE DEF digit
  <2>2. [k \in m .. n |-> IF k = m THEN 0 ELSE f[k - 1] * Base + digit[k]]
        = [k \in m .. n |-> IF k = m THEN 0 ELSE f[k - 1] * Base + ByteOf(code[k])]
    BY <2>1, Zenon
  <2> QED BY <2>2, Zenon DEF IsSpelled
<1>5. \A k \in m + 1 .. n : digit[k] \in 0 .. Base - 1
  BY <1>2 DEF ByteOf
<1> HIDE DEF digit
<1>6. \E f : IsSpelled(f, m, n, digit)
  BY <1>2, SpelledExists
<1>7. PICK f : f = CHOOSE g : IsNum(g)
  OBVIOUS
<1>8. IsSpelled(f, m, n, digit)
  <2> HIDE DEF IsNum
  <2> QED BY <1>4, <1>6, <1>7, Zenon
<1>9. n \in m .. m + Width
  BY <1>2
<1>10. f[n] \in Nat /\ f[n] < Word
  BY <1>2, <1>5, <1>8, <1>9, SpelledFits
<1> QED BY <1>3, <1>7, <1>10

\* A word read from the memory is one.
LEMMA LoadedFits ==
  ASSUME MachineInv, NEW a \in Nat, a + Width <= Len(vm.memory),
         NEW num, num = CHOOSE f : f = [k \in 0 .. Width |->
                          IF k = 0 THEN 0 ELSE f[k - 1] * Base + vm.memory[a + k]]
  PROVE  num[Width] \in Nat /\ num[Width] < Word
<1>1. Width \in Nat /\ Base \in Nat /\ Base > 1 /\ 0 \in Nat /\ 0 <= Width /\ Width \in 0 .. 0 + Width
  BY MachineAssumption
<1> DEFINE digit == [k \in 0 .. Width |-> vm.memory[a + k]]
           IsNum(f) == f = [k \in 0 .. Width |-> IF k = 0 THEN 0 ELSE f[k - 1] * Base + vm.memory[a + k]]
<1>2. ASSUME NEW f PROVE IsSpelled(f, 0, Width, digit) <=> IsNum(f)
  <2>1. \A k \in 0 .. Width : digit[k] = vm.memory[a + k]
    OBVIOUS
  <2> HIDE DEF digit
  <2>2. [k \in 0 .. Width |-> IF k = 0 THEN 0 ELSE f[k - 1] * Base + digit[k]]
        = [k \in 0 .. Width |-> IF k = 0 THEN 0 ELSE f[k - 1] * Base + vm.memory[a + k]]
    BY <2>1, Zenon
  <2> QED BY <2>2, Zenon DEF IsSpelled
<1>3. ASSUME NEW k \in 0 + 1 .. Width PROVE digit[k] \in 0 .. Base - 1
  <2>1. PICK c : c = vm.memory
    OBVIOUS
  <2>2. c \in Seq(0 .. Base - 1) /\ a + Width <= Len(c) /\ Len(c) \in Nat
    BY <2>1 DEF MachineInv
  <2>3. a + k \in 1 .. Len(c)
    BY <1>1, <2>2
  <2>4. c[a + k] \in 0 .. Base - 1
    <3>1. PICK i : i = a + k
      OBVIOUS
    <3>2. c[i] \in 0 .. Base - 1
      <4>1. c \in Seq(0 .. Base - 1) /\ i \in 1 .. Len(c)
        BY <2>2, <2>3, <3>1
      <4> QED BY ONLY <4>1, ElementOfSeq
    <3> QED BY <3>1, <3>2
  <2>5. digit[k] = c[a + k]
    BY <1>1, <2>1
  <2> QED BY <2>4, <2>5
<1> HIDE DEF digit
<1>4. \E f : IsSpelled(f, 0, Width, digit)
  BY <1>1, SpelledExists
<1>5. num = CHOOSE f : IsNum(f)
  OBVIOUS
<1>6. IsSpelled(num, 0, Width, digit)
  <2> HIDE DEF IsNum
  <2> QED BY <1>2, <1>4, <1>5, Zenon
<1> QED BY <1>1, <1>3, <1>6, SpelledFits

\* A store writes bytes.
LEMMA GrownFits ==
  ASSUME MachineInv, NEW a \in Nat, NEW v \in Nat
  PROVE  Grown(a, v) \in Seq(0 .. Base - 1)
<1>1. PICK c : c = vm.memory
  OBVIOUS
<1>2. c \in Seq(0 .. Base - 1) /\ Len(c) \in Nat /\ Width \in Nat /\ Base \in Nat /\ Base > 1
  BY <1>1, MachineAssumption DEF MachineInv
<1>3. PICK size : size = IF a + Width > Len(c) THEN a + Width ELSE Len(c)
  OBVIOUS
<1>4. size \in Nat
  BY <1>2, <1>3
<1> DEFINE Value(k) == IF k \in a + 1 .. a + Width THEN (v \div Power[a + Width - k]) % Base
                       ELSE IF k <= Len(c) THEN c[k] ELSE 0
<1>5. ASSUME NEW k \in 1 .. size PROVE Value(k) \in 0 .. Base - 1
  <2>1. CASE k \in a + 1 .. a + Width
    <3>1. PICK p, q : p = a + Width - k /\ q = Power[p]
      OBVIOUS
    <3>2. p \in 0 .. Width
      BY <1>2, <2>1, <3>1
    <3>3. q \in Nat /\ q > 0
      BY <3>1, <3>2, PowerEquation
    <3>4. (v \div q) \in Nat
      BY <3>3
    <3>5. (v \div q) % Base \in 0 .. Base - 1
      BY <1>2, <3>4
    <3>6. Value(k) = (v \div q) % Base
      <4>1. Value(k) = (v \div Power[a + Width - k]) % Base
        BY ONLY <2>1, Zenon
      <4> HIDE DEF Value
      <4> QED BY ONLY <4>1, <3>1, Zenon
    <3> QED BY <3>5, <3>6
  <2>2. CASE k \notin a + 1 .. a + Width /\ k <= Len(c)
    <3>1. c[k] \in 0 .. Base - 1
      BY <1>2, <1>4, <2>2
    <3>2. Value(k) = c[k]
      BY <2>2, Zenon
    <3> QED BY <3>1, <3>2
  <2>3. CASE k \notin a + 1 .. a + Width /\ ~(k <= Len(c))
    <3>1. Value(k) = 0
      BY <2>3, Zenon
    <3> QED BY <1>2, <3>1
  <2> QED BY <2>1, <2>2, <2>3
<1>6. Grown(a, v) = [k \in 1 .. size |-> Value(k)]
  BY <1>1, <1>3 DEF Grown
<1> HIDE DEF Value
<1> QED BY <1>4, <1>5, <1>6

LEMMA MachineStart == MachineInit => MachineInv
<1> SUFFICES ASSUME MachineInit PROVE MachineInv
  OBVIOUS
<1>1. self \in Addresses
  BY MachineAssumption DEF MachineInit
<1>2. <<>> \in Seq(Nat) /\ <<>> \in Seq(0 .. Base - 1) /\ <<>> \in Seq(STRING) /\ Fits(<<>>, long)
  BY DEF Fits
<1> QED BY <1>1, <1>2 DEF MachineInit, MachineInv

\* A step that leaves a machine of the right shape: the rest is unchanged.
LEMMA MachineKept ==
  ASSUME MachineInv, UNCHANGED <<self, long>>, code' = code \/ code' = <<>>,
         NEW s, NEW m \in Seq(0 .. Base - 1), NEW p \in Nat, NEW b \in BOOLEAN,
         vm' = [stack |-> s, memory |-> m, pc |-> p, stopped |-> b], Fits(s, long)
  PROVE  MachineInv'
<1>0. <<>> \in Seq(STRING)
  OBVIOUS
<1>1. s \in Seq(Nat) /\ code' \in Seq(STRING)
  BY <1>0 DEF Fits, MachineInv
<1>2. vm' \in [stack : Seq(Nat), memory : Seq(0 .. Base - 1), pc : Nat, stopped : BOOLEAN] /\ vm'.stack = s
  BY <1>1
<1>3. Fits(vm'.stack, long')
  BY <1>2
<1> QED BY <1>1, <1>2, <1>3 DEF MachineInv

\* What the record operations of the handlers build.
LEMMA MachineParts ==
  ASSUME MachineInv
  PROVE  /\ vm.memory \in Seq(0 .. Base - 1) /\ vm.pc \in Nat /\ vm.pc + 1 \in Nat /\ vm.stopped \in BOOLEAN
         /\ Fits(vm.stack, long)
         /\ Next1 = [stack |-> vm.stack, memory |-> vm.memory, pc |-> vm.pc + 1, stopped |-> vm.stopped]
         /\ \A s : [Next1 EXCEPT !.stack = s]
              = [stack |-> s, memory |-> vm.memory, pc |-> vm.pc + 1, stopped |-> vm.stopped]
         /\ \A s : [vm EXCEPT !.stack = s]
              = [stack |-> s, memory |-> vm.memory, pc |-> vm.pc, stopped |-> vm.stopped]
         /\ vm = [stack |-> vm.stack, memory |-> vm.memory, pc |-> vm.pc, stopped |-> vm.stopped]
<1>1. PICK w : w = vm
  OBVIOUS
<1>2. w \in [stack : Seq(Nat), memory : Seq(0 .. Base - 1), pc : Nat, stopped : BOOLEAN]
  BY <1>1 DEF MachineInv
<1>3. Fits(vm.stack, long)
  BY DEF MachineInv
<1>4. PICK t, m, p, b : t = w.stack /\ m = w.memory /\ p = w.pc /\ b = w.stopped
  OBVIOUS
<1>5. w = [stack |-> t, memory |-> m, pc |-> p, stopped |-> b] /\ m \in Seq(0 .. Base - 1) /\ p \in Nat /\ b \in BOOLEAN
  BY <1>2, <1>4
<1>6. Next1 = [stack |-> t, memory |-> m, pc |-> p + 1, stopped |-> b]
  BY <1>1, <1>5 DEF Next1
<1>7. ASSUME NEW s
      PROVE  /\ [Next1 EXCEPT !.stack = s] = [stack |-> s, memory |-> m, pc |-> p + 1, stopped |-> b]
             /\ [vm EXCEPT !.stack = s] = [stack |-> s, memory |-> m, pc |-> p, stopped |-> b]
  BY <1>1, <1>5, <1>6
<1>8. p + 1 \in Nat
  BY <1>5
<1> QED BY <1>1, <1>3, <1>4, <1>5, <1>6, <1>7, <1>8

LEMMA StepCallContract ==
  ASSUME MachineInv, NEW c \in Contracts, NEW a \in Addresses, CallContract(c, a)
  PROVE  MachineInv'
<1>1. vm' = [stack |-> vm.stack, memory |-> vm.memory, pc |-> 0, stopped |-> vm.stopped]
  BY DEF CallContract, MachineInv
<1>2. c \in Seq(STRING)
  BY MachineAssumption
<1>3. vm.memory \in Seq(0 .. Base - 1) /\ vm.stopped \in BOOLEAN /\ vm.stack \in Seq(Nat) /\ Fits(vm.stack, long)
  BY DEF MachineInv
<1>4. vm' \in [stack : Seq(Nat), memory : Seq(0 .. Base - 1), pc : Nat, stopped : BOOLEAN] /\ vm'.stack = vm.stack
  BY <1>1, <1>3
<1>5. code' \in Seq(STRING) /\ self' \in Addresses /\ long' = long
  BY <1>2 DEF CallContract
<1>6. Fits(vm'.stack, long')
  BY <1>3, <1>4, <1>5
<1> QED BY <1>4, <1>5, <1>6 DEF MachineInv

LEMMA StepPush == ASSUME MachineInv, Push PROVE MachineInv'
<1>1. PICK w : w = IF Cell = "PUSH1" THEN 1 ELSE Width
  OBVIOUS
<1>2. w \in 1 .. Width
  BY <1>1, MachineAssumption
<1>3. Immediate(w) \in Nat /\ Immediate(w) < Word
  BY <1>2, ImmediateFits DEF Push
<1>4. PICK v : v = Immediate(w)
  OBVIOUS
<1>5. v \in Nat /\ (v >= Word => long)
  BY <1>3, <1>4, WordIsNat
<1>6. Fits(Append(vm.stack, v), long)
  BY <1>5, AppendFits, MachineParts
<1>7. vm' = [stack |-> Append(vm.stack, v), memory |-> vm.memory, pc |-> vm.pc + 1 + w, stopped |-> vm.stopped]
  BY <1>1, <1>4 DEF Push, MachineInv
<1>8. vm.pc + 1 + w \in Nat
  <2>1. vm.pc + 1 \in Nat
    BY MachineParts
  <2> QED BY <1>2, <2>1
<1>9. UNCHANGED <<self, long>> /\ code' = code
  BY DEF Push
<1>10. vm.memory \in Seq(0 .. Base - 1) /\ vm.stopped \in BOOLEAN
  BY MachineParts
<1> QED BY <1>6, <1>7, <1>8, <1>9, <1>10, MachineKept

LEMMA StepNext1 ==
  ASSUME MachineInv, vm' = Next1, UNCHANGED <<code, self, long>>
  PROVE  MachineInv'
BY MachineParts, MachineKept

LEMMA StepPushed ==
  ASSUME MachineInv, NEW s, NEW v \in Nat, v >= Word => long, Fits(s, long),
         vm' = Pushed(s, v), UNCHANGED <<code, self, long>>
  PROVE  MachineInv'
<1>1. Fits(Append(s, v), long)
  BY AppendFits
<1>2. vm' = [stack |-> Append(s, v), memory |-> vm.memory, pc |-> vm.pc + 1, stopped |-> vm.stopped]
  BY MachineParts DEF Pushed
<1>3. vm.memory \in Seq(0 .. Base - 1) /\ vm.stopped \in BOOLEAN /\ vm.pc + 1 \in Nat
  BY MachineParts
<1> QED BY <1>1, <1>2, <1>3, MachineKept

LEMMA StepRaiseTaking ==
  ASSUME MachineInv, NEW n \in {1, 2}, Holds(n), RaiseTaking(n)
  PROVE  MachineInv'
<1>1. vm' = [stack |-> Rest(n), memory |-> vm.memory, pc |-> vm.pc, stopped |-> vm.stopped]
  BY MachineParts DEF RaiseTaking
<1>2. Fits(Rest(n), long)
  BY ArgFits
<1>3. vm.memory \in Seq(0 .. Base - 1) /\ vm.stopped \in BOOLEAN /\ vm.pc \in Nat
  BY MachineParts
<1>4. UNCHANGED <<self, long>> /\ code' = <<>>
  BY DEF RaiseTaking
<1> QED BY <1>1, <1>2, <1>3, <1>4, MachineKept

LEMMA StepCompute == ASSUME MachineInv, Compute PROVE MachineInv'
<1>1. CASE Holds(2)
  <2>1. PICK a, b, op : a = Arg(1) /\ b = Arg(2) /\ op = Cell
    OBVIOUS
  <2>2. Holds(1)
    BY <1>1, MachineParts DEF Holds, Fits
  <2>3. a \in Nat /\ (a >= Word => long)
    BY <2>1, <2>2, ArgFits
  <2>4. b \in Nat /\ Fits(Rest(2), long)
    BY <1>1, <2>1, ArgFits
  <2>5. op \in {"ADD", "SUB", "MUL", "DIV", "LT", "GT", "EQ"}
    BY <2>1 DEF Compute
  <2>6. PICK v : v = Binary(op, a, b)
    OBVIOUS
  <2>7. v \in Nat /\ (v >= Word => a >= Word)
    BY <2>3, <2>4, <2>5, <2>6, BinaryFits
  <2>8. vm' = Pushed(Rest(2), v)
    BY <1>1, <2>1, <2>6 DEF Compute
  <2> QED BY <2>3, <2>4, <2>7, <2>8, StepPushed DEF Compute
<1>2. CASE ~Holds(2)
  BY <1>2, StepNext1 DEF Compute
<1> QED BY <1>1, <1>2

LEMMA StepHash == ASSUME MachineInv, Hash PROVE MachineInv'
<1>1. CASE Holds(2) /\ \E v \in {0, Word - 1} : vm' = Pushed(Rest(2), v)
  <2>1. PICK v \in {0, Word - 1} : vm' = Pushed(Rest(2), v)
    BY <1>1
  <2>2. v \in Nat /\ ~(v >= Word)
    BY WordIsNat
  <2>3. Fits(Rest(2), long)
    BY <1>1, ArgFits
  <2>4. UNCHANGED <<code, self, long>>
    BY DEF Hash
  <2> QED BY <2>1, <2>2, <2>3, <2>4, StepPushed
<1>2. CASE vm' = Next1
  BY <1>2, StepNext1 DEF Hash
<1> QED BY <1>1, <1>2 DEF Hash

LEMMA StepLoadWord == ASSUME MachineInv, LoadWord PROVE MachineInv'
<1> DEFINE Num == CHOOSE f : f = [k \in 0 .. Width |->
                     IF k = 0 THEN 0 ELSE f[k - 1] * Base + vm.memory[Arg(1) + k]]
<1>1. /\ vm' = IF ~Holds(1) THEN Next1
               ELSE IF Arg(1) + Width <= Len(vm.memory) THEN Pushed(Rest(1), Num[Width])
               ELSE [Next1 EXCEPT !.stack = Rest(1)]
      /\ UNCHANGED <<code, self, long>>
  BY DEF LoadWord
<1>2. CASE ~Holds(1)
  <2>1. vm' = Next1
    <3> HIDE DEF Num
    <3> QED BY <1>1, <1>2
  <2> QED BY <1>1, <2>1, StepNext1
<1>3. CASE Holds(1) /\ Arg(1) + Width <= Len(vm.memory)
  <2>1. PICK a : a = Arg(1)
    OBVIOUS
  <2>2. a \in Nat /\ Fits(Rest(1), long)
    BY <1>3, <2>1, ArgFits
  <2>3. PICK num : num = CHOOSE f : f = [k \in 0 .. Width |->
                     IF k = 0 THEN 0 ELSE f[k - 1] * Base + vm.memory[a + k]]
    OBVIOUS
  <2>4. a + Width <= Len(vm.memory)
    BY <1>3, <2>1
  <2>5. num[Width] \in Nat /\ num[Width] < Word
    BY <2>2, <2>3, <2>4, LoadedFits
  <2>6. num = Num
    BY <2>1, <2>3
  <2>7. vm' = Pushed(Rest(1), num[Width])
    <3> HIDE DEF Num
    <3> QED BY <1>1, <1>3, <2>6
  <2>8. ~(num[Width] >= Word)
    BY <2>5, WordIsNat
  <2> QED BY <1>1, <2>2, <2>5, <2>7, <2>8, StepPushed
<1>4. CASE Holds(1) /\ ~(Arg(1) + Width <= Len(vm.memory))
  <2>1. vm' = [Next1 EXCEPT !.stack = Rest(1)]
    <3> HIDE DEF Num
    <3> QED BY <1>1, <1>4
  <2>2. vm' = [stack |-> Rest(1), memory |-> vm.memory, pc |-> vm.pc + 1, stopped |-> vm.stopped]
    BY <2>1, MachineParts
  <2>3. Fits(Rest(1), long)
    BY <1>4, ArgFits
  <2>4. vm.memory \in Seq(0 .. Base - 1) /\ vm.stopped \in BOOLEAN /\ vm.pc + 1 \in Nat
    BY MachineParts
  <2> QED BY <1>1, <2>2, <2>3, <2>4, MachineKept
<1> QED BY <1>2, <1>3, <1>4

LEMMA StepStoreWord == ASSUME MachineInv, StoreWord PROVE MachineInv'
<1>1. CASE Holds(2) /\ (Arg(2) >= Word \/ Arg(1) + Width > Room)
  <2>1. RaiseTaking(2)
    BY <1>1 DEF StoreWord
  <2> QED BY <1>1, <2>1, StepRaiseTaking
<1>2. CASE Holds(2) /\ ~(Arg(2) >= Word \/ Arg(1) + Width > Room)
  <2>1. PICK a, v, m : a = Arg(1) /\ v = Arg(2) /\ m = Grown(Arg(1), Arg(2))
    OBVIOUS
  <2>2. Holds(1)
    BY <1>2, MachineParts DEF Holds, Fits
  <2>3. a \in Nat
    BY <2>1, <2>2, ArgFits
  <2>4. v \in Nat /\ Fits(Rest(2), long)
    BY <1>2, <2>1, ArgFits
  <2>5. m \in Seq(0 .. Base - 1)
    BY <2>1, <2>3, <2>4, GrownFits
  <2>6. /\ vm' = [Next1 EXCEPT !.stack = Rest(2), !.memory = m]
        /\ UNCHANGED <<code, self, long>>
    BY <1>2, <2>1 DEF StoreWord
  <2>7. vm' = [stack |-> Rest(2), memory |-> m, pc |-> vm.pc + 1, stopped |-> vm.stopped]
    BY <2>6, MachineParts
  <2>8. vm.stopped \in BOOLEAN /\ vm.pc + 1 \in Nat
    BY MachineParts
  <2> QED BY <2>4, <2>5, <2>6, <2>7, <2>8, MachineKept
<1>3. CASE ~Holds(2)
  <2>1. vm' = Next1 /\ UNCHANGED <<code, self, long>>
    BY <1>3 DEF StoreWord
  <2> QED BY <2>1, StepNext1
<1> QED BY <1>1, <1>2, <1>3

\* The machine is stopped, and keeps what it has.
LEMMA StepStopped ==
  ASSUME MachineInv, vm' = [vm EXCEPT !.stopped = TRUE], UNCHANGED <<code, self, long>>
  PROVE  MachineInv'
<1>1. /\ vm = [stack |-> vm.stack, memory |-> vm.memory, pc |-> vm.pc, stopped |-> vm.stopped]
      /\ vm.memory \in Seq(0 .. Base - 1) /\ vm.pc \in Nat
      /\ vm.stopped \in BOOLEAN /\ Fits(vm.stack, long)
  BY MachineParts
<1>2. vm' = [stack |-> vm.stack, memory |-> vm.memory, pc |-> vm.pc, stopped |-> TRUE]
  BY <1>1
<1>3. UNCHANGED <<self, long>> /\ code' = code
  OBVIOUS
<1> QED BY <1>1, <1>2, <1>3, MachineKept

LEMMA StepJump == ASSUME MachineInv, Jump PROVE MachineInv'
<1>1. PICK n : n = IF Cell = "JUMP" THEN 1 ELSE 2
  OBVIOUS
<1>2. n \in {1, 2}
  BY <1>1
<1>3. /\ vm' = IF ~Holds(n) THEN [vm EXCEPT !.stopped = TRUE]
               ELSE [vm EXCEPT !.stack = Rest(n),
                               !.pc = IF n = 1 \/ Arg(2) # 0 THEN Arg(1) ELSE @ + 1]
      /\ UNCHANGED <<code, self, long>>
  BY <1>1 DEF Jump
<1>4. /\ vm = [stack |-> vm.stack, memory |-> vm.memory, pc |-> vm.pc, stopped |-> vm.stopped]
      /\ vm.memory \in Seq(0 .. Base - 1) /\ vm.pc \in Nat /\ vm.pc + 1 \in Nat
      /\ vm.stopped \in BOOLEAN /\ Fits(vm.stack, long)
  BY MachineParts
<1>5. CASE ~Holds(n)
  <2>1. vm' = [vm EXCEPT !.stopped = TRUE] /\ UNCHANGED <<code, self, long>>
    BY ONLY <1>3, <1>5
  <2> QED BY <2>1, StepStopped
<1>6. CASE Holds(n)
  <2>0. Len(vm.stack) \in Nat /\ Holds(1)
    BY ONLY <1>2, <1>4, <1>6 DEF Holds, Fits
  <2>1. Fits(Rest(n), long)
    BY ONLY MachineInv, <1>2, <1>6, ArgFits
  <2>2. Arg(1) \in Nat
    BY <2>0, ArgFits
  <2>3. PICK p : p = IF n = 1 \/ Arg(2) # 0 THEN Arg(1) ELSE vm.pc + 1
    OBVIOUS
  <2>4. p \in Nat
    BY <1>4, <2>2, <2>3
  <2>5. vm' = [vm EXCEPT !.stack = Rest(n), !.pc = p]
    BY <1>3, <1>6, <2>3
  <2>6. vm' = [stack |-> Rest(n), memory |-> vm.memory, pc |-> p, stopped |-> vm.stopped]
    BY <1>4, <2>5
  <2> QED BY <1>3, <1>4, <2>1, <2>4, <2>6, MachineKept
<1> QED BY <1>5, <1>6

LEMMA StepPushAddress == ASSUME MachineInv, PushAddress PROVE MachineInv'
<1>1. PICK l : l = long'
  OBVIOUS
<1>2. PICK s : s = Append(vm.stack, self)
  OBVIOUS
<1>3. l \in BOOLEAN /\ (self >= Word => l) /\ (long => l) /\ self \in Nat
  BY <1>1, MachineAssumption DEF PushAddress, MachineInv
<1>4. Fits(vm.stack, l)
  BY <1>3 DEF MachineInv, Fits
<1>5. Fits(s, l)
  BY <1>2, <1>3, <1>4, AppendFits
<1>6. vm' = [stack |-> s, memory |-> vm.memory, pc |-> vm.pc + 1, stopped |-> vm.stopped]
  BY <1>2, MachineParts DEF PushAddress, Pushed
<1>7. vm.memory \in Seq(0 .. Base - 1) /\ vm.stopped \in BOOLEAN /\ vm.pc + 1 \in Nat /\ s \in Seq(Nat)
  BY <1>5, MachineParts DEF Fits
<1>8. vm' \in [stack : Seq(Nat), memory : Seq(0 .. Base - 1), pc : Nat, stopped : BOOLEAN] /\ vm'.stack = s
  BY <1>6, <1>7
<1>9. code' \in Seq(STRING) /\ self' \in Addresses
  BY DEF PushAddress, MachineInv
<1>10. Fits(vm'.stack, long')
  BY <1>1, <1>5, <1>8
<1> QED BY <1>1, <1>3, <1>8, <1>9, <1>10 DEF MachineInv

LEMMA StepBalance == ASSUME MachineInv, Balance PROVE MachineInv'
<1>1. CASE ~Holds(1) /\ vm' = Next1 /\ UNCHANGED <<code, self, calls, answer, long>>
  BY <1>1, StepNext1
<1>2. CASE /\ Holds(1) /\ Arg(1) < Word
           /\ vm' = Pushed(Rest(1), 0)
           /\ UNCHANGED <<code, self, calls, answer, long>>
  <2>1. ~(0 >= Word) /\ 0 \in Nat
    BY WordIsNat
  <2>2. Fits(Rest(1), long)
    BY <1>2, ArgFits
  <2> QED BY <1>2, <2>1, <2>2, StepPushed
<1>3. CASE Holds(1) /\ RaiseTaking(1)
  BY <1>3, StepRaiseTaking
<1> QED BY <1>1, <1>2, <1>3 DEF Balance

LEMMA StepQuiet ==
  ASSUME MachineInv, Stop \/ Pass \/ High \/ Report \/ UNCHANGED mvars
  PROVE  MachineInv'
<1>0. /\ vm = [stack |-> vm.stack, memory |-> vm.memory, pc |-> vm.pc, stopped |-> vm.stopped]
      /\ vm.memory \in Seq(0 .. Base - 1) /\ vm.pc \in Nat
      /\ vm.stopped \in BOOLEAN /\ Fits(vm.stack, long)
  BY MachineParts
<1>1. CASE Stop
  BY <1>1, StepStopped DEF Stop
<1>2. CASE Pass
  BY <1>2, StepNext1 DEF Pass
<1>3. CASE High \/ Report \/ UNCHANGED mvars
  <2>1. vm' = [stack |-> vm.stack, memory |-> vm.memory, pc |-> vm.pc, stopped |-> vm.stopped]
    BY <1>0, <1>3 DEF High, Raise, Report, mvars
  <2>2. UNCHANGED <<self, long>> /\ (code' = code \/ code' = <<>>)
    BY <1>3 DEF High, Raise, Report, mvars
  <2> QED BY <1>0, <2>1, <2>2, MachineKept
<1> QED BY <1>1, <1>2, <1>3

LEMMA MachineStep == MachineInv /\ [MachineNext]_mvars => MachineInv'
<1> SUFFICES ASSUME MachineInv, [MachineNext]_mvars PROVE MachineInv'
  OBVIOUS
<1>1. CASE \E c \in Contracts, a \in Addresses : CallContract(c, a)
  BY <1>1, StepCallContract
<1>2. CASE Push \/ Compute \/ Hash \/ LoadWord \/ StoreWord \/ Jump
  BY <1>2, StepPush, StepCompute, StepHash, StepLoadWord, StepStoreWord, StepJump
<1>3. CASE PushAddress \/ Balance
  BY <1>3, StepPushAddress, StepBalance
<1>4. CASE Stop \/ Pass \/ High \/ Report \/ UNCHANGED mvars
  BY <1>4, StepQuiet
<1> QED BY <1>1, <1>2, <1>3, <1>4 DEF MachineNext

\* Every execution of one machine keeps what the next one finds: its words
\* stay words whatever ran before, unless an address longer than a word was
\* pushed, and a contract that stopped has stopped the machine for good.
THEOREM WordsStayWords == MachineSpec => MachineKeepsState
<1>1. MachineInit => MachineInv
  BY MachineStart
<1>2. MachineInv /\ [MachineNext]_mvars => MachineInv'
  BY MachineStep
<1>3. MachineInv => WordsFit
  BY DEF MachineInv, Fits, WordsFit
<1>4. MachineSpec => StoppedForGood
  BY StopIsForGood
<1> QED BY <1>1, <1>2, <1>3, <1>4, PTL DEF MachineSpec, MachineKeepsState
-----------------------------------------------------------------------------
(***************************************************************************)
(* The two tables of addresses                                             *)
(***************************************************************************)

(* The addresses are known by name, and the tables agree. *)
AddressesInv ==
    /\ seen \in Seq(Urls)
    /\ fresh \cup tried \subseteq Known /\ fresh \cap tried = {}
    /\ \A u \in fresh : Cardinality(InBucket(Bucket[u], fresh)) <= BucketSize

\* What is known is finite, and the selection of others forgets one address.
LEMMA KnownIsFinite ==
  ASSUME seen \in Seq(Urls) PROVE IsFiniteSet(Known) /\ Known = Range(seen)
<1>1. Known = Range(seen)
  BY DEF Known, ToSet, Range
<1>2. PICK s \in Seq(Urls) : s = seen
  OBVIOUS
<1>3. IsFiniteSet(Range(s))
  BY ElementsOf
<1> QED BY <1>1, <1>2, <1>3

LEMMA OthersAreKept ==
  ASSUME seen \in Seq(Urls), NEW u \in Urls
  PROVE  /\ Selected(seen, Urls \ {u}) \in Seq(Urls)
         /\ Range(Selected(seen, Urls \ {u})) = Known \ {u}
<1>1. PICK s \in Seq(Urls) : s = seen
  OBVIOUS
<1>2. PICK r : r = Selected(s, Urls \ {u})
  OBVIOUS
<1>3. r \in Seq(Urls \cap (Urls \ {u}))
  BY <1>2, SelectedType
<1>4. r \in Seq(Urls)
  BY <1>3
<1>5. Range(r) = Range(s) \cap (Urls \ {u}) /\ Range(s) \subseteq Urls
  BY <1>2, SelectedRange, ElementsOf
<1>6. Known = Range(s)
  BY <1>1, KnownIsFinite
<1> QED BY <1>1, <1>2, <1>4, <1>5, <1>6

LEMMA AppendedIsKnown ==
  ASSUME seen \in Seq(Urls), NEW u \in Urls
  PROVE  /\ Refreshed(u) \in Seq(Urls) /\ Range(Refreshed(u)) = Known \cup {u}
         /\ Append(seen, u) \in Seq(Urls) /\ Range(Append(seen, u)) = Known \cup {u}
<1>1. PICK r \in Seq(Urls) : r = Selected(seen, Urls \ {u}) /\ Range(r) = Known \ {u}
  BY OthersAreKept
<1>2. Range(Append(r, u)) = Range(r) \cup {u} /\ Append(r, u) \in Seq(Urls)
  BY AppendRange
<1>3. Refreshed(u) = Append(r, u)
  BY <1>1 DEF Refreshed
<1>4. PICK s \in Seq(Urls) : s = seen
  OBVIOUS
<1>5. Range(Append(s, u)) = Range(s) \cup {u} /\ Append(s, u) \in Seq(Urls)
  BY AppendRange
<1> QED BY <1>1, <1>2, <1>3, <1>4, <1>5, KnownIsFinite

\* A full bucket has an address that was seen longest ago.
LEMMA OneIsOldest ==
  ASSUME seen \in Seq(Urls), NEW full, full \subseteq Known, full # {}
  PROVE  \E v \in full : \A x \in full :
             v = x \/ \E i, j \in DOMAIN seen : seen[i] = v /\ seen[j] = x /\ i < j
<1> DEFINE Places == {i \in DOMAIN seen : seen[i] \in full}
<1>1. DOMAIN seen = 1 .. Len(seen) /\ Len(seen) \in Nat
  OBVIOUS
<1>2. Places \in SUBSET Nat /\ Places # {}
  BY <1>1 DEF Known, ToSet
<1>3. PICK i \in Places : \A j \in Places : i <= j
  BY <1>2, NatSetMin
<1>4. ASSUME NEW x \in full, x # seen[i]
      PROVE  \E j \in DOMAIN seen : seen[j] = x /\ i < j
  <2>1. PICK j \in DOMAIN seen : seen[j] = x
    BY DEF Known, ToSet
  <2>2. i <= j /\ i # j /\ i \in Nat /\ j \in Nat
    BY <1>1, <1>3, <1>4, <2>1
  <2> QED BY <2>1, <2>2
<1> QED BY <1>4

\* A new address goes to its bucket, which loses its oldest one when it is full.
LEMMA BucketStaysSmall ==
  ASSUME AddressesInv, NEW u \in Urls, u \notin Known, NEW v, NEW F,
         LET full == InBucket(Bucket[u], fresh)
             oldest == {w \in full : \A x \in full : w = x \/
                           \E i, j \in DOMAIN seen : seen[i] = w /\ seen[j] = x /\ i < j}
         IN F = {u} \cup (IF Cardinality(full) >= BucketSize THEN fresh \ oldest ELSE fresh)
  PROVE  F \subseteq fresh \cup {u}
         /\ \A w \in F : Cardinality(InBucket(Bucket[w], F)) <= BucketSize
<1> DEFINE full == InBucket(Bucket[u], fresh)
           oldest == {w \in full : \A x \in full : w = x \/
                         \E i, j \in DOMAIN seen : seen[i] = w /\ seen[j] = x /\ i < j}
<1>1. F = {u} \cup (IF Cardinality(full) >= BucketSize THEN fresh \ oldest ELSE fresh)
  OBVIOUS
<1>2. IsFiniteSet(fresh) /\ IsFiniteSet(full) /\ full \subseteq fresh /\ u \notin fresh
      /\ full \subseteq Known /\ Cardinality(full) \in Nat
  <2>1. fresh \subseteq Known /\ full \subseteq fresh
    BY DEF AddressesInv, InBucket
  <2>2. IsFiniteSet(fresh)
    BY <2>1, KnownIsFinite, FS_Subset DEF AddressesInv
  <2>3. IsFiniteSet(full)
    BY <2>1, <2>2, FS_Subset
  <2> QED BY <2>1, <2>2, <2>3, FS_CardinalityType
<1>3. oldest \subseteq full /\ (full # {} => oldest # {})
  <2>1. oldest \subseteq full
    OBVIOUS
  <2>2. seen \in Seq(Urls)
    BY DEF AddressesInv
  <2>3. ASSUME full # {} PROVE oldest # {}
    <3>1. PICK w \in full : \A x \in full :
              w = x \/ \E i, j \in DOMAIN seen : seen[i] = w /\ seen[j] = x /\ i < j
      BY <1>2, <2>2, <2>3, OneIsOldest
    <3> QED BY <3>1
  <2> QED BY <2>1, <2>3
<1>4. BucketSize \in Nat /\ BucketSize >= 1
  BY PeersAssumption
<1>5. full # {} => Cardinality(full) <= BucketSize
  BY DEF AddressesInv, InBucket
<1>6. ASSUME NEW w \in F, Bucket[w] # Bucket[u]
      PROVE  Cardinality(InBucket(Bucket[w], F)) <= BucketSize
  <2>1. w \in fresh
    BY <1>1, <1>6
  <2>2. PICK P, Q : P = InBucket(Bucket[w], F) /\ Q = InBucket(Bucket[w], fresh)
    OBVIOUS
  <2>3. P \subseteq Q /\ Q \subseteq fresh
    BY <1>1, <1>6, <2>2 DEF InBucket
  <2>4. Cardinality(Q) <= BucketSize
    BY <2>1, <2>2 DEF AddressesInv
  <2>5. IsFiniteSet(Q)
    BY <1>2, <2>3, FS_Subset
  <2>6. Cardinality(P) <= Cardinality(Q) /\ IsFiniteSet(P)
    BY <2>3, <2>5, FS_Subset
  <2>7. Cardinality(P) \in Nat /\ Cardinality(Q) \in Nat
    BY <2>5, <2>6, FS_CardinalityType
  <2> QED BY <1>4, <2>2, <2>4, <2>6, <2>7
<1>7. Cardinality(InBucket(Bucket[u], F)) <= BucketSize
  <2> HIDE DEF oldest, full
  <2>1. CASE Cardinality(full) >= BucketSize
    <3>1. full # {}
      BY <1>4, <2>1, FS_EmptySet
    <3>2. PICK o \in oldest : TRUE
      BY <1>3, <3>1
    <3>3. InBucket(Bucket[u], F) \subseteq (full \ {o}) \cup {u}
      BY <1>1, <2>1 DEF InBucket, full
    <3>4. IsFiniteSet(full \ {o}) /\ Cardinality(full \ {o}) = Cardinality(full) - 1
      BY <1>2, <1>3, FS_RemoveElement
    <3>a. PICK R : R = full \ {o}
      OBVIOUS
    <3>5. PICK P : P = R \cup {u}
      OBVIOUS
    <3>6. IsFiniteSet(P) /\ Cardinality(P) = Cardinality(full)
      <4>1. u \notin R /\ IsFiniteSet(R) /\ Cardinality(R) = Cardinality(full) - 1
        BY <1>2, <3>4, <3>a
      <4>2. IsFiniteSet(P) /\ Cardinality(P) = Cardinality(R) + 1
        BY <3>5, <4>1, FS_AddElement
      <4> QED BY <1>2, <4>1, <4>2
    <3>7. PICK Q : Q = InBucket(Bucket[u], F)
      OBVIOUS
    <3>8. Cardinality(Q) <= Cardinality(P) /\ IsFiniteSet(Q)
      BY <3>3, <3>a, <3>5, <3>6, <3>7, FS_Subset
    <3>9. Cardinality(Q) \in Nat
      BY <3>8, FS_CardinalityType
    <3> QED BY <1>2, <1>4, <1>5, <3>1, <3>6, <3>7, <3>8, <3>9
  <2>2. CASE ~(Cardinality(full) >= BucketSize)
    <3>1. InBucket(Bucket[u], F) = full \cup {u}
      BY <1>1, <2>2 DEF InBucket, full
    <3>2. Cardinality(full \cup {u}) = Cardinality(full) + 1
      BY <1>2, FS_AddElement
    <3>3. PICK c, d : c = Cardinality(full) /\ d = Cardinality(full \cup {u})
      OBVIOUS
    <3>4. c \in Nat /\ BucketSize \in Nat /\ c < BucketSize /\ d = c + 1
      BY <1>2, <1>4, <2>2, <3>2, <3>3
    <3>5. d <= BucketSize
      BY <3>4
    <3> QED BY <3>1, <3>3, <3>5
  <2> QED BY <2>1, <2>2
<1>8. F \subseteq fresh \cup {u}
  BY <1>1
<1> QED BY <1>6, <1>7, <1>8

\* With fewer addresses every bucket is at most as full.
LEMMA FewerAddresses ==
  ASSUME AddressesInv, NEW F, F \subseteq fresh
  PROVE  \A u \in F : Cardinality(InBucket(Bucket[u], F)) <= BucketSize
<1> SUFFICES ASSUME NEW u \in F PROVE Cardinality(InBucket(Bucket[u], F)) <= BucketSize
  OBVIOUS
<1>1. PICK P, Q : P = InBucket(Bucket[u], F) /\ Q = InBucket(Bucket[u], fresh)
  OBVIOUS
<1>2. P \subseteq Q /\ Q \subseteq fresh
  BY <1>1 DEF InBucket
<1>3. IsFiniteSet(fresh)
  BY KnownIsFinite, FS_Subset DEF AddressesInv
<1>4. IsFiniteSet(Q)
  BY <1>2, <1>3, FS_Subset
<1>5. IsFiniteSet(P) /\ Cardinality(P) <= Cardinality(Q)
  BY <1>2, <1>4, FS_Subset
<1>6. Cardinality(P) \in Nat /\ Cardinality(Q) \in Nat
  BY <1>4, <1>5, FS_CardinalityType
<1>7. Cardinality(Q) <= BucketSize
  BY <1>1 DEF AddressesInv
<1> QED BY <1>1, <1>5, <1>6, <1>7, PeersAssumption

\* The step that leaves these tables keeps the invariant.
LEMMA AddressesFrom ==
  ASSUME seen' \in Seq(Urls), NEW K, Range(seen') = K,
         fresh' \cup tried' \subseteq K, fresh' \cap tried' = {},
         \A u \in fresh' : Cardinality(InBucket(Bucket[u], fresh')) <= BucketSize
  PROVE  AddressesInv'
<1>1. Known' = K
  BY DEF Known, ToSet, Range
<1>2. PICK F : F = fresh'
  OBVIOUS
<1>3. \A u \in F : Cardinality(InBucket(Bucket[u], F)) <= BucketSize
  BY <1>2
<1> QED BY <1>1 DEF AddressesInv, InBucket

LEMMA AddressesInit == PeersInit => AddressesInv
  BY DEF PeersInit, AddressesInv, Known, ToSet

LEMMA AddressesStep == AddressesInv /\ [PeersNext]_pvars => AddressesInv'
<1> SUFFICES ASSUME AddressesInv, [PeersNext]_pvars PROVE AddressesInv'
  OBVIOUS
<1>0. /\ seen \in Seq(Urls) /\ fresh \cup tried \subseteq Known /\ fresh \cap tried = {}
      /\ Range(seen) = Known
  BY KnownIsFinite DEF AddressesInv
<1>1. ASSUME UNCHANGED addresses PROVE AddressesInv'
  BY <1>1 DEF AddressesInv, addresses, Known, InBucket
<1>2. ASSUME NEW u \in Urls, AddAddress(u) PROVE AddressesInv'
  <2>1. CASE u \in Known
    <3>1. seen' = Refreshed(u) /\ fresh' = fresh /\ tried' = tried
      BY <1>2, <2>1 DEF AddAddress
    <3>2. Known \cup {u} = Known
      BY <2>1
    <3>4. seen' \in Seq(Urls) /\ Range(seen') = Known
      BY <1>0, <3>1, <3>2, AppendedIsKnown
    <3>3. \A w \in fresh : Cardinality(InBucket(Bucket[w], fresh)) <= BucketSize
      BY DEF AddressesInv
    <3> QED BY <1>0, <3>1, <3>3, <3>4, AddressesFrom
  <2>2. CASE u \notin Known
    <3>1. seen' = Append(seen, u) /\ tried' = tried
      BY <1>2, <2>2 DEF AddAddress
    <3>2. seen' \in Seq(Urls) /\ Range(seen') = Known \cup {u}
      BY <1>0, <3>1, AppendedIsKnown
    <3>3. PICK F : /\ F = fresh'
                   /\ LET full == InBucket(Bucket[u], fresh)
                          oldest == {w \in full : \A x \in full : w = x \/
                              \E i, j \in DOMAIN seen : seen[i] = w /\ seen[j] = x /\ i < j}
                      IN F = {u} \cup (IF Cardinality(full) >= BucketSize THEN fresh \ oldest
                                       ELSE fresh)
      BY <1>2, <2>2 DEF AddAddress
    <3>4. /\ F \subseteq fresh \cup {u}
          /\ \A w \in F : Cardinality(InBucket(Bucket[w], F)) <= BucketSize
      BY <2>2, <3>3, BucketStaysSmall
    <3>5. F \cup tried' \subseteq Known \cup {u} /\ F \cap tried' = {}
      BY <1>0, <2>2, <3>1, <3>4
    <3> QED BY <3>2, <3>3, <3>4, <3>5, AddressesFrom
  <2> QED BY <2>1, <2>2
<1>3. ASSUME NEW u \in Urls, MarkSuccess(u) PROVE AddressesInv'
  <2>1. u \in Known /\ seen' = Refreshed(u)
    BY <1>3 DEF MarkSuccess
  <2>0. Known \cup {u} = Known
    BY <2>1
  <2>2. seen' \in Seq(Urls) /\ Range(seen') = Known
    BY <1>0, <2>1, <2>0, AppendedIsKnown
  <2>3. \/ fresh' = fresh /\ tried' = tried
        \/ fresh' = fresh \ {u} /\ tried' = tried \cup {u}
    BY <1>3 DEF MarkSuccess
  <2>4. fresh' \subseteq fresh /\ fresh' \cup tried' \subseteq Known /\ fresh' \cap tried' = {}
    BY <1>0, <2>1, <2>3
  <2>5. PICK F : F = fresh' /\ F \subseteq fresh
    BY <2>4
  <2>6. \A w \in F : Cardinality(InBucket(Bucket[w], F)) <= BucketSize
    BY <2>5, FewerAddresses
  <2> QED BY <2>2, <2>4, <2>5, <2>6, AddressesFrom
<1>4. ASSUME NEW u \in Urls, MarkFailure(u) PROVE AddressesInv'
  <2>1. PICK K : /\ seen' \in Seq(Urls) /\ Range(seen') = K
                 /\ \/ K = Known /\ fresh' = fresh /\ tried' = tried
                    \/ K = Known \ {u} /\ fresh' = fresh \ {u} /\ tried' = tried \ {u}
    <3>1. CASE fails[u] + 1 >= ForgetAfter
      <4>1. seen' = Selected(seen, Urls \ {u}) /\ fresh' = fresh \ {u} /\ tried' = tried \ {u}
        BY <1>4, <3>1 DEF MarkFailure
      <4> QED BY <1>0, <4>1, OthersAreKept
    <3>2. CASE ~(fails[u] + 1 >= ForgetAfter)
      <4>1. seen' = seen /\ fresh' = fresh /\ tried' = tried
        BY <1>4, <3>2 DEF MarkFailure
      <4> QED BY <1>0, <4>1
    <3> QED BY <3>1, <3>2
  <2>2. fresh' \subseteq fresh /\ fresh' \cup tried' \subseteq K /\ fresh' \cap tried' = {}
    BY <1>0, <2>1
  <2>3. PICK F : F = fresh' /\ F \subseteq fresh
    BY <2>2
  <2>4. \A w \in F : Cardinality(InBucket(Bucket[w], F)) <= BucketSize
    BY <2>3, FewerAddresses
  <2> QED BY <2>1, <2>2, <2>3, <2>4, AddressesFrom
<1>5. ASSUME NEW u \in Urls,
             AddPeer(u) \/ Visit(u) \/ \E b \in Behaviours : RecordPeerBehavior(u, b)
      PROVE  AddressesInv'
  BY <1>1, <1>2, <1>5 DEF AddPeer, Visit, RecordPeerBehavior
<1>6. ASSUME \/ \E k \in {"probe", "tx", "sync"} : StartRound(k)
             \/ Probe \/ BroadcastTransaction \/ SyncWithPeers \/ EndRound \/ RoundDies
             \/ UNCHANGED pvars
      PROVE  AddressesInv'
  <2>1. UNCHANGED addresses
    BY <1>6 DEF StartRound, Probe, BroadcastTransaction, SyncWithPeers, EndRound, RoundDies,
                Heard, pvars
  <2> QED BY <1>1, <2>1
<1> QED
  BY <1>3, <1>4, <1>5, <1>6 DEF PeersNext, ScoresNext, AddressesNext

(* "organizing peers into diverse buckets" (addrmgr.py): whatever is added,  *)
(* confirmed and given up, an address in a bucket is known and in one table  *)
(* only, no new bucket is over its size, and a banned peer is no peer.       *)
THEOREM PeersAndAddressesAgree == PeersSpec => []PeersAgree
<1>1. AddressesInv => AddressesAgree
  BY DEF AddressesInv, AddressesAgree, Offers
<1>2. PeersSpec => []AddressesInv
  BY AddressesInit, AddressesStep, PTL DEF PeersSpec
<1>3. PeersSpec => []BannedIsOut
  BY BannedStayOut
<1> QED
  BY <1>1, <1>2, <1>3, PTL DEF PeersAgree

-----------------------------------------------------------------------------
(***************************************************************************)
(* The download of headers                                                 *)
(***************************************************************************)

(* The table holds the headers of what was ever served, and the answers of   *)
(* the threads and the flag are right.                                       *)
FetchedInv ==
    /\ HeadersTypeOK
    /\ headers = UNION {HeadersOf(a) : a \in served}
    /\ HeadersFollowOneBranch

\* The headers of an answer: a sequence of each length up to its own.
LEMMA HeadersOfAnswer ==
  ASSUME NEW T, NEW a \in Seq(T), NEW n \in 1 .. Len(a)
  PROVE  /\ SubSeq(a, 1, n) \in Seq(T) /\ Len(SubSeq(a, 1, n)) = n
         /\ \A k \in 1 .. n : SubSeq(a, 1, n)[k] = a[k]
  OBVIOUS

\* Two sequences of one length that agree everywhere are one.
LEMMA SeqsAgree ==
  ASSUME NEW T, NEW a \in Seq(T), NEW b \in Seq(T), Len(a) = Len(b),
         \A k \in 1 .. Len(a) : a[k] = b[k]
  PROVE  a = b
  OBVIOUS

\* A sequence is a prefix of one that begins like it.
LEMMA PrefixByElements ==
  ASSUME NEW T, NEW a \in Seq(T), NEW b \in Seq(T), Len(a) <= Len(b)
  PROVE  IsPrefix(a, b) <=> \A k \in 1 .. Len(a) : a[k] = b[k]
<1>1. SubSeq(a, 1, Len(a)) = a
  OBVIOUS
<1>2. /\ SubSeq(b, 1, Len(a)) \in Seq(T) /\ Len(SubSeq(b, 1, Len(a))) = Len(a)
      /\ \A k \in 1 .. Len(a) : SubSeq(b, 1, Len(a))[k] = b[k]
  OBVIOUS
<1>3. PICK r \in Seq(T) : r = SubSeq(b, 1, Len(a))
  BY <1>2
<1>4. a = r <=> \A k \in 1 .. Len(a) : a[k] = r[k]
  BY <1>2, <1>3, SeqsAgree
<1> QED BY <1>1, <1>2, <1>3, <1>4 DEF IsPrefix

LEMMA AnswersAreSeqs ==
  ASSUME NEW a \in Answers
  PROVE  a \in Seq(BlockNames) /\ Len(a) \in Nat /\ Len(a) >= 1
<1>1. PICK b \in Branches : \E n \in 1 .. Len(b) : a = SubSeq(b, 1, n)
  BY DEF Answers
<1>2. b \in Seq(BlockNames)
  BY HeadersAssumption
<1> QED BY <1>1, <1>2, HeadersOfAnswer

\* What is in the table of headers.
LEMMA HeadersAreHeads ==
  ASSUME headers = UNION {HeadersOf(a) : a \in served}, served \subseteq Answers
  PROVE  /\ \A h \in headers : \E a \in served :
                /\ h \in Seq(BlockNames) /\ a \in Seq(BlockNames) /\ Len(h) \in 1 .. Len(a)
                /\ h = SubSeq(a, 1, Len(h)) /\ \A k \in 1 .. Len(h) : h[k] = a[k]
         /\ \A a \in served : \A n \in 1 .. Len(a) : SubSeq(a, 1, n) \in headers
<1>1. ASSUME NEW h \in headers
      PROVE  \E a \in served :
                /\ h \in Seq(BlockNames) /\ a \in Seq(BlockNames) /\ Len(h) \in 1 .. Len(a)
                /\ h = SubSeq(a, 1, Len(h)) /\ \A k \in 1 .. Len(h) : h[k] = a[k]
  <2>1. PICK a \in served : h \in HeadersOf(a)
    OBVIOUS
  <2>2. PICK n \in 1 .. Len(a) : h = SubSeq(a, 1, n)
    BY <2>1 DEF HeadersOf
  <2>3. a \in Seq(BlockNames)
    BY AnswersAreSeqs
  <2>4. h \in Seq(BlockNames) /\ Len(h) = n /\ \A k \in 1 .. n : h[k] = a[k]
    BY <2>2, <2>3, HeadersOfAnswer
  <2> QED BY <2>2, <2>3, <2>4
<1>2. ASSUME NEW a \in served, NEW n \in 1 .. Len(a) PROVE SubSeq(a, 1, n) \in headers
  <2>1. SubSeq(a, 1, n) \in HeadersOf(a)
    BY DEF HeadersOf
  <2> QED BY <2>1
<1> QED BY <1>1, <1>2

\* validate_header_chain says yes exactly when all answers are of one branch.
LEMMA LinkedIsOneBranch ==
  ASSUME headers = UNION {HeadersOf(a) : a \in served}, served \subseteq Answers
  PROVE  LinkedChain <=> ~Forked(served)
<1>1. ASSUME Forked(served) PROVE ~LinkedChain
  <2>1. PICK a \in served, b \in served : ~IsPrefix(a, b) /\ ~IsPrefix(b, a)
    BY <1>1 DEF Forked
  <2>2. a \in Seq(BlockNames) /\ b \in Seq(BlockNames) /\ Len(a) \in Nat /\ Len(b) \in Nat
        /\ Len(a) >= 1 /\ Len(b) >= 1
    BY AnswersAreSeqs
  <2>3. PICK n \in Nat : n >= 1 /\ n <= Len(a) /\ n <= Len(b) /\ (n = Len(a) \/ n = Len(b))
    BY <2>2
  <2>4. PICK g, h : g = SubSeq(a, 1, n) /\ h = SubSeq(b, 1, n)
    OBVIOUS
  <2>5. /\ g \in headers /\ h \in headers
        /\ g \in Seq(BlockNames) /\ h \in Seq(BlockNames) /\ Len(g) = n /\ Len(h) = n
        /\ \A k \in 1 .. n : g[k] = a[k] /\ h[k] = b[k]
    <3>1. n \in 1 .. Len(a) /\ n \in 1 .. Len(b)
      BY <2>2, <2>3
    <3>2. g \in headers /\ h \in headers
      BY <2>4, <3>1, HeadersAreHeads
    <3>3. g \in Seq(BlockNames) /\ Len(g) = n /\ \A k \in 1 .. n : g[k] = a[k]
      BY <2>2, <2>4, <3>1, HeadersOfAnswer
    <3>4. h \in Seq(BlockNames) /\ Len(h) = n /\ \A k \in 1 .. n : h[k] = b[k]
      BY <2>2, <2>4, <3>1, HeadersOfAnswer
    <3> QED BY <3>2, <3>3, <3>4
  <2>6. g # h
    <3>1. SUFFICES ASSUME g = h PROVE FALSE
      OBVIOUS
    <3>2. \A k \in 1 .. n : a[k] = b[k]
      BY <2>5, <3>1
    <3>3. CASE n = Len(a)
      BY <2>1, <2>2, <2>3, <3>2, <3>3, PrefixByElements
    <3>4. CASE n = Len(b)
      BY <2>1, <2>2, <2>3, <3>2, <3>4, PrefixByElements
    <3> QED BY <2>3, <3>3, <3>4
  <2>7. Follows(g, h)
    <3>1. ~\E x \in headers : Len(g) < Len(x) /\ Len(x) < Len(h)
      BY <2>5, HeadersAreHeads
    <3> QED BY <2>5, <2>6, <3>1 DEF Follows
  <2>8. HeightOf(h) # HeightOf(g) + 1
    BY <2>5 DEF HeightOf
  <2> QED BY <2>5, <2>7, <2>8 DEF LinkedChain
<1>2. ASSUME ~Forked(served), NEW g \in headers, NEW h \in headers, Follows(g, h)
      PROVE  HeightOf(h) = HeightOf(g) + 1 /\ Front(h) = g
  <2>1. PICK a \in served :
            /\ g \in Seq(BlockNames) /\ a \in Seq(BlockNames) /\ Len(g) \in 1 .. Len(a)
            /\ g = SubSeq(a, 1, Len(g)) /\ \A k \in 1 .. Len(g) : g[k] = a[k]
    BY HeadersAreHeads
  <2>2. PICK b \in served :
            /\ h \in Seq(BlockNames) /\ b \in Seq(BlockNames) /\ Len(h) \in 1 .. Len(b)
            /\ h = SubSeq(b, 1, Len(h)) /\ \A k \in 1 .. Len(h) : h[k] = b[k]
    BY HeadersAreHeads
  <2>3. /\ Len(g) \in Nat /\ Len(h) \in Nat /\ Len(g) <= Len(h) /\ g # h
        /\ Len(a) \in Nat /\ Len(b) \in Nat
    BY <1>2, <2>1, <2>2 DEF Follows
  <2>4. \A k \in 1 .. Len(g) : a[k] = b[k]
    <3>1. IsPrefix(a, b) \/ IsPrefix(b, a)
      BY <1>2 DEF Forked
    <3>2. CASE IsPrefix(a, b)
      <4>1. Len(a) <= Len(b)
        BY <3>2 DEF IsPrefix
      <4>2. \A k \in 1 .. Len(a) : a[k] = b[k]
        BY <2>1, <2>2, <3>2, <4>1, PrefixByElements
      <4> QED BY <2>1, <2>3, <4>2
    <3>3. CASE IsPrefix(b, a)
      <4>1. Len(b) <= Len(a)
        BY <3>3 DEF IsPrefix
      <4>2. \A k \in 1 .. Len(b) : b[k] = a[k]
        BY <2>1, <2>2, <3>3, <4>1, PrefixByElements
      <4>3. \A k \in 1 .. Len(g) : k \in 1 .. Len(b)
        BY <2>2, <2>3
      <4> QED BY <4>2, <4>3
    <3> QED BY <3>1, <3>2, <3>3
  <2>5. \A k \in 1 .. Len(g) : g[k] = h[k]
    <3>1. \A k \in 1 .. Len(g) : k \in 1 .. Len(h)
      BY <2>3
    <3> QED BY <2>1, <2>2, <2>4, <3>1
  <2>6. Len(g) < Len(h)
    <3>1. SUFFICES ASSUME Len(g) = Len(h) PROVE FALSE
      BY <2>3
    <3> QED BY <2>1, <2>2, <2>3, <2>5, <3>1, SeqsAgree
  <2>7. Len(h) = Len(g) + 1
    <3>1. SUFFICES ASSUME Len(g) + 1 < Len(h) PROVE FALSE
      BY <2>3, <2>6
    <3>2. PICK x : x = SubSeq(b, 1, Len(g) + 1)
      OBVIOUS
    <3>3. Len(g) + 1 \in 1 .. Len(b)
      BY <2>2, <2>3, <3>1
    <3>4. x \in headers /\ Len(x) = Len(g) + 1
      BY <2>2, <3>2, <3>3, HeadersAreHeads, HeadersOfAnswer
    <3> QED BY <1>2, <2>3, <3>1, <3>4 DEF Follows
  <2>8. Front(h) = g
    <3>1. PICK x : x = SubSeq(h, 1, Len(g))
      OBVIOUS
    <3>2. Len(g) \in 1 .. Len(h)
      BY <2>1, <2>3
    <3>3. x \in Seq(BlockNames) /\ Len(x) = Len(g) /\ \A k \in 1 .. Len(g) : x[k] = h[k]
      BY <2>2, <3>1, <3>2, HeadersOfAnswer
    <3>4. x = g
      BY <2>1, <2>5, <3>3, SeqsAgree
    <3>5. Len(h) - 1 = Len(g)
      BY <2>3, <2>7
    <3> QED BY <3>1, <3>4, <3>5 DEF Front
  <2> QED BY <2>3, <2>7, <2>8 DEF HeightOf
<1> QED BY <1>1, <1>2 DEF LinkedChain

\* A part of a branch begins with parts of that branch.
LEMMA HeadersAreAnswers ==
  ASSUME NEW a \in Answers PROVE HeadersOf(a) \subseteq Answers
<1>1. PICK b \in Branches : \E n \in 1 .. Len(b) : a = SubSeq(b, 1, n)
  BY DEF Answers
<1>2. PICK n \in 1 .. Len(b) : a = SubSeq(b, 1, n)
  BY <1>1
<1>3. b \in Seq(BlockNames)
  BY HeadersAssumption
<1>4. a \in Seq(BlockNames) /\ Len(a) = n /\ \A k \in 1 .. n : a[k] = b[k]
  BY <1>2, <1>3, HeadersOfAnswer
<1>5. ASSUME NEW m \in 1 .. Len(a) PROVE SubSeq(a, 1, m) \in Answers
  <2>1. m \in 1 .. Len(b) /\ m \in 1 .. n
    BY <1>3, <1>4
  <2>2. PICK x, y : x = SubSeq(a, 1, m) /\ y = SubSeq(b, 1, m)
    OBVIOUS
  <2>3. x \in Seq(BlockNames) /\ Len(x) = m /\ \A k \in 1 .. m : x[k] = a[k]
    BY <1>4, <2>2, HeadersOfAnswer
  <2>4. y \in Seq(BlockNames) /\ Len(y) = m /\ \A k \in 1 .. m : y[k] = b[k]
    BY <1>3, <2>1, <2>2, HeadersOfAnswer
  <2>5. \A k \in 1 .. m : x[k] = y[k]
    BY <1>4, <2>1, <2>3, <2>4
  <2>6. x = y
    BY <2>3, <2>4, <2>5, SeqsAgree
  <2> QED BY <2>1, <2>2, <2>6 DEF Answers
<1> QED BY <1>5 DEF HeadersOf

LEMMA FetchedInit == HeadersInit => FetchedInv
<1> SUFFICES ASSUME HeadersInit PROVE FetchedInv
  OBVIOUS
<1>1. headers = {} /\ served = {}
  BY DEF HeadersInit
<1>2. HeadersTypeOK
  <2>1. outcome \in [Fetchers -> [valid : {"none", "yes", "no", "nothing"}, served : SUBSET Answers]]
    BY DEF HeadersInit, NoOutcome
  <2>2. headers \subseteq Answers /\ inProgress \in BOOLEAN /\ served \subseteq Answers
    BY DEF HeadersInit
  <2>3. syncs \in 0 .. MaxSyncs
    BY HeadersAssumption DEF HeadersInit
  <2>4. fetch \in [Fetchers -> {NoFetch} \cup [pc : {"ask", "stored", "done"},
                                              left : 0 .. PeerCount, ended : BOOLEAN]]
    BY DEF HeadersInit
  <2> QED BY <2>1, <2>2, <2>3, <2>4 DEF HeadersTypeOK
<1>3. HeadersFollowOneBranch
  BY DEF HeadersInit, HeadersFollowOneBranch, NoOutcome
<1> QED BY <1>1, <1>2, <1>3 DEF FetchedInv

\* Only a download changes the table, only an answer an outcome, and a thread
\* that is at it has seen a sync end if the flag is down.
LEMMA FetchedStep == FetchedInv /\ [HeadersNext]_hvars => FetchedInv'
<1> SUFFICES ASSUME FetchedInv, [HeadersNext]_hvars PROVE FetchedInv'
  OBVIOUS
<1> DEFINE At == [pc : {"ask", "stored", "done"}, left : 0 .. PeerCount, ended : BOOLEAN]
           FlagIsUp == \A f \in Fetchers : ~inProgress /\ fetch[f] # NoFetch => fetch[f].ended
           Answered == \A f \in Fetchers :
                          /\ outcome[f].valid = "yes" => ~Forked(outcome[f].served)
                          /\ outcome[f].valid = "no" => Forked(outcome[f].served)
           OutcomeOK == outcome \in [Fetchers -> [valid : {"none", "yes", "no", "nothing"},
                                                 served : SUBSET Answers]]
           Table == headers \subseteq Answers /\ served \subseteq Answers
                    /\ headers = UNION {HeadersOf(a) : a \in served}
           FetchesOK == fetch \in [Fetchers -> {NoFetch} \cup At] /\ inProgress \in BOOLEAN
                      /\ syncs \in 0 .. MaxSyncs
<1>0. Table /\ FetchesOK /\ Answered /\ FlagIsUp /\ OutcomeOK
  BY DEF FetchedInv, HeadersTypeOK, HeadersFollowOneBranch
<1>a. SUFFICES Table' /\ FetchesOK' /\ Answered' /\ FlagIsUp' /\ OutcomeOK'
  BY DEF FetchedInv, HeadersTypeOK, HeadersFollowOneBranch
<1> DEFINE Goal == Table' /\ FetchesOK' /\ Answered' /\ FlagIsUp' /\ OutcomeOK'
<1>b. UNCHANGED <<headers, served>> => Table'
  BY <1>0
<1>c. UNCHANGED outcome => Answered' /\ OutcomeOK'
  BY <1>0
<1> HIDE DEF Table, Answered, OutcomeOK
<1>1. ASSUME NEW f \in Fetchers, BeginSync(f) PROVE Goal
  <2>1. UNCHANGED <<headers, served, outcome>>
    BY <1>1 DEF BeginSync
  <2>2. FetchesOK'
    BY <1>0, <1>1, HeadersAssumption DEF BeginSync
  <2>3. FlagIsUp'
    BY <1>1 DEF BeginSync
  <2> QED BY <1>b, <1>c, <2>1, <2>2, <2>3
<1>2. ASSUME NEW f \in Fetchers, PeerFails(f) PROVE Goal
  <2>1. UNCHANGED <<headers, served, outcome>>
    BY <1>2 DEF PeerFails
  <2>2. fetch[f] \in At
    BY <1>0, <1>2 DEF PeerFails, NoFetch
  <2>3. FetchesOK' /\ FlagIsUp'
    BY <1>0, <1>2, <2>2, HeadersAssumption DEF PeerFails, NoFetch
  <2> QED BY <1>b, <1>c, <2>1, <2>3
<1>3. ASSUME NEW f \in Fetchers, ValidateHeaders(f) \/ NothingSynced(f) PROVE Goal
  <2>1. UNCHANGED <<headers, served>>
    BY <1>3 DEF ValidateHeaders, NothingSynced
  <2>2. fetch[f] \in At
    BY <1>0, <1>3 DEF ValidateHeaders, NothingSynced, NoFetch
  <2>3. FetchesOK' /\ FlagIsUp'
    BY <1>0, <1>3, <2>2 DEF ValidateHeaders, NothingSynced, NoFetch
  <2>4. PICK v \in {"yes", "no", "nothing"} :
            /\ outcome' = [outcome EXCEPT ![f] = [valid |-> v, served |-> served]]
            /\ v = "yes" => LinkedChain
            /\ v = "no" => ~LinkedChain
    BY <1>3 DEF ValidateHeaders, NothingSynced, Said
  <2>5. LinkedChain <=> ~Forked(served)
    BY <1>0, LinkedIsOneBranch DEF Table
  <2>6. Answered'
    BY <1>0, <2>4, <2>5 DEF Answered, OutcomeOK
  <2>7. OutcomeOK'
    BY <1>0, <2>4 DEF OutcomeOK, Table
  <2> QED BY <1>b, <2>1, <2>3, <2>6, <2>7
<1>4. ASSUME NEW f \in Fetchers, EndSync(f) PROVE Goal
  <2>1. UNCHANGED <<headers, served, outcome>>
    BY <1>4 DEF EndSync
  <2>2. fetch' = Left(f) /\ inProgress' = FALSE /\ UNCHANGED syncs
    BY <1>4 DEF EndSync
  <2>3. ASSUME NEW g \in Fetchers
        PROVE  fetch'[g] = NoFetch \/ (fetch'[g] \in At /\ fetch'[g].ended)
    <3>1. CASE g = f \/ fetch[g] = NoFetch
      BY <2>2, <3>1 DEF Left
    <3>2. CASE g # f /\ fetch[g] # NoFetch
      <4>1. fetch'[g] = [fetch[g] EXCEPT !.ended = TRUE] /\ fetch[g] \in At
        BY <1>0, <2>2, <3>2 DEF Left
      <4> QED BY <4>1
    <3> QED BY <3>1, <3>2
  <2>4. FetchesOK' /\ FlagIsUp'
    BY <1>0, <2>2, <2>3 DEF Left
  <2> QED BY <1>b, <1>c, <2>1, <2>4
<1>5. ASSUME NEW f \in Fetchers, ValidationRaises(f) PROVE Goal
  <2>1. UNCHANGED <<headers, served, outcome>>
    BY <1>5 DEF ValidationRaises
  <2>2. FetchesOK' /\ FlagIsUp'
    BY <1>0, <1>5 DEF ValidationRaises
  <2> QED BY <1>b, <1>c, <2>1, <2>2
<1>6. ASSUME NEW f \in Fetchers, NEW a \in Answers, DownloadHeaders(f, a) PROVE Goal
  <2>1. UNCHANGED <<inProgress, syncs, outcome>>
    BY <1>6 DEF DownloadHeaders
  <2>2. fetch[f] \in At
    BY <1>0, <1>6 DEF DownloadHeaders, NoFetch
  <2>3. FetchesOK' /\ FlagIsUp'
    BY <1>0, <1>6, <2>2 DEF DownloadHeaders, NoFetch
  <2>4. headers' = headers \cup HeadersOf(a) /\ served' = served \cup {a}
    BY <1>6 DEF DownloadHeaders, StoreHeaders
  <2>5. HeadersOf(a) \subseteq Answers
    BY HeadersAreAnswers
  <2>6. Table'
    BY <1>0, <2>4, <2>5 DEF Table
  <2> QED BY <1>c, <2>1, <2>3, <2>6
<1>7. ASSUME UNCHANGED hvars PROVE Goal
  BY <1>0, <1>b, <1>c, <1>7 DEF hvars
<1> QED
  BY <1>1, <1>2, <1>3, <1>4, <1>5, <1>6, <1>7 DEF HeadersNext

(* validate_header_chain (headers_sync.py:69) answers yes exactly as long as *)
(* every answer ever stored was of one branch, and sync_in_progress is down  *)
(* during a synchronisation only when another one has ended since it began.  *)
THEOREM OneForkInvalidates == HeadersSpec => []HeadersFollowOneBranch
<1>1. FetchedInv => HeadersFollowOneBranch
  BY DEF FetchedInv
<1> QED
  BY <1>1, FetchedInit, FetchedStep, PTL DEF HeadersSpec

-----------------------------------------------------------------------------
(***************************************************************************)
(* The limit of connections                                                *)
(***************************************************************************)

(* The limiter holds the end of what it admitted: the first d times are out  *)
(* of the window.                                                            *)
HoldsEnd(a, c, d, now) ==
    /\ Len(c) = Len(a) - d
    /\ \A k \in 1 .. Len(a) - d : c[k] = a[d + k]
    /\ \A k \in 1 .. d : now - a[k] >= Window

Spaced(a) == \A k \in 1 .. Len(a) - Limit : a[k + Limit] - a[k] >= Window

RateInv ==
    /\ seconds \in Nat
    /\ counts \in [Ips -> Seq(0 .. seconds)] /\ admitted \in [Ips -> Seq(0 .. seconds)]
    /\ \A i \in Ips :
        /\ Ascending(admitted[i]) /\ Spaced(admitted[i])
        /\ \E d \in 0 .. Len(admitted[i]) : HoldsEnd(admitted[i], counts[i], d, seconds)

\* Forgetting the times out of the window leaves the end of the admitted ones.
LEMMA TrimmedHoldsEnd ==
  ASSUME NEW now \in Nat, NEW a \in Seq(0 .. now), NEW c \in Seq(0 .. now), Ascending(a),
         NEW d \in 0 .. Len(a), HoldsEnd(a, c, d, now)
  PROVE  LET r == Selected(c, {t \in 0 .. now : now - t < Window})
         IN r \in Seq(0 .. now) /\ \E e \in 0 .. Len(a) : HoldsEnd(a, r, e, now)
<1> DEFINE S == {t \in 0 .. now : now - t < Window}
<1>1. PICK r : r = Selected(c, S)
  OBVIOUS
<1>2. Window \in Nat /\ Limit \in Nat
  BY ServerAssumption
<1>3. now - Window \in Int /\ 0 .. now \subseteq Nat /\ \A x \in 0 .. now : x \in S <=> x > now - Window
  BY <1>2
<1>4. Ascending(c)
  <2> SUFFICES ASSUME NEW j \in 1 .. Len(c), NEW k \in 1 .. Len(c), j <= k PROVE c[j] <= c[k]
    BY DEF Ascending
  <2>1. Len(a) \in Nat /\ d \in Nat /\ Len(c) = Len(a) - d
    BY DEF HoldsEnd
  <2>2. d + j \in 1 .. Len(a) /\ d + k \in 1 .. Len(a) /\ d + j <= d + k
    BY <2>1
  <2>3. c[j] = a[d + j] /\ c[k] = a[d + k]
    BY <2>1 DEF HoldsEnd
  <2> QED BY <2>2, <2>3 DEF Ascending
<1>5. r \in Seq((0 .. now) \cap S)
  BY <1>1, SelectedType
<1> HIDE DEF S
<1>b. PICK T, low : T = 0 .. now /\ low = now - Window
  OBVIOUS
<1>c. T \subseteq Nat /\ low \in Int /\ c \in Seq(T)
  BY <1>3, <1>b
<1>f. \A x \in T : x \in S <=> x > low
  BY <1>3, <1>b
<1>d. \E e \in 0 .. Len(c) : EndAbove(Selected(c, S), c, e, low)
  BY <1>4, <1>c, <1>f, SelectedSuffix
<1>6. PICK e \in 0 .. Len(c) :
         /\ Len(r) = Len(c) - e
         /\ \A k \in 1 .. Len(c) - e : r[k] = c[e + k]
         /\ \A k \in 1 .. e : c[k] <= now - Window
  BY <1>1, <1>b, <1>d DEF EndAbove
<1>7. /\ Len(a) \in Nat /\ d \in Nat /\ Len(c) = Len(a) - d /\ e \in Nat /\ e <= Len(c)
      /\ \A k \in 1 .. Len(c) : c[k] = a[d + k]
      /\ \A k \in 1 .. d : now - a[k] >= Window
      /\ \A k \in 1 .. Len(a) : a[k] \in 0 .. now
  BY DEF HoldsEnd
<1>8. d + e \in 0 .. Len(a) /\ Len(r) = Len(a) - (d + e)
  BY <1>6, <1>7
<1>9. ASSUME NEW k \in 1 .. Len(a) - (d + e) PROVE r[k] = a[(d + e) + k]
  <2>1. k \in 1 .. Len(c) - e /\ e + k \in 1 .. Len(c) /\ d + (e + k) = (d + e) + k
    BY <1>7
  <2> QED BY <1>6, <1>7, <2>1
<1>10. ASSUME NEW k \in 1 .. d + e PROVE now - a[k] >= Window
  <2>1. CASE k \in 1 .. d
    BY <1>7, <2>1
  <2>2. CASE k \notin 1 .. d
    <3>1. k - d \in 1 .. e /\ k - d \in 1 .. Len(c) /\ d + (k - d) = k /\ k \in 1 .. Len(a)
      BY <1>7, <2>2
    <3>2. c[k - d] <= now - Window /\ c[k - d] = a[k] /\ a[k] \in 0 .. now
      BY <1>6, <1>7, <3>1
    <3> QED BY <1>2, <3>2
  <2> QED BY <2>1, <2>2
<1>11. HoldsEnd(a, r, d + e, now)
  BY <1>8, <1>9, <1>10 DEF HoldsEnd
<1>12. r \in Seq(0 .. now)
  BY <1>5
<1> QED BY <1>1, <1>8, <1>11, <1>12 DEF S

\* One more connection, when fewer than Limit are in the window.
LEMMA AdmittedHoldsEnd ==
  ASSUME NEW now \in Nat, NEW a \in Seq(0 .. now), NEW r \in Seq(0 .. now), Ascending(a),
         Spaced(a), NEW e \in 0 .. Len(a), HoldsEnd(a, r, e, now), Len(r) < Limit
  PROVE  /\ Append(a, now) \in Seq(0 .. now) /\ Append(r, now) \in Seq(0 .. now)
         /\ Ascending(Append(a, now)) /\ Spaced(Append(a, now))
         /\ e \in 0 .. Len(Append(a, now))
         /\ HoldsEnd(Append(a, now), Append(r, now), e, now)
<1> DEFINE b == Append(a, now)
           q == Append(r, now)
<1>1. /\ b \in Seq(0 .. now) /\ Len(b) = Len(a) + 1 /\ b[Len(a) + 1] = now
      /\ \A k \in 1 .. Len(a) : b[k] = a[k] /\ a[k] \in 0 .. now
  OBVIOUS
<1>2. /\ q \in Seq(0 .. now) /\ Len(q) = Len(r) + 1 /\ q[Len(r) + 1] = now
      /\ \A k \in 1 .. Len(r) : q[k] = r[k]
  OBVIOUS
<1>3. /\ Len(a) \in Nat /\ Len(r) \in Nat /\ Len(r) = Len(a) - e
      /\ \A k \in 1 .. Len(a) - e : r[k] = a[e + k]
      /\ \A k \in 1 .. e : now - a[k] >= Window
  BY DEF HoldsEnd
<1>4. Window \in Nat /\ Limit \in Nat \ {0}
  BY ServerAssumption
<1> HIDE DEF b, q
<1>a. /\ Len(a) \in Nat /\ Len(r) \in Nat /\ e \in Nat /\ Len(r) = Len(a) - e /\ e <= Len(a)
      /\ Len(b) = Len(a) + 1 /\ Len(q) = Len(r) + 1
  BY <1>1, <1>2, <1>3
<1>5. Ascending(b)
  <2> SUFFICES ASSUME NEW j \in 1 .. Len(b), NEW k \in 1 .. Len(b), j <= k PROVE b[j] <= b[k]
    BY DEF Ascending
  <2>1. CASE k = Len(a) + 1 /\ j = k
    BY <1>1, <2>1
  <2>2. CASE k = Len(a) + 1 /\ j # k
    <3>1. j \in 1 .. Len(a)
      BY <1>1, <1>3, <2>2
    <3> QED BY <1>1, <2>2, <3>1
  <2>3. CASE k # Len(a) + 1
    <3>2. PICK m, z : m = Len(a) /\ z = Len(b)
      OBVIOUS
    <3>3. m \in Nat /\ z = m + 1 /\ j \in 1 .. z /\ k \in 1 .. z /\ k # m + 1
      BY <1>a, <2>3, <3>2
    <3>4. j \in 1 .. m /\ k \in 1 .. m
      BY <3>3
    <3>1. j \in 1 .. Len(a) /\ k \in 1 .. Len(a)
      BY <3>2, <3>4
    <3> QED BY <1>1, <3>1 DEF Ascending
  <2> QED BY <2>1, <2>2, <2>3
<1>6. Spaced(b)
  <2> SUFFICES ASSUME NEW k \in 1 .. Len(b) - Limit PROVE b[k + Limit] - b[k] >= Window
    BY DEF Spaced
  <2>0. k \in 1 .. Len(a)
    BY <1>a, <1>4
  <2>1. b[k] = a[k] /\ a[k] \in 0 .. now
    BY <1>1, <2>0
  <2>2. CASE k + Limit = Len(a) + 1
    <3>1. k \in 1 .. e
      BY <1>3, <1>4, <2>2
    <3> QED BY <1>1, <1>3, <2>1, <2>2, <3>1
  <2>3. CASE k + Limit # Len(a) + 1
    <3>1. k \in 1 .. Len(a) - Limit /\ k + Limit \in 1 .. Len(a)
      BY <1>a, <1>4, <2>3
    <3> QED BY <1>1, <2>1, <3>1 DEF Spaced
  <2> QED BY <2>2, <2>3
<1>7. HoldsEnd(b, q, e, now)
  <2>1. Len(q) = Len(b) - e
    BY <1>1, <1>2, <1>3
  <2>2. ASSUME NEW k \in 1 .. Len(b) - e PROVE q[k] = b[e + k]
    <3>1. CASE k = Len(r) + 1
      <4>1. e + k = Len(a) + 1
        BY <1>3, <3>1
      <4> QED BY <1>1, <1>2, <3>1, <4>1
    <3>2. CASE k # Len(r) + 1
      <4>1. k \in 1 .. Len(r) /\ k \in 1 .. Len(a) - e /\ e + k \in 1 .. Len(a)
        BY <1>a, <3>2
      <4> QED BY <1>1, <1>2, <1>3, <4>1
    <3> QED BY <3>1, <3>2
  <2>3. ASSUME NEW k \in 1 .. e PROVE now - b[k] >= Window
    <3>1. k \in 1 .. Len(a)
      BY <1>3
    <3> QED BY <1>1, <1>3, <3>1
  <2> QED BY <2>1, <2>2, <2>3 DEF HoldsEnd
<1>8. e \in 0 .. Len(b)
  BY <1>1, <1>3
<1> QED BY <1>1, <1>2, <1>5, <1>6, <1>7, <1>8 DEF b, q

\* A second later the forgotten times are no nearer.
LEMMA LaterHoldsEnd ==
  ASSUME NEW now \in Nat, NEW a \in Seq(0 .. now), NEW c, NEW d \in 0 .. Len(a),
         HoldsEnd(a, c, d, now)
  PROVE  HoldsEnd(a, c, d, now + 1)
<1>1. ASSUME NEW k \in 1 .. d PROVE (now + 1) - a[k] >= Window
  <2>1. Len(a) \in Nat /\ k \in 1 .. Len(a) /\ a[k] \in 0 .. now /\ now - a[k] >= Window
    BY DEF HoldsEnd
  <2>2. Window \in Nat
    BY ServerAssumption
  <2> QED BY <2>1, <2>2
<1> QED BY <1>1 DEF HoldsEnd

LEMMA RateInit == ServerInit => RateInv
<1> SUFFICES ASSUME ServerInit PROVE RateInv
  OBVIOUS
<1>1. << >> \in Seq(0 .. 0) /\ Len(<< >>) = 0 /\ seconds = 0
  BY DEF ServerInit
<1>2. Limit \in Nat \ {0}
  BY ServerAssumption
<1>3. Ascending(<< >>) /\ Spaced(<< >>) /\ HoldsEnd(<< >>, << >>, 0, 0)
  BY <1>1, <1>2 DEF Ascending, Spaced, HoldsEnd
<1>4. counts = [i \in Ips |-> << >>] /\ admitted = [i \in Ips |-> << >>]
  BY DEF ServerInit
<1>5. 0 \in 0 .. Len(<< >>)
  OBVIOUS
<1> QED BY <1>1, <1>3, <1>4, <1>5 DEF RateInv

LEMMA RateStep == RateInv /\ [ServerNext]_svvars => RateInv'
<1> SUFFICES ASSUME RateInv, [ServerNext]_svvars PROVE RateInv'
  OBVIOUS
<1>0. /\ seconds \in Nat /\ counts \in [Ips -> Seq(0 .. seconds)]
      /\ admitted \in [Ips -> Seq(0 .. seconds)]
  BY DEF RateInv
<1>1. ASSUME UNCHANGED <<counts, admitted, seconds>> PROVE RateInv'
  BY <1>1 DEF RateInv
<1>2. CASE PassSecond
  <2>1. seconds' = seconds + 1 /\ counts' = counts /\ admitted' = admitted
    BY <1>2 DEF PassSecond
  <2>2. Seq(0 .. seconds) \subseteq Seq(0 .. seconds + 1)
    <3>1. PICK P, Q : P = 0 .. seconds /\ Q = 0 .. seconds + 1
      OBVIOUS
    <3>2. P \subseteq Q
      BY <1>0, <3>1
    <3>3. Seq(P) \subseteq Seq(Q)
      BY <3>2
    <3> QED BY <3>1, <3>3
  <2>3. ASSUME NEW i \in Ips
        PROVE  \E d \in 0 .. Len(admitted[i]) : HoldsEnd(admitted[i], counts[i], d, seconds + 1)
    <3>1. PICK d \in 0 .. Len(admitted[i]) : HoldsEnd(admitted[i], counts[i], d, seconds)
      BY DEF RateInv
    <3>2. PICK n, a, c : n = seconds /\ a = admitted[i] /\ c = counts[i]
      OBVIOUS
    <3>3. n \in Nat /\ a \in Seq(0 .. n) /\ d \in 0 .. Len(a) /\ HoldsEnd(a, c, d, n)
      BY <1>0, <3>1, <3>2
    <3>4. HoldsEnd(a, c, d, n + 1)
      BY <3>3, LaterHoldsEnd
    <3> QED BY <3>2, <3>4
  <2>4. counts' \in [Ips -> Seq(0 .. seconds')] /\ admitted' \in [Ips -> Seq(0 .. seconds')]
    BY <1>0, <2>1, <2>2
  <2> QED BY <1>0, <2>1, <2>3, <2>4 DEF RateInv
<1>3. ASSUME NEW i \in Ips, RefuseConnection(i) \/ AdmitConnection(i) PROVE RateInv'
  <2>1. PICK n, a, c : n = seconds /\ a = admitted[i] /\ c = counts[i]
    OBVIOUS
  <2>2. n \in Nat /\ a \in Seq(0 .. n) /\ c \in Seq(0 .. n) /\ Ascending(a) /\ Spaced(a)
    BY <1>0, <2>1 DEF RateInv
  <2>3. PICK d \in 0 .. Len(a) : HoldsEnd(a, c, d, n)
    BY <2>1 DEF RateInv
  <2>4. PICK r : r = Recent(i)
    OBVIOUS
  <2>5. r = Selected(c, {t \in 0 .. n : n - t < Window})
    BY <2>1, <2>4 DEF Recent
  <2>6. r \in Seq(0 .. n) /\ \E e \in 0 .. Len(a) : HoldsEnd(a, r, e, n)
    BY <2>2, <2>3, <2>5, TrimmedHoldsEnd
  <2>7. PICK e \in 0 .. Len(a) : HoldsEnd(a, r, e, n)
    BY <2>6
  <2>8. CASE RefuseConnection(i)
    <3>1. counts' = [counts EXCEPT ![i] = r] /\ admitted' = admitted /\ seconds' = seconds
      BY <2>4, <2>8 DEF RefuseConnection
    <3>2. counts' \in [Ips -> Seq(0 .. seconds)] /\ counts'[i] = r
      BY <1>0, <2>1, <2>6, <3>1
    <3>3. \A j \in Ips \ {i} : counts'[j] = counts[j]
      BY <1>0, <3>1
    <3> QED BY <1>0, <2>1, <2>7, <3>1, <3>2, <3>3 DEF RateInv
  <2>9. CASE AdmitConnection(i)
    <3>1. /\ counts' = [counts EXCEPT ![i] = Append(r, n)] /\ Len(r) < Limit
          /\ admitted' = [admitted EXCEPT ![i] = Append(a, n)] /\ seconds' = seconds
      BY <2>1, <2>4, <2>9 DEF AdmitConnection
    <3>2. /\ Append(a, n) \in Seq(0 .. n) /\ Append(r, n) \in Seq(0 .. n)
          /\ Ascending(Append(a, n)) /\ Spaced(Append(a, n))
          /\ e \in 0 .. Len(Append(a, n)) /\ HoldsEnd(Append(a, n), Append(r, n), e, n)
      BY <2>2, <2>6, <2>7, <3>1, AdmittedHoldsEnd
    <3>3. counts' \in [Ips -> Seq(0 .. seconds)] /\ counts'[i] = Append(r, n)
      BY <1>0, <2>1, <3>1, <3>2
    <3>4. admitted' \in [Ips -> Seq(0 .. seconds)] /\ admitted'[i] = Append(a, n)
      BY <1>0, <2>1, <3>1, <3>2
    <3>5. \A j \in Ips \ {i} : counts'[j] = counts[j] /\ admitted'[j] = admitted[j]
      BY <1>0, <3>1
    <3>6. ASSUME NEW j \in Ips
          PROVE  /\ Ascending(admitted'[j]) /\ Spaced(admitted'[j])
                 /\ \E f \in 0 .. Len(admitted'[j]) : HoldsEnd(admitted'[j], counts'[j], f, seconds')
      <4>1. CASE j = i
        BY <2>1, <3>1, <3>2, <3>3, <3>4, <4>1
      <4>2. CASE j # i
        BY <3>1, <3>5, <4>2 DEF RateInv
      <4> QED BY <4>1, <4>2
    <3> QED BY <1>0, <3>1, <3>3, <3>4, <3>6 DEF RateInv
  <2> QED BY <1>3, <2>8, <2>9
<1> QED
  BY <1>1, <1>2, <1>3 DEF ServerNext, StartServer, StartHandler, StopServer, EndHandler, svvars

(* The server's two records of its connections are what they were: the peers *)
(* have handlers, and no Window seconds see more than Limit admissions of an  *)
(* address, although the limiter keeps only the times it still needs.        *)
THEOREM ConnectionsAreCounted == ServerSpec => []ServerKeepsCount
<1>1. RateInv => RateIsKept
  BY DEF RateInv, RateIsKept, Spaced
<1>2. ServerSpec => []RateIsKept
  BY <1>1, RateInit, RateStep, PTL DEF ServerSpec
<1> QED
  BY <1>2, PeersHaveHandlers, PTL DEF ServerKeepsCount

-----------------------------------------------------------------------------
(***************************************************************************)
(* Compact blocks                                                          *)
(***************************************************************************)

BlockTransactions == Transfers \cup {Reward}

(* A block begins with its reward, a message holds the ids of its block, and *)
(* an answer that asks for nothing took a payment for the reward.            *)
HoldsIds(m) ==
    /\ m.block \in Seq(BlockTransactions) /\ m.block # << >> /\ m.block[1] = Reward
    /\ m.ids = [k \in DOMAIN m.block |-> ShortId[m.block[k]]]

CompactInv ==
    /\ mempool \in Seq(Transfers) /\ believed \in Seq(Transfers)
    /\ block \in Seq(BlockTransactions) /\ (block # << >> => block[1] = Reward)
    /\ \A m \in compact : HoldsIds(m)
    /\ CompleteNeedsACollision

\* The order a set of payments gets in a block.
LEMMA PaymentsInOrder ==
  ASSUME NEW S, S \subseteq Transfers PROVE SetToSeq(S) \in Seq(Transfers)
<1>1. IsFiniteSet(S)
  BY CompactAssumption, FS_Subset
<1>2. PICK n : n = Cardinality(S)
  OBVIOUS
<1>3. n \in Nat /\ ExistsBijection(1 .. n, S)
  BY <1>1, <1>2, FS_CardinalityType
<1>4. PICK f \in [1 .. n -> S] : IsInjective(f)
  BY <1>3 DEF ExistsBijection, Bijection, Injection
<1>5. SetToSeq(S) \in [1 .. n -> S]
  BY <1>2, <1>4 DEF SetToSeq
<1> QED BY <1>3, <1>5

\* A payment of the mempool that answers to an id.
LEMMA MatchIsAPayment ==
  ASSUME mempool \in Seq(Transfers), NEW id \in InMempool
  PROVE  Match(id) \in Transfers /\ ShortId[Match(id)] = id
<1> DEFINE S == {t \in Transfers : ShortId[t] = id}
<1>1. PICK p \in Seq(Transfers) : p = mempool
  OBVIOUS
<1>2. PICK r \in Seq(Transfers \cap S) : r = Selected(p, S)
  BY SelectedType
<1>3. Range(r) = Range(p) \cap S
  BY <1>2, SelectedRange
<1>4. PICK k \in DOMAIN p : ShortId[p[k]] = id
  BY <1>1 DEF InMempool
<1>5. p[k] \in Range(r)
  BY <1>3, <1>4 DEF Range
<1>6. r # << >>
  BY <1>5 DEF Range
<1>7. r[1] \in S
  BY <1>6
<1> QED BY <1>1, <1>2, <1>7 DEF Match

\* An answer that asks for nothing found the id of the reward in the mempool.
LEMMA AnswerOfMessage ==
  ASSUME mempool \in Seq(Transfers), NEW m, HoldsIds(m), Missing(m.ids) = << >>
  PROVE  /\ 1 \in DOMAIN Reconstructed(m).transactions
         /\ Reconstructed(m).transactions[1] \in Transfers
         /\ ShortId[Reconstructed(m).transactions[1]] = ShortId[m.block[1]]
<1>1. PICK ids : ids = m.ids
  OBVIOUS
<1>2. ids \in Seq(ShortIds) /\ ids # << >> /\ ids[1] = ShortId[m.block[1]]
  <2>1. PICK b \in Seq(BlockTransactions) : b = m.block
    BY DEF HoldsIds
  <2>2. ids = [k \in 1 .. Len(b) |-> ShortId[b[k]]] /\ Len(b) \in Nat /\ Len(b) # 0
    BY <1>1, <2>1 DEF HoldsIds
  <2>3. \A k \in 1 .. Len(b) : ShortId[b[k]] \in ShortIds
    BY <2>1, CompactAssumption DEF ShortIds, BlockTransactions
  <2>4. ids \in Seq(ShortIds) /\ Len(ids) = Len(b)
    BY <2>2, <2>3
  <2>5. ids[1] = ShortId[b[1]]
    BY <2>2
  <2> QED BY <2>1, <2>2, <2>4, <2>5
<1>3. Range(ids) \subseteq InMempool
  <2>1. PICK r : r = Selected(ids, ShortIds \ InMempool)
    OBVIOUS
  <2>2. r = << >>
    BY <1>1, <2>1 DEF Missing
  <2>3. Range(r) = Range(ids) \cap (ShortIds \ InMempool)
    BY <1>2, <2>1, SelectedRange
  <2>4. Range(r) = {}
    BY <2>2 DEF Range
  <2>5. Range(ids) \subseteq ShortIds
    BY <1>2, ElementsOf
  <2> QED BY <2>3, <2>4, <2>5
<1>4. Selected(ids, InMempool) = ids
  BY <1>2, <1>3, SelectedAll
<1>5. PICK w : w = [k \in DOMAIN ids |-> Match(ids[k])]
  OBVIOUS
<1>6. w \in Seq(Transfers) /\ 1 \in DOMAIN w /\ w[1] = Match(ids[1])
  <2>1. DOMAIN ids = 1 .. Len(ids) /\ Len(ids) \in Nat /\ 1 \in 1 .. Len(ids)
    BY <1>2
  <2>2. \A k \in 1 .. Len(ids) : ids[k] \in InMempool
    BY <1>3, <2>1 DEF Range
  <2>3. \A k \in 1 .. Len(ids) : Match(ids[k]) \in Transfers
    BY <2>2, MatchIsAPayment
  <2> QED BY <1>5, <2>1, <2>3
<1>7. Reconstructed(m).transactions = w
  <2>1. << >> \o w = w
    BY <1>6
  <2> QED BY <1>1, <1>4, <1>5, <2>1 DEF Reconstructed, Prefilled
<1>8. ids[1] \in InMempool
  BY <1>2, <1>3 DEF Range
<1>9. Match(ids[1]) \in Transfers /\ ShortId[Match(ids[1])] = ids[1]
  BY <1>8, MatchIsAPayment
<1> QED BY <1>2, <1>6, <1>7, <1>9

LEMMA CompactInitInv == CompactInit => CompactInv
  BY DEF CompactInit, CompactInv, CompleteNeedsACollision, Nobody

LEMMA CompactStepInv == CompactInv /\ [CompactNext]_cbvars => CompactInv'
<1> SUFFICES ASSUME CompactInv, [CompactNext]_cbvars PROVE CompactInv'
  OBVIOUS
<1>0. /\ mempool \in Seq(Transfers) /\ believed \in Seq(Transfers)
      /\ block \in Seq(BlockTransactions) /\ (block # << >> => block[1] = Reward)
      /\ \A m \in compact : HoldsIds(m)
      /\ CompleteNeedsACollision
  BY DEF CompactInv
<1>1. ASSUME mempool' \in Seq(Transfers), believed' \in Seq(Transfers),
             UNCHANGED <<block, compact, rebuilt>>
      PROVE  CompactInv'
  BY <1>0, <1>1 DEF CompactInv, CompleteNeedsACollision
<1>2. ASSUME NEW t \in Transfers, Gain(t) \/ Lose(t) PROVE CompactInv'
  <2>1. Selected(mempool, Transfers \ {t}) \in Seq(Transfers)
    <3>1. PICK p \in Seq(Transfers) : p = mempool
      BY <1>0
    <3>2. Selected(p, Transfers \ {t}) \in Seq(Transfers \cap (Transfers \ {t}))
      BY SelectedType
    <3> QED BY <3>1, <3>2
  <2>2. Append(mempool, t) \in Seq(Transfers)
    BY <1>0
  <2> QED BY <1>0, <1>1, <1>2, <2>1, <2>2 DEF Gain, Lose
<1>3. CASE Hear
  BY <1>0, <1>1, <1>3 DEF Hear
<1>4. CASE SendCompactBlock
  <2>1. HoldsIds(Message)
    BY <1>0, <1>4 DEF SendCompactBlock, HoldsIds, Message
  <2>2. compact' = compact \cup {Message} /\ UNCHANGED <<mempool, believed, block, rebuilt>>
    BY <1>4 DEF SendCompactBlock
  <2> QED BY <1>0, <2>1, <2>2 DEF CompactInv, CompleteNeedsACollision
<1>5. CASE NextBlock
  BY <1>0, <1>5 DEF NextBlock, CompactInv, CompleteNeedsACollision
<1>6. ASSUME NEW S \in SUBSET Transfers, Mine(S) PROVE CompactInv'
  <2>1. PICK q \in Seq(Transfers) : q = SetToSeq(S)
    BY PaymentsInOrder
  <2>2. q \in Seq(BlockTransactions) /\ <<Reward>> \in Seq(BlockTransactions)
    BY DEF BlockTransactions
  <2>3. <<Reward>> \o q \in Seq(BlockTransactions) /\ (<<Reward>> \o q)[1] = Reward
    BY <2>2
  <2> QED BY <1>0, <1>6, <2>1, <2>3 DEF Mine, CompactInv, CompleteNeedsACollision
<1>7. ASSUME NEW m \in compact, ReceiveCompactBlock(m) PROVE CompactInv'
  <2>1. rebuilt' = Reconstructed(m) /\ UNCHANGED <<mempool, believed, block, compact>>
    BY <1>7 DEF ReceiveCompactBlock
  <2>2. rebuilt'.missing = Missing(m.ids) /\ rebuilt'.block = m.block
    BY <2>1 DEF Reconstructed
  <2>3. ASSUME rebuilt'.missing = << >>
        PROVE  \E k \in DOMAIN rebuilt'.transactions :
                  /\ ShortId[rebuilt'.transactions[k]] = ShortId[rebuilt'.block[k]]
                  /\ rebuilt'.transactions[k] # rebuilt'.block[k]
    <3>1. HoldsIds(m) /\ Missing(m.ids) = << >>
      BY <1>0, <2>2, <2>3
    <3>2. /\ 1 \in DOMAIN rebuilt'.transactions /\ rebuilt'.transactions[1] \in Transfers
          /\ ShortId[rebuilt'.transactions[1]] = ShortId[rebuilt'.block[1]]
      BY <1>0, <2>1, <2>2, <3>1, AnswerOfMessage
    <3>3. rebuilt'.block[1] = Reward /\ Reward \notin Transfers
      BY <2>2, <3>1, CompactAssumption DEF HoldsIds
    <3> QED BY <3>2, <3>3
  <2>4. CompleteNeedsACollision'
    BY <2>3 DEF CompleteNeedsACollision
  <2> QED BY <1>0, <2>1, <2>4 DEF CompactInv
<1>8. CASE UNCHANGED cbvars
  BY <1>0, <1>8 DEF cbvars, CompactInv, CompleteNeedsACollision
<1> QED
  BY <1>2, <1>3, <1>4, <1>5, <1>6, <1>7, <1>8 DEF CompactNext

(* A peer that says it has the whole block took one of its payments for the  *)
(* reward, which is in no mempool: with ids that tell transactions apart,    *)
(* every compact block leaves something to ask for.                          *)
THEOREM WholeBlocksCollide == CompactSpec => []CompleteNeedsACollision
<1>1. CompactInv => CompleteNeedsACollision
  BY DEF CompactInv
<1> QED
  BY <1>1, CompactInitInv, CompactStepInv, PTL DEF CompactSpec
-----------------------------------------------------------------------------
(***************************************************************************)
(* The types of the parts                                                  *)
(***************************************************************************)

\* The table of blocks holds heights, what a thread saves and the miner's tip,
\* and sync is a function of the threads.
HeightsAndThreads == rows \subseteq Nat /\ sync = [t \in Syncs |-> sync[t]]

LEMMA HeightsAndThreadsStep ==
  ASSUME DownloadInv, HeightsAndThreads, [BlockSyncNext]_bvars
  PROVE  HeightsAndThreads'
<1>0. /\ tip \in Nat /\ SyncRecords /\ rows \subseteq Nat /\ DOMAIN sync = Syncs
      /\ sync = [t \in Syncs |-> sync[t]]
  BY DEF DownloadInv, HeightsAndThreads
<1>1. ASSUME NEW t \in Syncs, NEW r, sync' = [sync EXCEPT ![t] = r]
      PROVE  sync' = [u \in Syncs |-> sync'[u]]
  BY <1>0, <1>1
<1>2. ASSUME NEW t \in Syncs, SaveSyncedBlock(t) PROVE HeightsAndThreads'
  <2>1. sync[t] \in Sync /\ sync[t] # Idle
    BY <1>0, <1>2 DEF SyncRecords, SaveSyncedBlock, Idle
  <2>2. PICK r : r = sync[t]
    OBVIOUS
  <2>3. r.lo \in Nat
    BY <2>1, <2>2, SyncRecord
  <2>4. rows' \subseteq Nat
    BY <1>0, <1>2, <2>2, <2>3 DEF SaveSyncedBlock
  <2>5. \E q : sync' = [sync EXCEPT ![t] = q] \/ sync' = [Rivals(t) EXCEPT ![t] = q]
    BY <1>2 DEF SaveSyncedBlock
  <2>6. PICK others : others = Rivals(t)
    OBVIOUS
  <2>7. DOMAIN others = Syncs
    BY <2>6 DEF Rivals
  <2>8. sync' = [u \in Syncs |-> sync'[u]]
    BY <1>1, <2>5, <2>6, <2>7
  <2> QED BY <2>4, <2>8 DEF HeightsAndThreads
<1>3. ASSUME NEW t \in Syncs, StartSync(t) \/ EndBatch(t) PROVE HeightsAndThreads'
  <2>1. \E q : sync' = [sync EXCEPT ![t] = q]
    BY <1>3 DEF StartSync, EndBatch
  <2> QED BY <1>0, <1>1, <1>3, <2>1 DEF StartSync, EndBatch, HeightsAndThreads
<1>4. ASSUME NEW t \in Syncs, GetBlocks(t) \/ LoseBlock(t) PROVE HeightsAndThreads'
  <2>1. sync' = [u \in Syncs |-> sync'[u]]
    BY <1>0, <1>4 DEF GetBlocks, LoseBlock
  <2> QED BY <1>0, <1>4, <2>1 DEF GetBlocks, LoseBlock, HeightsAndThreads
<1>5. CASE MineBlock
  <2>1. rows' \subseteq Nat
    BY <1>0, <1>5 DEF MineBlock
  <2>2. sync' = [u \in Syncs |-> sync'[u]]
    BY <1>5 DEF MineBlock
  <2> QED BY <2>1, <2>2 DEF HeightsAndThreads
<1>6. CASE UNCHANGED bvars
  BY <1>0, <1>6 DEF bvars, HeightsAndThreads
<1> QED BY <1>2, <1>3, <1>4, <1>5, <1>6 DEF BlockSyncNext

LEMMA DownloadTypesHold == BlockSyncSpec => []BlockSyncTypeOK
<1>1. BlockSyncInit => HeightsAndThreads
  BY BlockSyncAssumption DEF BlockSyncInit, HeightsAndThreads
<1>2. DownloadInv /\ HeightsAndThreads /\ [BlockSyncNext]_bvars => HeightsAndThreads'
  BY HeightsAndThreadsStep
<1>3. ASSUME DownloadInv, HeightsAndThreads PROVE BlockSyncTypeOK
  <2>1. IsFiniteSet(rows) /\ tip \in Nat /\ locked \in BOOLEAN
    BY <1>3 DEF DownloadInv
  <2>2. sync \in [Syncs -> Sync]
    <3>1. DOMAIN sync = Syncs /\ \A t \in Syncs : sync[t] \in Sync
      BY <1>3 DEF DownloadInv, SyncRecords
    <3>2. sync = [t \in Syncs |-> sync[t]]
      BY <1>3 DEF HeightsAndThreads
    <3> QED BY <3>1, <3>2
  <2> QED BY <1>3, <2>1, <2>2 DEF BlockSyncTypeOK, HeightsAndThreads
<1> QED BY <1>1, <1>2, <1>3, DownloadInit, DownloadStep, PTL DEF BlockSyncSpec

\* No more requests are granted, and the clock runs no further, than the bounds.
RequestBounds == Granted <= MaxAsked /\ clock <= MaxTime

LEMMA RequestBoundsStep == RequestsInv /\ RequestBounds /\ [InventoryNext]_ivars => RequestBounds'
<1> SUFFICES ASSUME RequestsInv, RequestBounds, [InventoryNext]_ivars PROVE RequestBounds'
  OBVIOUS
<1> USE InventoryAssumption
<1>0. clock \in Nat /\ IsFiniteSet(asked)
  BY DEF RequestsInv, InventoryShape
<1>1. ASSUME UNCHANGED <<asked, clock>> PROVE RequestBounds'
  BY <1>1 DEF RequestBounds, Granted
<1>2. ASSUME NEW t \in Threads, Ask(t) PROVE RequestBounds'
  <2>1. PICK n, r : n = Cardinality(asked) /\ asked' = asked \cup {r} /\ n < MaxAsked
    BY <1>2 DEF Ask
  <2>2. n \in Nat
    BY <1>0, <2>1, FS_CardinalityType
  <2>3. Cardinality(asked \cup {r}) = IF r \in asked THEN Cardinality(asked)
                                      ELSE Cardinality(asked) + 1
    BY <1>0, FS_AddElement
  <2>4. clock' = clock
    BY <1>2 DEF Ask, Steps
  <2>5. Cardinality(asked \cup {r}) <= MaxAsked
    BY <2>1, <2>2, <2>3
  <2> QED BY <2>1, <2>4, <2>5 DEF RequestBounds, Granted
<1>3. CASE Second
  BY <1>0, <1>3 DEF Second, RequestBounds, Granted
<1>4. ASSUME NEW t \in Threads, FindFree(t) \/ Skip(t) \/ Complete(t) PROVE RequestBounds'
  BY <1>1, <1>4 DEF FindFree, Skip, Complete, Steps
<1>7. ASSUME NEW t \in Threads, NEW h \in Invs, AddInv(t, h) \/ MarkReceived(t, h)
      PROVE  RequestBounds'
  BY <1>1, <1>7 DEF AddInv, MarkReceived, Steps
<1>5. CASE Wake \/ Scan \/ DeleteOne \/ Sleep
  BY <1>1, <1>5 DEF Wake, Scan, DeleteOne, Sleep
<1>6. CASE UNCHANGED ivars
  BY <1>1, <1>6 DEF ivars
<1> QED BY <1>2, <1>3, <1>4, <1>5, <1>6, <1>7 DEF InventoryNext

LEMMA InventoryTypesHold == InventorySpec => []InventoryTypeOK
<1> USE InventoryAssumption
<1>1. InventoryInit => RequestBounds
  BY FS_EmptySet DEF InventoryInit, RequestBounds, Granted
<1>2. ASSUME RequestsInv, RequestBounds PROVE InventoryTypeOK
  <2>1. PICK n : n = Granted
    OBVIOUS
  <2>2. n \in Nat /\ n <= MaxAsked
    BY <1>2, <2>1, FS_CardinalityType DEF RequestsInv, InventoryShape, RequestBounds, Granted
  <2>3. requested \in [Invs -> Nat]
    BY <1>2 DEF RequestsInv, InventoryShape
  <2>4. ASSUME NEW h \in Invs PROVE requested[h] \in 0 .. MaxAsked
    <3>1. CASE requested[h] = 0
      BY <3>1
    <3>2. CASE requested[h] # 0
      <4>1. PICK a \in asked : a.id = requested[h]
        BY <1>2, <3>2 DEF RequestsInv, HeldWereAsked, Pending
      <4>2. a.id \in 1 .. n
        BY <1>2, <2>1 DEF RequestsInv, Numbered
      <4> QED BY <2>2, <4>1, <4>2
    <3> QED BY <3>1, <3>2
  <2>5. requested \in [Invs -> 0 .. MaxAsked]
    BY <2>3, <2>4
  <2>6. dropped \subseteq 1 .. MaxAsked
    <3>1. \A x \in dropped : x \in 1 .. n
      BY <1>2, <2>1 DEF RequestsInv, InventoryShape
    <3> QED BY <2>2, <3>1
  <2>7. clock \in 0 .. MaxTime
    BY <1>2 DEF RequestsInv, InventoryShape, RequestBounds
  <2>8. /\ received \subseteq Invs /\ thread \in [Threads -> Thread]
        /\ cleaner \in Cleaner /\ asked \subseteq Asked
    BY <1>2 DEF RequestsInv, InventoryShape
  <2> QED BY <2>5, <2>6, <2>7, <2>8 DEF InventoryTypeOK
<1> QED BY <1>1, <1>2, RequestsInit, RequestsStep, RequestBoundsStep, PTL DEF InventorySpec

\* An address that is being admitted has a thread less than the bound.
ServerBounds ==
    /\ running \in {"no", "yes", "stopped"} /\ seconds \in 0 .. MaxClock
    /\ peerSet \subseteq Ips /\ overlapped \subseteq Ips /\ threadless \subseteq Ips
    /\ \A i \in Ips : handlers[i] <= MaxOpen /\ (i \in admitting => handlers[i] < MaxOpen)

LEMMA ServerBoundsStep == HandlersInv /\ ServerBounds /\ [ServerNext]_svvars => ServerBounds'
<1> SUFFICES ASSUME HandlersInv, ServerBounds, [ServerNext]_svvars PROVE ServerBounds'
  OBVIOUS
<1> USE ServerAssumption DEF ServerBounds
<1>0. handlers \in [Ips -> Nat] /\ admitting \subseteq Ips
  BY DEF HandlersInv
<1>1. CASE StartServer \/ StopServer
  BY <1>1 DEF StartServer, StopServer
<1>2. CASE PassSecond
  BY <1>2 DEF PassSecond
<1>3. ASSUME NEW i \in Ips, RefuseConnection(i) PROVE ServerBounds'
  BY <1>3 DEF RefuseConnection
<1>4. ASSUME NEW i \in Ips, AdmitConnection(i) PROVE ServerBounds'
  BY <1>4 DEF AdmitConnection
<1>5. CASE StartHandler
  <2>1. PICK i \in admitting :
          /\ admitting' = {}
          /\ \/ handlers' = [handlers EXCEPT ![i] = @ + 1] /\ UNCHANGED threadless
             \/ threadless' = threadless \cup {i} /\ UNCHANGED handlers
          /\ UNCHANGED <<running, seconds, peerSet, overlapped>>
    BY <1>5 DEF StartHandler
  <2>2. CASE threadless' = threadless \cup {i} /\ UNCHANGED handlers
    BY <1>0, <2>1, <2>2
  <2>3. CASE handlers' = [handlers EXCEPT ![i] = @ + 1] /\ UNCHANGED threadless
    <3>1. \A j \in Ips : handlers'[j] <= MaxOpen
      BY <1>0, <2>3
    <3> QED BY <2>1, <2>3, <3>1
  <2> QED BY <2>1, <2>2, <2>3
<1>6. ASSUME NEW i \in Ips, EndHandler(i) PROVE ServerBounds'
  <2>1. \A j \in Ips : handlers'[j] <= handlers[j] /\ handlers'[j] \in Int
    BY <1>0, <1>6 DEF EndHandler
  <2>2. /\ UNCHANGED <<running, admitting, seconds, threadless>>
        /\ peerSet' \subseteq Ips /\ overlapped' \subseteq Ips
    BY <1>6 DEF EndHandler
  <2> QED BY <1>0, <2>1, <2>2
<1>7. CASE UNCHANGED svvars
  BY <1>7 DEF svvars
<1> QED BY <1>1, <1>2, <1>3, <1>4, <1>5, <1>6, <1>7 DEF ServerNext

LEMMA ServerTypesHold == ServerSpec => []ServerTypeOK
<1>1. ServerInit => ServerBounds
  BY ServerAssumption DEF ServerInit, ServerBounds
<1>2. ServerInit => HandlersInv
  BY DEF ServerInit, HandlersInv, OverlapsAreSeen, PeerSetMatches
<1>3. ASSUME HandlersInv, ServerBounds, RateInv PROVE ServerTypeOK
  <2>1. handlers \in [Ips -> Nat] /\ admitting \subseteq Ips
    BY <1>3 DEF HandlersInv
  <2>2. handlers \in [Ips -> 0 .. MaxOpen]
    BY <1>3, <2>1, ServerAssumption DEF ServerBounds
  <2>3. PICK now \in 0 .. MaxClock : now = seconds
    BY <1>3 DEF ServerBounds
  <2>4. Seq(0 .. now) \subseteq Seq(0 .. MaxClock)
    <3>1. PICK P, Q : P = 0 .. now /\ Q = 0 .. MaxClock
      OBVIOUS
    <3>2. P \subseteq Q
      BY <2>3, <3>1, ServerAssumption
    <3>3. Seq(P) \subseteq Seq(Q)
      BY <3>2
    <3> QED BY <3>1, <3>3
  <2>5. counts \in [Ips -> Seq(0 .. now)] /\ admitted \in [Ips -> Seq(0 .. now)]
    BY <1>3, <2>3 DEF RateInv
  <2>6. counts \in [Ips -> Seq(0 .. MaxClock)] /\ admitted \in [Ips -> Seq(0 .. MaxClock)]
    BY ONLY <2>4, <2>5
  <2> QED BY <1>3, <2>1, <2>2, <2>6 DEF ServerBounds, ServerTypeOK
<1> QED
  BY <1>1, <1>2, <1>3, HandlersStep, ServerBoundsStep, RateInit, RateStep, PTL DEF ServerSpec

\* What a peer takes for the block's transactions are payments of its mempool.
LEMMA AnswersArePayments ==
  ASSUME mempool \in Seq(Transfers), NEW m, HoldsIds(m)
  PROVE  ToSet(Reconstructed(m).transactions) \subseteq Transfers
<1>1. PICK ids : ids = m.ids
  OBVIOUS
<1>2. ids \in Seq(ShortIds)
  <2>1. PICK b \in Seq(BlockTransactions) : b = m.block
    BY DEF HoldsIds
  <2>2. ids = [k \in 1 .. Len(b) |-> ShortId[b[k]]] /\ Len(b) \in Nat
    BY <1>1, <2>1 DEF HoldsIds
  <2>3. \A k \in 1 .. Len(b) : ShortId[b[k]] \in ShortIds
    BY <2>1, CompactAssumption DEF ShortIds, BlockTransactions
  <2> QED BY <2>2, <2>3
<1>3. PICK found : found = Selected(ids, InMempool)
  OBVIOUS
<1>4. found \in Seq(ShortIds \cap InMempool)
  BY <1>2, <1>3, SelectedType
<1>5. PICK w : w = [k \in DOMAIN found |-> Match(found[k])]
  OBVIOUS
<1>6. w \in Seq(Transfers)
  <2>1. DOMAIN found = 1 .. Len(found) /\ Len(found) \in Nat
    BY <1>4
  <2>2. \A k \in 1 .. Len(found) : found[k] \in InMempool
    BY <1>4, <2>1
  <2>3. \A k \in 1 .. Len(found) : Match(found[k]) \in Transfers
    BY <2>2, MatchIsAPayment
  <2> QED BY <1>5, <2>1, <2>3
<1>7. Reconstructed(m).transactions = w
  <2>1. << >> \o w = w
    BY <1>6
  <2> QED BY <1>1, <1>3, <1>5, <2>1 DEF Reconstructed, Prefilled
<1> QED BY <1>6, <1>7 DEF ToSet

Rebuilt == ToSet(rebuilt.transactions) \subseteq Transfers

LEMMA CompactTypesHold == CompactSpec => []CompactTypeOK
<1>1. CompactInit => Rebuilt
  BY DEF CompactInit, Rebuilt, Nobody, ToSet
<1>2. ASSUME CompactInv, Rebuilt, [CompactNext]_cbvars PROVE Rebuilt'
  <2>1. ASSUME NEW m \in compact, ReceiveCompactBlock(m) PROVE Rebuilt'
    <3>1. mempool \in Seq(Transfers) /\ HoldsIds(m)
      BY <1>2 DEF CompactInv
    <3>2. ToSet(Reconstructed(m).transactions) \subseteq Transfers
      BY <3>1, AnswersArePayments
    <3>3. rebuilt' = Reconstructed(m)
      BY <2>1 DEF ReceiveCompactBlock
    <3> QED BY <3>2, <3>3 DEF Rebuilt
  <2>2. ASSUME UNCHANGED rebuilt PROVE Rebuilt'
    BY <1>2, <2>2 DEF Rebuilt
  <2>3. ASSUME NEW t \in Transfers, Gain(t) \/ Lose(t) PROVE UNCHANGED rebuilt
    BY <2>3 DEF Gain, Lose
  <2>4. ASSUME NEW S \in SUBSET Transfers, Mine(S) PROVE UNCHANGED rebuilt
    BY <2>4 DEF Mine
  <2>5. ASSUME Hear \/ SendCompactBlock \/ NextBlock \/ UNCHANGED cbvars PROVE UNCHANGED rebuilt
    BY <2>5 DEF Hear, SendCompactBlock, NextBlock, cbvars
  <2> QED BY <1>2, <2>1, <2>2, <2>3, <2>4, <2>5 DEF CompactNext
<1>3. ASSUME CompactInv, Rebuilt PROVE CompactTypeOK
  <2>1. ToSet(mempool) \subseteq Transfers /\ ToSet(believed) \subseteq Transfers
    <3>1. PICK p \in Seq(Transfers), q \in Seq(Transfers) : p = mempool /\ q = believed
      BY <1>3 DEF CompactInv
    <3> QED BY <3>1 DEF ToSet
  <2>2. block \in Seq(Transfers \cup {Reward})
    BY <1>3 DEF CompactInv, BlockTransactions
  <2>3. \A m \in compact : m.block \in Seq(Transfers \cup {Reward})
    BY <1>3 DEF CompactInv, HoldsIds, BlockTransactions
  <2> QED BY <1>3, <2>1, <2>2, <2>3 DEF CompactTypeOK, Rebuilt
<1> QED BY <1>1, <1>2, <1>3, CompactInitInv, CompactStepInv, PTL DEF CompactSpec

\* No address is listed twice, and the counts stay below their limits.
CountsInv ==
    /\ IsInjective(seen)
    /\ wins \in [Urls -> 0 .. TriedAfter] /\ fails \in [Urls -> 0 .. ForgetAfter]

LEMMA RefreshedOnce ==
  ASSUME seen \in Seq(Urls), IsInjective(seen), NEW u \in Urls
  PROVE  /\ IsInjective(Refreshed(u)) /\ IsInjective(Selected(seen, Urls \ {u}))
         /\ u \notin Known => IsInjective(Append(seen, u))
<1>1. PICK s \in Seq(Urls) : s = seen /\ IsInjective(s)
  OBVIOUS
<1>2. PICK r : r = Selected(s, Urls \ {u})
  OBVIOUS
<1>3. IsInjective(r)
  BY <1>1, <1>2, SelectedInjective
<1>4. r \in Seq(Urls) /\ Range(r) = Known \ {u}
  BY <1>1, <1>2, OthersAreKept
<1>5. IsInjective(Append(r, u))
  <2>1. r \in Seq(Urls) /\ u \in Urls
    BY <1>4
  <2>2. IsInjective(Append(r, u)) <=> IsInjective(r) /\ u \notin Range(r)
    BY <2>1, AppendIsInjective
  <2> QED BY <1>3, <1>4, <2>2
<1>6. u \notin Known => IsInjective(Append(s, u))
  <2>1. Known = Range(s)
    BY <1>1, KnownIsFinite
  <2>2. IsInjective(Append(s, u)) <=> IsInjective(s) /\ u \notin Range(s)
    BY AppendIsInjective
  <2> QED BY <1>1, <2>1, <2>2
<1> QED BY <1>1, <1>2, <1>3, <1>5, <1>6 DEF Refreshed

LEMMA CountsStep == AddressesInv /\ CountsInv /\ [PeersNext]_pvars => CountsInv'
<1> SUFFICES ASSUME AddressesInv, CountsInv, [PeersNext]_pvars PROVE CountsInv'
  OBVIOUS
<1> USE PeersAssumption DEF CountsInv
<1>0. seen \in Seq(Urls)
  BY DEF AddressesInv
<1>1. ASSUME UNCHANGED addresses PROVE CountsInv'
  BY <1>1 DEF addresses
<1>2. ASSUME NEW u \in Urls, AddAddress(u) PROVE CountsInv'
  <2>1. CASE u \in Known
    BY <1>0, <1>2, <2>1, RefreshedOnce DEF AddAddress
  <2>2. CASE u \notin Known
    <3>1. /\ seen' = Append(seen, u)
          /\ wins' = [wins EXCEPT ![u] = 0] /\ fails' = [fails EXCEPT ![u] = 0]
      BY <1>2, <2>2 DEF AddAddress
    <3>2. IsInjective(seen')
      BY <1>0, <2>2, <3>1, RefreshedOnce
    <3>3. wins' \in [Urls -> 0 .. TriedAfter] /\ fails' \in [Urls -> 0 .. ForgetAfter]
      BY <3>1
    <3> QED BY <3>2, <3>3
  <2> QED BY <2>1, <2>2
<1>3. ASSUME NEW u \in Urls, MarkSuccess(u) PROVE CountsInv'
  <2>1. PICK n : n = IF wins[u] < TriedAfter THEN wins[u] + 1 ELSE TriedAfter
    OBVIOUS
  <2>2. wins' = [wins EXCEPT ![u] = n] /\ seen' = Refreshed(u) /\ fails' = fails
    BY <1>3, <2>1 DEF MarkSuccess
  <2>3. n \in 0 .. TriedAfter
    BY <2>1
  <2>4. IsInjective(seen')
    BY <1>0, <2>2, RefreshedOnce
  <2> QED BY <2>2, <2>3, <2>4
<1>4. ASSUME NEW u \in Urls, MarkFailure(u) PROVE CountsInv'
  <2>1. IsInjective(seen')
    BY <1>0, <1>4, RefreshedOnce DEF MarkFailure
  <2>2. wins' \in [Urls -> 0 .. TriedAfter]
    BY <1>4 DEF MarkFailure
  <2>3. fails' \in [Urls -> 0 .. ForgetAfter]
    <3>1. PICK n : n = IF fails[u] + 1 >= ForgetAfter THEN 0 ELSE fails[u] + 1
      OBVIOUS
    <3>2. n \in 0 .. ForgetAfter
      BY <3>1
    <3>3. fails' = [fails EXCEPT ![u] = n]
      BY <1>4, <3>1 DEF MarkFailure
    <3> QED BY <3>2, <3>3
  <2> QED BY <2>1, <2>2, <2>3
<1>5. ASSUME NEW u \in Urls,
             AddPeer(u) \/ Visit(u) \/ \E b \in Behaviours : RecordPeerBehavior(u, b)
      PROVE  CountsInv'
  BY <1>1, <1>2, <1>5 DEF AddPeer, Visit, RecordPeerBehavior
<1>6. ASSUME \/ \E k \in {"probe", "tx", "sync"} : StartRound(k)
             \/ Probe \/ BroadcastTransaction \/ SyncWithPeers \/ EndRound \/ RoundDies
             \/ UNCHANGED pvars
      PROVE  CountsInv'
  <2>1. UNCHANGED addresses
    BY <1>6 DEF StartRound, Probe, BroadcastTransaction, SyncWithPeers, EndRound, RoundDies,
                Heard, pvars
  <2> QED BY <1>1, <2>1
<1> QED
  BY <1>3, <1>4, <1>5, <1>6 DEF PeersNext, ScoresNext, AddressesNext

\* A round keeps who it started with, and meets and waits for peers.
LEMMA RoundRecord ==
  ASSUME NEW r \in Round, r # NoRound
  PROVE  /\ r.kind \in {"probe", "tx", "sync"} /\ r.start \in SUBSET Urls /\ r.size \in Nat
         /\ r.done \in SUBSET Urls /\ r.at \in Urls \cup {NoUrl}
         /\ \A u \in Urls : [r EXCEPT !.done = @ \cup {u}, !.at = u] \in Round
         /\ [r EXCEPT !.at = NoUrl] \in Round
<1>1. r \in [kind : {"probe", "tx", "sync"}, start : SUBSET Urls, size : Nat,
             done : SUBSET Urls, at : Urls \cup {NoUrl}]
  BY DEF Round
<1>2. ASSUME NEW u \in Urls PROVE [r EXCEPT !.done = @ \cup {u}, !.at = u] \in Round
  <2>1. [r EXCEPT !.done = @ \cup {u}, !.at = u]
          \in [kind : {"probe", "tx", "sync"}, start : SUBSET Urls, size : Nat,
               done : SUBSET Urls, at : Urls \cup {NoUrl}]
    BY <1>1
  <2> QED BY <2>1 DEF Round
<1>3. [r EXCEPT !.at = NoUrl] \in Round
  <2>1. [r EXCEPT !.at = NoUrl]
          \in [kind : {"probe", "tx", "sync"}, start : SUBSET Urls, size : Nat,
               done : SUBSET Urls, at : Urls \cup {NoUrl}]
    BY <1>1
  <2> QED BY <2>1 DEF Round
<1> QED BY <1>1, <1>2, <1>3

LEMMA RoundStep == ScoresInv /\ round \in Round /\ [PeersNext]_pvars => (round \in Round)'
<1> SUFFICES ASSUME ScoresInv, round \in Round, [PeersNext]_pvars PROVE round' \in Round
  OBVIOUS
<1>0. NoRound \in Round /\ NoRound.kind = "none"
  BY DEF Round, NoRound
<1>1. ASSUME NEW u \in Urls,
             \/ AddPeer(u) \/ MarkSuccess(u) \/ MarkFailure(u)
             \/ \E b \in Behaviours : RecordPeerBehavior(u, b)
      PROVE  round' \in Round
  BY <1>1 DEF AddPeer, MarkSuccess, MarkFailure, RecordPeerBehavior
<1>2. ASSUME NEW u \in Urls, Visit(u) PROVE round' \in Round
  BY <1>2, RoundRecord DEF Visit
<1>3. ASSUME NEW k \in {"probe", "tx", "sync"}, StartRound(k) PROVE round' \in Round
  <2>1. PICK P, n : P = peers /\ n = Cardinality(peers)
    OBVIOUS
  <2>2. P \subseteq Urls /\ n \in Nat
    BY <2>1, FS_CardinalityType DEF ScoresInv
  <2>3. round' = [kind |-> k, start |-> P, size |-> n, done |-> {}, at |-> NoUrl]
    BY <1>3, <2>1 DEF StartRound
  <2> QED BY <2>2, <2>3 DEF Round
<1>4. ASSUME NEW k \in {"probe", "tx", "sync"}, Heard(k) PROVE round' \in Round
  <2>1. round.kind = k /\ k # "none"
    BY <1>4 DEF Heard
  <2>2. round # NoRound
    BY <1>0, <2>1
  <2> QED BY <1>4, <2>2, RoundRecord DEF Heard
<1>5. CASE EndRound \/ RoundDies \/ UNCHANGED pvars
  BY <1>0, <1>5 DEF EndRound, RoundDies, pvars
<1>6. CASE Probe \/ BroadcastTransaction \/ SyncWithPeers
  <2>1. \E k \in {"probe", "tx", "sync"} : Heard(k)
    BY <1>6 DEF Probe, BroadcastTransaction, SyncWithPeers
  <2> QED BY <1>4, <2>1
<1> QED
  BY <1>1, <1>2, <1>3, <1>5, <1>6 DEF PeersNext, ScoresNext, AddressesNext

LEMMA PeersTypesHold == PeersSpec => []PeersTypeOK
<1>1. PeersInit => CountsInv /\ round \in Round
  BY PeersAssumption DEF PeersInit, CountsInv, Round, IsInjective
<1>2. ScoresInv /\ AddressesInv /\ CountsInv /\ round \in Round => PeersTypeOK
  BY KnownIsFinite, ElementsOf DEF ScoresInv, AddressesInv, CountsInv, PeersTypeOK, Known
<1>3. ScoresInv /\ [PeersNext]_pvars => ScoresInv'
  BY ScoresStep
<1> QED
  BY <1>1, <1>2, <1>3, ScoresInit, AddressesInit, AddressesStep, CountsStep, RoundStep, PTL
     DEF PeersSpec

\* What a caller starts is a contract, and it starts MaxCalls at the most.
CallsInv ==
    /\ code \in Contracts \cup {<<>>} /\ calls \in 0 .. MaxCalls
    /\ answer \in {"none", "success", "failure", "raised"}

LEMMA CallsStep == CallsInv /\ [MachineNext]_mvars => CallsInv'
<1> SUFFICES ASSUME CallsInv, [MachineNext]_mvars PROVE CallsInv'
  OBVIOUS
<1> USE MachineAssumption DEF CallsInv
<1>1. ASSUME NEW c \in Contracts, NEW a \in Addresses, CallContract(c, a) PROVE CallsInv'
  BY <1>1 DEF CallContract
<1>2. CASE Push \/ Compute \/ Hash \/ LoadWord \/ Jump \/ PushAddress \/ Stop \/ Pass
           \/ UNCHANGED mvars
  BY <1>2 DEF Push, Compute, Hash, LoadWord, Jump, PushAddress, Stop, Pass, mvars
<1>3. CASE StoreWord
  BY <1>3 DEF StoreWord, RaiseTaking
<1>4. CASE Balance
  BY <1>4 DEF Balance, RaiseTaking
<1>5. CASE High \/ Report
  BY <1>5 DEF High, Raise, Report
<1> QED BY <1>1, <1>2, <1>3, <1>4, <1>5 DEF MachineNext

LEMMA MachineTypesHold == MachineSpec => []MachineTypeOK
<1>1. MachineInit => CallsInv
  BY MachineAssumption DEF MachineInit, CallsInv
<1>2. MachineInv /\ CallsInv => MachineTypeOK
  BY DEF MachineInv, CallsInv, MachineTypeOK
<1> QED BY <1>1, <1>2, MachineStart, MachineStep, CallsStep, PTL DEF MachineSpec

\* What is put on the stack: byte strings, numbers spelled with bytes, 0 and 1.
Element == [int : BOOLEAN, bytes : Seq(0 .. Byte - 1)]

LEMMA BytesAreElements == ASSUME NEW b \in Seq(0 .. Byte - 1) PROVE Bytes(b) \in Element
  BY DEF Bytes, Element

LEMMA DigitIsAByte ==
  ASSUME NEW v \in Int, NEW b \in Nat \ {0}, NEW k \in Nat
  PROVE  (v \div b ^ k) % b \in 0 .. b - 1
OBVIOUS

LEMMA NumbersAreElements == ASSUME NEW v \in Int, NEW width \in Nat PROVE Little(v, width) \in Element
<1>1. ASSUME NEW k \in 1 .. width PROVE (v \div Byte ^ (k - 1)) % Byte \in 0 .. Byte - 1
  <2>1. PICK j : j = k - 1
    OBVIOUS
  <2>2. j \in Nat /\ Byte \in Nat \ {0}
    BY <2>1, ScriptAssumption
  <2>3. (v \div Byte ^ j) % Byte \in 0 .. Byte - 1
    BY <2>2, DigitIsAByte
  <2> QED BY <2>1, <2>3
<1>2. PICK b : b = [k \in 1 .. width |-> (v \div Byte ^ (k - 1)) % Byte]
  OBVIOUS
<1>3. b \in [1 .. width -> 0 .. Byte - 1]
  BY <1>1, <1>2
<1>4. PICK S : S = 0 .. Byte - 1
  OBVIOUS
<1>5. b \in Seq(S)
  BY <1>3, <1>4, SeqDef
<1>6. b \in Seq(0 .. Byte - 1)
  BY <1>4, <1>5
<1> QED BY <1>2, <1>6, BytesAreElements DEF Little

LEMMA TruthsAreElements == Integer(0) \in Element /\ Integer(1) \in Element
<1>1. 0 \in 0 .. Byte - 1 /\ 1 \in 0 .. Byte - 1
  BY ScriptAssumption
<1>2. <<0>> \in Seq(0 .. Byte - 1) /\ <<1>> \in Seq(0 .. Byte - 1)
  BY <1>1
<1> QED BY <1>2 DEF Integer, Element

ScriptTyped ==
    /\ stack \in Seq(Element)
    /\ verdict \in {"running", "true", "false", "raised"} /\ equals \in BOOLEAN

\* A step takes operands, and puts elements in their place.
LEMMA TypedWhenPut ==
  ASSUME ScriptTyped, NEW n \in Nat, n <= Height,
         verdict' \in {"running", "true", "false", "raised"}, equals' \in BOOLEAN,
         \/ stack' = Below(n)
         \/ \E e \in Element : stack' = Append(Below(n), e)
  PROVE  ScriptTyped'
<1>1. Below(n) \in Seq(Element)
  BY OperandsTaken DEF ScriptTyped
<1>2. stack' \in Seq(Element)
  BY <1>1
<1> QED BY <1>2 DEF ScriptTyped, Element

LEMMA ScriptTypedStep == ScriptTyped /\ [ScriptNext]_scvars => ScriptTyped'
<1> SUFFICES ASSUME ScriptTyped, [ScriptNext]_scvars PROVE ScriptTyped'
  OBVIOUS
<1>0. /\ Height \in Nat /\ Below(0) = stack /\ stack \in Seq(Element)
      /\ verdict \in {"running", "true", "false", "raised"} /\ equals \in BOOLEAN
      /\ Short \in Nat /\ Wide \in Nat
  BY ScriptAssumption DEF ScriptTyped, Height, Below
<1>1. /\ Height >= 1 => Top(1) \in Element /\ Below(1) \in Seq(Element)
      /\ Height >= 2 => Top(2) \in Element /\ Below(2) \in Seq(Element)
  BY <1>0, OperandsTaken
<1>2. CASE PushItem
  <2>1. PICK b \in Items : stack' = Append(Below(0), Bytes(b)) /\ UNCHANGED <<verdict, equals>>
    BY <1>0, <1>2 DEF PushItem, Continue
  <2>2. Bytes(b) \in Element
    BY ScriptAssumption, BytesAreElements
  <2> QED BY <1>0, <2>1, <2>2, TypedWhenPut
<1>3. CASE Shuffle
  <2>1. UNCHANGED <<verdict, equals>>
    BY <1>3 DEF Shuffle, Continue
  <2>2. ASSUME stack' \in Seq(Element) PROVE ScriptTyped'
    BY <1>0, <2>1, <2>2 DEF ScriptTyped, Element
  <2>3. CASE \/ Height >= 1 /\ Continue(Append(stack, Top(1)))
             \/ Height >= 2 /\ Continue(Append(stack, Top(2)))
    <3>1. \E e \in Element : stack' = Append(Below(0), e)
      BY <1>0, <1>1, <2>3 DEF Continue
    <3> QED BY <1>0, <2>1, <3>1, TypedWhenPut
  <2>4. CASE \/ Height >= 1 /\ Continue(Below(1))
             \/ Height >= 2 /\ Continue(Below(2))
    BY <1>1, <2>2, <2>4 DEF Continue
  <2>5. CASE Height >= 2 /\ Continue(Below(2) \o <<Top(1), Top(2)>>)
    <3>0. Below(2) \in Seq(Element) /\ Top(1) \in Element /\ Top(2) \in Element
      BY <1>0, <1>1, <2>5
    <3>1. PICK p, a, b : p = Below(2) /\ a = Top(1) /\ b = Top(2)
      OBVIOUS
    <3>2. p \o <<a, b>> \in Seq(Element)
      BY <3>0, <3>1
    <3> QED BY <2>2, <2>5, <3>1, <3>2 DEF Continue
  <2>6. CASE Height >= 2 /\ Continue(stack \o <<Top(2), Top(1)>>)
    <3>0. stack \in Seq(Element) /\ Top(1) \in Element /\ Top(2) \in Element
      BY <1>0, <1>1, <2>6
    <3>1. PICK p, a, b : p = stack /\ a = Top(1) /\ b = Top(2)
      OBVIOUS
    <3>2. p \o <<b, a>> \in Seq(Element)
      BY <3>0, <3>1
    <3> QED BY <2>2, <2>6, <3>1, <3>2 DEF Continue
  <2>7. CASE Continue(Append(stack, Little(Height, Short)))
    <3>1. Little(Height, Short) \in Element
      BY <1>0, NumbersAreElements
    <3>2. \E e \in Element : stack' = Append(Below(0), e)
      BY <1>0, <2>7, <3>1 DEF Continue
    <3> QED BY <1>0, <2>1, <3>2, TypedWhenPut
  <2> QED
    BY <1>3, <2>3, <2>4, <2>5, <2>6, <2>7 DEF Shuffle
<1>4. CASE Arithmetic
  <2>1. \E n \in {1, 2} :
          /\ Height >= n /\ verdict' \in {"running", "raised"} /\ equals' = equals
          /\ \/ stack' = Below(n) \/ stack' = Below(1)
             \/ \E v \in Int : stack' = Append(Below(n), Little(v, Wide))
    BY <1>0, <1>4 DEF Arithmetic, Continue, End, Interpreting
  <2>2. PICK n \in {1, 2} :
          /\ Height >= n /\ verdict' \in {"running", "raised"} /\ equals' = equals
          /\ \/ stack' = Below(n) \/ stack' = Below(1)
             \/ \E e \in Element : stack' = Append(Below(n), e)
    BY <1>0, <2>1, NumbersAreElements
  <2> QED BY <1>0, <2>2, TypedWhenPut
<1>5. CASE Logic
  <2>1. /\ Height >= 2 /\ verdict' \in {"running", "raised"} /\ equals' = equals
        /\ \/ stack' = Below(2) \/ stack' = Below(1)
           \/ \E v \in Int : stack' = Append(Below(2), Little(v, Wide))
    BY <1>0, <1>5 DEF Logic, Continue, End, Interpreting
  <2>2. \/ stack' = Below(2) \/ stack' = Below(1)
        \/ \E e \in Element : stack' = Append(Below(2), e)
    BY <1>0, <2>1, NumbersAreElements
  <2> QED BY <1>0, <2>1, <2>2, TypedWhenPut
<1>6. CASE Equal
  <2>1. \E e \in Element : stack' = Append(Below(2), e)
    BY <1>6, TruthsAreElements DEF Equal
  <2>2. Height >= 2 /\ verdict' = verdict /\ equals' \in BOOLEAN
    BY <1>0, <1>6 DEF Equal
  <2> QED BY <1>0, <2>1, <2>2, TypedWhenPut
<1>7. CASE Verify
  <2>1. PICK n \in {1, 2} : /\ Height >= n /\ stack' = Below(n) /\ equals' = equals
                            /\ verdict' \in {"running", "true", "false", "raised"}
    BY <1>0, <1>7 DEF Verify, Continue, End
  <2> QED BY <1>0, <2>1, TypedWhenPut
<1>8. CASE Digest
  <2>1. \/ stack' = Below(1)
        \/ \E d \in Digests : stack' = Append(Below(1), Bytes(d))
    BY <1>8 DEF Digest, Continue, End
  <2>2. \/ stack' = Below(1)
        \/ \E e \in Element : stack' = Append(Below(1), e)
    BY <2>1, ScriptAssumption, BytesAreElements
  <2>3. /\ Height >= 1 /\ equals' = equals
        /\ verdict' \in {"running", "true", "false", "raised"}
    BY <1>0, <1>8 DEF Digest, Continue, End
  <2> QED BY <1>0, <2>2, <2>3, TypedWhenPut
<1>9. CASE Size
  <2>1. /\ Height >= 1 /\ equals' = equals
        /\ verdict' \in {"running", "true", "false", "raised"}
        /\ \/ stack' = Below(0)
           \/ stack' = Append(Below(0), Little(Len(Top(1).bytes), Short))
    BY <1>0, <1>9 DEF Size, Continue, End
  <2>2. Len(Top(1).bytes) \in Nat
    <3>1. PICK e \in Element : e = Top(1)
      BY <1>1, <2>1
    <3>2. e.bytes \in Seq(0 .. Byte - 1)
      BY DEF Element
    <3>3. Len(e.bytes) \in Nat
      BY <3>2
    <3> QED BY <3>1, <3>3
  <2>3. Little(Len(Top(1).bytes), Short) \in Element
    BY <1>0, <2>2, NumbersAreElements
  <2> QED BY <1>0, <2>1, <2>3, TypedWhenPut
<1>10. CASE ReturnFalse \/ ScriptEnds
  BY <1>0, <1>10 DEF ReturnFalse, ScriptEnds, End, ScriptTyped, Element
<1>11. CASE UNCHANGED scvars
  BY <1>0, <1>11 DEF scvars, ScriptTyped, Element
<1> QED
  BY <1>2, <1>3, <1>4, <1>5, <1>6, <1>7, <1>8, <1>9, <1>10, <1>11 DEF ScriptNext

LEMMA ScriptTypesHold == ScriptSpec => []ScriptTypeOK
<1>0. << >> \in Seq(Element)
  OBVIOUS
<1>1. ScriptInit => ScriptTyped
  BY <1>0 DEF ScriptInit, ScriptTyped, Element
<1>2. ScriptTyped => ScriptTypeOK
  BY DEF ScriptTyped, ScriptTypeOK, Element
<1> QED BY <1>1, <1>2, ScriptTypedStep, PTL DEF ScriptSpec

-----------------------------------------------------------------------------
(***************************************************************************)
(* The parts side by side                                                  *)
(***************************************************************************)

(* Only the part in focus moves, and so what is true of every behaviour of   *)
(* one part is true of it beside the others: the P2P modules, the script and *)
(* contract interpreters, the schema and the process manager share no state. *)
THEOREM PartsMoveAlone ==
    NodeSpec => /\ SchemaSpec /\ BlockSyncSpec /\ PeersSpec /\ InventorySpec
                /\ ServerSpec /\ ShutdownSpec /\ ScriptSpec /\ MachineSpec
                /\ HeadersSpec /\ CompactSpec /\ ExplorerSpec
<1>1. NodeInit => /\ SchemaInit /\ BlockSyncInit /\ PeersInit /\ InventoryInit
                  /\ ServerInit /\ ShutdownInit /\ ScriptInit /\ MachineInit
                  /\ HeadersInit /\ CompactInit /\ ExplorerInit
  BY DEF NodeInit
<1>2. [NodeNext]_<<focus, Stores, Directory, Process, Machines, Relay>> =>
          /\ [SchemaNext]_svars /\ [BlockSyncNext]_bvars /\ [PeersNext]_pvars
          /\ [InventoryNext]_ivars /\ [ServerNext]_svvars /\ [ShutdownNext]_sdvars
          /\ [ScriptNext]_scvars /\ [MachineNext]_mvars /\ [HeadersNext]_hvars
          /\ [CompactNext]_cbvars /\ [ExplorerNext]_evars
  BY DEF NodeNext, PeersNext, Stores, Directory, Process, Machines, Relay
<1> QED
  BY <1>1, <1>2, PTL
     DEF NodeSpec, SchemaSpec, BlockSyncSpec, PeersSpec, InventorySpec, ServerSpec, ShutdownSpec,
         ScriptSpec, MachineSpec, HeadersSpec, CompactSpec, ExplorerSpec

(* Each part has its types, whatever the peers, the callers and the scripts  *)
(* of it are: the scores, rounds and tables of addresses, the requests and   *)
(* their answers, the stacks of the interpreters, the rows of the store.     *)
THEOREM NodePartsAreTyped == NodeSpec => []NodeTypeOK
<1>1. ShutdownSpec => []ShutdownTypeOK
  <2>1. ShutdownInv => ShutdownTypeOK
    BY DEF ShutdownInv
  <2> QED BY <2>1, ShutdownInitInv, ShutdownStepInv, PTL DEF ShutdownSpec
<1>2. HeadersSpec => []HeadersTypeOK
  <2>1. FetchedInv => HeadersTypeOK
    BY DEF FetchedInv
  <2> QED BY <2>1, FetchedInit, FetchedStep, PTL DEF HeadersSpec
<1> QED
  BY <1>1, <1>2, PartsMoveAlone, SchemaTypesHold, DownloadTypesHold, PeersTypesHold,
     InventoryTypesHold, ServerTypesHold, ScriptTypesHold, MachineTypesHold,
     CompactTypesHold, ExplorerTypesHold, PTL DEF NodeTypeOK
=============================================================================
