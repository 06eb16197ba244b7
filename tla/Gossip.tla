------------------------------- MODULE Gossip -------------------------------
(***************************************************************************)
(* The gossip of transaction and block hashes (network/p2p_gossip.py).     *)
(* A node runs one thread for each incoming connection and two threads     *)
(* that drain the queues of received messages and of own announcements.    *)
(* All three relay, one peer after the other, each on a connection of its  *)
(* own that may fail without anybody trying again.  The peers of a node    *)
(* are the seeds it reached when it started.                               *)
(*                                                                         *)
(* An item is a transaction or a block hash: the two kinds have the same   *)
(* handler on separate sets.                                               *)
(***************************************************************************)
EXTENDS Naturals, FiniteSets, Sequences

CONSTANTS Nodes,            \* processes that call start()
          Seeds,            \* the nodes at the addresses in seed_nodes
          Items,            \* transaction and block hashes
          Client,           \* a program that is not a node
          Submissions,      \* <<node, item>>: messages clients send, once each
          Announcements,    \* <<node, item>>: broadcast_* calls, once each
          MaxThreads,       \* bound: threads past the check of one node
          MaxLosses,        \* bound: failed connections to a running peer
          MaxCrashes        \* bound: nodes that die

ASSUME GossipAssumption ==
    /\ Seeds \subseteq Nodes /\ IsFiniteSet(Seeds) /\ Client \notin Nodes
    /\ Submissions \subseteq Nodes \X Items
    /\ Announcements \subseteq Nodes \X Items
    /\ MaxThreads \in Nat \ {0} /\ MaxLosses \in Nat /\ MaxCrashes \in Nat

VARIABLES
    up,             \* nodes that run
    peers,          \* self.peers
    known,          \* self.known_tx, self.known_blocks
    inbox,          \* connections whose message is not processed yet
    checked,        \* those whose hash was not known when the thread looked
    queue,          \* self.message_queue
    broadcasts,     \* self.broadcast_queue
    relays,         \* calls of _relay_to_peers at work: peers still to do
    accepted,       \* history: times the item was queued since the start
    told,           \* history: submissions and announcements made
    losses,         \* failed connections so far
    crashes         \* nodes that died so far

memory == <<peers, known, inbox, checked, queue, broadcasts, relays, accepted>>
history == <<told, losses, crashes>>
vars == <<up, memory, history>>

\* "copy" tells the repeated acceptances of one item apart.
Copies == 0 .. MaxThreads
Queued == [item : Items, copy : Copies]
Message == [from : Nodes \cup {Client}, via : {"client", "handler", "gossip", "broadcast"},
            item : Items, copy : Copies]
Relay == [via : {"handler", "gossip", "broadcast"}, item : Items, copy : Copies,
          todo : SUBSET Seeds]

TypeOK ==
    /\ up \in SUBSET Nodes
    /\ peers \in [Nodes -> SUBSET Seeds]
    /\ known \in [Nodes -> SUBSET Items]
    /\ inbox \in [Nodes -> SUBSET Message]
    /\ checked \in [Nodes -> SUBSET Message]
    /\ queue \in [Nodes -> Seq(Queued)]
    /\ broadcasts \in [Nodes -> Seq(Items)]
    /\ relays \in [Nodes -> SUBSET Relay]
    /\ accepted \in [Nodes -> [Items -> Copies]]
    /\ told \in SUBSET ({"submit", "announce"} \X Nodes \X Items)
    /\ losses \in 0 .. MaxLosses
    /\ crashes \in 0 .. MaxCrashes

Init ==
    /\ up = {}
    /\ peers = [n \in Nodes |-> {}]
    /\ known = [n \in Nodes |-> {}]
    /\ inbox = [n \in Nodes |-> {}]
    /\ checked = [n \in Nodes |-> {}]
    /\ queue = [n \in Nodes |-> <<>>]
    /\ broadcasts = [n \in Nodes |-> <<>>]
    /\ relays = [n \in Nodes |-> {}]
    /\ accepted = [n \in Nodes |-> [i \in Items |-> 0]]
    /\ told = {}
    /\ losses = 0
    /\ crashes = 0

-----------------------------------------------------------------------------
(* Processes and their clients                                               *)

\* _connect_to_seeds: one try for each seed; those at running are reachable.
Learn(n, running) ==
    \E S \in SUBSET (Seeds \cap running) :
        /\ peers' = [peers EXCEPT ![n] = S]
        /\ losses' = losses + Cardinality((Seeds \cap running) \ S)
        /\ losses' <= MaxLosses

\* start: the server listens before the seeds are tried.
Start(n) ==
    /\ n \notin up
    /\ up' = up \cup {n}
    /\ Learn(n, up \cup {n})
    /\ UNCHANGED <<known, inbox, checked, queue, broadcasts, relays, accepted, told, crashes>>

\* The process dies: everything is in memory.
Crash(n) ==
    /\ n \in up
    /\ crashes < MaxCrashes
    /\ crashes' = crashes + 1
    /\ up' = up \ {n}
    /\ peers' = [peers EXCEPT ![n] = {}]
    /\ known' = [known EXCEPT ![n] = {}]
    /\ inbox' = [inbox EXCEPT ![n] = {}]
    /\ checked' = [checked EXCEPT ![n] = {}]
    /\ queue' = [queue EXCEPT ![n] = <<>>]
    /\ broadcasts' = [broadcasts EXCEPT ![n] = <<>>]
    /\ relays' = [relays EXCEPT ![n] = {}]
    /\ accepted' = [accepted EXCEPT ![n] = [i \in Items |-> 0]]
    /\ UNCHANGED <<told, losses>>

\* A client connects and sends a message of type "tx" or "block".
Submit(n, i) ==
    /\ n \in up
    /\ <<n, i>> \in Submissions
    /\ <<"submit", n, i>> \notin told
    /\ told' = told \cup {<<"submit", n, i>>}
    /\ inbox' = [inbox EXCEPT ![n] = @ \cup
                   {[from |-> Client, via |-> "client", item |-> i, copy |-> 0]}]
    /\ UNCHANGED <<up, peers, known, checked, queue, broadcasts, relays, accepted, losses, crashes>>

\* broadcast_transaction and broadcast_block: the node does not add the hash
\* to its own known set.
Announce(n, i) ==
    /\ n \in up
    /\ <<n, i>> \in Announcements
    /\ <<"announce", n, i>> \notin told
    /\ told' = told \cup {<<"announce", n, i>>}
    /\ broadcasts' = [broadcasts EXCEPT ![n] = Append(@, i)]
    /\ UNCHANGED <<up, peers, known, inbox, checked, queue, relays, accepted, losses, crashes>>

-----------------------------------------------------------------------------
(* The connection threads: _process_message                                  *)

\* broadcast_* queue the JSON text of a message and _relay_to_peers encodes it
\* once more: what arrives is a string, and data.get raises.
Unreadable(m) == m.via = "broadcast"

\* Mutant: duplicates are not ignored.
ReceiveAgain(n, m) ==
    /\ m \in inbox[n]
    /\ inbox' = [inbox EXCEPT ![n] = @ \ {m}]
    /\ \/ Unreadable(m) /\ UNCHANGED checked
       \/ /\ ~Unreadable(m)
          /\ Cardinality(checked[n]) < MaxThreads
          /\ checked' = [checked EXCEPT ![n] = @ \cup {m}]
    /\ UNCHANGED <<up, peers, known, queue, broadcasts, relays, accepted, history>>

\* Decode the message and look the hash up.
Receive(n, m) ==
    /\ m \in inbox[n]
    /\ inbox' = [inbox EXCEPT ![n] = @ \ {m}]
    /\ \/ /\ Unreadable(m) \/ m.item \in known[n]
          /\ UNCHANGED checked
       \/ /\ ~Unreadable(m) /\ m.item \notin known[n]
          /\ Cardinality(checked[n]) < MaxThreads
          /\ checked' = [checked EXCEPT ![n] = @ \cup {m}]
    /\ UNCHANGED <<up, peers, known, queue, broadcasts, relays, accepted, history>>

\* A call of _relay_to_peers, which copies the peers first.
Call(n, v, i, k) ==
    IF peers[n] = {} THEN {} ELSE {[via |-> v, item |-> i, copy |-> k, todo |-> peers[n]]}

\* More than MaxThreads copies are not told apart.
OneMore(k) == IF k > MaxThreads THEN k ELSE k + 1

\* Mutant: the hash is queued for the gossip loop but not relayed at once.
AcceptQueueOnly(n, m) ==
    /\ m \in checked[n]
    /\ checked' = [checked EXCEPT ![n] = @ \ {m}]
    /\ known' = [known EXCEPT ![n] = @ \cup {m.item}]
    /\ accepted' = [accepted EXCEPT ![n][m.item] = OneMore(@)]
    /\ LET k == OneMore(accepted[n][m.item])
       IN queue' = [queue EXCEPT ![n] = Append(@, [item |-> m.item, copy |-> k])]
    /\ UNCHANGED <<up, peers, inbox, broadcasts, relays, history>>

\* Add the hash, queue the message, relay it.
Accept(n, m) ==
    /\ m \in checked[n]
    /\ checked' = [checked EXCEPT ![n] = @ \ {m}]
    /\ known' = [known EXCEPT ![n] = @ \cup {m.item}]
    /\ accepted' = [accepted EXCEPT ![n][m.item] = OneMore(@)]
    /\ LET k == OneMore(accepted[n][m.item])
       IN /\ queue' = [queue EXCEPT ![n] = Append(@, [item |-> m.item, copy |-> k])]
          /\ relays' = [relays EXCEPT ![n] = @ \cup Call(n, "handler", m.item, k)]
    /\ UNCHANGED <<up, peers, inbox, broadcasts, history>>

-----------------------------------------------------------------------------
(* The queue threads, each in at most one relay at a time                    *)

Busy(n, v) == \E r \in relays[n] : r.via = v

\* Mutant: the loop looks at the head of the queue and leaves it there.
GossipLoopPeek(n) ==
    /\ queue[n] # <<>> /\ ~Busy(n, "gossip")
    /\ relays' = [relays EXCEPT ![n] =
         @ \cup Call(n, "gossip", Head(queue[n]).item, Head(queue[n]).copy)]
    /\ UNCHANGED <<up, peers, known, inbox, checked, queue, broadcasts, accepted, history>>

GossipLoop(n) ==
    /\ queue[n] # <<>> /\ ~Busy(n, "gossip")
    /\ queue' = [queue EXCEPT ![n] = Tail(@)]
    /\ relays' = [relays EXCEPT ![n] =
         @ \cup Call(n, "gossip", Head(queue[n]).item, Head(queue[n]).copy)]
    /\ UNCHANGED <<up, peers, known, inbox, checked, broadcasts, accepted, history>>

\* Mutant: the announcement is encoded once, as received messages are.
BroadcastLoopReadable(n) ==
    /\ broadcasts[n] # <<>> /\ ~Busy(n, "broadcast")
    /\ broadcasts' = [broadcasts EXCEPT ![n] = Tail(@)]
    /\ relays' = [relays EXCEPT ![n] = @ \cup Call(n, "gossip", Head(broadcasts[n]), 0)]
    /\ UNCHANGED <<up, peers, known, inbox, checked, queue, accepted, history>>

BroadcastLoop(n) ==
    /\ broadcasts[n] # <<>> /\ ~Busy(n, "broadcast")
    /\ broadcasts' = [broadcasts EXCEPT ![n] = Tail(@)]
    /\ relays' = [relays EXCEPT ![n] = @ \cup Call(n, "broadcast", Head(broadcasts[n]), 0)]
    /\ UNCHANGED <<up, peers, known, inbox, checked, queue, accepted, history>>

\* One turn of _relay_to_peers: connect, send, close, or an exception that is
\* only logged.  A peer that does not run refuses the connection.
Send(n, r, p) ==
    /\ r \in relays[n] /\ p \in r.todo
    /\ relays' = [relays EXCEPT ![n] =
         (@ \ {r}) \cup (IF r.todo = {p} THEN {} ELSE {[r EXCEPT !.todo = @ \ {p}]})]
    /\ \/ /\ p \in up
          /\ inbox' = [inbox EXCEPT ![p] = @ \cup
               {[from |-> n, via |-> r.via, item |-> r.item, copy |-> r.copy]}]
          /\ UNCHANGED losses
       \/ p \notin up /\ UNCHANGED <<inbox, losses>>
       \/ /\ p \in up /\ losses < MaxLosses
          /\ losses' = losses + 1
          /\ UNCHANGED inbox
    /\ UNCHANGED <<up, peers, known, checked, queue, broadcasts, accepted, told, crashes>>

\* What the threads of a node do.
Work(n) ==
    \/ \E m \in inbox[n] : Receive(n, m)
    \/ \E m \in checked[n] : Accept(n, m)
    \/ GossipLoop(n) \/ BroadcastLoop(n)
    \/ \E r \in relays[n] : \E p \in r.todo : Send(n, r, p)

Next ==
    \E n \in Nodes :
        \/ Start(n) \/ Crash(n) \/ Work(n)
        \/ \E i \in Items : Submit(n, i) \/ Announce(n, i)

Spec == Init /\ [][Next]_vars

\* The threads run for as long as the process does, and every connection gives
\* up after five seconds.
FairSpec == Spec /\ \A n \in Nodes : WF_vars(Work(n))

-----------------------------------------------------------------------------
Checking(n, i) == {m \in checked[n] : m.item = i}

(* A node queues and relays one hash more than once only for connection      *)
(* threads that all looked it up before the first of them added it: as many  *)
(* times as threads can stand between the two lines, and never again.        *)
DuplicatesAreBounded ==
    \A n \in Nodes, i \in Items :
        accepted[n][i] + Cardinality(Checking(n, i)) <= MaxThreads

(* Whatever a node accepts, and whatever it relays as a readable message, a  *)
(* client has handed to some node: announcements of nodes spread nowhere.    *)
Submitted == {i \in Items : \E n \in Nodes : <<"submit", n, i>> \in told}
OnlyClientsAreHeard ==
    \A n \in Nodes :
        /\ known[n] \subseteq Submitted
        /\ \A m \in inbox[n] \cup checked[n] : ~Unreadable(m) => m.item \in Submitted

(* Every accepted message is relayed twice, by the thread that received it   *)
(* and by the gossip loop, so one failed connection never keeps it from a    *)
(* peer of a node that has it.                                               *)
SpreadsDespiteALoss ==
    \A n \in Nodes, p \in Seeds, i \in Items :
        i \in known[n] /\ p \in peers[n]
            ~> i \in known[p] \/ losses > 1 \/ crashes > 0

(* Every behaviour becomes quiet: relaying to peers that relay back, to the  *)
(* node itself among them, ends with the known sets, even after restarts.    *)
Quiet ==
    \A n \in Nodes :
        /\ inbox[n] = {} /\ checked[n] = {} /\ relays[n] = {}
        /\ queue[n] = <<>> /\ broadcasts[n] = <<>>
NoStorm == <>[]Quiet

(* "Start P2P gossip for transaction/block broadcasting" (run_node.py:106):  *)
(* a hash a node announces reaches the peers it is connected to.             *)
AnnouncementsArrive ==
    \A n \in Nodes, p \in Seeds, i \in Items :
        <<"announce", n, i>> \in told /\ p \in peers[n]
            ~> i \in known[p] \/ losses > 0 \/ crashes > 0
=============================================================================
