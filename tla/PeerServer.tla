------------------------------ MODULE PeerServer ------------------------------
(***************************************************************************)
(* The listening side of a node, src/network/p2p_server.py: one accept     *)
(* thread with a limit of Limit (10) connections per address in Window     *)
(* (60) seconds, one handler thread per connection, and the set of         *)
(* addresses the broadcasts and the peer count look at.                    *)
(***************************************************************************)
EXTENDS Integers, Sequences, Selection

CONSTANTS Ips, Limit, Window,
          MaxClock,     \* bound on the clock
          MaxOpen       \* bound on the connections open at once

ASSUMPTION ServerAssumption ==
    /\ Limit \in Nat \ {0} /\ Window \in Nat \ {0} /\ MaxClock \in Nat /\ MaxOpen \in Nat

VARIABLES
    running,    \* "no", "yes" (self.running) or "stopped"
    counts,     \* per address: the times kept by the limiter, oldest first
    peerSet,    \* self.peers
    handlers,   \* per address: handler threads
    admitting,  \* the address between peers.add and the start of its thread
    seconds,
    admitted,   \* history: the times of every connection admitted
    overlapped, \* history: a connection came while another was handled
    threadless  \* history: a thread could not be started for the address

svvars == <<running, counts, peerSet, handlers, admitting, seconds, admitted, overlapped, threadless>>

ServerTypeOK ==
    /\ running \in {"no", "yes", "stopped"}
    /\ counts \in [Ips -> Seq(0 .. MaxClock)] /\ admitted \in [Ips -> Seq(0 .. MaxClock)]
    /\ peerSet \subseteq Ips /\ admitting \subseteq Ips
    /\ handlers \in [Ips -> 0 .. MaxOpen]
    /\ seconds \in 0 .. MaxClock
    /\ overlapped \subseteq Ips /\ threadless \subseteq Ips

ServerInit ==
    /\ running = "no" /\ seconds = 0
    /\ counts = [i \in Ips |-> <<>>] /\ admitted = [i \in Ips |-> <<>>]
    /\ peerSet = {} /\ handlers = [i \in Ips |-> 0] /\ admitting = {}
    /\ overlapped = {} /\ threadless = {}

-----------------------------------------------------------------------------
\* start_p2p: the socket is bound and the accept thread started; a bind that
\* fails leaves everything as it was.
StartServer ==
    /\ running = "no" /\ running' = "yes"
    /\ UNCHANGED <<counts, peerSet, handlers, admitting, seconds, admitted, overlapped, threadless>>

\* Mutant: the window is a second too short.
RecentOpen(i) == Selected(counts[i], {t \in 0 .. seconds : seconds - t < Window - 1})

\* The times of the address that are still inside the window.
Recent(i) == Selected(counts[i], {t \in 0 .. seconds : seconds - t < Window})

\* _is_rate_limited says yes: the connection is closed at once.
RefuseConnection(i) ==
    /\ running = "yes" /\ admitting = {} /\ Len(Recent(i)) >= Limit
    /\ counts' = [counts EXCEPT ![i] = Recent(i)]
    /\ UNCHANGED <<running, peerSet, handlers, admitting, seconds, admitted, overlapped, threadless>>

\* _is_rate_limited says no: the address joins the peers.
AdmitConnection(i) ==
    /\ running = "yes" /\ admitting = {} /\ Len(Recent(i)) < Limit /\ handlers[i] < MaxOpen
    /\ counts' = [counts EXCEPT ![i] = Append(Recent(i), seconds)]
    /\ admitted' = [admitted EXCEPT ![i] = Append(@, seconds)]
    /\ peerSet' = peerSet \cup {i} /\ admitting' = {i}
    /\ overlapped' = IF handlers[i] > 0 THEN overlapped \cup {i} ELSE overlapped
    /\ UNCHANGED <<running, handlers, seconds, threadless>>

\* The accept thread starts the handler, or the thread cannot be started and
\* the exception is swallowed.
StartHandler ==
    \E i \in admitting :
        /\ admitting' = {}
        /\ \/ /\ handlers' = [handlers EXCEPT ![i] = @ + 1]
              /\ UNCHANGED threadless
           \/ /\ threadless' = threadless \cup {i}
              /\ UNCHANGED handlers
        /\ UNCHANGED <<running, counts, peerSet, seconds, admitted, overlapped>>

\* Mutant: the handler does not take the address out of the peers.
EndHandlerSilently(i) ==
    /\ handlers[i] > 0
    /\ handlers' = [handlers EXCEPT ![i] = @ - 1]
    /\ overlapped' = IF handlers[i] = 1 THEN overlapped \ {i} ELSE overlapped
    /\ UNCHANGED <<running, counts, peerSet, admitting, seconds, admitted, threadless>>

\* A handler ends: the connection is closed or reset, a message is not an
\* object, the database of getheaders and getblocks raises, or the server
\* was stopped.  The address leaves the peers, whatever else is open from it.
\* A message that is answered (getheaders, getblocks, ping) changes nothing.
EndHandler(i) ==
    /\ handlers[i] > 0
    /\ handlers' = [handlers EXCEPT ![i] = @ - 1] /\ peerSet' = peerSet \ {i}
    /\ overlapped' = IF handlers[i] = 1 /\ i \notin admitting THEN overlapped \ {i} ELSE overlapped
    /\ UNCHANGED <<running, counts, admitting, seconds, admitted, threadless>>

\* stop: the flag is cleared and the listening socket closed; only the
\* shutdown calls it, and the process ends after it.
StopServer ==
    /\ running = "yes" /\ admitting = {} /\ running' = "stopped"
    /\ UNCHANGED <<counts, peerSet, handlers, admitting, seconds, admitted, overlapped, threadless>>

PassSecond ==
    /\ seconds < MaxClock /\ seconds' = seconds + 1
    /\ UNCHANGED <<running, counts, peerSet, handlers, admitting, admitted, overlapped, threadless>>

ServerNext ==
    \/ StartServer \/ StartHandler \/ StopServer \/ PassSecond
    \/ \E i \in Ips : RefuseConnection(i) \/ AdmitConnection(i) \/ EndHandler(i)

ServerSpec == ServerInit /\ [][ServerNext]_svvars

-----------------------------------------------------------------------------
\* An address counted as a peer has a handler, or is about to get one, unless
\* a thread could not be started for it; an address with a handler that is
\* not counted has had two connections at once, and one of them ended.
PeerSetMatches ==
    \A i \in Ips :
        /\ i \in peerSet => handlers[i] > 0 \/ i \in admitting \cup threadless
        /\ handlers[i] > 0 /\ i \notin peerSet => i \in overlapped

\* No Window seconds see more than Limit connections of one address admitted,
\* although the limiter forgets times as it goes.
RateIsKept ==
    \A i \in Ips : \A k \in 1 .. Len(admitted[i]) - Limit :
        admitted[i][k + Limit] - admitted[i][k] >= Window

\* The server's two records of its connections, the set of peers and the times
\* of the limiter, are what its connections were.
ServerKeepsCount == PeerSetMatches /\ RateIsKept
=============================================================================
