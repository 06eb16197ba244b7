----------------------------- MODULE Inventory ------------------------------
(***************************************************************************)
(* The inventory of announced blocks (core/inv_manager.py): connection     *)
(* threads add and complete requests and a cleanup thread removes expired  *)
(* ones from the same dictionary, without a lock.  What each peer was      *)
(* asked (peer_requests) only grows and nobody calls its one reader: it is *)
(* left out.                                                               *)
(***************************************************************************)
EXTENDS Integers, FiniteSets

CONSTANTS Threads,      \* connection threads
          Invs,         \* hashes announced
          Timeout,      \* inv_timeout
          MaxTime,      \* bound: the clock
          MaxAsked      \* bound: requests granted

ASSUME InventoryAssumption ==
    Timeout \in Nat /\ MaxTime \in Nat /\ MaxAsked \in Nat

VARIABLES
    requested,  \* requested_inv: the latest request of each hash, 0 without one
    received,   \* received_inv
    thread,     \* what each connection thread is doing
    cleaner,    \* the cleanup thread
    clock,
    asked,      \* the requests granted: their times are the values of the dictionary
    dropped     \* history: the requests the cleanup thread removed

ivars == <<requested, received, thread, cleaner, clock, asked, dropped>>

Pending == {h \in Invs : requested[h] # 0}
Since(h) == (CHOOSE a \in asked : a.id = requested[h]).at
Resting == [pc |-> "rest"]
Thread == {Resting} \cup [pc : {"unseen", "free", "got"}, inv : Invs, since : Nat]
\* The cleanup thread: asleep, iterating, deleting, or killed by an exception.
Cleaner == {Resting, [pc |-> "dead"]} \cup [pc : {"scan"}, size : Nat, at : Nat]
    \cup [pc : {"delete"}, expired : SUBSET Invs]
\* A request: when add_inv began and when it wrote, counted in requests.
Asked == [id : Nat, inv : Invs, at : Nat, since : Nat]

InventoryTypeOK ==
    /\ requested \in [Invs -> 0 .. MaxAsked]
    /\ received \subseteq Invs
    /\ thread \in [Threads -> Thread]
    /\ cleaner \in Cleaner
    /\ clock \in 0 .. MaxTime
    /\ asked \subseteq Asked /\ dropped \subseteq 1 .. MaxAsked

InventoryInit ==
    /\ requested = [h \in Invs |-> 0] /\ received = {}
    /\ thread = [t \in Threads |-> Resting] /\ cleaner = Resting
    /\ clock = 0 /\ asked = {} /\ dropped = {}

Steps(t, record) ==
    /\ thread' = [thread EXCEPT ![t] = record]
    /\ UNCHANGED <<cleaner, clock, dropped>>

\* add_inv, first test: not received yet.
AddInv(t, h) ==
    /\ thread[t] = Resting /\ h \notin received /\ Cardinality(asked) < MaxAsked
    /\ Steps(t, [pc |-> "unseen", inv |-> h, since |-> Cardinality(asked)])
    /\ UNCHANGED <<requested, received, asked>>

\* Mutant: the age of a request is not looked at.
FindFreeAlways(t) ==
    /\ thread[t].pc = "unseen"
    /\ Steps(t, [thread[t] EXCEPT !.pc = "free"])
    /\ UNCHANGED <<requested, received, asked>>

\* Second test: not asked for, or asked for too long ago ...
FindFree(t) ==
    LET h == thread[t].inv
    IN /\ thread[t].pc = "unseen"
       /\ h \in Pending => clock - Since(h) >= Timeout
       /\ Steps(t, [thread[t] EXCEPT !.pc = "free"])
       /\ UNCHANGED <<requested, received, asked>>

\* ... or asked for recently: the announcement is skipped.  (It is skipped too,
\* by a KeyError, when the request goes between the test and its age.)
Skip(t) ==
    /\ thread[t].pc = "unseen" /\ thread[t].inv \in Pending
    /\ clock - Since(thread[t].inv) < Timeout
    /\ Steps(t, Resting) /\ UNCHANGED <<requested, received, asked>>

Ask(t) ==
    LET h == thread[t].inv
    IN /\ thread[t].pc = "free" /\ Cardinality(asked) < MaxAsked
       /\ requested' = [requested EXCEPT ![h] = Cardinality(asked) + 1]
       /\ asked' = asked \cup {[id |-> Cardinality(asked) + 1, inv |-> h, at |-> clock,
                                since |-> thread[t].since]}
       /\ Steps(t, Resting) /\ UNCHANGED received

\* mark_received: the hash, then its request, if there is one when it looks and
\* still when it deletes (otherwise a KeyError ends the call).
MarkReceived(t, h) ==
    /\ thread[t] = Resting
    /\ received' = received \cup {h}
    /\ Steps(t, [pc |-> "got", inv |-> h, since |-> 0])
    /\ UNCHANGED <<requested, asked>>

Complete(t) ==
    /\ thread[t].pc = "got"
    /\ requested' = [requested EXCEPT ![thread[t].inv] = 0]
    /\ Steps(t, Resting) /\ UNCHANGED <<received, asked>>

-----------------------------------------------------------------------------
Wake ==
    /\ cleaner = Resting /\ Pending # {}
    /\ cleaner' = [pc |-> "scan", size |-> Cardinality(Pending), at |-> clock]
    /\ UNCHANGED <<requested, received, thread, clock, asked, dropped>>

\* Mutant: requests of the current time expire as well.
ScanAll ==
    /\ cleaner.pc = "scan"
    /\ cleaner' = IF Cardinality(Pending) = cleaner.size
                  THEN [pc |-> "delete", expired |-> {h \in Pending : Since(h) <= cleaner.at}]
                  ELSE [pc |-> "dead"]
    /\ UNCHANGED <<requested, received, thread, clock, asked, dropped>>

\* The comprehension over the dictionary: RuntimeError when its size changed.
Scan ==
    /\ cleaner.pc = "scan"
    /\ cleaner' = IF Cardinality(Pending) = cleaner.size
                  THEN [pc |-> "delete",
                        expired |-> {h \in Pending : cleaner.at - Since(h) > Timeout}]
                  ELSE [pc |-> "dead"]
    /\ UNCHANGED <<requested, received, thread, clock, asked, dropped>>

\* del of one expired request: KeyError when another thread was faster, although
\* the request may be a new one by now.
DeleteOne ==
    /\ cleaner.pc = "delete" /\ cleaner.expired # {}
    /\ \E h \in cleaner.expired :
         IF h \in Pending
         THEN /\ requested' = [requested EXCEPT ![h] = 0]
              /\ cleaner' = [cleaner EXCEPT !.expired = @ \ {h}]
              /\ dropped' = dropped \cup {requested[h]}
         ELSE cleaner' = [pc |-> "dead"] /\ UNCHANGED <<requested, dropped>>
    /\ UNCHANGED <<received, thread, clock, asked>>

Sleep ==
    /\ cleaner.pc = "delete" /\ cleaner.expired = {}
    /\ cleaner' = Resting
    /\ UNCHANGED <<requested, received, thread, clock, asked, dropped>>

Second ==
    /\ clock < MaxTime /\ clock' = clock + 1
    /\ UNCHANGED <<requested, received, thread, cleaner, asked, dropped>>

InventoryNext ==
    \/ \E t \in Threads :
         \/ \E h \in Invs : AddInv(t, h) \/ MarkReceived(t, h)
         \/ FindFree(t) \/ Skip(t) \/ Ask(t) \/ Complete(t)
    \/ Wake \/ Scan \/ DeleteOne \/ Sleep \/ Second

InventorySpec == InventoryInit /\ [][InventoryNext]_ivars

-----------------------------------------------------------------------------
(* "Prevent duplicate block downloads" (inv_manager.py:1): a hash is asked   *)
(* for again before its request timed out only by a thread that had begun    *)
(* before that request was written, or when the hash was received meanwhile, *)
(* or when the cleanup thread dropped the request or one that replaced it;   *)
(* and what it drops before its time replaced a request that had timed out.  *)
RepeatsHaveACause ==
    \A e, f \in asked :
        e.inv = f.inv /\ e.id < f.id /\ f.at - e.at < Timeout =>
            \/ f.since < e.id \/ e.inv \in received
            \/ \E d \in asked : /\ d.inv = e.inv /\ e.id <= d.id /\ d.id < f.id
                                /\ d.id \in dropped
EarlyDropsHaveACause ==
    \A e \in asked :
        e.id \in dropped /\ clock - e.at <= Timeout
            => \E d \in asked : d.inv = e.inv /\ d.id < e.id /\ clock - d.at > Timeout
AskedTwiceOverlaps == RepeatsHaveACause /\ EarlyDropsHaveACause
=============================================================================
