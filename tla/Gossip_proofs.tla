---------------------------- MODULE Gossip_proofs ----------------------------
(***************************************************************************)
(* Safety of Gossip for any nodes, seeds and items, any number of          *)
(* connection threads, losses and crashes.                                 *)
(*                                                                         *)
(* GossipInv adds to the properties what makes them inductive: an item is  *)
(* counted as accepted only while it is known, and everything a node has   *)
(* queued or is relaying in readable form is known to it.                  *)
(***************************************************************************)
EXTENDS Gossip, FiniteSetTheorems, TLAPS

FewChecked ==
    \A n \in Nodes : IsFiniteSet(checked[n]) /\ Cardinality(checked[n]) <= MaxThreads
CheckedIsReadable == \A n \in Nodes : \A m \in checked[n] : ~Unreadable(m)
AcceptedIsKnown == \A n \in Nodes, i \in Items : accepted[n][i] # 0 => i \in known[n]
RelayedIsKnown ==
    \A n \in Nodes :
        /\ \A k \in 1 .. Len(queue[n]) : queue[n][k].item \in known[n]
        /\ \A r \in relays[n] : r.via # "broadcast" => r.item \in known[n]

GossipInv ==
    /\ TypeOK
    /\ FewChecked
    /\ CheckedIsReadable
    /\ AcceptedIsKnown
    /\ RelayedIsKnown
    /\ DuplicatesAreBounded
    /\ OnlyClientsAreHeard

LEMMA GossipInit == Init => GossipInv
<1> SUFFICES ASSUME Init PROVE GossipInv
  OBVIOUS
<1>1. TypeOK
  BY GossipAssumption DEF Init, TypeOK, Copies
<1>2. FewChecked /\ AcceptedIsKnown /\ RelayedIsKnown
  BY GossipAssumption, FS_EmptySet DEF Init, FewChecked, AcceptedIsKnown, RelayedIsKnown
<1>3. DuplicatesAreBounded
  <2> SUFFICES ASSUME NEW n \in Nodes, NEW i \in Items
               PROVE  accepted[n][i] + Cardinality(Checking(n, i)) <= MaxThreads
    BY DEF DuplicatesAreBounded
  <2>1. Checking(n, i) = {} /\ accepted[n][i] = 0
    BY DEF Init, Checking
  <2> QED
    BY <2>1, FS_EmptySet, GossipAssumption
<1>4. OnlyClientsAreHeard
  BY DEF Init, OnlyClientsAreHeard
<1>5. CheckedIsReadable
  BY DEF Init, CheckedIsReadable
<1> QED
  BY <1>1, <1>2, <1>3, <1>4, <1>5 DEF GossipInv

(* The threads past the check, of one item, are few and finite. *)
LEMMA CheckingIsFinite ==
  ASSUME FewChecked, NEW n \in Nodes, NEW i \in Items
  PROVE  /\ IsFiniteSet(Checking(n, i))
         /\ Cardinality(Checking(n, i)) \in Nat
         /\ Cardinality(Checking(n, i)) <= MaxThreads
<1>1. Checking(n, i) \subseteq checked[n] /\ IsFiniteSet(checked[n])
  BY DEF Checking, FewChecked
<1>2. /\ IsFiniteSet(Checking(n, i))
      /\ Cardinality(Checking(n, i)) <= Cardinality(checked[n])
  BY <1>1, FS_Subset
<1> QED
  BY <1>1, <1>2, FS_CardinalityType, GossipAssumption DEF FewChecked

(* What a step needs to leave alone to keep the counts. *)
LEMMA CountsKept ==
  ASSUME GossipInv, UNCHANGED <<checked, accepted>>,
         \A n \in Nodes : known[n] \subseteq known'[n]
  PROVE  FewChecked' /\ CheckedIsReadable' /\ AcceptedIsKnown' /\ DuplicatesAreBounded'
<1>1. \A n \in Nodes, i \in Items : Checking(n, i)' = Checking(n, i)
  BY DEF Checking
<1> QED
  BY <1>1
  DEF GossipInv, FewChecked, CheckedIsReadable, Unreadable, AcceptedIsKnown, DuplicatesAreBounded

LEMMA StartStep ==
  ASSUME GossipInv, NEW n \in Nodes, Start(n)
  PROVE  GossipInv'
<1> USE DEF GossipInv
<1>1. PICK S \in SUBSET (Seeds \cap up') :
         /\ peers' = [peers EXCEPT ![n] = S]
         /\ losses' = losses + Cardinality((Seeds \cap up') \ S)
  BY DEF Start, Learn
<1>2. /\ UNCHANGED <<known, inbox, checked, queue, broadcasts, relays, accepted, told, crashes>>
      /\ up' = up \cup {n} /\ losses' <= MaxLosses
  BY DEF Start, Learn
<1>3. TypeOK'
  <2>1. losses' \in 0 .. MaxLosses
    <3>1. (Seeds \cap up') \ S \subseteq Seeds
      OBVIOUS
    <3>2. Cardinality((Seeds \cap up') \ S) \in Nat
      BY <3>1, FS_Subset, FS_CardinalityType, GossipAssumption
    <3> QED
      BY <1>1, <1>2, <3>2, GossipAssumption DEF TypeOK
  <2> QED
    BY <1>1, <1>2, <2>1 DEF TypeOK
<1>4. FewChecked' /\ CheckedIsReadable' /\ AcceptedIsKnown' /\ DuplicatesAreBounded'
  BY <1>2, CountsKept
<1>5. RelayedIsKnown' /\ OnlyClientsAreHeard'
  BY <1>2 DEF RelayedIsKnown, OnlyClientsAreHeard, Submitted, Unreadable
<1> QED
  BY <1>3, <1>4, <1>5

LEMMA CrashStep ==
  ASSUME GossipInv, NEW n \in Nodes, Crash(n)
  PROVE  GossipInv'
<1> USE DEF GossipInv
<1>1. TypeOK'
  <2>1. crashes' \in 0 .. MaxCrashes
    BY GossipAssumption DEF Crash, TypeOK
  <2>2. /\ up' \in SUBSET Nodes
        /\ accepted' \in [Nodes -> [Items -> Copies]]
    BY GossipAssumption DEF Crash, TypeOK, Copies
  <2> QED
    BY <2>1, <2>2 DEF Crash, TypeOK
<1>2. FewChecked' /\ CheckedIsReadable' /\ AcceptedIsKnown' /\ RelayedIsKnown'
  BY FS_EmptySet, GossipAssumption
  DEF Crash, TypeOK, FewChecked, CheckedIsReadable, Unreadable, AcceptedIsKnown, RelayedIsKnown
<1>3. DuplicatesAreBounded'
  <2> SUFFICES ASSUME NEW m \in Nodes, NEW i \in Items
               PROVE  (accepted[m][i] + Cardinality(Checking(m, i)) <= MaxThreads)'
    BY DEF DuplicatesAreBounded
  <2>1. CASE m = n
    <3>1. accepted'[m][i] = 0 /\ Checking(m, i)' = {}
      BY <2>1 DEF Crash, TypeOK, Checking
    <3> QED
      BY <3>1, FS_EmptySet, GossipAssumption
  <2>2. CASE m # n
    <3>1. accepted'[m][i] = accepted[m][i] /\ Checking(m, i)' = Checking(m, i)
      BY <2>2 DEF Crash, TypeOK, Checking
    <3> QED
      BY <3>1 DEF DuplicatesAreBounded
  <2> QED
    BY <2>1, <2>2
<1>4. OnlyClientsAreHeard'
  BY DEF Crash, TypeOK, OnlyClientsAreHeard, Submitted, Unreadable
<1> QED
  BY <1>1, <1>2, <1>3, <1>4

LEMMA SubmitStep ==
  ASSUME GossipInv, NEW n \in Nodes, NEW i \in Items, Submit(n, i)
  PROVE  GossipInv'
<1> USE DEF GossipInv
<1> DEFINE msg == [from |-> Client, via |-> "client", item |-> i, copy |-> 0]
<1>1. /\ told' = told \cup {<<"submit", n, i>>}
      /\ inbox' = [inbox EXCEPT ![n] = @ \cup {msg}]
      /\ UNCHANGED <<up, peers, known, checked, queue, broadcasts, relays, accepted, losses, crashes>>
  BY DEF Submit
<1>2. TypeOK'
  <2>1. msg \in Message
    BY GossipAssumption DEF Message, Copies
  <2> HIDE DEF msg
  <2> QED
    BY <1>1, <2>1 DEF TypeOK
<1>3. FewChecked' /\ CheckedIsReadable' /\ AcceptedIsKnown' /\ DuplicatesAreBounded'
  BY <1>1, CountsKept
<1>4. RelayedIsKnown'
  BY <1>1 DEF RelayedIsKnown
<1>5. Submitted \subseteq Submitted' /\ i \in Submitted'
  BY <1>1 DEF Submitted
<1>6. OnlyClientsAreHeard'
  <2> SUFFICES ASSUME NEW m \in Nodes
               PROVE  /\ known'[m] \subseteq Submitted'
                      /\ \A k \in inbox'[m] \cup checked'[m] :
                            ~Unreadable(k) => k.item \in Submitted'
    BY DEF OnlyClientsAreHeard, Unreadable
  <2>1. inbox'[m] \subseteq inbox[m] \cup {msg}
    BY <1>1 DEF TypeOK
  <2>2. msg.item = i
    OBVIOUS
  <2> HIDE DEF msg
  <2> QED
    BY <1>1, <1>5, <2>1, <2>2 DEF OnlyClientsAreHeard
<1> QED
  BY <1>2, <1>3, <1>4, <1>6

LEMMA AnnounceStep ==
  ASSUME GossipInv, NEW n \in Nodes, NEW i \in Items, Announce(n, i)
  PROVE  GossipInv'
<1> USE DEF GossipInv
<1>1. /\ told' = told \cup {<<"announce", n, i>>}
      /\ broadcasts' = [broadcasts EXCEPT ![n] = Append(@, i)]
      /\ UNCHANGED <<up, peers, known, inbox, checked, queue, relays, accepted, losses, crashes>>
  BY DEF Announce
<1>2. TypeOK'
  BY <1>1 DEF TypeOK
<1>3. FewChecked' /\ CheckedIsReadable' /\ AcceptedIsKnown' /\ DuplicatesAreBounded'
  BY <1>1, CountsKept
<1>4. RelayedIsKnown'
  BY <1>1 DEF RelayedIsKnown
<1>5. Submitted \subseteq Submitted'
  BY <1>1 DEF Submitted
<1>6. OnlyClientsAreHeard'
  BY <1>1, <1>5 DEF OnlyClientsAreHeard, Unreadable
<1> QED
  BY <1>2, <1>3, <1>4, <1>6

LEMMA ReceiveStep ==
  ASSUME GossipInv, NEW n \in Nodes, NEW m \in inbox[n], Receive(n, m)
  PROVE  GossipInv'
<1> USE DEF GossipInv
<1>1. /\ inbox' = [inbox EXCEPT ![n] = @ \ {m}]
      /\ UNCHANGED <<up, peers, known, queue, broadcasts, relays, accepted, history>>
  BY DEF Receive
<1>2. CASE UNCHANGED checked
  <2>1. TypeOK'
    BY <1>1, <1>2 DEF TypeOK, history
  <2>2. FewChecked' /\ CheckedIsReadable' /\ AcceptedIsKnown' /\ DuplicatesAreBounded'
    BY <1>1, <1>2, CountsKept
  <2>3. RelayedIsKnown' /\ OnlyClientsAreHeard'
    BY <1>1, <1>2
    DEF TypeOK, history, RelayedIsKnown, OnlyClientsAreHeard, Submitted, Unreadable
  <2> QED
    BY <2>1, <2>2, <2>3
<1>3. CASE /\ ~Unreadable(m) /\ m.item \notin known[n]
           /\ Cardinality(checked[n]) < MaxThreads
           /\ checked' = [checked EXCEPT ![n] = @ \cup {m}]
  <2>1. m \in Message /\ m.item \in Items
    BY DEF TypeOK, Message
  <2>2. TypeOK'
    BY <1>1, <1>3, <2>1 DEF TypeOK, history
  <2>3. FewChecked'
    <3> SUFFICES ASSUME NEW k \in Nodes
                 PROVE  IsFiniteSet(checked'[k]) /\ Cardinality(checked'[k]) <= MaxThreads
      BY DEF FewChecked
    <3>1. CASE k = n
      <4>1. checked'[k] = checked[n] \cup {m}
        BY <1>3, <3>1 DEF TypeOK
      <4>2. /\ IsFiniteSet(checked[n] \cup {m})
            /\ Cardinality(checked[n] \cup {m}) <= Cardinality(checked[n]) + 1
            /\ Cardinality(checked[n]) \in Nat
        <5>1. IsFiniteSet(checked[n])
          BY DEF FewChecked
        <5>2. /\ IsFiniteSet(checked[n] \cup {m})
              /\ Cardinality(checked[n] \cup {m}) \in
                   {Cardinality(checked[n]), Cardinality(checked[n]) + 1}
          BY <5>1, FS_AddElement
        <5>3. Cardinality(checked[n]) \in Nat
          BY <5>1, FS_CardinalityType
        <5> QED
          BY <5>2, <5>3
      <4>3. Cardinality(checked[n] \cup {m}) \in Nat
        BY <4>2, FS_CardinalityType
      <4>4. Cardinality(checked[n] \cup {m}) <= MaxThreads
        BY <1>3, <4>2, <4>3, GossipAssumption
      <4> QED
        BY <4>1, <4>2, <4>4
    <3>2. CASE k # n
      <4>1. checked'[k] = checked[k]
        BY <1>3, <3>2 DEF TypeOK
      <4> QED
        BY <4>1 DEF FewChecked
    <3> QED
      BY <3>1, <3>2
  <2>4. AcceptedIsKnown' /\ RelayedIsKnown'
    BY <1>1 DEF AcceptedIsKnown, RelayedIsKnown
  <2>5. DuplicatesAreBounded'
    <3> SUFFICES ASSUME NEW k \in Nodes, NEW i \in Items
                 PROVE  (accepted[k][i] + Cardinality(Checking(k, i)) <= MaxThreads)'
      BY DEF DuplicatesAreBounded
    <3>1. CASE k = n /\ i = m.item
      <4>1. accepted'[k][i] = 0
        BY <1>1, <1>3, <3>1, <2>1 DEF AcceptedIsKnown
      <4>2. Cardinality(Checking(k, i)') \in Nat /\ Cardinality(Checking(k, i)') <= MaxThreads
        <5>1. Checking(k, i)' \subseteq checked'[k] /\ IsFiniteSet(checked'[k])
          BY <2>3 DEF Checking, FewChecked
        <5>2. /\ Cardinality(Checking(k, i)') <= Cardinality(checked'[k])
              /\ IsFiniteSet(Checking(k, i)')
          BY <5>1, FS_Subset
        <5> QED
          BY <5>1, <5>2, <2>3, FS_CardinalityType, GossipAssumption DEF FewChecked
      <4> QED
        BY <4>1, <4>2
    <3>2. CASE ~(k = n /\ i = m.item)
      <4>1. Checking(k, i)' = Checking(k, i)
        BY <1>3, <3>2 DEF Checking, TypeOK
      <4> QED
        BY <1>1, <4>1 DEF DuplicatesAreBounded
    <3> QED
      BY <3>1, <3>2
  <2>6. OnlyClientsAreHeard'
    BY <1>1, <1>3 DEF TypeOK, history, OnlyClientsAreHeard, Submitted, Unreadable
  <2>7. CheckedIsReadable'
    BY <1>3 DEF TypeOK, CheckedIsReadable, Unreadable
  <2> QED
    BY <2>2, <2>3, <2>4, <2>5, <2>6, <2>7
<1> QED
  BY <1>2, <1>3 DEF Receive

(* A call of _relay_to_peers is a relay of its item. *)
LEMMA CallType ==
  ASSUME TypeOK, NEW n \in Nodes, NEW v \in {"handler", "gossip", "broadcast"},
         NEW i \in Items, NEW k \in Copies
  PROVE  /\ Call(n, v, i, k) \in SUBSET Relay
         /\ \A r \in Call(n, v, i, k) : r.via = v /\ r.item = i
  BY DEF Call, Relay, TypeOK

LEMMA AcceptStep ==
  ASSUME GossipInv, NEW n \in Nodes, NEW m \in checked[n], Accept(n, m)
  PROVE  GossipInv'
<1> USE DEF GossipInv
<1> DEFINE i == m.item
           k == OneMore(accepted[n][i])
           q == [item |-> i, copy |-> k]
<1>1. /\ checked' = [checked EXCEPT ![n] = @ \ {m}]
      /\ known' = [known EXCEPT ![n] = @ \cup {i}]
      /\ accepted' = [accepted EXCEPT ![n][i] = k]
      /\ queue' = [queue EXCEPT ![n] = Append(@, q)]
      /\ relays' = [relays EXCEPT ![n] = @ \cup Call(n, "handler", i, k)]
      /\ UNCHANGED <<up, peers, inbox, broadcasts, history>>
  BY DEF Accept
<1>2. m \in Message /\ i \in Items
  BY DEF TypeOK, Message
<1>3. /\ accepted[n][i] \in Nat
      /\ accepted[n][i] < MaxThreads
      /\ Cardinality(Checking(n, i)) \in Nat
      /\ IsFiniteSet(Checking(n, i))
  <2>1. m \in Checking(n, i)
    BY DEF Checking
  <2>2. /\ IsFiniteSet(Checking(n, i)) /\ Cardinality(Checking(n, i)) \in Nat
    BY <1>2, CheckingIsFinite
  <2>3. Cardinality(Checking(n, i)) # 0
    BY <2>1, <2>2, FS_EmptySet
  <2>4. accepted[n][i] \in Nat
    BY <1>2 DEF TypeOK, Copies
  <2> QED
    BY <1>2, <2>2, <2>3, <2>4, GossipAssumption DEF DuplicatesAreBounded
<1>4. k = accepted[n][i] + 1 /\ k \in Copies
  BY <1>3, GossipAssumption DEF OneMore, Copies
<1> HIDE DEF k
<1>5. TypeOK'
  <2>1. q \in Queued
    BY <1>2, <1>4 DEF Queued
  <2>2. Call(n, "handler", i, k) \in SUBSET Relay
    BY <1>2, <1>4, CallType
  <2> HIDE DEF q, i
  <2> QED
    BY <1>1, <1>2, <1>4, <2>1, <2>2 DEF TypeOK, history
<1>6. FewChecked'
  <2> SUFFICES ASSUME NEW j \in Nodes
               PROVE  IsFiniteSet(checked'[j]) /\ Cardinality(checked'[j]) <= MaxThreads
    BY DEF FewChecked
  <2>1. checked'[j] \subseteq checked[j] /\ IsFiniteSet(checked[j])
    BY <1>1 DEF TypeOK, FewChecked
  <2>2. IsFiniteSet(checked'[j]) /\ Cardinality(checked'[j]) <= Cardinality(checked[j])
    BY <2>1, FS_Subset
  <2> QED
    BY <2>1, <2>2, FS_CardinalityType, GossipAssumption DEF FewChecked
<1>7. AcceptedIsKnown'
  BY <1>1, <1>2 DEF AcceptedIsKnown, TypeOK
<1>8. RelayedIsKnown'
  <2> SUFFICES ASSUME NEW j \in Nodes
               PROVE  /\ \A d \in 1 .. Len(queue'[j]) : queue'[j][d].item \in known'[j]
                      /\ \A r \in relays'[j] : r.via # "broadcast" => r.item \in known'[j]
    BY DEF RelayedIsKnown
  <2>1. known[j] \subseteq known'[j] /\ i \in known'[n]
    BY <1>1 DEF TypeOK
  <2>2. \A r \in Call(n, "handler", i, k) : r.item = i
    BY <1>2, <1>4, CallType
  <2>3. CASE j = n
    <3>1. queue'[j] = Append(queue[j], q) /\ queue[j] \in Seq(Queued)
      BY <1>1, <2>3 DEF TypeOK
    <3>2. relays'[j] = relays[j] \cup Call(n, "handler", i, k)
      BY <1>1, <2>3 DEF TypeOK
    <3>3. q.item = i
      OBVIOUS
    <3> HIDE DEF q, i
    <3>4. ASSUME NEW d \in 1 .. Len(queue'[j])
          PROVE  queue'[j][d].item \in known'[j]
      <4>1. CASE d = Len(queue[j]) + 1
        BY <2>1, <2>3, <3>1, <3>3, <4>1
      <4>2. CASE d # Len(queue[j]) + 1
        <5>1. d \in 1 .. Len(queue[j]) /\ queue'[j][d] = queue[j][d]
          BY <3>1, <4>2
        <5> QED
          BY <2>1, <5>1 DEF RelayedIsKnown
      <4> QED
        BY <4>1, <4>2
    <3> QED
      BY <2>1, <2>2, <2>3, <3>2, <3>4 DEF RelayedIsKnown
  <2>4. CASE j # n
    BY <1>1, <2>1, <2>4 DEF RelayedIsKnown, TypeOK
  <2> QED
    BY <2>3, <2>4
<1>9. DuplicatesAreBounded'
  <2> SUFFICES ASSUME NEW j \in Nodes, NEW d \in Items
               PROVE  (accepted[j][d] + Cardinality(Checking(j, d)) <= MaxThreads)'
    BY DEF DuplicatesAreBounded
  <2>1. CASE j = n /\ d = i
    <3>1. accepted'[j][d] = accepted[n][i] + 1
      BY <1>1, <1>4, <2>1 DEF TypeOK
    <3>2. Checking(j, d)' = Checking(n, i) \ {m} /\ m \in Checking(n, i)
      BY <1>1, <2>1 DEF Checking, TypeOK
    <3>3. Cardinality(Checking(j, d)') = Cardinality(Checking(n, i)) - 1
      <4>1. Cardinality(Checking(n, i) \ {m}) = Cardinality(Checking(n, i)) - 1
        BY <1>3, <3>2, FS_RemoveElement
      <4> QED
        BY <3>2, <4>1
    <3> QED
      BY <1>2, <1>3, <3>1, <3>3, GossipAssumption DEF DuplicatesAreBounded
  <2>2. CASE ~(j = n /\ d = i)
    <3>1. accepted'[j][d] = accepted[j][d]
      BY <1>1, <1>2, <2>2 DEF TypeOK
    <3>2. Checking(j, d)' = Checking(j, d)
      BY <1>1, <2>2 DEF Checking, TypeOK
    <3> QED
      BY <3>1, <3>2 DEF DuplicatesAreBounded
  <2> QED
    BY <2>1, <2>2
<1>10. OnlyClientsAreHeard'
  <2>1. Submitted' = Submitted
    BY <1>1 DEF Submitted, history
  <2>2. i \in Submitted
    BY DEF CheckedIsReadable, OnlyClientsAreHeard
  <2> QED
    BY <1>1, <2>1, <2>2 DEF OnlyClientsAreHeard, Unreadable, TypeOK
<1>11. CheckedIsReadable'
  BY <1>1 DEF TypeOK, CheckedIsReadable, Unreadable
<1> QED
  BY <1>5, <1>6, <1>7, <1>8, <1>9, <1>10, <1>11

LEMMA GossipLoopStep ==
  ASSUME GossipInv, NEW n \in Nodes, GossipLoop(n)
  PROVE  GossipInv'
<1> USE DEF GossipInv
<1> DEFINE q == queue[n]
           new == Call(n, "gossip", Head(q).item, Head(q).copy)
<1>1. /\ q # <<>>
      /\ queue' = [queue EXCEPT ![n] = Tail(q)]
      /\ relays' = [relays EXCEPT ![n] = @ \cup new]
      /\ UNCHANGED <<up, peers, known, inbox, checked, broadcasts, accepted, history>>
  BY DEF GossipLoop
<1>2. /\ q \in Seq(Queued) /\ Head(q) = q[1] /\ 1 \in 1 .. Len(q)
      /\ q[1] \in Queued /\ Tail(q) \in Seq(Queued)
      /\ Len(Tail(q)) = Len(q) - 1
      /\ \A d \in 1 .. Len(Tail(q)) : Tail(q)[d] = q[d + 1] /\ d + 1 \in 1 .. Len(q)
  BY <1>1 DEF TypeOK
<1>3. new \in SUBSET Relay /\ \A r \in new : r.item = q[1].item
  <2>1. q[1].item \in Items /\ q[1].copy \in Copies
    BY <1>2 DEF Queued
  <2> QED
    BY <1>2, <2>1, CallType
<1> HIDE DEF q, new
<1>4. TypeOK'
  BY <1>1, <1>2, <1>3 DEF TypeOK, history
<1>5. FewChecked' /\ CheckedIsReadable' /\ AcceptedIsKnown' /\ DuplicatesAreBounded'
  BY <1>1, CountsKept
<1>6. RelayedIsKnown'
  <2> SUFFICES ASSUME NEW j \in Nodes
               PROVE  /\ \A d \in 1 .. Len(queue'[j]) : queue'[j][d].item \in known[j]
                      /\ \A r \in relays'[j] : r.via # "broadcast" => r.item \in known[j]
    BY <1>1 DEF RelayedIsKnown
  <2>1. CASE j = n
    <3>1. queue'[j] = Tail(q) /\ relays'[j] = relays[j] \cup new
      BY <1>1, <2>1 DEF TypeOK
    <3>2. \A d \in 1 .. Len(q) : q[d].item \in known[n]
      BY DEF RelayedIsKnown, q
    <3> QED
      BY <1>2, <1>3, <2>1, <3>1, <3>2 DEF RelayedIsKnown
  <2>2. CASE j # n
    BY <1>1, <2>2 DEF RelayedIsKnown, TypeOK
  <2> QED
    BY <2>1, <2>2
<1>7. OnlyClientsAreHeard'
  BY <1>1 DEF OnlyClientsAreHeard, Submitted, Unreadable, history
<1> QED
  BY <1>4, <1>5, <1>6, <1>7

LEMMA BroadcastLoopStep ==
  ASSUME GossipInv, NEW n \in Nodes, BroadcastLoop(n)
  PROVE  GossipInv'
<1> USE DEF GossipInv
<1> DEFINE q == broadcasts[n]
           new == Call(n, "broadcast", Head(q), 0)
<1>1. /\ q # <<>>
      /\ broadcasts' = [broadcasts EXCEPT ![n] = Tail(q)]
      /\ relays' = [relays EXCEPT ![n] = @ \cup new]
      /\ UNCHANGED <<up, peers, known, inbox, checked, queue, accepted, history>>
  BY DEF BroadcastLoop
<1>2. Head(q) \in Items /\ Tail(q) \in Seq(Items)
  BY <1>1 DEF TypeOK
<1>3. new \in SUBSET Relay /\ \A r \in new : r.via = "broadcast"
  <2>1. 0 \in Copies
    BY GossipAssumption DEF Copies
  <2> QED
    BY <1>2, <2>1, CallType
<1> HIDE DEF q, new
<1>4. TypeOK'
  BY <1>1, <1>2, <1>3 DEF TypeOK, history
<1>5. FewChecked' /\ CheckedIsReadable' /\ AcceptedIsKnown' /\ DuplicatesAreBounded'
  BY <1>1, CountsKept
<1>6. RelayedIsKnown'
  BY <1>1, <1>3 DEF RelayedIsKnown, TypeOK
<1>7. OnlyClientsAreHeard'
  BY <1>1 DEF OnlyClientsAreHeard, Submitted, Unreadable, history
<1> QED
  BY <1>4, <1>5, <1>6, <1>7

LEMMA SendStep ==
  ASSUME GossipInv, NEW n \in Nodes, NEW r \in relays[n], NEW p \in r.todo, Send(n, r, p)
  PROVE  GossipInv'
<1> USE DEF GossipInv
<1> DEFINE rest == [r EXCEPT !.todo = @ \ {p}]
           left == IF r.todo = {p} THEN {} ELSE {rest}
           msg == [from |-> n, via |-> r.via, item |-> r.item, copy |-> r.copy]
<1>1. /\ relays' = [relays EXCEPT ![n] = (@ \ {r}) \cup left]
      /\ inbox' = [inbox EXCEPT ![p] = @ \cup {msg}] \/ UNCHANGED inbox
      /\ UNCHANGED <<up, peers, known, checked, queue, broadcasts, accepted, told, crashes>>
  BY DEF Send
<1>2. /\ r \in Relay /\ rest \in Relay /\ rest.via = r.via /\ rest.item = r.item
      /\ msg \in Message /\ msg.via = r.via /\ msg.item = r.item /\ p \in Nodes
  <2>1. r \in Relay
    BY DEF TypeOK
  <2> QED
    BY <2>1, GossipAssumption DEF Relay, Message
<1>3. losses' \in 0 .. MaxLosses
  BY GossipAssumption DEF Send, TypeOK
<1> HIDE DEF rest, msg
<1>4. TypeOK'
  <2>1. left \in SUBSET Relay
    BY <1>2
  <2> HIDE DEF left
  <2>2. relays' \in [Nodes -> SUBSET Relay]
    <3>1. relays \in [Nodes -> SUBSET Relay]
      BY DEF TypeOK
    <3>2. (relays[n] \ {r}) \cup left \in SUBSET Relay
      BY <2>1, <3>1
    <3> QED
      BY <1>1, <3>1, <3>2
  <2>3. inbox' \in [Nodes -> SUBSET Message]
    <3>1. inbox \in [Nodes -> SUBSET Message] /\ inbox[p] \cup {msg} \in SUBSET Message
      BY <1>2 DEF TypeOK
    <3>2. CASE inbox' = [inbox EXCEPT ![p] = @ \cup {msg}]
      BY <3>1, <3>2, <1>2
    <3>3. CASE UNCHANGED inbox
      BY <3>1, <3>3
    <3> QED
      BY <1>1, <3>2, <3>3
  <2> QED
    BY <1>1, <1>3, <2>2, <2>3 DEF TypeOK
<1>5. FewChecked' /\ CheckedIsReadable' /\ AcceptedIsKnown' /\ DuplicatesAreBounded'
  BY <1>1, CountsKept
<1>6. RelayedIsKnown'
  <2>1. \A j \in Nodes : \A s \in relays'[j] : s.via # "broadcast" => s.item \in known[j]
    BY <1>1, <1>2 DEF RelayedIsKnown, TypeOK
  <2> QED
    BY <1>1, <2>1 DEF RelayedIsKnown
<1>7. OnlyClientsAreHeard'
  <2>1. ~Unreadable(msg) => msg.item \in Submitted
    BY <1>2 DEF Unreadable, RelayedIsKnown, OnlyClientsAreHeard
  <2>2. \A j \in Nodes : inbox'[j] \subseteq inbox[j] \cup {msg}
    BY <1>1, <1>2 DEF TypeOK
  <2>3. Submitted' = Submitted
    BY <1>1 DEF Submitted
  <2> QED
    BY <1>1, <2>1, <2>2, <2>3 DEF OnlyClientsAreHeard, Unreadable
<1> QED
  BY <1>4, <1>5, <1>6, <1>7

-----------------------------------------------------------------------------
(* The properties and what makes them inductive hold for ever. *)
THEOREM GossipInvariant == Spec => []GossipInv
<1>1. Init => GossipInv
  BY GossipInit
<1>2. GossipInv /\ [Next]_vars => GossipInv'
  <2> SUFFICES ASSUME GossipInv, [Next]_vars
               PROVE  GossipInv'
    OBVIOUS
  <2>1. CASE UNCHANGED vars
    BY <2>1 DEF vars, memory, history, GossipInv, TypeOK, FewChecked, CheckedIsReadable,
               AcceptedIsKnown, RelayedIsKnown, DuplicatesAreBounded, Checking,
               OnlyClientsAreHeard, Submitted, Unreadable
  <2>2. ASSUME NEW n \in Nodes, Work(n)
        PROVE  GossipInv'
    BY <2>2, ReceiveStep, AcceptStep, GossipLoopStep, BroadcastLoopStep, SendStep DEF Work
  <2>3. ASSUME NEW n \in Nodes,
               \/ Start(n) \/ Crash(n)
               \/ \E i \in Items : Submit(n, i) \/ Announce(n, i)
        PROVE  GossipInv'
    BY <2>3, StartStep, CrashStep, SubmitStep, AnnounceStep
  <2> QED
    BY <2>1, <2>2, <2>3 DEF Next
<1> QED
  BY <1>1, <1>2, PTL DEF Spec

(* Nodes, messages, queues and relays are well formed. *)
THEOREM TypeCorrect == Spec => []TypeOK
  BY GossipInvariant, PTL DEF GossipInv

(* A node queues one hash at most once per connection thread that can stand  *)
(* between the look-up and the insertion; with one such thread, at most once.*)
THEOREM DuplicatesBounded == Spec => []DuplicatesAreBounded
  BY GossipInvariant, PTL DEF GossipInv

(* No announcement of a node is ever accepted anywhere: what nodes know and  *)
(* exchange in readable form comes from clients.                             *)
THEOREM OnlyClientsHeard == Spec => []OnlyClientsAreHeard
  BY GossipInvariant, PTL DEF GossipInv
=============================================================================
