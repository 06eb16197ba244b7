------------------------- MODULE BftFinality_proofs -------------------------
(***************************************************************************)
(* Proofs about BftFinality for every number of workers, heights, hashes   *)
(* and validators.                                                         *)
(***************************************************************************)
EXTENDS BftFinality, FiniteSetTheorems, TLAPS

(* The program counter tells which record a request is. *)
LEMMA RequestByPc ==
  ASSUME NEW r \in Request
  PROVE  /\ r.pc = "checked" => r \in Checked
         /\ r.pc = "tally" => r \in Tallying
         /\ r.pc = "mark" => r \in Marking
         /\ r.pc = "done" => r \in Answered
  BY DEF Request, Idle, Checked, Tallying, Marking, Answered

(* Cardinalities of sets of supporters are numbers bounded by the validators. *)
LEMMA SupportersFinite ==
  ASSUME NEW h, NEW b
  PROVE  /\ IsFiniteSet(Supporters(h, b))
         /\ Cardinality(Supporters(h, b)) \in Nat
         /\ Supporters(h, b) \subseteq Validators
<1>1. Supporters(h, b) \in SUBSET Validators
  BY DEF Supporters
<1> QED
  BY <1>1, FS_Subset, FS_CardinalityType, ValidatorsAssumption

LEMMA RequiredIsPositive == RequiredConsensus \in Nat /\ RequiredConsensus >= 1
  BY ValidatorsAssumption DEF RequiredConsensus

LEMMA NobodyVotesEmpty ==
  ASSUME TypeOK, NEW h \in Heights
  PROVE  Cardinality(Supporters(h, EmptyHash)) = 0
<1>1. Supporters(h, EmptyHash) = {}
  BY HashAssumption DEF TypeOK, Supporters
<1> QED
  BY <1>1, FS_EmptySet

LEMMA TypeInductive == TypeOK /\ [Next]_vars => TypeOK'
<1> SUFFICES ASSUME TypeOK, [Next]_vars PROVE TypeOK'
  OBVIOUS
<1>1. ASSUME NEW w \in Workers, NEW h \in Heights, NEW v \in Validators,
             NEW b \in Hashes, CheckVote(w, h, v, b)
      PROVE  TypeOK'
  BY <1>1 DEF TypeOK, CheckVote, Request, Idle, Checked
<1>2. ASSUME NEW w \in Workers, NEW h \in Heights, QueryFinality(w, h)
      PROVE  TypeOK'
  BY <1>2 DEF TypeOK, QueryFinality, Request, Tallying, AnyHash
<1>3. ASSUME NEW w \in Workers, RecordVote(w) PROVE TypeOK'
  <2>1. req[w] \in Checked
    BY <1>3, RequestByPc DEF TypeOK, RecordVote
  <2> DEFINE t == [pc |-> "tally", height |-> req[w].height, hash |-> req[w].hash]
  <2>2. t \in Request /\ Idle \in Request
    BY <2>1 DEF Request, Checked, Tallying, AnyHash
  <2>3. req' = [req EXCEPT ![w] = t] \/ req' = [req EXCEPT ![w] = Idle]
    BY <1>3 DEF RecordVote
  <2>4. req' \in [Workers -> Request]
    BY <2>2, <2>3 DEF TypeOK
  <2>5. votes' \in [Heights -> [Validators -> Hashes \cup {None}]]
    BY <1>3, <2>1 DEF TypeOK, RecordVote, Checked
  <2> QED
    BY <1>3, <2>4, <2>5 DEF TypeOK, RecordVote
<1>4. ASSUME NEW w \in Workers, Tally(w) PROVE TypeOK'
  <2>1. req[w] \in Tallying
    BY <1>4, RequestByPc DEF TypeOK, Tally
  <2> DEFINE n == Cardinality(Supporters(req[w].height, req[w].hash))
             m == [pc |-> "mark", height |-> req[w].height,
                   hash |-> req[w].hash, count |-> n]
             d == [pc |-> "done", height |-> req[w].height,
                   hash |-> req[w].hash, finalized |-> FALSE]
  <2>2. n \in Nat
    BY SupportersFinite
  <2>3. d \in Request
    BY <2>1 DEF Request, Tallying, Answered
  <2>4. n >= RequiredConsensus => m \in Request
    <3> SUFFICES ASSUME n >= RequiredConsensus PROVE m \in Request
      OBVIOUS
    <3>1. req[w].hash \in Hashes
      BY <2>1, <2>2, NobodyVotesEmpty, RequiredIsPositive DEF Tallying, AnyHash
    <3> QED
      BY <2>1, <2>2, <3>1 DEF Request, Tallying, Marking
  <2>5. req' = [req EXCEPT ![w] = IF n >= RequiredConsensus THEN m ELSE d]
    BY <1>4 DEF Tally
  <2>6. req' \in [Workers -> Request]
    BY <2>3, <2>4, <2>5 DEF TypeOK
  <2> QED
    BY <1>4, <2>6 DEF TypeOK, Tally
<1>5. ASSUME NEW w \in Workers, MarkFinalized(w) PROVE TypeOK'
  <2>1. req[w] \in Marking
    BY <1>5, RequestByPc DEF TypeOK, MarkFinalized
  <2> DEFINE d == [pc |-> "done", height |-> req[w].height,
                   hash |-> req[w].hash, finalized |-> TRUE]
  <2>2. d \in Request
    BY <2>1 DEF Request, Marking, Answered, AnyHash
  <2>3. req' = [req EXCEPT ![w] = d]
    BY <1>5 DEF MarkFinalized
  <2>4. req' \in [Workers -> Request]
    BY <2>2, <2>3 DEF TypeOK
  <2> QED
    BY <1>5, <2>1, <2>4 DEF TypeOK, MarkFinalized, Marking
<1>6. ASSUME NEW w \in Workers, Crash(w) PROVE TypeOK'
  BY <1>6 DEF TypeOK, Crash, Request
<1>7. CASE UNCHANGED vars
  BY <1>7 DEF TypeOK, vars
<1> QED
  BY <1>1, <1>2, <1>3, <1>4, <1>5, <1>6, <1>7 DEF Next, Arrive, Step

LEMMA TypeInit == Init => TypeOK
  BY DEF Init, TypeOK, Request

(* The type invariant: every row and every request in flight is well formed. *)
THEOREM TypeCorrect == Spec => []TypeOK
  BY TypeInit, TypeInductive, PTL DEF Spec

-----------------------------------------------------------------------------
(* A step never takes a vote off the record. *)
LEMMA VotesGrow ==
  ASSUME TypeOK, [Next]_vars
  PROVE  \A h \in Heights, v \in Validators :
            votes[h][v] # None => votes'[h][v] = votes[h][v]
<1>1. ASSUME NEW w \in Workers, RecordVote(w)
      PROVE  \A h \in Heights, v \in Validators :
                votes[h][v] # None => votes'[h][v] = votes[h][v]
  <2>1. req[w] \in Checked
    BY <1>1, RequestByPc DEF TypeOK, RecordVote
  <2> QED
    BY <1>1, <2>1 DEF TypeOK, RecordVote, Checked
<1>2. (\E w \in Workers : RecordVote(w)) \/ votes' = votes
  BY DEF Next, vars, Arrive, Step, CheckVote, QueryFinality, Tally, MarkFinalized, Crash
<1> QED
  BY <1>1, <1>2

LEMMA SupportGrows ==
  ASSUME TypeOK, [Next]_vars, NEW h \in Heights, NEW b \in Hashes
  PROVE  Cardinality(Supporters(h, b)) <= Cardinality(Supporters(h, b)')
<1>1. Supporters(h, b) \subseteq Supporters(h, b)'
  BY VotesGrow, HashAssumption DEF Supporters
<1>2. IsFiniteSet(Supporters(h, b)')
  <2>1. Supporters(h, b)' \in SUBSET Validators
    BY DEF Supporters
  <2> QED
    BY <2>1, FS_Subset, ValidatorsAssumption
<1> QED
  BY <1>1, <1>2, FS_Subset

(* No two hashes of a height have a quorum: this is where the bound on the   *)
(* number of voters is needed.                                               *)
LEMMA QuorumsAgree ==
  ASSUME TypeOK, NEW h \in Heights, NEW a \in Hashes, NEW b \in Hashes,
         Cardinality(Supporters(h, a)) >= RequiredConsensus,
         Cardinality(Supporters(h, b)) >= RequiredConsensus
  PROVE  a = b
<1> DEFINE A == Supporters(h, a)
           B == Supporters(h, b)
<1>1. /\ Cardinality(A) \in Nat
      /\ Cardinality(B) \in Nat
      /\ A \subseteq Validators
      /\ B \subseteq Validators
  BY SupportersFinite
<1>2. Cardinality(Validators) \in Nat
  BY FS_CardinalityType, ValidatorsAssumption
<1>3. 3 * RequiredConsensus > 2 * TotalValidators
  BY ValidatorsAssumption DEF RequiredConsensus
<1>4. Cardinality(A) + Cardinality(B) > Cardinality(Validators)
  BY <1>1, <1>2, <1>3, RequiredIsPositive, ValidatorsAssumption
<1>5. A \cap B # {}
  BY <1>1, <1>4, FS_MajoritiesIntersect, ValidatorsAssumption
<1> QED
  BY <1>5 DEF Supporters

-----------------------------------------------------------------------------
LEMMA InvInit == Init => IInv
<1> SUFFICES ASSUME Init PROVE IInv
  OBVIOUS
<1>1. TypeOK
  BY TypeInit
<1> QED
  BY <1>1 DEF Init, IInv, FinalizedHasQuorum, MarkHasQuorum, AnswerIsDurable, Idle

(* Before a worker marks a height, the height is undecided or decided with   *)
(* the very hash it is about to write.                                       *)
LEMMA MarkAgrees ==
  ASSUME IInv, NEW w \in Workers, MarkFinalized(w)
  PROVE  /\ req[w] \in Marking
         /\ final[req[w].height] \in {None, req[w].hash}
<1> DEFINE h == req[w].height
           b == req[w].hash
<1>1. req[w] \in Marking
  BY RequestByPc DEF IInv, TypeOK, MarkFinalized
<1>2. h \in Heights /\ b \in Hashes /\ req[w].count \in Nat
  BY <1>1 DEF Marking
<1>3. Cardinality(Supporters(h, b)) >= RequiredConsensus
  BY <1>2, SupportersFinite, RequiredIsPositive DEF IInv, MarkHasQuorum, MarkFinalized
<1>4. ASSUME final[h] # None
      PROVE  final[h] = b
  <2>1. /\ final[h] \in Hashes
        /\ count[h] \in Nat
        /\ count[h] >= RequiredConsensus
        /\ count[h] <= Cardinality(Supporters(h, final[h]))
    BY <1>2, <1>4 DEF IInv, FinalizedHasQuorum, TypeOK
  <2>2. Cardinality(Supporters(h, final[h])) >= RequiredConsensus
    BY <2>1, SupportersFinite, RequiredIsPositive
  <2> QED
    BY <1>2, <1>3, <2>1, <2>2, QuorumsAgree DEF IInv
<1> QED
  BY <1>1, <1>4

LEMMA InvInductive == IInv /\ [Next]_vars => IInv'
<1> SUFFICES ASSUME IInv, [Next]_vars PROVE IInv'
  OBVIOUS
<1> DEFINE After(h, b) == {v \in Validators : votes'[h][v] = b}
<1>t. TypeOK /\ TypeOK'
  BY TypeInductive DEF IInv
(* A count covered by the votes on record stays covered. *)
<1>g. ASSUME NEW h \in Heights, NEW b \in Hashes, NEW n \in Nat,
             n <= Cardinality(Supporters(h, b))
      PROVE  n <= Cardinality(After(h, b))
  <2>1. Supporters(h, b)' = After(h, b)
    BY DEF Supporters
  <2>2. After(h, b) \in SUBSET Validators
    OBVIOUS
  <2>3. Cardinality(Supporters(h, b)) \in Nat /\ Cardinality(After(h, b)) \in Nat
    BY <2>2, SupportersFinite, FS_Subset, FS_CardinalityType, ValidatorsAssumption
  <2>4. Cardinality(Supporters(h, b)) <= Cardinality(After(h, b))
    BY <2>1, <1>t, SupportGrows
  <2> QED
    BY <1>g, <2>3, <2>4
<1>f. ASSUME NEW h \in Heights, final'[h] = final[h], count'[h] = count[h], final'[h] # None
      PROVE  /\ final'[h] \in Hashes
             /\ count'[h] >= RequiredConsensus
             /\ count'[h] <= Cardinality(After(h, final'[h]))
  BY <1>f, <1>t, <1>g DEF IInv, FinalizedHasQuorum, TypeOK
<1>m. ASSUME NEW w \in Workers, req'[w] = req[w], req'[w].pc = "mark"
      PROVE  /\ req'[w].count >= RequiredConsensus
             /\ req'[w].count <= Cardinality(After(req'[w].height, req'[w].hash))
  <2>1. req[w] \in Marking
    BY <1>m, <1>t, RequestByPc DEF TypeOK
  <2> QED
    BY <1>m, <2>1, <1>g DEF IInv, MarkHasQuorum, Marking
(* Steps that neither tally nor mark leave finalized_blocks alone and put a  *)
(* request into a state with nothing to show.                                *)
<1>1. ASSUME NEW w \in Workers, NEW r, req' = [req EXCEPT ![w] = r],
             r.pc \notin {"mark", "done"}, UNCHANGED <<final, count>>
      PROVE  IInv'
  <2>1. FinalizedHasQuorum'
    BY <1>1, <1>f DEF FinalizedHasQuorum, Supporters
  <2>2. \A x \in Workers : req'[x] = req[x] \/ req'[x].pc \notin {"mark", "done"}
    BY <1>1, <1>t DEF TypeOK
  <2>3. MarkHasQuorum'
    BY <2>2, <1>m DEF MarkHasQuorum, Supporters
  <2>4. AnswerIsDurable'
    BY <1>1, <2>2 DEF IInv, AnswerIsDurable
  <2> QED
    BY <1>t, <2>1, <2>3, <2>4 DEF IInv
<1>2. ASSUME NEW w \in Workers, Tally(w) PROVE IInv'
  <2> DEFINE n == Cardinality(Supporters(req[w].height, req[w].hash))
  <2>1. req[w] \in Tallying /\ votes' = votes /\ final' = final /\ count' = count
    BY <1>2, <1>t, RequestByPc DEF TypeOK, Tally
  <2>2. FinalizedHasQuorum'
    BY <2>1, <1>f DEF FinalizedHasQuorum, Supporters
  <2>3. ASSUME NEW x \in Workers PROVE
             \/ req'[x] = req[x]
             \/ /\ req'[x].pc = "mark"
                /\ req'[x].count = n
                /\ n >= RequiredConsensus
                /\ req'[x].height = req[w].height
                /\ req'[x].hash = req[w].hash
             \/ req'[x].pc = "done" /\ req'[x].finalized = FALSE
    BY <1>2, <1>t DEF TypeOK, Tally
  <2>4. n <= n
    BY SupportersFinite
  <2>5. MarkHasQuorum'
    BY <2>1, <2>3, <2>4, <1>m DEF MarkHasQuorum, Supporters
  <2>6. AnswerIsDurable'
    BY <2>1, <2>3 DEF IInv, AnswerIsDurable
  <2> QED
    BY <1>t, <2>2, <2>5, <2>6 DEF IInv
<1>3. ASSUME NEW w \in Workers, MarkFinalized(w) PROVE IInv'
  <2> DEFINE h == req[w].height
             b == req[w].hash
  <2>1. req[w] \in Marking /\ final[h] \in {None, b} /\ votes' = votes
    BY <1>3, MarkAgrees DEF MarkFinalized
  <2>2. /\ h \in Heights /\ b \in Hashes
        /\ final' = [final EXCEPT ![h] = b]
        /\ count' = [count EXCEPT ![h] = req[w].count]
        /\ final'[h] = b
        /\ count'[h] = req[w].count
    BY <1>3, <2>1, <1>t DEF MarkFinalized, Marking, TypeOK
  <2>3. /\ req[w].count >= RequiredConsensus
        /\ req[w].count <= Cardinality(After(h, b))
    BY <1>3, <2>1, <2>2 DEF IInv, MarkHasQuorum, MarkFinalized, Supporters
  <2>4. \A k \in Heights : k # h => final'[k] = final[k] /\ count'[k] = count[k]
    BY <2>2, <1>t DEF TypeOK
  <2>5. FinalizedHasQuorum'
    <3> SUFFICES ASSUME NEW k \in Heights, final'[k] # None
                 PROVE  /\ final'[k] \in Hashes
                        /\ count'[k] >= RequiredConsensus
                        /\ count'[k] <= Cardinality(After(k, final'[k]))
      BY DEF FinalizedHasQuorum, Supporters
    <3>1. CASE k = h
      BY <3>1, <2>2, <2>3
    <3>2. CASE k # h
      BY <3>2, <2>4, <1>f
    <3> QED
      BY <3>1, <3>2
  <2>6. \A x \in Workers :
           \/ req'[x] = req[x]
           \/ req'[x].pc = "done" /\ req'[x].height = h /\ req'[x].hash = b
    BY <1>3, <1>t DEF MarkFinalized, TypeOK
  <2>7. MarkHasQuorum'
    BY <2>6, <1>m DEF MarkHasQuorum, Supporters
  <2>8. AnswerIsDurable'
    <3> SUFFICES ASSUME NEW x \in Workers, req'[x].pc = "done", req'[x].finalized
                 PROVE  final'[req'[x].height] = req'[x].hash
      BY DEF AnswerIsDurable
    <3>1. CASE req'[x] = req[x]
      <4>1. final[req[x].height] = req[x].hash /\ req[x] \in Answered
        BY <3>1, <1>t, RequestByPc DEF IInv, AnswerIsDurable, TypeOK
      <4>2. req[x].hash # None /\ req[x].height \in Heights
        BY <4>1, HashAssumption DEF Answered, AnyHash
      <4> QED
        BY <3>1, <4>1, <4>2, <2>1, <2>2, <2>4
    <3>2. CASE req'[x].height = h /\ req'[x].hash = b
      BY <3>2, <2>2
    <3> QED
      BY <3>1, <3>2, <2>6
  <2> QED
    BY <1>t, <2>5, <2>7, <2>8 DEF IInv
<1>4. CASE UNCHANGED vars
  BY <1>4 DEF vars, IInv, TypeOK, FinalizedHasQuorum, MarkHasQuorum, AnswerIsDurable, Supporters
<1>5. ASSUME NEW w \in Workers, Arrive(w) \/ RecordVote(w) \/ Crash(w)
      PROVE  IInv'
  <2>1. Idle.pc \notin {"mark", "done"}
    BY DEF Idle
  <2>2. ASSUME NEW h, NEW v, NEW b, CheckVote(w, h, v, b) PROVE IInv'
    BY <2>1, <2>2, <1>1 DEF CheckVote
  <2>3. ASSUME NEW h, QueryFinality(w, h) PROVE IInv'
    BY <2>3, <1>1 DEF QueryFinality
  <2>4. CASE RecordVote(w)
    BY <2>1, <2>4, <1>1 DEF RecordVote
  <2>5. CASE Crash(w)
    BY <2>1, <2>5, <1>1 DEF Crash
  <2> QED
    BY <1>5, <2>2, <2>3, <2>4, <2>5 DEF Arrive
<1> QED
  BY <1>2, <1>3, <1>4, <1>5 DEF Next, Step

(* Every state satisfies the inductive invariant. *)
THEOREM Invariance == Spec => []IInv
  BY InvInit, InvInductive, PTL DEF Spec

(* Every finalized row is backed by a quorum of recorded votes. *)
THEOREM QuorumBehindFinality == Spec => []FinalizedHasQuorum
<1>1. IInv => FinalizedHasQuorum
  BY DEF IInv
<1> QED
  BY <1>1, Invariance, PTL

(* A client told "finalized" finds the row, whatever happens afterwards. *)
THEOREM AnswersAreDurable == Spec => []AnswerIsDurable
<1>1. IInv => AnswerIsDurable
  BY DEF IInv
<1> QED
  BY <1>1, Invariance, PTL

(* A vote on record is never changed or removed. *)
THEOREM VotesKept == Spec => VotesAreKept
<1>1. TypeOK /\ [Next]_vars
        => [\A h \in Heights, v \in Validators :
              votes[h][v] # None => votes'[h][v] = votes[h][v]]_vars
  BY VotesGrow
<1> QED
  BY <1>1, TypeCorrect, PTL DEF Spec, VotesAreKept

(* The gadget implements Finality: a height is decided once, for good. *)
THEOREM Refinement == Spec => ImplementsFinality
<1>1. Init => Promise!Init
  BY DEF Init, Promise!Init
<1>2. IInv /\ [Next]_vars => [Promise!Next]_final
  <2> SUFFICES ASSUME IInv, [Next]_vars PROVE [Promise!Next]_final
    OBVIOUS
  <2>1. ASSUME NEW w \in Workers, MarkFinalized(w) PROVE [Promise!Next]_final
    <3>1. req[w] \in Marking /\ final[req[w].height] \in {None, req[w].hash}
      BY <2>1, MarkAgrees
    <3>2. final' = [final EXCEPT ![req[w].height] = req[w].hash]
      BY <2>1 DEF MarkFinalized
    <3>3. CASE final[req[w].height] = req[w].hash
      BY <3>2, <3>3 DEF IInv, TypeOK
    <3>4. CASE final[req[w].height] = None
      BY <3>1, <3>2, <3>4 DEF Promise!Next, Promise!Decide, Marking
    <3> QED
      BY <3>1, <3>3, <3>4
  <2>2. (\E w \in Workers : MarkFinalized(w)) \/ final' = final
    BY DEF Next, vars, Arrive, Step, CheckVote, QueryFinality, RecordVote, Tally, Crash
  <2> QED
    BY <2>1, <2>2
<1> QED
  BY <1>1, <1>2, Invariance, PTL DEF Spec, ImplementsFinality, Promise!Spec

(* The hash with most votes of a finalized height is the finalized one. *)
THEOREM LeaderCorrect == Spec => []LeaderIsFinal
<1>1. IInv => LeaderIsFinal
  <2> SUFFICES ASSUME IInv, NEW h \in Heights, final[h] # None
               PROVE  Leading(h) = {final[h]}
    BY DEF LeaderIsFinal
  <2> DEFINE f == final[h]
  <2>1. /\ f \in Hashes
        /\ Cardinality(Supporters(h, f)) >= RequiredConsensus
        /\ Cardinality(Supporters(h, f)) >= 1
    BY SupportersFinite, RequiredIsPositive DEF IInv, FinalizedHasQuorum, TypeOK
  <2>2. \A c \in Hashes : c # f => Cardinality(Supporters(h, c)) < RequiredConsensus
    BY <2>1, QuorumsAgree, SupportersFinite, RequiredIsPositive DEF IInv
  <2>3. Supporters(h, f) # {}
    BY <2>1, FS_EmptySet
  <2>4. f \in Leading(h)
    BY <2>1, <2>2, <2>3, SupportersFinite, RequiredIsPositive DEF Leading
  <2>5. \A c \in Leading(h) : c = f
    BY <2>1, <2>2, SupportersFinite, RequiredIsPositive DEF Leading
  <2> QED
    BY <2>4, <2>5
<1> QED
  BY <1>1, Invariance, PTL
=============================================================================
