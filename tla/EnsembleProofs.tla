--------------------------- MODULE EnsembleProofs ---------------------------
(***************************************************************************)
(* Proofs about Ensemble, for any limits that meet EnsembleAssumption and  *)
(* any lanes that the model may answer.  The budgets follow from what a    *)
(* call may still need at most; the consensus from the fact that two       *)
(* strict majorities of one vote meet.                                     *)
(***************************************************************************)
EXTENDS Ensemble, FiniteSetTheorems, TLAPS

\* A call is in its round, and what has not been started has nothing to say.
CallInv ==
  /\ \A i \in 0..2 : at[i] # "idle"
  /\ stage \in {"ensemble", "no_majority"} => \A i \in 3..4 : at[i] = "idle"
  /\ stage = "correction" => \A i \in 3..4 : at[i] # "idle"
  /\ stage = "no_majority" => \A i \in 0..2 : at[i] = "voted"
  /\ \A i \in Samples : at[i] # "asked" => attempt[i] = 0
  /\ \A i \in Samples : at[i] = "voted" <=> votes[i] # NoLane

RoundTotal == IF stage = "ensemble" THEN EnsembleTotal ELSE CorrectionTotal

\* The longest that a pending call may still take.
Worst(i) == IF at[i] = "paused" THEN left[i] + PerCall
            ELSE IF attempt[i] = 0 THEN left[i] + Backoff + PerCall
            ELSE left[i]

\* The round has lost no more time than its calls have.
TimeInv == \A i \in Pending : Worst(i) + RoundTotal <= budget + 2 * PerCall + Backoff

\* The votes of the ensemble are all there once it has ended well.
FirstInv == stage \notin {"ensemble", "failed", "timed_out"} => 0..2 \subseteq Ballot

DecidedStages == {"agreed", "corrected", "accepted", "low_confidence"}

Carries(f) == Canonical(f, lane[f]) \in Agreed(votes, Ballot, f)

\* Each field of the lane has a majority of the votes that decided it.
LaneInv == Decided => stage \in DecidedStages /\ \A f \in Fields : Carries(f)

IInv == TypeOK /\ CallInv /\ TimeInv /\ FirstInv /\ LaneInv

-----------------------------------------------------------------------------
(* Majorities.                                                             *)

\* How many samples there are up to one of them.
LEMMA UpTo == ASSUME NEW n \in Nat
              PROVE  IsFiniteSet(0..n) /\ Cardinality(0..n) = n + 1
<1>1. 0 \in Int /\ n \in Int
  OBVIOUS
<1>2. IsFiniteSet(0..n) /\ Cardinality(0..n) = IF 0 > n THEN 0 ELSE n - 0 + 1
  BY <1>1, FS_Interval, Zenon
<1> QED BY <1>2

\* Samples are a finite set, and so are the votes of any of them.
LEMMA SamplesFinite == /\ IsFiniteSet(Samples) /\ Cardinality(Samples) = 5
                       /\ \A S \in SUBSET Samples : /\ IsFiniteSet(S)
                                                    /\ Cardinality(S) \in 0..5
<1>1. IsFiniteSet(Samples) /\ Cardinality(Samples) = 5
  <2>1. IsFiniteSet(0..4) /\ Cardinality(0..4) = 4 + 1
    BY UpTo
  <2> QED BY <2>1 DEF Samples
<1>2. ASSUME NEW S \in SUBSET Samples PROVE IsFiniteSet(S) /\ Cardinality(S) \in 0..5
  BY <1>1, FS_Subset, FS_CardinalityType
<1> QED BY <1>1, <1>2

\* Two strict majorities of one vote have a voter in common.
LEMMA MajoritiesMeet ==
  ASSUME NEW S \in SUBSET Samples, NEW A \in SUBSET S, NEW B \in SUBSET S,
         Cardinality(A) >= Majority(Cardinality(S)), Cardinality(B) >= Majority(Cardinality(S))
  PROVE  A \intersect B # {}
<1>1. /\ IsFiniteSet(A) /\ Cardinality(A) \in 0..5
      /\ IsFiniteSet(B) /\ Cardinality(B) \in 0..5
      /\ IsFiniteSet(S) /\ Cardinality(S) \in 0..5
  BY SamplesFinite
<1>2. Cardinality(A \union B)
        = Cardinality(A) + Cardinality(B) - Cardinality(A \intersect B)
  BY <1>1, FS_Union
<1>3. Cardinality(A \union B) <= Cardinality(S)
  BY <1>1, FS_Subset, A \union B \subseteq S
<1>4. SUFFICES ASSUME A \intersect B = {} PROVE FALSE
  OBVIOUS
<1>5. Cardinality(A) + Cardinality(B) <= Cardinality(S)
  BY <1>1, <1>2, <1>3, <1>4, FS_EmptySet
<1> HIDE DEF Majority
<1>6. 2 * Majority(Cardinality(S)) > Cardinality(S)
  BY <1>1 DEF Majority
<1> QED BY <1>1, <1>5, <1>6 DEF Majority

\* Some sample is the last of any that have voted.
LEMMA LastIsOne == ASSUME NEW I \in SUBSET Samples, I # {}
                   PROVE  Last(I) \in I
<1>1. \E i \in I : \A j \in I : j <= i
  <2>1. CASE 4 \in I
    BY <2>1 DEF Samples
  <2>2. CASE 4 \notin I /\ 3 \in I
    BY <2>2 DEF Samples
  <2>3. CASE 4 \notin I /\ 3 \notin I /\ 2 \in I
    BY <2>3 DEF Samples
  <2>4. CASE 4 \notin I /\ 3 \notin I /\ 2 \notin I /\ 1 \in I
    BY <2>4 DEF Samples
  <2>5. CASE 4 \notin I /\ 3 \notin I /\ 2 \notin I /\ 1 \notin I
    <3>1. \A j \in I : j = 0
      BY <2>5 DEF Samples
    <3>2. 0 \in I
      BY <3>1
    <3>3. \A j \in I : j <= 0
      BY <3>1
    <3> QED BY <3>2, <3>3
  <2> QED BY <2>1, <2>2, <2>3, <2>4, <2>5
<1> QED BY <1>1 DEF Last

\* A form that reaches the threshold has a holder.
LEMMA AgreedHasHolder ==
  ASSUME NEW V, NEW S \in SUBSET Samples, NEW f, NEW form \in Agreed(V, S, f)
  PROVE  Holders(V, S, f, form) # {}
<1>1. Cardinality(S) \in 0..5
  BY SamplesFinite
<1>2. Majority(Cardinality(S)) >= 1
  BY <1>1 DEF Majority
<1>3. Cardinality(Holders(V, S, f, form)) >= Majority(Cardinality(S))
  BY DEF Agreed
<1>4. Cardinality({}) = 0
  BY FS_EmptySet
<1>5. Majority(Cardinality(S)) \in Int
  BY <1>1 DEF Majority
<1> QED BY <1>2, <1>3, <1>4, <1>5

\* What majority_consensus selects for a field is a reading of a form that a strict
\* majority of the votes has.
LEMMA ConsensusCarries ==
  ASSUME NEW V, NEW S \in SUBSET Samples, NEW f \in Fields, Agreed(V, S, f) # {}
  PROVE  Canonical(f, ConsensusLane(V, S)[f]) \in Agreed(V, S, f)
<1> DEFINE form == CHOOSE form \in Agreed(V, S, f) : TRUE
           H == Holders(V, S, f, form)
<1>1. form \in Agreed(V, S, f)
  OBVIOUS
<1>2. H # {}
  BY <1>1, AgreedHasHolder
<1>3. H \in SUBSET Samples
  BY DEF Holders
<1>4. Last(H) \in H
  BY <1>2, <1>3, LastIsOne
<1>5. ConsensusLane(V, S)[f] = V[Last(H)][f]
  BY DEF ConsensusLane
<1>6. Form(V, Last(H), f) = form
  BY <1>4 DEF Holders
<1> QED BY <1>1, <1>5, <1>6 DEF Form

-----------------------------------------------------------------------------
(* The invariant.                                                          *)

LEMMA InitInv == Init => IInv
<1> SUFFICES ASSUME Init PROVE IInv
  OBVIOUS
<1> USE EnsembleAssumption DEF Init, Samples
<1>1. TypeOK
  BY DEF TypeOK, Rounds
<1>2. CallInv
  BY DEF CallInv
<1>3. TimeInv
  BY DEF TimeInv, Pending, Round, Worst, PerCall, RoundTotal
<1>4. FirstInv /\ LaneInv
  BY DEF FirstInv, LaneInv, Decided
<1> QED BY <1>1, <1>2, <1>3, <1>4 DEF IInv

\* A call only has a vote to give in a round, when no lane is decided.
LEMMA AnswerStep == ASSUME IInv, NEW i \in Samples, NEW l \in LaneRecords, Answer(i, l)
                    PROVE  IInv'
<1> USE EnsembleAssumption DEF Answer, Return, Samples
<1>0. TypeOK /\ CallInv /\ TimeInv /\ FirstInv /\ LaneInv
  BY DEF IInv
<1>1. TypeOK'
  BY <1>0 DEF TypeOK
<1>2. CallInv'
  BY <1>0 DEF CallInv, TypeOK, Round
<1>3. TimeInv'
  BY <1>0 DEF TimeInv, TypeOK, Pending, Round, Worst, PerCall, RoundTotal
<1>4. FirstInv'
  BY <1>0 DEF FirstInv, TypeOK, Ballot
<1>5. stage \in Rounds
  BY DEF Round, Rounds
<1>6. LaneInv'
  BY <1>0, <1>5 DEF LaneInv, Decided, DecidedStages, Rounds
<1> QED BY <1>1, <1>2, <1>3, <1>4, <1>6 DEF IInv

\* What a call does without an answer changes no vote, and leaves it the time it had.
LEMMA CallStep == ASSUME IInv, NEW i \in Samples, Call(i)
                  PROVE  IInv'
<1> USE EnsembleAssumption DEF Samples
<1>0. TypeOK /\ CallInv /\ TimeInv /\ FirstInv /\ LaneInv
  BY DEF IInv
<1>u. /\ UNCHANGED <<stage, budget, votes, lane>>
      /\ i \in Round
  BY DEF Call, Timeout, ServerError, OtherError, WakeUp, RetryOrRaise
<1>c. \/ /\ at[i] = "asked" /\ attempt[i] = 0 /\ Pause(i)
      \/ /\ at[i] = "asked" /\ Return(i, "failed")
      \/ /\ at[i] = "paused" /\ left[i] = 0
         /\ at' = [at EXCEPT ![i] = "asked"]
         /\ attempt' = [attempt EXCEPT ![i] = attempt[i] + 1]
         /\ left' = [left EXCEPT ![i] = PerCall]
  BY DEF Call, Timeout, ServerError, OtherError, WakeUp, RetryOrRaise
<1>1. TypeOK'
  BY <1>0, <1>u, <1>c DEF TypeOK, CallInv, Pause, Return, PerCall
<1>2. CallInv'
  BY <1>0, <1>u, <1>c DEF CallInv, TypeOK, Pause, Return, Round
<1>3. TimeInv'
  BY <1>0, <1>u, <1>c
     DEF TimeInv, TypeOK, CallInv, Pause, Return, Pending, Round, Worst, PerCall, RoundTotal
<1>4. FirstInv' /\ LaneInv'
  BY <1>0, <1>u DEF FirstInv, LaneInv, Decided, DecidedStages, Ballot, Carries
<1> QED BY <1>1, <1>2, <1>3, <1>4 DEF IInv

\* Time passes for the round and its calls alike.
LEMMA TickStep == IInv /\ Tick => IInv'
<1> SUFFICES ASSUME IInv, Tick PROVE IInv'
  OBVIOUS
<1> USE EnsembleAssumption DEF Tick, Samples
<1>0. TypeOK /\ CallInv /\ TimeInv /\ FirstInv /\ LaneInv
  BY DEF IInv
<1>1. TypeOK'
  BY <1>0 DEF TypeOK, Pending
<1>2. CallInv'
  BY <1>0 DEF CallInv
<1>3. TimeInv'
  BY <1>0 DEF TimeInv, TypeOK, Pending, Round, Worst, PerCall, RoundTotal
<1>4. FirstInv' /\ LaneInv'
  BY <1>0 DEF FirstInv, LaneInv, Decided, DecidedStages, Ballot, Carries
<1> QED BY <1>1, <1>2, <1>3, <1>4 DEF IInv

\* A round that is cut off decides nothing.
LEMMA TotalTimeoutStep == IInv /\ TotalTimeout => IInv'
<1> SUFFICES ASSUME IInv, TotalTimeout PROVE IInv'
  OBVIOUS
<1> USE DEF TotalTimeout, timers
<1>0. TypeOK /\ CallInv /\ TimeInv /\ FirstInv /\ LaneInv
  BY DEF IInv
<1>1. TypeOK'
  BY <1>0 DEF TypeOK
<1>2. CallInv'
  BY <1>0 DEF CallInv
<1>3. TimeInv'
  BY DEF TimeInv, Pending, Round
<1>4. FirstInv'
  BY DEF FirstInv
<1>5. LaneInv'
  BY <1>0 DEF LaneInv, Decided, DecidedStages, Pending, Round
<1> QED BY <1>1, <1>2, <1>3, <1>4, <1>5 DEF IInv

\* A round whose calls have all voted has a majority in every field of its lane.
LEMMA GatherStep == IInv /\ Gather => IInv'
<1> SUFFICES ASSUME IInv, Gather PROVE IInv'
  OBVIOUS
<1> USE EnsembleAssumption DEF Gather, timers
<1>0. TypeOK /\ CallInv /\ TimeInv /\ FirstInv /\ LaneInv
  BY DEF IInv
<1>1. ~Decided
  BY <1>0 DEF LaneInv, DecidedStages, Rounds
<1>2. Ballot' = Ballot
  BY DEF Ballot, Decide, DecideBy
<1>3. CASE \E i \in Round : at[i] = "failed"
  <2>1. stage' = "failed" /\ UNCHANGED <<at, attempt, left, budget, votes, lane>>
    BY <1>3
  <2>2. TypeOK' /\ CallInv'
    BY <1>0, <2>1 DEF TypeOK, CallInv
  <2>3. TimeInv'
    BY <2>1 DEF TimeInv, Pending, Round
  <2>4. FirstInv' /\ LaneInv'
    BY <1>1, <2>1 DEF FirstInv, LaneInv, Decided
  <2> QED BY <2>2, <2>3, <2>4 DEF IInv
<1>4. CASE ~ \E i \in Round : at[i] = "failed"
  <2>0. Decide /\ UNCHANGED <<at, attempt, left, budget, votes>>
    BY <1>4
  <2>1. \A i \in Round : at[i] = "voted"
    BY <1>0, <1>4 DEF Pending, Round, TypeOK, CallInv, Samples, Rounds
  <2>2. 0..2 \subseteq Ballot
    <3>1. CASE stage = "ensemble"
      BY <1>0, <2>1, <3>1 DEF Round, Ballot, CallInv, Samples
    <3>2. CASE stage = "correction"
      BY <1>0, <3>2 DEF FirstInv
    <3> QED BY <3>1, <3>2 DEF Rounds
  <2>3. CASE HasMajority(votes, Ballot)
    <3>1. /\ stage' = IF stage = "ensemble" THEN "agreed" ELSE "corrected"
          /\ lane' = ConsensusLane(votes, Ballot)
      BY <2>0, <2>3 DEF Decide, DecideBy
    <3>2. Ballot \in SUBSET Samples
      BY DEF Ballot
    <3>3. ASSUME NEW f \in Fields PROVE Canonical(f, lane'[f]) \in Agreed(votes, Ballot, f)
      <4>1. Agreed(votes, Ballot, f) # {}
        BY <2>3, <3>3 DEF HasMajority
      <4> QED BY <3>1, <3>2, <4>1, ConsensusCarries
    <3>4. \A f \in Fields : Carries(f)'
      BY <3>3, <2>0, <1>2 DEF Carries
    <3>5. TypeOK'
      BY <1>0, <2>0, <3>1 DEF TypeOK, ConsensusLane
    <3>6. CallInv'
      BY <1>0, <2>0, <3>1 DEF CallInv
    <3>7. TimeInv'
      BY <3>1 DEF TimeInv, Pending, Round
    <3>8. FirstInv'
      BY <1>2, <2>2 DEF FirstInv
    <3>9. LaneInv'
      BY <3>1, <3>4 DEF LaneInv, DecidedStages
    <3> QED BY <3>5, <3>6, <3>7, <3>8, <3>9 DEF IInv
  <2>4. CASE ~HasMajority(votes, Ballot)
    <3>1. /\ stage' = IF stage = "ensemble" THEN "no_majority" ELSE "unresolved"
          /\ UNCHANGED lane
      BY <2>0, <2>4 DEF Decide, DecideBy
    <3>2. TypeOK'
      BY <1>0, <2>0, <3>1 DEF TypeOK
    <3>3. CallInv'
      BY <1>0, <2>0, <2>1, <3>1 DEF CallInv, Round, Rounds
    <3>4. TimeInv'
      BY <3>1 DEF TimeInv, Pending, Round
    <3>5. FirstInv'
      BY <1>2, <2>2 DEF FirstInv
    <3>6. LaneInv'
      BY <1>1, <3>1 DEF LaneInv, Decided
    <3> QED BY <3>2, <3>3, <3>4, <3>5, <3>6 DEF IInv
  <2> QED BY <2>3, <2>4
<1> QED BY <1>3, <1>4

\* The new round starts with all of its budget.
LEMMA EscalateStep == IInv /\ Escalate => IInv'
<1> SUFFICES ASSUME IInv, Escalate PROVE IInv'
  OBVIOUS
<1> USE EnsembleAssumption DEF Escalate, Ask, Samples
<1>0. TypeOK /\ CallInv /\ TimeInv /\ FirstInv /\ LaneInv
  BY DEF IInv
<1>1. TypeOK'
  BY <1>0 DEF TypeOK, Rounds
<1>2. CallInv'
  BY <1>0 DEF CallInv, TypeOK
<1>3. TimeInv'
  BY <1>0 DEF TimeInv, TypeOK, CallInv, Pending, Round, Worst, PerCall, RoundTotal
<1>4. FirstInv'
  BY <1>0 DEF FirstInv, Ballot
<1>5. LaneInv'
  BY <1>0 DEF LaneInv, Decided, DecidedStages
<1> QED BY <1>1, <1>2, <1>3, <1>4, <1>5 DEF IInv

\* A score changes no vote and no lane.
LEMMA ScoreStep == IInv /\ Score => IInv'
<1> SUFFICES ASSUME IInv, Score PROVE IInv'
  OBVIOUS
<1> USE DEF Score, timers
<1>0. TypeOK /\ CallInv /\ TimeInv /\ FirstInv /\ LaneInv
  BY DEF IInv
<1>s. stage = "agreed" /\ stage' \in {"accepted", "low_confidence"}
  OBVIOUS
<1>1. TypeOK'
  BY <1>0, <1>s DEF TypeOK
<1>2. CallInv'
  BY <1>0, <1>s DEF CallInv
<1>3. TimeInv'
  BY <1>s DEF TimeInv, Pending, Round
<1>4. FirstInv' /\ LaneInv'
  BY <1>0, <1>s DEF FirstInv, LaneInv, Decided, DecidedStages, Ballot, Carries
<1> QED BY <1>1, <1>2, <1>3, <1>4 DEF IInv

LEMMA StutterStep == IInv /\ UNCHANGED vars => IInv'
  BY DEF vars, timers, IInv, TypeOK, CallInv, TimeInv, FirstInv, LaneInv, Pending, Round,
         Worst, PerCall, RoundTotal, Ballot, Decided, Carries

LEMMA InvHolds == Spec => []IInv
<1>1. IInv /\ [Next]_vars => IInv'
  BY AnswerStep, CallStep, TickStep, TotalTimeoutStep, GatherStep, EscalateStep, ScoreStep,
     StutterStep DEF Next
<1> QED BY InitInv, <1>1, PTL DEF Spec

-----------------------------------------------------------------------------
(* The score.                                                              *)

\* There are ten voted fields.
LEMMA TenFields == IsFiniteSet(Fields) /\ Cardinality(Fields) = 10
<1> DEFINE F1 == {"origin_port"}
           F2 == F1 \union {"destination_port"}
           F3 == F2 \union {"equipment_type"}
           F4 == F3 \union {"commodity_code"}
           F5 == F4 \union {"base_rate_usd"}
           F6 == F5 \union {"transit_time_days"}
           F7 == F6 \union {"validity_start"}
           F8 == F7 \union {"validity_end"}
           F9 == F8 \union {"surcharges"}
<1>1. IsFiniteSet(F1) /\ Cardinality(F1) = 1
  BY FS_Singleton
<1>2. "destination_port" \notin F1 /\ "equipment_type" \notin F2 /\ "commodity_code" \notin F3
  OBVIOUS
<1>3. "base_rate_usd" \notin F4 /\ "transit_time_days" \notin F5 /\ "validity_start" \notin F6
  OBVIOUS
<1>4. "validity_end" \notin F7 /\ "surcharges" \notin F8 /\ "source_row_reference" \notin F9
  OBVIOUS
<1>5. Fields = F9 \union {"source_row_reference"}
  BY DEF Fields
<1> HIDE DEF F1
<1>f2. IsFiniteSet(F2) /\ Cardinality(F2) = 2
  BY <1>1, <1>2, FS_AddElement
<1> HIDE DEF F2
<1>f3. IsFiniteSet(F3) /\ Cardinality(F3) = 3
  BY <1>f2, <1>2, FS_AddElement
<1> HIDE DEF F3
<1>f4. IsFiniteSet(F4) /\ Cardinality(F4) = 4
  BY <1>f3, <1>2, FS_AddElement
<1> HIDE DEF F4
<1>f5. IsFiniteSet(F5) /\ Cardinality(F5) = 5
  BY <1>f4, <1>3, FS_AddElement
<1> HIDE DEF F5
<1>f6. IsFiniteSet(F6) /\ Cardinality(F6) = 6
  BY <1>f5, <1>3, FS_AddElement
<1> HIDE DEF F6
<1>f7. IsFiniteSet(F7) /\ Cardinality(F7) = 7
  BY <1>f6, <1>3, FS_AddElement
<1> HIDE DEF F7
<1>f8. IsFiniteSet(F8) /\ Cardinality(F8) = 8
  BY <1>f7, <1>4, FS_AddElement
<1> HIDE DEF F8
<1>f9. IsFiniteSet(F9) /\ Cardinality(F9) = 9
  BY <1>f8, <1>4, FS_AddElement
<1> HIDE DEF F9
<1> QED BY <1>f9, <1>4, <1>5, FS_AddElement

\* Sets without a common member add up.
LEMMA DisjointUnion ==
  ASSUME NEW A, IsFiniteSet(A), NEW B, IsFiniteSet(B), A \intersect B = {}
  PROVE  /\ IsFiniteSet(A \union B)
         /\ Cardinality(A \union B) = Cardinality(A) + Cardinality(B)
<1>1. /\ IsFiniteSet(A \union B)
      /\ Cardinality(A \union B)
           = Cardinality(A) + Cardinality(B) - Cardinality(A \intersect B)
  BY FS_Union
<1>2. Cardinality(A \intersect B) = 0
  BY FS_EmptySet
<1>3. Cardinality(A) \in Nat /\ Cardinality(B) \in Nat
  BY FS_CardinalityType
<1> QED BY <1>1, <1>2, <1>3

\* Numbering the members of a set does not change how many they are.
LEMMA ColumnSize == ASSUME NEW F, IsFiniteSet(F), NEW k
                    PROVE  LET C == {<<field, k>> : field \in F}
                           IN  IsFiniteSet(C) /\ Cardinality(C) = Cardinality(F)
<1> DEFINE C == {<<field, k>> : field \in F}
           b == [field \in F |-> <<field, k>>]
<1>1. b \in Bijection(F, C)
  BY DEF Bijection, Injection, Surjection, IsInjective
<1>2. ExistsBijection(F, C)
  BY <1>1 DEF ExistsBijection
<1> QED BY <1>2, FS_Bijection

\* The fields on which k votes are the same.
Level(V, S, k) == {field \in Fields : k <= Top(V, S, field)}

\* The largest of some counts of three votes.
LEMMA MaxOfThree == ASSUME NEW T, \A t \in T : t \in 1..3, NEW u \in T
                    PROVE  Max(T) \in T /\ (3 \in T => Max(T) = 3)
<1>1. \E x \in T : \A y \in T : x >= y
  <2>1. CASE 3 \in T
    BY <2>1
  <2>2. CASE 3 \notin T /\ 2 \in T
    BY <2>2
  <2>3. CASE 3 \notin T /\ 2 \notin T
    <3>1. \A t \in T : t = 1
      BY <2>3
    <3>2. 1 >= 1
      OBVIOUS
    <3> QED BY <3>1, <3>2
  <2> QED BY <2>1, <2>2, <2>3
<1>2. Max(T) \in T /\ \A y \in T : Max(T) >= y
  BY <1>1 DEF Max
<1>3. Max(T) \in 1..3
  BY <1>2
<1>4. ASSUME 3 \in T PROVE Max(T) = 3
  <2>1. Max(T) >= 3
    BY <1>2, <1>4
  <2> QED BY <1>3, <2>1
<1> QED BY <1>2, <1>4

\* How often the commonest reading of a field occurs among three votes.
LEMMA TopRange ==
  ASSUME NEW V, NEW f \in Fields
  PROVE  /\ Top(V, 0..2, f) \in 1..3
         /\ Top(V, 0..2, f) = 3 <=> \A i, j \in 0..2 : V[i][f] = V[j][f]
<1> DEFINE Same(i) == {j \in 0..2 : V[j][f] = V[i][f]}
           T == {Cardinality(Same(i)) : i \in 0..2}
<1>0. IsFiniteSet(0..2) /\ Cardinality(0..2) = 3
  <2>1. IsFiniteSet(0..2) /\ Cardinality(0..2) = 2 + 1
    BY UpTo
  <2> QED BY <2>1
<1>1. ASSUME NEW i \in 0..2
      PROVE  Cardinality(Same(i)) \in 1..3 /\ (Cardinality(Same(i)) = 3 <=> Same(i) = 0..2)
  <2>1. Same(i) \in SUBSET (0..2) /\ i \in Same(i)
    OBVIOUS
  <2>2. IsFiniteSet(Same(i)) /\ Cardinality(Same(i)) <= 3
        /\ (3 = Cardinality(Same(i)) => 0..2 = Same(i))
    BY <1>0, <2>1, FS_Subset
  <2>3. Cardinality(Same(i)) # 0
    BY <2>1, <2>2, FS_EmptySet
  <2>4. Cardinality(Same(i)) \in Nat
    BY <2>2, FS_CardinalityType
  <2>5. Same(i) = 0..2 => Cardinality(Same(i)) = 3
    BY <1>0
  <2> HIDE DEF Same
  <2> QED BY <2>2, <2>3, <2>4, <2>5
<1>2. \A t \in T : t \in 1..3
  BY <1>1
<1>3. Cardinality(Same(0)) \in T
  OBVIOUS
<1>4. Top(V, 0..2, f) = Max(T)
  BY DEF Top
<1>5. Max(T) \in T /\ (3 \in T => Max(T) = 3)
  BY <1>2, <1>3, MaxOfThree
<1>6. ASSUME \A i, j \in 0..2 : V[i][f] = V[j][f] PROVE Max(T) = 3
  <2>1. Same(0) = 0..2
    BY <1>6
  <2>2. Cardinality(Same(0)) = 3
    BY <1>0, <2>1
  <2> QED BY <1>3, <1>5, <2>2
<1>7. ASSUME Max(T) = 3, NEW i \in 0..2, NEW j \in 0..2 PROVE V[i][f] = V[j][f]
  <2>1. PICK m \in 0..2 : Cardinality(Same(m)) = 3
    BY <1>5, <1>7
  <2>2. Same(m) = 0..2
    BY <1>1, <2>1
  <2>3. i \in Same(m) /\ j \in Same(m)
    BY <2>2
  <2> QED BY <2>3
<1> HIDE DEF T
<1> QED BY <1>2, <1>4, <1>5, <1>6, <1>7

\* The sum of the tops of three votes, field by field and level by level.
LEMMA CountedByLevel ==
  ASSUME NEW V
  PROVE  /\ Cardinality(Counted(V, 0..2)) \in Nat
         /\ Cardinality(Counted(V, 0..2)) = 10 + Cardinality(Level(V, 0..2, 2))
                                             + Cardinality(Level(V, 0..2, 3))
<1> DEFINE L2 == Level(V, 0..2, 2)
           L3 == Level(V, 0..2, 3)
           C1 == {<<field, 1>> : field \in Fields}
           C2 == {<<field, 2>> : field \in L2}
           C3 == {<<field, 3>> : field \in L3}
<1>1. L2 \in SUBSET Fields /\ L3 \in SUBSET Fields
  BY DEF Level
<1>2. IsFiniteSet(L2) /\ IsFiniteSet(L3)
  BY <1>1, TenFields, FS_Subset
<1>3. IsFiniteSet(C1) /\ Cardinality(C1) = 10
  BY TenFields, ColumnSize
<1>4. IsFiniteSet(C2) /\ Cardinality(C2) = Cardinality(L2)
  BY <1>2, ColumnSize
<1>5. IsFiniteSet(C3) /\ Cardinality(C3) = Cardinality(L3)
  BY <1>2, ColumnSize
<1>7. Counted(V, 0..2) = (C1 \union C2) \union C3
  <2>1. \A field \in Fields : Top(V, 0..2, field) \in 1..3
    BY TopRange
  <2>2. ASSUME NEW field, NEW k, field \in Fields
        PROVE  k \in 1..Top(V, 0..2, field)
                 <=> \/ k = 1
                     \/ k = 2 /\ field \in L2
                     \/ k = 3 /\ field \in L3
    BY <2>1, <2>2 DEF Level
  <2>3. ASSUME NEW p
        PROVE  p \in Counted(V, 0..2) <=> p \in (C1 \union C2) \union C3
    <3>1. p \in Counted(V, 0..2)
            <=> \E field \in Fields : \E k \in 1..Top(V, 0..2, field) : p = <<field, k>>
      BY DEF Counted
    <3>2. p \in (C1 \union C2) \union C3
            <=> \E field \in Fields : \/ p = <<field, 1>>
                                      \/ p = <<field, 2>> /\ field \in L2
                                      \/ p = <<field, 3>> /\ field \in L3
      BY <1>1
    <3> QED BY <3>1, <3>2, <2>2
  <2> QED BY <2>3
<1>8. C1 \intersect C2 = {} /\ (C1 \union C2) \intersect C3 = {}
  OBVIOUS
<1> HIDE DEF C1, C2, C3, L2, L3
<1>9. IsFiniteSet(C1 \union C2) /\ Cardinality(C1 \union C2) = 10 + Cardinality(L2)
  BY <1>3, <1>4, <1>8, DisjointUnion
<1>10. /\ IsFiniteSet((C1 \union C2) \union C3)
       /\ Cardinality((C1 \union C2) \union C3) = 10 + Cardinality(L2) + Cardinality(L3)
  BY <1>5, <1>8, <1>9, DisjointUnion
<1> QED BY <1>7, <1>10, FS_CardinalityType DEF L2, L3

\* What the score of three votes comes to.
LEMMA ScoreOfThree ==
  ASSUME NEW V
  PROVE  /\ Cardinality(Counted(V, 0..2)) >= 26 => Accepts(Agreement(V, 0..2))
         /\ Cardinality(Counted(V, 0..2)) <= 25 => ~Accepts(Agreement(V, 0..2))
<1> DEFINE n == Cardinality(Counted(V, 0..2))
<1>1. n \in Nat
  BY CountedByLevel
<1>2. Cardinality(0..2) = 3
  <2>1. Cardinality(0..2) = 2 + 1
    BY UpTo
  <2> QED BY <2>1
<1>3. Agreement(V, 0..2) = (2000 * n + 30) \div 60
  BY <1>2, TenFields DEF Agreement
<1> HIDE DEF n
<1>4. n >= 26 => (2000 * n + 30) \div 60 >= 850
  BY <1>1
<1>5. n <= 25 => (2000 * n + 30) \div 60 < 850
  BY <1>1
<1> QED BY <1>1, <1>3, <1>4, <1>5 DEF Accepts, n

\* A lane on which the vote sees no disagreement clears the threshold: the score can
\* miss the order of the surcharges, which is one field of ten.
LEMMA UndisputedIsAccepted ==
  ASSUME NEW V, \A f \in Fields, i, j \in 0..2 : Form(V, i, f) = Form(V, j, f)
  PROVE  Accepts(Agreement(V, 0..2))
<1> DEFINE Rest == Fields \ {"surcharges"}
<1>1. IsFiniteSet(Rest) /\ Cardinality(Rest) = 9
  <2>1. "surcharges" \in Fields
    BY DEF Fields
  <2> QED BY <2>1, TenFields, FS_RemoveElement
<1>2. ASSUME NEW f \in Rest PROVE Top(V, 0..2, f) = 3
  <2>1. \A i, j \in 0..2 : V[i][f] = V[j][f]
    BY DEF Form, Canonical
  <2> QED BY <2>1, TopRange
<1>3. Rest \subseteq Level(V, 0..2, 2) /\ Rest \subseteq Level(V, 0..2, 3)
  BY <1>2 DEF Level
<1>4. ASSUME NEW k PROVE IsFiniteSet(Level(V, 0..2, k)) /\ Cardinality(Level(V, 0..2, k)) \in Nat
  BY TenFields, FS_Subset, FS_CardinalityType, Level(V, 0..2, k) \subseteq Fields DEF Level
<1> HIDE DEF Rest
<1>5. Cardinality(Level(V, 0..2, 2)) >= 9 /\ Cardinality(Level(V, 0..2, 3)) >= 9
  BY <1>1, <1>3, <1>4, FS_Subset
<1>6. Cardinality(Counted(V, 0..2)) >= 26
  BY <1>4, <1>5, CountedByLevel
<1> QED BY <1>6, ScoreOfThree

\* A lane with half of its fields in dispute does not.
LEMMA DisputedIsFlagged ==
  ASSUME NEW V, NEW D \in SUBSET Fields, Cardinality(D) >= 5,
         \A f \in D : \E i, j \in 0..2 : Form(V, i, f) # Form(V, j, f)
  PROVE  ~Accepts(Agreement(V, 0..2))
<1>1. IsFiniteSet(D) /\ Cardinality(D) \in Nat
  BY TenFields, FS_Subset, FS_CardinalityType
<1>2. ASSUME NEW f \in D PROVE f \notin Level(V, 0..2, 3)
  <2>1. \E i, j \in 0..2 : V[i][f] # V[j][f]
    BY DEF Form
  <2>2. Top(V, 0..2, f) \in 1..3 /\ Top(V, 0..2, f) # 3
    BY <2>1, TopRange
  <2> QED BY <2>2 DEF Level
<1>3. ASSUME NEW k PROVE /\ IsFiniteSet(Level(V, 0..2, k)) /\ Cardinality(Level(V, 0..2, k)) \in Nat
                         /\ Cardinality(Level(V, 0..2, k)) <= 10
  BY TenFields, FS_Subset, FS_CardinalityType, Level(V, 0..2, k) \subseteq Fields DEF Level
<1>4. D \intersect Level(V, 0..2, 3) = {}
  BY <1>2
<1>5. Cardinality(D \union Level(V, 0..2, 3))
        = Cardinality(D) + Cardinality(Level(V, 0..2, 3))
  BY <1>1, <1>3, <1>4, DisjointUnion
<1>6. D \union Level(V, 0..2, 3) \subseteq Fields
  BY DEF Level
<1>7. Cardinality(D) + Cardinality(Level(V, 0..2, 3)) <= 10
  BY <1>5, <1>6, TenFields, FS_Subset
<1>8. Cardinality(Counted(V, 0..2)) <= 25
  BY <1>1, <1>3, <1>7, CountedByLevel
<1> QED BY <1>8, ScoreOfThree

\* The score is that of the three votes of the ensemble.
ScoreInv ==
  /\ stage \in {"agreed", "accepted", "low_confidence"} => Ballot = 0..2
  /\ stage = "accepted" => Accepts(Agreement(votes, 0..2))
  /\ stage = "low_confidence" => ~Accepts(Agreement(votes, 0..2))

LEMMA ScoreInvStep == ASSUME IInv, ScoreInv, [Next]_vars
                      PROVE  ScoreInv'
<1>0. TypeOK /\ CallInv /\ FirstInv
  BY DEF IInv
<1>1. CASE UNCHANGED vars
  BY <1>1 DEF vars, ScoreInv, Ballot
<1>2. ASSUME NEW i \in Samples, NEW l \in LaneRecords, Answer(i, l) PROVE ScoreInv'
  BY <1>2 DEF Answer, Round, ScoreInv
<1>3. ASSUME NEW i \in Samples, Call(i) PROVE ScoreInv'
  BY <1>3 DEF Call, Timeout, ServerError, OtherError, WakeUp, RetryOrRaise, ScoreInv, Ballot
<1>4. CASE Tick
  BY <1>4 DEF Tick, ScoreInv, Ballot
<1>5. CASE TotalTimeout
  BY <1>5 DEF TotalTimeout, ScoreInv
<1>6. CASE Gather
  <2>1. CASE stage = "ensemble" /\ stage' = "agreed"
    <3>1. votes' = votes /\ ~ \E i \in Round : at[i] = "failed"
      BY <1>6, <2>1 DEF Gather
    <3>2. \A i \in 0..2 : at[i] = "voted"
      BY <1>0, <1>6, <2>1, <3>1 DEF Gather, Pending, Round, TypeOK, CallInv, Samples
    <3>3. \A i \in 3..4 : at[i] # "voted"
      BY <1>0, <2>1 DEF CallInv
    <3>4. Ballot = 0..2
      BY <1>0, <3>2, <3>3 DEF Ballot, CallInv, Samples
    <3> QED BY <2>1, <3>1, <3>4 DEF ScoreInv, Ballot
  <2>2. CASE ~(stage = "ensemble" /\ stage' = "agreed")
    BY <1>6, <2>2 DEF Gather, Decide, DecideBy, ScoreInv
  <2> QED BY <2>1, <2>2
<1>7. CASE Escalate
  BY <1>7 DEF Escalate, Ask, ScoreInv
<1>8. CASE Score
  BY <1>8 DEF Score, ScoreInv, Ballot
<1> QED BY <1>1, <1>2, <1>3, <1>4, <1>5, <1>6, <1>7, <1>8 DEF Next

-----------------------------------------------------------------------------
(* The theorems.                                                           *)

\* Every variable keeps its type, whatever the model answers and whenever.
THEOREM TypeCorrect == Spec => []TypeOK
<1>1. IInv => TypeOK
  BY DEF IInv
<1> QED BY InvHolds, <1>1, PTL

\* normalizer.py: for any limits of which two and the pause fit the total, the round
\* of the ensemble is never cut off, so its TimeoutError cannot wedge the job.
THEOREM EnsembleInBudget == Spec => []EnsembleFitsItsBudget
<1>1. IInv => EnsembleFitsItsBudget
  <2> SUFFICES ASSUME IInv, stage = "ensemble", budget = 0, NEW i \in Pending PROVE FALSE
    BY DEF EnsembleFitsItsBudget
  <2>1. i \in Samples /\ left[i] \in Nat
    BY DEF IInv, TypeOK, Pending, Round, Samples
  <2>2. Worst(i) >= 0
    BY <2>1, EnsembleAssumption DEF Worst, PerCall
  <2>3. Worst(i) \in Int
    BY <2>1, EnsembleAssumption DEF Worst, PerCall
  <2> QED BY <2>2, <2>3, EnsembleAssumption DEF IInv, TimeInv, RoundTotal, PerCall
<1> QED BY InvHolds, <1>1, PTL

\* correction.py: the total of 30 s is too short for 15 + 0.5 + 15, but all that it
\* can cut off is what a second attempt would take beyond it.
THEOREM CorrectionCutOff == Spec => []CutOffLate
<1>1. IInv => CutOffLate
  <2> SUFFICES ASSUME IInv, stage = "correction", budget = 0, NEW i \in Pending
               PROVE  /\ at[i] = "asked" /\ attempt[i] = 1
                      /\ left[i] <= 2 * CorrectionCall + Backoff - CorrectionTotal
    BY DEF CutOffLate
  <2>1. i \in Samples /\ left[i] \in Nat /\ attempt[i] \in 0..1 /\ at[i] \in {"asked", "paused"}
    BY DEF IInv, TypeOK, Pending, Round, Samples
  <2>2. Worst(i) + CorrectionTotal <= 2 * CorrectionCall + Backoff
    BY EnsembleAssumption DEF IInv, TimeInv, RoundTotal, PerCall
  <2>3. at[i] = "asked"
    BY <2>1, <2>2, EnsembleAssumption DEF Worst, PerCall
  <2>4. attempt[i] = 1
    BY <2>1, <2>2, <2>3, EnsembleAssumption DEF Worst, PerCall
  <2> QED BY <2>1, <2>2, <2>3, <2>4, EnsembleAssumption DEF Worst
<1> QED BY InvHolds, <1>1, PTL

\* consensus.py: though the fields are counted one by one, every two fields of a
\* consensus were together in some vote.
THEOREM PairsTogether == Spec => []PairsWereVoted
<1>1. IInv => PairsWereVoted
  <2> SUFFICES ASSUME IInv, Decided, NEW f \in Fields, NEW g \in Fields
               PROVE  \E i \in Ballot : /\ Form(votes, i, f) = Canonical(f, lane[f])
                                        /\ Form(votes, i, g) = Canonical(g, lane[g])
    BY DEF PairsWereVoted
  <2> DEFINE F == Holders(votes, Ballot, f, Canonical(f, lane[f]))
             G == Holders(votes, Ballot, g, Canonical(g, lane[g]))
  <2>1. Ballot \in SUBSET Samples /\ F \in SUBSET Ballot /\ G \in SUBSET Ballot
    BY DEF Ballot, Holders
  <2>2. /\ Cardinality(F) >= Majority(Cardinality(Ballot))
        /\ Cardinality(G) >= Majority(Cardinality(Ballot))
    BY DEF IInv, LaneInv, Carries, Agreed
  <2>3. F \intersect G # {}
    BY <2>1, <2>2, MajoritiesMeet
  <2> QED BY <2>3 DEF Holders
<1> QED BY InvHolds, <1>1, PTL

\* correction.py: two more votes overturn no field on which the three agreed.
THEOREM CleanFieldsSurvive == Spec => []UnanimousSurvives
<1>1. IInv => UnanimousSurvives
  <2> SUFFICES ASSUME IInv, Decided, NEW f \in Fields,
                      \A i \in 0..2 : Form(votes, i, f) = Form(votes, 0, f)
               PROVE  Canonical(f, lane[f]) = Form(votes, 0, f)
    BY DEF UnanimousSurvives
  <2> DEFINE U == Holders(votes, Ballot, f, Form(votes, 0, f))
             W == Holders(votes, Ballot, f, Canonical(f, lane[f]))
  <2>1. Ballot \in SUBSET Samples /\ U \in SUBSET Ballot /\ W \in SUBSET Ballot
    BY DEF Ballot, Holders
  <2>2. 0..2 \subseteq U
    BY DEF IInv, LaneInv, DecidedStages, FirstInv, Holders
  <2>3. Cardinality(0..2) = 3
    <3>1. Cardinality(0..2) = 2 + 1
      BY UpTo
    <3> QED BY <3>1
  <2>4. Cardinality(U) >= 3
    <3>1. IsFiniteSet(U) /\ Cardinality(U) \in 0..5
      BY <2>1, SamplesFinite
    <3> QED BY <3>1, <2>2, <2>3, FS_Subset
  <2>5. Cardinality(U) >= Majority(Cardinality(Ballot))
    <3>1. Cardinality(Ballot) \in 0..5
      BY <2>1, SamplesFinite
    <3>2. Majority(Cardinality(Ballot)) <= 3 /\ Majority(Cardinality(Ballot)) \in Int
      BY <3>1 DEF Majority
    <3>3. Cardinality(U) \in 0..5
      BY <2>1, SamplesFinite
    <3> QED BY <3>2, <3>3, <2>4
  <2>6. Cardinality(W) >= Majority(Cardinality(Ballot))
    BY DEF IInv, LaneInv, Carries, Agreed
  <2>7. U \intersect W # {}
    BY <2>1, <2>5, <2>6, MajoritiesMeet
  <2> QED BY <2>7 DEF Holders
<1> QED BY InvHolds, <1>1, PTL

\* consensus.py: the reading selected for a field is the one that a strict majority
\* holds, up to the order of its surcharges.  No second form reaches the threshold, so
\* the order of the votes and of most_common decides nothing.
THEOREM ConsensusIsTheMajority ==
  ASSUME NEW V, NEW S \in SUBSET Samples, NEW f \in Fields, Agreed(V, S, f) # {}
  PROVE  Agreed(V, S, f) = {Canonical(f, ConsensusLane(V, S)[f])}
<1>1. ASSUME NEW g \in Agreed(V, S, f), NEW h \in Agreed(V, S, f) PROVE g = h
  <2>1. Holders(V, S, f, g) \in SUBSET S /\ Holders(V, S, f, h) \in SUBSET S
    BY DEF Holders
  <2>2. Holders(V, S, f, g) \intersect Holders(V, S, f, h) # {}
    BY <2>1, MajoritiesMeet DEF Agreed
  <2> QED BY <2>2 DEF Holders
<1>2. Canonical(f, ConsensusLane(V, S)[f]) \in Agreed(V, S, f)
  BY ConsensusCarries
<1> QED BY <1>1, <1>2

\* conformal.py: by its other canonical form the score flags no lane on which the vote
\* is unanimous, and accepts none with half of its fields in dispute.
THEOREM ScoreSound == Spec => []ScoreFollowsTheVote
<1>1. Init => ScoreInv
  BY DEF Init, ScoreInv
<1>2. IInv /\ ScoreInv /\ [Next]_vars => ScoreInv'
  BY ScoreInvStep
<1>3. ScoreInv => ScoreFollowsTheVote
  <2> SUFFICES ASSUME ScoreInv PROVE ScoreFollowsTheVote
    OBVIOUS
  <2>1. ASSUME stage = "low_confidence" PROVE \E f \in Fields : ~Unanimous(f)
    BY <2>1, UndisputedIsAccepted DEF ScoreInv, Unanimous
  <2>2. ASSUME stage = "accepted"
        PROVE  2 * Cardinality({f \in Fields : ~Unanimous(f)}) < Cardinality(Fields)
    <3> DEFINE D == {f \in Fields : ~Unanimous(f)}
    <3>1. Ballot = 0..2 /\ Accepts(Agreement(votes, 0..2))
      BY <2>2 DEF ScoreInv
    <3>2. \A f \in D : \E i, j \in 0..2 : Form(votes, i, f) # Form(votes, j, f)
      BY <3>1 DEF Unanimous
    <3>3. D \in SUBSET Fields
      OBVIOUS
    <3> HIDE DEF D
    <3>4. ~(Cardinality(D) >= 5)
      BY <3>1, <3>2, <3>3, DisputedIsFlagged
    <3>5. Cardinality(D) \in Nat
      BY <3>3, TenFields, FS_Subset, FS_CardinalityType
    <3> QED BY <3>4, <3>5, TenFields DEF D
  <2> QED BY <2>1, <2>2 DEF ScoreFollowsTheVote
<1> QED BY InvHolds, <1>1, <1>2, <1>3, PTL DEF Spec

\* What a call may still do: be asked twice, with a pause in between.
Rank(i) == CASE at[i] = "asked" -> IF attempt[i] = 0 THEN 3 ELSE 1
             [] at[i] = "paused" -> 2
             [] OTHER -> 0

StepsLeft == budget + Rank(0) + Rank(1) + Rank(2) + Rank(3) + Rank(4)

\* wait_for(gather(...)): a round cannot go on for ever, for each step that does not
\* end it takes something from what its budget and its calls have left.
THEOREM RoundsRunOut ==
  Spec => [][(stage \in Rounds /\ stage' = stage)
               => (StepsLeft' \in Nat /\ StepsLeft' < StepsLeft)]_vars
<1> USE DEF Samples
<1>t. ASSUME TypeOK PROVE StepsLeft \in Nat /\ \A i \in Samples : Rank(i) \in 0..3
  <2>1. \A i \in Samples : Rank(i) \in 0..3
    BY DEF Rank
  <2> QED BY <1>t, <2>1 DEF TypeOK, StepsLeft
<1>c. ASSUME IInv, IInv', NEW i \in Samples, \A j \in Samples \ {i} : Rank(j)' = Rank(j),
             Rank(i)' < Rank(i), budget' = budget
      PROVE  StepsLeft' \in Nat /\ StepsLeft' < StepsLeft
  <2>1. TypeOK /\ TypeOK'
    BY <1>c DEF IInv
  <2>2. \A j \in Samples : Rank(j) \in 0..3 /\ Rank(j)' \in 0..3
    <3>1. \A j \in Samples : Rank(j) \in 0..3
      BY DEF Rank
    <3>2. \A j \in Samples : Rank(j)' \in 0..3
      BY DEF Rank
    <3> QED BY <3>1, <3>2
  <2> HIDE DEF Rank
  <2> QED BY <1>c, <2>1, <2>2 DEF TypeOK, StepsLeft
<1>1. ASSUME IInv, IInv', Next, stage \in Rounds, stage' = stage
      PROVE  StepsLeft' \in Nat /\ StepsLeft' < StepsLeft
  <2>0. TypeOK /\ TypeOK'
    BY <1>1 DEF IInv
  <2>1. ASSUME NEW i \in Samples, NEW l \in LaneRecords, Answer(i, l)
        PROVE  StepsLeft' \in Nat /\ StepsLeft' < StepsLeft
    <3>1. \A j \in Samples \ {i} : Rank(j)' = Rank(j)
      BY <2>0, <2>1 DEF Answer, Return, Rank, TypeOK
    <3>2. Rank(i)' < Rank(i) /\ budget' = budget
      BY <2>0, <2>1 DEF Answer, Return, Rank, TypeOK
    <3> QED BY <1>1, <1>c, <3>1, <3>2
  <2>2. ASSUME NEW i \in Samples, Call(i)
        PROVE  StepsLeft' \in Nat /\ StepsLeft' < StepsLeft
    <3>c. \/ /\ at[i] = "asked" /\ attempt[i] = 0 /\ Pause(i)
          \/ /\ at[i] = "asked" /\ Return(i, "failed")
          \/ /\ at[i] = "paused"
             /\ at' = [at EXCEPT ![i] = "asked"]
             /\ attempt' = [attempt EXCEPT ![i] = attempt[i] + 1]
      BY <2>2 DEF Call, Timeout, ServerError, OtherError, WakeUp, RetryOrRaise
    <3>1. \A j \in Samples \ {i} : Rank(j)' = Rank(j)
      BY <2>0, <3>c DEF Pause, Return, Rank, TypeOK
    <3>2. Rank(i)' < Rank(i)
      BY <2>0, <3>c DEF Pause, Return, Rank, TypeOK
    <3>3. budget' = budget
      BY <2>2 DEF Call, Timeout, ServerError, OtherError, WakeUp, RetryOrRaise
    <3> QED BY <1>1, <1>c, <3>1, <3>2, <3>3
  <2>3. CASE Tick
    <3>1. \A j \in Samples : Rank(j)' = Rank(j)
      BY <2>3 DEF Tick, Rank
    <3>2. budget \in Nat /\ budget' = budget - 1 /\ budget > 0
      BY <2>0, <2>3 DEF Tick, TypeOK
    <3>3. \A j \in Samples : Rank(j) \in 0..3
      BY <2>0, <1>t
    <3> HIDE DEF Rank
    <3> QED BY <3>1, <3>2, <3>3 DEF StepsLeft
  <2>4. ~TotalTimeout
    BY <1>1 DEF TotalTimeout, Rounds
  <2>5. ~Gather
    BY <1>1 DEF Gather, Decide, DecideBy, Rounds
  <2>6. ~Escalate /\ ~Score
    BY <1>1 DEF Escalate, Ask, Score, Rounds
  <2> QED BY <1>1, <2>1, <2>2, <2>3, <2>4, <2>5, <2>6 DEF Next
<1>2. IInv /\ IInv' /\ [Next]_vars
        => [(stage \in Rounds /\ stage' = stage) => (StepsLeft' \in Nat /\ StepsLeft' < StepsLeft)]_vars
  BY <1>1
<1> QED BY InvHolds, <1>2, PTL DEF Spec
=============================================================================
