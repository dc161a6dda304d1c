------------------------------ MODULE Ensemble ------------------------------
(***************************************************************************)
(* The model calls that decide one lane: three at once in normalize_lanes  *)
(* (_ensemble_for_lane), then, if they leave a field without a majority,   *)
(* two more in _validate (conditional_correction).  Each call has a limit  *)
(* and one retry after a pause, each round a budget for all its calls.     *)
(* Time is counted in a unit that divides all limits; a timer fires when   *)
(* it is due.                                                              *)
(***************************************************************************)
EXTENDS Consensus

CONSTANTS LaneRecords,  \* the lanes that the model may answer
          NoLane,
          EnsembleCall, EnsembleTotal,      \* _PER_CALL_TIMEOUT_SECONDS and
          CorrectionCall, CorrectionTotal,  \* _TOTAL_BUDGET_SECONDS of either file
          Backoff                           \* _RETRY_BACKOFF_SECONDS of both

\* 20, 45; 15, 30; 0.5: what the properties need of them.
ASSUME EnsembleAssumption ==
  /\ EnsembleCall \in Nat \ {0} /\ CorrectionCall \in Nat \ {0} /\ Backoff \in Nat \ {0}
  /\ EnsembleTotal \in Nat /\ 2 * EnsembleCall + Backoff < EnsembleTotal
  /\ CorrectionTotal \in Nat /\ CorrectionCall + Backoff < CorrectionTotal
  /\ NoLane \notin LaneRecords

Samples == 0..4  \* sample_index

VARIABLES stage,
          at,       \* of each call: "idle", "asked", "paused", "voted", "failed"
          attempt,  \* the loop variable of _one_pro_call, _one_correction_call
          left,     \* time until the call's limit or the end of its pause
          budget,   \* time until the limit of the round
          votes,    \* the lane each sample voted for
          lane      \* consensus_lane

timers == <<at, attempt, left, budget>>
vars == <<stage, timers, votes, lane>>

Rounds == {"ensemble", "correction"}
Round == CASE stage = "ensemble" -> 0..2
           [] stage = "correction" -> 3..4
           [] OTHER -> {}
PerCall == IF stage = "ensemble" THEN EnsembleCall ELSE CorrectionCall

TypeOK == /\ stage \in Rounds \union {"no_majority", "agreed", "corrected", "unresolved",
                                      "accepted", "low_confidence", "failed", "timed_out"}
          /\ at \in [Samples -> {"idle", "asked", "paused", "voted", "failed"}]
          /\ attempt \in [Samples -> 0..1]
          /\ left \in [Samples -> Nat]
          /\ budget \in Nat
          /\ votes \in [Samples -> LaneRecords \union {NoLane}]
          /\ lane = NoLane \/ DOMAIN lane = Fields

\* gather starts the calls of a round together.
Init == /\ stage = "ensemble"
        /\ at = [i \in Samples |-> IF i \in 0..2 THEN "asked" ELSE "idle"]
        /\ attempt = [i \in Samples |-> 0]
        /\ left = [i \in Samples |-> IF i \in 0..2 THEN EnsembleCall ELSE 0]
        /\ budget = EnsembleTotal
        /\ votes = [i \in Samples |-> NoLane]
        /\ lane = NoLane

-----------------------------------------------------------------------------
(* One call: _one_pro_call, _one_correction_call.                          *)

\* The call ends, and its loop and its timer with it.
Return(i, outcome) == /\ at' = [at EXCEPT ![i] = outcome]
                      /\ attempt' = [attempt EXCEPT ![i] = 0]
                      /\ left' = [left EXCEPT ![i] = 0]

\* The answer parses into a LaneRecord.
Answer(i, l) ==
  /\ at[i] = "asked" /\ i \in Round
  /\ Return(i, "voted")
  /\ votes' = [votes EXCEPT ![i] = l]
  /\ UNCHANGED <<stage, budget, lane>>

Pause(i) == /\ at' = [at EXCEPT ![i] = "paused"]
            /\ left' = [left EXCEPT ![i] = Backoff]
            /\ UNCHANGED attempt

\* A mutant: a call that has timed out is always made again.
RetryForEver(i) ==
  /\ at[i] = "asked" /\ i \in Round /\ left[i] = 0
  /\ Pause(i)
  /\ UNCHANGED <<stage, budget, votes, lane>>

RetryOrRaise(i) == /\ IF attempt[i] = 0 THEN Pause(i) ELSE Return(i, "failed")
                   /\ UNCHANGED <<stage, budget, votes, lane>>

Timeout(i) == at[i] = "asked" /\ i \in Round /\ left[i] = 0 /\ RetryOrRaise(i)

\* A status of 500 to 599.
ServerError(i) == at[i] = "asked" /\ i \in Round /\ RetryOrRaise(i)

\* Any other exception: another status, no text, no JSON, not a LaneRecord.
OtherError(i) == /\ at[i] = "asked" /\ i \in Round
                 /\ Return(i, "failed")
                 /\ UNCHANGED <<stage, budget, votes, lane>>

WakeUp(i) == /\ at[i] = "paused" /\ i \in Round /\ left[i] = 0
             /\ at' = [at EXCEPT ![i] = "asked"]
             /\ attempt' = [attempt EXCEPT ![i] = attempt[i] + 1]
             /\ left' = [left EXCEPT ![i] = PerCall]
             /\ UNCHANGED <<stage, budget, votes, lane>>

-----------------------------------------------------------------------------
(* A round: wait_for(gather(...)) and what is made of its votes.           *)

Pending == {i \in Round : at[i] \in {"asked", "paused"}}

Tick == /\ Pending # {} /\ budget > 0
        /\ \A i \in Pending : left[i] > 0
        /\ budget' = budget - 1
        /\ left' = [i \in Samples |-> IF i \in Pending THEN left[i] - 1 ELSE left[i]]
        /\ UNCHANGED <<stage, at, attempt, votes, lane>>

\* The TimeoutError of the round, with its calls cancelled.
TotalTimeout == /\ Pending # {} /\ budget = 0
                /\ stage' = "timed_out"
                /\ UNCHANGED <<timers, votes, lane>>

\* combined_votes: the votes of the ensemble stay in the count.
Ballot == {i \in Samples : votes[i] # NoLane}

DecideBy(S) == IF HasMajority(votes, S)
               THEN /\ stage' = IF stage = "ensemble" THEN "agreed" ELSE "corrected"
                    /\ lane' = ConsensusLane(votes, S)
               ELSE /\ stage' = IF stage = "ensemble" THEN "no_majority" ELSE "unresolved"
                    /\ UNCHANGED lane

\* A mutant: the correction decides by its own two votes.
DecideByRound == DecideBy(Round)

Decide == DecideBy(Ballot)

\* A mutant: the result is only looked at when no call has failed.
GatherVotes == /\ stage \in Rounds /\ \A i \in Round : at[i] = "voted"
               /\ Decide
               /\ UNCHANGED <<timers, votes>>

\* One exception among the results is EnsembleError or CorrectionError.
Gather == /\ stage \in Rounds /\ Pending = {}
          /\ IF \E i \in Round : at[i] = "failed"
             THEN stage' = "failed" /\ UNCHANGED lane
             ELSE Decide
          /\ UNCHANGED <<timers, votes>>

Ask(total) ==
  /\ stage = "no_majority"
  /\ stage' = "correction"
  /\ at' = [i \in Samples |-> IF i \in 3..4 THEN "asked" ELSE at[i]]
  /\ left' = [i \in Samples |-> IF i \in 3..4 THEN CorrectionCall ELSE left[i]]
  /\ budget' = total
  /\ UNCHANGED <<attempt, votes, lane>>

\* A mutant: the round gets what one of its calls gets.
EscalateBriefly == Ask(CorrectionCall)

\* conditional_correction, which returns the prior consensus if it needs no review.
Escalate == Ask(CorrectionTotal)

\* compute_conformal_score and accepts, in _validate, for a lane of the ensemble.
Score == /\ stage = "agreed"
         /\ stage' = IF Accepts(Agreement(votes, Ballot)) THEN "accepted"
                     ELSE "low_confidence"
         /\ UNCHANGED <<timers, votes, lane>>

Call(i) == Timeout(i) \/ ServerError(i) \/ OtherError(i) \/ WakeUp(i)

Next == \/ \E i \in Samples, l \in LaneRecords : Answer(i, l)
        \/ \E i \in Samples : Call(i)
        \/ Tick \/ TotalTimeout \/ Gather \/ Escalate \/ Score

Spec == Init /\ [][Next]_vars

\* The event loop fires timers that are due and resumes what waits for them.
Loop == Tick \/ TotalTimeout \/ Gather \/ \E i \in Samples : Timeout(i) \/ WakeUp(i)

FairSpec == Spec /\ WF_vars(Loop)

-----------------------------------------------------------------------------
(* Properties.                                                             *)

Decided == lane # NoLane

\* Each field has its own majority, so the consensus may be a lane that no call
\* answered.  Any two of its fields stand together in one vote all the same: a
\* window that is inverted, the only rule on two fields, was inverted in a vote.
PairsWereVoted ==
  Decided => \A f, g \in Fields : \E i \in Ballot :
    /\ Form(votes, i, f) = Canonical(f, lane[f])
    /\ Form(votes, i, g) = Canonical(g, lane[g])

\* The correction is for the fields in dispute: what the three calls of the ensemble
\* agreed on is in the lane of five votes too.
UnanimousSurvives ==
  Decided => \A f \in Fields :
    (\A i \in 0..2 : Form(votes, i, f) = Form(votes, 0, f))
      => Canonical(f, lane[f]) = Form(votes, 0, f)

\* Both attempts and the pause fit the budget of the ensemble, whose TimeoutError
\* _normalize would not catch: no call is pending when it has run out.
EnsembleFitsItsBudget == stage = "ensemble" /\ budget = 0 => Pending = {}

\* They do not fit the budget of the correction, but what it cuts off is the end of
\* a second attempt, never a first one or a pause.
CutOffLate ==
  stage = "correction" /\ budget = 0 => \A i \in Pending :
    /\ at[i] = "asked" /\ attempt[i] = 1
    /\ left[i] <= 2 * CorrectionCall + Backoff - CorrectionTotal

\* The score counts by another canonical form than the vote, but neither way is a
\* lane flagged on which the vote sees no disagreement at all, nor one accepted
\* with half of its fields in dispute.
Unanimous(f) == \A i, j \in Ballot : Form(votes, i, f) = Form(votes, j, f)
ScoreFollowsTheVote ==
  /\ stage = "low_confidence" => \E f \in Fields : ~Unanimous(f)
  /\ stage = "accepted" => 2 * Cardinality({f \in Fields : ~Unanimous(f)}) < Cardinality(Fields)

\* No round waits for ever, even for a model that never answers.
RoundsEnd == \A s \in Rounds : stage = s ~> stage # s
=============================================================================
