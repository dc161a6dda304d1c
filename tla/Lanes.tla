------------------------------- MODULE Lanes -------------------------------
(***************************************************************************)
(* Where each lane of one ratesheet goes: the shape scans of the Excel     *)
(* extractor, the ensemble and port resolution of normalize_lanes, and the *)
(* hard rules, conformal scores and corrections of _validate.              *)
(*                                                                         *)
(* Lanes are the positions of the list the extractor model returned.  That *)
(* model also chooses lane_id, the key of onramp_conformal_scores, and     *)
(* nothing keeps two lanes of a sheet from having the same.                *)
(***************************************************************************)
EXTENDS Naturals, FiniteSets

CONSTANTS N,       \* lanes the model returns
          Ids,     \* lane_id values
          Rows,    \* (sheet, row) references
          NoVotes

AllLanes == 1..N
\* A ConsensusResult and its votes: whose they are, whether some field has no
\* majority, whether the agreement is below the threshold.
Ballots == [lane : AllLanes, split : BOOLEAN, low : BOOLEAN]

ASSUME LanesAssumption == N \in Nat /\ NoVotes \notin Ballots

VARIABLES
  id, row,       \* of each returned lane: lane_id, source_row_reference
  bad,           \* returned lanes with a port code that is not a UN/LOCODE
  scanned,       \* rows that the scan before the model call has lifted out
  phase,
  next,          \* the lane that the loop of normalize_lanes is at
  results,       \* its consensus_results
  votes,         \* onramp_conformal_scores by lane_id
  kept,          \* NormalizedRatesheet.lanes
  flags,         \* flagged_for_review: <<lane, reason>>
  shape,         \* shape_violating_lanes, one per row
  rejected,      \* deterministically_rejected: lanes
  rejectedRows,  \* deterministically_rejected: the carriers of shape
  pending,       \* flags that the correction loop has still to look at
  corrected      \* lanes for which five votes reached a majority (history)

inputs == <<id, row, bad, scanned>>
vars == <<inputs, phase, next, results, votes, kept, flags, shape, rejected,
          rejectedRows, pending, corrected>>

Phases == {"extract", "normalize", "rules", "score", "correct", "done", "failed"}
Reasons == {"no_majority", "port_obfuscation_unresolved", "low_confidence"}

TypeOK == /\ id \in [AllLanes -> Ids] /\ row \in [AllLanes -> Rows]
          /\ bad \in SUBSET AllLanes /\ scanned \in SUBSET Rows
          /\ phase \in Phases
          /\ next \in 1..(N + 1)
          /\ results \in [AllLanes -> Ballots \union {NoVotes}]
          /\ votes \in [Ids -> Ballots \union {NoVotes}]
          /\ kept \in SUBSET AllLanes
          /\ flags \in SUBSET (AllLanes \X Reasons)
          /\ shape \in SUBSET Rows
          /\ rejected \in SUBSET AllLanes /\ rejectedRows \in SUBSET Rows
          /\ pending \in SUBSET (AllLanes \X Reasons)
          /\ corrected \in SUBSET AllLanes

\* Whatever the workbook and the model.
Init == /\ id \in [AllLanes -> Ids] /\ row \in [AllLanes -> Rows]
        /\ bad \in SUBSET AllLanes /\ scanned \in SUBSET Rows
        /\ phase = "extract" /\ next = 1
        /\ results = [l \in AllLanes |-> NoVotes]
        /\ votes = [i \in Ids |-> NoVotes]
        /\ kept = {} /\ flags = {} /\ shape = {}
        /\ rejected = {} /\ rejectedRows = {}
        /\ pending = {} /\ corrected = {}

\* The except clauses of the tasks: the job fails, no further output is written.
Fail == /\ phase \notin {"done", "failed"}
        /\ phase' = "failed"
        /\ UNCHANGED <<inputs, next, results, votes, kept, flags, shape, rejected,
                       rejectedRows, pending, corrected>>

\* extract_excel_payload: both scans, their union by row.
Extract ==
  /\ phase = "extract"
  /\ shape' = scanned \union {row[l] : l \in bad}
  /\ phase' = "normalize"
  /\ UNCHANGED <<inputs, next, results, votes, kept, flags, rejected, rejectedRows,
                 pending, corrected>>

-----------------------------------------------------------------------------
(* normalize_lanes.                                                        *)

\* A lane that the scan after the model call took out of the list.
SkipViolator ==
  /\ phase = "normalize" /\ next \in bad
  /\ next' = next + 1
  /\ UNCHANGED <<inputs, phase, results, votes, kept, flags, shape, rejected, rejectedRows,
                 pending, corrected>>

\* _ensemble_for_lane: three votes on the lane.
Vote(split, low) ==
  /\ phase = "normalize" /\ next \in AllLanes \ bad
  /\ results' = [results EXCEPT ![next] = [lane |-> next, split |-> split, low |-> low]]
  /\ next' = next + 1
  /\ UNCHANGED <<inputs, phase, votes, shape, rejected, rejectedRows, pending, corrected>>

\* A mutant: the lane is flagged and the loop falls through.
NoMajorityKept(low) ==
  /\ Vote(TRUE, low)
  /\ flags' = flags \union {<<next, "no_majority">>}
  /\ kept' = kept \union {next}

NoMajority(low) ==
  /\ Vote(TRUE, low)
  /\ flags' = flags \union {<<next, "no_majority">>}
  /\ UNCHANGED kept

\* One of the consensus ports is in no reference table.
Unresolved(low) ==
  /\ Vote(FALSE, low)
  /\ flags' = flags \union {<<next, "port_obfuscation_unresolved">>}
  /\ UNCHANGED kept

Resolved(low) ==
  /\ Vote(FALSE, low)
  /\ kept' = kept \union {next}
  /\ UNCHANGED flags

\* A mutant: the votes are not kept for the next stage.
CommitWithoutVotes ==
  /\ phase = "normalize" /\ next = N + 1
  /\ phase' = "rules"
  /\ UNCHANGED <<inputs, next, results, votes, kept, flags, shape, rejected, rejectedRows,
                 pending, corrected>>

Voted(i) == {l \in AllLanes \ bad : id[l] = i}

\* _persist_consensus_votes: one row per lane_id, the last lane of it wins.
CommitNormalized ==
  /\ phase = "normalize" /\ next = N + 1
  /\ votes' = [i \in Ids |->
                 IF Voted(i) = {} THEN NoVotes
                 ELSE results[CHOOSE l \in Voted(i) : \A m \in Voted(i) : m <= l]]
  /\ phase' = "rules"
  /\ UNCHANGED <<inputs, next, results, kept, flags, shape, rejected, rejectedRows,
                 pending, corrected>>

-----------------------------------------------------------------------------
(* _validate.                                                              *)

\* apply_hard_rules: the lanes that break one of R1 to R7 are moved out.
HardRules == \E broken \in SUBSET kept : /\ kept' = kept \ broken
                                         /\ rejected' = rejected \union broken

\* A mutant: the shape violators are not injected again.
ApplyRulesToLanes ==
  /\ phase = "rules"
  /\ HardRules
  /\ phase' = "score"
  /\ UNCHANGED <<inputs, next, results, votes, flags, shape, rejectedRows, pending, corrected>>

\* The hard rules, on the lanes and again on the carriers of the shape violators,
\* whose codes the first rule rejects.
ApplyRules ==
  /\ phase = "rules"
  /\ HardRules
  /\ rejectedRows' = shape
  /\ phase' = "score"
  /\ UNCHANGED <<inputs, next, results, votes, flags, shape, pending, corrected>>

LowConfidence(l) == votes[id[l]] # NoVotes /\ votes[id[l]].low

\* A mutant: a reason that FlaggedLane does not have.
ScoreDisagreement ==
  /\ phase = "score"
  /\ pending' = flags
  /\ flags' = {<<l, "ensemble_disagreement">> : l \in {k \in kept : LowConfidence(k)}}
  /\ phase' = "correct"
  /\ UNCHANGED <<inputs, next, results, votes, kept, shape, rejected, rejectedRows, corrected>>

\* compute_conformal_score and accepts, on the votes under the lane_id.  The flags
\* of stage 3 go through the correction loop, the new ones do not.
Score ==
  /\ phase = "score"
  /\ pending' = flags
  /\ flags' = {<<l, "low_confidence">> : l \in {k \in kept : LowConfidence(k)}}
  /\ phase' = "correct"
  /\ UNCHANGED <<inputs, next, results, votes, kept, shape, rejected, rejectedRows, corrected>>

\* The flag has another reason, there is no consensus under the lane_id, the one there
\* does not validate (ConsensusResult), or it is still without a majority; the third
\* may be of any lane, so nothing is asked of the votes.
FlagSurvives(f) ==
  /\ phase = "correct" /\ f \in pending
  /\ pending' = pending \ {f}
  /\ flags' = flags \union {f}
  /\ UNCHANGED <<inputs, phase, next, results, votes, kept, shape, rejected, rejectedRows,
                 corrected>>

\* conditional_correction: two more votes make a majority, or the prior consensus
\* needs no review and is returned as it is.  The flag is dropped.
Correct(f) ==
  /\ phase = "correct" /\ f \in pending
  /\ f[2] = "no_majority" /\ votes[id[f[1]]] # NoVotes
  /\ corrected' = IF votes[id[f[1]]].split THEN corrected \union {f[1]} ELSE corrected
  /\ pending' = pending \ {f}
  /\ UNCHANGED <<inputs, phase, next, results, votes, kept, flags, shape, rejected, rejectedRows>>

\* A mutant: only what the correction has looked at is written out.
CommitEarly ==
  /\ phase = "correct"
  /\ phase' = "done"
  /\ UNCHANGED <<inputs, next, results, votes, kept, flags, shape, rejected, rejectedRows,
                 pending, corrected>>

CommitValidated ==
  /\ phase = "correct" /\ pending = {}
  /\ phase' = "done"
  /\ UNCHANGED <<inputs, next, results, votes, kept, flags, shape, rejected, rejectedRows,
                 pending, corrected>>

Next == \/ Extract \/ SkipViolator \/ CommitNormalized \/ ApplyRules \/ Score
        \/ CommitValidated \/ Fail
        \/ \E low \in BOOLEAN : NoMajority(low) \/ Unresolved(low) \/ Resolved(low)
        \/ \E f \in pending : FlagSurvives(f) \/ Correct(f)

Spec == Init /\ [][Next]_vars

-----------------------------------------------------------------------------
(* Properties.                                                             *)

Unshared(l) == \A m \in AllLanes \ bad : id[m] = id[l] => m = l

Diverted == {f[1] : f \in {g \in flags \union pending : g[2] # "low_confidence"}}

\* The places a lane can be in are disjoint, at every step of the two tasks: no
\* lane is both offered to the customer and rejected, flagged by stage 3 or
\* corrected, and no violator is offered at all.
OneFate == /\ kept \intersect rejected = {}
           /\ (kept \union rejected) \intersect (Diverted \union corrected) = {}
           /\ Diverted \intersect corrected = {}
           /\ (kept \union rejected \union Diverted \union corrected) \intersect bad = {}

\* No lane with a lane_id of its own is lost: when the job completes it is kept,
\* rejected, flagged, or was given a majority by the correction.
NoLaneLost ==
  phase = "done" => \A l \in AllLanes \ bad :
    Unshared(l) => \/ l \in kept \union rejected \union corrected
                   \/ \E reason \in Reasons : <<l, reason>> \in flags

\* Every row with a malformed port code, whichever scan saw it, ends in one
\* rejection, though stages 3 and 4 see the two kinds of rows on different paths.
ViolatorsRejected ==
  phase = "done" => rejectedRows = scanned \union {row[l] : l \in bad}

\* A kept lane with a lane_id of its own is flagged for low confidence exactly
\* when its own votes disagree, though the score goes through the database.
ScoredByOwnVotes ==
  phase = "done" => \A l \in kept :
    Unshared(l) => (<<l, "low_confidence">> \in flags <=> results[l].low)

\* What PHASE_5_SPEC.md says of a corrected lane: it is surfaced back into lanes.
\* The loop of _validate only drops its flag, which refutes it.
CorrectedLaneSurfaces == phase = "done" => corrected \subseteq kept
=============================================================================
