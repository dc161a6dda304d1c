---------------------------- MODULE LanesProofs ----------------------------
(***************************************************************************)
(* Proofs about Lanes, for any number of lanes, lane_ids and rows.  That   *)
(* the places of a lane are disjoint needs that a lane has one flag of     *)
(* stage 3 at most; that none is lost, that the row of a lane_id of its    *)
(* own holds its own votes.                                                *)
(***************************************************************************)
EXTENDS Lanes, WellFoundedInduction, TLAPS

Good == AllLanes \ bad
\* The flags of stage 3, before and after the correction loop has seen them.
Stage3Flags == {g \in flags \union pending : g[2] # "low_confidence"}
Done3 == phase \in {"rules", "score", "correct", "done"}

ShapeInv == /\ id \in [AllLanes -> Ids] /\ bad \in SUBSET AllLanes
            /\ phase \in Phases /\ next \in Nat \ {0} /\ next <= N + 1
            /\ results \in [AllLanes -> Ballots \union {NoVotes}]
            /\ kept \subseteq Good /\ rejected \subseteq Good /\ corrected \subseteq Good
            /\ flags \subseteq Good \X Reasons /\ pending \subseteq Good \X Reasons

\* What stage 3 has not reached is nowhere; what it has passed has its votes.
ProgressInv ==
  /\ \A l \in kept \union rejected \union corrected : l < next
  /\ \A f \in flags \union pending : f[1] < next
  /\ \A l \in Good : l < next => results[l] \in Ballots /\ results[l].lane = l
  /\ phase = "extract" => next = 1
  /\ Done3 => next = N + 1

\* Before the correction loop there is nothing to correct and no flag of stage 4.
FlagInv ==
  /\ phase \in {"extract", "normalize", "rules", "score"} =>
       pending = {} /\ corrected = {} /\ \A f \in flags : f[2] # "low_confidence"
  /\ flags \intersect pending = {}
  /\ \A f \in pending : f[2] # "low_confidence"
  /\ \A f, g \in Stage3Flags : f[1] = g[1] => f = g
  /\ \A f \in Stage3Flags : f[2] = "no_majority" => results[f[1]].split

\* A lane_id of its own leads to the lane's own votes.
VotesInv == Done3 => \A l \in Good : Unshared(l) => votes[id[l]] = results[l]

\* Nothing with a lane_id of its own is lost on the way.
AccountInv == \A l \in Good : l < next /\ Unshared(l) =>
  l \in kept \union rejected \union Diverted \union corrected

ScoreInv == phase \in {"correct", "done"} => \A l \in kept :
  Unshared(l) => (<<l, "low_confidence">> \in flags <=> results[l].low)

IInv == /\ ShapeInv /\ ProgressInv /\ FlagInv /\ VotesInv
        /\ OneFate /\ AccountInv /\ ScoreInv

-----------------------------------------------------------------------------
\* Nothing has been looked at.
LEMMA InitInv == Init => IInv
<1> SUFFICES ASSUME Init PROVE IInv
  OBVIOUS
<1> USE LanesAssumption DEF Init, AllLanes, Good
<1>1. ShapeInv /\ ProgressInv
  BY DEF ShapeInv, ProgressInv, Phases, Done3
<1>2. FlagInv /\ VotesInv
  BY DEF FlagInv, VotesInv, Done3, Stage3Flags
<1>3. OneFate /\ AccountInv /\ ScoreInv
  BY DEF OneFate, AccountInv, ScoreInv, Diverted
<1> QED BY <1>1, <1>2, <1>3 DEF IInv

\* A job that fails leaves the sheet as it is.
LEMMA FailStep == IInv /\ Fail => IInv'
  BY DEF IInv, Fail, inputs, ShapeInv, ProgressInv, FlagInv, VotesInv, AccountInv, ScoreInv, OneFate,
         Good, Stage3Flags, Diverted, Done3, Unshared, Phases

\* The scans put nothing anywhere but in the list of violators.
LEMMA ExtractStep == IInv /\ Extract => IInv'
  BY DEF IInv, Extract, inputs, ShapeInv, ProgressInv, FlagInv, VotesInv, AccountInv, ScoreInv,
         OneFate, Good, Stage3Flags, Diverted, Done3, Unshared, Phases

\* A violator is passed over.
LEMMA SkipStep == IInv /\ SkipViolator => IInv'
<1> SUFFICES ASSUME IInv, SkipViolator PROVE IInv'
  OBVIOUS
<1> USE LanesAssumption DEF inputs
<1>0. ShapeInv /\ ProgressInv /\ FlagInv /\ VotesInv /\ OneFate /\ AccountInv /\ ScoreInv
  BY DEF IInv
<1>1. next \in bad /\ next \in 1..N /\ next' = next + 1
  BY <1>0 DEF ShapeInv, SkipViolator, AllLanes
<1>2. ShapeInv'
  BY <1>0, <1>1 DEF ShapeInv, SkipViolator, Good
<1>3. ProgressInv'
  BY <1>0, <1>1 DEF ShapeInv, ProgressInv, SkipViolator, Good, AllLanes, Done3
<1>4. FlagInv' /\ VotesInv' /\ ScoreInv'
  BY <1>0 DEF FlagInv, VotesInv, ScoreInv, SkipViolator, Stage3Flags, Good, Done3, Unshared
<1>5. OneFate'
  BY <1>0 DEF OneFate, Diverted, SkipViolator
<1>6. \A l \in Good : l < next' => l < next
  BY <1>0, <1>1 DEF ShapeInv, Good, AllLanes
<1>7. AccountInv'
  BY <1>0, <1>6 DEF AccountInv, SkipViolator, Diverted, Good, Unshared
<1> QED BY <1>2, <1>3, <1>4, <1>5, <1>7 DEF IInv
\* A vote settles where the lane at hand goes: it was nowhere before.
LEMMA VoteStep ==
  ASSUME IInv, NEW low \in BOOLEAN, NoMajority(low) \/ Unresolved(low) \/ Resolved(low)
  PROVE  IInv'
<1> USE LanesAssumption DEF inputs
<1>0. ShapeInv /\ ProgressInv /\ FlagInv /\ OneFate /\ AccountInv
  BY DEF IInv
<1>1. PICK split \in BOOLEAN : Vote(split, low)
  BY DEF NoMajority, Unresolved, Resolved
<1> DEFINE ballot == [lane |-> next, split |-> split, low |-> low]
<1>2. /\ next \in Good /\ next \in Nat /\ next <= N /\ phase = "normalize"
      /\ ballot \in Ballots /\ ballot.lane = next /\ ballot.split = split
  BY <1>0, <1>1 DEF ShapeInv, Vote, Good, AllLanes, Ballots
<1>3. /\ results' = [results EXCEPT ![next] = ballot] /\ next' = next + 1
      /\ UNCHANGED <<inputs, phase, votes, shape, rejected, rejectedRows, pending, corrected>>
  BY <1>1 DEF Vote
<1>4. /\ pending = {} /\ corrected = {} /\ \A f \in flags : f[2] # "low_confidence"
      /\ Stage3Flags = flags
  BY <1>0, <1>2 DEF FlagInv, Stage3Flags
<1>5. /\ next \notin kept \union rejected \union corrected
      /\ \A f \in flags : f[1] # next
  BY <1>0, <1>2 DEF ProgressInv
<1>6. \/ \E r \in {"no_majority", "port_obfuscation_unresolved"} :
           /\ flags' = flags \union {<<next, r>>} /\ kept' = kept
           /\ r = "no_majority" => split
      \/ kept' = kept \union {next} /\ flags' = flags
  <2>1. CASE NoMajority(low)
    <3>1. results' = [results EXCEPT ![next] = [lane |-> next, split |-> TRUE, low |-> low]]
      BY <2>1 DEF NoMajority, Vote
    <3>2. results'[next].split = split /\ results'[next].split = TRUE
      BY <1>0, <1>2, <1>3, <3>1 DEF ShapeInv, Good
    <3> QED BY <2>1, <3>2 DEF NoMajority
  <2>2. CASE Unresolved(low)
    BY <2>2 DEF Unresolved
  <2>3. CASE Resolved(low)
    BY <2>3 DEF Resolved
  <2> QED BY <2>1, <2>2, <2>3
<1> HIDE DEF ballot
<1>7. Good' = Good /\ Done3' = Done3 /\ ~Done3 /\ phase' = "normalize"
  BY <1>2, <1>3 DEF Good, Done3
<1>8. ShapeInv'
  <2>1. kept' \subseteq Good /\ rejected' \subseteq Good /\ corrected' \subseteq Good
    BY <1>0, <1>2, <1>3, <1>6 DEF ShapeInv
  <2>2. flags' \subseteq Good \X Reasons /\ pending' \subseteq Good \X Reasons
    BY <1>0, <1>2, <1>3, <1>6 DEF ShapeInv, Reasons
  <2>3. results' \in [AllLanes -> Ballots \union {NoVotes}]
    BY <1>0, <1>2, <1>3 DEF ShapeInv
  <2>4. next' \in Nat \ {0} /\ next' <= N + 1
    BY <1>2, <1>3
  <2> QED BY <1>0, <1>3, <1>7, <2>1, <2>2, <2>3, <2>4 DEF ShapeInv
<1>9. ProgressInv'
  <2>1. \A l \in kept' \union rejected' \union corrected' : l < next'
    <3>1. \A l \in kept \union rejected \union corrected : l < next /\ l \in Nat
      BY <1>0 DEF ShapeInv, ProgressInv, Good, AllLanes
    <3>2. kept' \subseteq kept \union {next}
      BY <1>6
    <3> QED BY ONLY <1>2, <1>3, <3>1, <3>2
  <2>2. \A f \in flags' \union pending' : f[1] < next'
    BY <1>0, <1>2, <1>3, <1>4, <1>6 DEF ShapeInv, ProgressInv, Good, AllLanes
  <2>3. \A l \in Good : l < next' => results'[l] \in Ballots /\ results'[l].lane = l
    BY <1>0, <1>2, <1>3 DEF ShapeInv, ProgressInv, Good, AllLanes
  <2> QED BY <1>7, <2>1, <2>2, <2>3 DEF ProgressInv
<1>10. FlagInv'
  <2>1. Stage3Flags' = flags' /\ \A f \in flags' : f[2] # "low_confidence"
    BY <1>3, <1>4, <1>6 DEF Stage3Flags
  <2>2. \A f, g \in flags' : f[1] = g[1] => f = g
    BY <1>0, <1>4, <1>5, <1>6 DEF FlagInv
  <2>3. \A f \in flags' : f[2] = "no_majority" => results'[f[1]].split
    <3>1. \A f \in flags : f[2] = "no_majority" => results'[f[1]].split
      BY <1>0, <1>2, <1>3, <1>4, <1>5 DEF FlagInv, ShapeInv, Good
    <3>2. results'[next] = ballot
      BY <1>0, <1>2, <1>3 DEF ShapeInv, Good
    <3> QED BY <1>2, <1>6, <3>1, <3>2
  <2> QED BY <1>0, <1>3, <1>4, <1>7, <2>1, <2>2, <2>3 DEF FlagInv
<1>11. VotesInv' /\ ScoreInv'
  BY <1>7 DEF VotesInv, ScoreInv
<1>12. /\ Diverted' \in {Diverted, Diverted \union {next}}
       /\ next \notin Diverted
       /\ Diverted' = Diverted \/ kept' = kept
  BY <1>3, <1>4, <1>5, <1>6 DEF Diverted
<1>13. OneFate'
  <2>1. next \notin bad /\ bad' = bad /\ rejected' = rejected /\ corrected' = corrected
    BY <1>2, <1>3 DEF Good
  <2>2. kept' \in {kept, kept \union {next}}
    BY <1>6
  <2>3. CASE Diverted' = Diverted
    BY <1>0, <1>5, <1>12, <2>1, <2>2, <2>3 DEF OneFate
  <2>4. CASE kept' = kept /\ Diverted' = Diverted \union {next}
    BY <1>0, <1>5, <2>1, <2>4 DEF OneFate
  <2> QED BY <1>12, <2>3, <2>4
<1>14. kept' \union Diverted' = (kept \union Diverted) \union {next}
  <2>1. CASE kept' = kept \union {next} /\ flags' = flags
    BY <1>3, <2>1 DEF Diverted
  <2>2. ASSUME NEW r \in {"no_majority", "port_obfuscation_unresolved"},
               flags' = flags \union {<<next, r>>}, kept' = kept
        PROVE  kept' \union Diverted' = (kept \union Diverted) \union {next}
    <3>1. Diverted' = Diverted \union {next}
      <4>1. <<next, r>> \in (flags \union pending)' /\ r # "low_confidence"
        BY <2>2
      <4>2. next \in Diverted'
        BY <4>1 DEF Diverted
      <4> QED BY <1>12, <4>2
    <3> QED BY <2>2, <3>1
  <2> QED BY <1>6, <2>1, <2>2
<1>15. AccountInv'
  <2>1. \A l \in Good : l < next' => l < next \/ l = next
    BY <1>2, <1>3 DEF Good, AllLanes
  <2>2. \A l \in Good : Unshared(l)' = Unshared(l)
    BY <1>3 DEF Unshared
  <2> QED BY <1>0, <1>3, <1>7, <1>14, <2>1, <2>2 DEF AccountInv
<1> QED BY <1>8, <1>9, <1>10, <1>11, <1>13, <1>15 DEF IInv

\* The row of a lane_id of its own receives the votes of its lane.
LEMMA CommitStep == IInv /\ CommitNormalized => IInv'
<1> SUFFICES ASSUME IInv, CommitNormalized PROVE IInv'
  OBVIOUS
<1> USE LanesAssumption DEF inputs
<1>0. ShapeInv /\ ProgressInv /\ FlagInv /\ VotesInv /\ OneFate /\ AccountInv /\ ScoreInv
  BY DEF IInv
<1>1. /\ phase = "normalize" /\ next = N + 1 /\ phase' = "rules"
      /\ UNCHANGED <<inputs, next, results, kept, flags, shape, rejected, rejectedRows, pending,
                     corrected>>
  BY DEF CommitNormalized
<1>2. ShapeInv' /\ ProgressInv'
  BY <1>0, <1>1 DEF ShapeInv, ProgressInv, Phases, Good, Done3
<1>3. FlagInv' /\ OneFate' /\ AccountInv' /\ ScoreInv'
  BY <1>0, <1>1 DEF FlagInv, OneFate, AccountInv, ScoreInv, Stage3Flags, Diverted, Good, Unshared
<1>4. ASSUME NEW l \in Good, Unshared(l) PROVE votes'[id[l]] = results[l]
  <2>1. Voted(id[l]) = {l}
    BY <1>4 DEF Voted, Unshared, Good
  <2>2. (CHOOSE k \in Voted(id[l]) : \A m \in Voted(id[l]) : m <= k) = l
    BY <2>1 DEF Good, AllLanes
  <2>3. id[l] \in Ids
    BY <1>0 DEF ShapeInv, Good
  <2> QED BY <2>1, <2>2, <2>3 DEF CommitNormalized
<1>5. VotesInv'
  BY <1>1, <1>4 DEF VotesInv, Good, Unshared
<1> QED BY <1>2, <1>3, <1>5 DEF IInv
\* The hard rules move lanes from kept to rejected.
LEMMA RulesStep == IInv /\ ApplyRules => IInv'
<1> SUFFICES ASSUME IInv, ApplyRules PROVE IInv'
  OBVIOUS
<1> USE DEF inputs
<1>0. ShapeInv /\ ProgressInv /\ FlagInv /\ VotesInv /\ OneFate /\ AccountInv
  BY DEF IInv
<1>1. /\ phase = "rules" /\ phase' = "score"
      /\ UNCHANGED <<inputs, next, results, votes, flags, pending, corrected>>
  BY DEF ApplyRules, HardRules
<1>2. PICK broken \in SUBSET kept : kept' = kept \ broken /\ rejected' = rejected \union broken
  BY DEF ApplyRules, HardRules
<1>3. Good' = Good /\ Diverted' = Diverted /\ Stage3Flags' = Stage3Flags
  BY <1>1 DEF Good, Diverted, Stage3Flags
<1>4. ShapeInv' /\ ProgressInv'
  BY <1>0, <1>1, <1>2, <1>3 DEF ShapeInv, ProgressInv, Done3, Phases
<1>5. FlagInv' /\ VotesInv' /\ ScoreInv'
  BY <1>0, <1>1, <1>3 DEF FlagInv, VotesInv, ScoreInv, Done3, Unshared
<1>6. kept' \union rejected' = kept \union rejected
  BY <1>2
<1>7. OneFate'
  BY <1>0, <1>1, <1>2, <1>3, <1>6 DEF OneFate
<1>8. AccountInv'
  BY <1>0, <1>1, <1>3, <1>6 DEF AccountInv, Unshared
<1> QED BY <1>4, <1>5, <1>7, <1>8 DEF IInv

\* The flags of stage 3 are set aside, the low scores are flagged.
LEMMA ScoreStep == IInv /\ Score => IInv'
<1> SUFFICES ASSUME IInv, Score PROVE IInv'
  OBVIOUS
<1> USE DEF inputs
<1>0. ShapeInv /\ ProgressInv /\ FlagInv /\ VotesInv /\ OneFate /\ AccountInv
  BY DEF IInv
<1>1. /\ phase = "score" /\ phase' = "correct" /\ pending' = flags
      /\ flags' = {<<l, "low_confidence">> : l \in {k \in kept : LowConfidence(k)}}
      /\ UNCHANGED <<inputs, next, results, votes, kept, rejected, corrected>>
  BY DEF Score
<1>2. pending = {} /\ corrected = {} /\ \A f \in flags : f[2] # "low_confidence"
  BY <1>0, <1>1 DEF FlagInv
<1>3. \A f \in flags' : f[1] \in kept /\ f[2] = "low_confidence" /\ f \in Good \X Reasons
  BY <1>0, <1>1 DEF ShapeInv, Reasons
<1>4. Stage3Flags = flags /\ Stage3Flags' = flags
  BY <1>1, <1>2, <1>3 DEF Stage3Flags
<1>5. Good' = Good /\ Diverted' = Diverted
  <2>1. Diverted = {f[1] : f \in Stage3Flags} /\ Diverted' = {f[1] : f \in Stage3Flags'}
    BY DEF Diverted, Stage3Flags
  <2> QED BY <1>1, <1>4, <2>1 DEF Good
<1>6. ShapeInv'
  BY <1>0, <1>1, <1>3, <1>5 DEF ShapeInv, Phases
<1>7. ProgressInv'
  BY <1>0, <1>1, <1>3, <1>5 DEF ProgressInv, Done3
<1>8. FlagInv'
  BY <1>0, <1>1, <1>2, <1>3, <1>4 DEF FlagInv
<1>9. VotesInv' /\ OneFate' /\ AccountInv'
  BY <1>0, <1>1, <1>5 DEF VotesInv, OneFate, AccountInv, Done3, Unshared
<1>10. ASSUME NEW l \in kept, Unshared(l)
       PROVE  <<l, "low_confidence">> \in flags' <=> results[l].low
  <2>1. l \in Good /\ l < next /\ results[l] \in Ballots
    BY <1>0, <1>10 DEF ShapeInv, ProgressInv
  <2>2. votes[id[l]] = results[l]
    BY <1>0, <1>1, <1>10, <2>1 DEF VotesInv, Done3
  <2>3. <<l, "low_confidence">> \in flags' <=> LowConfidence(l)
    BY <1>1, <1>10
  <2>4. results[l] # NoVotes
    BY <2>1, LanesAssumption
  <2> QED BY <2>2, <2>3, <2>4 DEF LowConfidence
<1>11. ScoreInv'
  BY <1>1, <1>10 DEF ScoreInv, Unshared
<1> QED BY <1>6, <1>7, <1>8, <1>9, <1>11 DEF IInv

\* A flag that the correction loop keeps stays a flag.
LEMMA KeepStep == ASSUME IInv, NEW f \in pending, FlagSurvives(f) PROVE IInv'
<1> USE DEF inputs
<1>0. ShapeInv /\ ProgressInv /\ FlagInv /\ VotesInv /\ OneFate /\ AccountInv /\ ScoreInv
  BY DEF IInv
<1>1. /\ phase = "correct" /\ phase' = "correct"
      /\ pending' = pending \ {f} /\ flags' = flags \union {f}
      /\ UNCHANGED <<inputs, next, results, votes, kept, rejected, corrected>>
  BY DEF FlagSurvives
<1>2. flags' \union pending' = flags \union pending /\ f[2] # "low_confidence"
  BY <1>0, <1>1 DEF FlagInv
<1>3. Good' = Good /\ Diverted' = Diverted /\ Stage3Flags' = Stage3Flags
  BY <1>1, <1>2 DEF Good, Diverted, Stage3Flags
<1>4. ShapeInv' /\ ProgressInv'
  BY <1>0, <1>1, <1>2, <1>3 DEF ShapeInv, ProgressInv, Done3
<1>5. FlagInv'
  BY <1>0, <1>1, <1>3 DEF FlagInv
<1>6. VotesInv' /\ OneFate' /\ AccountInv'
  BY <1>0, <1>1, <1>3 DEF VotesInv, OneFate, AccountInv, Done3, Unshared
<1>7. \A l : <<l, "low_confidence">> \in flags' <=> <<l, "low_confidence">> \in flags
  BY <1>1, <1>2
<1>8. ScoreInv'
  BY <1>0, <1>1, <1>7 DEF ScoreInv, Unshared
<1> QED BY <1>4, <1>5, <1>6, <1>8 DEF IInv

\* A dropped flag is one that a correction resolved, if the lane_id is its own.
LEMMA CorrectStep == ASSUME IInv, NEW f \in pending, Correct(f) PROVE IInv'
<1> USE DEF inputs
<1>0. ShapeInv /\ ProgressInv /\ FlagInv /\ VotesInv /\ OneFate /\ AccountInv /\ ScoreInv
  BY DEF IInv
<1>1. /\ phase = "correct" /\ phase' = "correct" /\ f[2] = "no_majority"
      /\ pending' = pending \ {f} /\ flags' = flags
      /\ UNCHANGED <<inputs, next, results, votes, kept, rejected>>
      /\ corrected' = IF votes[id[f[1]]].split THEN corrected \union {f[1]} ELSE corrected
  BY DEF Correct
<1>2. f \in Stage3Flags /\ f \notin flags /\ f[1] \in Good /\ f[1] < next /\ f[1] \in Diverted
  BY <1>0, <1>1 DEF FlagInv, ShapeInv, ProgressInv, Stage3Flags, Diverted
<1>3. Good' = Good /\ Stage3Flags' = Stage3Flags \ {f}
  BY <1>1, <1>2 DEF Good, Stage3Flags
<1>4. Diverted' = Diverted \ {f[1]}
  <2>1. Diverted = {g[1] : g \in Stage3Flags} /\ Diverted' = {g[1] : g \in Stage3Flags'}
    BY DEF Diverted, Stage3Flags
  <2>2. \A g \in Stage3Flags \ {f} : g[1] # f[1]
    BY <1>0, <1>2 DEF FlagInv
  <2> QED BY <1>2, <1>3, <2>1, <2>2
<1>5. corrected' \subseteq corrected \union {f[1]} /\ corrected \subseteq corrected'
  BY <1>1
<1>6. ShapeInv'
  BY <1>0, <1>1, <1>2, <1>3, <1>5 DEF ShapeInv
<1>7. ProgressInv'
  BY <1>0, <1>1, <1>2, <1>3, <1>5 DEF ProgressInv, Done3
<1>8. FlagInv'
  BY <1>0, <1>1, <1>3 DEF FlagInv
<1>9. VotesInv' /\ ScoreInv'
  BY <1>0, <1>1, <1>3 DEF VotesInv, ScoreInv, Done3, Unshared
<1>10. OneFate'
  <2>1. bad' = bad /\ kept' = kept /\ rejected' = rejected /\ f[1] \notin bad
    BY <1>1, <1>2 DEF Good
  <2>2. f[1] \notin kept \union rejected
    BY <1>0, <1>2 DEF OneFate
  <2> QED BY <1>0, <1>4, <1>5, <2>1, <2>2 DEF OneFate
<1>11. Unshared(f[1]) => f[1] \in corrected'
  <2>1. Unshared(f[1]) => votes[id[f[1]]] = results[f[1]]
    BY <1>0, <1>1, <1>2 DEF VotesInv, Done3
  <2>2. results[f[1]].split
    BY <1>0, <1>1, <1>2 DEF FlagInv
  <2> QED BY <1>1, <2>1, <2>2
<1>12. AccountInv'
  BY <1>0, <1>1, <1>3, <1>4, <1>5, <1>11 DEF AccountInv, Unshared
<1> QED BY <1>6, <1>7, <1>8, <1>9, <1>10, <1>12 DEF IInv

\* The terminal transaction writes out what is there.
LEMMA FinishStep == IInv /\ CommitValidated => IInv'
  BY DEF IInv, CommitValidated, inputs, ShapeInv, ProgressInv, FlagInv, VotesInv, AccountInv,
         ScoreInv, OneFate, Good, Stage3Flags, Diverted, Done3, Unshared, Phases

-----------------------------------------------------------------------------
\* IInv holds for sheets of every length.
THEOREM Invariance == Spec => []IInv
<1>1. Init => IInv
  BY InitInv
<1>2. IInv /\ [Next]_vars => IInv'
  <2> SUFFICES ASSUME IInv, [Next]_vars PROVE IInv'
    OBVIOUS
  <2>1. CASE UNCHANGED vars
    BY <2>1 DEF vars, inputs, IInv, ShapeInv, ProgressInv, FlagInv, VotesInv, AccountInv, ScoreInv,
                OneFate, Good, Stage3Flags, Diverted, Done3, Unshared
  <2>2. CASE Next
    BY <2>2, FailStep, ExtractStep, SkipStep, VoteStep, CommitStep, RulesStep, ScoreStep, KeepStep,
       CorrectStep, FinishStep DEF Next
  <2> QED BY <2>1, <2>2
<1> QED BY <1>1, <1>2, PTL DEF Spec

\* No lane is in two places, however long the sheet and whatever the ensemble,
\* the rules and the correction decide.
THEOREM Disjointness == Spec => []OneFate
<1>1. IInv => OneFate
  BY DEF IInv
<1> QED BY <1>1, Invariance, PTL

\* The score that keeps a lane or flags it is that of its own votes.
THEOREM OwnScore == Spec => []ScoredByOwnVotes
<1>1. IInv => ScoredByOwnVotes
  BY DEF IInv, ScoreInv, ScoredByOwnVotes
<1> QED BY <1>1, Invariance, PTL

\* No lane with a lane_id of its own leaves the sheet, except by a correction.
THEOREM Conservation == Spec => []NoLaneLost
<1> DEFINE Emptied == phase = "done" => pending = {}
<1>1. Init => Emptied
  BY DEF Init
<1>2. Emptied /\ [Next]_vars => Emptied'
  BY DEF Next, vars, Fail, Extract, SkipViolator, Vote, NoMajority, Unresolved, Resolved,
         CommitNormalized, ApplyRules, HardRules, Score, FlagSurvives, Correct, CommitValidated
<1>3. Spec => []Emptied
  BY <1>1, <1>2, PTL DEF Spec
<1>4. IInv /\ Emptied => NoLaneLost
  <2> SUFFICES ASSUME IInv, pending = {}, phase = "done", NEW l \in Good, Unshared(l)
               PROVE  \/ l \in kept \union rejected \union corrected
                      \/ \E reason \in Reasons : <<l, reason>> \in flags
    BY DEF NoLaneLost, Good
  <2>1. l \in kept \union rejected \union Diverted \union corrected
    BY LanesAssumption DEF IInv, ShapeInv, ProgressInv, AccountInv, Done3, Good, AllLanes
  <2>2. ASSUME l \in Diverted PROVE \E reason \in Reasons : <<l, reason>> \in flags
    <3>1. PICK f \in flags : f[1] = l
      BY <2>2 DEF Diverted
    <3>2. f = <<l, f[2]>> /\ f[2] \in Reasons
      BY <3>1 DEF IInv, ShapeInv
    <3> QED BY <3>1, <3>2
  <2> QED BY <2>1, <2>2
<1> QED BY <1>3, <1>4, Invariance, PTL

\* Every row that a scan took out is rejected when the job completes, and no
\* other row is rejected for its shape.
THEOREM Violators == Spec => []ViolatorsRejected
<1> DEFINE Lifted == scanned \union {row[l] : l \in bad}
           LiftInv == /\ phase \notin {"extract", "failed"} => shape = Lifted
                      /\ phase \in {"score", "correct", "done"} => rejectedRows = shape
<1>1. Init => LiftInv
  BY DEF Init
<1>2. LiftInv /\ [Next]_vars => LiftInv'
  <2> SUFFICES ASSUME LiftInv, [Next]_vars PROVE LiftInv'
    OBVIOUS
  <2> USE DEF inputs
  <2>1. CASE Extract \/ ApplyRules
    BY <2>1 DEF Extract, ApplyRules, HardRules
  <2>2. CASE SkipViolator \/ CommitNormalized \/ Score \/ CommitValidated \/ Fail
    BY <2>2 DEF SkipViolator, CommitNormalized, Score, CommitValidated, Fail
  <2>3. ASSUME NEW low \in BOOLEAN, NoMajority(low) \/ Unresolved(low) \/ Resolved(low)
        PROVE  LiftInv'
    BY <2>3 DEF NoMajority, Unresolved, Resolved, Vote
  <2>4. ASSUME NEW f \in pending, FlagSurvives(f) \/ Correct(f) PROVE LiftInv'
    BY <2>4 DEF FlagSurvives, Correct
  <2>5. CASE UNCHANGED vars
    BY <2>5 DEF vars
  <2> QED BY <2>1, <2>2, <2>3, <2>4, <2>5 DEF Next
<1>3. LiftInv => ViolatorsRejected
  BY DEF ViolatorsRejected
<1> QED BY <1>1, <1>2, <1>3, PTL DEF Spec

\* Some lane of a non-empty set is the last.
LEMMA LastLane == ASSUME NEW L \in SUBSET AllLanes, L # {}
                  PROVE  \E l \in L : \A m \in L : m <= l
<1> DEFINE Less == OpToRel(<, Nat)
           Left == {N - l : l \in L}
<1>1. Left \in SUBSET Nat /\ Left # {} /\ N \in Nat /\ L \subseteq 1..N
  <2>1. \A l \in L : N - l \in Nat
    BY LanesAssumption DEF AllLanes
  <2> QED BY <2>1, LanesAssumption DEF AllLanes
<1>2. IsWellFoundedOn(Less, Nat)
  BY NatLessThanWellFounded
<1> HIDE DEF Less
<1>3. PICK least \in Left : \A x \in Left : ~ (<<x, least>> \in Less)
  <2> HIDE DEF Left
  <2> QED BY <1>1, <1>2, WFMin, Zenon
<1>4. Less = {pair \in Nat \X Nat : pair[1] < pair[2]}
  BY DEF Less, OpToRel
<1>5. PICK l \in L : least = N - l
  OBVIOUS
<1>6. ASSUME NEW m \in L PROVE m <= l
  <2>1. N - m \in Left /\ N - m \in Nat /\ N - l \in Nat
    BY <1>1
  <2>2. ~(N - m < N - l)
    BY <1>3, <1>4, <1>5, <2>1
  <2> QED BY <1>1, <2>2
<1> QED BY <1>6

\* What goes into onramp_conformal_scores under each lane_id is a result of the loop.
LEMMA VotesTyped ==
  ASSUME IInv, CommitNormalized
  PROVE  votes' \in [Ids -> Ballots \union {NoVotes}]
<1>1. ASSUME NEW i \in Ids, Voted(i) # {}
      PROVE  results[CHOOSE l \in Voted(i) : \A m \in Voted(i) : m <= l]
               \in Ballots \union {NoVotes}
  <2>1. Voted(i) \in SUBSET AllLanes
    BY DEF Voted
  <2>2. \E l \in Voted(i) : \A m \in Voted(i) : m <= l
    BY <1>1, <2>1, LastLane
  <2>3. (CHOOSE l \in Voted(i) : \A m \in Voted(i) : m <= l) \in AllLanes
    BY <2>1, <2>2
  <2> QED BY <2>3 DEF IInv, ShapeInv
<1> QED BY <1>1 DEF CommitNormalized

\* Every variable of the lane flow has its type, in particular each row of votes is
\* what the ensemble said of one lane, whatever lanes share a lane_id.
THEOREM TypeCorrect == Spec => []TypeOK
<1>1. Init => TypeOK
  BY LanesAssumption DEF Init, TypeOK, AllLanes, Phases
<1>2. ASSUME IInv, IInv', TypeOK, [Next]_vars PROVE TypeOK'
  <2> USE DEF inputs
  <2>1. /\ next' \in 1..(N + 1) /\ phase' \in Phases
        /\ results' \in [AllLanes -> Ballots \union {NoVotes}]
        /\ kept' \in SUBSET AllLanes /\ rejected' \in SUBSET AllLanes
        /\ corrected' \in SUBSET AllLanes
        /\ flags' \in SUBSET (AllLanes \X Reasons) /\ pending' \in SUBSET (AllLanes \X Reasons)
    BY <1>2, LanesAssumption DEF IInv, ShapeInv, Good
  <2>2. UNCHANGED inputs
    BY <1>2 DEF Next, vars, Fail, Extract, SkipViolator, Vote, NoMajority, Unresolved, Resolved,
       CommitNormalized, ApplyRules, Score, FlagSurvives, Correct, CommitValidated
  <2>3. votes' \in [Ids -> Ballots \union {NoVotes}]
    <3>1. CASE CommitNormalized
      BY <1>2, <3>1, VotesTyped
    <3>2. CASE UNCHANGED votes
      BY <1>2, <3>2 DEF TypeOK
    <3>3. CommitNormalized \/ UNCHANGED votes
      BY <1>2 DEF Next, vars, Fail, Extract, SkipViolator, Vote, NoMajority, Unresolved, Resolved,
         ApplyRules, Score, FlagSurvives, Correct, CommitValidated
    <3> QED BY <3>1, <3>2, <3>3
  <2>4. shape' \in SUBSET Rows /\ rejectedRows' \in SUBSET Rows
    <3>1. \A l \in bad : row[l] \in Rows
      BY <1>2 DEF TypeOK
    <3>2. shape' = shape \/ shape' = scanned \union {row[l] : l \in bad}
      BY <1>2 DEF Next, vars, Fail, Extract, SkipViolator, Vote, NoMajority, Unresolved, Resolved,
         CommitNormalized, ApplyRules, Score, FlagSurvives, Correct, CommitValidated
    <3>3. rejectedRows' = rejectedRows \/ rejectedRows' = shape
      BY <1>2 DEF Next, vars, Fail, Extract, SkipViolator, Vote, NoMajority, Unresolved, Resolved,
         CommitNormalized, ApplyRules, Score, FlagSurvives, Correct, CommitValidated
    <3> QED BY <1>2, <3>1, <3>2, <3>3 DEF TypeOK
  <2> QED BY <1>2, <2>1, <2>2, <2>3, <2>4 DEF TypeOK
<1>3. TypeOK /\ IInv /\ IInv' /\ [Next]_vars => TypeOK'
  BY <1>2
<1> QED BY <1>1, <1>3, Invariance, PTL DEF Spec
=============================================================================
