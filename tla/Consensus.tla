----------------------------- MODULE Consensus -----------------------------
(***************************************************************************)
(* What the votes on one lane amount to: the strict majority per field of  *)
(* consensus.py, and the agreement of conformal.py.  A lane is a function  *)
(* from the voted fields to what was read there.  Surcharges are read as a *)
(* list; of every other field only equality matters.  The votes of the     *)
(* samples S are given by a function on S.                                 *)
(***************************************************************************)
EXTENDS Integers, FiniteSets, FiniteSetsExt

Fields == {"origin_port", "destination_port", "equipment_type", "commodity_code",
           "base_rate_usd", "transit_time_days", "validity_start", "validity_end",
           "surcharges", "source_row_reference"}

\* _canonical: the sorted forms of a list's items, that is, how often each occurs.
Canonical(field, reading) ==
  IF field = "surcharges"
  THEN [item \in {reading[k] : k \in DOMAIN reading} |->
          Cardinality({k \in DOMAIN reading : reading[k] = item})]
  ELSE reading

Form(votes, i, field) == Canonical(field, votes[i][field])

Holders(votes, S, field, form) == {i \in S : Form(votes, i, field) = form}

\* A mutant: half of the votes will do.
HalfOf(n) == n \div 2

Majority(n) == (n \div 2) + 1

\* The forms of a field that reach the threshold.
Agreed(votes, S, field) ==
  {form \in {Form(votes, i, field) : i \in S} :
     Cardinality(Holders(votes, S, field, form)) >= Majority(Cardinality(S))}

HasMajority(votes, S) == \A field \in Fields : Agreed(votes, S, field) # {}

Last(I) == CHOOSE i \in I : \A j \in I : j <= i

\* canon_to_value: a form stands for the reading of the last vote that has it.
ConsensusLane(votes, S) ==
  [field \in Fields |->
     LET form == CHOOSE form \in Agreed(votes, S, field) : TRUE
     IN  votes[Last(Holders(votes, S, field, form))][field]]

-----------------------------------------------------------------------------
(* conformal.py compares surcharges by the repr of the list, in its order. *)

Top(votes, S, field) ==
  Max({Cardinality({j \in S : votes[j][field] = votes[i][field]}) : i \in S})

\* A mutant: the weakest field decides.
WeakestField(votes, S) ==
  (1000 * Min({Top(votes, S, field) : field \in Fields})) \div Cardinality(S)

\* The votes that count, numbered in each field: as many as the sum of all tops.
Counted(votes, S) ==
  UNION {{field} \X (1..Top(votes, S, field)) : field \in Fields}

\* _per_field_agreement: the mean of top / n, in thousandths, half up.
Agreement(votes, S) ==
  LET all == Cardinality(S) * Cardinality(Fields)
  IN  (2000 * Cardinality(Counted(votes, S)) + all) \div (2 * all)

Accepts(score) == score >= 850
=============================================================================
