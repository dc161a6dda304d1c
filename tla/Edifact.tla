------------------------------ MODULE Edifact ------------------------------
(***************************************************************************)
(* extract_edifact_payload: the segments of an interchange are grouped     *)
(* into one cluster per LIN, and each cluster becomes a lane, read from    *)
(* its LIN or, if that lacks something, answered by the Flash model.       *)
(* Of a segment only what the loops look at is kept; a DTM with another    *)
(* qualifier or an unreadable date is one of the other segments.           *)
(***************************************************************************)
EXTENDS Naturals, FiniteSets, Sequences, FiniteSetsExt

CONSTANTS Dates,      \* what a DTM may say
          MaxLength,  \* bound on the segments of an interchange
          MaxCells,   \* what ExtractionMetadata.cell_count allows, 5000
          Invented,   \* a date of the model's own
          OwnDate,    \* a date that stands in the LIN
          NoDate

Qualifiers == {"137", "36"}  \* _DTM_QUALIFIER_START, _DTM_QUALIFIER_END

\* A LIN may have all that _parse_lid_segment wants, lack some of it, or have values
\* that it lets pass and the models of the lane refuse: port codes of five characters
\* that are none, a rate that is not a number.
Segments == [tag : {"LIN"}, elements : {"complete", "lacking", "malformed"}]
            \union [tag : {"DTM"}, qualifier : Qualifiers, date : Dates]
            \union [tag : {"UNT", "other"}]

Given == Dates \union {Invented, OwnDate}

ASSUME EdifactAssumption == /\ MaxCells \in Nat
                            /\ Invented \notin Dates \union {OwnDate, NoDate}
                            /\ NoDate \notin Given

VARIABLES segments, epc,
          pos,       \* the segment that the first loop is at
          current, clusters,  \* positions of segments
          idx,       \* the cluster that the second loop is at
          lanes,     \* of each: the number of its LIN (history for a lane of Flash,
                     \* whose lane_id is only asked for), who read it, its validity
          dropped    \* clusters that Flash had no lane for (history)

evars == <<segments, epc, pos, current, clusters, idx, lanes, dropped>>

Outcomes == {"payload", "no_lanes", "raised"}
LaneOf == [line : Nat \ {0}, by : {"parser", "flash"}, validity : [Qualifiers -> Given]]

EdifactTypeOK ==
  /\ segments \in Seq(Segments)
  /\ epc \in {"read", "group", "parse"} \union Outcomes
  /\ pos \in 1..(Len(segments) + 1)
  /\ current \in Seq(DOMAIN segments) /\ clusters \in Seq(Seq(DOMAIN segments))
  /\ idx \in 1..(Len(clusters) + 1)
  /\ lanes \in Seq(LaneOf)
  /\ dropped \in SUBSET (1..Len(clusters))

EdifactInit == /\ segments \in UNION {[1..n -> Segments] : n \in 0..MaxLength}
               /\ epc = "read" /\ pos = 1 /\ idx = 1
               /\ current = <<>> /\ clusters = <<>> /\ lanes = <<>> /\ dropped = {}

-----------------------------------------------------------------------------
(* Clusters.                                                               *)

\* read_text and Interchange.from_str, which may raise.
Read == /\ epc = "read"
        /\ epc' \in {"group", "raised"}
        /\ UNCHANGED <<segments, pos, current, clusters, idx, lanes, dropped>>

AtTag(tag) == epc = "group" /\ pos <= Len(segments) /\ segments[pos].tag = tag

Flush == clusters' = IF current = <<>> THEN clusters ELSE Append(clusters, current)

Advance == /\ pos' = pos + 1
           /\ UNCHANGED <<segments, epc, idx, lanes, dropped>>

\* A mutant: the cluster before this LIN is not kept.
RestartCluster == /\ AtTag("LIN")
                  /\ current' = <<pos>>
                  /\ Advance
                  /\ UNCHANGED clusters

StartCluster == /\ AtTag("LIN")
                /\ Flush
                /\ current' = <<pos>>
                /\ Advance

\* A segment before the first LIN is in no cluster.
Collect == /\ AtTag("DTM") \/ AtTag("other")
           /\ current' = IF current = <<>> THEN <<>> ELSE Append(current, pos)
           /\ Advance
           /\ UNCHANGED clusters

\* A mutant: the loop goes on after the trailer.
PassTrailer == /\ AtTag("UNT")
               /\ Flush
               /\ current' = <<>>
               /\ Advance

\* The end of the first message ends the loop.
Trailer == /\ AtTag("UNT")
           /\ Flush
           /\ current' = <<>>
           /\ epc' = "parse"
           /\ UNCHANGED <<segments, pos, idx, lanes, dropped>>

EndOfSegments == /\ epc = "group" /\ pos > Len(segments)
                 /\ Flush
                 /\ epc' = "parse"
                 /\ UNCHANGED <<segments, pos, current, idx, lanes, dropped>>

-----------------------------------------------------------------------------
(* Lanes.                                                                  *)

Dtms(q, P) == {p \in P : segments[p].tag = "DTM" /\ segments[p].qualifier = q}

\* _extract_interchange_validity: a later match overwrites an earlier one.
Validity(q, P) == IF Dtms(q, P) = {} THEN NoDate ELSE segments[Max(Dtms(q, P))].date

Cluster == clusters[idx]
Members == {Cluster[k] : k \in DOMAIN Cluster}

\* A mutant: one scan of the interchange serves all clusters.
InterchangeOnly(q) == Validity(q, DOMAIN segments)

Effective(q) == IF Validity(q, Members) # NoDate THEN Validity(q, Members)
                ELSE Validity(q, DOMAIN segments)

AtHead(elements) == epc = "parse" /\ idx <= Len(clusters)
                    /\ segments[Cluster[1]].elements = elements

NextCluster == /\ idx' = idx + 1
               /\ UNCHANGED <<segments, epc, pos, current, clusters>>

\* A mutant: the lines are counted from 0.
AppendFromZero(by, validity) ==
  lanes' = Append(lanes, [line |-> idx - 1, by |-> by, validity |-> validity])

\* The parser names its lane after the line; of Flash the name is asked for in the
\* prompt, and the answer may have another.
AppendLane(by, validity) ==
  lanes' = Append(lanes, [line |-> idx, by |-> by, validity |-> validity])

ParseLine == /\ AtHead("complete")
             /\ AppendLane("parser", [q \in Qualifiers |-> OwnDate])
             /\ NextCluster
             /\ UNCHANGED dropped

\* Nothing catches the ValidationError of a lane, be it for the LIN or for the name of
\* the file, which is too long for a SourceRow from the first line on; nor what
\* get_vertex_client raises.
LineRaises == /\ \/ AtHead("malformed") \/ AtHead("lacking")
                 \/ AtHead("complete") /\ \A l \in DOMAIN lanes : lanes[l].by # "parser"
              /\ epc' = "raised"
              /\ UNCHANGED <<segments, pos, current, clusters, idx, lanes, dropped>>

\* _disambiguate_via_flash, whose dates give way to those of the segments.
FlashAnswers ==
  /\ AtHead("lacking")
  /\ AppendLane("flash", [q \in Qualifiers |-> IF Effective(q) # NoDate THEN Effective(q)
                                               ELSE Invented])
  /\ NextCluster
  /\ UNCHANGED dropped

\* A timeout, an error, no text or no LaneRecord: the cluster is passed over.
FlashFails == /\ AtHead("lacking")
              /\ dropped' = dropped \union {idx}
              /\ NextCluster
              /\ UNCHANGED lanes

\* A mutant: a payload without lanes.
AnyPayload == /\ epc = "parse" /\ idx > Len(clusters)
              /\ epc' = "payload"
              /\ UNCHANGED <<segments, pos, current, clusters, idx, lanes, dropped>>

\* The payload, EdifactExtractionError, or the ValidationError of the metadata.
Conclude == /\ epc = "parse" /\ idx > Len(clusters)
            /\ epc' = IF lanes = <<>> THEN "no_lanes"
                      ELSE IF Len(segments) > MaxCells THEN "raised" ELSE "payload"
            /\ UNCHANGED <<segments, pos, current, clusters, idx, lanes, dropped>>

EdifactNext == \/ Read \/ StartCluster \/ Collect \/ Trailer \/ EndOfSegments
               \/ ParseLine \/ LineRaises \/ FlashAnswers \/ FlashFails \/ Conclude

EdifactSpec == EdifactInit /\ [][EdifactNext]_evars

-----------------------------------------------------------------------------
(* Properties.  The lines of the first message, read off the segments.     *)

InMessage(p) == \A q \in 1..p : segments[q].tag # "UNT"
Lines == {p \in DOMAIN segments : segments[p].tag = "LIN" /\ InMessage(p)}
\* What stands under a line: up to the next line or the trailer.
Under(p) == {q \in p..Len(segments) : InMessage(q) /\ \A r \in (p + 1)..q : r \notin Lines}

IsClusterOf(c, p) == /\ {c[i] : i \in DOMAIN c} = Under(p)
                     /\ \A i \in DOMAIN c : c[i] = p + i - 1

\* The first loop loses no line and puts every segment under the line it follows:
\* the clusters are the lines of the first message in their order, the last one too.
ClustersExact ==
  epc \in {"parse", "payload", "no_lanes"} =>
    /\ \A p \in Lines : \E k \in DOMAIN clusters : IsClusterOf(clusters[k], p)
    /\ \A k \in DOMAIN clusters : \E p \in Lines : IsClusterOf(clusters[k], p)
    /\ \A j, k \in DOMAIN clusters : j < k => clusters[j][1] < clusters[k][1]

\* A payload answers for every line of the first message: there is a lane for it, in
\* the order of the lines, or Flash was asked about it and had none.  The lines Flash
\* had none for are missing from the payload, and nothing in it says so.
EveryLineAnswered ==
  epc = "payload" =>
    /\ \A p \in Lines : \E k \in DOMAIN clusters :
         /\ IsClusterOf(clusters[k], p)
         /\ k \in dropped => segments[p].elements = "lacking"
         /\ k \notin dropped <=> \E l \in DOMAIN lanes : lanes[l].line = k
    /\ \A l, m \in DOMAIN lanes : l < m => lanes[l].line < lanes[m].line
    /\ lanes # <<>>

\* No date of the model survives where the interchange has one, and a line's own DTM
\* goes before any other line's, the last of them if there are two.  A line without
\* one may get that of another line, or of a message that is not read.
DatesGrounded ==
  \A l \in DOMAIN lanes, p \in Lines, q \in Qualifiers :
    lanes[l].by = "flash" /\ IsClusterOf(clusters[lanes[l].line], p) =>
      LET date == lanes[l].validity[q]
          near == Dtms(q, Under(p))
          far == Dtms(q, DOMAIN segments)
      IN  /\ far = {} <=> date = Invented
          /\ near # {} => \E r \in near : segments[r].date = date /\ \A s \in near : s <= r
=============================================================================
