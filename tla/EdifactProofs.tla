--------------------------- MODULE EdifactProofs ----------------------------
(***************************************************************************)
(* Proofs about Edifact, for interchanges of any length.  What the first   *)
(* loop has behind it is a row of closed clusters and an open one that     *)
(* reaches up to its position; what the second has behind it is one lane   *)
(* or one refusal of Flash per cluster.                                    *)
(***************************************************************************)
EXTENDS Edifact, SequenceTheorems, WellFoundedInduction, TLAPS

Grouped == epc \in {"parse", "payload", "no_lanes"}

\* The open cluster starts at the last LIN seen.
OpenInv ==
  epc \in {"read", "group"} =>
    /\ \A q \in 1..(pos - 1) : segments[q].tag # "UNT"
    /\ current = <<>> => clusters = <<>>
    /\ current = <<>> => \A q \in 1..(pos - 1) : segments[q].tag # "LIN"
    /\ current # <<>> =>
         /\ current[1] \in 1..(pos - 1)
         /\ segments[current[1]].tag = "LIN"
         /\ Len(current) = pos - current[1]
         /\ \A i \in 1..Len(current) : current[i] = current[1] + i - 1
         /\ \A q \in (current[1] + 1)..(pos - 1) : segments[q].tag # "LIN"
         /\ \A k \in DOMAIN clusters : clusters[k][1] < current[1]
    /\ \A q \in 1..(pos - 1) : segments[q].tag = "LIN" =>
         \/ current # <<>> /\ current[1] = q
         \/ \E k \in DOMAIN clusters : clusters[k][1] = q

\* The closed clusters are lines, in their order.
ClosedInv ==
  /\ \A k \in DOMAIN clusters : /\ clusters[k] # <<>>
                                /\ clusters[k][1] \in Lines
                                /\ IsClusterOf(clusters[k], clusters[k][1])
  /\ \A j, k \in DOMAIN clusters : j < k => clusters[j][1] < clusters[k][1]

\* No line is left out.
CoverInv == Grouped => \A p \in Lines : \E k \in DOMAIN clusters : clusters[k][1] = p

MembersOf(k) == {clusters[k][i] : i \in DOMAIN clusters[k]}
Dated(k, q) == IF Validity(q, MembersOf(k)) # NoDate THEN Validity(q, MembersOf(k))
               ELSE Validity(q, DOMAIN segments)

\* The clusters behind the second loop.
LaneInv ==
  /\ epc \in {"read", "group"} => lanes = <<>> /\ dropped = {} /\ idx = 1
  /\ \A l \in DOMAIN lanes : lanes[l].line < idx
  /\ \A k \in dropped : k < idx /\ segments[clusters[k][1]].elements = "lacking"
  /\ \A k \in 1..(idx - 1) : k \notin dropped <=> \E l \in DOMAIN lanes : lanes[l].line = k
  /\ \A l, m \in DOMAIN lanes : l < m => lanes[l].line < lanes[m].line
  /\ epc = "payload" => idx = Len(clusters) + 1 /\ lanes # <<>>

\* The validity of every lane that Flash read is what Effective was at its cluster.
DateInv ==
  \A l \in DOMAIN lanes : lanes[l].by = "flash" => \A q \in Qualifiers :
    lanes[l].validity[q] =
      IF Dated(lanes[l].line, q) # NoDate THEN Dated(lanes[l].line, q) ELSE Invented

IInv == EdifactTypeOK /\ OpenInv /\ ClosedInv /\ CoverInv /\ LaneInv /\ DateInv

-----------------------------------------------------------------------------
(* Dates.                                                                  *)

\* Positions have a greatest one.
LEMMA Greatest == ASSUME NEW n \in Nat, NEW S \in SUBSET (1..n), S # {}
                  PROVE  \E x \in S : \A y \in S : x >= y
<1> DEFINE R == OpToRel(<, Nat)
           T == {n - x : x \in S}
<1>1. IsWellFoundedOn(R, Nat)
  BY NatLessThanWellFounded
<1> HIDE DEF R
<1>2. T \subseteq Nat /\ T # {}
  <2>1. PICK x \in S : TRUE
    OBVIOUS
  <2>2. n - x \in T
    OBVIOUS
  <2>3. \A y \in S : n - y \in Nat
    OBVIOUS
  <2> QED BY <2>2, <2>3
<1> HIDE DEF T
<1>3. PICK t \in T : \A u \in T : ~ (<<u, t>> \in R)
  BY <1>1, <1>2, WFMin, Zenon
<1>4. \A u \in T : ~(u < t)
  <2>1. R = {ss \in Nat \X Nat : ss[1] < ss[2]}
    BY DEF R, OpToRel
  <2> QED BY <2>1, <1>2, <1>3
<1>5. PICK x \in S : t = n - x
  BY DEF T
<1>6. \A y \in S : n - y \in T
  BY DEF T
<1>7. \A y \in S : ~(n - y < n - x)
  BY <1>4, <1>5, <1>6
<1> QED BY <1>7

\* What a scan for a qualifier returns: the date of the last match, or none.
LEMMA ValidityIsLast ==
  ASSUME EdifactTypeOK, NEW q \in Qualifiers, NEW P \in SUBSET DOMAIN segments
  PROVE  /\ Dtms(q, P) = {} => Validity(q, P) = NoDate
         /\ Dtms(q, P) # {} => /\ Validity(q, P) \in Dates
                               /\ \E r \in Dtms(q, P) : /\ segments[r].date = Validity(q, P)
                                                        /\ \A s \in Dtms(q, P) : s <= r
<1>1. Len(segments) \in Nat /\ DOMAIN segments = 1..Len(segments)
  BY DEF EdifactTypeOK
<1>2. CASE Dtms(q, P) = {}
  BY <1>2 DEF Validity
<1>3. CASE Dtms(q, P) # {}
  <2> DEFINE D == Dtms(q, P)
  <2>1. D \in SUBSET (1..Len(segments))
    BY <1>1 DEF Dtms
  <2>2. \E x \in D : \A y \in D : x >= y
    BY <1>1, <1>3, <2>1, Greatest
  <2>3. Max(D) \in D /\ \A y \in D : Max(D) >= y
    BY <2>2 DEF Max
  <2>4. segments[Max(D)] \in Segments /\ segments[Max(D)].tag = "DTM"
    BY <1>1, <2>1, <2>3 DEF EdifactTypeOK, Dtms
  <2>5. segments[Max(D)].date \in Dates
    BY <2>4 DEF Segments
  <2>6. Validity(q, P) = segments[Max(D)].date
    BY <1>3 DEF Validity
  <2>7. \A y \in D : y <= Max(D)
    BY <2>1, <2>3
  <2> QED BY <1>3, <2>3, <2>5, <2>6, <2>7
<1> QED BY <1>2, <1>3

-----------------------------------------------------------------------------
(* The invariant.                                                          *)

LEMMA InitInv == EdifactInit => IInv
<1> SUFFICES ASSUME EdifactInit PROVE IInv
  OBVIOUS
<1> USE DEF EdifactInit
<1>1. segments \in Seq(Segments)
  OBVIOUS
<1>2. Len(segments) \in Nat
  BY <1>1
<1>3. EdifactTypeOK
  BY <1>1, <1>2 DEF EdifactTypeOK
<1>4. OpenInv /\ ClosedInv /\ CoverInv /\ LaneInv /\ DateInv
  BY DEF OpenInv, ClosedInv, CoverInv, LaneInv, DateInv, Grouped
<1> QED BY <1>3, <1>4 DEF IInv

\* What is at hand when the first loop is about to close a cluster.
AtBorder == /\ epc = "group"
            /\ \/ pos > Len(segments)
               \/ segments[pos].tag \in {"LIN", "UNT"}

\* The open cluster is just what stands under its line.
LEMMA OpenIsLine ==
  ASSUME IInv, AtBorder, current # <<>>
  PROVE  current[1] \in Lines /\ IsClusterOf(current, current[1])
<1> DEFINE h == current[1]
<1>0. /\ Len(segments) \in Nat /\ DOMAIN segments = 1..Len(segments)
      /\ pos \in 1..(Len(segments) + 1)
      /\ Len(current) \in Nat /\ DOMAIN current = 1..Len(current)
  BY DEF IInv, EdifactTypeOK
<1>1. /\ h \in 1..(pos - 1) /\ segments[h].tag = "LIN" /\ Len(current) = pos - h
      /\ \A i \in 1..Len(current) : current[i] = h + i - 1
      /\ \A q \in (h + 1)..(pos - 1) : segments[q].tag # "LIN"
      /\ \A q \in 1..(pos - 1) : segments[q].tag # "UNT"
  BY DEF IInv, OpenInv, AtBorder
<1>2. \A q \in 1..(pos - 1) : InMessage(q)
  BY <1>0, <1>1 DEF InMessage
<1>3. h \in Lines
  BY <1>0, <1>1, <1>2 DEF Lines
<1>4. Under(h) = h..(pos - 1)
  <2>1. ASSUME NEW q \in h..(pos - 1) PROVE q \in Under(h)
    BY <1>0, <1>1, <1>2, <2>1 DEF Under, Lines
  <2>2. ASSUME NEW q \in Under(h), q >= pos PROVE FALSE
    <3>1. q \in h..Len(segments) /\ InMessage(q) /\ \A r \in (h + 1)..q : r \notin Lines
      BY DEF Under
    <3>2. pos <= Len(segments) /\ pos \in 1..q /\ pos \in (h + 1)..q
      BY <1>0, <1>1, <2>2, <3>1
    <3>3. segments[pos].tag = "LIN"
      BY <3>1, <3>2 DEF AtBorder, InMessage
    <3>4. InMessage(pos)
      BY <1>0, <3>1, <3>2 DEF InMessage
    <3> QED BY <1>0, <3>1, <3>2, <3>3, <3>4 DEF Lines
  <2>3. \A q \in Under(h) : q \in h..Len(segments)
    BY DEF Under
  <2>4. ASSUME NEW q \in Under(h) PROVE q \in h..(pos - 1)
    <3>1. h \in Nat /\ pos \in Nat /\ q \in h..Len(segments) /\ q < pos
      BY <1>0, <1>1, <2>2, <2>3
    <3> QED BY <1>0, <3>1
  <2> QED BY <2>1, <2>4
<1>5. {current[i] : i \in DOMAIN current} = h..(pos - 1)
  <2>1. ASSUME NEW i \in DOMAIN current PROVE current[i] \in h..(pos - 1)
    BY <1>0, <1>1
  <2>2. ASSUME NEW q \in h..(pos - 1) PROVE \E i \in DOMAIN current : current[i] = q
    <3>0. h \in Nat /\ pos \in Nat /\ Len(current) = pos - h
      BY <1>0, <1>1
    <3>1. q - h + 1 \in 1..Len(current)
      BY <3>0
    <3>2. current[q - h + 1] = h + (q - h + 1) - 1
      BY <1>1, <3>1
    <3>3. current[q - h + 1] = q
      BY <3>0, <3>2
    <3> QED BY <1>0, <3>1, <3>3
  <2> QED BY <2>1, <2>2
<1>6. IsClusterOf(current, h)
  BY <1>0, <1>1, <1>4, <1>5 DEF IsClusterOf
<1> QED BY <1>3, <1>6

\* Closing it keeps the closed clusters in order, and now none before pos is left out.
LEMMA FlushKeeps ==
  ASSUME IInv, AtBorder, Flush, UNCHANGED segments
  PROVE  /\ clusters' \in Seq(Seq(DOMAIN segments))
         /\ ClosedInv'
         /\ \A q \in 1..(pos - 1) : segments[q].tag = "LIN" =>
              \E k \in DOMAIN clusters' : clusters'[k][1] = q
         /\ \A k \in DOMAIN clusters' : clusters'[k][1] < pos
<1>0. /\ clusters \in Seq(Seq(DOMAIN segments)) /\ current \in Seq(DOMAIN segments)
      /\ Len(segments) \in Nat /\ DOMAIN segments = 1..Len(segments)
      /\ pos \in 1..(Len(segments) + 1)
      /\ ClosedInv /\ OpenInv
  BY DEF IInv, EdifactTypeOK
<1>1. Lines' = Lines /\ \A c, p : IsClusterOf(c, p)' <=> IsClusterOf(c, p)
  BY DEF Lines, Under, InMessage, IsClusterOf
<1>c. \A k \in DOMAIN clusters : clusters[k][1] \in Nat
  BY <1>0 DEF ClosedInv, Lines
<1>2. CASE current = <<>>
  <2>1. clusters' = clusters
    BY <1>2 DEF Flush
  <2>2. ClosedInv'
    BY <1>0, <1>1, <2>1 DEF ClosedInv
  <2>3. \A q \in 1..(pos - 1) : segments[q].tag # "LIN"
    BY <1>0, <1>2 DEF OpenInv, AtBorder
  <2>4. DOMAIN clusters' = {}
    BY <1>0, <1>2, <2>1 DEF OpenInv, AtBorder
  <2> QED BY <1>0, <2>1, <2>2, <2>3, <2>4
<1>3. CASE current # <<>>
  <2> DEFINE n == Len(clusters)
  <2>1. clusters' = Append(clusters, current)
    BY <1>3 DEF Flush
  <2>2. /\ n \in Nat /\ DOMAIN clusters = 1..n /\ DOMAIN clusters' = 1..(n + 1)
        /\ \A k \in 1..n : clusters'[k] = clusters[k]
        /\ clusters'[n + 1] = current
        /\ clusters' \in Seq(Seq(DOMAIN segments))
    BY <1>0, <2>1
  <2> HIDE DEF n
  <2>k. \A k \in DOMAIN clusters' : \/ k \in DOMAIN clusters /\ clusters'[k] = clusters[k]
                                    \/ k = n + 1 /\ clusters'[k] = current
    BY <2>2
  <2>3. current[1] \in Lines /\ IsClusterOf(current, current[1])
    BY <1>3, OpenIsLine
  <2>4. /\ current[1] \in 1..(pos - 1)
        /\ \A k \in DOMAIN clusters : clusters[k][1] < current[1]
    BY <1>0, <1>3 DEF OpenInv, AtBorder
  <2>5. ASSUME NEW k \in DOMAIN clusters'
        PROVE  /\ clusters'[k] # <<>>
               /\ clusters'[k][1] \in Lines
               /\ IsClusterOf(clusters'[k], clusters'[k][1])
    BY <1>0, <1>3, <2>k, <2>3 DEF ClosedInv
  <2>6. ASSUME NEW j \in DOMAIN clusters', NEW k \in DOMAIN clusters', j < k
        PROVE  clusters'[j][1] < clusters'[k][1]
    <3>1. j \in DOMAIN clusters /\ clusters'[j] = clusters[j]
      BY <2>2, <2>k, <2>6
    <3>2. CASE k \in DOMAIN clusters /\ clusters'[k] = clusters[k]
      BY <1>0, <2>6, <3>1, <3>2 DEF ClosedInv
    <3>3. CASE clusters'[k] = current
      BY <2>4, <3>1, <3>3
    <3> QED BY <2>k, <3>2, <3>3
  <2>7. ClosedInv'
    BY <1>1, <2>5, <2>6 DEF ClosedInv
  <2>8. ASSUME NEW q \in 1..(pos - 1), segments[q].tag = "LIN"
        PROVE  \E k \in DOMAIN clusters' : clusters'[k][1] = q
    <3>1. current[1] = q \/ \E k \in DOMAIN clusters : clusters[k][1] = q
      BY <1>0, <2>8 DEF OpenInv, AtBorder
    <3>2. CASE current[1] = q
      <4>1. n + 1 \in DOMAIN clusters' /\ clusters'[n + 1][1] = q
        BY <2>2, <3>2
      <4> QED BY <4>1
    <3>3. CASE \E k \in DOMAIN clusters : clusters[k][1] = q
      <4>1. PICK k \in DOMAIN clusters : clusters[k][1] = q
        BY <3>3
      <4>2. k \in DOMAIN clusters' /\ clusters'[k] = clusters[k]
        BY <2>2
      <4> QED BY <4>1, <4>2
    <3> QED BY <3>1, <3>2, <3>3
  <2>9. ASSUME NEW k \in DOMAIN clusters' PROVE clusters'[k][1] < pos
    <3>1. CASE clusters'[k] = current
      BY <1>0, <2>4, <3>1
    <3>2. CASE k \in DOMAIN clusters /\ clusters'[k] = clusters[k]
      <4>1. clusters[k][1] \in Nat /\ clusters[k][1] < current[1]
        BY <1>c, <2>4, <3>2
      <4>2. current[1] \in Nat /\ current[1] < pos /\ pos \in Nat
        BY <1>0, <2>4
      <4>3. clusters[k][1] < pos
        BY <4>1, <4>2
      <4> QED BY <3>2, <4>3
    <3> QED BY <2>k, <3>1, <3>2
  <2> QED BY <2>2, <2>7, <2>8, <2>9
<1> QED BY <1>2, <1>3

\* The segment at pos is in the message, as all before it.
LEMMA Prefix == ASSUME IInv, epc = "group", pos <= Len(segments),
                       segments[pos].tag # "UNT"
                PROVE  \A q \in 1..pos : segments[q].tag # "UNT"
  BY DEF IInv, EdifactTypeOK, OpenInv

\* Nothing that the lanes depend on has changed, and no cluster is parsed yet.
LEMMA GroupLanes ==
  ASSUME IInv, epc = "group", UNCHANGED <<segments, idx, lanes, dropped>>,
         epc' \in {"group", "parse"}
  PROVE  LaneInv' /\ DateInv'
  BY DEF IInv, LaneInv, DateInv

LEMMA StartClusterStep == IInv /\ StartCluster => IInv'
<1> SUFFICES ASSUME IInv, StartCluster PROVE IInv'
  OBVIOUS
<1>0. /\ epc = "group" /\ pos <= Len(segments) /\ segments[pos].tag = "LIN"
      /\ Flush /\ current' = <<pos>> /\ pos' = pos + 1
      /\ UNCHANGED <<segments, epc, idx, lanes, dropped>>
  BY DEF StartCluster, AtTag, Advance
<1>t. /\ Len(segments) \in Nat /\ DOMAIN segments = 1..Len(segments)
      /\ pos \in 1..Len(segments)
  BY <1>0 DEF IInv, EdifactTypeOK
<1>1. AtBorder
  BY <1>0 DEF AtBorder
<1>2. /\ clusters' \in Seq(Seq(DOMAIN segments))
      /\ ClosedInv'
      /\ \A q \in 1..(pos - 1) : segments[q].tag = "LIN" =>
           \E k \in DOMAIN clusters' : clusters'[k][1] = q
      /\ \A k \in DOMAIN clusters' : clusters'[k][1] < pos
  BY <1>0, <1>1, FlushKeeps
<1>3. EdifactTypeOK'
  <2>1. Len(clusters') \in Nat
    BY <1>2
  <2>2. idx = 1 /\ dropped = {}
    BY <1>0 DEF IInv, LaneInv
  <2> QED BY <1>0, <1>t, <1>2, <2>1, <2>2 DEF IInv, EdifactTypeOK
<1>4. OpenInv'
  <2>1. /\ current' # <<>> /\ current'[1] = pos /\ Len(current') = 1
        /\ \A i \in 1..Len(current') : current'[i] = pos + i - 1
    BY <1>0, <1>t
  <2>2. \A q \in 1..pos : segments[q].tag # "UNT"
    BY <1>0, Prefix
  <2>3. \A q \in 1..pos : segments[q].tag = "LIN" =>
          q = pos \/ \E k \in DOMAIN clusters' : clusters'[k][1] = q
    BY <1>t, <1>2
  <2> QED BY <1>0, <1>t, <1>2, <2>1, <2>2, <2>3 DEF OpenInv
<1>5. CoverInv'
  BY <1>0 DEF CoverInv, Grouped
<1>6. LaneInv' /\ DateInv'
  BY <1>0, GroupLanes
<1> QED BY <1>2, <1>3, <1>4, <1>5, <1>6 DEF IInv

LEMMA CollectStep == IInv /\ Collect => IInv'
<1> SUFFICES ASSUME IInv, Collect PROVE IInv'
  OBVIOUS
<1>0. /\ epc = "group" /\ pos <= Len(segments) /\ segments[pos].tag \in {"DTM", "other"}
      /\ current' = IF current = <<>> THEN <<>> ELSE Append(current, pos)
      /\ pos' = pos + 1
      /\ UNCHANGED <<segments, epc, clusters, idx, lanes, dropped>>
  BY DEF Collect, AtTag, Advance
<1>t. /\ Len(segments) \in Nat /\ DOMAIN segments = 1..Len(segments)
      /\ pos \in 1..Len(segments) /\ current \in Seq(DOMAIN segments)
      /\ OpenInv
  BY <1>0 DEF IInv, EdifactTypeOK
<1>1. EdifactTypeOK'
  <2>1. current' \in Seq(DOMAIN segments)
    <3> DEFINE D == DOMAIN segments
    <3>1. current \in Seq(D) /\ pos \in D
      BY <1>t
    <3>2. current' = <<>> \/ current' = Append(current, pos)
      BY <1>0
    <3> HIDE DEF D
    <3>3. <<>> \in Seq(D) /\ Append(current, pos) \in Seq(D)
      BY <3>1, EmptySeq, AppendProperties
    <3>4. current' \in Seq(D)
      BY <3>2, <3>3
    <3> QED BY <3>4 DEF D
  <2>2. pos' \in 1..(Len(segments) + 1)
    BY <1>0, <1>t
  <2>3. EdifactTypeOK
    BY DEF IInv
  <2> QED BY <1>0, <2>1, <2>2, <2>3 DEF EdifactTypeOK
<1>2. ClosedInv'
  <2>1. Lines' = Lines /\ \A c, p : IsClusterOf(c, p)' <=> IsClusterOf(c, p)
    BY <1>0 DEF Lines, Under, InMessage, IsClusterOf
  <2> QED BY <1>0, <2>1 DEF IInv, ClosedInv
<1>3. OpenInv'
  <2>1. \A q \in 1..pos : segments[q].tag # "UNT"
    BY <1>0, Prefix
  <2>2. CASE current = <<>>
    BY <1>0, <1>t, <2>1, <2>2 DEF OpenInv
  <2>3. CASE current # <<>>
    <3> DEFINE h == current[1]
    <3>1. /\ current' # <<>> /\ current'[1] = h /\ Len(current') = Len(current) + 1
          /\ \A i \in 1..Len(current) : current'[i] = current[i]
          /\ current'[Len(current) + 1] = pos
      BY <1>0, <1>t, <2>3
    <3>2. /\ h \in 1..(pos - 1) /\ segments[h].tag = "LIN" /\ Len(current) = pos - h
          /\ \A i \in 1..Len(current) : current[i] = h + i - 1
          /\ \A q \in (h + 1)..(pos - 1) : segments[q].tag # "LIN"
          /\ \A k \in DOMAIN clusters : clusters[k][1] < h
      BY <1>0, <1>t, <2>3 DEF OpenInv
    <3> HIDE DEF h
    <3>3. ASSUME NEW i \in 1..Len(current') PROVE current'[i] = h + i - 1
      <4>1. Len(current) \in Nat
        BY <1>t
      <4>2. CASE i \in 1..Len(current)
        BY <3>1, <3>2, <4>2
      <4>3. CASE i = Len(current) + 1
        BY <1>t, <3>1, <3>2, <4>3
      <4> QED BY <3>1, <4>1, <4>2, <4>3
    <3>4. \A q \in (h + 1)..pos : segments[q].tag # "LIN"
      BY <1>0, <1>t, <3>2
    <3>5. \A q \in 1..pos : segments[q].tag = "LIN" =>
            h = q \/ \E k \in DOMAIN clusters : clusters[k][1] = q
      BY <1>0, <1>t DEF OpenInv, h
    <3>6. h \in 1..pos /\ Len(current') = pos' - h /\ pos' - 1 = pos
      BY <1>0, <1>t, <3>1, <3>2
    <3>7. \A k \in DOMAIN clusters' : clusters'[k][1] < h
      BY <1>0, <3>2
    <3>8. segments'[h].tag = "LIN" /\ \A q \in 1..pos : segments'[q].tag # "UNT"
      BY <1>0, <2>1, <3>2
    <3>9. /\ \A q \in (h + 1)..pos : segments'[q].tag # "LIN"
          /\ \A q \in 1..pos : segments'[q].tag = "LIN" =>
               h = q \/ \E k \in DOMAIN clusters' : clusters'[k][1] = q
      BY <1>0, <3>4, <3>5
    <3> QED BY <3>1, <3>3, <3>6, <3>7, <3>8, <3>9 DEF OpenInv
  <2> QED BY <2>2, <2>3
<1>4. CoverInv'
  BY <1>0 DEF CoverInv, Grouped
<1>5. LaneInv' /\ DateInv'
  BY <1>0, GroupLanes
<1> QED BY <1>1, <1>2, <1>3, <1>4, <1>5 DEF IInv

\* Both ends of the first loop: the open cluster is closed, and nothing is left out.
LEMMA CloseStep ==
  ASSUME IInv, AtBorder, Flush, epc' = "parse", current' \in {current, <<>>},
         UNCHANGED <<segments, pos, idx, lanes, dropped>>,
         pos <= Len(segments) => segments[pos].tag = "UNT"
  PROVE  IInv'
<1>t. /\ Len(segments) \in Nat /\ DOMAIN segments = 1..Len(segments)
      /\ pos \in 1..(Len(segments) + 1) /\ EdifactTypeOK
      /\ epc = "group" /\ idx = 1 /\ dropped = {}
  BY DEF IInv, EdifactTypeOK, AtBorder, LaneInv
<1>1. /\ clusters' \in Seq(Seq(DOMAIN segments))
      /\ ClosedInv'
      /\ \A q \in 1..(pos - 1) : segments[q].tag = "LIN" =>
           \E k \in DOMAIN clusters' : clusters'[k][1] = q
  BY FlushKeeps
<1>2. EdifactTypeOK'
  <2>1. Len(clusters') \in Nat
    BY <1>1
  <2>2. current' \in Seq(DOMAIN segments)
    BY <1>t, EmptySeq DEF EdifactTypeOK
  <2> QED BY <1>t, <1>1, <2>1, <2>2 DEF EdifactTypeOK
<1>3. OpenInv'
  BY DEF OpenInv
<1>4. CoverInv'
  <2>1. ASSUME NEW p \in Lines PROVE p \in 1..(pos - 1) /\ segments[p].tag = "LIN"
    <3>1. p \in 1..Len(segments) /\ segments[p].tag = "LIN" /\ InMessage(p)
      BY <1>t DEF Lines
    <3>2. CASE p >= pos
      <4>1. pos <= Len(segments) /\ pos \in 1..p
        BY <1>t, <3>1, <3>2
      <4> QED BY <3>1, <4>1 DEF InMessage
    <3> QED BY <1>t, <3>1, <3>2
  <2>2. Lines' = Lines
    BY DEF Lines, InMessage
  <2> QED BY <1>1, <2>1, <2>2 DEF CoverInv
<1>5. LaneInv' /\ DateInv'
  BY <1>t, GroupLanes
<1> QED BY <1>1, <1>2, <1>3, <1>4, <1>5 DEF IInv

LEMMA TrailerStep == IInv /\ Trailer => IInv'
<1> SUFFICES ASSUME IInv, Trailer PROVE IInv'
  OBVIOUS
<1>1. AtBorder /\ segments[pos].tag = "UNT"
  BY DEF Trailer, AtTag, AtBorder
<1> QED BY <1>1, CloseStep DEF Trailer

LEMMA EndOfSegmentsStep == IInv /\ EndOfSegments => IInv'
<1> SUFFICES ASSUME IInv, EndOfSegments PROVE IInv'
  OBVIOUS
<1>1. AtBorder /\ ~(pos <= Len(segments))
  <2>1. pos \in Nat /\ Len(segments) \in Nat
    BY DEF IInv, EdifactTypeOK
  <2> QED BY <2>1 DEF EndOfSegments, AtBorder
<1> QED BY <1>1, CloseStep DEF EndOfSegments

-----------------------------------------------------------------------------
(* The second loop.                                                        *)

\* What it leaves alone.
LEMMA ClustersStay ==
  ASSUME IInv, UNCHANGED <<segments, clusters>>, epc = "parse", epc' # "read", epc' # "group"
  PROVE  OpenInv' /\ ClosedInv' /\ CoverInv'
<1>1. /\ Lines' = Lines
      /\ \A c, p : IsClusterOf(c, p)' <=> IsClusterOf(c, p)
  BY DEF Lines, Under, InMessage, IsClusterOf
<1>2. ClosedInv'
  BY <1>1 DEF IInv, ClosedInv
<1>3. CoverInv'
  BY <1>1 DEF IInv, CoverInv, Grouped
<1> QED BY <1>2, <1>3 DEF OpenInv

LEMMA DatesStay == ASSUME DateInv, UNCHANGED <<segments, clusters, lanes>> PROVE DateInv'
<1>1. \A k, q : Dated(k, q)' = Dated(k, q)
  BY DEF Dated, Validity, Dtms, MembersOf
<1> QED BY <1>1 DEF DateInv

LEMMA ReadStep == IInv /\ Read => IInv'
<1> SUFFICES ASSUME IInv, Read PROVE IInv'
  OBVIOUS
<1>1. /\ epc = "read" /\ epc' \in {"group", "raised"}
      /\ UNCHANGED <<segments, pos, current, clusters, idx, lanes, dropped>>
  BY DEF Read
<1>2. EdifactTypeOK' /\ OpenInv' /\ CoverInv'
  BY <1>1 DEF IInv, EdifactTypeOK, Outcomes, OpenInv, CoverInv, Grouped
<1>3. ClosedInv'
  <2>1. /\ Lines' = Lines
        /\ \A c, p : IsClusterOf(c, p)' <=> IsClusterOf(c, p)
    BY <1>1 DEF Lines, Under, InMessage, IsClusterOf
  <2> QED BY <1>1, <2>1 DEF IInv, ClosedInv
<1>4. LaneInv' /\ DateInv'
  BY <1>1 DEF IInv, LaneInv, DateInv
<1> QED BY <1>2, <1>3, <1>4 DEF IInv

\* The second loop is done with one more cluster.
LEMMA LaneAppended ==
  ASSUME IInv, epc = "parse", idx <= Len(clusters), idx' = idx + 1,
         UNCHANGED <<segments, epc, pos, current, clusters, dropped>>,
         NEW lane \in LaneOf, lane.line = idx, lanes' = Append(lanes, lane),
         lane.by = "flash" => \A q \in Qualifiers :
           lane.validity[q] = IF Dated(idx, q) # NoDate THEN Dated(idx, q) ELSE Invented
  PROVE  IInv'
<1>t. /\ EdifactTypeOK /\ LaneInv
      /\ Len(clusters) \in Nat /\ idx \in 1..Len(clusters)
      /\ lanes \in Seq(LaneOf)
  <2>1. Len(clusters) \in Nat
    BY DEF IInv, EdifactTypeOK
  <2> QED BY <2>1 DEF IInv, EdifactTypeOK
<1>1. OpenInv' /\ ClosedInv' /\ CoverInv'
  BY ClustersStay
<1>2. /\ lanes' \in Seq(LaneOf) /\ lanes' # <<>> /\ Len(lanes) \in Nat
      /\ DOMAIN lanes = 1..Len(lanes) /\ DOMAIN lanes' = 1..(Len(lanes) + 1)
      /\ \A l \in 1..Len(lanes) : lanes'[l] = lanes[l]
      /\ lanes'[Len(lanes) + 1] = lane
  BY <1>t, AppendProperties
<1>3. EdifactTypeOK'
  BY <1>t, <1>2 DEF EdifactTypeOK
<1>4. LaneInv'
  <2>1. \A l \in DOMAIN lanes : lanes[l].line \in Nat \ {0} /\ lanes[l].line < idx
    <3>1. ASSUME NEW l \in DOMAIN lanes PROVE lanes[l].line \in Nat \ {0}
      <4>1. lanes[l] \in LaneOf
        BY <1>t
      <4> QED BY <4>1 DEF LaneOf
    <3> QED BY <1>t, <3>1 DEF LaneInv
  <2>2. \A l \in DOMAIN lanes' : \/ l \in DOMAIN lanes /\ lanes'[l] = lanes[l]
                                 \/ l = Len(lanes) + 1 /\ lanes'[l] = lane
    BY <1>2
  <2>3. \A l \in DOMAIN lanes' : lanes'[l].line < idx'
    BY <1>t, <2>1, <2>2
  <2>4. \A k \in dropped : k \in Nat /\ k < idx
    BY <1>t DEF LaneInv, EdifactTypeOK
  <2>5. ASSUME NEW k \in 1..idx
        PROVE  k \notin dropped <=> \E l \in DOMAIN lanes' : lanes'[l].line = k
    <3>1. CASE k = idx
      <4>1. k \notin dropped
        BY <1>t, <2>4, <3>1
      <4>2. Len(lanes) + 1 \in DOMAIN lanes' /\ lanes'[Len(lanes) + 1].line = k
        BY <1>2, <3>1
      <4> QED BY <4>1, <4>2
    <3>2. CASE k \in 1..(idx - 1)
      <4>1. k \notin dropped <=> \E l \in DOMAIN lanes : lanes[l].line = k
        BY <1>t, <3>2 DEF LaneInv
      <4>2. ASSUME NEW l \in DOMAIN lanes, lanes[l].line = k
            PROVE  \E m \in DOMAIN lanes' : lanes'[m].line = k
        <5>1. l \in DOMAIN lanes' /\ lanes'[l].line = k
          BY <1>2, <4>2
        <5> QED BY <5>1
      <4>3. ASSUME NEW l \in DOMAIN lanes', lanes'[l].line = k
            PROVE  \E m \in DOMAIN lanes : lanes[m].line = k
        <5>1. lane.line # k
          BY <1>t, <3>2
        <5> QED BY <2>2, <4>3, <5>1
      <4> QED BY <4>1, <4>2, <4>3
    <3> QED BY <1>t, <3>1, <3>2
  <2>6. ASSUME NEW l \in DOMAIN lanes', NEW m \in DOMAIN lanes', l < m
        PROVE  lanes'[l].line < lanes'[m].line
    <3>1. l \in DOMAIN lanes /\ lanes'[l] = lanes[l]
      BY <1>2, <2>2, <2>6
    <3>2. CASE m \in DOMAIN lanes /\ lanes'[m] = lanes[m]
      BY <1>t, <2>6, <3>1, <3>2 DEF LaneInv
    <3>3. CASE lanes'[m] = lane
      BY <2>1, <3>1, <3>3
    <3> QED BY <2>2, <3>2, <3>3
  <2>8. idx' - 1 = idx
    BY <1>t
  <2>9. \A k \in dropped' : k < idx' /\ segments'[clusters'[k][1]].elements = "lacking"
    BY <1>t, <2>4 DEF LaneInv
  <2>10. epc' = "parse" /\ dropped' = dropped
    OBVIOUS
  <2>11. \A k \in 1..(idx' - 1) : k \notin dropped' <=> \E l \in DOMAIN lanes' : lanes'[l].line = k
    BY <2>5, <2>8
  <2> QED BY <2>3, <2>6, <2>9, <2>10, <2>11 DEF LaneInv
<1>5. DateInv'
  <2>1. ASSUME NEW l \in DOMAIN lanes', lanes'[l].by = "flash", NEW q \in Qualifiers
        PROVE  LET d == Dated(lanes'[l].line, q)
               IN  lanes'[l].validity[q] = IF d # NoDate THEN d ELSE Invented
    <3>1. CASE l = Len(lanes) + 1
      BY <1>2, <2>1, <3>1
    <3>2. CASE l \in DOMAIN lanes
      <4>1. lanes'[l] = lanes[l]
        BY <1>2, <3>2
      <4> QED BY <2>1, <3>2, <4>1 DEF IInv, DateInv
    <3>3. l \in DOMAIN lanes \/ l = Len(lanes) + 1
      BY <1>2
    <3> QED BY <3>1, <3>2, <3>3
  <2>2. \A k, q : Dated(k, q)' = Dated(k, q)
    BY DEF Dated, Validity, Dtms, MembersOf
  <2> QED BY <2>1, <2>2 DEF DateInv
<1> QED BY <1>1, <1>3, <1>4, <1>5 DEF IInv

LEMMA ParseLineStep == IInv /\ ParseLine => IInv'
<1> SUFFICES ASSUME IInv, ParseLine PROVE IInv'
  OBVIOUS
<1> DEFINE lane == [line |-> idx, by |-> "parser", validity |-> [q \in Qualifiers |-> OwnDate]]
<1>1. PICK r : r = lane
  OBVIOUS
<1>2. idx \in Nat \ {0}
  BY DEF IInv, EdifactTypeOK
<1>3. r \in LaneOf /\ r.line = idx /\ r.by # "flash"
  BY <1>1, <1>2 DEF LaneOf, Given
<1>4. /\ epc = "parse" /\ idx <= Len(clusters) /\ idx' = idx + 1
      /\ UNCHANGED <<segments, epc, pos, current, clusters, dropped>>
      /\ lanes' = Append(lanes, r)
  BY <1>1 DEF ParseLine, AtHead, AppendLane, NextCluster
<1> QED BY <1>3, <1>4, LaneAppended

LEMMA FlashAnswersStep == IInv /\ FlashAnswers => IInv'
<1> SUFFICES ASSUME IInv, FlashAnswers PROVE IInv'
  OBVIOUS
<1> DEFINE dates == [q \in Qualifiers |-> IF Effective(q) # NoDate THEN Effective(q)
                                          ELSE Invented]
           lane == [line |-> idx, by |-> "flash", validity |-> dates]
<1>1. PICK r : r = lane
  OBVIOUS
<1>2. idx \in 1..Len(clusters)
  <2>1. epc = "parse" /\ idx <= Len(clusters)
    BY DEF FlashAnswers, AtHead
  <2> QED BY <2>1 DEF IInv, EdifactTypeOK
<1>3. \A q \in Qualifiers : Effective(q) = Dated(idx, q)
  BY DEF Effective, Dated, Members, MembersOf, Cluster
<1>4. dates \in [Qualifiers -> Given]
  <2>1. ASSUME NEW q \in Qualifiers, NEW P \in SUBSET DOMAIN segments
        PROVE  Validity(q, P) \in Dates \union {NoDate}
    BY ValidityIsLast DEF IInv
  <2>2. Members \subseteq DOMAIN segments
    <3>1. clusters[idx] \in Seq(DOMAIN segments)
      BY <1>2 DEF IInv, EdifactTypeOK
    <3> QED BY <3>1 DEF Members, Cluster
  <2>3. \A q \in Qualifiers : Effective(q) \in Dates \union {NoDate}
    BY <2>1, <2>2 DEF Effective
  <2> QED BY <2>3 DEF Given
<1>5. r \in LaneOf /\ r.line = idx /\ r.validity = dates
  BY <1>1, <1>2, <1>4 DEF LaneOf
<1>6. \A q \in Qualifiers :
        r.validity[q] = IF Dated(idx, q) # NoDate THEN Dated(idx, q) ELSE Invented
  BY <1>3, <1>5
<1>7. /\ epc = "parse" /\ idx <= Len(clusters) /\ idx' = idx + 1
      /\ UNCHANGED <<segments, epc, pos, current, clusters, dropped>>
      /\ lanes' = Append(lanes, r)
  BY <1>1 DEF FlashAnswers, AtHead, AppendLane, NextCluster
<1> QED BY <1>5, <1>6, <1>7, LaneAppended

LEMMA FlashFailsStep == IInv /\ FlashFails => IInv'
<1> SUFFICES ASSUME IInv, FlashFails PROVE IInv'
  OBVIOUS
<1>0. /\ epc = "parse" /\ idx <= Len(clusters) /\ idx' = idx + 1
      /\ segments[clusters[idx][1]].elements = "lacking"
      /\ dropped' = dropped \union {idx}
      /\ UNCHANGED <<segments, epc, pos, current, clusters, lanes>>
  BY DEF FlashFails, AtHead, NextCluster, Cluster
<1>t. /\ EdifactTypeOK /\ LaneInv /\ DateInv
      /\ Len(clusters) \in Nat /\ idx \in 1..Len(clusters)
  <2>1. Len(clusters) \in Nat
    BY DEF IInv, EdifactTypeOK
  <2> QED BY <1>0, <2>1 DEF IInv, EdifactTypeOK
<1>1. OpenInv' /\ ClosedInv' /\ CoverInv'
  BY <1>0, ClustersStay
<1>2. EdifactTypeOK'
  <2>1. dropped' \in SUBSET (1..Len(clusters)) /\ idx' \in 1..(Len(clusters) + 1)
    BY <1>0, <1>t DEF EdifactTypeOK
  <2> QED BY <1>0, <1>t, <2>1 DEF EdifactTypeOK
<1>3. LaneInv'
  <2>1. \A l \in DOMAIN lanes : lanes[l].line \in Nat \ {0} /\ lanes[l].line < idx
    <3>1. ASSUME NEW l \in DOMAIN lanes PROVE lanes[l].line \in Nat \ {0}
      <4>1. lanes[l] \in LaneOf
        BY <1>t DEF EdifactTypeOK
      <4> QED BY <4>1 DEF LaneOf
    <3> QED BY <1>t, <3>1 DEF LaneInv
  <2>2. \A l \in DOMAIN lanes' : lanes'[l].line < idx'
    BY <1>0, <1>t, <2>1
  <2>3. \A k \in dropped : k \in Nat /\ k < idx
    BY <1>t DEF LaneInv, EdifactTypeOK
  <2>4. \A k \in dropped' : k < idx' /\ segments'[clusters'[k][1]].elements = "lacking"
    BY <1>0, <1>t, <2>3 DEF LaneInv
  <2>5. ASSUME NEW k \in 1..(idx' - 1)
        PROVE  k \notin dropped' <=> \E l \in DOMAIN lanes' : lanes'[l].line = k
    <3>1. CASE k = idx
      BY <1>0, <1>t, <2>1, <3>1
    <3>2. CASE k \in 1..(idx - 1)
      <4>1. k \in dropped' <=> k \in dropped
        BY <1>0, <1>t, <3>2
      <4> QED BY <1>0, <1>t, <3>2, <4>1 DEF LaneInv
    <3> QED BY <1>0, <1>t, <3>1, <3>2
  <2>6. \A l, m \in DOMAIN lanes' : l < m => lanes'[l].line < lanes'[m].line
    BY <1>0, <1>t DEF LaneInv
  <2>7. epc' = "parse"
    BY <1>0
  <2> QED BY <2>2, <2>4, <2>5, <2>6, <2>7 DEF LaneInv
<1>4. DateInv'
  BY <1>0, <1>t, DatesStay
<1> QED BY <1>1, <1>2, <1>3, <1>4 DEF IInv

\* The end of the second loop, by an exception or with a result.
LEMMA EndStep == IInv /\ (LineRaises \/ Conclude) => IInv'
<1> SUFFICES ASSUME IInv, LineRaises \/ Conclude PROVE IInv'
  OBVIOUS
<1>0. /\ epc = "parse"
      /\ UNCHANGED <<segments, pos, current, clusters, idx, lanes, dropped>>
      /\ \/ epc' = "raised"
         \/ /\ idx > Len(clusters)
            /\ epc' \in {"no_lanes", "payload"}
            /\ epc' = "payload" => lanes # <<>>
  BY DEF LineRaises, Conclude, AtHead
<1>t. EdifactTypeOK /\ LaneInv /\ DateInv /\ Len(clusters) \in Nat
  BY DEF IInv, EdifactTypeOK
<1>1. OpenInv' /\ ClosedInv' /\ CoverInv'
  BY <1>0, ClustersStay
<1>2. EdifactTypeOK'
  BY <1>0, <1>t DEF EdifactTypeOK, Outcomes
<1>3. LaneInv'
  <2>1. idx > Len(clusters) => idx = Len(clusters) + 1
    BY <1>t DEF EdifactTypeOK
  <2> QED BY <1>0, <1>t, <2>1 DEF LaneInv
<1>4. DateInv'
  BY <1>0, <1>t, DatesStay
<1> QED BY <1>1, <1>2, <1>3, <1>4 DEF IInv

LEMMA Stutter == IInv /\ UNCHANGED evars => IInv'
<1> SUFFICES ASSUME IInv, UNCHANGED evars PROVE IInv'
  OBVIOUS
<1> USE DEF evars
<1>1. EdifactTypeOK' /\ OpenInv' /\ LaneInv'
  BY DEF IInv, EdifactTypeOK, OpenInv, LaneInv
<1>2. ClosedInv' /\ CoverInv'
  <2>1. /\ Lines' = Lines
        /\ \A c, p : IsClusterOf(c, p)' <=> IsClusterOf(c, p)
    BY DEF Lines, Under, InMessage, IsClusterOf
  <2> QED BY <2>1 DEF IInv, ClosedInv, CoverInv, Grouped
<1>3. DateInv'
  BY DatesStay DEF IInv
<1> QED BY <1>1, <1>2, <1>3 DEF IInv

LEMMA InvHolds == EdifactSpec => []IInv
<1>1. IInv /\ [EdifactNext]_evars => IInv'
  BY ReadStep, StartClusterStep, CollectStep, TrailerStep, EndOfSegmentsStep, ParseLineStep,
     FlashAnswersStep, FlashFailsStep, EndStep, Stutter DEF EdifactNext
<1> QED BY InitInv, <1>1, PTL DEF EdifactSpec

-----------------------------------------------------------------------------
(* The theorems.                                                           *)

\* Every variable of the extraction has its type: the loops never leave the segments
\* or the clusters.
THEOREM TypesCorrect == EdifactSpec => []EdifactTypeOK
<1>1. IInv => EdifactTypeOK
  BY DEF IInv
<1> QED BY InvHolds, <1>1, PTL

LEMMA ClustersAreLines == IInv => ClustersExact
<1> SUFFICES ASSUME IInv, Grouped PROVE
      /\ \A p \in Lines : \E k \in DOMAIN clusters : IsClusterOf(clusters[k], p)
      /\ \A k \in DOMAIN clusters : \E p \in Lines : IsClusterOf(clusters[k], p)
      /\ \A j, k \in DOMAIN clusters : j < k => clusters[j][1] < clusters[k][1]
  BY DEF ClustersExact, Grouped
<1>1. ClosedInv /\ CoverInv
  BY DEF IInv
<1>2. ASSUME NEW p \in Lines
      PROVE  \E k \in DOMAIN clusters : IsClusterOf(clusters[k], p)
  <2>1. PICK k \in DOMAIN clusters : clusters[k][1] = p
    BY <1>1 DEF CoverInv
  <2> QED BY <1>1, <2>1 DEF ClosedInv
<1> QED BY <1>1, <1>2 DEF ClosedInv

\* For interchanges of any length: no line of the first message is lost, each has just
\* the segments that follow it, and the lines keep their order.
THEOREM ClustersComplete == EdifactSpec => []ClustersExact
<1> QED BY InvHolds, ClustersAreLines, PTL

LEMMA LinesAnswered == IInv => EveryLineAnswered
<1> SUFFICES ASSUME IInv, epc = "payload" PROVE
      /\ \A p \in Lines : \E k \in DOMAIN clusters :
           /\ IsClusterOf(clusters[k], p)
           /\ k \in dropped => segments[p].elements = "lacking"
           /\ k \notin dropped <=> \E l \in DOMAIN lanes : lanes[l].line = k
      /\ \A l, m \in DOMAIN lanes : l < m => lanes[l].line < lanes[m].line
      /\ lanes # <<>>
  BY DEF EveryLineAnswered
<1>1. ClosedInv /\ CoverInv /\ LaneInv /\ idx - 1 = Len(clusters) /\ Len(clusters) \in Nat
      /\ DOMAIN clusters = 1..Len(clusters)
  <2>1. Len(clusters) \in Nat /\ DOMAIN clusters = 1..Len(clusters) /\ LaneInv
    BY DEF IInv, EdifactTypeOK
  <2> QED BY <2>1 DEF IInv, LaneInv
<1>2. ASSUME NEW p \in Lines
      PROVE  \E k \in DOMAIN clusters :
               /\ IsClusterOf(clusters[k], p)
               /\ k \in dropped => segments[p].elements = "lacking"
               /\ k \notin dropped <=> \E l \in DOMAIN lanes : lanes[l].line = k
  <2>1. PICK k \in DOMAIN clusters : clusters[k][1] = p
    BY <1>1 DEF CoverInv, Grouped
  <2>2. IsClusterOf(clusters[k], p)
    BY <1>1, <2>1 DEF ClosedInv
  <2>3. k \in dropped => segments[p].elements = "lacking"
    BY <1>1, <2>1 DEF LaneInv
  <2>4. k \notin dropped <=> \E l \in DOMAIN lanes : lanes[l].line = k
    BY <1>1, <2>1 DEF LaneInv
  <2> QED BY <2>2, <2>3, <2>4
<1> QED BY <1>1, <1>2 DEF LaneInv

\* A payload has a lane for every line of the first message, in their order, but for
\* those that Flash was asked about and had no lane for.
THEOREM LinesComplete == EdifactSpec => []EveryLineAnswered
<1> QED BY InvHolds, LinesAnswered, PTL

LEMMA DatesAreGrounded == IInv => DatesGrounded
<1> SUFFICES ASSUME IInv, NEW l \in DOMAIN lanes, NEW p \in Lines, NEW q \in Qualifiers,
                    lanes[l].by = "flash", IsClusterOf(clusters[lanes[l].line], p)
             PROVE  LET date == lanes[l].validity[q]
                        near == Dtms(q, Under(p))
                        far == Dtms(q, DOMAIN segments)
                    IN  /\ far = {} <=> date = Invented
                        /\ near # {} => \E r \in near : /\ segments[r].date = date
                                                        /\ \A s \in near : s <= r
  BY DEF DatesGrounded
<1> DEFINE date == lanes[l].validity[q]
           near == Dtms(q, Under(p))
           far == Dtms(q, DOMAIN segments)
           k == lanes[l].line
<1>1. Under(p) \subseteq DOMAIN segments
  <2>1. DOMAIN segments = 1..Len(segments) /\ Len(segments) \in Nat /\ p \in 1..Len(segments)
    BY DEF IInv, EdifactTypeOK, Lines
  <2> QED BY <2>1 DEF Under
<1>2. MembersOf(k) = Under(p)
  BY DEF MembersOf, IsClusterOf
<1>3. date = IF Dated(k, q) # NoDate THEN Dated(k, q) ELSE Invented
  BY DEF IInv, DateInv
<1>4. near \subseteq far
  BY <1>1 DEF Dtms
<1>5. EdifactTypeOK /\ NoDate \notin Dates /\ Invented \notin Dates /\ Invented # NoDate
  BY EdifactAssumption DEF IInv, Given
<1>6. /\ near = {} => Validity(q, Under(p)) = NoDate
      /\ near # {} => /\ Validity(q, Under(p)) \in Dates
                      /\ \E r \in near : /\ segments[r].date = Validity(q, Under(p))
                                         /\ \A s \in near : s <= r
  BY <1>1, <1>5, ValidityIsLast
<1>7. /\ far = {} => Validity(q, DOMAIN segments) = NoDate
      /\ far # {} => Validity(q, DOMAIN segments) \in Dates
  BY <1>5, ValidityIsLast
<1>8. Dated(k, q) = IF Validity(q, Under(p)) # NoDate THEN Validity(q, Under(p))
                    ELSE Validity(q, DOMAIN segments)
  BY <1>2 DEF Dated
<1> HIDE DEF date, near, far, k
<1>9. far = {} <=> date = Invented
  BY <1>3, <1>4, <1>5, <1>6, <1>7, <1>8
<1>10. near # {} => date = Validity(q, Under(p))
  BY <1>3, <1>5, <1>6, <1>8
<1> QED BY <1>6, <1>9, <1>10 DEF date, near, far

\* No date that the model made up stays where the interchange has one for that
\* qualifier, and a line's own last DTM goes before those of other lines.
THEOREM DatesComeFromSegments == EdifactSpec => []DatesGrounded
<1> QED BY InvHolds, DatesAreGrounded, PTL
=============================================================================
