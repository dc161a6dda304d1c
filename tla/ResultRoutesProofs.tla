------------------------ MODULE ResultRoutesProofs ------------------------
(***************************************************************************)
(* Theorems about the results of jobs, for any number of jobs, drains,     *)
(* overlapping sweeps and requests, and any retention age.  The inductive  *)
(* invariant IInv has a part for the sweeps (what a sweep is about to      *)
(* delete is archived, what it has still to look at is old), one for the   *)
(* drains (the effect of a row comes before its mark) and one for the      *)
(* sessions of the routes.                                                 *)
(***************************************************************************)
EXTENDS ResultRoutes, TLAPS

SweepInv == \A s \in Sweeps : /\ spc[s] = "delete" => scur[s] \in archive \intersect todo[s]
                              /\ \A j \in todo[s] : Old(j)

HandInv == \A d \in Drains :
             /\ dpc[d] = "idle" <=> drow[d] = NoRow
             /\ dpc[d] # "idle" => /\ drow[d] \in OutboxRows
                                   /\ row[drow[d]] # "absent"
                                   /\ dpc[d] = "upload" => drow[d][2] = "upload_result"
                                   /\ dpc[d] = "mark" => drow[d] \in Effects

\* The rows of a result come with its completion, and are closed after their effect.
QueuedInv == \A r \in OutboxRows : /\ job[r[1]] \in {"none", "running"} => row[r] = "absent"
                                   /\ job[r[1]] = "completed" => row[r] # "absent"
                                   /\ row[r] = "delivered" => r \in Effects

\* No route but those of jobs.py comes to its begin with a transaction.
SessionInv == \A c \in Clients :
                /\ rpc[c] # "idle" => target[c] \in Jobs
                /\ rpc[c] = "job" => route[c] # "audit"
                /\ rpc[c] = "output" => /\ route[c] = "result"
                                        /\ row[<<target[c], "upload_result">>] # "absent"
                /\ rpc[c] \in {"commit", "sign"} => route[c] \in {"result_url", "review"}
                /\ rpc[c] = "record" /\ tx[c] => route[c] \in {"status", "result"}
                /\ rpc[c] \in {"idle", "job"} => ~tx[c]

DeliveryInv == DeliveryTypeOK /\ PayloadKept /\ SweepInv /\ HandInv /\ QueuedInv

RouteInv == SessionInv /\ MissingOnlyWhenArchived /\ OnlyJobRoutesRaise

IInv == TypeOK /\ DeliveryInv /\ RouteInv

-----------------------------------------------------------------------------

LEMMA NoRowIsNone == NoRow \notin OutboxRows
  BY DeliveryAssumption DEF NoRow, OutboxRows

LEMMA UploadIsRow == \A j \in Jobs : <<j, "upload_result">> \in OutboxRows
  BY DEF OutboxRows, Kinds

LEMMA InitInv == Init => IInv
  <1> USE DeliveryAssumption DEF Init, DeliveryInit
  <1>1. Init => TypeOK /\ DeliveryTypeOK
    BY DEF TypeOK, DeliveryTypeOK, Routes, NoRow, OutboxRows
  <1>2. Init => PayloadKept
    BY UploadIsRow DEF PayloadKept
  <1>3. Init => SweepInv /\ HandInv /\ QueuedInv
    BY DEF SweepInv, HandInv, QueuedInv, OutboxRows
  <1>4. Init => RouteInv
    BY DEF RouteInv, SessionInv, MissingOnlyWhenArchived, OnlyJobRoutesRaise
  <1>5. QED
    BY <1>1, <1>2, <1>3, <1>4 DEF IInv, DeliveryInv

\* What no step undoes, and the routes rely on: an old job stays old and completed,
\* an enqueued upload enqueued or delivered, an archived job archived.
Keeps == \A j \in Jobs : /\ Old(j) => Old(j)'
                         /\ row[<<j, "upload_result">>] # "absent"
                              => row'[<<j, "upload_result">>] # "absent"
                         /\ j \in archive => j \in archive'

-----------------------------------------------------------------------------
(* The steps of Delivery.                                                  *)

LEMMA ChainInv ==
  ASSUME DeliveryInv, NEW j \in Jobs, Chain(j)
  PROVE  DeliveryInv' /\ Keeps
  <1> USE DeliveryAssumption DEF DeliveryInv, Chain, Accepted, Extracted, Completed,
                                 Failed, Overturned, outside, drains, sweeps
  <1>1. DeliveryTypeOK'
    BY DEF DeliveryTypeOK
  <1>2. Keeps
    <2>1. \A k \in Jobs : Old(k) => Old(k)'
      BY DEF Old, DeliveryTypeOK
    <2>2. \A r \in OutboxRows : row[r] # "absent" => row'[r] # "absent"
      BY DEF DeliveryTypeOK
    <2>3. archive' = archive
      OBVIOUS
    <2> QED BY <2>1, <2>2, <2>3, UploadIsRow DEF Keeps
  <1>3. PayloadKept'
    <2>1. row' = row \/ (Completed(j) /\ j \in output)
      OBVIOUS
    <2>2. \A k \in Jobs : k # j => row'[<<k, "upload_result">>] = row[<<k, "upload_result">>]
      BY UploadIsRow
    <2>3. output \subseteq output' /\ archive' = archive
      OBVIOUS
    <2> QED BY <2>1, <2>2, <2>3 DEF PayloadKept
  <1>4. SweepInv'
    BY <1>2 DEF SweepInv, Keeps, DeliveryTypeOK
  <1>5. HandInv' /\ QueuedInv'
    BY DEF HandInv, QueuedInv, DeliveryTypeOK, Effects, OutboxRows
  <1>6. QED
    BY <1>1, <1>2, <1>3, <1>4, <1>5

LEMMA TickInv ==
  ASSUME DeliveryInv, Tick
  PROVE  DeliveryInv' /\ Keeps
  <1> USE DeliveryAssumption DEF DeliveryInv, Tick, outside, drains, sweeps
  <1>1. DeliveryTypeOK'
    BY DEF DeliveryTypeOK
  <1>2. Keeps
    BY DEF Keeps, Old, DeliveryTypeOK
  <1>3. PayloadKept'
    BY DEF PayloadKept
  <1>4. SweepInv'
    BY <1>2 DEF SweepInv, Keeps, DeliveryTypeOK
  <1>5. HandInv' /\ QueuedInv'
    BY DEF HandInv, QueuedInv, Effects
  <1>6. QED
    BY <1>1, <1>2, <1>3, <1>4, <1>5

LEMMA HandleInv ==
  ASSUME DeliveryInv, NEW d \in Drains, Handle(d)
  PROVE  DeliveryInv' /\ Keeps
  <1> USE DEF DeliveryInv, outside, sweeps, tables, DrainTo
  <1>1. DeliveryTypeOK' /\ HandInv'
    <2>1. ASSUME NEW r \in OutboxRows, Take(d, r) \/ TakeStale(d, r)
          PROVE  DeliveryTypeOK' /\ HandInv'
      BY <2>1, NoRowIsNone DEF Take, TakeStale, DeliveryTypeOK, HandInv, Effects
    <2>2. CASE DeliverSlackPost(d)
      BY <2>2 DEF DeliverSlackPost, Dispatching, DeliveryTypeOK, HandInv, Effects, OutboxRows
    <2>3. CASE ReadPayload(d)
      BY <2>3 DEF ReadPayload, Dispatching, DeliveryTypeOK, HandInv, Effects
    <2>4. CASE UploadNormalizedJson(d)
      BY <2>4 DEF UploadNormalizedJson, DeliveryTypeOK, HandInv, Effects, OutboxRows
    <2>5. CASE Mark(d)
      BY <2>5 DEF Mark, DeliveryTypeOK, HandInv, Effects, NoRow
    <2>6. CASE HandlerRaises(d)
      BY <2>6 DEF HandlerRaises, DeliveryTypeOK, HandInv, Effects, NoRow
    <2>7. QED
      BY <2>1, <2>2, <2>3, <2>4, <2>5, <2>6 DEF Handle
  <1>2. UNCHANGED <<job, age, output, archive, spc, todo, scur>>
    BY DEF Handle, Take, TakeStale, DeliverSlackPost, ReadPayload, UploadNormalizedJson, Mark,
           HandlerRaises
  <1>3. PayloadKept' /\ SweepInv' /\ Keeps
    <2>1. \A r \in OutboxRows : row'[r] # "absent" <=> row[r] # "absent"
      BY DEF Handle, Take, TakeStale, DeliverSlackPost, ReadPayload, UploadNormalizedJson, Mark,
             HandlerRaises, HandInv, DeliveryTypeOK
    <2> QED BY <1>2, <2>1, UploadIsRow DEF PayloadKept, SweepInv, Keeps, Old
  <1>4. QueuedInv'
    <2>1. Effects \subseteq Effects'
      BY DEF Handle, Take, TakeStale, DeliverSlackPost, ReadPayload, UploadNormalizedJson, Mark,
             HandlerRaises, Effects
    <2>2. CASE Mark(d)
      <3>1. drow[d] \in Effects /\ row[drow[d]] # "absent"
        BY <2>2 DEF Mark, HandInv
      <3>2. row' = [row EXCEPT ![drow[d]] = "delivered"]
        BY <2>2 DEF Mark
      <3>3. QED
        BY <1>2, <2>1, <3>1, <3>2 DEF QueuedInv, DeliveryTypeOK
    <2>3. CASE ~Mark(d)
      <3>1. row' = row
        BY <2>3 DEF Handle, Take, TakeStale, DeliverSlackPost, ReadPayload, UploadNormalizedJson,
                    HandlerRaises
      <3>2. QED
        BY <1>2, <2>1, <3>1 DEF QueuedInv
    <2>4. QED
      BY <2>2, <2>3
  <1>5. QED
    BY <1>1, <1>3, <1>4

LEMMA SweepStepInv ==
  ASSUME DeliveryInv, NEW s \in Sweeps, Sweep(s)
  PROVE  DeliveryInv' /\ Keeps
  <1> USE DEF DeliveryInv, outside, drains, tables, SweepTo
  <1>1. /\ DeliveryTypeOK' /\ PayloadKept' /\ SweepInv'
        /\ archive \subseteq archive'
    <2>1. CASE SelectCandidates(s)
      BY <2>1 DEF SelectCandidates, DeliveryTypeOK, PayloadKept, SweepInv, Old
    <2>2. ASSUME NEW j \in Jobs, UploadArchive(s, j)
          PROVE  /\ DeliveryTypeOK' /\ PayloadKept' /\ SweepInv'
                 /\ archive \subseteq archive'
      BY <2>2 DEF UploadArchive, DeliveryTypeOK, PayloadKept, SweepInv, Old
    <2>3. ASSUME NEW j \in Jobs, UploadRaises(s, j)
          PROVE  /\ DeliveryTypeOK' /\ PayloadKept' /\ SweepInv'
                 /\ archive \subseteq archive'
      BY <2>3 DEF UploadRaises, DeliveryTypeOK, PayloadKept, SweepInv, Old
    <2>4. CASE DeleteOutput(s)
      BY <2>4 DEF DeleteOutput, DeliveryTypeOK, PayloadKept, SweepInv, Old
    <2>5. CASE SweepEnds(s)
      BY <2>5 DEF SweepEnds, DeliveryTypeOK, PayloadKept, SweepInv, Old
    <2>6. QED
      BY <2>1, <2>2, <2>3, <2>4, <2>5 DEF Sweep
  <1>2. UNCHANGED <<job, age, row, posted, blobs, dpc, drow>>
    BY DEF Sweep, SelectCandidates, UploadArchive, UploadRaises, DeleteOutput, SweepEnds
  <1>3. HandInv' /\ QueuedInv' /\ Keeps
    BY <1>1, <1>2 DEF HandInv, QueuedInv, Keeps, Old, Effects
  <1>4. QED
    BY <1>1, <1>3

LEMMA DeliveryStep ==
  ASSUME DeliveryInv, [DeliveryNext]_dvars
  PROVE  DeliveryInv' /\ Keeps
  <1>1. CASE UNCHANGED dvars
    BY <1>1 DEF dvars, tables, outside, drains, sweeps, DeliveryInv, DeliveryTypeOK,
                PayloadKept, SweepInv, HandInv, QueuedInv, Effects, Keeps, Old
  <1>2. QED
    BY <1>1, ChainInv, TickInv, HandleInv, SweepStepInv DEF DeliveryNext

-----------------------------------------------------------------------------
(* The steps of the routes.                                                *)

LEMMA RoutesKept ==
  ASSUME IInv, Keeps, DeliveryTypeOK', UNCHANGED routes
  PROVE  RouteInv' /\ TypeOK'
  <1> USE DEF IInv, RouteInv, routes
  <1>1. SessionInv' /\ MissingOnlyWhenArchived'
    BY DEF SessionInv, MissingOnlyWhenArchived, Keeps, TypeOK, DeliveryInv, DeliveryTypeOK
  <1>2. OnlyJobRoutesRaise' /\ TypeOK'
    BY DEF OnlyJobRoutesRaise, TypeOK
  <1>3. QED
    BY <1>1, <1>2

LEMMA ServeInv ==
  ASSUME IInv, NEW c \in Clients, Serve(c)
  PROVE  RouteInv' /\ TypeOK'
  <1> USE DEF IInv, RouteInv, TypeOK, SessionInv, OnlyJobRoutesRaise
  <1>1. UNCHANGED dvars
    BY DEF Serve, Ask, ReadJob, ReadOutput, ReadReviews, CommitRead, Sign, Record
  <1>2. DeliveryTypeOK' /\ UNCHANGED <<job, output, row, archive>>
    BY <1>1 DEF dvars, tables, outside, drains, sweeps, DeliveryTypeOK
  <1>3. ASSUME NEW rt \in Routes, NEW j \in Jobs, Ask(c, rt, j) PROVE RouteInv' /\ TypeOK'
    BY <1>2, <1>3 DEF Ask, Routes, MissingOnlyWhenArchived
  <1>4. CASE ReadJob(c)
    <2> DEFINE status == job[target[c]]
    <2>1. /\ target[c] \in Jobs /\ UNCHANGED reviewed
          /\ route[c] \in Routes \ {"audit"}
      BY <1>4 DEF ReadJob
    <2>2. ASSUME NEW code \in {"200", "404", "409"}, Answer(c, code) PROVE RouteInv' /\ TypeOK'
      BY <1>2, <2>1, <2>2 DEF Answer, MissingOnlyWhenArchived
    <2>3. CASE /\ status # "none" /\ route[c] # "job"
               /\ NeedsCompleted(c) => status = "completed"
               /\ Go(c, AfterRead(c), TRUE)
      <3>1. CASE route[c] = "result"
        <4>1. row[<<target[c], "upload_result">>] # "absent"
          <5>1. <<target[c], "upload_result">> \in OutboxRows
            BY <2>1, UploadIsRow
          <5> QED BY <2>3, <3>1, <5>1 DEF NeedsCompleted, DeliveryInv, QueuedInv
        <4>2. Go(c, "output", TRUE)
          BY <2>3, <3>1 DEF AfterRead
        <4> QED BY <1>2, <2>1, <3>1, <4>1, <4>2 DEF Go, MissingOnlyWhenArchived
      <3>2. CASE route[c] = "reviews"
        BY <1>2, <2>1, <2>3, <3>2 DEF Go, AfterRead, MissingOnlyWhenArchived
      <3>3. CASE route[c] \in {"result_url", "review"}
        BY <1>2, <2>1, <2>3, <3>3 DEF Go, AfterRead, MissingOnlyWhenArchived
      <3>4. CASE route[c] = "status"
        BY <1>2, <2>1, <2>3, <3>4 DEF Go, AfterRead, MissingOnlyWhenArchived
      <3>5. QED
        BY <2>1, <2>3, <3>1, <3>2, <3>3, <3>4 DEF Routes
    <2>4. QED
      BY <1>4, <2>2, <2>3 DEF ReadJob
  <1>5. CASE ReadOutput(c)
    <2>1. target[c] \in output \union archive
      BY <1>5 DEF ReadOutput, DeliveryInv, PayloadKept
    <2>2. CASE target[c] \in output /\ Go(c, "record", TRUE)
      BY <1>2, <1>5, <2>2 DEF ReadOutput, Go, MissingOnlyWhenArchived
    <2>3. CASE target[c] \notin output /\ Answer(c, "missing")
      BY <1>2, <1>5, <2>1, <2>3 DEF ReadOutput, Answer, MissingOnlyWhenArchived
    <2>4. QED
      BY <1>5, <2>2, <2>3 DEF ReadOutput
  <1>6. CASE ReadReviews(c) \/ CommitRead(c)
    <2>1. CASE ReadReviews(c)
      BY <1>2, <2>1 DEF ReadReviews, Answer, MissingOnlyWhenArchived
    <2>2. CASE CommitRead(c)
      BY <1>2, <2>2 DEF CommitRead, Go, MissingOnlyWhenArchived
    <2>3. QED
      BY <1>6, <2>1, <2>2
  <1>7. CASE Sign(c)
    <2>1. CASE Go(c, "record", FALSE)
      BY <1>2, <1>7, <2>1 DEF Sign, Go, MissingOnlyWhenArchived
    <2>2. CASE Answer(c, "raised")
      BY <1>2, <1>7, <2>2 DEF Sign, Answer, MissingOnlyWhenArchived
    <2>3. QED
      BY <1>7, <2>1, <2>2 DEF Sign
  <1>8. CASE Record(c)
    <2>1. rpc[c] = "record" /\ target[c] \in Jobs /\ reviewed' \in SUBSET Jobs
      BY <1>8 DEF Record
    <2>2. CASE tx[c] /\ Answer(c, "500")
      BY <1>2, <2>1, <2>2 DEF Answer, MissingOnlyWhenArchived
    <2>3. ASSUME NEW code \in {"200", "404", "raised"}, Answer(c, code) PROVE RouteInv' /\ TypeOK'
      BY <1>2, <2>1, <2>3 DEF Answer, MissingOnlyWhenArchived
    <2>4. \/ tx[c] /\ Answer(c, "500")
          \/ Answer(c, "404") \/ Answer(c, "raised") \/ Answer(c, "200")
      BY <1>8 DEF Record
    <2>5. QED
      BY <2>2, <2>3, <2>4
  <1>9. QED
    BY <1>3, <1>4, <1>5, <1>6, <1>7, <1>8 DEF Serve

LEMMA NextInv == IInv /\ [Next]_vars => IInv'
  <1> SUFFICES ASSUME IInv, [Next]_vars PROVE IInv'
    OBVIOUS
  <1>1. ASSUME [DeliveryNext]_dvars, UNCHANGED routes PROVE IInv'
    BY <1>1, DeliveryStep, RoutesKept DEF IInv, DeliveryInv
  <1>2. ASSUME NEW c \in Clients, Serve(c) PROVE IInv'
    <2>1. UNCHANGED dvars
      BY <1>2 DEF Serve, Ask, ReadJob, ReadOutput, ReadReviews, CommitRead, Sign, Record
    <2>2. DeliveryInv'
      BY <2>1, DeliveryStep DEF IInv
    <2>3. QED
      BY <1>2, <2>2, ServeInv DEF IInv
  <1>3. QED
    BY <1>1, <1>2 DEF Next, vars

LEMMA Invariance == Spec => []IInv
  BY InitInv, NextInv, PTL DEF Spec

-----------------------------------------------------------------------------

\* Every variable keeps its type.
THEOREM TypeCorrect == Spec => []TypeOK
  BY Invariance, PTL DEF IInv

\* The sweep loses nothing: the payload of an enqueued upload is in the table or
\* in the archive bucket, with any number of sweeps over any number of jobs.
THEOREM PayloadSafe == Spec => []PayloadKept
  BY Invariance, PTL DEF IInv, DeliveryInv

\* Nothing young, failed or running is archived or deleted, however long ago its
\* sweep read the table.
THEOREM RetentionKept == Spec => OnlyOldArchived
  <1>1. ASSUME IInv, [Next]_vars, NEW j \in (output \ output') \union (archive' \ archive)
        PROVE  Old(j)
    <2> USE DEF IInv, DeliveryInv
    <2>1. ASSUME NEW s \in Sweeps, Sweep(s) PROVE Old(j)
      BY <1>1, <2>1 DEF Sweep, SelectCandidates, UploadArchive, UploadRaises, DeleteOutput,
                        SweepEnds, SweepInv, tables, outside
    <2>2. ASSUME ~ \E s \in Sweeps : Sweep(s) PROVE output \subseteq output' /\ archive' = archive
      BY <1>1, <2>2 DEF Next, DeliveryNext, Chain, Accepted, Extracted, Completed, Failed, Overturned, Tick,
                        Handle, Take, TakeStale, DeliverSlackPost, ReadPayload, Mark,
                        UploadNormalizedJson, HandlerRaises, Serve, Ask, ReadJob, ReadOutput,
                        ReadReviews, CommitRead, Sign, Record, vars, dvars, tables, outside
    <2>3. QED
      BY <1>1, <2>1, <2>2
  <1>2. IInv /\ [Next]_vars
          => [\A j \in (output \ output') \union (archive' \ archive) : Old(j)]_dvars
    BY <1>1
  <1>3. QED
    BY <1>2, Invariance, PTL DEF Spec, OnlyOldArchived

\* What is left of ResultLands without fairness: as long as a result whose upload was
\* enqueued is in no bucket, the upload is still due and will find its payload; also
\* when the job was set to failed after its completion.
THEOREM ResultOwed ==
  Spec => [](\A j \in Jobs : /\ row[<<j, "upload_result">>] # "absent"
                            /\ j \notin blobs \union archive
               => row[<<j, "upload_result">>] = "undelivered" /\ j \in output)
  <1>1. ASSUME IInv, NEW j \in Jobs, row[<<j, "upload_result">>] # "absent",
               j \notin blobs \union archive
        PROVE  row[<<j, "upload_result">>] = "undelivered" /\ j \in output
    <2> DEFINE r == <<j, "upload_result">>
    <2>1. r \in OutboxRows
      BY UploadIsRow
    <2>2. r \notin Effects
      BY <1>1 DEF Effects
    <2>3. row[r] # "delivered"
      BY <2>1, <2>2, <1>1 DEF IInv, DeliveryInv, QueuedInv
    <2>4. QED
      BY <1>1, <2>1, <2>3 DEF IInv, DeliveryInv, DeliveryTypeOK, PayloadKept
  <1>2. IInv => \A j \in Jobs : /\ row[<<j, "upload_result">>] # "absent"
                              /\ j \notin blobs \union archive
                  => row[<<j, "upload_result">>] = "undelivered" /\ j \in output
    BY <1>1
  <1>3. QED
    BY <1>2, Invariance, PTL

\* A missing output has been archived, whatever came between the two reads.
THEOREM MissingIsArchived == Spec => []MissingOnlyWhenArchived
  BY Invariance, PTL DEF IInv, RouteInv

\* No route of intake.py or audit.py begins a second transaction.
THEOREM SessionsClean == Spec => []OnlyJobRoutesRaise
  BY Invariance, PTL DEF IInv, RouteInv

-----------------------------------------------------------------------------
LEMMA OneMoreEffect ==
  ASSUME NEW P, NEW j, NEW k
  PROVE  (P \union {j}) \X {k} = (P \X {k}) \union {<<j, k>>}
  OBVIOUS

\* What the steps of the chain and of a drain are to the promise.
LEMMA PromiseOfCompletion ==
  ASSUME IInv, NEW j \in Jobs, Completed(j)
  PROVE  Promise!Enqueue({r \in OutboxRows : r[1] = j})
<1> DEFINE R == {r \in OutboxRows : r[1] = j}
<1>1. \A r \in R : row[r] = "absent"
  BY DEF Completed, IInv, DeliveryInv, QueuedInv
<1>2. row' = [r \in OutboxRows |-> IF r \in R THEN "undelivered" ELSE row[r]]
  BY DEF Completed
<1>3. UNCHANGED <<Effects, drow, Marking>>
  BY DEF Completed, outside, drains, Effects, Marking
<1> QED BY <1>1, <1>2, <1>3 DEF Promise!Enqueue

LEMMA PromiseOfTake ==
  ASSUME IInv, NEW d \in Drains, NEW r \in OutboxRows, Take(d, r) \/ TakeStale(d, r)
  PROVE  Promise!Take(d, r)
<1> USE DEF IInv, DeliveryInv, DeliveryTypeOK
<1>1. drow[d] = NoRow /\ row[r] # "absent" /\ drow' = [drow EXCEPT ![d] = r]
  BY DEF Take, TakeStale, DrainTo, HandInv
<1>2. Marking' = Marking
  BY DEF Take, TakeStale, DrainTo, Marking
<1>3. UNCHANGED <<row, Effects>>
  BY DEF Take, TakeStale, tables, outside, Effects
<1> QED BY <1>1, <1>2, <1>3 DEF Promise!Take

LEMMA PromiseOfEffect ==
  ASSUME IInv, NEW d \in Drains, DeliverSlackPost(d) \/ UploadNormalizedJson(d)
  PROVE  Promise!Perform(d)
<1> USE DEF IInv, DeliveryInv, DeliveryTypeOK
<1> DEFINE j == drow[d][1]
<1>1. drow[d] \in OutboxRows /\ drow[d] # NoRow
  BY NoRowIsNone DEF DeliverSlackPost, UploadNormalizedJson, Dispatching, HandInv
<1>2. Effects' = Effects \union {drow[d]}
  <2>1. CASE DeliverSlackPost(d)
    <3>1. drow[d] = <<j, "slack_post">>
      BY <1>1, <2>1 DEF DeliverSlackPost, Dispatching, OutboxRows
    <3>2. posted' = posted \union {j} /\ blobs' = blobs
      BY <2>1 DEF DeliverSlackPost
    <3>3. (posted \union {j}) \X {"slack_post"} = (posted \X {"slack_post"}) \union {<<j, "slack_post">>}
      BY OneMoreEffect
    <3> HIDE DEF j
    <3> QED BY <3>1, <3>2, <3>3 DEF Effects
  <2>2. CASE UploadNormalizedJson(d)
    <3>1. drow[d] = <<j, "upload_result">>
      BY <1>1, <2>2 DEF UploadNormalizedJson, HandInv, OutboxRows
    <3>2. blobs' = blobs \union {j} /\ posted' = posted
      BY <2>2 DEF UploadNormalizedJson
    <3>3. (blobs \union {j}) \X {"upload_result"} = (blobs \X {"upload_result"}) \union {<<j, "upload_result">>}
      BY OneMoreEffect
    <3> HIDE DEF j
    <3> QED BY <3>1, <3>2, <3>3 DEF Effects
  <2> QED BY <2>1, <2>2
<1>3. /\ dpc' = [dpc EXCEPT ![d] = "mark"]
      /\ drow' = [drow EXCEPT ![d] = drow[d]]
      /\ row' = row
  BY DEF DeliverSlackPost, UploadNormalizedJson, DrainTo, tables
<1>4. Marking' = Marking \union {d}
  BY <1>3 DEF Marking
<1>5. drow' = drow
  BY <1>3
<1> QED BY <1>1, <1>2, <1>3, <1>4, <1>5 DEF Promise!Perform

LEMMA PromiseOfRelease ==
  ASSUME IInv, NEW d \in Drains, Mark(d) \/ HandlerRaises(d)
  PROVE  Promise!Close(d) \/ Promise!GiveUp(d)
<1> USE DEF IInv, DeliveryInv, DeliveryTypeOK
<1>1. /\ dpc' = [dpc EXCEPT ![d] = "idle"]
      /\ drow' = [drow EXCEPT ![d] = NoRow]
      /\ Effects' = Effects
  BY DEF Mark, HandlerRaises, DrainTo, outside, Effects
<1>2. Marking' = Marking \ {d}
  BY <1>1 DEF Marking
<1>3. Promise!LetGo(d)
  BY <1>1, <1>2 DEF Promise!LetGo
<1>4. CASE Mark(d)
  <2>1. d \in Marking /\ row' = [row EXCEPT ![drow[d]] = "delivered"]
    BY <1>4 DEF Mark, Marking
  <2> QED BY <1>1, <1>3, <2>1 DEF Promise!Close
<1>5. CASE HandlerRaises(d)
  <2>1. drow[d] # NoRow /\ row' = row
    BY <1>5 DEF HandlerRaises, HandInv, tables
  <2> QED BY <1>1, <1>3, <2>1 DEF Promise!GiveUp
<1> QED BY <1>4, <1>5

LEMMA PromiseOfRead ==
  ASSUME IInv, NEW d \in Drains, ReadPayload(d)
  PROVE  UNCHANGED Promise!vars
<1> USE DEF IInv, DeliveryInv, DeliveryTypeOK
<1>1. /\ dpc[d] = "dispatch" /\ dpc' = [dpc EXCEPT ![d] = "upload"]
      /\ drow' = drow
  BY DEF ReadPayload, Dispatching, DrainTo
<1>2. Marking' = Marking
  BY <1>1 DEF Marking
<1> QED BY <1>1, <1>2 DEF ReadPayload, tables, outside, Effects, Promise!vars

\* The rows of the results keep the promise of the outbox: Completed enqueues the
\* two rows of a job, the two handlers perform, Mark closes, and every other step
\* takes a row in hand, lets go of one, or stutters.
THEOREM ResultRefinement == Spec => KeepsPromise
<1>1. Init => Promise!Init
  BY DEF Init, DeliveryInit, Promise!Init, Effects, Marking
<1>2. IInv /\ [Next]_vars => [Promise!Next]_Promise!vars
  <2> SUFFICES ASSUME IInv, [Next]_vars PROVE [Promise!Next]_Promise!vars
    OBVIOUS
  <2>1. ASSUME NEW j \in Jobs, Chain(j) PROVE [Promise!Next]_Promise!vars
    <3>1. CASE Completed(j)
      <4> DEFINE R == {r \in OutboxRows : r[1] = j}
      <4>1. R \in SUBSET OutboxRows /\ Promise!Enqueue(R)
        BY <3>1, PromiseOfCompletion
      <4> QED BY <4>1 DEF Promise!Next
    <3>2. CASE Accepted(j) \/ Extracted(j) \/ Failed(j) \/ Overturned(j)
      BY <3>2 DEF Accepted, Extracted, Failed, Overturned, outside, drains, Effects, Marking, Promise!vars
    <3> QED BY <2>1, <3>1, <3>2 DEF Chain
  <2>2. ASSUME NEW d \in Drains, Handle(d) PROVE [Promise!Next]_Promise!vars
    BY <2>2, PromiseOfTake, PromiseOfEffect, PromiseOfRelease, PromiseOfRead
       DEF Handle, Promise!Next
  <2>3. ASSUME \/ Tick
               \/ \E s \in Sweeps : Sweep(s)
               \/ \E c \in Clients : Serve(c)
               \/ UNCHANGED vars
        PROVE  UNCHANGED Promise!vars
    <3>1. UNCHANGED <<row, posted, blobs, dpc, drow>>
      BY <2>3 DEF Tick, Sweep, SelectCandidates, UploadArchive, UploadRaises, DeleteOutput, SweepEnds,
                  Serve, Ask, ReadJob, ReadOutput, ReadReviews, CommitRead, Sign, Record, vars,
                  dvars, tables, outside, drains
    <3> QED BY <3>1 DEF Effects, Marking, Promise!vars
  <2> QED BY <2>1, <2>2, <2>3 DEF Next, DeliveryNext
<1> QED BY <1>1, <1>2, Invariance, PTL DEF Spec, KeepsPromise, Promise!Spec
=============================================================================
