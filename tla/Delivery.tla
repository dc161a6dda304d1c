------------------------------ MODULE Delivery ------------------------------
(***************************************************************************)
(* What happens to the result of a job: the stage that completes it, the   *)
(* outbox handlers that post it to Slack and upload it to the outputs      *)
(* bucket (packages/dispatcher/delivery.py), and the sweep that moves it   *)
(* from Postgres to the archive bucket (packages/lifecycle/archive.py).    *)
(* The sweep runs under beat every day and by hand                         *)
(* (infra/scripts/archive_90day.py), so two may overlap.                   *)
(*                                                                         *)
(* The chain is reduced to what Pipeline.tla is shown to implement of it   *)
(* (ChainOfDelivery there), the drains to what Outbox.tla shows of them: a *)
(* row is taken, any number of times, also after it was closed, and closed *)
(* after its handler returned.  Time is the age of a completed job, up to  *)
(* ArchiveAge.                                                             *)
(***************************************************************************)
EXTENDS Naturals

CONSTANTS Jobs,
          Drains,      \* drains of the outbox, one row in hand each
          Sweeps,      \* archive sweeps that may overlap
          ArchiveAge,  \* archive_age_days, in ticks
          NoJob

ASSUME DeliveryAssumption == ArchiveAge \in Nat \ {0} /\ NoJob \notin Jobs

VARIABLES
  \* Postgres
  job,       \* onramp_jobs.status, reduced to what the handlers and routes read
  age,       \* time since completed_at
  output,    \* jobs with a row in onramp_outputs
  row,       \* the slack_post and upload_result rows of onramp_outbox
  \* outside
  posted,    \* jobs announced in Slack
  blobs,     \* jobs with a blob in the outputs bucket
  archive,   \* jobs with a blob in the archive bucket
  \* processes
  dpc, drow,        \* drains: "idle", "dispatch", "upload", "mark"
  spc, todo, scur   \* sweeps: "idle", "sweep", "delete"

tables  == <<job, age, output, row>>
outside == <<posted, blobs, archive>>
drains  == <<dpc, drow>>
sweeps  == <<spc, todo, scur>>
dvars == <<tables, outside, drains, sweeps>>

Kinds == {"slack_post", "upload_result"}
OutboxRows == Jobs \X Kinds
NoRow == <<NoJob, "slack_post">>

Old(j) == job[j] = "completed" /\ age[j] = ArchiveAge

DeliveryTypeOK ==
  /\ job \in [Jobs -> {"none", "running", "completed", "failed"}]
  /\ age \in [Jobs -> 0..ArchiveAge]
  /\ output \in SUBSET Jobs
  /\ row \in [OutboxRows -> {"absent", "undelivered", "delivered"}]
  /\ posted \in SUBSET Jobs /\ blobs \in SUBSET Jobs /\ archive \in SUBSET Jobs
  /\ dpc \in [Drains -> {"idle", "dispatch", "upload", "mark"}]
  /\ drow \in [Drains -> OutboxRows \union {NoRow}]
  /\ spc \in [Sweeps -> {"idle", "sweep", "delete"}]
  /\ todo \in [Sweeps -> SUBSET Jobs]
  /\ scur \in [Sweeps -> Jobs \union {NoJob}]

DeliveryInit ==
  /\ job = [j \in Jobs |-> "none"]
  /\ age = [j \in Jobs |-> 0]
  /\ output = {}
  /\ row = [r \in OutboxRows |-> "absent"]
  /\ posted = {} /\ blobs = {} /\ archive = {}
  /\ dpc = [d \in Drains |-> "idle"] /\ drow = [d \in Drains |-> NoRow]
  /\ spc = [s \in Sweeps |-> "idle"] /\ todo = [s \in Sweeps |-> {}]
  /\ scur = [s \in Sweeps |-> NoJob]

-----------------------------------------------------------------------------
(* The chain, as far as it matters here.                                   *)

\* insert_job_if_new: the row of the job, with no output yet.
Accepted(j) ==
  /\ job[j] = "none"
  /\ job' = [job EXCEPT ![j] = "running"]
  /\ UNCHANGED <<age, output, row, outside, drains, sweeps>>

\* insert_output of _extract.
Extracted(j) ==
  /\ job[j] = "running" /\ j \notin output
  /\ output' = output \union {j}
  /\ UNCHANGED <<job, age, row, outside, drains, sweeps>>

\* A mutant: no upload is enqueued, as before PHASE_6_8.
CompletedWithoutUpload(j) ==
  /\ job[j] = "running" /\ j \in output
  /\ job' = [job EXCEPT ![j] = "completed"]
  /\ row' = [row EXCEPT ![<<j, "slack_post">>] = "undelivered"]
  /\ UNCHANGED <<age, output, outside, drains, sweeps>>

\* The terminal transaction of _validate rewrites the output, completes the job
\* and enqueues both rows, or nothing.
Completed(j) ==
  /\ job[j] = "running" /\ j \in output
  /\ job' = [job EXCEPT ![j] = "completed"]
  /\ row' = [r \in OutboxRows |-> IF r[1] = j THEN "undelivered" ELSE row[r]]
  /\ UNCHANGED <<age, output, outside, drains, sweeps>>

\* A failed job keeps the output of its last stage, if any.  _commit_failure sets
\* its completed_at too; its age does not count, as the sweep takes completed jobs.
Failed(j) ==
  /\ job[j] = "running"
  /\ job' = [job EXCEPT ![j] = "failed"]
  /\ UNCHANGED <<age, output, row, outside, drains, sweeps>>

\* The commit of Completed reports an error it did not have, and the handler of its
\* task sets the job to failed: rows and output stay.  That is a matter of seconds.
Overturned(j) ==
  /\ job[j] = "completed" /\ age[j] < ArchiveAge
  /\ job' = [job EXCEPT ![j] = "failed"]
  /\ UNCHANGED <<age, output, row, outside, drains, sweeps>>

\* A mutant: the age is not capped.
TickForever ==
  /\ \E j \in Jobs : job[j] = "completed"
  /\ age' = [j \in Jobs |-> IF job[j] = "completed" THEN age[j] + 1 ELSE age[j]]
  /\ UNCHANGED <<job, output, row, outside, drains, sweeps>>

Tick ==
  /\ \E j \in Jobs : job[j] = "completed" /\ age[j] < ArchiveAge
  /\ age' = [j \in Jobs |-> IF job[j] = "completed" /\ age[j] < ArchiveAge
                            THEN age[j] + 1 ELSE age[j]]
  /\ UNCHANGED <<job, output, row, outside, drains, sweeps>>

-----------------------------------------------------------------------------
(* The handlers.                                                           *)

DrainTo(d, pc, r) == dpc' = [dpc EXCEPT ![d] = pc] /\ drow' = [drow EXCEPT ![d] = r]

Take(d, r) ==
  /\ dpc[d] = "idle" /\ row[r] = "undelivered"
  /\ DrainTo(d, "dispatch", r)
  /\ UNCHANGED <<tables, outside, sweeps>>

\* A drain comes to a row of its snapshot that another has closed since.
TakeStale(d, r) ==
  /\ dpc[d] = "idle" /\ row[r] = "delivered"
  /\ DrainTo(d, "dispatch", r)
  /\ UNCHANGED <<tables, outside, sweeps>>

Dispatching(d, kind) == dpc[d] = "dispatch" /\ drow[d][2] = kind

DeliverSlackPost(d) ==
  /\ Dispatching(d, "slack_post")
  /\ posted' = posted \union {drow[d][1]}
  /\ DrainTo(d, "mark", drow[d])
  /\ UNCHANGED <<tables, blobs, archive, sweeps>>

\* A mutant: a missing payload is skipped, and the handler returns.
SkipMissingPayload(d) ==
  /\ Dispatching(d, "upload_result")
  /\ DrainTo(d, IF drow[d][1] \in output THEN "upload" ELSE "mark", drow[d])
  /\ UNCHANGED <<tables, outside, sweeps>>

\* deliver_upload_result reads the payload when the row is delivered, not when it
\* was enqueued; without one it raises (HandlerRaises).
ReadPayload(d) ==
  /\ Dispatching(d, "upload_result")
  /\ drow[d][1] \in output
  /\ DrainTo(d, "upload", drow[d])
  /\ UNCHANGED <<tables, outside, sweeps>>

UploadNormalizedJson(d) ==
  /\ dpc[d] = "upload"
  /\ blobs' = blobs \union {drow[d][1]}
  /\ DrainTo(d, "mark", drow[d])
  /\ UNCHANGED <<tables, posted, archive, sweeps>>

Mark(d) ==
  /\ dpc[d] = "mark"
  /\ row' = [row EXCEPT ![drow[d]] = "delivered"]
  /\ DrainTo(d, "idle", NoRow)
  /\ UNCHANGED <<job, age, output, outside, sweeps>>

\* The handler raises, or the drain dies, before or after the effect: the row
\* stays open and is due again.
HandlerRaises(d) ==
  /\ dpc[d] # "idle"
  /\ DrainTo(d, "idle", NoRow)
  /\ UNCHANGED <<tables, outside, sweeps>>

-----------------------------------------------------------------------------
(* The archive sweep.                                                      *)

SweepTo(s, pc, jobs, j) == /\ spc' = [spc EXCEPT ![s] = pc]
                           /\ todo' = [todo EXCEPT ![s] = jobs]
                           /\ scur' = [scur EXCEPT ![s] = j]

\* A mutant: the cutoff is left out of the WHERE clause.
SelectAnyAge(s) ==
  LET candidates == {j \in output : job[j] = "completed"}
  IN /\ spc[s] = "idle" /\ candidates # {}
     /\ SweepTo(s, "sweep", candidates, NoJob)
     /\ UNCHANGED <<tables, outside, drains>>

\* _select_candidates: old completed jobs that still have an output row, read
\* with their payload in a session that is closed before the first upload.
SelectCandidates(s) ==
  LET candidates == {j \in output : Old(j)}
  IN /\ spc[s] = "idle" /\ candidates # {}
     /\ SweepTo(s, "sweep", candidates, NoJob)
     /\ UNCHANGED <<tables, outside, drains>>

\* A mutant: the row is deleted first.
DeleteFirst(s, j) ==
  /\ spc[s] = "sweep" /\ j \in todo[s]
  /\ output' = output \ {j}
  /\ SweepTo(s, "delete", todo[s], j)
  /\ UNCHANGED <<job, age, row, outside, drains>>

UploadArchive(s, j) ==
  /\ spc[s] = "sweep" /\ j \in todo[s]
  /\ archive' = archive \union {j}
  /\ SweepTo(s, "delete", todo[s], j)
  /\ UNCHANGED <<tables, posted, blobs, drains>>

\* A mutant: the except clause falls through to the delete.
DeleteAnyway(s, j) ==
  /\ spc[s] = "sweep" /\ j \in todo[s]
  /\ SweepTo(s, "delete", todo[s], j)
  /\ UNCHANGED <<tables, outside, drains>>

\* The upload raises: the job is left for the next sweep.
UploadRaises(s, j) ==
  /\ spc[s] = "sweep" /\ j \in todo[s]
  /\ SweepTo(s, "sweep", todo[s] \ {j}, NoJob)
  /\ UNCHANGED <<tables, outside, drains>>

\* A transaction of its own; a row that another sweep deleted is no error.
DeleteOutput(s) ==
  /\ spc[s] = "delete"
  /\ output' = output \ {scur[s]}
  /\ SweepTo(s, "sweep", todo[s] \ {scur[s]}, NoJob)
  /\ UNCHANGED <<job, age, row, outside, drains>>

\* The loop is over; or the sweep dies or its delete raises, wherever it is.
SweepEnds(s) ==
  /\ spc[s] # "idle"
  /\ SweepTo(s, "idle", {}, NoJob)
  /\ UNCHANGED <<tables, outside, drains>>

Chain(j) == Accepted(j) \/ Extracted(j) \/ Completed(j) \/ Failed(j) \/ Overturned(j)
Handle(d) == \/ \E r \in OutboxRows : Take(d, r) \/ TakeStale(d, r)
             \/ DeliverSlackPost(d) \/ ReadPayload(d) \/ UploadNormalizedJson(d)
             \/ Mark(d) \/ HandlerRaises(d)
Sweep(s) == \/ SelectCandidates(s) \/ DeleteOutput(s) \/ SweepEnds(s)
            \/ \E j \in Jobs : UploadArchive(s, j) \/ UploadRaises(s, j)

DeliveryNext == \/ \E j \in Jobs : Chain(j)
                \/ Tick
                \/ \E d \in Drains : Handle(d)
                \/ \E s \in Sweeps : Sweep(s)

DeliverySpec == DeliveryInit /\ [][DeliveryNext]_dvars

\* Beat starts a drain every 5 s, which goes through every due row, so a row that
\* stays open is taken again and again; and what fails does not fail for ever.
\* Nobody has to sweep.
DeliveryFairness ==
  \A d \in Drains :
    /\ WF_dvars(Handle(d))
    /\ \A r \in OutboxRows : /\ SF_dvars(Take(d, r))
                            /\ SF_dvars(drow[d] = r /\ ReadPayload(d))
                            /\ SF_dvars(drow[d] = r /\ UploadNormalizedJson(d))

-----------------------------------------------------------------------------
(* Properties.                                                             *)

\* However sweeps overlap, fail and die, a payload whose upload was enqueued is in
\* the table or in the archive bucket: nothing is deleted that was not uploaded
\* (archive_completed_jobs).
PayloadKept ==
  \A j \in Jobs : row[<<j, "upload_result">>] # "absent" => j \in output \union archive

\* Only results of completed jobs past the retention age leave the table or reach
\* the archive bucket, whenever their sweep selected them; other jobs keep their
\* output (_select_candidates).
OnlyOldArchived ==
  [][\A j \in (output \ output') \union (archive' \ archive) : Old(j)]_dvars

\* The two rows of a result keep the promise of the outbox: a drain closes a row only
\* when it has really put its message or its blob there (deliver_slack_post,
\* deliver_upload_result), also when the sweep takes the payload away first.
Effects == (posted \X {"slack_post"}) \union (blobs \X {"upload_result"})
Marking == {d \in Drains : dpc[d] = "mark"}
Promise == INSTANCE DeliveryPromise
             WITH Rows <- OutboxRows, effect <- Effects, hand <- drow, done <- Marking
KeepsPromise == Promise!Spec

\* The result of a completed job gets into a bucket: the outputs bucket, or the
\* archive bucket when the sweep comes before the upload; also when the job is
\* set to failed after its completion.
ResultLands == \A j \in Jobs : job[j] = "completed" ~> j \in blobs \union archive
=============================================================================
