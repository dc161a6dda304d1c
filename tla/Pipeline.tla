------------------------------ MODULE Pipeline ------------------------------
(***************************************************************************)
(* The life of a ratesheet job: the two submission routes of the API       *)
(* (apps/api/routes/intake.py, ingest.py), the celery chain classify ->    *)
(* extract -> normalize -> validate (packages/ingest/tasks.py), and the    *)
(* Postgres tables they share.  Every database transaction is one action;  *)
(* what happens between two transactions of a handler (the staging file,   *)
(* the broker, the work of a stage) is a step of its own, at which         *)
(* processes interleave, fail or die.                                      *)
(*                                                                         *)
(* A job stands for its input_hash: two uploads of the same bytes are two  *)
(* submissions of one job.  What a stage computes is left to Lanes.tla.    *)
(***************************************************************************)
EXTENDS Naturals, FiniteSets

CONSTANTS Jobs,      \* payloads, one job each
          Channels,  \* Slack channels a submission can ask for
          Clients,   \* requests the API serves at a time
          Workers,   \* tasks the celery workers run at a time
          Faults,    \* what the environment does to the processes
          NoJob, NoChannel

\* "format":    an upload the classifier does not support
\* "caught":    a stage raises what its except clause names
\* "raises":    a stage raises anything else (JSON, pydantic, asyncio timeout, SDK...)
\* "killed":    a worker process dies, or the broker or database fails under it
\* "api":       the API process dies, or staging or broker fail under it
\* "ambiguous": the commit of the validate stage succeeds and reports an error
FaultKinds == {"format", "caught", "raises", "killed", "api", "ambiguous"}

ASSUME PipelineAssumption == /\ Faults \subseteq FaultKinds
                             /\ NoJob \notin Jobs
                             /\ NoChannel \notin Channels

VARIABLES
  \* Postgres
  job,      \* onramp_jobs.status, "none" before the row exists
  output,   \* onramp_outputs: the last stage that wrote normalized_payload
  ingress,  \* channels of the job's ingress_received rows in onramp_outbox
  events,   \* its other onramp_outbox rows, by stage or event_type
  slackTo,  \* channels of its slack_post rows
  audit,    \* its onramp_audit_log rows, by action
  \* staging directory and broker
  staged,   \* jobs whose upload is in the staging directory
  queue,    \* <<job, stage>> messages in the broker
  \* processes
  cpc, cjob,                  \* API requests: "idle", "stage", "enqueue", "sign"
  wpc, wjob, wstage, wchan,   \* tasks: "idle", "run", "recover", "publish"
  \* History, which no action reads:
  dropped   \* jobs whose request or task died, or raised past its handler

tables  == <<job, output, ingress, events, slackTo, audit>>
clients == <<cpc, cjob>>
workers == <<wpc, wjob, wstage, wchan>>
vars == <<tables, staged, queue, clients, workers, dropped>>

Stages == {"classify", "extract", "normalize", "validate"}
Terminal == {"completed", "failed"}
Statuses == {"none", "pending", "extracting", "normalizing", "validating"} \union Terminal
FailureStages == {"extract_failed", "normalize_failed", "validate_failed"}
AuditActions == {"classified", "extracted", "normalized", "validated"} \union FailureStages
Events == {"extracted", "normalized", "validated", "slack_post", "upload_result",
           "result_delivered"} \union FailureStages

TypeOK == /\ job \in [Jobs -> Statuses]
          /\ output \in [Jobs -> {"none", "extracted", "normalized", "validated"}]
          /\ ingress \in [Jobs -> SUBSET Channels]
          /\ events \in [Jobs -> SUBSET Events]
          /\ slackTo \in [Jobs -> SUBSET Channels]
          /\ audit \in [Jobs -> SUBSET AuditActions]
          /\ staged \in SUBSET Jobs
          /\ queue \in SUBSET (Jobs \X Stages)
          /\ cpc \in [Clients -> {"idle", "stage", "enqueue", "sign"}]
          /\ cjob \in [Clients -> Jobs \union {NoJob}]
          /\ wpc \in [Workers -> {"idle", "run", "recover", "publish"}]
          /\ wjob \in [Workers -> Jobs \union {NoJob}]
          /\ wstage \in [Workers -> Stages]
          /\ wchan \in [Workers -> Channels \union {NoChannel}]
          /\ dropped \in SUBSET Jobs

Init == /\ job = [j \in Jobs |-> "none"]
        /\ output = [j \in Jobs |-> "none"]
        /\ ingress = [j \in Jobs |-> {}]
        /\ events = [j \in Jobs |-> {}]
        /\ slackTo = [j \in Jobs |-> {}]
        /\ audit = [j \in Jobs |-> {}]
        /\ staged = {} /\ queue = {}
        /\ cpc = [c \in Clients |-> "idle"]
        /\ cjob = [c \in Clients |-> NoJob]
        /\ wpc = [w \in Workers |-> "idle"]
        /\ wjob = [w \in Workers |-> NoJob]
        /\ wstage = [w \in Workers |-> "classify"]
        /\ wchan = [w \in Workers |-> NoChannel]
        /\ dropped = {}

-----------------------------------------------------------------------------
(* The API.                                                                *)

SetClient(c, pc, j) == cpc' = [cpc EXCEPT ![c] = pc] /\ cjob' = [cjob EXCEPT ![c] = j]

\* A mutant: the conflict is not noticed and the request goes on.
InsertUnchecked(c, j) ==
  /\ job' = [job EXCEPT ![j] = IF @ = "none" THEN "pending" ELSE @]
  /\ SetClient(c, "stage", j)

\* A mutant: ON CONFLICT DO UPDATE, which sets the status back.
InsertOverwriting(c, j) ==
  /\ job' = [job EXCEPT ![j] = "pending"]
  /\ IF job[j] = "none" THEN SetClient(c, "stage", j) ELSE UNCHANGED clients

\* insert_job_if_new: a new row, or the 409 that ends the request.
InsertJob(c, j) ==
  IF job[j] = "none"
  THEN job' = [job EXCEPT ![j] = "pending"] /\ SetClient(c, "stage", j)
  ELSE UNCHANGED <<job, clients>>

\* submit_intake_job: the ingress_received row is written in the transaction of
\* the insert, for a duplicate too.
SubmitIntake(c, j, channel) ==
  /\ cpc[c] = "idle"
  /\ InsertJob(c, j)
  /\ ingress' = [ingress EXCEPT ![j] = @ \union {channel}]
  /\ UNCHANGED <<output, events, slackTo, audit, staged, queue, workers, dropped>>

\* submit_ratesheet: no outbox row, callback_channel is not kept.
SubmitRatesheet(c, j) ==
  /\ cpc[c] = "idle" /\ job[j] = "none"
  /\ InsertJob(c, j)
  /\ UNCHANGED <<output, ingress, events, slackTo, audit, staged, queue, workers, dropped>>

\* A mutant: the API and the workers do not share the staging directory.
WriteStagingElsewhere(c) ==
  /\ cpc[c] = "stage"
  /\ SetClient(c, "enqueue", cjob[c])
  /\ UNCHANGED <<tables, staged, queue, workers, dropped>>

\* The volume of docker-compose.yml that the API and the workers share.
WriteStaging(c) ==
  /\ cpc[c] = "stage"
  /\ staged' = staged \union {cjob[c]}
  /\ SetClient(c, "enqueue", cjob[c])
  /\ UNCHANGED <<tables, queue, workers, dropped>>

EnqueueChain(c) ==
  /\ cpc[c] = "enqueue"
  /\ queue' = queue \union {<<cjob[c], "classify">>}
  /\ SetClient(c, "idle", NoJob)
  /\ UNCHANGED <<tables, staged, workers, dropped>>

\* The request dies.  After its commit a submission leaves the job behind, and a
\* retry of it will find a duplicate; the signer may raise as well.
ApiDies(c) ==
  /\ "api" \in Faults /\ cpc[c] # "idle"
  /\ dropped' = IF cpc[c] = "sign" THEN dropped ELSE dropped \union {cjob[c]}
  /\ SetClient(c, "idle", NoJob)
  /\ UNCHANGED <<tables, staged, queue, workers>>

\* A mutant: the URL is signed for whatever job is asked for.
CheckExists(c, j) ==
  /\ cpc[c] = "idle" /\ job[j] # "none"
  /\ SetClient(c, "sign", j)
  /\ UNCHANGED <<tables, staged, queue, workers, dropped>>

\* get_result_url: the status is read in one transaction, the URL signed, and
\* the result_delivered row written in another.
CheckCompleted(c, j) ==
  /\ cpc[c] = "idle" /\ job[j] = "completed"
  /\ SetClient(c, "sign", j)
  /\ UNCHANGED <<tables, staged, queue, workers, dropped>>

DeliverResultUrl(c) ==
  /\ cpc[c] = "sign"
  /\ events' = [events EXCEPT ![cjob[c]] = @ \union {"result_delivered"}]
  /\ SetClient(c, "idle", NoJob)
  /\ UNCHANGED <<job, output, ingress, slackTo, audit, staged, queue, workers, dropped>>

-----------------------------------------------------------------------------
(* The chain.  A message is acknowledged when its task starts, tasks have  *)
(* max_retries=0: no stage is run twice.                                   *)

\* _recover_requested_slack_channel: the first of the ingress_received rows, in
\* no order, or none.
RequestedChannels(j) == IF ingress[j] = {} THEN {NoChannel} ELSE ingress[j]

\* A worker takes a message, which is acknowledged by that; the validate stage reads
\* the channel as it starts.  No message is taken twice: one that stays unacknowledged
\* past the visibility timeout of the broker is not modelled.
StartTask(w, j, s) ==
  /\ wpc[w] = "idle" /\ <<j, s>> \in queue
  /\ queue' = queue \ {<<j, s>>}
  /\ wpc' = [wpc EXCEPT ![w] = "run"]
  /\ wjob' = [wjob EXCEPT ![w] = j]
  /\ wstage' = [wstage EXCEPT ![w] = s]
  /\ \E ch \in IF s = "validate" THEN RequestedChannels(j) ELSE {NoChannel} :
       wchan' = [wchan EXCEPT ![w] = ch]
  /\ UNCHANGED <<tables, staged, clients, dropped>>

Running(w, s) == wpc[w] = "run" /\ wstage[w] = s

WorkerTo(w, pc) == wpc' = [wpc EXCEPT ![w] = pc] /\ UNCHANGED <<wjob, wstage, wchan>>
WorkerDone(w) == /\ wpc' = [wpc EXCEPT ![w] = "idle"]
                 /\ wjob' = [wjob EXCEPT ![w] = NoJob]
                 /\ wstage' = [wstage EXCEPT ![w] = "classify"]
                 /\ wchan' = [wchan EXCEPT ![w] = NoChannel]

\* What the stage reads is there, and what it inserts is not: insert_output is a
\* plain INSERT, the later stages upsert.
HasInput(j, s) == CASE s = "classify" -> j \in staged
                    [] s = "extract" -> j \in staged /\ output[j] = "none"
                    [] OTHER -> output[j] # "none"

\* One transaction on the rows of j: its status, audit rows and outbox rows.
Write(j, status, actions, rows) ==
  /\ job' = [job EXCEPT ![j] = status]
  /\ audit' = [audit EXCEPT ![j] = @ \union actions]
  /\ events' = [events EXCEPT ![j] = @ \union rows]
  /\ UNCHANGED ingress

\* A mutant: the write is in the transaction that the re-raise rolls back.
CommitRolledBack(j, stage) == UNCHANGED tables

\* A mutant: the status alone.
CommitStatusOnly(j, stage) == Write(j, "failed", {}, {}) /\ UNCHANGED <<output, slackTo>>

\* _commit_failure: status, outbox row and audit row in a transaction of its own.
CommitFailure(j, stage) == Write(j, "failed", {stage}, {stage}) /\ UNCHANGED <<output, slackTo>>

Classified(w) ==
  /\ Running(w, "classify") /\ HasInput(wjob[w], "classify")
  /\ Write(wjob[w], "extracting", {"classified"}, {})
  /\ WorkerTo(w, "publish")
  /\ UNCHANGED <<output, slackTo, staged, queue, clients, dropped>>

\* A mutant: a status that is not one of the API's.
ClassifyUnsupported(w) ==
  /\ "format" \in Faults
  /\ Running(w, "classify") /\ wjob[w] \in staged
  /\ Write(wjob[w], "unsupported", {}, {})
  /\ WorkerDone(w)
  /\ UNCHANGED <<output, slackTo, staged, queue, clients, dropped>>

\* The format is not supported: a failed job without an audit or outbox row.
ClassifyRejects(w) ==
  /\ "format" \in Faults
  /\ Running(w, "classify") /\ wjob[w] \in staged
  /\ Write(wjob[w], "failed", {}, {})
  /\ WorkerDone(w)
  /\ UNCHANGED <<output, slackTo, staged, queue, clients, dropped>>

Extracted(w) ==
  /\ Running(w, "extract") /\ HasInput(wjob[w], "extract")
  /\ output' = [output EXCEPT ![wjob[w]] = "extracted"]
  /\ Write(wjob[w], "normalizing", {"extracted"}, {"extracted"})
  /\ WorkerTo(w, "publish")
  /\ UNCHANGED <<slackTo, staged, queue, clients, dropped>>

Normalized(w) ==
  /\ Running(w, "normalize") /\ HasInput(wjob[w], "normalize")
  /\ output' = [output EXCEPT ![wjob[w]] = "normalized"]
  /\ Write(wjob[w], "validating", {"normalized"}, {"normalized"})
  /\ WorkerTo(w, "publish")
  /\ UNCHANGED <<slackTo, staged, queue, clients, dropped>>

\* A mutant: the slack_post row is written whether or not a channel was found.
ValidatedWithoutChannel(w) ==
  /\ Running(w, "validate") /\ HasInput(wjob[w], "validate")
  /\ output' = [output EXCEPT ![wjob[w]] = "validated"]
  /\ slackTo' = [slackTo EXCEPT ![wjob[w]] = @ \union ({wchan[w]} \ {NoChannel})]
  /\ Write(wjob[w], "completed", {"validated"}, {"validated", "slack_post", "upload_result"})
  /\ WorkerDone(w)
  /\ UNCHANGED <<staged, queue, clients, dropped>>

\* A mutant: the upload is not enqueued with the completion.
ValidatedWithoutUpload(w) ==
  /\ Running(w, "validate") /\ HasInput(wjob[w], "validate") /\ wchan[w] # NoChannel
  /\ output' = [output EXCEPT ![wjob[w]] = "validated"]
  /\ slackTo' = [slackTo EXCEPT ![wjob[w]] = @ \union {wchan[w]}]
  /\ Write(wjob[w], "completed", {"validated"}, {"validated", "slack_post"})
  /\ WorkerDone(w)
  /\ UNCHANGED <<staged, queue, clients, dropped>>

\* The terminal transaction: output, status, audit row and three outbox rows.
\* When its commit reports an error it did not have, the except clause follows.
Validated(w) ==
  /\ Running(w, "validate") /\ HasInput(wjob[w], "validate") /\ wchan[w] # NoChannel
  /\ output' = [output EXCEPT ![wjob[w]] = "validated"]
  /\ slackTo' = [slackTo EXCEPT ![wjob[w]] = @ \union {wchan[w]}]
  /\ Write(wjob[w], "completed", {"validated"}, {"validated", "slack_post", "upload_result"})
  /\ \/ WorkerDone(w)
     \/ "ambiguous" \in Faults /\ WorkerTo(w, "recover")
  /\ UNCHANGED <<staged, queue, clients, dropped>>

FailureStage(s) == CASE s = "extract" -> "extract_failed"
                     [] s = "normalize" -> "normalize_failed"
                     [] OTHER -> "validate_failed"

\* The except clauses of _extract, _normalize and _validate.  The last two come
\* here without any fault when their input is missing, _validate also when no
\* channel was asked for.
StageFails(w) ==
  /\ \/ /\ wpc[w] = "run" /\ wstage[w] # "classify"
        /\ \/ "caught" \in Faults
           \/ wstage[w] \in {"normalize", "validate"} /\ ~HasInput(wjob[w], wstage[w])
           \/ wstage[w] = "validate" /\ wchan[w] = NoChannel
     \/ wpc[w] = "recover"
  /\ CommitFailure(wjob[w], FailureStage(wstage[w]))
  /\ WorkerDone(w)
  /\ UNCHANGED <<staged, queue, clients, dropped>>

\* An exception that no except clause of the stage names, from outside or for
\* want of the staging file: nothing is written.  _validate names them all.
TaskRaises(w) ==
  /\ wpc[w] = "run" /\ wstage[w] # "validate"
  /\ \/ "raises" \in Faults /\ dropped' = dropped \union {wjob[w]}
     \/ /\ wstage[w] \in {"classify", "extract"} /\ ~HasInput(wjob[w], wstage[w])
        /\ UNCHANGED dropped
  /\ WorkerDone(w)
  /\ UNCHANGED <<tables, staged, queue, clients>>

\* The process dies, in its work or between its commit and the next message.
WorkerDies(w) ==
  /\ "killed" \in Faults /\ wpc[w] # "idle"
  /\ dropped' = dropped \union {wjob[w]}
  /\ WorkerDone(w)
  /\ UNCHANGED <<tables, staged, queue, clients>>

NextStage(s) == CASE s = "classify" -> "extract"
                  [] s = "extract" -> "normalize"
                  [] OTHER -> "validate"

\* The link of a task that succeeded: the next message of the chain.
PublishNext(w) ==
  /\ wpc[w] = "publish"
  /\ queue' = queue \union {<<wjob[w], NextStage(wstage[w])>>}
  /\ WorkerDone(w)
  /\ UNCHANGED <<tables, staged, clients, dropped>>

Request(c) == \/ \E j \in Jobs, ch \in Channels : SubmitIntake(c, j, ch)
              \/ \E j \in Jobs : SubmitRatesheet(c, j) \/ CheckCompleted(c, j)
Serve(c) == WriteStaging(c) \/ EnqueueChain(c) \/ ApiDies(c) \/ DeliverResultUrl(c)
Take(w) == \E j \in Jobs, s \in Stages : StartTask(w, j, s)
Work(w) == \/ Classified(w) \/ ClassifyRejects(w) \/ Extracted(w) \/ Normalized(w)
           \/ Validated(w) \/ StageFails(w) \/ TaskRaises(w) \/ WorkerDies(w)
           \/ PublishNext(w)

Next == \/ \E c \in Clients : Request(c) \/ Serve(c)
        \/ \E w \in Workers : Take(w) \/ Work(w)

Spec == Init /\ [][Next]_vars

\* A request that is being served goes on or dies; and while there is a message to
\* take or a task to run, some worker does so, whichever.  Nobody has to submit
\* anything.
FairSpec == /\ Spec
            /\ \A c \in Clients : WF_vars(Serve(c))
            /\ WF_vars(\E w \in Workers : Take(w) \/ Work(w))

-----------------------------------------------------------------------------
(* Properties.                                                             *)

\* Whoever is going to move the job: a request that has created its row and not
\* yet started its chain, a message in the broker, a task.
Carriers(j) ==
  {<<"request", c>> : c \in {d \in Clients : cpc[d] \in {"stage", "enqueue"} /\ cjob[d] = j}}
    \union {<<"message", s>> : s \in {t \in Stages : <<j, t>> \in queue}}
    \union {<<"task", w>> : w \in {v \in Workers : wpc[v] # "idle" /\ wjob[v] = j}}

InFlight(j) == job[j] \notin Terminal \union {"none"}

\* However uploads of the same bytes interleave, over both routes, a job has one
\* chain and each stage of it runs once: no two requests, messages or tasks of
\* one job at a time (insert_job_if_new; "never enqueue a duplicate").
OneChainPerJob == \A j \in Jobs : \A a, b \in Carriers(j) : a = b

\* A job that is not settled is on its way, unless its request or task died or
\* raised what its stage does not catch: no handler drops a job by itself.
CarriedOrDropped == \A j \in Jobs : InFlight(j) => Carriers(j) # {} \/ j \in dropped

\* What a client that reads "completed" relies on: the validated output, the four
\* audit rows, and the outbox rows that post to the one channel chosen among the
\* requested ones and upload the result, are there.
CompletedIsWhole ==
  \A j \in Jobs : job[j] = "completed" =>
    /\ output[j] = "validated"
    /\ audit[j] = {"classified", "extracted", "normalized", "validated"}
    /\ {"extracted", "normalized", "validated", "slack_post", "upload_result"} \subseteq events[j]
    /\ \E ch \in ingress[j] : slackTo[j] = {ch}

\* A failed job whose validate stage had committed: the commit was ambiguous.
Overturned(j) == job[j] = "failed" /\ "validated" \in audit[j]
Overturning(j) == \E w \in Workers : wpc[w] = "recover" /\ wjob[w] = j

\* A failed job says which stage failed, in both tables, unless the classifier
\* rejected it; and it has announced nothing, unless it was overturned
\* (_commit_failure against the transaction of _validate).
FailureIsRecorded ==
  \A j \in Jobs : job[j] = "failed" =>
    /\ audit[j] = {} \/ audit[j] \intersect events[j] \intersect FailureStages # {}
    /\ ~Overturned(j) => /\ slackTo[j] = {}
                         /\ events[j] \intersect {"slack_post", "upload_result"} = {}

\* A result URL is handed out for completed jobs only, though the status is read
\* in an earlier transaction (get_result_url); an ambiguous commit can overturn
\* the job meanwhile, and then its validated output is still what is handed out.
DeliveredWhenCompleted ==
  \A j \in Jobs : "result_delivered" \in events[j] =>
    (job[j] = "completed" \/ Overturned(j)) /\ output[j] = "validated"

\* Nothing changes the outcome of a settled job, no late task, no duplicate
\* submission and no failure handler, but for one case: the handler of the task
\* that completed it, after an ambiguous commit.  Output and channel stay even then.
OutcomeStands ==
  [][\A j \in Jobs : job[j] \in Terminal =>
       /\ output'[j] = output[j] /\ slackTo'[j] = slackTo[j]
       /\ \/ job'[j] = job[j] /\ audit'[j] = audit[j]
          \/ job[j] = "completed" /\ job'[j] = "failed" /\ Overturning(j)]_vars

\* The chain is what Delivery.tla takes for granted when it delivers the results: the
\* tables go from the row of the job over its output to one transaction that
\* completes it and enqueues both of its rows, or to a failure that enqueues none;
\* and an ambiguous commit can set a completed job to failed.
\* Nobody drains or sweeps here, and no time passes.
Result == INSTANCE Delivery WITH
  Drains <- {}, Sweeps <- {}, ArchiveAge <- 1,
  job <- [j \in Jobs |-> IF InFlight(j) THEN "running" ELSE job[j]],
  age <- [j \in Jobs |-> 0],
  output <- {j \in Jobs : output[j] # "none"},
  row <- [r \in Jobs \X {"slack_post", "upload_result"} |->
            IF r[2] \in events[r[1]] THEN "undelivered" ELSE "absent"],
  posted <- {}, blobs <- {}, archive <- {},
  dpc <- [d \in {} |-> "idle"], drow <- [d \in {} |-> <<NoJob, "slack_post">>],
  spc <- [s \in {} |-> "idle"], todo <- [s \in {} |-> {}], scur <- [s \in {} |-> NoJob]
ChainOfDelivery == Result!DeliverySpec

\* Every accepted job completes or fails, unless it was dropped.
EventuallySettled ==
  \A j \in Jobs : job[j] = "pending" ~> (job[j] \in Terminal \/ j \in dropped)

\* What BUILD_COMPLETE_V7.md says: no job wedges in an intermediate status.  An
\* exception that the except clause of its stage does not name refutes it.
JobsDoNotWedge ==
  \A j \in Jobs : job[j] \in {"extracting", "normalizing", "validating"} => Carriers(j) # {}
=============================================================================
