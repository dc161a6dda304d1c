# Verification of the Solvo pilot onramp

TLA+ models of the onramp's core, checked with TLC on small instances, and theorems about them
checked by TLAPS for every value of the constants. Paths are relative to the repository (`src/`).

The onramp takes freight ratesheets (Excel, EDIFACT), has language models extract and normalise
their lanes, validates them deterministically, and delivers the result over a transactional outbox.
It is a FastAPI process, celery workers started from a Redis broker, a beat that starts periodic
tasks, and Postgres.

## 1. Inventory

| Component | State | Operations | What makes it correct |
|---|---|---|---|
| Intake and ingest routes (`apps/api/routes/intake.py`, `ingest.py`) | `onramp_jobs`, `onramp_outbox`, the staging directory, the broker | submit (insert or 409, stage, enqueue the chain), job, result URL, reviews | one chain per payload; nothing accepted is lost silently |
| Job pipeline (`packages/ingest/tasks.py`) | job status, `onramp_outputs`, `onramp_outbox`, `onramp_audit_log` | classify, extract, normalize, validate, `_commit_failure` | all-or-nothing outcomes that stand, failures recorded, no job wedged |
| Outbox dispatcher (`packages/dispatcher/outbox_worker.py`) | `delivered_at`, `attempts`, `next_retry_at`; Redis row locks | enqueue, drain: select, lock, dispatch, mark or reschedule | at-least-once, mutual exclusion per row, redelivery that ends, no starvation |
| Delivery handlers (`packages/dispatcher/delivery.py`, `packages/storage/upload.py`) | the outputs bucket, Slack | Slack post, upload (reads `onramp_outputs` when it runs), webhook, signed URL, no-op logs | an effect before the row is closed, also when the payload is gone |
| Lane flow (`normalizer.py`, `rules_engine.py`, `conformal.py`, `correction.py`, `_validate`) | `lanes`, `flagged_for_review`, `deterministically_rejected`, `shape_violating_lanes`, `onramp_conformal_scores` | vote, resolve ports, reject, score, correct | every lane has one fate, none is lost, none is judged by another's votes |
| Shape scans (`excel_extractor.py`) | cells, the model's answer | scan before and after the model call, union | every malformed row is rejected once |
| Consensus and conformal score (`consensus.py`, `conformal.py`) | none | majority per field, agreement | a lane that votes support; a score that follows the vote |
| Model calls (`normalizer.py`, `correction.py`, `excel_extractor.py`) | none | call, retry once after a pause, time out, as one round with a budget | the budget holds what is called in it; what was agreed stays agreed |
| Archive sweep (`packages/lifecycle/archive.py`, `infra/scripts/archive_90day.py`) | `onramp_outputs`, the archive bucket | select, upload, delete | nothing deleted that is not uploaded, nothing before its time |
| Job and audit routes (`apps/api/routes/jobs.py`, `audit.py`) | the session of the request | status, result, audit, each with its access row | one transaction at a time; missing means archived |
| EDIFACT extractor (`edifact_extractor.py`) | none | group segments, read a LIN, ask Flash, date the lane | no line lost, no date of the model's own |
| Classifier, port resolver, clarification | none | pure or one model call | outcomes only |
| Health and Slack routes, signing, block kit | none | reads, layout, client calls | — |
| Boot validators, retention enforcer, settings, migrations, deployment | none | run once | — |

**Interactions.** A route commits the job row (and, on intake, an `ingress_received` outbox row),
then writes the staging file, then sends the first message of a celery chain. Each task reads what
the stage before it committed, works, and commits its output, the next status, an audit row and an
outbox row in one transaction; celery sends the next message when a task returns. The validate
stage adds the rows that post to Slack and upload the result. Beat starts a drain every 5 s,
whether or not the last one has ended. Once a day it starts the archive sweep, which anyone may also
start by hand; the sweep takes away the rows that the delivery handlers and the result route read.

**What is hard here.** Overlapping drains over stale snapshots; locks that expire under their
holder; an effect whose record is lost; crashes between a commit and the next message; messages
acknowledged before the work; exceptions that no handler names; duplicate submissions that leave
rows behind; a commit that succeeds and reports an error; votes that travel between two tasks
under a key the model chose; payloads that are read after they may have been archived; sessions
that begin a transaction by themselves; budgets that do not hold what is called in them; majorities
of one field at a time. `PROJECT.json` lists each at its line under `hazards`.

## 2. Modules

| Module | What it is |
|---|---|
| `DeliveryPromise` | abstract outbox: committed rows stay, are closed only by a drain that has performed their effect, and for good; implemented by `Outbox` and by `Delivery` |
| `Outbox` | the dispatcher |
| `Pipeline` | submission routes, the chain and their tables |
| `SubmitterChannel` | `Pipeline` with the channel that the first submission asked for, as history |
| `Lanes` | the lanes of one sheet, from the scans to the final payload |
| `Delivery` | the result of a job: terminal transaction, the handlers that deliver it, the archive sweep |
| `ResultRoutes` | extends `Delivery` with the routes that read jobs and results, composed by interleaving |
| `Consensus` | the pure algorithms: majority per field, its lane, agreement |
| `Ensemble` | extends `Consensus` with the timed rounds of model calls that vote on one lane |
| `Edifact` | the EDIFACT extractor |
| `MCOutbox`, `MCPipeline`, `MCPipelineSlack`, `MCLanes`, `MCResultRoutes`, `MCEnsemble`, `MCEdifact` | constants for TLC |
| `OutboxProofs`, `PipelineProofs`, `LanesProofs`, `ResultRoutesProofs`, `EnsembleProofs`, `EdifactProofs` | the theorems of each |
| `ChainProofs` | extends `PipelineProofs`: `Pipeline` implements the chain of `Delivery` |

Operators whose comment calls them a *mutant* or *mutation* are bugs that could have been made in
the definition that follows them; nothing uses them except the mutation test of the properties.

### Outbox

`row`, `attempts`, `retryIn` are the columns of `onramp_outbox`; `lockLeft` the rest of each Redis
key's TTL; `pc`, `batch`, `seen`, `cur` the local state of each drain (`rows`, `row.attempts`, the
row of the loop). Actions follow `_drain_once`: `Select` is the first transaction, `Acquire`/`Skip`
the two answers of `_acquire_lock`, `DispatchOk`/`DispatchRaises` the handler, `Mark`/`MarkRaises`
the UPDATE (which may raise after it was committed), `Record` the except clause, `Finish`/`Abort`
the end of a drain, planned or not. `Tick` lets time pass for keys and retries together, which
assumes that the clocks of the workers agree. `effect` and `age` are history. `attempts` saturates
one above the length of the schedule, where `backoff_for` no longer tells values apart. Nothing releases
a lock in the code: it lives until its TTL, also after its drain is done with the row.

The worker runs four tasks at a time and beat does not wait for the last drain, so two drains may
have one row in their snapshots. Then the retry schedule is not kept (`BackoffHonoured` is
refuted), and a second drain may write `attempts` back. What does hold is `RedeliveryEnds`: once a row
is delivered, those who still hold it look at it once more at most, and what they write over it does
not make it due again.

### Pipeline

Every `session.begin()` block is one action, and the steps between two of them are actions of their
own, so a request is `SubmitIntake` (or `SubmitRatesheet`), `WriteStaging`, `EnqueueChain`, and a
task is `StartTask`, its transaction (`Classified`, `Extracted`, `Normalized`, `Validated`) and
`PublishNext`. A job stands for its `input_hash`. `Faults` selects what the environment does:
unsupported formats, exceptions a stage names (`StageFails`) or does not (`TaskRaises`), dead
workers, a dead API, a commit that succeeds and reports an error. `StageFails` and `TaskRaises` are
also taken without a fault where the code itself raises: a missing input, a missing channel, an
output row that is there already. `dropped` is history. What a stage computes is left
to `Lanes`. The staging directory is one for the API and the workers, as the volume of
`docker-compose.yml` (40, 67) makes it; `cloud_run.tf` mounts none. A message is acknowledged when its
task starts; that the broker gives a message out again after its visibility timeout is not modelled. A completed job's old age, when the archive sweep deletes its output, is in `Delivery`, and
`ChainOfDelivery` is the refinement that joins the two: under the mapping of a job to none, running,
completed or failed and of its `slack_post` and `upload_result` rows to open ones, every step of the
pipeline is a step of `Delivery`'s chain or a stutter.

An ambiguous commit of the validate stage has the failure handler set a completed job to failed
(`Overturned`, in both modules). The properties say what that may do: `OutcomeStands`, that nothing else
changes an outcome and that output and channel stay; `FailureIsRecorded`, that the failure is on
record; `DeliveredWhenCompleted`, that a URL given out meanwhile is that of the validated output; and
in `Delivery`, that the result still gets into a bucket.

### Lanes

Lanes are positions of the list the extractor model returned. Its `lane_id` is a function to a
small set, so that two lanes may share one, as the code allows. `bad` and `scanned` are what the two
shape scans find. `results` is `consensus_results`, `votes` is `onramp_conformal_scores`, keyed by
`lane_id`. A vote is reduced to what later code tells apart: whose it is, whether a field has no
majority, whether the agreement is below 0.85. A stored consensus may also fail to validate, and
its flag survives. One action per iteration of the loop of
`normalize_lanes`, one per commit, one per flag of the correction loop. `corrected` is history. How
the votes come about, and what a majority of them is, is in `Ensemble`.

### Delivery and ResultRoutes

`Delivery` has the tables as the code after the chain sees them: a status, the set of jobs with an
output row, and the two outbox rows of a result; outside are the sets of jobs posted, uploaded and
archived. The chain is reduced to its transactions `Accepted`, `Extracted`, `Completed`, `Failed` and `Overturned`,
which `Pipeline` is shown to implement; a drain to what `Outbox` shows of it: it takes any undelivered
row (`Take`), or one of its snapshot that another has closed since (`TakeStale`), any number of times,
and closes it after the handler returned. Both modules implement `DeliveryPromise` with what a drain
has in hand and whether it has performed its effect, so what `Delivery` leaves out of a drain (locks,
snapshots, the schedule) does not show in what it does to a row.
`ReadPayload` and `UploadNormalizedJson` are the two halves of `deliver_upload_result`; that it finds
no payload, raises or dies is `HandlerRaises`. The sweep follows `archive_completed_jobs`:
`SelectCandidates` in a session of its own, then per candidate `UploadArchive` or `UploadRaises`, and
`DeleteOutput` in another transaction; `SweepEnds` is its end, planned or not. `Tick` makes completed
jobs older, up to `ArchiveAge`.

`ResultRoutes` adds requests. One action is one statement of a route; `tx` says whether the
request's session has a transaction, which the first statement begins by itself and `CommitRead`,
the fix of Defect 12, ends. `Record` is the `session.begin()` block: with `tx` it raises, and the
client sees a 500. Other exceptions, of the signer (`Sign`) or of the unique constraint on reviews,
are answers of their own (`raised`). `get_intake_job` and `list_reviews` answer without a `Record`
(section 5). The routes only read what `Delivery` writes, so the composition is interleaving over
shared variables.

### Consensus and Ensemble

A lane is a function from the ten voted fields to readings, a vote set a function from samples to
lanes. `Canonical` is the sorted form that `_canonical` gives a list, here the number of times each
item occurs; `Agreement` compares the raw reading, as `conformal.py` does, and is counted in
thousandths, half up; `Counted` is the set of the votes that count in it, so that its size is the sum
of the counters. `Ensemble` runs the two rounds on one lane: three calls, and two more if a
field has no majority. `left` is the rest of a call's limit or pause, `budget` that of the round.
Timers fire when due (`Timeout`, `WakeUp` at 0; `Tick` waits for them), as asyncio's do, give or
take the loop's delay. `Answer`, `ServerError` and `OtherError` may come at any time before.

### Edifact

The interchange is any sequence of segments, of which only what the two loops look at is kept: the
tag, whether a LIN can be read, lacks something or has values the lane refuses, and a DTM's qualifier
and date. One action per segment of the first loop, one per cluster of the second. A lane is the
number of its line, who read it and its dates; for a lane of Flash the number is history, as its
`lane_id` is only asked for. `LineRaises` and `Conclude` have the exceptions: of the models of a lane,
of the client, and of the metadata when the file has more segments than `MaxCells`. `dropped` is
history: a line that Flash had no lane for leaves no trace in the payload.

## 3. Runs

| Run | Instance | Shows |
|---|---|---|
| `outbox` | 1 row, 2 drains, schedule `<<1, 2>>`, TTL 2; 11,991 states | TypeOK, NoOverlapWithinTTL, EventuallyDelivered, RedeliveryEnds, and that `Outbox` implements `DeliveryPromise` |
| `outbox_single` | 2 rows, one undeliverable, 1 drain; 9,820 states | EventuallyDelivered |
| `outbox_schedule` | 1 row, 2 drains | **violated**: BackoffHonoured |
| `outbox_gives_up` | 1 undeliverable row | **violated**: GivesUp |
| `pipeline` | 2 jobs, 2 channels, 2 clients, 2 workers, all faults; 64,657 states | TypeOK, OneChainPerJob, CarriedOrDropped, CompletedIsWhole, FailureIsRecorded, DeliveredWhenCompleted, OutcomeStands, EventuallySettled, and that `Pipeline` implements the chain of `Delivery` |
| `pipeline_wedge` | 1 job, uncaught exceptions only | **violated**: JobsDoNotWedge |
| `pipeline_slack` | 1 job, 2 channels, no fault | **violated**: SlackGoesToSubmitter |
| `lanes` | 3 lanes, 2 ids, 2 rows; 2,717,632 states | TypeOK, OneFate, NoLaneLost, ViolatorsRejected, ScoredByOwnVotes |
| `lanes_corrected` | 2 lanes | **violated**: CorrectedLaneSurfaces |
| `delivery` | 1 job, 1 drain, 2 sweeps, 1 client; 113,663 states | TypeOK, PayloadKept, OnlyOldArchived, MissingOnlyWhenArchived, OnlyJobRoutesRaise, ResultLands, and that `Delivery` implements `DeliveryPromise` |
| `ensemble` | limits 2 and 2, budgets 6 and 4, pause 1, six lanes; 39,198 states | TypeOK, PairsWereVoted, UnanimousSurvives, EnsembleFitsItsBudget, CutOffLate, ScoreFollowsTheVote, RoundsEnd |
| `edifact` | every interchange of up to 5 segments, two dates, 4 cells; 732,314 states | EdifactTypeOK, ClustersExact, EveryLineAnswered, DatesGrounded |

**Bounds.** A row's lock and retry state concern the row alone, so contention needs two drains and
one row; the snapshot's staleness needs a second row in front of it. The schedule has one delay
shorter than the TTL and one as long, as 5 s and 30 s against 30 s, and the exhausted schedule is
reached after three failures. Two clients and two workers are enough for a race on one payload
while another is under way; all four stages run. Two lanes share an id while a third has its own;
with three, a shared id can also be a flagged one. The theorems cover other sizes.
A result, its rows and its archive concern one job, so `delivery` has one, with everything that
races for it: a drain, two sweeps and a reader. Two requests have a session each and share only the
reviews, where the second meets the first one's row as it does with one client. In `ensemble` the limits keep the order of the code's (two attempts and the pause
fit 6 as 40.5 s fit 45 s, and do not fit 4 as 30.5 s do not fit 30 s); the six lanes are a reading, the
same surcharges in another order, a third origin, each end of the window changed alone, and five
fields changed at once, which is what the majority and the score can tell apart with five votes.
Five segments hold two lines with a DTM each and one before them, or a trailer and a second message.
One cell less than segments lets the metadata refuse a file. `BatchSize` is not exceeded: with more undeliverable rows than `BATCH_SIZE` the unordered `LIMIT`
promises nothing, and no property claims it. `MaxLength` bounds the interchange, `ArchiveAge` the age,
for TLC only; the theorems have no such bound.

**Deadlock.** It is checked for `Outbox`, where beat never stops, and for `ResultRoutes`, where a
client can always ask. `Pipeline` and `Lanes` may stop: when every payload is settled or dropped,
and when the sheet is done; `Ensemble` and `Edifact` when the lane or the file is.

**Fairness.** `Outbox`: beat keeps starting drains (weak fairness of `Select`), a running drain goes
on or dies, time passes. That a row is delivered also needs what no code can give, and the model
states it as strong fairness per row: a row that is offered its lock again and again gets it once,
and a handler and an UPDATE that are tried for ever succeed once. `Pipeline`: a request that has begun
goes on or dies, and as long as a task is under way or a message waits for an idle worker, some worker
goes on (weak fairness of the workers together). Nobody has to submit.
`Delivery`: drains go on (weak fairness of `Handle`); as a drain goes through every due row, and beat
starts another every 5 s, a row that stays open is taken again and again, and a read or an upload
that is tried for ever succeeds once (strong fairness per row). Nobody has to sweep.
`Ensemble`: the event loop fires timers and resumes what waits for them; the model need not answer.

## 4. Proofs

All theorems hold for every value of the constants that meets the named assumptions
(`ScheduleAssumption`, `RowsAssumption`, `PipelineAssumption`, `LanesAssumption`,
`DeliveryAssumption`, `EnsembleAssumption`, `EdifactAssumption`).

* **OutboxProofs.** `IInv` adds to the types that a drain has a row in hand exactly while it works
  on it (`HandInv`), that while it is younger than the TTL the key of its row has just the rest of
  the TTL left (`LockInv`), and that a drain about to close a row has seen its effect
  (`EffectInv`). `NoOverlapWithinTTL` is then inductive relative to it (`LockSafety`): a drain that
  gets the lock found no key, so whoever holds the row has outlived its own. `Refinement` maps the
  row in hand to `cur`, what the drain knows of its effect to `pc = "mark"`, and each step to
  `Enqueue`, `Take`, `Perform`, `Close`, `GiveUp` or a stutter, one lemma per kind of step.
  `NoRevival` is the safety half of `RedeliveryEnds`: a delivered row that is in no hand and no
  snapshot is never selected again, whatever the drains that held it wrote over it.
* **PipelineProofs.** `IInv` says where the tables are for each carrier of a job (`At`), that a job
  has one carrier (`UniqueInv`) and, in flight, at least one (`CarriedInv`). All theorems hold under
  every fault, ambiguous commits included. `Finality` is that only the handler of the completing task
  overturns a job; `FailureTrace` and `NoEarlyDelivery` need that a job with a signature under way is
  completed or was overturned (`SignInv`), and that an overturned one has its validated output.
  `NoWedgeWithoutDrops` gives the condition under which the claim of run `pipeline_wedge` is true: no
  process dies and no stage raises past its handler.
* **ChainProofs.** `ChainRefinement` shows `ChainOfDelivery` for every set of faults. What a commit
  finds in the tables of its job (`At` of `IInv`) is what the guards of `Accepted`, `Extracted`,
  `Completed` and `Failed` ask for: no output before `Extracted`, one before `Completed`, neither
  outbox row before its end; what the handler of a committed validate stage finds is that of
  `Overturned`. So what is proved of results in `ResultRoutesProofs`, with that chain, holds with the
  pipeline in its place.
* **LanesProofs.** Disjointness needs that a lane carries at most one flag of stage 3; conservation
  and scoring need that the row of a `lane_id` that only one lane has holds that lane's votes
  (`VotesInv`). `Violators` is a short invariant of its own. Type correctness needs that the maximum
  of a finite set of lanes exists (`LastLane`), by well-founded descent.
* **ResultRoutesProofs.** `IInv` adds to the types and `PayloadKept` that a sweep has only old jobs in
  its list and has archived what it is about to delete (`SweepInv`), that a drain has an enqueued
  row in hand and its effect behind it when it closes it (`HandInv`), that the rows of a result come
  with its completion (`QueuedInv`), and that no route but those of `jobs.py` reaches its
  `session.begin()` with a transaction (`SessionInv`). It is proved in two halves, as the routes only
  rely on what no step of `Delivery` undoes (`Keeps`): an old job stays old, an archived one
  archived, an upload that was enqueued is not taken back, even if its job is overturned. In the refinement the terminal transaction enqueues both rows at once, and the two
  handlers perform their effect for the row in hand (`ResultRefinement`). `RetentionKept` is
  about steps: whoever deletes or archives, the job is past its age at that moment. `ResultOwed` is
  what `ResultLands` rests on: until the result is in a bucket its upload is open and its payload
  there, so a sweep never makes a delivery impossible without having archived the result.
* **EnsembleProofs.** The budget theorems follow from a bound on what a pending call may still take,
  by attempt and pause (`Worst`): it never exceeds the rest of the budget by more than two limits
  and a pause exceed the whole of it (`TimeInv`). For the ensemble that is less than nothing, so no
  call is left when the budget is gone; for the correction it is the part of the second attempt
  that is cut off. `PairsTogether` is the meeting of two strict majorities: two sets of more than
  half of the votes share one, and so is `ConsensusIsTheMajority`, by which the order of the votes never
  decides. `CleanFieldsSurvive` is that three equal votes are a majority of five. `ScoreSound` counts what
  three votes give: ten fields, and one more for each field with a top of two and two for one of three
  (`CountedByLevel`). If the vote sees no dispute, only surcharges can differ by their order, and at
  least 26 of 30 count (`UndisputedIsAccepted`); with five fields in dispute at most 25 do, which is
  below 0.85 (`DisputedIsFlagged`). `RoundsRunOut` is a
  variant: every step that does not end a round lowers the rest of its budget or what a call may
  still do.
* **EdifactProofs.** Up to the position of the first loop every LIN heads a closed cluster or the
  open one (`OpenInv`); a closed cluster is all that stands under its line (`ClosedInv`); after the
  loop no line is left out (`CoverInv`). Of the clusters that the second loop has passed each has a
  lane or is dropped (`LaneInv`), and the lanes of Flash have the dates that `Effective` had there
  (`DateInv`). `ValidityIsLast` shows that what the overwriting loop leaves is the last segment of
  its kind; that there is one needs well-founded descent (`Greatest`).

Only model-checked: the liveness properties EventuallyDelivered, EventuallySettled, ResultLands and
RoundsEnd, since fairness is out of the prover's reach, and RedeliveryEnds as a whole. Their safety cores are proved: `NoRevival`, CarriedOrDropped,
`NoWedgeWithoutDrops`, `ResultOwed` and `RoundsRunOut`. The sums of the score are cardinalities of
disjoint unions, not folds, which would need an induction over data.

## 5. Where the code and its documents differ

1. *Giving up.* `outbox_worker.py:36-38`: beyond six attempts the dispatcher gives up. A NULL
   `next_retry_at` is due (line 100), so it retries for ever, as often as the lock expires.
2. *Backoff.* `outbox_worker.py:5`: the schedule. A drain that works from a snapshot dispatches rows
   that another has postponed or delivered (run `outbox_schedule`), and writes `attempts` from its
   snapshot, over whatever the row holds.
3. *Wedged jobs.* `BUILD_COMPLETE_V7.md:10`, `PHASE_6_6_SPEC.md:26`: jobs no longer wedge. Exceptions
   that `_extract` and `_normalize` do not name (SDK errors, JSON errors, a
   ValidationError of a shape violator) leave the
   intermediate status for ever.
4. *Slack channel.* `PHASE_6_5_SPEC.md:314`: the channel of the submission that created the job. A
   refused duplicate writes an `ingress_received` row too, and the reader takes any.
5. *Corrected lanes.* `PHASE_5_SPEC.md:378`: surface the resolved lane. `tasks.py:563` drops the flag
   and nothing else.
6. *Job routes.* `jobs.py:62`: return the result of a completed job. `_record_access` begins a second
   transaction on the request's session (`jobs.py:20`), so both routes end in a 500 wherever they
   should answer 200; Defect 12 was fixed in `intake.py` only.
7. *EDIFACT.* Comments promise a fallback for unreadable lines, date defaults for the parser and the
   latest date; a malformed code raises past every handler (`edifact_extractor.py:153`), a LIN
   without dates goes to Flash, and the last date in file order counts.
8. *Budgets.* `PHASE_2_SPEC.md:253` and `PHASE_4_SPEC.md:383`: 30 s. The Excel call may take 60.5 s, the
   two attempts of a correction do not fit and the second is cut off.
9. *Access log.* `delivery.py:131`: the row already lives in `onramp_access_log`. Nothing inserts there.
   `ULTIMATE_PRD.md:289`: each API status retrieval writes an outbox event; `compliance_attestation.md:15`:
   every GET under a job does. `get_intake_job` and `list_reviews` answer 200 and write none.
10. Also without a run: the conformal score does not sort surcharges as the consensus does
   (`conformal.py:22` and `:60`) and takes nothing but an id from the calibration (`:75`); no caller
   writes the `archived` audit row (`archive.py:62`); an empty port code raises past the handler that
   `excel_extractor.py:510` describes.

## 6. Not modelled, and the plan

Order of what remains:

1. *The Excel extractor's own call and its header search*, and the order of the hard rules R1 to R7,
   as pure functions.
2. *Boot validators*: which failure gives which exit code, in which order.

Left out: the classifier (two outcomes of the first bytes), the port resolver (look-ups in tables
loaded once), clarification (a model call and a filter on its text), whose outcomes are in `Pipeline`
and `Lanes`; and layout of Slack messages, signatures, storage clients, reference loaders, migrations
and deployment, which have no state that the properties could speak of.
