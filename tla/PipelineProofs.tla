--------------------------- MODULE PipelineProofs ---------------------------
(***************************************************************************)
(* Proofs about Pipeline, for any number of jobs, requests and tasks and   *)
(* any set of faults.  That one job has one carrier is not inductive: it   *)
(* holds because a row is inserted once, and because the carrier of a job  *)
(* sits where the job's tables say.  IInv relates the two.                 *)
(***************************************************************************)
EXTENDS Pipeline, TLAPS

Starting(c) == cpc[c] \in {"stage", "enqueue"}

\* The tables of a job that stage s is the next to write.
At(j, s) ==
  /\ slackTo[j] = {}
  /\ \/ /\ s = "classify" /\ job[j] = "pending" /\ output[j] = "none"
        /\ audit[j] = {} /\ events[j] = {}
     \/ /\ s = "extract" /\ job[j] = "extracting" /\ output[j] = "none"
        /\ audit[j] = {"classified"} /\ events[j] = {}
     \/ /\ s = "normalize" /\ job[j] = "normalizing" /\ output[j] = "extracted"
        /\ audit[j] = {"classified", "extracted"} /\ events[j] = {"extracted"}
     \/ /\ s = "validate" /\ job[j] = "validating" /\ output[j] = "normalized"
        /\ audit[j] = {"classified", "extracted", "normalized"}
        /\ events[j] = {"extracted", "normalized"}

Ready(j, s) == At(j, s) /\ (s \in {"classify", "extract"} => j \in staged)

\* Each carrier is where the tables of its job say.
RequestInv == \A c \in Clients :
  /\ Starting(c) => cjob[c] \in Jobs /\ At(cjob[c], "classify")
  /\ cpc[c] = "enqueue" => cjob[c] \in staged
  /\ cpc[c] = "sign" => /\ cjob[c] \in Jobs /\ job[cjob[c]] \in Terminal
                        /\ job[cjob[c]] = "completed" \/ "ambiguous" \in Faults
MessageInv == \A j \in Jobs, s \in Stages : <<j, s>> \in queue => Ready(j, s)
TaskInv == \A w \in Workers :
  /\ wpc[w] # "idle" => wjob[w] \in Jobs
  /\ wpc[w] = "run" => /\ Ready(wjob[w], wstage[w])
                       /\ wchan[w] \in ingress[wjob[w]] \union {NoChannel}
  /\ wpc[w] = "publish" => wstage[w] # "validate" /\ Ready(wjob[w], NextStage(wstage[w]))
  /\ wpc[w] = "recover" => /\ "ambiguous" \in Faults /\ wstage[w] = "validate"
                           /\ job[wjob[w]] = "completed"

\* One carrier per job, pair by pair.
UniqueInv ==
  /\ \A c, d \in Clients : Starting(c) /\ Starting(d) /\ cjob[c] = cjob[d] => c = d
  /\ \A w, v \in Workers : wpc[w] # "idle" /\ wpc[v] # "idle" /\ wjob[w] = wjob[v] => w = v
  /\ \A j \in Jobs : \A s, t \in Stages : <<j, s>> \in queue /\ <<j, t>> \in queue => s = t
  /\ \A c \in Clients, w \in Workers :
       ~(Starting(c) /\ wpc[w] # "idle" /\ cjob[c] = wjob[w])
  /\ \A c \in Clients, s \in Stages : ~(Starting(c) /\ <<cjob[c], s>> \in queue)
  /\ \A w \in Workers, s \in Stages : ~(wpc[w] # "idle" /\ <<wjob[w], s>> \in queue)

\* And one at least, while the job is in flight.
Held(j) == \/ j \in dropped
           \/ \E c \in Clients : Starting(c) /\ cjob[c] = j
           \/ \E s \in Stages : <<j, s>> \in queue
           \/ \E w \in Workers : wpc[w] # "idle" /\ wjob[w] = j
CarriedInv == \A j \in Jobs : InFlight(j) => Held(j)

\* The tables of a job with no row, and of a settled one.
NewInv == \A j \in Jobs : job[j] = "none" =>
  output[j] = "none" /\ audit[j] = {} /\ events[j] = {} /\ slackTo[j] = {}

IInv == /\ TypeOK /\ RequestInv /\ MessageInv /\ TaskInv
        /\ UniqueInv /\ CarriedInv /\ NewInv /\ CompletedIsWhole

-----------------------------------------------------------------------------
\* The initial state: no rows and nobody at work.
LEMMA InitInv == Init => IInv
<1> SUFFICES ASSUME Init PROVE IInv
  OBVIOUS
<1>1. TypeOK
  BY DEF Init, TypeOK, Statuses, Stages
<1>2. RequestInv /\ MessageInv /\ TaskInv
  BY DEF Init, RequestInv, MessageInv, TaskInv, Starting
<1>3. UniqueInv /\ NewInv
  BY DEF Init, UniqueInv, NewInv, Starting
<1>4. CarriedInv /\ CompletedIsWhole
  BY DEF Init, CarriedInv, CompletedIsWhole, InFlight, Held
<1> QED BY <1>1, <1>2, <1>3, <1>4 DEF IInv

\* No step leaves the types.
LEMMA TypeStep == IInv /\ [Next]_vars => TypeOK'
<1> SUFFICES ASSUME IInv, [Next]_vars PROVE TypeOK'
  OBVIOUS
<1> USE PipelineAssumption
<1>0. TypeOK /\ RequestInv /\ TaskInv
  BY DEF IInv
<1> USE DEF tables, clients, workers, SetClient, WorkerTo, WorkerDone, Write, Running
<1>1. ASSUME NEW c \in Clients, NEW j \in Jobs, NEW ch \in Channels, SubmitIntake(c, j, ch)
      PROVE  TypeOK'
  BY <1>0, <1>1 DEF TypeOK, SubmitIntake, InsertJob, Statuses
<1>2. ASSUME NEW c \in Clients, NEW j \in Jobs, SubmitRatesheet(c, j) PROVE TypeOK'
  BY <1>0, <1>2 DEF TypeOK, SubmitRatesheet, InsertJob, Statuses
<1>3. ASSUME NEW c \in Clients, NEW j \in Jobs, CheckCompleted(c, j) PROVE TypeOK'
  BY <1>0, <1>3 DEF TypeOK, CheckCompleted
<1>4. ASSUME NEW c \in Clients, WriteStaging(c) \/ EnqueueChain(c) \/ ApiDies(c) PROVE TypeOK'
  <2>1. cjob[c] \in Jobs
    BY <1>0, <1>4 DEF TypeOK, RequestInv, Starting, WriteStaging, EnqueueChain, ApiDies
  <2> QED BY <1>0, <1>4, <2>1 DEF TypeOK, WriteStaging, EnqueueChain, ApiDies, Stages
<1>5. ASSUME NEW c \in Clients, DeliverResultUrl(c) PROVE TypeOK'
  BY <1>0, <1>5 DEF TypeOK, RequestInv, DeliverResultUrl, Events
<1>6. ASSUME NEW w \in Workers, NEW j \in Jobs, NEW s \in Stages, StartTask(w, j, s) PROVE TypeOK'
  BY <1>0, <1>6 DEF TypeOK, StartTask, RequestedChannels
<1>7. ASSUME NEW w \in Workers, Work(w) PROVE TypeOK'
  <2>1. wjob[w] \in Jobs /\ wstage[w] \in Stages
    BY <1>0, <1>7 DEF TypeOK, TaskInv, Work, Classified, ClassifyRejects, Extracted, Normalized,
                     Validated, StageFails, TaskRaises, WorkerDies, PublishNext
  <2>2. ASSUME Classified(w) PROVE TypeOK'
    BY <1>0, <2>1, <2>2 DEF TypeOK, Classified, Statuses, AuditActions, Stages
  <2>3. ASSUME ClassifyRejects(w) PROVE TypeOK'
    BY <1>0, <2>1, <2>3 DEF TypeOK, ClassifyRejects, Statuses, Terminal, Stages
  <2>4. ASSUME Extracted(w) PROVE TypeOK'
    BY <1>0, <2>1, <2>4 DEF TypeOK, Extracted, Statuses, AuditActions, Events
  <2>5. ASSUME Normalized(w) PROVE TypeOK'
    BY <1>0, <2>1, <2>5 DEF TypeOK, Normalized, Statuses, AuditActions, Events
  <2>6. ASSUME Validated(w) PROVE TypeOK'
    BY <1>0, <2>1, <2>6 DEF TypeOK, Validated, Statuses, Terminal, AuditActions, Events, Stages
  <2>7. ASSUME StageFails(w) PROVE TypeOK'
    BY <1>0, <2>1, <2>7 DEF TypeOK, StageFails, CommitFailure, FailureStage, Statuses, Terminal, FailureStages,
                            AuditActions, Events, Stages
  <2>8. ASSUME TaskRaises(w) \/ WorkerDies(w) PROVE TypeOK'
    BY <1>0, <2>1, <2>8 DEF TypeOK, TaskRaises, WorkerDies, Stages
  <2>9. ASSUME PublishNext(w) PROVE TypeOK'
    BY <1>0, <2>1, <2>9 DEF TypeOK, PublishNext, NextStage, Stages
  <2> QED BY <1>7, <2>2, <2>3, <2>4, <2>5, <2>6, <2>7, <2>8, <2>9 DEF Work
<1>8. CASE UNCHANGED vars
  BY <1>0, <1>8 DEF TypeOK, vars
<1> QED BY <1>1, <1>2, <1>3, <1>4, <1>5, <1>6, <1>7, <1>8 DEF Next, Request, Serve, Take

\* One carrier: an insert needs the row to be new, and every other step moves a
\* carrier on or lets it go.
LEMMA UniqueStep == IInv /\ [Next]_vars => UniqueInv'
<1> SUFFICES ASSUME IInv, [Next]_vars PROVE UniqueInv'
  OBVIOUS
<1>0. TypeOK /\ RequestInv /\ MessageInv /\ TaskInv /\ UniqueInv
  BY DEF IInv
<1> USE DEF tables, clients, workers, SetClient, WorkerTo, WorkerDone, Starting
<1>1. ASSUME NEW c \in Clients, NEW j \in Jobs, InsertJob(c, j), cpc[c] = "idle",
             UNCHANGED <<queue, workers>>
      PROVE  UniqueInv'
  <2>1. CASE job[j] = "none"
    <3>1. /\ \A d \in Clients : Starting(d) => cjob[d] # j
          /\ \A s \in Stages : <<j, s>> \notin queue
          /\ \A w \in Workers : wpc[w] # "idle" => wjob[w] # j
      <4>1. \A s : ~At(j, s)
        BY <2>1 DEF At
      <4> QED BY <1>0, <2>1, <4>1 DEF TypeOK, RequestInv, MessageInv, TaskInv, Ready
    <3>2. /\ UNCHANGED <<queue, workers>> /\ cpc' = [cpc EXCEPT ![c] = "stage"]
          /\ cjob' = [cjob EXCEPT ![c] = j]
      BY <1>1, <2>1 DEF InsertJob
    <3> QED BY ONLY <1>0, <3>1, <3>2, c \in Clients, j \in Jobs
            DEF TypeOK, UniqueInv, Starting, workers
  <2>2. CASE job[j] # "none"
    BY <1>0, <1>1, <2>2 DEF UniqueInv, InsertJob
  <2> QED BY <2>1, <2>2
<1>2. ASSUME NEW c \in Clients, NEW j \in Jobs, CheckCompleted(c, j) PROVE UniqueInv'
  BY <1>0, <1>2 DEF TypeOK, UniqueInv, CheckCompleted
<1>3. ASSUME NEW c \in Clients, WriteStaging(c) \/ ApiDies(c) \/ DeliverResultUrl(c)
      PROVE  UniqueInv'
  <2>1. CASE WriteStaging(c)
    BY <1>0, <2>1 DEF TypeOK, UniqueInv, WriteStaging
  <2>2. CASE ApiDies(c)
    BY <1>0, <2>2 DEF TypeOK, UniqueInv, ApiDies
  <2>3. CASE DeliverResultUrl(c)
    BY <1>0, <2>3 DEF TypeOK, UniqueInv, DeliverResultUrl
  <2> QED BY <1>3, <2>1, <2>2, <2>3
<1>4. ASSUME NEW c \in Clients, EnqueueChain(c) PROVE UniqueInv'
  BY <1>0, <1>4 DEF TypeOK, UniqueInv, EnqueueChain
<1>5. ASSUME NEW w \in Workers, NEW j \in Jobs, NEW s \in Stages, StartTask(w, j, s)
      PROVE  UniqueInv'
  BY <1>0, <1>5 DEF TypeOK, UniqueInv, StartTask
<1>6. ASSUME NEW w \in Workers, PublishNext(w) PROVE UniqueInv'
  BY <1>0, <1>6 DEF TypeOK, TaskInv, UniqueInv, PublishNext
<1>7. ASSUME NEW w \in Workers, Work(w), ~PublishNext(w) PROVE UniqueInv'
  <2>1. UNCHANGED <<queue, clients>> /\ wpc[w] # "idle" /\ (WorkerDone(w) \/ \E pc : pc # "idle" /\ WorkerTo(w, pc))
    BY <1>7 DEF Work, Classified, ClassifyRejects, Extracted, Normalized, Validated, StageFails,
                TaskRaises, WorkerDies, Running
  <2>2. \A v \in Workers : wpc'[v] # "idle" => wpc[v] # "idle" /\ wjob'[v] = wjob[v]
    <3>1. CASE WorkerDone(w)
      BY <1>0, <3>1 DEF TypeOK
    <3>2. ASSUME NEW pc, pc # "idle", WorkerTo(w, pc)
          PROVE  \A v \in Workers : wpc'[v] # "idle" => wpc[v] # "idle" /\ wjob'[v] = wjob[v]
      BY <1>0, <2>1, <3>2 DEF TypeOK
    <3> QED BY <2>1, <3>1, <3>2
  <2> QED BY ONLY <1>0, <2>1, <2>2 DEF UniqueInv, Starting, clients
<1>8. CASE UNCHANGED vars
  BY <1>0, <1>8 DEF UniqueInv, vars
<1>9. ASSUME NEW c \in Clients, NEW j \in Jobs,
             SubmitRatesheet(c, j) \/ \E ch \in Channels : SubmitIntake(c, j, ch)
      PROVE  UniqueInv'
  BY <1>1, <1>9 DEF SubmitIntake, SubmitRatesheet
<1>10. ASSUME NEW w \in Workers, Work(w) PROVE UniqueInv'
  BY <1>6, <1>7, <1>10
<1>11. CASE \E c \in Clients : Request(c) \/ Serve(c)
  BY <1>2, <1>3, <1>4, <1>9, <1>11 DEF Request, Serve
<1>12. CASE \E w \in Workers : Take(w) \/ Work(w)
  BY <1>5, <1>10, <1>12 DEF Take
<1> QED BY <1>8, <1>11, <1>12 DEF Next

\* One carrier at least: a carrier that goes leaves its job settled, dropped, or
\* to the carrier it makes.
LEMMA CarriedStep == IInv /\ [Next]_vars => CarriedInv'
<1> SUFFICES ASSUME IInv, [Next]_vars PROVE CarriedInv'
  OBVIOUS
<1>0. TypeOK /\ RequestInv /\ MessageInv /\ TaskInv /\ CarriedInv
  BY DEF IInv
<1> USE DEF tables, clients, workers, SetClient, WorkerTo, WorkerDone
<1>1. ASSUME NEW k \in Jobs, \A j \in Jobs \ {k} : Held(j) => Held(j)',
             \A j \in Jobs \ {k} : InFlight(j)' => InFlight(j),
             InFlight(k)' => Held(k)'
      PROVE  CarriedInv'
  BY <1>0, <1>1 DEF CarriedInv
<1>2. ASSUME NEW c \in Clients, NEW j \in Jobs, InsertJob(c, j), cpc[c] = "idle",
             UNCHANGED <<queue, workers, dropped>>
      PROVE  CarriedInv'
  <2>1. CASE job[j] = "none"
    <3>1. \A i \in Jobs \ {j} : Held(i) => Held(i)'
      BY <1>0, <1>2, <2>1 DEF TypeOK, Held, InsertJob, Starting
    <3>2. \A i \in Jobs \ {j} : InFlight(i)' => InFlight(i)
      BY <1>0, <1>2, <2>1 DEF TypeOK, InFlight, InsertJob
    <3>3. Held(j)'
      BY <1>0, <1>2, <2>1 DEF TypeOK, Held, InsertJob, Starting
    <3> QED BY <1>1, <3>1, <3>2, <3>3
  <2>2. CASE job[j] # "none"
    BY <1>0, <1>2, <2>2 DEF CarriedInv, InFlight, Held, Starting, InsertJob
  <2> QED BY <2>1, <2>2
<1>3. ASSUME NEW c \in Clients, NEW j \in Jobs,
             SubmitRatesheet(c, j) \/ \E ch \in Channels : SubmitIntake(c, j, ch)
      PROVE  CarriedInv'
  BY <1>2, <1>3 DEF SubmitIntake, SubmitRatesheet
<1>4. ASSUME NEW c \in Clients, Serve(c) \/ \E j \in Jobs : CheckCompleted(c, j)
      PROVE  CarriedInv'
  <2>1. \A j \in Jobs : InFlight(j)' => InFlight(j)
    BY <1>4 DEF InFlight, Serve, WriteStaging, EnqueueChain, ApiDies, DeliverResultUrl,
                CheckCompleted
  <2>2. CASE WriteStaging(c)
    <3>1. \A j \in Jobs : Held(j) => Held(j)'
      BY <1>0, <2>2 DEF TypeOK, Held, WriteStaging, Starting
    <3> QED BY <1>0, <2>1, <3>1 DEF CarriedInv
  <2>3. CASE EnqueueChain(c)
    <3>1. \A j \in Jobs : Held(j) => Held(j)'
      BY <1>0, <2>3 DEF TypeOK, Held, EnqueueChain, Starting, Stages
    <3> QED BY <1>0, <2>1, <3>1 DEF CarriedInv
  <2>4. CASE ApiDies(c)
    <3>1. \A j \in Jobs : Held(j) => Held(j)'
      BY <1>0, <2>4 DEF TypeOK, Held, ApiDies, Starting
    <3> QED BY <1>0, <2>1, <3>1 DEF CarriedInv
  <2>5. CASE DeliverResultUrl(c) \/ \E j \in Jobs : CheckCompleted(c, j)
    <3>1. \A j \in Jobs : Held(j) => Held(j)'
      <4>1. CASE DeliverResultUrl(c)
        BY <1>0, <4>1 DEF TypeOK, Held, DeliverResultUrl, Starting
      <4>2. CASE \E j \in Jobs : CheckCompleted(c, j)
        BY <1>0, <4>2 DEF TypeOK, Held, CheckCompleted, Starting
      <4> QED BY <2>5, <4>1, <4>2
    <3> QED BY <1>0, <2>1, <3>1 DEF CarriedInv
  <2> QED BY <1>4, <2>2, <2>3, <2>4, <2>5 DEF Serve
<1>5. ASSUME NEW w \in Workers, NEW j \in Jobs, NEW s \in Stages, StartTask(w, j, s)
      PROVE  CarriedInv'
  <2>1. \A i \in Jobs : Held(i) => Held(i)'
    BY <1>0, <1>5 DEF TypeOK, Held, StartTask, Starting
  <2> QED BY <1>0, <1>5, <2>1 DEF CarriedInv, InFlight, StartTask
<1>6. ASSUME NEW w \in Workers, Work(w) PROVE CarriedInv'
  <2>1. wpc[w] # "idle" /\ wjob[w] \in Jobs /\ UNCHANGED clients
    BY <1>0, <1>6 DEF TypeOK, TaskInv, Work, Classified, ClassifyRejects, Extracted, Normalized,
                     Validated, StageFails, TaskRaises, WorkerDies, PublishNext, Running
  <2>2. queue \subseteq queue' /\ dropped \subseteq dropped'
    BY <1>6 DEF Work, Classified, ClassifyRejects, Extracted, Normalized, Validated, StageFails,
                TaskRaises, WorkerDies, PublishNext
  <2>3. WorkerDone(w) \/ \E pc : pc # "idle" /\ WorkerTo(w, pc)
    BY <1>6 DEF Work, Classified, ClassifyRejects, Extracted, Normalized, Validated, StageFails,
                TaskRaises, WorkerDies, PublishNext
  <2>4. UNCHANGED job \/ \E s : job' = [job EXCEPT ![wjob[w]] = s]
    BY <1>6 DEF Work, Classified, ClassifyRejects, Extracted, Normalized, Validated, StageFails,
                TaskRaises, WorkerDies, PublishNext, Write, CommitFailure
  <2>5. PICK k \in Jobs : k = wjob[w]
    BY <2>1
  <2>6. \A j \in Jobs \ {k} : Held(j) => Held(j)'
    BY <1>0, <2>1, <2>5, <2>2, <2>3 DEF TypeOK, Held, Starting
  <2>7. \A j \in Jobs \ {k} : InFlight(j)' => InFlight(j)
    BY <1>0, <2>1, <2>5, <2>4 DEF TypeOK, InFlight
  <2>8. ASSUME InFlight(k)' PROVE Held(k)'
    <3>1. CASE Classified(w) \/ Extracted(w) \/ Normalized(w)
      <4>1. wjob'[w] = k /\ wpc'[w] = "publish"
        BY <1>0, <2>5, <3>1 DEF TypeOK, Classified, Extracted, Normalized
      <4>2. wpc'[w] # "idle"
        BY <4>1
      <4> QED BY <4>1, <4>2, <1>6 DEF Held
    <3>2. CASE ClassifyRejects(w) \/ Validated(w) \/ StageFails(w)
      <4>1. job'[k] \in Terminal
        BY <1>0, <2>1, <2>5, <3>2
        DEF TypeOK, ClassifyRejects, Validated, StageFails, CommitFailure, Write, Terminal
      <4> QED BY <2>8, <4>1 DEF InFlight
    <3>3. CASE TaskRaises(w) \/ WorkerDies(w)
      <4>1. wpc[w] = "run" => HasInput(wjob[w], wstage[w])
        BY <1>0 DEF TypeOK, TaskInv, Ready, At, HasInput, Stages
      <4>2. k \in dropped'
        BY <2>5, <3>3, <4>1 DEF TaskRaises, WorkerDies
      <4> QED BY <4>2 DEF Held
    <3>4. CASE PublishNext(w)
      <4>1. NextStage(wstage[w]) \in Stages
        BY <1>0 DEF TypeOK, NextStage, Stages
      <4>2. <<k, NextStage(wstage[w])>> \in queue'
        BY <2>5, <3>4 DEF PublishNext
      <4> QED BY <4>1, <4>2 DEF Held
    <3> QED BY <1>6, <3>1, <3>2, <3>3, <3>4 DEF Work
  <2> QED BY <1>1, <2>6, <2>7, <2>8
<1>7. CASE UNCHANGED vars
  BY <1>0, <1>7 DEF CarriedInv, InFlight, Held, Starting, vars
<1>8. CASE \E c \in Clients : Request(c) \/ Serve(c)
  BY <1>3, <1>4, <1>8 DEF Request
<1>9. CASE \E w \in Workers : Take(w) \/ Work(w)
  BY <1>5, <1>6, <1>9 DEF Take
<1> QED BY <1>7, <1>8, <1>9 DEF Next

\* The rows of job i are left alone, but for another ingress_received row.
Same(i) == /\ job'[i] = job[i] /\ output'[i] = output[i] /\ audit'[i] = audit[i]
           /\ events'[i] = events[i] /\ slackTo'[i] = slackTo[i]
           /\ ingress[i] \subseteq ingress'[i]

CarrierInv == RequestInv /\ MessageInv /\ TaskInv

\* What the API does: it touches the rows of a job only when they are new, or to
\* record the delivery of a settled job.
LEMMA ApiCarriers == IInv /\ (\E c \in Clients : Request(c) \/ Serve(c)) => CarrierInv'
<1> SUFFICES ASSUME IInv, NEW c \in Clients, Request(c) \/ Serve(c) PROVE CarrierInv'
  OBVIOUS
<1>0. TypeOK /\ RequestInv /\ MessageInv /\ TaskInv /\ UniqueInv /\ NewInv
  BY DEF IInv
<1> USE DEF tables, clients, workers, SetClient
<1>1. ASSUME NEW j \in Jobs, InsertJob(c, j), cpc[c] = "idle", \A i \in Jobs \ {j} : Same(i),
             ingress[j] \subseteq ingress'[j],
             UNCHANGED <<output, events, slackTo, audit, staged, queue, workers>>
      PROVE  CarrierInv'
  <2>1. CASE job[j] = "none"
    <3>1. \A s : ~At(j, s)
      BY <2>1 DEF At
    <3>2. /\ \A d \in Clients : Starting(d) => cjob[d] # j
          /\ \A s \in Stages : <<j, s>> \notin queue
          /\ \A w \in Workers : wpc[w] # "idle" => wjob[w] # j
      BY <1>0, <2>1, <3>1 DEF TypeOK, RequestInv, MessageInv, TaskInv, Ready
    <3>3. At(j, "classify")'
      BY <1>0, <1>1, <2>1 DEF TypeOK, NewInv, At, InsertJob
    <3>4. RequestInv'
      BY <1>0, <1>1, <2>1, <3>2, <3>3 DEF TypeOK, RequestInv, Starting, At, Same, InsertJob, Terminal
    <3>5. MessageInv'
      BY <1>0, <1>1, <2>1, <3>2 DEF TypeOK, MessageInv, Ready, At, Same
    <3>6. TaskInv'
      BY <1>0, <1>1, <2>1, <3>2 DEF TypeOK, TaskInv, Ready, At, Same, InsertJob
    <3> QED BY <3>4, <3>5, <3>6 DEF CarrierInv
  <2>2. CASE job[j] # "none"
    <3>1. UNCHANGED <<job, clients>>
      BY <1>1, <2>2 DEF InsertJob
    <3>2. RequestInv' /\ MessageInv'
      BY <1>0, <1>1, <3>1 DEF RequestInv, MessageInv, Ready, At, Starting
    <3>3. \A i \in Jobs : \A s : Ready(i, s) => Ready(i, s)'
      BY <1>1, <3>1 DEF Ready, At
    <3>4. \A i \in Jobs : ingress[i] \subseteq ingress'[i]
      BY <1>1 DEF Same
    <3>5. TaskInv'
      BY <1>0, <1>1, <3>1, <3>3, <3>4 DEF TypeOK, TaskInv
    <3> QED BY <3>2, <3>5 DEF CarrierInv
  <2> QED BY <2>1, <2>2
<1>2. ASSUME NEW j \in Jobs,
             SubmitRatesheet(c, j) \/ \E ch \in Channels : SubmitIntake(c, j, ch)
      PROVE  CarrierInv'
  <2>1. \A i \in Jobs \ {j} : Same(i)
    BY <1>0, <1>2 DEF TypeOK, Same, SubmitRatesheet, SubmitIntake, InsertJob
  <2>2. ingress[j] \subseteq ingress'[j]
    BY <1>0, <1>2 DEF TypeOK, SubmitRatesheet, SubmitIntake
  <2> QED BY <1>1, <1>2, <2>1, <2>2 DEF SubmitRatesheet, SubmitIntake
<1>3. CASE WriteStaging(c) \/ ApiDies(c) \/ \E j \in Jobs : CheckCompleted(c, j)
  <2>1. RequestInv'
    BY <1>0, <1>3 DEF TypeOK, RequestInv, WriteStaging, ApiDies, CheckCompleted, Starting, At, Terminal
  <2>2. \A i \in Jobs : \A s : Ready(i, s) => Ready(i, s)'
    BY <1>3 DEF WriteStaging, ApiDies, CheckCompleted, Ready, At
  <2>3. UNCHANGED <<job, ingress, queue, workers>>
    BY <1>3 DEF WriteStaging, ApiDies, CheckCompleted
  <2>4. MessageInv' /\ TaskInv'
    BY <1>0, <2>2, <2>3 DEF TypeOK, MessageInv, TaskInv
  <2> QED BY <2>1, <2>4 DEF CarrierInv
<1>4. CASE EnqueueChain(c)
  <2>1. RequestInv' /\ TaskInv'
    BY <1>0, <1>4 DEF TypeOK, RequestInv, TaskInv, EnqueueChain, Starting, Ready, At
  <2>2. MessageInv'
    BY <1>0, <1>4 DEF RequestInv, MessageInv, EnqueueChain, Starting, Ready, At
  <2> QED BY <2>1, <2>2 DEF CarrierInv
<1>5. CASE DeliverResultUrl(c)
  <2>1. PICK k \in Jobs : k = cjob[c] /\ job[k] \in Terminal
    BY <1>0, <1>5 DEF RequestInv, DeliverResultUrl
  <2>2. \A s : ~At(k, s)
    BY <2>1 DEF At, Terminal
  <2>3. /\ UNCHANGED job
        /\ \A i \in Jobs \ {k} : Same(i)
    BY <1>0, <1>5, <2>1 DEF TypeOK, Same, DeliverResultUrl
  <2>4. \A i \in Jobs : \A s : At(i, s) => At(i, s)'
    BY <2>2, <2>3 DEF At, Same
  <2>5. \A i \in Jobs : \A s : Ready(i, s) => Ready(i, s)'
    BY <1>5, <2>4 DEF Ready, DeliverResultUrl
  <2>6. RequestInv'
    BY <1>0, <1>5, <2>3, <2>4 DEF TypeOK, RequestInv, DeliverResultUrl, Starting
  <2>7. MessageInv' /\ TaskInv'
    BY <1>0, <1>5, <2>3, <2>5 DEF TypeOK, MessageInv, TaskInv, DeliverResultUrl
  <2> QED BY <2>6, <2>7 DEF CarrierInv
<1> QED BY <1>2, <1>3, <1>4, <1>5 DEF Request, Serve
\* Taking a message and passing one on write no table.
LEMMA MessageCarriers ==
  ASSUME IInv, NEW w \in Workers, Take(w) \/ PublishNext(w) \/ TaskRaises(w) \/ WorkerDies(w)
  PROVE  CarrierInv'
<1>0. TypeOK /\ RequestInv /\ MessageInv /\ TaskInv
  BY DEF IInv
<1> USE DEF tables, clients, workers, WorkerDone
<1>1. UNCHANGED <<tables, staged, clients>>
  BY DEF Take, StartTask, PublishNext, TaskRaises, WorkerDies
<1>2. \A i \in Jobs : \A s : Ready(i, s) => Ready(i, s)'
  BY <1>1 DEF Ready, At
<1>3. RequestInv'
  BY <1>0, <1>1 DEF RequestInv, Starting, At
<1>4. CASE Take(w)
  <2>1. PICK j \in Jobs, s \in Stages : StartTask(w, j, s)
    BY <1>4 DEF Take
  <2>2. Ready(j, s)
    BY <1>0, <2>1 DEF MessageInv, StartTask
  <2>3. wchan'[w] \in ingress[j] \union {NoChannel}
    BY <1>0, <2>1 DEF TypeOK, StartTask, RequestedChannels
  <2>4. MessageInv'
    BY <1>0, <1>2, <2>1 DEF MessageInv, StartTask
  <2>5. TaskInv'
    BY <1>0, <1>1, <1>2, <2>1, <2>2, <2>3 DEF TypeOK, TaskInv, StartTask
  <2> QED BY <1>3, <2>4, <2>5 DEF CarrierInv
<1>5. CASE PublishNext(w)
  <2>1. PICK j \in Jobs : j = wjob[w]
    BY <1>0, <1>5 DEF TaskInv, PublishNext
  <2>2. PICK t : t = NextStage(wstage[w])
    OBVIOUS
  <2>3. Ready(j, t)
    BY <1>0, <1>5, <2>1, <2>2 DEF TaskInv, PublishNext
  <2>4. MessageInv'
    BY <1>0, <1>2, <1>5, <2>1, <2>2, <2>3 DEF MessageInv, PublishNext
  <2>5. TaskInv'
    BY <1>0, <1>1, <1>2, <1>5 DEF TypeOK, TaskInv, PublishNext
  <2> QED BY <1>3, <2>4, <2>5 DEF CarrierInv
<1>6. CASE TaskRaises(w) \/ WorkerDies(w)
  <2>1. MessageInv'
    BY <1>0, <1>2, <1>6 DEF MessageInv, TaskRaises, WorkerDies
  <2>2. TaskInv'
    BY <1>0, <1>1, <1>2, <1>6 DEF TypeOK, TaskInv, TaskRaises, WorkerDies
  <2> QED BY <1>3, <2>1, <2>2 DEF CarrierInv
<1> QED BY <1>4, <1>5, <1>6

\* The end of a stage: the rows of the job move on to where the task goes next.
Commits(w) == Classified(w) \/ ClassifyRejects(w) \/ Extracted(w) \/ Normalized(w)
                \/ Validated(w) \/ StageFails(w)

\* A stage writes the rows of its own job only, which nothing else carries.
LEMMA CommitFrame ==
  ASSUME IInv, NEW w \in Workers, Commits(w)
  PROVE  /\ wjob[w] \in Jobs /\ wpc[w] # "idle"
         /\ \A i \in Jobs \ {wjob[w]} : Same(i)
         /\ \A d \in Clients : Starting(d) => cjob[d] # wjob[w]
         /\ \A s \in Stages : <<wjob[w], s>> \notin queue
         /\ \A v \in Workers \ {w} : wpc[v] # "idle" => wjob[v] # wjob[w]
         /\ UNCHANGED <<ingress, staged, queue, clients, dropped>>
<1>0. TypeOK /\ TaskInv /\ UniqueInv
  BY DEF IInv
<1> USE DEF Commits, Classified, ClassifyRejects, Extracted, Normalized, Validated, StageFails,
            CommitFailure, Write, Running
<1>1. wjob[w] \in Jobs /\ wpc[w] # "idle"
  BY <1>0 DEF TaskInv
<1>2. UNCHANGED <<ingress, staged, queue, clients, dropped>>
  OBVIOUS
<1>3. /\ \E x : job' = [job EXCEPT ![wjob[w]] = x]
      /\ \E x : audit' = [audit EXCEPT ![wjob[w]] = x]
      /\ \E x : events' = [events EXCEPT ![wjob[w]] = x]
  OBVIOUS
<1>4. /\ UNCHANGED output \/ \E x : output' = [output EXCEPT ![wjob[w]] = x]
      /\ UNCHANGED slackTo \/ \E x : slackTo' = [slackTo EXCEPT ![wjob[w]] = x]
  OBVIOUS
<1> USE DEF Same
<1>5. \A i \in Jobs \ {wjob[w]} : Same(i)
  BY ONLY <1>0, <1>1, <1>2, <1>3, <1>4 DEF TypeOK, Same
<1>6. /\ \A d \in Clients : Starting(d) => cjob[d] # wjob[w]
      /\ \A s \in Stages : <<wjob[w], s>> \notin queue
      /\ \A v \in Workers \ {w} : wpc[v] # "idle" => wjob[v] # wjob[w]
  BY ONLY <1>0, <1>1, w \in Workers DEF UniqueInv
<1> QED BY ONLY <1>1, <1>2, <1>5, <1>6

\* After its stage the job is ready for the next one, or settled.
LEMMA CommitResult ==
  ASSUME IInv, NEW w \in Workers, Commits(w), NEW k \in Jobs, k = wjob[w]
  PROVE  \/ /\ WorkerTo(w, "publish") /\ wstage[w] # "validate"
            /\ Ready(k, NextStage(wstage[w]))'
         \/ WorkerDone(w) /\ job'[k] \in Terminal
         \/ /\ WorkerTo(w, "recover") /\ wstage[w] = "validate" /\ "ambiguous" \in Faults
            /\ job'[k] = "completed"
<1>0. TypeOK /\ TaskInv
  BY DEF IInv
<1>1. CASE Classified(w)
  <2>1. At(k, "classify") /\ wstage[w] = "classify" /\ k \in staged
    BY <1>0, <1>1 DEF TaskInv, Classified, Running, Ready
  <2>2. At(k, "extract")' /\ k \in staged'
    BY <1>0, <1>1, <2>1 DEF TypeOK, At, Classified, Write
  <2> QED BY <1>1, <2>1, <2>2 DEF Classified, Ready, NextStage, WorkerTo
<1>2. CASE Extracted(w)
  <2>1. At(k, "extract") /\ wstage[w] = "extract"
    BY <1>0, <1>2 DEF TaskInv, Extracted, Running, Ready
  <2>2. At(k, "normalize")'
    BY <1>0, <1>2, <2>1 DEF TypeOK, At, Extracted, Write
  <2> QED BY <1>2, <2>1, <2>2 DEF Extracted, Ready, NextStage, WorkerTo
<1>3. CASE Normalized(w)
  <2>1. At(k, "normalize") /\ wstage[w] = "normalize"
    BY <1>0, <1>3 DEF TaskInv, Normalized, Running, Ready
  <2>2. At(k, "validate")'
    BY <1>0, <1>3, <2>1 DEF TypeOK, At, Normalized, Write
  <2> QED BY <1>3, <2>1, <2>2 DEF Normalized, Ready, NextStage, WorkerTo
<1>4. CASE ClassifyRejects(w) \/ Validated(w) \/ StageFails(w)
  BY <1>0, <1>4 DEF TypeOK, ClassifyRejects, Validated, StageFails, CommitFailure, Write, Running,
                    Terminal
<1> QED BY <1>1, <1>2, <1>3, <1>4 DEF Commits

\* The carriers of the other jobs are as they were, the task is where its job is.
LEMMA CommitCarriers == ASSUME IInv, NEW w \in Workers, Commits(w) PROVE CarrierInv'
<1>0. TypeOK /\ RequestInv /\ MessageInv /\ TaskInv
  BY DEF IInv
<1>1. PICK k \in Jobs : k = wjob[w]
  BY CommitFrame
<1>2. /\ \A i \in Jobs \ {k} : Same(i)
      /\ \A d \in Clients : Starting(d) => cjob[d] # k
      /\ \A s \in Stages : <<k, s>> \notin queue
      /\ \A v \in Workers \ {w} : wpc[v] # "idle" => wjob[v] # k
      /\ UNCHANGED <<ingress, staged, queue, clients>>
  BY <1>1, CommitFrame
<1>3. \A i \in Jobs \ {k} : \A s : At(i, s) => At(i, s)'
  BY <1>2 DEF Same, At
<1>4. \A i \in Jobs \ {k} : \A s : Ready(i, s) => Ready(i, s)'
  BY <1>2, <1>3 DEF Ready
<1>5. \A i \in Jobs \ {k} : job'[i] = job[i]
  BY <1>2 DEF Same
<1>6. job[k] \in Terminal => job[k] = "completed" /\ "ambiguous" \in Faults
  BY <1>0, <1>1, CommitFrame DEF TypeOK, TaskInv, Ready, At, Terminal
<1>7. job'[k] \in Terminal \/ job[k] \notin Terminal
  BY <1>0, <1>1 DEF TypeOK, TaskInv, Ready, At, Terminal, Commits, Classified, ClassifyRejects,
       Extracted, Normalized, Validated, StageFails, CommitFailure, Write, Running
<1>8. RequestInv'
  BY <1>0, <1>2, <1>3, <1>5, <1>6, <1>7 DEF RequestInv, Starting, clients
<1>9. MessageInv'
  BY <1>0, <1>2, <1>4 DEF MessageInv
<1>10. TaskInv'
  BY <1>0, <1>1, <1>2, <1>4, <1>5, CommitResult DEF TypeOK, TaskInv, WorkerDone, WorkerTo
<1> QED BY <1>8, <1>9, <1>10 DEF CarrierInv
\* The three kinds of steps together.
LEMMA CarrierStep == IInv /\ [Next]_vars => CarrierInv'
<1> SUFFICES ASSUME IInv, [Next]_vars PROVE CarrierInv'
  OBVIOUS
<1>1. CASE \E c \in Clients : Request(c) \/ Serve(c)
  BY <1>1, ApiCarriers
<1>2. ASSUME NEW w \in Workers, Take(w) \/ Work(w) PROVE CarrierInv'
  BY <1>2, MessageCarriers, CommitCarriers DEF Work, Commits
<1>3. CASE UNCHANGED vars
  <2>1. TypeOK /\ RequestInv /\ MessageInv /\ TaskInv
    BY DEF IInv
  <2> USE DEF vars, tables, clients, workers
  <2>2. \A i, s : Ready(i, s) => Ready(i, s)'
    BY <1>3 DEF Ready, At
  <2>3. RequestInv'
    BY <1>3, <2>1 DEF RequestInv, Starting, At
  <2>4. MessageInv' /\ TaskInv'
    BY <1>3, <2>1, <2>2 DEF MessageInv, TaskInv
  <2> QED BY <2>3, <2>4 DEF CarrierInv
<1> QED BY <1>1, <1>2, <1>3 DEF Next

\* The rows of a job that does not exist, and of one that completed.
LEMMA RowsStep == IInv /\ [Next]_vars => NewInv' /\ CompletedIsWhole'
<1> SUFFICES ASSUME IInv, [Next]_vars PROVE NewInv' /\ CompletedIsWhole'
  OBVIOUS
<1>0. TypeOK /\ RequestInv /\ TaskInv /\ NewInv /\ CompletedIsWhole
  BY DEF IInv
<1> USE DEF tables
<1>1. ASSUME NEW c \in Clients, NEW j \in Jobs,
             SubmitRatesheet(c, j) \/ \E ch \in Channels : SubmitIntake(c, j, ch)
      PROVE  NewInv' /\ CompletedIsWhole'
  <2>1. /\ UNCHANGED job \/ job' = [job EXCEPT ![j] = "pending"]
        /\ UNCHANGED <<output, events, slackTo, audit>>
        /\ \A i \in Jobs : ingress[i] \subseteq ingress'[i]
    BY <1>0, <1>1 DEF TypeOK, SubmitRatesheet, SubmitIntake, InsertJob
  <2> QED BY <1>0, <2>1 DEF TypeOK, NewInv, CompletedIsWhole
<1>2. ASSUME NEW c \in Clients, DeliverResultUrl(c) PROVE NewInv' /\ CompletedIsWhole'
  <2>1. cjob[c] \in Jobs /\ job[cjob[c]] \in Terminal
    BY <1>0, <1>2 DEF RequestInv, DeliverResultUrl
  <2>2. NewInv'
    BY <1>0, <1>2, <2>1 DEF TypeOK, NewInv, DeliverResultUrl, Terminal
  <2>3. \A i \in Jobs : events[i] \subseteq events'[i]
    BY <1>0, <1>2 DEF TypeOK, DeliverResultUrl
  <2>4. UNCHANGED <<job, output, audit, slackTo, ingress>>
    BY <1>2 DEF DeliverResultUrl
  <2>5. CompletedIsWhole'
    BY <1>0, <2>3, <2>4 DEF CompletedIsWhole
  <2> QED BY <2>2, <2>5
<1>3. ASSUME NEW w \in Workers, Commits(w) PROVE NewInv' /\ CompletedIsWhole'
  <2>1. PICK k \in Jobs : k = wjob[w]
    BY <1>3, CommitFrame
  <2>2. \A i \in Jobs \ {k} : Same(i)
    BY <1>3, <2>1, CommitFrame
  <2>3. job'[k] # "none"
    BY <1>0, <1>3, <2>1 DEF TypeOK, Commits, Classified, ClassifyRejects, Extracted, Normalized,
                            Validated, StageFails, CommitFailure, Write
  <2>4. ASSUME job'[k] = "completed"
        PROVE  /\ output'[k] = "validated"
               /\ audit'[k] = {"classified", "extracted", "normalized", "validated"}
               /\ {"extracted", "normalized", "validated", "slack_post", "upload_result"}
                    \subseteq events'[k]
               /\ wchan[w] \in ingress'[k] /\ slackTo'[k] = {wchan[w]}
    <3>1. Validated(w)
      BY <1>0, <1>3, <2>1, <2>4 DEF TypeOK, Commits, Classified, ClassifyRejects, Extracted,
                                    Normalized, StageFails, CommitFailure, Write
    <3>2. At(k, "validate") /\ wchan[w] \in ingress[k]
      BY <1>0, <2>1, <3>1 DEF TaskInv, Ready, Validated, Running
    <3> QED BY <1>0, <2>1, <3>1, <3>2 DEF TypeOK, At, Validated, Write
  <2>5. NewInv'
    BY <1>0, <2>2, <2>3 DEF NewInv, Same
  <2>6. CompletedIsWhole'
    BY <1>0, <2>2, <2>4 DEF CompletedIsWhole, Same
  <2> QED BY <2>5, <2>6
<1>4. ASSUME UNCHANGED tables PROVE NewInv' /\ CompletedIsWhole'
  BY <1>0, <1>4 DEF NewInv, CompletedIsWhole
<1>5. CASE \E c \in Clients : Request(c) \/ Serve(c)
  BY <1>1, <1>2, <1>4, <1>5 DEF Request, Serve, WriteStaging, EnqueueChain, ApiDies, CheckCompleted
<1>6. CASE \E w \in Workers : Take(w) \/ Work(w)
  BY <1>3, <1>4, <1>6 DEF Take, StartTask, Work, Commits, TaskRaises, WorkerDies, PublishNext
<1>7. CASE UNCHANGED vars
  BY <1>4, <1>7 DEF vars
<1> QED BY <1>5, <1>6, <1>7 DEF Next

-----------------------------------------------------------------------------
\* IInv holds whatever the sizes and the faults.
THEOREM Invariance == Spec => []IInv
<1>1. Init => IInv
  BY InitInv
<1>2. IInv /\ [Next]_vars => IInv'
  BY TypeStep, UniqueStep, CarriedStep, CarrierStep, RowsStep DEF IInv, CarrierInv
<1> QED BY <1>1, <1>2, PTL DEF Spec

\* Every table, message, request and task keeps its type.
THEOREM TypeCorrect == Spec => []TypeOK
<1>1. IInv => TypeOK
  BY DEF IInv
<1> QED BY <1>1, Invariance, PTL

\* However submissions of the same bytes race, and whatever dies, a job has one
\* chain: insert_job_if_new is enough.
THEOREM SingleChain == Spec => []OneChainPerJob
<1>1. ASSUME IInv PROVE OneChainPerJob
  <2>1. UniqueInv
    BY <1>1 DEF IInv
  <2> SUFFICES ASSUME NEW j \in Jobs, NEW a \in Carriers(j), NEW b \in Carriers(j) PROVE a = b
    BY DEF OneChainPerJob
  <2>2. ASSUME NEW x \in Carriers(j)
        PROVE  \/ \E c \in Clients : x = <<"request", c>> /\ Starting(c) /\ cjob[c] = j
               \/ \E s \in Stages : x = <<"message", s>> /\ <<j, s>> \in queue
               \/ \E w \in Workers : x = <<"task", w>> /\ wpc[w] # "idle" /\ wjob[w] = j
    BY DEF Carriers, Starting
  <2> QED BY <2>1, <2>2 DEF UniqueInv
<1> QED BY <1>1, Invariance, PTL

\* No handler of the pipeline lets go of a job that is in flight: what is lost
\* was lost by a process that died, or by an exception its stage does not name.
THEOREM NothingLost == Spec => []CarriedOrDropped
<1>1. ASSUME IInv PROVE CarriedOrDropped
  <2>1. CarriedInv
    BY <1>1 DEF IInv
  <2>2. ASSUME NEW j \in Jobs, Held(j) PROVE Carriers(j) # {} \/ j \in dropped
    BY <2>2 DEF Held, Carriers, Starting
  <2> QED BY <2>1, <2>2 DEF CarriedInv, CarriedOrDropped
<1> QED BY <1>1, Invariance, PTL

\* A client that reads "completed" finds everything the validate stage promises,
\* even after an ambiguous commit.
THEOREM WholeCompletion == Spec => []CompletedIsWhole
<1>1. IInv => CompletedIsWhole
  BY DEF IInv
<1> QED BY <1>1, Invariance, PTL

\* What a step may do to a settled job: hand out its result, or, when it is the
\* handler of the task that completed it, set it to failed.
LEMMA SettledStep ==
  ASSUME IInv, [Next]_vars, NEW j \in Jobs, job[j] \in Terminal
  PROVE  /\ output'[j] = output[j] /\ slackTo'[j] = slackTo[j]
         /\ \/ /\ job'[j] = job[j] /\ audit'[j] = audit[j]
               /\ \/ events'[j] = events[j]
                  \/ /\ \E c \in Clients : cpc[c] = "sign" /\ cjob[c] = j
                     /\ events'[j] = events[j] \union {"result_delivered"}
            \/ /\ job[j] = "completed" /\ job'[j] = "failed" /\ Overturning(j)
               /\ audit'[j] = audit[j] \union {"validate_failed"}
               /\ events'[j] = events[j] \union {"validate_failed"}
<1> DEFINE Kept == output'[j] = output[j] /\ slackTo'[j] = slackTo[j]
           Stands == /\ Kept /\ job'[j] = job[j] /\ audit'[j] = audit[j]
                     /\ \/ events'[j] = events[j]
                        \/ /\ \E c \in Clients : cpc[c] = "sign" /\ cjob[c] = j
                           /\ events'[j] = events[j] \union {"result_delivered"}
           Falls == /\ Kept /\ job[j] = "completed" /\ job'[j] = "failed" /\ Overturning(j)
                    /\ audit'[j] = audit[j] \union {"validate_failed"}
                    /\ events'[j] = events[j] \union {"validate_failed"}
<1>0. TypeOK /\ RequestInv /\ TaskInv
  BY DEF IInv
<1>1. CASE UNCHANGED tables
  BY <1>1 DEF tables
<1>2. ASSUME NEW c \in Clients, Request(c) \/ Serve(c) PROVE Stands
  <2>1. CASE DeliverResultUrl(c)
    BY <1>0, <2>1 DEF TypeOK, RequestInv, DeliverResultUrl
  <2>2. CASE ~DeliverResultUrl(c)
    BY <1>0, <1>1, <1>2, <2>2 DEF TypeOK, Request, Serve, SubmitIntake, SubmitRatesheet, InsertJob,
                      Terminal, WriteStaging, EnqueueChain, ApiDies, CheckCompleted, tables
  <2> QED BY <2>1, <2>2
<1>3. ASSUME NEW w \in Workers, Commits(w) PROVE Stands \/ Falls
  <2>1. CASE j = wjob[w]
    <3>1. ~Running(w, wstage[w])
      BY <1>0, <2>1 DEF TaskInv, Running, Ready, At, Terminal
    <3>2. StageFails(w) /\ wpc[w] = "recover"
      BY <1>3, <3>1 DEF Commits, Classified, ClassifyRejects, Extracted, Normalized, Validated,
                        StageFails, Running
    <3>3. job[j] = "completed" /\ wstage[w] = "validate" /\ Overturning(j)
      BY <1>0, <1>3, <2>1, <3>2 DEF TaskInv, Overturning
    <3>4. FailureStage(wstage[w]) = "validate_failed"
      BY <3>3 DEF FailureStage
    <3> QED BY <1>0, <2>1, <3>2, <3>3, <3>4 DEF TypeOK, StageFails, CommitFailure, Write
  <2>2. CASE j # wjob[w]
    BY <1>3, <2>2, CommitFrame DEF Same
  <2> QED BY <2>1, <2>2
<1>4. CASE \E w \in Workers : Take(w) \/ Work(w)
  BY <1>1, <1>3, <1>4 DEF Take, StartTask, Work, Commits, TaskRaises, WorkerDies, PublishNext
<1> QED BY <1>1, <1>2, <1>4 DEF Next, vars

\* Under every fault a settled job stays as it is, but for the handler of the task
\* that completed it, whose commit reported an error it did not have.
THEOREM Finality == Spec => OutcomeStands
<1>1. IInv /\ [Next]_vars =>
        [\A j \in Jobs : job[j] \in Terminal =>
           /\ output'[j] = output[j] /\ slackTo'[j] = slackTo[j]
           /\ \/ job'[j] = job[j] /\ audit'[j] = audit[j]
              \/ job[j] = "completed" /\ job'[j] = "failed" /\ Overturning(j)]_vars
  BY SettledStep
<1> QED BY <1>1, Invariance, PTL DEF Spec, OutcomeStands

\* What a job that is not settled has not announced.
LEMMA UnsettledRows ==
  ASSUME IInv, NEW w \in Workers, Commits(w), NEW k \in Jobs, k = wjob[w], job[k] \notin Terminal
  PROVE  /\ At(k, wstage[w]) /\ wpc[w] = "run"
         /\ job'[k] = "failed" => ClassifyRejects(w) \/ StageFails(w)
<1>0. TypeOK /\ TaskInv
  BY DEF IInv
<1>1. At(k, wstage[w]) /\ wpc[w] = "run"
  BY <1>0 DEF TypeOK, TaskInv, Ready, Terminal, Commits, Classified, ClassifyRejects, Extracted,
              Normalized, Validated, StageFails, Running
<1>2. job'[k] = "failed" => ClassifyRejects(w) \/ StageFails(w)
  BY <1>0 DEF TypeOK, Commits, Classified, Extracted, Normalized, Validated, Write
<1> QED BY <1>1, <1>2

\* A request that is about to record the delivery of a result found its job
\* completed; at worst it has been overturned since.
SignInv == \A c \in Clients :
  cpc[c] = "sign" => job[cjob[c]] = "completed" \/ Overturned(cjob[c])

\* A completed job that is overturned keeps the trace of its completion.
LEMMA SignStep ==
  ASSUME IInv, SignInv, [Next]_vars
  PROVE  SignInv'
<1>0. TypeOK /\ RequestInv /\ CompletedIsWhole
  BY DEF IInv
<1>1. ASSUME NEW j \in Jobs, job[j] = "completed" \/ Overturned(j)
      PROVE  (job[j] = "completed" \/ Overturned(j))'
  <2>1. job[j] \in Terminal /\ "validated" \in audit[j]
    BY <1>0, <1>1 DEF Terminal, Overturned, CompletedIsWhole
  <2>2. "validated" \in audit'[j]
    BY <2>1, SettledStep
  <2> QED BY <1>1, <2>1, <2>2, SettledStep DEF Overturned
<1>2. ASSUME NEW c \in Clients, cpc'[c] = "sign"
      PROVE  \/ cpc[c] = "sign" /\ cjob'[c] = cjob[c]
             \/ \E j \in Jobs : cjob'[c] = j /\ job[j] = "completed"
  <2>1. ASSUME NEW d \in Clients, NEW j \in Jobs, CheckCompleted(d, j)
        PROVE  \/ cpc[c] = "sign" /\ cjob'[c] = cjob[c]
               \/ \E i \in Jobs : cjob'[c] = i /\ job[i] = "completed"
    BY <1>0, <1>2, <2>1 DEF TypeOK, CheckCompleted, SetClient
  <2>2. ASSUME NEW d \in Clients, Request(d) \/ Serve(d), ~ \E j \in Jobs : CheckCompleted(d, j)
        PROVE  cpc[c] = "sign" /\ cjob'[c] = cjob[c]
    BY <1>0, <1>2, <2>2 DEF TypeOK, Request, Serve, SubmitIntake, SubmitRatesheet, InsertJob, WriteStaging,
                            EnqueueChain, ApiDies, DeliverResultUrl, SetClient, clients
  <2>3. ASSUME NEW w \in Workers, Take(w) \/ Work(w) PROVE UNCHANGED clients
    BY <2>3, CommitFrame DEF Take, StartTask, Work, Commits, TaskRaises, WorkerDies, PublishNext
  <2> QED BY <1>2, <2>1, <2>2, <2>3 DEF Next, vars, clients
<1>3. \A c \in Clients : cpc[c] = "sign" => cjob[c] \in Jobs
  BY <1>0 DEF RequestInv
<1> QED BY <1>1, <1>2, <1>3 DEF SignInv

\* Under every fault a failed job has a row for the stage that failed in both tables
\* unless the classifier rejected it, has announced nothing unless it was overturned,
\* and result URLs are given out for completed jobs only.
THEOREM FailureTrace == Spec => [](FailureIsRecorded /\ DeliveredWhenCompleted)
<1> DEFINE Quiet(j) == slackTo[j] = {} /\ events[j] \intersect {"slack_post", "upload_result"} = {}
           Recorded(j) == job[j] = "failed" =>
             /\ audit[j] = {} \/ audit[j] \intersect events[j] \intersect FailureStages # {}
             /\ ~Overturned(j) => Quiet(j)
           Delivered(j) == "result_delivered" \in events[j] =>
             (job[j] = "completed" \/ Overturned(j)) /\ output[j] = "validated"
           Safe == FailureIsRecorded /\ DeliveredWhenCompleted /\ SignInv
           OverturnedInv == \A j \in Jobs : Overturned(j) => output[j] = "validated"
<1>1. Init => Safe /\ OverturnedInv
  BY DEF Init, FailureIsRecorded, DeliveredWhenCompleted, SignInv, Overturned
<1>2. ASSUME IInv, Safe, OverturnedInv, [Next]_vars, NEW j \in Jobs
      PROVE  Recorded(j)' /\ Delivered(j)' /\ (Overturned(j) => output[j] = "validated")'
  <2>0. /\ TypeOK /\ RequestInv /\ TaskInv /\ NewInv /\ CompletedIsWhole
        /\ Recorded(j) /\ Delivered(j) /\ (Overturned(j) => output[j] = "validated")
    BY <1>2 DEF IInv, FailureIsRecorded, DeliveredWhenCompleted
  <2>1. ASSUME job[j] \in Terminal
        PROVE  Recorded(j)' /\ Delivered(j)' /\ (Overturned(j) => output[j] = "validated")'
    <3>1. job[j] = "completed" => output[j] = "validated" /\ "validated" \in audit[j]
      BY <2>0 DEF CompletedIsWhole
    <3>2. output'[j] = output[j] /\ slackTo'[j] = slackTo[j]
      BY <1>2, <2>1, SettledStep
    <3>3. CASE job'[j] = job[j] /\ audit'[j] = audit[j] /\ events'[j] = events[j]
      BY <2>0, <3>2, <3>3 DEF Overturned
    <3>4. CASE /\ job'[j] = job[j] /\ audit'[j] = audit[j]
               /\ \E c \in Clients : cpc[c] = "sign" /\ cjob[c] = j
               /\ events'[j] = events[j] \union {"result_delivered"}
      <4>1. job[j] = "completed" \/ Overturned(j)
        BY <1>2, <3>4 DEF SignInv
      <4>2. Overturned(j)' <=> Overturned(j)
        BY <3>4 DEF Overturned
      <4> QED BY <2>0, <3>1, <3>2, <3>4, <4>1, <4>2
    <3>5. CASE /\ job[j] = "completed" /\ job'[j] = "failed"
               /\ audit'[j] = audit[j] \union {"validate_failed"}
               /\ events'[j] = events[j] \union {"validate_failed"}
      <4>1. Overturned(j)' /\ output'[j] = "validated"
        BY <3>1, <3>2, <3>5 DEF Overturned
      <4>2. "validate_failed" \in audit'[j] \intersect events'[j] \intersect FailureStages
        BY <3>5 DEF FailureStages
      <4> QED BY <4>1, <4>2
    <3> QED BY <1>2, <2>1, <3>3, <3>4, <3>5, SettledStep
  <2>2. ASSUME job[j] \notin Terminal, NEW c \in Clients, Request(c) \/ Serve(c)
        PROVE  Recorded(j)' /\ Delivered(j)' /\ (Overturned(j) => output[j] = "validated")'
    <3>1. job'[j] \in {job[j], "pending"} /\ events'[j] = events[j]
      <4>1. CASE DeliverResultUrl(c)
        BY <2>0, <2>2, <4>1 DEF TypeOK, RequestInv, DeliverResultUrl
      <4>2. CASE ~DeliverResultUrl(c)
        BY <2>0, <2>2, <4>2 DEF TypeOK, Request, Serve, SubmitIntake, SubmitRatesheet, InsertJob,
                                WriteStaging, EnqueueChain, ApiDies, CheckCompleted, tables
      <4> QED BY <4>1, <4>2
    <3> QED BY <2>0, <2>2, <3>1 DEF Terminal, Overturned
  <2>3. ASSUME job[j] \notin Terminal, NEW w \in Workers, Commits(w), j = wjob[w]
        PROVE  Recorded(j)' /\ Delivered(j)' /\ (Overturned(j) => output[j] = "validated")'
    <3>1. At(j, wstage[w]) /\ wpc[w] = "run"
      BY <1>2, <2>3, UnsettledRows
    <3>2. "result_delivered" \notin events'[j]
      <4>0. "result_delivered" \notin events[j]
        BY <3>1 DEF At
      <4>1. CASE Classified(w) \/ ClassifyRejects(w)
        BY <2>0, <2>3, <4>0, <4>1 DEF TypeOK, Classified, ClassifyRejects, Write
      <4>2. CASE Extracted(w) \/ Normalized(w)
        BY <2>0, <2>3, <4>0, <4>2 DEF TypeOK, Extracted, Normalized, Write
      <4>3. CASE Validated(w)
        BY <2>0, <2>3, <4>0, <4>3 DEF TypeOK, Validated, Write
      <4>4. CASE StageFails(w)
        BY <2>0, <2>3, <4>0, <4>4 DEF TypeOK, StageFails, CommitFailure, FailureStage, Write
      <4> QED BY <2>3, <4>1, <4>2, <4>3, <4>4 DEF Commits
    <3>3. ASSUME job'[j] = "failed" PROVE Recorded(j)'
      <4>1. ClassifyRejects(w) \/ StageFails(w)
        BY <1>2, <2>3, <3>3, UnsettledRows
      <4>2. CASE ClassifyRejects(w)
        BY <2>0, <2>3, <3>1, <4>2 DEF TypeOK, At, ClassifyRejects, Running, Write
      <4>3. CASE StageFails(w)
        <5>1. FailureStage(wstage[w]) \in FailureStages
          BY DEF FailureStage, FailureStages
        <5>2. /\ slackTo'[j] = {}
              /\ audit'[j] = audit[j] \union {FailureStage(wstage[w])}
              /\ events'[j] = events[j] \union {FailureStage(wstage[w])}
          BY <2>0, <2>3, <3>1, <4>3 DEF TypeOK, At, StageFails, CommitFailure, Write
        <5>3. events[j] \subseteq {"extracted", "normalized"}
          BY <3>1 DEF At
        <5> QED BY <5>1, <5>2, <5>3 DEF FailureStages
      <4> QED BY <4>1, <4>2, <4>3
    <3>4. ~Overturned(j)'
      <4>1. ASSUME job'[j] = "failed" PROVE "validated" \notin audit'[j]
        <5>1. ClassifyRejects(w) \/ StageFails(w)
          BY <1>2, <2>3, <4>1, UnsettledRows
        <5>2. "validated" \notin audit[j]
          BY <3>1 DEF At
        <5> QED BY <2>0, <2>3, <5>1, <5>2
                DEF TypeOK, ClassifyRejects, StageFails, CommitFailure, FailureStage, Write
      <4> QED BY <4>1 DEF Overturned
    <3> QED BY <3>2, <3>3, <3>4
  <2>4. ASSUME NEW w \in Workers, Commits(w), j # wjob[w]
        PROVE  Recorded(j)' /\ Delivered(j)' /\ (Overturned(j) => output[j] = "validated")'
    BY <1>2, <2>0, <2>4, CommitFrame DEF Same, Overturned
  <2>5. CASE UNCHANGED tables
    BY <2>0, <2>5 DEF tables, Overturned
  <2>6. CASE \E w \in Workers : Take(w) \/ Work(w)
    BY <2>1, <2>3, <2>4, <2>5, <2>6 DEF Take, StartTask, Work, Commits, TaskRaises, WorkerDies, PublishNext
  <2> QED BY <1>2, <2>1, <2>2, <2>5, <2>6 DEF Next, vars
<1>3. IInv /\ Safe /\ OverturnedInv /\ [Next]_vars => Safe' /\ OverturnedInv'
  BY <1>2, SignStep DEF FailureIsRecorded, DeliveredWhenCompleted
<1> QED BY <1>1, <1>3, Invariance, PTL DEF Spec

\* A result URL is issued, and recorded in the outbox, for completed jobs only.
THEOREM NoEarlyDelivery == Spec => []DeliveredWhenCompleted
<1> QED BY FailureTrace, PTL

\* BUILD_COMPLETE_V7.md's claim, with what it needs: no job wedges as long as no
\* process dies and no stage raises past its except clause.  The faults of the
\* formats, the exceptions that are caught and ambiguous commits do no harm.
THEOREM NoWedgeWithoutDrops ==
  ASSUME "api" \notin Faults, "killed" \notin Faults, "raises" \notin Faults
  PROVE  Spec => []JobsDoNotWedge
<1>1. Init => dropped = {}
  BY DEF Init
<1>2. dropped = {} /\ [Next]_vars => (dropped = {})'
  BY DEF Next, Request, Serve, Take, Work, SubmitIntake, SubmitRatesheet, WriteStaging, EnqueueChain,
         ApiDies, CheckCompleted, DeliverResultUrl, StartTask, Classified, ClassifyRejects, Extracted,
         Normalized, Validated, StageFails, TaskRaises, WorkerDies, PublishNext, vars
<1>3. CarriedOrDropped /\ dropped = {} => JobsDoNotWedge
  BY DEF CarriedOrDropped, JobsDoNotWedge, InFlight, Terminal
<1> QED BY <1>1, <1>2, <1>3, NothingLost, PTL DEF Spec
=============================================================================
