---------------------------- MODULE ChainProofs ----------------------------
(***************************************************************************)
(* Pipeline implements the chain that Delivery starts from: every          *)
(* transaction of a task is one step of Delivery's Chain or none at all,   *)
(* and what happens between two transactions is none.  The proof uses the  *)
(* inductive invariant of PipelineProofs, which says what the tables of a  *)
(* job hold when a stage writes to them.                                   *)
(***************************************************************************)
EXTENDS PipelineProofs

\* What the refinement mapping makes of the tables.
Phase(j) == IF InFlight(j) THEN "running" ELSE job[j]
Phases == [j \in Jobs |-> Phase(j)]
Outputs == {j \in Jobs : output[j] # "none"}
ResultKinds == {"slack_post", "upload_result"}
Due(r) == IF r[2] \in events[r[1]] THEN "undelivered" ELSE "absent"
ResultRows == [r \in Jobs \X ResultKinds |-> Due(r)]

\* The steps of Delivery in these terms.
LEMMA MappedSteps ==
  ASSUME NEW k \in Jobs
  PROVE  /\ /\ Phases[k] = "none" /\ Phases' = [Phases EXCEPT ![k] = "running"]
            /\ Outputs' = Outputs /\ ResultRows' = ResultRows
            => Result!Accepted(k)
         /\ /\ Phases[k] = "running" /\ k \notin Outputs /\ Phases' = Phases
            /\ Outputs' = Outputs \union {k} /\ ResultRows' = ResultRows
            => Result!Extracted(k)
         /\ /\ Phases[k] = "running" /\ k \in Outputs
            /\ Phases' = [Phases EXCEPT ![k] = "completed"] /\ Outputs' = Outputs
            /\ ResultRows' = [r \in Jobs \X ResultKinds |->
                                IF r[1] = k THEN "undelivered" ELSE ResultRows[r]]
            => Result!Completed(k)
         /\ /\ Phases[k] = "running" /\ Phases' = [Phases EXCEPT ![k] = "failed"]
            /\ Outputs' = Outputs /\ ResultRows' = ResultRows
            => Result!Failed(k)
         /\ /\ Phases[k] = "completed" /\ Phases' = [Phases EXCEPT ![k] = "failed"]
            /\ Outputs' = Outputs /\ ResultRows' = ResultRows
            => Result!Overturned(k)
<1> USE DEF Phases, Phase, Outputs, ResultRows, ResultKinds, Due, Result!outside, Result!drains,
            Result!sweeps, Result!OutboxRows, Result!Kinds
<1>1. /\ Phases[k] = "none" /\ Phases' = [Phases EXCEPT ![k] = "running"]
      /\ Outputs' = Outputs /\ ResultRows' = ResultRows
      => Result!Accepted(k)
  BY DEF Result!Accepted
<1>2. /\ Phases[k] = "running" /\ k \notin Outputs /\ Phases' = Phases
      /\ Outputs' = Outputs \union {k} /\ ResultRows' = ResultRows
      => Result!Extracted(k)
  BY DEF Result!Extracted
<1>3. /\ Phases[k] = "running" /\ k \in Outputs
      /\ Phases' = [Phases EXCEPT ![k] = "completed"] /\ Outputs' = Outputs
      /\ ResultRows' = [r \in Jobs \X ResultKinds |->
                          IF r[1] = k THEN "undelivered" ELSE ResultRows[r]]
      => Result!Completed(k)
  BY DEF Result!Completed
<1>4. /\ Phases[k] = "running" /\ Phases' = [Phases EXCEPT ![k] = "failed"]
      /\ Outputs' = Outputs /\ ResultRows' = ResultRows
      => Result!Failed(k)
  BY DEF Result!Failed
<1>5. /\ Phases[k] = "completed" /\ Phases' = [Phases EXCEPT ![k] = "failed"]
      /\ Outputs' = Outputs /\ ResultRows' = ResultRows
      => Result!Overturned(k)
  BY DEF Result!Overturned
<1> QED BY <1>1, <1>2, <1>3, <1>4, <1>5

LEMMA MappedStutter ==
  Phases' = Phases /\ Outputs' = Outputs /\ ResultRows' = ResultRows => UNCHANGED Result!dvars
  BY DEF Phases, Phase, Outputs, ResultRows, ResultKinds, Due, Result!dvars, Result!tables,
         Result!outside, Result!drains, Result!sweeps

\* Steps that leave the statuses and outputs alone, and enqueue no row of a result.
LEMMA QuietStutter ==
  ASSUME \A j \in Jobs : /\ Phase(j)' = Phase(j) /\ (output'[j] # "none" <=> output[j] # "none")
                         /\ events'[j] \intersect ResultKinds = events[j] \intersect ResultKinds
  PROVE  UNCHANGED Result!dvars
<1>1. Phases' = Phases /\ Outputs' = Outputs
  BY DEF Phases, Outputs
<1>2. \A r \in Jobs \X ResultKinds : Due(r)' = Due(r)
  BY DEF Due
<1>3. ResultRows' = ResultRows
  BY <1>2 DEF ResultRows
<1> QED BY <1>1, <1>3, MappedStutter

-----------------------------------------------------------------------------
\* The API inserts the row of a job, and touches nothing else that Delivery sees.
LEMMA ApiRefines ==
  ASSUME IInv, NEW c \in Clients, Request(c) \/ Serve(c)
  PROVE  (\E j \in Jobs : Result!Chain(j)) \/ UNCHANGED Result!dvars
<1>0. TypeOK /\ RequestInv
  BY DEF IInv
<1>1. ASSUME NEW j \in Jobs, job[j] = "none", job' = [job EXCEPT ![j] = "pending"],
             UNCHANGED <<output, events>>
      PROVE  Result!Chain(j)
  <2>1. Phases[j] = "none" /\ Phases' = [Phases EXCEPT ![j] = "running"]
    BY <1>0, <1>1 DEF TypeOK, Phases, Phase, InFlight, Terminal
  <2>2. Outputs' = Outputs /\ ResultRows' = ResultRows
    BY <1>1 DEF Outputs, ResultRows, Due
  <2>3. Result!Accepted(j)
    BY <2>1, <2>2, MappedSteps
  <2> QED BY <2>3 DEF Result!Chain
<1>2. ASSUME UNCHANGED <<job, output, events>> PROVE UNCHANGED Result!dvars
  BY <1>2, QuietStutter DEF Phase, InFlight
<1>3. CASE DeliverResultUrl(c)
  <2>1. UNCHANGED <<job, output>> /\ cjob[c] \in Jobs
    BY <1>0, <1>3 DEF DeliverResultUrl, RequestInv
  <2>2. events' = [events EXCEPT ![cjob[c]] = @ \union {"result_delivered"}]
    BY <1>3 DEF DeliverResultUrl
  <2>3. \A j \in Jobs : events'[j] \intersect ResultKinds = events[j] \intersect ResultKinds
    BY <1>0, <2>1, <2>2 DEF TypeOK, ResultKinds
  <2> QED BY <2>1, <2>3, QuietStutter DEF Phase, InFlight
<1>4. CASE ~DeliverResultUrl(c)
  BY <1>1, <1>2, <1>4 DEF Request, Serve, SubmitIntake, SubmitRatesheet, InsertJob, WriteStaging,
                          EnqueueChain, ApiDies, CheckCompleted, tables
<1> QED BY <1>3, <1>4

\* The handler of a task that has completed its job overturns it.
LEMMA OverturnRefines ==
  ASSUME IInv, NEW w \in Workers, StageFails(w), wpc[w] = "recover"
  PROVE  \E j \in Jobs : Result!Chain(j)
<1>0. TypeOK /\ TaskInv
  BY DEF IInv
<1>1. PICK k \in Jobs : k = wjob[w] /\ job[k] = "completed"
  BY <1>0 DEF TaskInv
<1>2. Phases[k] = "completed"
  BY <1>1 DEF Phases, Phase, InFlight, Terminal
<1>3. /\ job' = [job EXCEPT ![k] = "failed"] /\ output' = output
      /\ events' = [events EXCEPT ![k] = @ \union {FailureStage(wstage[w])}]
  BY <1>1 DEF StageFails, CommitFailure, Write
<1>4. \A j \in Jobs : Phase(j)' = IF j = k THEN "failed" ELSE Phase(j)
  BY <1>0, <1>1, <1>3 DEF TypeOK, Phase, InFlight, Terminal
<1>5. Phases' = [Phases EXCEPT ![k] = "failed"]
  BY <1>4 DEF Phases
<1>6. Outputs' = Outputs
  BY <1>3 DEF Outputs
<1>7. FailureStage(wstage[w]) \notin ResultKinds
  BY DEF FailureStage, ResultKinds
<1>8. \A r \in Jobs \X ResultKinds : Due(r)' = Due(r)
  BY <1>0, <1>3, <1>7 DEF TypeOK, Due
<1>9. ResultRows' = ResultRows
  BY <1>8 DEF ResultRows
<1>10. Result!Overturned(k)
  BY <1>2, <1>5, <1>6, <1>9, MappedSteps
<1> QED BY <1>10 DEF Result!Chain

\* A stage that commits is one step of the chain, or none when it only moves the job
\* from one status in flight to the next.
LEMMA CommitRefines ==
  ASSUME IInv, NEW w \in Workers, Commits(w), wpc[w] # "recover"
  PROVE  (\E j \in Jobs : Result!Chain(j)) \/ UNCHANGED Result!dvars
<1>0. TypeOK /\ TaskInv
  BY DEF IInv
<1>1. PICK k \in Jobs : k = wjob[w]
  BY CommitFrame
<1>2. /\ \A i \in Jobs \ {k} : /\ job'[i] = job[i] /\ output'[i] = output[i]
                               /\ events'[i] = events[i]
      /\ job' \in [Jobs -> Statuses]
  <2>1. TypeOK'
    BY TypeStep DEF Next, Work, Commits
  <2> QED BY <1>1, <2>1, CommitFrame DEF Same, TypeOK
<1>3. wpc[w] = "run" /\ At(k, wstage[w]) /\ InFlight(k)
  BY <1>0, <1>1 DEF TypeOK, TaskInv, Ready, At, InFlight, Terminal, Commits, Classified, Running,
                    ClassifyRejects, Extracted, Normalized, Validated, StageFails
<1>4. /\ Phases[k] = "running" /\ ResultRows = [r \in Jobs \X ResultKinds |-> Due(r)]
      /\ \A i \in Jobs \ {k} : /\ Phase(i)' = Phase(i) /\ (i \in Outputs' <=> i \in Outputs)
                               /\ \A kind \in ResultKinds : Due(<<i, kind>>)' = Due(<<i, kind>>)
  BY <1>2, <1>3 DEF Phases, Phase, InFlight, Outputs, ResultRows, Due
<1>5. Phases' = [Phases EXCEPT ![k] = Phase(k)']
  BY <1>4 DEF Phases
<1>6. ASSUME events'[k] \intersect ResultKinds = {} PROVE ResultRows' = ResultRows
  <2>1. events[k] \intersect ResultKinds = {}
    BY <1>3 DEF At, ResultKinds
  <2>2. \A kind \in ResultKinds : Due(<<k, kind>>)' = Due(<<k, kind>>)
    BY <1>6, <2>1 DEF Due
  <2>3. \A r \in Jobs \X ResultKinds : Due(r)' = Due(r)
    BY <1>4, <2>2
  <2> QED BY <2>3 DEF ResultRows
<1>7. CASE Classified(w) \/ Normalized(w)
  <2>1. /\ job'[k] \in {"extracting", "validating"}
        /\ output'[k] # "none" <=> output[k] # "none"
        /\ events'[k] \subseteq events[k] \union {"normalized"}
    <3>1. CASE Classified(w)
      BY <1>0, <1>1, <3>1 DEF TypeOK, Classified, Write
    <3>2. CASE Normalized(w)
      <4>1. HasInput(k, "normalize")
        BY <1>1, <3>2 DEF Normalized
      <4>2. output[k] # "none"
        BY <4>1 DEF HasInput
      <4> QED BY <1>0, <1>1, <3>2, <4>2 DEF TypeOK, Normalized, Write
    <3> QED BY <1>7, <3>1, <3>2
  <2>2. Phases' = Phases
    BY <1>4, <1>5, <2>1 DEF Phases, Phase, InFlight, Terminal
  <2>3. Outputs' = Outputs
    BY <1>4, <2>1 DEF Outputs
  <2>4. ResultRows' = ResultRows
    BY <1>3, <1>6, <2>1 DEF At, ResultKinds
  <2> QED BY <2>2, <2>3, <2>4, MappedStutter
<1>8. CASE Extracted(w)
  <2>1. output[k] = "none"
    BY <1>1, <1>8 DEF Extracted, HasInput
  <2>2. /\ job'[k] = "normalizing" /\ output'[k] = "extracted"
        /\ events'[k] = events[k] \union {"extracted"}
    BY <1>0, <1>1, <1>8 DEF TypeOK, Extracted, Write
  <2>3. Phases' = Phases
    BY <1>4, <1>5, <2>2 DEF Phases, Phase, InFlight, Terminal
  <2>4. k \notin Outputs /\ Outputs' = Outputs \union {k}
    BY <1>4, <2>1, <2>2 DEF Outputs
  <2>5. ResultRows' = ResultRows
    BY <1>3, <1>6, <2>2 DEF At, ResultKinds
  <2>6. Result!Extracted(k)
    BY <1>4, <2>3, <2>4, <2>5, MappedSteps
  <2> QED BY <2>6 DEF Result!Chain
<1>9. CASE Validated(w)
  <2>1. output[k] # "none"
    BY <1>1, <1>9 DEF Validated, HasInput
  <2>2. /\ job'[k] = "completed" /\ output'[k] = "validated"
        /\ events'[k] = events[k] \union {"validated", "slack_post", "upload_result"}
    BY <1>0, <1>1, <1>9 DEF TypeOK, Validated, Write
  <2>3. Phases' = [Phases EXCEPT ![k] = "completed"]
    BY <1>5, <2>2 DEF Phase, InFlight, Terminal
  <2>4. k \in Outputs /\ Outputs' = Outputs
    BY <1>4, <2>1, <2>2 DEF Outputs
  <2>5. \A kind \in ResultKinds : Due(<<k, kind>>)' = "undelivered"
    BY <2>2 DEF Due, ResultKinds
  <2>6. \A r \in Jobs \X ResultKinds :
          Due(r)' = IF r[1] = k THEN "undelivered" ELSE ResultRows[r]
    BY <1>4, <2>5
  <2>7. ResultRows' = [r \in Jobs \X ResultKinds |->
                         IF r[1] = k THEN "undelivered" ELSE ResultRows[r]]
    BY <2>6 DEF ResultRows
  <2>8. Result!Completed(k)
    BY <1>4, <2>3, <2>4, <2>7, MappedSteps
  <2> QED BY <2>8 DEF Result!Chain
<1>10. CASE ClassifyRejects(w) \/ StageFails(w)
  <2>1. /\ job'[k] = "failed" /\ output'[k] = output[k]
        /\ events'[k] \subseteq events[k] \union FailureStages
    <3>1. CASE ClassifyRejects(w)
      BY <1>0, <1>1, <3>1 DEF TypeOK, ClassifyRejects, Write
    <3>2. CASE StageFails(w)
      BY <1>0, <1>1, <3>2 DEF TypeOK, StageFails, CommitFailure, FailureStage, FailureStages, Write
    <3> QED BY <1>10, <3>1, <3>2
  <2>2. Phases' = [Phases EXCEPT ![k] = "failed"]
    BY <1>5, <2>1 DEF Phase, InFlight, Terminal
  <2>3. Outputs' = Outputs
    BY <1>4, <2>1 DEF Outputs
  <2>4. ResultRows' = ResultRows
    BY <1>3, <1>6, <2>1 DEF At, ResultKinds, FailureStages
  <2>5. Result!Failed(k)
    BY <1>4, <2>2, <2>3, <2>4, MappedSteps
  <2> QED BY <2>5 DEF Result!Chain
<1> QED BY <1>7, <1>8, <1>9, <1>10 DEF Commits

\* A task that recovers does nothing else.
LEMMA RecoverFails ==
  ASSUME NEW w \in Workers, Commits(w), wpc[w] = "recover" PROVE StageFails(w)
  BY DEF Commits, Classified, ClassifyRejects, Extracted, Normalized, Validated, Running

\* Under every fault the pipeline is the chain of Delivery: what is proved there of
\* results, with that chain, holds of this one.
THEOREM ChainRefinement == Spec => ChainOfDelivery
<1>1. Init => Result!DeliveryInit
  <2> SUFFICES ASSUME Init PROVE Result!DeliveryInit
    OBVIOUS
  <2>1. Phases = [j \in Jobs |-> "none"] /\ Outputs = {}
    BY DEF Init, Phases, Phase, InFlight, Outputs
  <2>2. ResultRows = [r \in Jobs \X ResultKinds |-> "absent"]
    BY DEF Init, ResultRows, Due
  <2> QED BY <2>1, <2>2
          DEF Phases, Phase, Outputs, ResultRows, Due, ResultKinds, Result!DeliveryInit,
              Result!OutboxRows, Result!Kinds, Result!NoRow
<1>2. IInv /\ [Next]_vars => [Result!DeliveryNext]_(Result!dvars)
  <2> SUFFICES ASSUME IInv, [Next]_vars
               PROVE  (\E j \in Jobs : Result!Chain(j)) \/ UNCHANGED Result!dvars
    BY DEF Result!DeliveryNext
  <2>1. ASSUME UNCHANGED tables PROVE UNCHANGED Result!dvars
    BY <2>1, QuietStutter DEF tables, Phase, InFlight
  <2>2. CASE \E w \in Workers : Take(w) \/ Work(w)
    BY <2>1, <2>2, CommitRefines, OverturnRefines, RecoverFails DEF Take, StartTask, Work, Commits, TaskRaises, WorkerDies,
                                     PublishNext
  <2>3. CASE UNCHANGED vars
    BY <2>1, <2>3 DEF vars
  <2> QED BY <2>2, <2>3, ApiRefines DEF Next
<1> QED BY <1>1, <1>2, Invariance, PTL DEF Spec, ChainOfDelivery, Result!DeliverySpec
=============================================================================
