-------------------------- MODULE SubmitterChannel --------------------------
(* Pipeline with the history that the promise about the Slack channel needs: *)
(* which channel the submission that created a job asked for.                *)
EXTENDS Pipeline

VARIABLE asked  \* the channel of the submission that created the job

hvars == <<vars, asked>>

\* A submission writes its ingress_received row with the row of the job, or none.
Remember == asked' = [j \in Jobs |-> IF job[j] = "none" /\ ingress'[j] # {}
                                     THEN CHOOSE ch \in ingress'[j] : TRUE ELSE asked[j]]

HistoryInit == Init /\ asked = [j \in Jobs |-> NoChannel]
HistoryNext == Next /\ Remember
HistorySpec == HistoryInit /\ [][HistoryNext]_hvars

\* What PHASE_6_5_SPEC.md says: the summary goes to the channel of the submission
\* that created the job.  A duplicate submission that names another refutes it.
SlackGoesToSubmitter == \A j \in Jobs : slackTo[j] \subseteq {asked[j]}
=============================================================================
