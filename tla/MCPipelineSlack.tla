-------------------------- MODULE MCPipelineSlack --------------------------
(* An instance of SubmitterChannel for TLC.                                *)
EXTENDS SubmitterChannel

CONSTANTS j1, ch1, ch2, c1, c2, w1

OneJob == {j1}
TwoChannels == {ch1, ch2}
TwoClients == {c1, c2}
OneWorker == {w1}
=============================================================================
