----------------------------- MODULE MCPipeline -----------------------------
(* Instances of Pipeline for TLC.                                          *)
EXTENDS Pipeline

CONSTANTS j1, j2, ch1, ch2, c1, c2, w1, w2

OneJob == {j1}
TwoJobs == {j1, j2}
TwoChannels == {ch1, ch2}
TwoClients == {c1, c2}
TwoWorkers == {w1, w2}
=============================================================================
