--------------------------- MODULE MCResultRoutes ---------------------------
(* Instances of Delivery and ResultRoutes for TLC.                         *)
EXTENDS ResultRoutes

CONSTANTS j1, j2, d1, s1, s2, c1

TwoJobs == {j1, j2}
OneJob == {j1}
OneDrain == {d1}
OneSweep == {s1}
TwoSweeps == {s1, s2}
OneClient == {c1}
=============================================================================
