----------------------------- MODULE MCEdifact ------------------------------
(* Instances of Edifact for TLC.                                           *)
EXTENDS Edifact

CONSTANTS d1, d2

TwoDates == {d1, d2}
=============================================================================
