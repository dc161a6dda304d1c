------------------------------ MODULE MCLanes ------------------------------
(* Instances of Lanes for TLC.                                             *)
EXTENDS Lanes

CONSTANTS a, b, r1, r2

MCIds == {a, b}
MCRows == {r1, r2}
=============================================================================
