------------------------------ MODULE MCOutbox ------------------------------
(***************************************************************************)
(* Instances of Outbox for TLC: two drains over one row, one drain over a  *)
(* row and one that can never be delivered, two drains over two rows.  The *)
(* schedule has two steps, one shorter than the lock's TTL as 5 s is than  *)
(* 30 s.                                                                   *)
(***************************************************************************)
EXTENDS Outbox
CONSTANTS r1, r2, d1, d2
OneRow == {r1}
TwoRows == {r1, r2}
MCBackoff == <<1, 2>>
=============================================================================
