--------------------------- MODULE DeliveryPromise ---------------------------
(***************************************************************************)
(* What the transactional outbox of the onramp promises to the code that   *)
(* enqueues an event, with nothing said of snapshots, locks, time or       *)
(* retries: an event once committed stays in the table; its external       *)
(* effect is performed by a drain that has it in hand; it is closed only   *)
(* by a drain that has just performed that effect itself; and closing is   *)
(* final.  The effect may happen any number of times ("at-least-once       *)
(* delivery"), and a drain may let go of a row at any time.                *)
(*                                                                         *)
(* Outbox.tla is shown to implement this module, and so are the drains and *)
(* the two rows of every result in Delivery.tla, so that what Delivery     *)
(* leaves out of the drains does not show in what they do to a row.        *)
(***************************************************************************)
CONSTANTS Rows,             \* the outbox rows, by outbox_id
          Drains,
          NoRow

VARIABLES row,              \* [Rows -> {"absent", "undelivered", "delivered"}]
          effect,           \* the rows whose external effect happened at least once
          hand,             \* the row each drain works on, or NoRow
          done              \* the drains that have performed the effect of theirs

vars == <<row, effect, hand, done>>

Init == /\ row = [r \in Rows |-> "absent"] /\ effect = {}
        /\ hand = [d \in Drains |-> NoRow] /\ done = {}

\* The rows of one transaction appear together.
Enqueue(R) == /\ \A r \in R : row[r] = "absent"
              /\ row' = [r \in Rows |-> IF r \in R THEN "undelivered" ELSE row[r]]
              /\ UNCHANGED <<effect, hand, done>>

\* A drain may come to a row that has been closed since it was selected.
Take(d, r) == /\ hand[d] = NoRow /\ row[r] # "absent"
              /\ hand' = [hand EXCEPT ![d] = r]
              /\ UNCHANGED <<row, effect, done>>

\* The effect may happen and not be known to have happened.
Perform(d) == /\ hand[d] # NoRow
              /\ effect' = effect \union {hand[d]}
              /\ done' \in {done, done \union {d}}
              /\ UNCHANGED <<row, hand>>

\* What the drain knew of the effect is gone, at the latest with the row.
LetGo(d) == /\ hand' \in {hand, [hand EXCEPT ![d] = NoRow]}
            /\ done' = done \ {d}

Close(d) == /\ d \in done
            /\ row' = [row EXCEPT ![hand[d]] = "delivered"]
            /\ LetGo(d)
            /\ UNCHANGED effect

GiveUp(d) == /\ hand[d] # NoRow
             /\ LetGo(d)
             /\ UNCHANGED <<row, effect>>

Next == \/ \E R \in SUBSET Rows : Enqueue(R)
        \/ \E d \in Drains : \/ \E r \in Rows : Take(d, r)
                             \/ Perform(d) \/ Close(d) \/ GiveUp(d)

Spec == Init /\ [][Next]_vars
=============================================================================
