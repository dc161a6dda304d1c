---------------------------- MODULE OutboxProofs ----------------------------
(***************************************************************************)
(* Proofs about the dispatcher, for any rows, drains, schedule and TTL.    *)
(* IInv is the inductive invariant; the theorems follow from it.           *)
(***************************************************************************)
EXTENDS Outbox, TLAPS

Busy == {"dispatch", "mark", "record"}

\* A drain has a row in hand exactly while it works on it, and that row is no
\* longer in its batch.  Only rows of the table are selected.
HandInv == \A d \in Drains : /\ cur[d] # NoRow <=> pc[d] \in Busy
                             /\ cur[d] \notin batch[d]
                             /\ \A r \in Rows : r \in batch[d] \/ cur[d] = r => row[r] # "absent"

\* While a drain is younger than the TTL, the key of its row is its own, and
\* has the rest of the TTL to live.
LockInv == \A d \in Drains :
             cur[d] # NoRow /\ age[d] < LockTTL => lockLeft[cur[d]] = LockTTL - age[d]

\* No row is closed, or about to be, before its effect.
EffectInv == /\ \A d \in Drains : pc[d] = "mark" => cur[d] \in effect
             /\ \A r \in Rows : row[r] = "delivered" => r \in effect

IInv == TypeOK /\ HandInv /\ LockInv /\ EffectInv

\* What the assumptions say of the constants, in the form the steps use.
LEMMA ConstantFacts == /\ AttemptsCap \in Nat
                       /\ LockTTL \in Nat /\ LockTTL > 0
                       /\ NoRow \notin Rows
                       /\ NULL \notin Nat
  BY ScheduleAssumption, RowsAssumption DEF MaxAttempts, AttemptsCap

\* What an attempt writes, and what a unit of time leaves of a delay.
LEMMA DelayFacts ==
  /\ \A n \in Nat : RetryDelay(n) \in Nat \union {NULL} /\ Saturate(n) \in 0..AttemptsCap
  /\ \A n \in Nat \union {NULL} : Countdown(n) \in Nat \union {NULL}
  /\ \A n \in 0..LockTTL : Countdown(n) \in 0..LockTTL
  BY ScheduleAssumption, RowsAssumption
  DEF MaxAttempts, AttemptsCap, RetryDelay, Saturate, Countdown

\* The initial state satisfies the invariant.
LEMMA InitInv == Init => IInv
  BY ConstantFacts DEF Init, IInv, TypeOK, HandInv, LockInv, EffectInv, Busy

\* Every step keeps the types: a drain in "mark" or "record" has a row in hand.
LEMMA TypeStep == TypeOK /\ HandInv /\ [Next]_vars => TypeOK'
  <1> SUFFICES ASSUME TypeOK, HandInv, [Next]_vars PROVE TypeOK'
    OBVIOUS
  <1> USE ConstantFacts DEF TypeOK
  <1>1. ASSUME NEW r \in Rows, Enqueue(r) PROVE TypeOK'
    BY <1>1 DEF Enqueue
  <1>2. ASSUME NEW d \in Drains, Select(d) PROVE TypeOK'
    <2>1. PICK S \in SUBSET {r \in Rows : Due(r)} :
            /\ batch' = [batch EXCEPT ![d] = S]
            /\ seen' = [seen EXCEPT ![d] = [r \in Rows |-> IF r \in S THEN attempts[r] ELSE 0]]
      BY <1>2 DEF Select
    <2>2. batch' \in [Drains -> SUBSET Rows]
      BY <2>1
    <2>3. [r \in Rows |-> IF r \in S THEN attempts[r] ELSE 0] \in [Rows -> 0..AttemptsCap]
      OBVIOUS
    <2>4. seen' \in [Drains -> [Rows -> 0..AttemptsCap]]
      BY <2>1, <2>3
    <2>5. QED
      BY <1>2, <2>2, <2>4 DEF Select, table
  <1>3. ASSUME NEW d \in Drains, Finish(d) \/ Abort(d) PROVE TypeOK'
    <2>1. [r \in Rows |-> 0] \in [Rows -> 0..AttemptsCap]
      OBVIOUS
    <2>0. seen' = [seen EXCEPT ![d] = [r \in Rows |-> 0]]
      BY <1>3 DEF Finish, Abort, Stop
    <2>2. seen' \in [Drains -> [Rows -> 0..AttemptsCap]]
      BY <2>0, <2>1
    <2>3. /\ pc' = [pc EXCEPT ![d] = "idle"] /\ batch' = [batch EXCEPT ![d] = {}]
          /\ cur' = [cur EXCEPT ![d] = NoRow] /\ age' = [age EXCEPT ![d] = 0]
          /\ UNCHANGED <<row, attempts, retryIn, lockLeft, effect>>
      BY <1>3 DEF Finish, Abort, Stop, table
    <2>4. QED
      BY <2>2, <2>3
  <1>4. ASSUME NEW d \in Drains, NEW r \in Rows, Acquire(d, r) \/ Skip(d, r) PROVE TypeOK'
    <2>1. CASE Acquire(d, r)
      BY <2>1 DEF Acquire, table
    <2>2. CASE Skip(d, r)
      BY <2>2 DEF Skip, table
    <2>3. QED
      BY <1>4, <2>1, <2>2
  <1>5. ASSUME NEW d \in Drains, DispatchOk(d) \/ DispatchRaises(d) PROVE TypeOK'
    <2>1. cur[d] \in Rows
      BY <1>5 DEF DispatchOk, DispatchRaises, HandInv, Busy
    <2>2. effect' \in SUBSET Rows
      BY <1>5, <2>1 DEF DispatchOk, DispatchRaises
    <2>3. pc' \in [Drains -> {"idle", "next", "dispatch", "mark", "record"}]
      BY <1>5 DEF DispatchOk, DispatchRaises
    <2>4. UNCHANGED <<row, attempts, retryIn, lockLeft, batch, seen, cur, age>>
      BY <1>5 DEF DispatchOk, DispatchRaises, table
    <2>5. QED
      BY <2>2, <2>3, <2>4
  <1>6. ASSUME NEW d \in Drains, Mark(d) \/ MarkRaises(d) PROVE TypeOK'
    <2>1. ASSUME SetDelivered(cur[d]) \/ UNCHANGED table
          PROVE  /\ row' \in [Rows -> {"absent", "undelivered", "delivered"}]
                 /\ attempts' \in [Rows -> 0..AttemptsCap]
                 /\ retryIn' \in [Rows -> Nat \union {NULL}]
      BY <2>1 DEF SetDelivered, table
    <2>2. CASE Mark(d)
      BY <2>1, <2>2 DEF Mark, Release
    <2>3. CASE MarkRaises(d)
      BY <2>1, <2>3 DEF MarkRaises
    <2>4. QED
      BY <1>6, <2>2, <2>3
  <1>7. ASSUME NEW d \in Drains, Record(d) PROVE TypeOK'
    <2>1. cur[d] \in Rows
      BY <1>7 DEF Record, HandInv, Busy
    <2>2. seen[d][cur[d]] + 1 \in Nat
      BY <2>1
    <2>3. Saturate(seen[d][cur[d]] + 1) \in 0..AttemptsCap
      BY <2>2, DelayFacts
    <2>4. RetryDelay(seen[d][cur[d]] + 1) \in Nat \union {NULL}
      BY <2>2, DelayFacts
    <2>5. attempts' \in [Rows -> 0..AttemptsCap] /\ retryIn' \in [Rows -> Nat \union {NULL}]
      BY <1>7, <2>3, <2>4 DEF Record
    <2>6. QED
      BY <1>7, <2>5 DEF Record, Release
  <1>8. CASE Tick
    <2>1. \A r \in Rows : Countdown(retryIn[r]) \in Nat \union {NULL}
      BY DelayFacts
    <2>2. \A r \in Rows : Countdown(lockLeft[r]) \in 0..LockTTL
      BY DelayFacts
    <2>3. QED
      BY <1>8, <2>1, <2>2 DEF Tick
  <1>9. CASE UNCHANGED vars
    BY <1>9 DEF vars
  <1>10. QED
    BY <1>1, <1>2, <1>3, <1>4, <1>5, <1>6, <1>7, <1>8, <1>9 DEF Next

\* Every step keeps a drain and the row it works on together.
LEMMA HandStep == TypeOK /\ HandInv /\ [Next]_vars => HandInv'
  <1> SUFFICES ASSUME TypeOK, HandInv, [Next]_vars PROVE HandInv'
    OBVIOUS
  <1> USE ConstantFacts DEF TypeOK, HandInv, Busy
  <1>1. ASSUME NEW r \in Rows, Enqueue(r) PROVE HandInv'
    BY <1>1 DEF Enqueue
  <1>2. ASSUME NEW d \in Drains, Select(d) PROVE HandInv'
    BY <1>2 DEF Select, Due, table
  <1>3. ASSUME NEW d \in Drains, Finish(d) \/ Abort(d) PROVE HandInv'
    <2>1. /\ pc' = [pc EXCEPT ![d] = "idle"] /\ batch' = [batch EXCEPT ![d] = {}]
          /\ cur' = [cur EXCEPT ![d] = NoRow] /\ UNCHANGED row
      BY <1>3 DEF Finish, Abort, Stop, table
    <2>2. QED
      BY <2>1
  <1>4. ASSUME NEW d \in Drains, NEW r \in Rows, Acquire(d, r) \/ Skip(d, r) PROVE HandInv'
    <2>1. CASE Acquire(d, r)
      BY <2>1 DEF Acquire, table
    <2>2. CASE Skip(d, r)
      BY <2>2 DEF Skip, table
    <2>3. QED
      BY <1>4, <2>1, <2>2
  <1>5. ASSUME NEW d \in Drains, DispatchOk(d) \/ DispatchRaises(d) PROVE HandInv'
    BY <1>5 DEF DispatchOk, DispatchRaises, table
  <1>6. ASSUME NEW d \in Drains, Mark(d) \/ MarkRaises(d) PROVE HandInv'
    BY <1>6 DEF Mark, MarkRaises, SetDelivered, Release, table
  <1>7. ASSUME NEW d \in Drains, Record(d) PROVE HandInv'
    BY <1>7 DEF Record, Release
  <1>8. CASE Tick
    BY <1>8 DEF Tick
  <1>9. CASE UNCHANGED vars
    BY <1>9 DEF vars
  <1>10. QED
    BY <1>1, <1>2, <1>3, <1>4, <1>5, <1>6, <1>7, <1>8, <1>9 DEF Next

\* No step closes a row, or comes to the point of closing it, without its effect.
LEMMA EffectStep == TypeOK /\ EffectInv /\ [Next]_vars => EffectInv'
  <1> SUFFICES ASSUME TypeOK, EffectInv, [Next]_vars PROVE EffectInv'
    OBVIOUS
  <1> USE DEF TypeOK, EffectInv
  <1>1. ASSUME NEW r \in Rows, Enqueue(r) PROVE EffectInv'
    BY <1>1 DEF Enqueue
  <1>2. ASSUME NEW d \in Drains, Select(d) PROVE EffectInv'
    BY <1>2 DEF Select, table
  <1>3. ASSUME NEW d \in Drains, Finish(d) \/ Abort(d) PROVE EffectInv'
    BY <1>3 DEF Finish, Abort, Stop, table
  <1>4. ASSUME NEW d \in Drains, NEW r \in Rows, Acquire(d, r) \/ Skip(d, r) PROVE EffectInv'
    BY <1>4 DEF Acquire, Skip, table
  <1>5. ASSUME NEW d \in Drains, DispatchOk(d) \/ DispatchRaises(d) PROVE EffectInv'
    BY <1>5 DEF DispatchOk, DispatchRaises, table
  <1>6. ASSUME NEW d \in Drains, Mark(d) \/ MarkRaises(d) PROVE EffectInv'
    BY <1>6 DEF Mark, MarkRaises, SetDelivered, Release, table
  <1>7. ASSUME NEW d \in Drains, Record(d) PROVE EffectInv'
    BY <1>7 DEF Record, Release
  <1>8. CASE Tick
    BY <1>8 DEF Tick
  <1>9. CASE UNCHANGED vars
    BY <1>9 DEF vars
  <1>10. QED
    BY <1>1, <1>2, <1>3, <1>4, <1>5, <1>6, <1>7, <1>8, <1>9 DEF Next

\* While a drain is younger than the TTL, no step of another takes its key away,
\* and time runs for both alike.
LEMMA LockStep == TypeOK /\ HandInv /\ LockInv /\ [Next]_vars => LockInv'
  <1> SUFFICES ASSUME TypeOK, HandInv, LockInv, [Next]_vars PROVE LockInv'
    OBVIOUS
  <1> USE ConstantFacts DEF TypeOK, LockInv
  <1>1. ASSUME NEW r \in Rows, Enqueue(r) PROVE LockInv'
    BY <1>1 DEF Enqueue
  <1>2. ASSUME NEW d \in Drains, Select(d) PROVE LockInv'
    BY <1>2 DEF Select, table
  <1>3. ASSUME NEW d \in Drains, Finish(d) \/ Abort(d) PROVE LockInv'
    BY <1>3 DEF Finish, Abort, Stop, table
  <1>4. ASSUME NEW d \in Drains, NEW r \in Rows, Acquire(d, r) PROVE LockInv'
    \* Whoever else holds r has outlived the TTL: the key of r is gone.
    <2>1. ASSUME NEW e \in Drains, cur[e] = r PROVE age[e] = LockTTL
      <3>1. lockLeft[r] = 0
        BY <1>4 DEF Acquire
      <3>2. age[e] \in Nat /\ age[e] <= LockTTL /\ cur[e] # NoRow
        BY <2>1
      <3>3. age[e] < LockTTL => lockLeft[r] = LockTTL - age[e]
        BY <2>1, <3>2 DEF LockInv
      <3>4. QED
        BY ONLY <3>1, <3>2, <3>3, ConstantFacts
    <2>2. ASSUME NEW e \in Drains, cur'[e] # NoRow, age'[e] < LockTTL
          PROVE  lockLeft'[cur'[e]] = LockTTL - age'[e]
      <3>1. CASE e = d
        BY <1>4, <3>1 DEF Acquire
      <3>2. CASE e # d
        <4>1. cur'[e] = cur[e] /\ age'[e] = age[e]
          BY <1>4, <3>2 DEF Acquire
        <4>2. cur[e] # r
          BY <2>1, <2>2, <4>1
        <4>3. lockLeft'[cur[e]] = lockLeft[cur[e]]
          BY <1>4, <4>2, <2>2, <4>1 DEF Acquire
        <4>4. QED
          BY <2>2, <4>1, <4>3
      <3>3. QED
        BY <3>1, <3>2
    <2>3. QED
      BY <2>2
  <1>5. ASSUME NEW d \in Drains, NEW r \in Rows, Skip(d, r) PROVE LockInv'
    BY <1>5 DEF Skip, table
  <1>6. ASSUME NEW d \in Drains, DispatchOk(d) \/ DispatchRaises(d) PROVE LockInv'
    BY <1>6 DEF DispatchOk, DispatchRaises, table
  <1>7. ASSUME NEW d \in Drains, Mark(d) \/ MarkRaises(d) \/ Record(d) PROVE LockInv'
    BY <1>7 DEF Mark, MarkRaises, Record, Release
  <1>8. CASE Tick
    <2>1. ASSUME NEW d \in Drains, cur[d] # NoRow, age[d] < LockTTL
          PROVE  /\ age'[d] = age[d] + 1
                 /\ lockLeft'[cur[d]] = lockLeft[cur[d]] - 1
      <3>1. cur[d] \in Rows /\ lockLeft[cur[d]] \in Nat /\ lockLeft[cur[d]] > 0
        BY <2>1
      <3>2. lockLeft'[cur[d]] = Countdown(lockLeft[cur[d]])
        BY <1>8, <3>1 DEF Tick
      <3>3. age'[d] = age[d] + 1
        BY <1>8, <2>1 DEF Tick
      <3>4. QED
        BY <3>1, <3>2, <3>3 DEF Countdown
    <2>2. cur' = cur
      BY <1>8 DEF Tick
    <2>3. ASSUME NEW d \in Drains, age'[d] < LockTTL, cur[d] # NoRow PROVE age[d] < LockTTL
      BY <1>8, <2>3 DEF Tick
    <2>4. QED
      BY <2>1, <2>2, <2>3
  <1>9. CASE UNCHANGED vars
    BY <1>9 DEF vars
  <1>10. QED
    BY <1>1, <1>2, <1>3, <1>4, <1>5, <1>6, <1>7, <1>8, <1>9 DEF Next

\* The invariant holds in every reachable state.
THEOREM Invariance == Spec => []IInv
  <1>1. IInv /\ [Next]_vars => IInv'
    BY TypeStep, HandStep, LockStep, EffectStep DEF IInv
  <1>2. QED
    BY InitInv, <1>1, PTL DEF Spec

\* Every variable has its type in every reachable state: in particular no key
\* outlives the TTL it was set with.
THEOREM TypeCorrect == Spec => []TypeOK
  <1>1. IInv => TypeOK
    BY DEF IInv
  <1>2. QED
    BY Invariance, <1>1, PTL

-----------------------------------------------------------------------------
\* NoOverlapWithinTTL is not inductive with LockInv alone: that two drains both
\* count on the key of one row is excluded where the second one takes it.
LEMMA OverlapInit == Init => NoOverlapWithinTTL
  BY ConstantFacts DEF Init, NoOverlapWithinTTL, InFlight

\* No step puts a second drain on a row while both are younger than the TTL: a
\* drain that takes the lock finds no key, so whoever has the row has outlived its own.
LEMMA OverlapStep == IInv /\ NoOverlapWithinTTL /\ [Next]_vars => NoOverlapWithinTTL'
  <1> SUFFICES ASSUME IInv, NoOverlapWithinTTL, [Next]_vars PROVE NoOverlapWithinTTL'
    OBVIOUS
  <1> USE ConstantFacts DEF IInv, TypeOK, NoOverlapWithinTTL, InFlight
  <1>1. ASSUME NEW r \in Rows, Enqueue(r) PROVE NoOverlapWithinTTL'
    BY <1>1 DEF Enqueue
  <1>2. ASSUME NEW d \in Drains, Select(d) PROVE NoOverlapWithinTTL'
    BY <1>2 DEF Select, table
  <1>3. ASSUME NEW d \in Drains, Finish(d) \/ Abort(d) PROVE NoOverlapWithinTTL'
    <2>1. cur' = [cur EXCEPT ![d] = NoRow] /\ age' = [age EXCEPT ![d] = 0]
      BY <1>3 DEF Finish, Abort, Stop
    <2>2. QED
      BY <2>1
  <1>4. ASSUME NEW d \in Drains, NEW r \in Rows, Acquire(d, r) PROVE NoOverlapWithinTTL'
    <2>1. ASSUME NEW e \in Drains, cur[e] = r PROVE age[e] = LockTTL
      <3>1. lockLeft[r] = 0
        BY <1>4 DEF Acquire
      <3>2. age[e] \in Nat /\ age[e] <= LockTTL /\ cur[e] # NoRow
        BY <2>1
      <3>3. age[e] < LockTTL => lockLeft[r] = LockTTL - age[e]
        BY <2>1, <3>2 DEF LockInv
      <3>4. QED
        BY ONLY <3>1, <3>2, <3>3, ConstantFacts
    <2>2. \A e \in Drains : e # d => cur'[e] = cur[e] /\ age'[e] = age[e]
      BY <1>4 DEF Acquire
    <2>3. cur'[d] = r
      BY <1>4 DEF Acquire
    <2>4. QED
      BY <2>1, <2>2, <2>3
  <1>5. ASSUME NEW d \in Drains, NEW r \in Rows, Skip(d, r) PROVE NoOverlapWithinTTL'
    BY <1>5 DEF Skip, table
  <1>6. ASSUME NEW d \in Drains, DispatchOk(d) \/ DispatchRaises(d) PROVE NoOverlapWithinTTL'
    BY <1>6 DEF DispatchOk, DispatchRaises, table
  <1>7. ASSUME NEW d \in Drains, Mark(d) \/ MarkRaises(d) \/ Record(d) PROVE NoOverlapWithinTTL'
    BY <1>7 DEF Mark, MarkRaises, Record, Release
  <1>8. CASE Tick
    BY <1>8 DEF Tick
  <1>9. CASE UNCHANGED vars
    BY <1>9 DEF vars
  <1>10. QED
    BY <1>1, <1>2, <1>3, <1>4, <1>5, <1>6, <1>7, <1>8, <1>9 DEF Next

\* For any number of drains and rows and any TTL: two drains share a row only
\* after one of them has held it for the whole TTL of its lock.
THEOREM LockSafety == Spec => []NoOverlapWithinTTL
  BY OverlapInit, OverlapStep, Invariance, PTL DEF Spec

-----------------------------------------------------------------------------
\* What the steps of a drain are to the promise.
LEMMA PromiseOfTake ==
  ASSUME IInv, NEW d \in Drains, NEW r \in Rows, Acquire(d, r)
  PROVE  Promise!Take(d, r)
<1> USE DEF IInv, TypeOK
<1>1. cur[d] = NoRow /\ row[r] # "absent"
  BY DEF Acquire, HandInv, Busy
<1>2. Marking' = Marking
  BY DEF Acquire, Marking
<1> QED BY <1>1, <1>2 DEF Acquire, table, Promise!Take

LEMMA PromiseOfDispatch ==
  ASSUME IInv, NEW d \in Drains, DispatchOk(d) \/ DispatchRaises(d)
  PROVE  Promise!Perform(d) \/ UNCHANGED Promise!vars
<1> USE DEF IInv, TypeOK
<1>1. cur[d] # NoRow /\ pc[d] = "dispatch"
  BY DEF DispatchOk, DispatchRaises, HandInv, Busy
<1>2. CASE DispatchOk(d)
  <2>1. Marking' = Marking \union {d}
    BY <1>2 DEF DispatchOk, Marking
  <2> QED BY <1>1, <1>2, <2>1 DEF DispatchOk, table, Promise!Perform
<1>3. CASE DispatchRaises(d)
  <2>1. Marking' = Marking
    BY <1>1, <1>3 DEF DispatchRaises, Marking
  <2> QED BY <1>1, <1>3, <2>1 DEF DispatchRaises, table, Promise!Perform, Promise!vars
<1> QED BY <1>2, <1>3

LEMMA PromiseOfMark ==
  ASSUME IInv, NEW d \in Drains, Mark(d) \/ MarkRaises(d)
  PROVE  Promise!Close(d) \/ Promise!GiveUp(d)
<1> USE DEF IInv, TypeOK
<1>1. d \in Marking /\ cur[d] # NoRow
  BY DEF Mark, MarkRaises, Marking, HandInv, Busy
<1>2. Marking' = Marking \ {d}
  BY DEF Mark, MarkRaises, Release, Marking
<1>3. Promise!LetGo(d)
  BY <1>2 DEF Mark, MarkRaises, Release, Promise!LetGo
<1>4. /\ UNCHANGED effect
      /\ row' = [row EXCEPT ![cur[d]] = "delivered"] \/ UNCHANGED row
  BY DEF Mark, MarkRaises, SetDelivered, table
<1> QED BY <1>1, <1>3, <1>4 DEF Promise!Close, Promise!GiveUp

LEMMA PromiseOfRelease ==
  ASSUME IInv, NEW d \in Drains, Record(d) \/ Finish(d) \/ Abort(d)
  PROVE  Promise!GiveUp(d) \/ UNCHANGED Promise!vars
<1> USE DEF IInv, TypeOK
<1>1. /\ UNCHANGED <<row, effect>>
      /\ cur' = [cur EXCEPT ![d] = NoRow]
      /\ pc' \in {[pc EXCEPT ![d] = "next"], [pc EXCEPT ![d] = "idle"]}
  BY DEF Record, Release, Finish, Abort, Stop, table
<1>2. Marking' = Marking \ {d}
  BY <1>1 DEF Marking
<1>3. CASE cur[d] # NoRow
  BY <1>1, <1>2, <1>3 DEF Promise!GiveUp, Promise!LetGo
<1>4. CASE cur[d] = NoRow
  <2>1. cur' = cur
    BY <1>1, <1>4
  <2>2. d \notin Marking
    BY <1>4 DEF Marking, HandInv, Busy
  <2> QED BY <1>1, <1>2, <2>1, <2>2 DEF Promise!vars
<1> QED BY <1>3, <1>4

\* The dispatcher implements the abstract outbox: every step enqueues, takes a row in
\* hand, performs its effect, closes it after that, lets go of it, or leaves all alone.
THEOREM Refinement == Spec => ImplementsPromise
<1>1. Init => Promise!Init
  BY DEF Init, Promise!Init, Marking
<1>2. IInv /\ [Next]_vars => [Promise!Next]_Promise!vars
  <2> SUFFICES ASSUME IInv, [Next]_vars PROVE [Promise!Next]_Promise!vars
    OBVIOUS
  <2>1. ASSUME NEW r \in Rows, Enqueue(r) PROVE Promise!Next
    <3>1. Promise!Enqueue({r})
      BY <2>1 DEF Enqueue, Promise!Enqueue, Marking, IInv, TypeOK
    <3> QED BY <3>1 DEF Promise!Next
  <2>2. ASSUME NEW d \in Drains,
               Select(d) \/ \E r \in Rows : Skip(d, r)
        PROVE  UNCHANGED Promise!vars
    <3>1. UNCHANGED <<row, effect, cur>>
      BY <2>2 DEF Select, Skip, table
    <3>2. Marking' = Marking
      BY <2>2 DEF Select, Skip, Marking, IInv, TypeOK
    <3> QED BY <3>1, <3>2 DEF Promise!vars
  <2>3. ASSUME Tick \/ UNCHANGED vars PROVE UNCHANGED Promise!vars
    BY <2>3 DEF Tick, vars, Marking, Promise!vars
  <2>4. ASSUME NEW d \in Drains, NEW r \in Rows, Acquire(d, r) PROVE Promise!Next
    BY <2>4, PromiseOfTake DEF Promise!Next
  <2>5. ASSUME NEW d \in Drains, DispatchOk(d) \/ DispatchRaises(d)
        PROVE  [Promise!Next]_Promise!vars
    BY <2>5, PromiseOfDispatch DEF Promise!Next
  <2>6. ASSUME NEW d \in Drains, Mark(d) \/ MarkRaises(d) PROVE Promise!Next
    BY <2>6, PromiseOfMark DEF Promise!Next
  <2>7. ASSUME NEW d \in Drains, Record(d) \/ Finish(d) \/ Abort(d)
        PROVE  [Promise!Next]_Promise!vars
    BY <2>7, PromiseOfRelease DEF Promise!Next
  <2> QED BY <2>1, <2>2, <2>3, <2>4, <2>5, <2>6, <2>7 DEF Next
<1> QED BY <1>1, <1>2, Invariance, PTL DEF Spec, ImplementsPromise, Promise!Spec

-----------------------------------------------------------------------------
\* No step of a drain brings back a closed row that nobody holds any more: only
\* Select fills a batch, and it does not select closed rows.
LEMMA StaysOut ==
  ASSUME IInv, [Next]_vars, NEW r \in Rows, row[r] = "delivered", OutOfHand(r)
  PROVE  row'[r] = "delivered" /\ OutOfHand(r)'
<1> USE ConstantFacts DEF IInv, TypeOK, OutOfHand, InFlight
<1>1. ASSUME NEW q \in Rows, Enqueue(q) PROVE row'[r] = "delivered" /\ OutOfHand(r)'
  BY <1>1 DEF Enqueue
<1>2. ASSUME NEW d \in Drains, Select(d) PROVE row'[r] = "delivered" /\ OutOfHand(r)'
  <2>1. ~Due(r)
    BY DEF Due
  <2> QED BY <1>2, <2>1 DEF Select, table
<1>3. ASSUME NEW d \in Drains, Finish(d) \/ Abort(d)
      PROVE  row'[r] = "delivered" /\ OutOfHand(r)'
  BY <1>3 DEF Finish, Abort, Stop, table
<1>4. ASSUME NEW d \in Drains, NEW q \in Rows, Acquire(d, q) \/ Skip(d, q)
      PROVE  row'[r] = "delivered" /\ OutOfHand(r)'
  BY <1>4 DEF Acquire, Skip, table
<1>5. ASSUME NEW d \in Drains, DispatchOk(d) \/ DispatchRaises(d)
      PROVE  row'[r] = "delivered" /\ OutOfHand(r)'
  BY <1>5 DEF DispatchOk, DispatchRaises, table
<1>6. ASSUME NEW d \in Drains, Mark(d) \/ MarkRaises(d) \/ Record(d)
      PROVE  row'[r] = "delivered" /\ OutOfHand(r)'
  BY <1>6 DEF Mark, MarkRaises, Record, SetDelivered, Release, table
<1>7. CASE Tick \/ UNCHANGED vars
  BY <1>7 DEF Tick, vars
<1> QED BY <1>1, <1>2, <1>3, <1>4, <1>5, <1>6, <1>7 DEF Next

\* What is left of RedeliveryEnds without fairness, for any number of drains: once
\* a closed row has left every snapshot, it is never dispatched again, although a
\* drain that came late may have written attempts and next_retry_at over it.
THEOREM NoRevival ==
  Spec => \A r \in Rows : [](row[r] = "delivered" /\ OutOfHand(r) => []OutOfHand(r))
<1> SUFFICES ASSUME NEW r \in Rows
             PROVE  Spec => [](row[r] = "delivered" /\ OutOfHand(r) => []OutOfHand(r))
  OBVIOUS
<1> DEFINE Gone == row[r] = "delivered" /\ OutOfHand(r)
<1>1. IInv /\ [Next]_vars /\ Gone => Gone'
  BY StaysOut
<1>2. Gone => OutOfHand(r)
  OBVIOUS
<1> QED BY <1>1, <1>2, Invariance, PTL DEF Spec
=============================================================================
