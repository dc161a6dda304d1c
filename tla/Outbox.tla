------------------------------- MODULE Outbox -------------------------------
(***************************************************************************)
(* The outbox dispatcher (packages/dispatcher/outbox_worker.py): drains    *)
(* that celery beat starts every few seconds, possibly several at a time,  *)
(* each over a snapshot of the due rows of onramp_outbox, with one Redis   *)
(* lock per row (SET NX EX, never released) and a backoff schedule.        *)
(*                                                                         *)
(* Time is counted down: lockLeft[r] is what is left of the lock's TTL and *)
(* retryIn[r] how long until next_retry_at; Tick lets one unit of time     *)
(* pass for all of them.  The clocks of the worker processes are taken to  *)
(* agree.  attempts is kept modulo saturation at AttemptsCap: beyond it    *)
(* backoff_for answers None for every value, so no step can tell them      *)
(* apart.                                                                  *)
(***************************************************************************)
EXTENDS Naturals, Sequences, FiniteSets

CONSTANTS Rows,      \* outbox_id values
          Drains,    \* worker processes that can run the drain task
          Poison,    \* rows whose delivery handler raises every time
          Backoff,   \* BACKOFF_SCHEDULE_SECONDS
          LockTTL,   \* LOCK_TTL_SECONDS
          BatchSize, \* BATCH_SIZE
          NULL,      \* SQL NULL, in next_retry_at
          NoRow      \* no row in hand

ASSUME ScheduleAssumption == /\ Backoff \in Seq(Nat \ {0})
                             /\ LockTTL \in Nat \ {0}
                             /\ BatchSize \in Nat \ {0}
ASSUME RowsAssumption == /\ Poison \subseteq Rows
                         /\ NoRow \notin Rows
                         /\ NULL \notin Nat

MaxAttempts == Len(Backoff)
AttemptsCap == MaxAttempts + 1

VARIABLES
  row,       \* the table: "absent", "undelivered" (delivered_at IS NULL), "delivered"
  attempts,  \* OnrampOutbox.attempts
  retryIn,   \* time until next_retry_at, 0 when it has passed, or NULL
  lockLeft,  \* what is left of the TTL of the row's Redis key, 0 when there is none
  pc,        \* where each drain stands: "idle", "next", "dispatch", "mark", "record"
  batch,     \* the rows of its snapshot that a drain has not looked at yet
  seen,      \* the attempts its snapshot holds
  cur,       \* the row it has locked and is working on, or NoRow
  \* History, which no action reads:
  effect,    \* rows whose external effect happened at least once
  age        \* time since the drain took the lock of cur, up to LockTTL

table == <<row, attempts, retryIn>>
vars  == <<row, attempts, retryIn, lockLeft, pc, batch, seen, cur, effect, age>>

InFlight(d, r) == cur[d] = r

TypeOK == /\ row \in [Rows -> {"absent", "undelivered", "delivered"}]
          /\ attempts \in [Rows -> 0..AttemptsCap]
          /\ retryIn \in [Rows -> Nat \union {NULL}]
          /\ lockLeft \in [Rows -> 0..LockTTL]
          /\ pc \in [Drains -> {"idle", "next", "dispatch", "mark", "record"}]
          /\ batch \in [Drains -> SUBSET Rows]
          /\ seen \in [Drains -> [Rows -> 0..AttemptsCap]]
          /\ cur \in [Drains -> Rows \union {NoRow}]
          /\ effect \in SUBSET Rows
          /\ age \in [Drains -> 0..LockTTL]

Init == /\ row = [r \in Rows |-> "absent"]
        /\ attempts = [r \in Rows |-> 0]
        /\ retryIn = [r \in Rows |-> NULL]
        /\ lockLeft = [r \in Rows |-> 0]
        /\ pc = [d \in Drains |-> "idle"]
        /\ batch = [d \in Drains |-> {}]
        /\ seen = [d \in Drains |-> [r \in Rows |-> 0]]
        /\ cur = [d \in Drains |-> NoRow]
        /\ effect = {}
        /\ age = [d \in Drains |-> 0]

-----------------------------------------------------------------------------
\* backoff_for(next_attempts - 1): the schedule counts from 0, Backoff from 1.
RetryDelay(nextAttempts) ==
  IF nextAttempts \in 1..MaxAttempts THEN Backoff[nextAttempts] ELSE NULL

Saturate(n) == IF n > AttemptsCap THEN AttemptsCap ELSE n

Countdown(n) == IF n \in Nat /\ n > 0 THEN n - 1 ELSE n

\* Mutation of Due: the WHERE clause without "delivered_at IS NULL".
DueAlsoDelivered(r) == row[r] # "absent" /\ retryIn[r] \in {NULL, 0}

\* Mutation of Due: the WHERE clause without "next_retry_at IS NULL".
DueNotNull(r) == row[r] = "undelivered" /\ retryIn[r] = 0

\* The WHERE clause of the drain's SELECT: a NULL next_retry_at is due.
Due(r) == row[r] = "undelivered" /\ retryIn[r] \in {NULL, 0}

\* enqueue_outbox_event, committed with its caller's transaction.
Enqueue(r) ==
  /\ row[r] = "absent"
  /\ row' = [row EXCEPT ![r] = "undelivered"]
  /\ UNCHANGED <<attempts, retryIn, lockLeft, pc, batch, seen, cur, effect, age>>

\* The snapshot: at most BatchSize due rows, in no order; the transaction that
\* reads them ends here, so they can change before the drain comes to them.
Select(d) ==
  /\ pc[d] = "idle"
  /\ \E S \in SUBSET {r \in Rows : Due(r)} :
       /\ Cardinality(S) <= BatchSize
       /\ Cardinality(S) = BatchSize \/ \A r \in Rows : Due(r) => r \in S
       /\ batch' = [batch EXCEPT ![d] = S]
       /\ seen' = [seen EXCEPT ![d] = [r \in Rows |-> IF r \in S THEN attempts[r] ELSE 0]]
  /\ pc' = [pc EXCEPT ![d] = "next"]
  /\ UNCHANGED <<table, lockLeft, cur, effect, age>>

\* Mutation of Acquire: SET EX without NX.
AcquireWithoutNX(d, r) ==
  /\ pc[d] = "next" /\ r \in batch[d]
  /\ lockLeft' = [lockLeft EXCEPT ![r] = LockTTL]
  /\ batch' = [batch EXCEPT ![d] = @ \ {r}]
  /\ cur' = [cur EXCEPT ![d] = r]
  /\ age' = [age EXCEPT ![d] = 0]
  /\ pc' = [pc EXCEPT ![d] = "dispatch"]
  /\ UNCHANGED <<table, seen, effect>>

\* _acquire_lock answers True: SET NX EX found no key.
Acquire(d, r) ==
  /\ pc[d] = "next" /\ r \in batch[d]
  /\ lockLeft[r] = 0
  /\ lockLeft' = [lockLeft EXCEPT ![r] = LockTTL]
  /\ batch' = [batch EXCEPT ![d] = @ \ {r}]
  /\ cur' = [cur EXCEPT ![d] = r]
  /\ age' = [age EXCEPT ![d] = 0]
  /\ pc' = [pc EXCEPT ![d] = "dispatch"]
  /\ UNCHANGED <<table, seen, effect>>

\* Mutation of Skip: a refused SET prolongs the key it found.
SkipProlongs(d, r) ==
  /\ pc[d] = "next" /\ r \in batch[d]
  /\ lockLeft[r] > 0
  /\ lockLeft' = [lockLeft EXCEPT ![r] = @ + LockTTL]
  /\ batch' = [batch EXCEPT ![d] = @ \ {r}]
  /\ UNCHANGED <<table, pc, seen, cur, effect, age>>

\* _acquire_lock answers False: skipped, until a later drain.
Skip(d, r) ==
  /\ pc[d] = "next" /\ r \in batch[d]
  /\ lockLeft[r] > 0
  /\ batch' = [batch EXCEPT ![d] = @ \ {r}]
  /\ UNCHANGED <<table, lockLeft, pc, seen, cur, effect, age>>

\* The handler returns.
DispatchOk(d) ==
  /\ pc[d] = "dispatch" /\ cur[d] \notin Poison
  /\ effect' = effect \union {cur[d]}
  /\ pc' = [pc EXCEPT ![d] = "mark"]
  /\ UNCHANGED <<table, lockLeft, batch, seen, cur, age>>

\* Mutation of DispatchRaises: the exception is swallowed.
DispatchRaisesUnseen(d) ==
  /\ pc[d] = "dispatch"
  /\ pc' = [pc EXCEPT ![d] = "mark"]
  /\ UNCHANGED <<table, lockLeft, batch, seen, cur, effect, age>>

\* The handler raises; a timeout may come after the effect has happened.
DispatchRaises(d) ==
  /\ pc[d] = "dispatch"
  /\ \/ UNCHANGED effect
     \/ cur[d] \notin Poison /\ effect' = effect \union {cur[d]}
  /\ pc' = [pc EXCEPT ![d] = "record"]
  /\ UNCHANGED <<table, lockLeft, batch, seen, cur, age>>

\* On to the next row of the snapshot.  The lock is left to expire.
Release(d) == /\ cur' = [cur EXCEPT ![d] = NoRow]
              /\ age' = [age EXCEPT ![d] = 0]
              /\ pc' = [pc EXCEPT ![d] = "next"]

\* The UPDATE after a success: delivered_at = now, next_retry_at = NULL.
SetDelivered(r) == /\ row' = [row EXCEPT ![r] = "delivered"]
                   /\ retryIn' = [retryIn EXCEPT ![r] = NULL]
                   /\ UNCHANGED attempts

Mark(d) ==
  /\ pc[d] = "mark"
  /\ SetDelivered(cur[d])
  /\ Release(d)
  /\ UNCHANGED <<lockLeft, batch, seen, effect>>

\* That UPDATE raises, before or after the server has committed it: the same
\* except clause as a failed dispatch follows.
MarkRaises(d) ==
  /\ pc[d] = "mark"
  /\ SetDelivered(cur[d]) \/ UNCHANGED table
  /\ pc' = [pc EXCEPT ![d] = "record"]
  /\ UNCHANGED <<lockLeft, batch, seen, cur, effect, age>>

\* The except clause: attempts and next_retry_at from the attempts of the
\* SNAPSHOT, written to the row whatever it has become since.
Record(d) ==
  LET r == cur[d]
      nextAttempts == seen[d][r] + 1
  IN /\ pc[d] = "record"
     /\ attempts' = [attempts EXCEPT ![r] = Saturate(nextAttempts)]
     /\ retryIn' = [retryIn EXCEPT ![r] = RetryDelay(nextAttempts)]
     /\ Release(d)
     /\ UNCHANGED <<row, lockLeft, batch, seen, effect>>

\* The drain is over: its counters are returned, engine and client closed.
\* It also ends early, and leaves the rest of its snapshot: the worker is
\* killed, or Redis or the UPDATE of the except clause raises.
Stop(d) ==
  /\ pc' = [pc EXCEPT ![d] = "idle"]
  /\ batch' = [batch EXCEPT ![d] = {}]
  /\ seen' = [seen EXCEPT ![d] = [r \in Rows |-> 0]]
  /\ cur' = [cur EXCEPT ![d] = NoRow]
  /\ age' = [age EXCEPT ![d] = 0]
  /\ UNCHANGED <<table, lockLeft, effect>>
Finish(d) == pc[d] = "next" /\ batch[d] = {} /\ Stop(d)
Abort(d)  == pc[d] # "idle" /\ Stop(d)

\* Mutation of Tick: SET NX without EX, keys never expire.
TickKeepingLocks ==
  /\ retryIn' = [r \in Rows |-> Countdown(retryIn[r])]
  /\ UNCHANGED <<row, attempts, lockLeft, pc, batch, seen, cur, effect, age>>

\* One unit of time passes: keys expire, retries come due.
Tick ==
  /\ lockLeft' = [r \in Rows |-> Countdown(lockLeft[r])]
  /\ retryIn' = [r \in Rows |-> Countdown(retryIn[r])]
  /\ age' = [d \in Drains |-> IF cur[d] # NoRow /\ age[d] < LockTTL
                              THEN age[d] + 1 ELSE age[d]]
  /\ UNCHANGED <<row, attempts, pc, batch, seen, cur, effect>>

Next == \/ \E r \in Rows : Enqueue(r)
        \/ \E d \in Drains : \/ Select(d) \/ Finish(d) \/ Abort(d)
                             \/ \E r \in Rows : Acquire(d, r) \/ Skip(d, r)
                             \/ DispatchOk(d) \/ DispatchRaises(d)
                             \/ Mark(d) \/ MarkRaises(d) \/ Record(d)
        \/ Tick

Spec == Init /\ [][Next]_vars

\* Beat keeps starting drains, a drain that runs goes on or dies, time passes;
\* and of the world outside, only that what is tried for ever succeeds at last.
DrainStep(d) == \/ Finish(d) \/ Abort(d) \/ \E r \in Rows : Acquire(d, r) \/ Skip(d, r)
                \/ DispatchOk(d) \/ DispatchRaises(d)
                \/ Mark(d) \/ MarkRaises(d) \/ Record(d)
Fairness == /\ WF_vars(Tick)
            /\ \A d \in Drains : WF_vars(Select(d)) /\ WF_vars(DrainStep(d))
            /\ \A r \in Rows :
                 /\ SF_vars(\E d \in Drains : Acquire(d, r))
                 /\ SF_vars(\E d \in Drains : cur[d] = r /\ DispatchOk(d))
                 /\ SF_vars(\E d \in Drains : cur[d] = r /\ Mark(d))
FairSpec == Spec /\ Fairness

-----------------------------------------------------------------------------
\* Two drains are at work on one row only when the lock of one of them has run
\* out under it: a handler, or the UPDATE after it, that took LOCK_TTL_SECONDS.
NoOverlapWithinTTL ==
  \A d, e \in Drains : \A r \in Rows :
    d # e /\ InFlight(d, r) /\ InFlight(e, r) => age[d] = LockTTL \/ age[e] = LockTTL

\* Every row whose handler can succeed is delivered in the end, whatever drains
\* die, however often the handler and the database fail on the way, and although
\* rows that can never be delivered stay due beside it, as long as the due rows
\* fit into one batch.
EventuallyDelivered ==
  \A r \in Rows \ Poison : row[r] = "undelivered" ~> row[r] = "delivered"

\* A closed row is dispatched again by drains that still hold it in an older
\* snapshot, and their except clause writes attempts and next_retry_at over it;
\* but that comes to an end: no such write makes the row due once more.
OutOfHand(r) == \A d \in Drains : r \notin batch[d] /\ ~InFlight(d, r)
RedeliveryEnds == \A r \in Rows : row[r] = "delivered" ~> []OutOfHand(r)

\* The dispatcher keeps the promise of an outbox: whatever interleaving of
\* drains, failures and expiries, a row is closed by a drain that has performed its
\* effect, and stays closed.
Marking == {d \in Drains : pc[d] = "mark"}
Promise == INSTANCE DeliveryPromise WITH hand <- cur, done <- Marking
ImplementsPromise == Promise!Spec

\* "Exponential backoff: 5s -> 30s -> 5m ...": a row that has failed is dispatched
\* again when its delay has passed and not before.  A drain that selected it before
\* it failed refutes this: when the lock has run out, it takes the row at once.
BackoffHonoured ==
  [][\A d \in Drains : \A r \in Rows :
       ~InFlight(d, r) /\ InFlight(d, r)' => retryIn[r] \in {NULL, 0}]_vars

\* "Beyond 6 attempts the dispatcher gives up": a row that has used up the
\* schedule is not taken in hand again.
GivesUp == \A d \in Drains : \A r \in Rows : InFlight(d, r) => attempts[r] <= MaxAttempts
=============================================================================
