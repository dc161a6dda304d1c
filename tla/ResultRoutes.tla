---------------------------- MODULE ResultRoutes ----------------------------
(***************************************************************************)
(* The API routes that read a job while Delivery.tla moves its result:     *)
(* status and result (apps/api/routes/jobs.py), job, result-url and the    *)
(* two of review (intake.py), audit (audit.py).  Each has one SQLAlchemy   *)
(* session for the request.  A statement on a session without a            *)
(* transaction begins one (autobegin), and session.begin() raises          *)
(* InvalidRequestError when one is already there, which the client sees as *)
(* a 500.  Requests that are refused before they reach the database (422   *)
(* of post_review, 403 of the audit route) are left out.                   *)
(***************************************************************************)
EXTENDS Delivery

CONSTANT Clients  \* requests the API serves at a time

VARIABLES rpc,           \* "idle", "job", "output", "list", "commit", "sign", "record"
          route, target, \* the route and the job asked for, also after the answer
          tx,            \* the session has a transaction
          answer,        \* the last answer, "-" before any: a status code, or "missing"
                         \* for the second 409 of job_result; "500" is that of
                         \* InvalidRequestError, "raised" that of any other exception
          reviewed       \* jobs with a row in onramp_intake_reviews

routes == <<rpc, route, target, tx, answer, reviewed>>
vars == <<dvars, routes>>

Routes == {"status", "result", "job", "result_url", "reviews", "review", "audit"}

TypeOK == /\ DeliveryTypeOK
          /\ rpc \in [Clients -> {"idle", "job", "output", "list", "commit", "sign", "record"}]
          /\ route \in [Clients -> Routes]
          /\ target \in [Clients -> Jobs \union {NoJob}]
          /\ tx \in [Clients -> BOOLEAN]
          /\ answer \in [Clients -> {"-", "200", "404", "409", "missing", "500", "raised"}]
          /\ reviewed \in SUBSET Jobs

Init == /\ DeliveryInit
        /\ rpc = [c \in Clients |-> "idle"]
        /\ route = [c \in Clients |-> "status"]
        /\ target = [c \in Clients |-> NoJob]
        /\ tx = [c \in Clients |-> FALSE]
        /\ answer = [c \in Clients |-> "-"]
        /\ reviewed = {}

-----------------------------------------------------------------------------

\* The dependency closes the session with the request.
Answer(c, code) == /\ answer' = [answer EXCEPT ![c] = code]
                   /\ rpc' = [rpc EXCEPT ![c] = "idle"]
                   /\ tx' = [tx EXCEPT ![c] = FALSE]
                   /\ UNCHANGED <<route, target>>

Go(c, pc, begun) == /\ rpc' = [rpc EXCEPT ![c] = pc]
                    /\ tx' = [tx EXCEPT ![c] = begun]
                    /\ UNCHANGED <<route, target, answer>>

Ask(c, rt, j) ==
  /\ rpc[c] = "idle"
  /\ rpc' = [rpc EXCEPT ![c] = IF rt = "audit" THEN "record" ELSE "job"]
  /\ route' = [route EXCEPT ![c] = rt]
  /\ target' = [target EXCEPT ![c] = j]
  /\ answer' = [answer EXCEPT ![c] = "-"]
  /\ UNCHANGED <<dvars, tx, reviewed>>

NeedsCompleted(c) == route[c] \in {"result", "result_url"}

\* A mutant: the routes of intake.py do not end the implicit transaction, as
\* before the fix of Defect 12.
AfterReadUnfixed(c) == CASE route[c] = "result" -> "output"
                         [] route[c] = "reviews" -> "list"
                         [] OTHER -> "record"

\* What follows the read of the job: get_result_url and post_review commit.
AfterRead(c) == CASE route[c] = "result" -> "output"
                  [] route[c] = "reviews" -> "list"
                  [] route[c] \in {"result_url", "review"} -> "commit"
                  [] OTHER -> "record"

\* get_job_status, or the SELECT of the review routes: the session begins by itself.
\* For get_intake_job it is all there is.
ReadJob(c) ==
  LET status == job[target[c]]
  IN /\ rpc[c] = "job"
     /\ \/ status = "none" /\ Answer(c, "404")
        \/ status \notin {"none", "completed"} /\ NeedsCompleted(c) /\ Answer(c, "409")
        \/ status # "none" /\ route[c] = "job" /\ Answer(c, "200")
        \/ /\ status # "none" /\ route[c] # "job"
           /\ NeedsCompleted(c) => status = "completed"
           /\ Go(c, AfterRead(c), TRUE)
     /\ UNCHANGED <<dvars, reviewed>>

\* job_result reads the output in a statement of its own: the sweep may come
\* between the two.
ReadOutput(c) ==
  /\ rpc[c] = "output"
  /\ IF target[c] \in output THEN Go(c, "record", TRUE) ELSE Answer(c, "missing")
  /\ UNCHANGED <<dvars, reviewed>>

\* list_reviews reads the reviews and answers; nothing is recorded of it.
ReadReviews(c) ==
  /\ rpc[c] = "list"
  /\ Answer(c, "200")
  /\ UNCHANGED <<dvars, reviewed>>

CommitRead(c) ==
  /\ rpc[c] = "commit"
  /\ Go(c, IF route[c] = "result_url" THEN "sign" ELSE "record", FALSE)
  /\ UNCHANGED <<dvars, reviewed>>

\* generate_v4_signed_url, which asks the IAM service, between the two transactions.
Sign(c) ==
  /\ rpc[c] = "sign"
  /\ Go(c, "record", FALSE) \/ Answer(c, "raised")
  /\ UNCHANGED <<dvars, reviewed>>

\* async with session.begin(): the rows of the request and their commit.  The
\* audit route reads the job in here; _record_access is called with the
\* transaction of the read still open; a second review of a lane meets the unique
\* (job_id, lane_id), and takes its audit_log row with it.
Record(c) ==
  /\ rpc[c] = "record"
  /\ \/ tx[c] /\ Answer(c, "500") /\ UNCHANGED reviewed
     \/ /\ ~tx[c] /\ job[target[c]] = "none"
        /\ Answer(c, "404") /\ UNCHANGED reviewed
     \/ /\ ~tx[c] /\ route[c] = "review" /\ target[c] \in reviewed
        /\ Answer(c, "raised") /\ UNCHANGED reviewed
     \/ /\ ~tx[c] /\ job[target[c]] # "none"
        /\ Answer(c, "200")
        /\ reviewed' = IF route[c] = "review" THEN reviewed \union {target[c]} ELSE reviewed
  /\ UNCHANGED dvars

Serve(c) == \/ \E rt \in Routes, j \in Jobs : Ask(c, rt, j)
            \/ ReadJob(c) \/ ReadOutput(c) \/ ReadReviews(c)
            \/ CommitRead(c) \/ Sign(c) \/ Record(c)

Next == \/ DeliveryNext /\ UNCHANGED routes
        \/ \E c \in Clients : Serve(c)

Spec == Init /\ [][Next]_vars
FairSpec == Spec /\ DeliveryFairness

-----------------------------------------------------------------------------
(* Properties.                                                             *)

\* A client is told that a completed job has no output only when the sweep has
\* archived it, though status and output are read apart (job_result, 409
\* completed_job_missing_output).
MissingOnlyWhenArchived ==
  \A c \in Clients : answer[c] = "missing" => target[c] \in archive

\* Only the two routes of jobs.py begin a transaction on a session that has one;
\* the routes of intake.py and audit.py never do (Defect 12), whatever other
\* exceptions they meet.
OnlyJobRoutesRaise ==
  \A c \in Clients : answer[c] = "500" => route[c] \in {"status", "result"}
=============================================================================
