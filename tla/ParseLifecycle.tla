---------------------------- MODULE ParseLifecycle ----------------------------
(***************************************************************************)
(* What a recruiter may rely on when polling the status of CV parse jobs.  *)
(* A job is queued once; it moves forward through the pipeline; completed  *)
(* is final, whatever fails, retries or restarts afterwards; and an erased *)
(* job never comes back.  A failed job is final as well unless processes   *)
(* overlap: then the boot of one may fail a job that another still runs.   *)
(***************************************************************************)
CONSTANTS
  Jobs,     \* identities of parse jobs
  Overlap   \* several server processes share the database

VARIABLES
  status,   \* the status column of each job, "absent" without a row
  used      \* the jobs that were ever queued

Init ==
  /\ status = [j \in Jobs |-> "absent"]
  /\ used = {}

\* Job j moves to status s from one of the statuses in From.
Move(j, From, s) ==
  /\ status[j] \in From
  /\ status' = [status EXCEPT ![j] = s]
  /\ UNCHANGED used

Resumable == IF Overlap THEN {"failed"} ELSE {}

Queue(j) ==
  /\ j \notin used /\ used' = used \cup {j}
  /\ status' = [status EXCEPT ![j] = "queued"]

Extract(j)  == Move(j, {"queued"}, "extracting")
Parse(j)    == Move(j, {"extracting"} \cup Resumable, "parsing")
Complete(j) == Move(j, {"parsing"} \cup Resumable, "completed")
Fail(j)     == Move(j, {"extracting", "parsing"} \cup Resumable, "failed")

Restart ==
  /\ status' = [j \in Jobs |-> IF status[j] \in {"extracting", "parsing"}
                               THEN "failed" ELSE status[j]]
  /\ UNCHANGED used

Erase ==
  /\ status' = [j \in Jobs |-> "absent"]
  /\ UNCHANGED used

Next ==
  \/ \E j \in Jobs : Queue(j) \/ Extract(j) \/ Parse(j) \/ Complete(j) \/ Fail(j)
  \/ Restart
  \/ Erase

Spec == Init /\ [][Next]_<<status, used>>
=============================================================================
