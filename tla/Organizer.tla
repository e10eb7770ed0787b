-------------------------------- MODULE Organizer --------------------------------
(***************************************************************************)
(* The organizer: the schedule of each user for a day, and the tasks shown *)
(* beside it.  Two columns of a row belong together in both: the times of  *)
(* a schedule are kept only with a working status, and a task has a date   *)
(* of completion when it is completed.  The ORM writes each column on its  *)
(* own, when it differs from what the request read.                        *)
(*                                                                         *)
(* One day stands for all.  Notes, and the texts, due dates and assignees  *)
(* of tasks, are left out.  Tasks are named after their first request.     *)
(***************************************************************************)
EXTENDS Requests

CONSTANTS Recruiters, Managers,   \* users; owners count as managers
          Times

VARIABLES
  schedule,  \* work_schedules: the row of a user, or NoSchedule
  statusBy,  \* observer: the request that last wrote the status
  timesBy,   \* observer: the request that last wrote the times
  task       \* tasks: a row, or NoTask

organizerVars == <<requestVars, schedule, statusBy, timesBy, task>>

Users == Recruiters \cup Managers
Working == {"work", "remote"}
Statuses == Working \cup {"vacation", "sick", "off"}

ScheduleRow == [status : Statuses, times : Times \cup {None}]
NoSchedule == [status |-> "none", times |-> None]
TaskRow == [completed : BOOLEAN, at : Requests \cup {None}]
NoTask == [completed |-> FALSE, at |-> "none"]

OrganizerInit ==
  /\ RequestInit
  /\ schedule = [u \in Users |-> NoSchedule]
  /\ statusBy = [u \in Users |-> None]
  /\ timesBy = [u \in Users |-> None]
  /\ task = [r \in Requests |-> NoTask]

OrganizerAbort(r) == End(r) /\ UNCHANGED <<schedule, statusBy, timesBy, task>>

-----------------------------------------------------------------------------
(* Schedules.                                                              *)

\* Mutant: the times are kept whatever the status.
AsAsked(status, times) == [status |-> status, times |-> times]

\* Times only with work or remote.
Asked(status, times) ==
  [status |-> status, times |-> IF status \in Working THEN times ELSE None]

\* A recruiter edits only their own.
ScheduleRead(r, actor, u, status, times) ==
  /\ actor \in Managers \/ actor = u
  /\ Begin(r, [kind |-> "schedule", user |-> u, was |-> schedule[u],
               to |-> Asked(status, times)])
  /\ UNCHANGED <<schedule, statusBy, timesBy, task>>

\* The second of two inserts is rolled back (user and date are unique).
ScheduleCommit(r) ==
  /\ Doing(r, "schedule") /\ End(r)
  /\ LET u == req[r].user
         was == req[r].was
         to == req[r].to
     IN IF was = NoSchedule /\ schedule[u] # NoSchedule
        THEN UNCHANGED <<schedule, statusBy, timesBy>>
        ELSE /\ schedule' = [schedule EXCEPT ![u] =
                  [status |-> IF to.status = was.status THEN @.status ELSE to.status,
                   times |-> IF to.times = was.times THEN @.times ELSE to.times]]
             /\ statusBy' = IF to.status = was.status THEN statusBy
                            ELSE [statusBy EXCEPT ![u] = r]
             /\ timesBy' = IF to.times = was.times THEN timesBy
                           ELSE [timesBy EXCEPT ![u] = r]
  /\ UNCHANGED task

-----------------------------------------------------------------------------
(* Tasks.                                                                  *)

CreateTask(r) ==
  /\ Once(r)
  /\ task' = [task EXCEPT ![r] = [completed |-> FALSE, at |-> None]]
  /\ UNCHANGED <<schedule, statusBy, timesBy>>

\* Stamped once; cleared when the task is opened again.
Completed(r, row, completed) ==
  [completed |-> completed,
   at |-> IF ~completed THEN None ELSE IF row.at = None THEN r ELSE row.at]

TaskRead(r, i, completed) ==
  /\ task[i] # NoTask
  /\ Begin(r, [kind |-> "task", task |-> i, was |-> task[i],
               to |-> Completed(r, task[i], completed)])
  /\ UNCHANGED <<schedule, statusBy, timesBy, task>>

\* It fails if the row is gone.
TaskCommit(r) ==
  /\ Doing(r, "task") /\ End(r)
  /\ LET i == req[r].task
         was == req[r].was
         to == req[r].to
     IN task' = IF task[i] = NoTask THEN task
                ELSE [task EXCEPT ![i] =
                  [completed |-> IF to.completed = was.completed THEN @.completed
                                 ELSE to.completed,
                   at |-> IF to.at = was.at THEN @.at ELSE to.at]]
  /\ UNCHANGED <<schedule, statusBy, timesBy>>

DeleteTaskRead(r, i) ==
  /\ task[i] # NoTask
  /\ Begin(r, [kind |-> "delete_task", task |-> i])
  /\ UNCHANGED <<schedule, statusBy, timesBy, task>>

DeleteTaskCommit(r) ==
  /\ Doing(r, "delete_task") /\ End(r)
  /\ task' = [task EXCEPT ![req[r].task] = NoTask]
  /\ UNCHANGED <<schedule, statusBy, timesBy>>

-----------------------------------------------------------------------------
OrganizerNext ==
  \E r \in Requests :
    \/ \E actor, u \in Users, status \in Statuses, times \in Times \cup {None} :
         ScheduleRead(r, actor, u, status, times)
    \/ ScheduleCommit(r)
    \/ CreateTask(r)
    \/ \E i \in Requests :
         DeleteTaskRead(r, i) \/ \E completed \in BOOLEAN : TaskRead(r, i, completed)
    \/ TaskCommit(r) \/ DeleteTaskCommit(r)
    \/ OrganizerAbort(r)

OrganizerSpec == OrganizerInit /\ [][OrganizerNext]_organizerVars

-----------------------------------------------------------------------------
(* Properties.                                                             *)

OrganizerRequest ==
  [kind : {"schedule"}, user : Users, was : ScheduleRow \cup {NoSchedule}, to : ScheduleRow]
  \cup [kind : {"task"}, task : Requests, was : TaskRow, to : TaskRow]
  \cup [kind : {"delete_task"}, task : Requests]

\* Every variable has its type.
OrganizerTypeOK ==
  /\ req \in [Requests -> OrganizerRequest \cup {Idle}]
  /\ schedule \in [Users -> ScheduleRow \cup {NoSchedule}]
  /\ statusBy \in [Users -> Requests \cup {None}]
  /\ timesBy \in [Users -> Requests \cup {None}]
  /\ task \in [Requests -> TaskRow \cup {NoTask}]

\* "Times only meaningful for work/remote; clear otherwise": a schedule has
\* times beside another status only when the request that wrote the one
\* overlapped the request that wrote the other.
OffDaysHaveNoTimesUnlessOverlapped ==
  \A u \in Users :
    schedule[u].status \notin Working /\ schedule[u].times # None
      => Overlap(statusBy[u], timesBy[u])

\* A task has a date of completion just when it is completed, however its
\* updates overlap.
CompletedTasksAreDated ==
  \A i \in Requests : task[i] # NoTask => (task[i].completed <=> task[i].at # None)

(* Columns that belong together and are written one by one agree, however  *)
(* the requests that write them overlap, but for the statuses and times of *)
(* requests that did.                                                      *)
OrganizerIsConsistent == OffDaysHaveNoTimesUnlessOverlapped /\ CompletedTasksAreDated

=============================================================================
