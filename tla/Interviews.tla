------------------------------- MODULE Interviews -------------------------------
(***************************************************************************)
(* The interviews of applications.  One that is not cancelled is meant to  *)
(* have a link to its meeting, and then opens the interview stage for its  *)
(* application (get_stage_ready_interview; module Pipeline).               *)
(*                                                                         *)
(* A PATCH is checked as what it makes of the row, but for a link that is  *)
(* given as null: the check then takes the link of the row, and the null   *)
(* is written.  Interviews are named after the request that creates them;  *)
(* dates, notes, recruiters and the events beside them are left out.       *)
(***************************************************************************)
EXTENDS Requests

VARIABLES
  interview,  \* interviews: a row, or NoInterview
  urlBy,      \* observer: the request that last wrote the link
  stateBy,    \* observer: the request that last wrote the status
  nulled      \* observer: the requests that take the link of a live interview

interviewVars == <<requestVars, interview, urlBy, stateBy, nulled>>

MeetingUrls == {"link", "blank", None}
InterviewStatuses == {"scheduled", "completed", "cancelled"}
InterviewRow == [url : MeetingUrls, status : InterviewStatuses]
NoInterview == [status |-> "none"]

Scheduled(i) == interview[i] # NoInterview

\* _validate_meeting_url.
MayMeet(url, status) == status # "cancelled" => url = "link"

InterviewInit ==
  /\ RequestInit
  /\ interview = [r \in Requests |-> NoInterview]
  /\ urlBy = [r \in Requests |-> None]
  /\ stateBy = [r \in Requests |-> None]
  /\ nulled = {}

InterviewAbort(r) == End(r) /\ UNCHANGED <<interview, urlBy, stateBy, nulled>>

-----------------------------------------------------------------------------
CreateInterview(r, row) ==
  /\ Once(r)
  /\ MayMeet(row.url, row.status)
  /\ interview' = [interview EXCEPT ![r] = row]
  /\ urlBy' = [urlBy EXCEPT ![r] = r]
  /\ stateBy' = [stateBy EXCEPT ![r] = r]
  /\ UNCHANGED nulled

\* A field that a PATCH does not set keeps its value.
Set(given, old) == IF given = "unset" THEN old ELSE given

InterviewRequestOf(i, url, status) ==
  [kind |-> "interview", interview |-> i, was |-> interview[i],
   to |-> [url |-> Set(url, interview[i].url), status |-> Set(status, interview[i].status)]]

TakesLink(q) == q.to.url = None /\ q.to.status # "cancelled"

\* Mutant: a PATCH is not checked.
UpdateInterviewReadAny(r, i, url, status) ==
  /\ Scheduled(i)
  /\ Begin(r, InterviewRequestOf(i, url, status))
  /\ nulled' = IF url = None /\ TakesLink(req'[r]) THEN nulled \cup {r} ELSE nulled
  /\ UNCHANGED <<interview, urlBy, stateBy>>

UpdateInterviewRead(r, i, url, status) ==
  /\ Scheduled(i)
  /\ MayMeet(IF url = None THEN interview[i].url ELSE Set(url, interview[i].url),
             Set(status, interview[i].status))
  /\ Begin(r, InterviewRequestOf(i, url, status))
  /\ nulled' = IF url = None /\ TakesLink(req'[r]) THEN nulled \cup {r} ELSE nulled
  /\ UNCHANGED <<interview, urlBy, stateBy>>

\* Of each column what differs from the row read; it fails if the row is gone.
UpdateInterviewCommit(r) ==
  /\ Doing(r, "interview") /\ End(r)
  /\ LET i == req[r].interview
         was == req[r].was
         to == req[r].to
     IN IF ~Scheduled(i)
        THEN UNCHANGED <<interview, urlBy, stateBy>>
        ELSE /\ interview' = [interview EXCEPT ![i] =
                  [url |-> IF to.url = was.url THEN interview[i].url ELSE to.url,
                   status |-> IF to.status = was.status THEN interview[i].status
                              ELSE to.status]]
             /\ urlBy' = IF to.url = was.url THEN urlBy ELSE [urlBy EXCEPT ![i] = r]
             /\ stateBy' = IF to.status = was.status THEN stateBy
                           ELSE [stateBy EXCEPT ![i] = r]
  /\ UNCHANGED nulled

DeleteInterviewRead(r, i) ==
  /\ Scheduled(i)
  /\ Begin(r, [kind |-> "delete_interview", interview |-> i])
  /\ UNCHANGED <<interview, urlBy, stateBy, nulled>>

DeleteInterviewCommit(r) ==
  /\ Doing(r, "delete_interview") /\ End(r)
  /\ interview' = [interview EXCEPT ![req[r].interview] = NoInterview]
  /\ UNCHANGED <<urlBy, stateBy, nulled>>

-----------------------------------------------------------------------------
InterviewNext ==
  \E r \in Requests :
    \/ \E row \in InterviewRow : CreateInterview(r, row)
    \/ \E i \in Requests :
         \/ DeleteInterviewRead(r, i)
         \/ \E url \in MeetingUrls \cup {"unset"}, status \in InterviewStatuses \cup {"unset"} :
              UpdateInterviewRead(r, i, url, status)
    \/ UpdateInterviewCommit(r) \/ DeleteInterviewCommit(r)
    \/ InterviewAbort(r)

InterviewSpec == InterviewInit /\ [][InterviewNext]_interviewVars

-----------------------------------------------------------------------------
(* Properties.                                                             *)

InterviewRequest ==
  [kind : {"interview"}, interview : Requests, was : InterviewRow, to : InterviewRow]
  \cup [kind : {"delete_interview"}, interview : Requests]

\* Every variable has its type.
InterviewTypeOK ==
  /\ req \in [Requests -> InterviewRequest \cup {Idle}]
  /\ interview \in [Requests -> InterviewRow \cup {NoInterview}]
  /\ urlBy \in [Requests -> Requests \cup {None}]
  /\ stateBy \in [Requests -> Requests \cup {None}]
  /\ nulled \subseteq Requests

\* An interview that takes place has a link: without one, it was taken by a
\* PATCH with an explicit null, or the requests that wrote the link and the
\* status overlapped (the check is made of the row as it was read).
MeetingsHaveLinks ==
  \A i \in Requests :
    Scheduled(i) /\ interview[i].status # "cancelled" /\ interview[i].url # "link"
      => urlBy[i] \in nulled \/ Overlap(urlBy[i], stateBy[i])

=============================================================================
