------------------------------- MODULE DeskProofs -------------------------------
(***************************************************************************)
(* Proofs about the components whose requests read, act and commit, for    *)
(* all requests and all rows.                                              *)
(***************************************************************************)
EXTENDS Sessions, PartnerAccess, Reviews, Articles, Images, Links, Organizer,
        CompanyProfile, Interviews, Submissions, Consents, AutomationRules,
        Forms, Retention, FiniteSetTheorems, TLAPS

-----------------------------------------------------------------------------
(* Requests.                                                               *)

\* A request that has ended does nothing more, and has seen only such.
RequestOK ==
  /\ DOMAIN req = Requests
  /\ ended \subseteq Requests
  /\ saw \in [Requests -> SUBSET ended]
  /\ \A r \in Requests : req[r] # Idle => r \notin ended

\* What a request saw when it began stays, and it stays begun.
RequestStep ==
  /\ RequestOK'
  /\ ended \subseteq ended'
  /\ \A r \in Requests : Begun(r) => Begun(r)' /\ saw'[r] = saw[r]

LEMMA RequestsBegin == RequestInit => RequestOK
BY DEF RequestInit, RequestOK

LEMMA BeginStep ==
  ASSUME RequestOK, NEW r \in Requests, NEW record, Begin(r, record), record # Idle
  PROVE  /\ RequestStep
         /\ r \notin ended /\ req[r] = Idle
         /\ req'[r] = record /\ saw'[r] = ended /\ ended' = ended
         /\ \A q \in Requests \ {r} : req'[q] = req[q] /\ saw'[q] = saw[q]
BY DEF RequestOK, RequestStep, Begin, Begun

LEMMA EndStep ==
  ASSUME RequestOK, NEW r \in Requests, End(r)
  PROVE  /\ RequestStep
         /\ r \notin ended /\ req[r] # Idle
         /\ req'[r] = Idle /\ saw' = saw /\ ended' = ended \cup {r}
         /\ \A q \in Requests \ {r} : req'[q] = req[q]
BY DEF RequestOK, RequestStep, End, Begun

LEMMA OnceStep ==
  ASSUME RequestOK, NEW r \in Requests, Once(r)
  PROVE  /\ RequestStep
         /\ r \notin ended /\ req[r] = Idle
         /\ req' = req /\ saw'[r] = ended /\ ended' = ended \cup {r}
         /\ \A q \in Requests \ {r} : saw'[q] = saw[q]
BY DEF RequestOK, RequestStep, Once, Begun

LEMMA QuietStep ==
  ASSUME RequestOK, UNCHANGED requestVars
  PROVE  RequestStep /\ req' = req /\ saw' = saw /\ ended' = ended
BY DEF RequestOK, RequestStep, requestVars, Begun

\* A request goes on with what it has in memory.
LEMMA GoOnStep ==
  ASSUME RequestOK, NEW r \in Requests, NEW record, req[r] # Idle, record # Idle,
         req' = [req EXCEPT ![r] = record], UNCHANGED <<ended, saw>>
  PROVE  RequestStep
BY DEF RequestOK, RequestStep, Begun

LEMMA OverlapStays ==
  ASSUME RequestStep, NEW q \in Requests, NEW r \in Requests, Overlap(q, r)
  PROVE  Overlap(q, r)'
BY DEF RequestStep, Overlap

\* What ends while another request runs has not been seen by it, and sees it not.
LEMMA EndingOverlaps ==
  ASSUME RequestOK, NEW q \in Requests, NEW r \in Requests, q \in ended, End(r),
         q \notin saw[r]
  PROVE  Overlap(q, r)' /\ Overlap(r, q)'
BY DEF RequestOK, End, Overlap, Begun

-----------------------------------------------------------------------------
(* Links.                                                                  *)

LinkOK ==
  /\ RequestOK
  /\ LinkTypeOK
  /\ \A p \in Pairs : rows[p] \subseteq ended
  /\ \A r \in Requests : Doing(r, "add") => rows[aboutPair[r]] \cap saw[r] = {}
  /\ OneRowUnlessOverlapped

LEMMA LinksBegin == LinkInit => LinkOK
BY RequestsBegin DEF LinkInit, RequestInit, LinkOK, LinkTypeOK, OneRowUnlessOverlapped,
   Doing, Idle

\* No step but a commit of an insert adds a row.
LEMMA LinkRowsLost ==
  ASSUME LinkOK, RequestStep, LinkTypeOK', \A p \in Pairs : rows'[p] \subseteq rows[p],
         \A r \in Requests : Doing(r, "add")' =>
           \/ rows[aboutPair'[r]] = {} 
           \/ Doing(r, "add") /\ aboutPair'[r] = aboutPair[r] /\ saw'[r] = saw[r]
  PROVE  LinkOK'
<1>1. RequestOK' /\ ended \subseteq ended'
  BY DEF RequestStep
<1>2. \A p \in Pairs : rows'[p] \subseteq ended'
  BY <1>1 DEF LinkOK
<1>3. ASSUME NEW r \in Requests, Doing(r, "add")' PROVE rows'[aboutPair'[r]] \cap saw'[r] = {}
  <2>1. aboutPair'[r] \in Pairs
    BY <1>3 DEF LinkTypeOK, Doing, Idle
  <2> QED BY <2>1, <1>3 DEF LinkOK
<1>4. OneRowUnlessOverlapped'
  <2> SUFFICES ASSUME NEW p \in Pairs, NEW q \in rows'[p], NEW r \in rows'[p], q # r
      PROVE  p \in Tagged /\ Overlap(q, r)'
    BY DEF OneRowUnlessOverlapped
  <2>1. q \in rows[p] /\ r \in rows[p] /\ q \in Requests /\ r \in Requests
    BY DEF LinkOK, LinkTypeOK
  <2> QED BY <2>1, OverlapStays DEF LinkOK, OneRowUnlessOverlapped
<1> QED BY <1>1, <1>2, <1>3, <1>4 DEF LinkOK

LEMMA LinkReads ==
  ASSUME LinkOK, NEW r \in Requests, NEW p \in Pairs, AddRead(r, p) \/ RemoveLinkRead(r, p)
  PROVE  LinkOK'
<1>1. PICK record \in LinkRequest : Begin(r, record) /\ record # Idle
        /\ (record.kind = "add" => rows[p] = {})
  BY DEF AddRead, RemoveLinkRead, LinkRequest, LinkOK, LinkTypeOK, Idle
<1>2. aboutPair' = [aboutPair EXCEPT ![r] = p] /\ UNCHANGED <<rows, gone>>
  BY DEF AddRead, RemoveLinkRead
<1>3. LinkTypeOK'
  BY <1>1, <1>2 DEF LinkOK, LinkTypeOK, Begin
<1> QED BY <1>1, <1>2, <1>3, BeginStep, LinkRowsLost DEF LinkOK, LinkTypeOK, Doing

LEMMA LinkWrites ==
  ASSUME LinkOK, NEW r \in Requests, AddCommit(r)
  PROVE  LinkOK'
<1> DEFINE p == aboutPair[r]
<1>1. p \in Pairs /\ End(r)
  BY DEF AddCommit, LinkOK, LinkTypeOK, End
<1>2. RequestStep /\ ended' = ended \cup {r} /\ r \notin ended /\ saw' = saw
      /\ req'[r] = Idle /\ \A q \in Requests \ {r} : req'[q] = req[q]
  BY <1>1, EndStep DEF LinkOK
<1>3. LinkTypeOK'
  BY <1>1 DEF AddCommit, End, LinkOK, LinkTypeOK
<1>4. CASE rows' = rows
  BY <1>2, <1>3, <1>4, LinkRowsLost DEF AddCommit, Doing, Idle
<1>5. CASE rows' # rows
  <2>1. p \notin gone /\ (p \in Unique => rows[p] = {})
        /\ rows' = [rows EXCEPT ![p] = @ \cup {r}]
    BY <1>5 DEF AddCommit
  <2>2. \A s \in Pairs : rows'[s] \subseteq ended'
    BY <2>1, <1>2, <1>1 DEF LinkOK, LinkTypeOK
  <2>3. ASSUME NEW q \in Requests, Doing(q, "add")'
        PROVE  rows'[aboutPair'[q]] \cap saw'[q] = {}
    <3>1. q # r /\ Doing(q, "add") /\ aboutPair'[q] = aboutPair[q] /\ aboutPair[q] \in Pairs
      BY <1>2, <2>3 DEF Doing, Idle, AddCommit, LinkOK, LinkTypeOK
    <3>2. r \notin saw[q]
      BY <1>2 DEF LinkOK, RequestOK
    <3> QED BY <3>1, <3>2, <2>1, <1>2 DEF LinkOK, LinkTypeOK
  <2>4. OneRowUnlessOverlapped'
    <3> SUFFICES ASSUME NEW s \in Pairs, NEW q \in rows'[s], NEW u \in rows'[s], q # u
        PROVE  s \in Tagged /\ Overlap(q, u)'
      BY DEF OneRowUnlessOverlapped
    <3>1. q \in Requests /\ u \in Requests
      BY <1>3 DEF LinkTypeOK
    <3>2. CASE q \in rows[s] /\ u \in rows[s]
      BY <3>2, <3>1, <1>2, OverlapStays DEF LinkOK, OneRowUnlessOverlapped
    <3>3. CASE ~(q \in rows[s] /\ u \in rows[s])
      <4>1. s = p /\ r \in {q, u}
        BY <3>3, <2>1, <1>1 DEF LinkOK, LinkTypeOK
      <4>2. PICK o \in rows[p] : {q, u} = {o, r}
        BY <4>1, <2>1, <1>1 DEF LinkOK, LinkTypeOK
      <4>3. o \in Requests /\ o \in ended /\ o \notin saw[r]
        BY <1>1 DEF LinkOK, LinkTypeOK, AddCommit
      <4>4. Overlap(o, r)' /\ Overlap(r, o)'
        BY <4>3, <1>1, EndingOverlaps DEF LinkOK
      <4>5. p \in Tagged
        BY <2>1, <4>2, <1>1 DEF Pairs, Unique
      <4> QED BY <4>1, <4>2, <4>4, <4>5
    <3> QED BY <3>2, <3>3
  <2> QED BY <1>2, <1>3, <2>2, <2>3, <2>4 DEF LinkOK, RequestStep
<1> QED BY <1>4, <1>5

LEMMA LinkLosses ==
  ASSUME LinkOK, NEW r \in Requests,
         RemoveLinkCommit(r) \/ LinkAbort(r) \/ \E p \in Pairs : DeleteNamed(r, p)
  PROVE  LinkOK'
<1>1. CASE RemoveLinkCommit(r)
  <2>1. LinkTypeOK' /\ End(r) /\ \A p \in Pairs : rows'[p] \subseteq rows[p]
    BY <1>1 DEF RemoveLinkCommit, End, LinkOK, LinkTypeOK
  <2> QED BY <1>1, <2>1, EndStep, LinkRowsLost DEF LinkOK, RemoveLinkCommit, Doing, Idle
<1>2. CASE LinkAbort(r)
  <2>1. LinkTypeOK' /\ End(r) /\ UNCHANGED <<rows, aboutPair>>
    BY <1>2 DEF LinkAbort, End, LinkOK, LinkTypeOK
  <2> QED BY <2>1, EndStep, LinkRowsLost DEF LinkOK, Doing, Idle
<1>3. ASSUME NEW p \in Pairs, DeleteNamed(r, p) PROVE LinkOK'
  <2>1. LinkTypeOK' /\ Once(r) /\ UNCHANGED aboutPair
        /\ \A s \in Pairs : rows'[s] \subseteq rows[s]
    BY <1>3 DEF DeleteNamed, Once, LinkOK, LinkTypeOK
  <2> QED BY <2>1, OnceStep, LinkRowsLost DEF LinkOK, Doing, Idle
<1> QED BY <1>1, <1>2, <1>3

LEMMA LinkSteps == LinkOK /\ [LinkNext]_linkVars => LinkOK'
<1> SUFFICES ASSUME LinkOK, [LinkNext]_linkVars PROVE LinkOK'
  OBVIOUS
<1>1. CASE UNCHANGED linkVars
  BY <1>1 DEF linkVars, requestVars, LinkOK, RequestOK, LinkTypeOK, Doing,
     OneRowUnlessOverlapped, Overlap, Begun
<1>2. CASE LinkNext
  BY <1>2, LinkReads, LinkWrites, LinkLosses DEF LinkNext
<1> QED BY <1>1, <1>2

THEOREM LinksAreTyped == LinkSpec => []LinkTypeOK
BY LinksBegin, LinkSteps, PTL DEF LinkSpec, LinkOK

\* However requests overlap, a pair has one row at most, but for a tag that was
\* added by two requests at once.
THEOREM OneRow == LinkSpec => []OneRowUnlessOverlapped
BY LinksBegin, LinkSteps, PTL DEF LinkSpec, LinkOK

-----------------------------------------------------------------------------
(* CompanyProfile.                                                         *)

\* A request that brings a new address found none when it read.
ProfileOK ==
  /\ RequestOK
  /\ ProfileTypeOK
  /\ \A c \in Profiles : slug[c] # None => slugBy[c] \in ended
  /\ \A r \in Requests : Doing(r, "profile") =>
       /\ req[r].to \in {None, req[r].was} \/ req[r].was = None
       /\ req[r].was = None /\ slug[req[r].company] # None =>
            slugBy[req[r].company] \notin saw[r]

SlugStep ==
  \A c \in Profiles : slug[c] # None /\ slug[c]' \notin {None, slug[c]} =>
    \E q \in Requests : q = slugBy[c] /\ Overlap(q, slugBy[c])'

LEMMA ProfilesBegin == ProfileInit => ProfileOK
BY RequestsBegin DEF ProfileInit, RequestInit, ProfileOK, ProfileTypeOK, Doing, Idle

LEMMA ProfileReads ==
  ASSUME ProfileOK, NEW r \in Requests, NEW c \in Profiles, NEW s \in Addresses \cup {None},
         ProfileRead(r, c, s)
  PROVE  ProfileOK' /\ SlugStep
<1> DEFINE record == [kind |-> "profile", company |-> c, was |-> slug[c], to |-> s]
<1>1. record \in ProfileRequest /\ record # Idle /\ record.company = c
      /\ record.was = slug[c] /\ (record.to \in {None, record.was} \/ record.was = None)
  BY DEF ProfileRead, ProfileRequest, ProfileOK, ProfileTypeOK, Idle
<1>2. Begin(r, record) /\ UNCHANGED <<slug, slugBy>>
  BY DEF ProfileRead
<1> HIDE DEF record
<1>3. ProfileTypeOK'
  BY <1>1, <1>2 DEF ProfileOK, ProfileTypeOK, Begin
<1> QED BY <1>1, <1>2, <1>3, BeginStep DEF ProfileOK, ProfileTypeOK, Doing, RequestStep, SlugStep

LEMMA ProfileWrites ==
  ASSUME ProfileOK, NEW r \in Requests, ProfileCommit(r) \/ ProfileAbort(r)
  PROVE  ProfileOK' /\ SlugStep
<1>1. End(r)
  BY DEF ProfileCommit, ProfileAbort
<1>2. RequestStep /\ ended' = ended \cup {r} /\ r \notin ended /\ saw' = saw
      /\ req'[r] = Idle /\ \A q \in Requests \ {r} : req'[q] = req[q]
  BY <1>1, EndStep DEF ProfileOK
<1>3. req' \in [Requests -> ProfileRequest \cup {Idle}]
  BY <1>1 DEF End, ProfileOK, ProfileTypeOK
<1>4. CASE UNCHANGED <<slug, slugBy>>
  BY <1>2, <1>3, <1>4 DEF ProfileOK, ProfileTypeOK, Doing, Idle, RequestStep, SlugStep
<1>5. CASE ~UNCHANGED <<slug, slugBy>>
  <2>1. PICK c \in Profiles, s \in Addresses \cup {None} :
          /\ c = req[r].company /\ s = req[r].to /\ s # req[r].was
          /\ slug' = [slug EXCEPT ![c] = s] /\ slugBy' = [slugBy EXCEPT ![c] = r]
          /\ Doing(r, "profile")
    BY <1>5 DEF ProfileCommit, ProfileAbort, ProfileOK, ProfileTypeOK, ProfileRequest,
                Doing, Idle
  <2>2. ProfileTypeOK'
    BY <1>3, <2>1 DEF ProfileOK, ProfileTypeOK
  <2>3. \A q \in Requests : Doing(q, "profile")' => q # r /\ Doing(q, "profile") /\ r \notin saw[q]
    BY <1>2 DEF Doing, Idle, ProfileOK, RequestOK
  <2>4. ProfileOK'
    BY <1>2, <2>1, <2>2, <2>3 DEF ProfileOK, ProfileTypeOK, Doing, RequestStep
  <2>5. ASSUME slug[c] # None, s # None
        PROVE  \E q \in Requests : q = slugBy[c] /\ Overlap(q, r)'
    <3>1. req[r].was = None
      BY <2>1, <2>5 DEF ProfileOK
    <3>2. slugBy[c] \in ended /\ slugBy[c] \notin saw[r] /\ slugBy[c] \in Requests
      BY <3>1, <2>1, <2>5 DEF ProfileOK, RequestOK
    <3> QED BY <3>2, <1>1, EndingOverlaps DEF ProfileOK
  <2>6. ASSUME NEW d \in Profiles, slug[d] # None, slug[d]' \notin {None, slug[d]}
        PROVE  d = c /\ s # None /\ slugBy'[c] = r
    BY <2>1, <2>6 DEF ProfileOK, ProfileTypeOK
  <2>7. SlugStep
    BY <2>5, <2>6 DEF SlugStep
  <2> QED BY <2>4, <2>7
<1> QED BY <1>4, <1>5

LEMMA ProfileSteps ==
  ProfileOK /\ [ProfileNext]_profileVars => ProfileOK' /\ [SlugStep]_profileVars
<1> SUFFICES ASSUME ProfileOK, [ProfileNext]_profileVars
    PROVE  ProfileOK' /\ [SlugStep]_profileVars
  OBVIOUS
<1>1. CASE UNCHANGED profileVars
  BY <1>1 DEF profileVars, requestVars, ProfileOK, RequestOK, ProfileTypeOK, Doing
<1>2. CASE ProfileNext
  BY <1>2, ProfileReads, ProfileWrites DEF ProfileNext
<1> QED BY <1>1, <1>2

THEOREM ProfilesAreTyped == ProfileSpec => []ProfileTypeOK
BY ProfilesBegin, ProfileSteps, PTL DEF ProfileSpec, ProfileOK

\* The address of a company is replaced only by a request that overlapped the
\* one that chose it.
THEOREM SlugIsSetOnce == ProfileSpec => SlugIsNeverReplaced
<1>1. ProfileSpec => [][SlugStep]_profileVars
  BY ProfilesBegin, ProfileSteps, PTL DEF ProfileSpec
<1> QED BY <1>1, PTL DEF SlugIsNeverReplaced, SlugStep

-----------------------------------------------------------------------------
(* Organizer.                                                              *)

Dated(row) == row.completed <=> row.at # None

\* What a request brings is coherent, and what it read and is no longer so was
\* written by a request that it has not seen.
ScheduleOK(r) ==
  LET q == req[r] IN
  /\ q.to.status \notin Working => q.to.times = None
  /\ q.was # NoSchedule => schedule[q.user] # NoSchedule
  /\ schedule[q.user].status # q.was.status =>
       statusBy[q.user] \in ended \ saw[r]
  /\ schedule[q.user].times # q.was.times =>
       timesBy[q.user] \in ended \ saw[r]

TaskOK(r) ==
  LET q == req[r] IN
  /\ Dated(q.was) /\ Dated(q.to)
  /\ q.was.completed = q.to.completed => q.was.at = q.to.at

OrganizerOK ==
  /\ RequestOK
  /\ OrganizerTypeOK
  /\ \A r \in Requests : Doing(r, "schedule") => ScheduleOK(r)
  /\ \A r \in Requests : Doing(r, "task") => TaskOK(r)
  /\ \A u \in Users : statusBy[u] \in ended \cup {None} /\ timesBy[u] \in ended \cup {None}
  /\ OffDaysHaveNoTimesUnlessOverlapped
  /\ CompletedTasksAreDated

LEMMA OrganizerBegins == OrganizerInit => OrganizerOK
BY RequestsBegin DEF OrganizerInit, RequestInit, OrganizerOK, OrganizerTypeOK, Doing, Idle,
   NoSchedule, OffDaysHaveNoTimesUnlessOverlapped, CompletedTasksAreDated

\* The kinds of requests are told apart by their fields.
LEMMA OrganizerTyped ==
  ASSUME OrganizerTypeOK, NEW r \in Requests
  PROVE  /\ Doing(r, "schedule") =>
              req[r].user \in Users /\ req[r].was \in ScheduleRow \cup {NoSchedule}
              /\ req[r].to \in ScheduleRow
         /\ Doing(r, "task") =>
              req[r].task \in Requests /\ req[r].was \in TaskRow /\ req[r].to \in TaskRow
         /\ Doing(r, "delete_task") => req[r].task \in Requests
BY DEF OrganizerTypeOK, OrganizerRequest, Doing, Idle

\* Steps that leave the schedules alone.
LEMMA SchedulesStay ==
  ASSUME OrganizerOK, RequestStep, UNCHANGED <<schedule, statusBy, timesBy>>,
         OrganizerTypeOK', CompletedTasksAreDated',
         \A r \in Requests : Doing(r, "schedule")' =>
           ScheduleOK(r)' \/ (req'[r] = req[r] /\ saw'[r] = saw[r]),
         \A r \in Requests : Doing(r, "task")' =>
           TaskOK(r)' \/ req'[r] = req[r]
  PROVE  OrganizerOK'
<1>1. \A r \in Requests : Doing(r, "schedule")' => ScheduleOK(r)'
  BY DEF OrganizerOK, ScheduleOK, Doing, RequestStep
<1>2. \A r \in Requests : Doing(r, "task")' => TaskOK(r)'
  BY DEF OrganizerOK, Doing, TaskOK, Dated
<1>3. OffDaysHaveNoTimesUnlessOverlapped'
  <2> SUFFICES ASSUME NEW u \in Users, schedule[u].status \notin Working,
                      schedule[u].times # None
      PROVE  Overlap(statusBy[u], timesBy[u])'
    BY DEF OffDaysHaveNoTimesUnlessOverlapped
  <2>1. Overlap(statusBy[u], timesBy[u])
    BY DEF OrganizerOK, OffDaysHaveNoTimesUnlessOverlapped
  <2>2. statusBy[u] \in Requests /\ timesBy[u] \in Requests
    BY <2>1 DEF Overlap
  <2>3. statusBy' = statusBy /\ timesBy' = timesBy
    OBVIOUS
  <2> QED BY <2>1, <2>2, <2>3, OverlapStays
<1> QED BY <1>1, <1>2, <1>3 DEF OrganizerOK, RequestStep

LEMMA ScheduleReads ==
  ASSUME OrganizerOK, NEW r \in Requests, NEW actor \in Users, NEW u \in Users,
         NEW status_ \in Statuses, NEW times \in Times \cup {None},
         ScheduleRead(r, actor, u, status_, times)
  PROVE  OrganizerOK'
<1> DEFINE record == [kind |-> "schedule", user |-> u, was |-> schedule[u],
                      to |-> Asked(status_, times)]
<1>1. Begin(r, record) /\ UNCHANGED <<schedule, statusBy, timesBy, task>>
  BY DEF ScheduleRead
<1>2. /\ record \in OrganizerRequest /\ record # Idle
      /\ record.kind = "schedule" /\ record.user = u /\ record.was = schedule[u]
      /\ record.to.status \notin Working => record.to.times = None
  BY DEF OrganizerOK, OrganizerTypeOK, OrganizerRequest, Asked, ScheduleRow, Idle
<1> HIDE DEF record
<1>3. OrganizerTypeOK'
  BY <1>1, <1>2 DEF OrganizerOK, OrganizerTypeOK, Begin
<1>4. RequestStep /\ req'[r] = record /\ \A q \in Requests \ {r} : req'[q] = req[q] /\ saw'[q] = saw[q]
  BY <1>1, <1>2, BeginStep DEF OrganizerOK
<1>5. ScheduleOK(r)'
  BY <1>1, <1>2, <1>4 DEF ScheduleOK
<1>6. CompletedTasksAreDated'
  BY <1>1 DEF OrganizerOK, CompletedTasksAreDated
<1> QED BY <1>1, <1>2, <1>3, <1>4, <1>5, <1>6, SchedulesStay DEF Doing

LEMMA CompletedRows ==
  ASSUME NEW r \in Requests, NEW row \in TaskRow, Dated(row), NEW completed \in BOOLEAN
  PROVE  /\ Completed(r, row, completed) \in TaskRow
         /\ Dated(Completed(r, row, completed))
         /\ Completed(r, row, completed).completed = row.completed =>
              Completed(r, row, completed).at = row.at
<1>1. Completed(r, row, completed) \in TaskRow
  BY DEF Completed, TaskRow
<1>2. CASE completed = TRUE
  BY <1>2, NoneAssumption DEF Completed, TaskRow, Dated
<1>3. CASE completed = FALSE
  BY <1>3, NoneAssumption DEF Completed, TaskRow, Dated
<1> QED BY <1>1, <1>2, <1>3

LEMMA TaskReads ==
  ASSUME OrganizerOK, NEW r \in Requests, NEW i \in Requests,
         DeleteTaskRead(r, i) \/ \E completed \in BOOLEAN : TaskRead(r, i, completed)
  PROVE  OrganizerOK'
<1>1. task[i] \in TaskRow /\ Dated(task[i])
  BY DEF DeleteTaskRead, TaskRead, OrganizerOK, OrganizerTypeOK, CompletedTasksAreDated, Dated
<1>2. UNCHANGED <<schedule, statusBy, timesBy, task>>
  BY DEF DeleteTaskRead, TaskRead
<1>3. ASSUME NEW record \in OrganizerRequest, Begin(r, record), record # Idle,
             record.kind # "schedule", record.kind = "task" => TaskOK(r)'
      PROVE  OrganizerOK'
  <2>1. OrganizerTypeOK' /\ CompletedTasksAreDated'
    BY <1>2, <1>3 DEF OrganizerOK, OrganizerTypeOK, Begin, CompletedTasksAreDated
  <2> QED BY <1>2, <1>3, <2>1, BeginStep, SchedulesStay DEF Doing, OrganizerOK
<1>4. CASE DeleteTaskRead(r, i)
  <2> DEFINE record == [kind |-> "delete_task", task |-> i]
  <2>1. Begin(r, record) /\ record \in OrganizerRequest /\ record # Idle
        /\ record.kind = "delete_task"
    BY <1>4 DEF DeleteTaskRead, OrganizerRequest, Idle
  <2> HIDE DEF record
  <2> QED BY <2>1, <1>3
<1>5. ASSUME NEW completed \in BOOLEAN, TaskRead(r, i, completed) PROVE OrganizerOK'
  <2> DEFINE to == Completed(r, task[i], completed)
             record == [kind |-> "task", task |-> i, was |-> task[i], to |-> to]
  <2>1. /\ to \in TaskRow /\ Dated(to)
        /\ to.completed = task[i].completed => to.at = task[i].at
    BY <1>1, CompletedRows
  <2> HIDE DEF to
  <2>2. /\ record \in OrganizerRequest /\ record # Idle /\ record.kind = "task"
        /\ record.was = task[i] /\ record.to = to
    BY <1>1, <2>1 DEF OrganizerRequest, Idle
  <2>3. Begin(r, record)
    BY <1>5 DEF TaskRead, to
  <2> HIDE DEF record
  <2>4. req'[r] = record
    BY <2>2, <2>3, BeginStep DEF OrganizerOK
  <2>5. TaskOK(r)'
    BY <1>1, <2>1, <2>2, <2>4 DEF TaskOK, Dated
  <2> QED BY <2>2, <2>3, <2>5, <1>3
<1> QED BY <1>4, <1>5

LEMMA TaskWrites ==
  ASSUME OrganizerOK, NEW r \in Requests,
         TaskCommit(r) \/ DeleteTaskCommit(r) \/ OrganizerAbort(r)
  PROVE  OrganizerOK'
<1>1. End(r) /\ UNCHANGED <<schedule, statusBy, timesBy>>
  BY DEF TaskCommit, DeleteTaskCommit, OrganizerAbort
<1>2. req' \in [Requests -> OrganizerRequest \cup {Idle}]
  BY <1>1 DEF End, OrganizerOK, OrganizerTypeOK
<1>3. task' \in [Requests -> TaskRow \cup {NoTask}] /\ CompletedTasksAreDated'
  <2>1. CASE TaskCommit(r)
    <3> DEFINE i == req[r].task
               was == req[r].was
               to == req[r].to
    <3>1. i \in Requests /\ was \in TaskRow /\ to \in TaskRow /\ TaskOK(r)
      BY <2>1, OrganizerTyped DEF TaskCommit, OrganizerOK
    <3>2. CASE task[i] = NoTask
      BY <2>1, <3>2 DEF TaskCommit, OrganizerOK, OrganizerTypeOK, CompletedTasksAreDated
    <3>3. CASE task[i] # NoTask
      <4> DEFINE row == [completed |-> IF to.completed = was.completed
                                       THEN task[i].completed ELSE to.completed,
                         at |-> IF to.at = was.at THEN task[i].at ELSE to.at]
      <4>1. task[i] \in TaskRow /\ Dated(task[i])
        BY <3>1, <3>3 DEF OrganizerOK, OrganizerTypeOK, CompletedTasksAreDated, Dated
      <4>2. row \in TaskRow
        BY <4>1, <3>1 DEF TaskRow
      <4>3. Dated(row)
        <5>1. CASE to.completed = was.completed
          BY <5>1, <4>1, <3>1 DEF TaskRow, Dated, TaskOK
        <5>2. CASE to.completed # was.completed
          <6>1. to.at # was.at /\ row.completed = to.completed /\ row.at = to.at
            BY <5>2, <3>1 DEF TaskRow, Dated, TaskOK
          <6> QED BY <6>1, <3>1 DEF Dated, TaskOK
        <5> QED BY <5>1, <5>2
      <4>4. task' = [task EXCEPT ![i] = row]
        BY <2>1, <3>3 DEF TaskCommit
      <4> HIDE DEF row
      <4> QED BY <4>2, <4>3, <4>4 DEF OrganizerOK, OrganizerTypeOK, CompletedTasksAreDated, Dated
    <3> QED BY <3>2, <3>3
  <2>2. CASE DeleteTaskCommit(r) \/ OrganizerAbort(r)
    BY <2>2 DEF DeleteTaskCommit, OrganizerAbort, OrganizerOK, OrganizerTypeOK,
                CompletedTasksAreDated
  <2> QED BY <2>1, <2>2
<1>4. OrganizerTypeOK'
  BY <1>1, <1>2, <1>3 DEF OrganizerOK, OrganizerTypeOK
<1> QED BY <1>1, <1>3, <1>4, EndStep, SchedulesStay DEF Doing, Idle, OrganizerOK

LEMMA TaskCreations ==
  ASSUME OrganizerOK, NEW r \in Requests, CreateTask(r)
  PROVE  OrganizerOK'
<1>1. Once(r) /\ UNCHANGED <<schedule, statusBy, timesBy>>
  BY DEF CreateTask
<1>2. OrganizerTypeOK' /\ CompletedTasksAreDated'
  BY DEF CreateTask, Once, OrganizerOK, OrganizerTypeOK, TaskRow, CompletedTasksAreDated
<1>3. RequestStep /\ req' = req
      /\ \A q \in Requests : req[q] # Idle => saw'[q] = saw[q]
  BY <1>1, OnceStep DEF OrganizerOK
<1> QED BY <1>1, <1>2, <1>3, SchedulesStay DEF Doing, Idle, OrganizerOK

\* A request that writes one of the two columns and so parts it from the other
\* has not seen the request that wrote the other.
LEMMA ScheduleWrites ==
  ASSUME OrganizerOK, NEW r \in Requests, ScheduleCommit(r)
  PROVE  OrganizerOK'
<1> DEFINE u == req[r].user
           was == req[r].was
           to == req[r].to
<1>1. End(r) /\ task' = task /\ Doing(r, "schedule") /\ ScheduleOK(r)
  BY DEF ScheduleCommit, OrganizerOK
<1>2. u \in Users /\ was \in ScheduleRow \cup {NoSchedule} /\ to \in ScheduleRow
  BY <1>1, OrganizerTyped DEF OrganizerOK
<1>3. RequestStep /\ ended' = ended \cup {r} /\ r \notin ended /\ saw' = saw
      /\ req'[r] = Idle /\ \A q \in Requests \ {r} : req'[q] = req[q]
  BY <1>1, EndStep DEF OrganizerOK
<1>4. req' \in [Requests -> OrganizerRequest \cup {Idle}] /\ CompletedTasksAreDated'
  BY <1>1 DEF End, OrganizerOK, OrganizerTypeOK, CompletedTasksAreDated
<1>5. CASE UNCHANGED <<schedule, statusBy, timesBy>>
  <2>1. OrganizerTypeOK'
    BY <1>1, <1>4, <1>5 DEF OrganizerOK, OrganizerTypeOK
  <2> QED BY <1>3, <1>4, <1>5, <2>1, SchedulesStay DEF Doing, Idle
<1>6. CASE ~UNCHANGED <<schedule, statusBy, timesBy>>
  <2>1. /\ schedule' = [schedule EXCEPT ![u] =
             [status |-> IF to.status = was.status THEN @.status ELSE to.status,
              times |-> IF to.times = was.times THEN @.times ELSE to.times]]
        /\ statusBy' = IF to.status = was.status THEN statusBy ELSE [statusBy EXCEPT ![u] = r]
        /\ timesBy' = IF to.times = was.times THEN timesBy ELSE [timesBy EXCEPT ![u] = r]
        /\ ~(was = NoSchedule /\ schedule[u] # NoSchedule)
    BY <1>6 DEF ScheduleCommit
  <2>2. /\ schedule'[u].status = IF to.status = was.status THEN schedule[u].status ELSE to.status
        /\ schedule'[u].times = IF to.times = was.times THEN schedule[u].times ELSE to.times
        /\ \A v \in Users \ {u} : schedule'[v] = schedule[v]
        /\ schedule'[u] = [status |-> schedule'[u].status, times |-> schedule'[u].times]
    BY <2>1, <1>2 DEF OrganizerOK, OrganizerTypeOK
  <2>3. schedule' \in [Users -> ScheduleRow \cup {NoSchedule}]
    <3>1. CASE schedule[u] = NoSchedule
      <4>1. was = NoSchedule
        BY <3>1, <1>1 DEF ScheduleOK
      <4>2. schedule'[u].status \in Statuses /\ schedule'[u].times \in Times \cup {None}
        BY <4>1, <2>2, <1>2, <3>1 DEF ScheduleRow, NoSchedule, Statuses, Working
      <4> QED BY <4>2, <2>1, <2>2 DEF OrganizerOK, OrganizerTypeOK, ScheduleRow
    <3>2. CASE schedule[u] \in ScheduleRow
      <4>1. schedule'[u].status \in Statuses /\ schedule'[u].times \in Times \cup {None}
        BY <2>2, <1>2, <3>2 DEF ScheduleRow
      <4> QED BY <4>1, <2>1, <2>2 DEF OrganizerOK, OrganizerTypeOK, ScheduleRow
    <3> QED BY <3>1, <3>2, <1>2 DEF OrganizerOK, OrganizerTypeOK
  <2>10. \A v \in Users : schedule[v] # NoSchedule => schedule'[v] # NoSchedule
    <3>1. schedule[u] # NoSchedule => schedule[u] \in ScheduleRow
      BY <1>2 DEF OrganizerOK, OrganizerTypeOK
    <3>2. schedule[u] # NoSchedule => schedule'[u].status \in Statuses
      BY <3>1, <2>2, <1>2 DEF ScheduleRow
    <3>3. schedule[u] # NoSchedule => schedule'[u] # NoSchedule
      BY <3>2 DEF NoSchedule, Statuses, Working
    <3> QED BY <3>3, <2>2
  <2>4. /\ statusBy' \in [Users -> Requests \cup {None}]
        /\ timesBy' \in [Users -> Requests \cup {None}]
        /\ \A v \in Users : /\ statusBy'[v] = statusBy[v] \/ statusBy'[v] = r
                            /\ timesBy'[v] = timesBy[v] \/ timesBy'[v] = r
    BY <2>1, <1>2 DEF OrganizerOK, OrganizerTypeOK
  <2>5. OrganizerTypeOK'
    BY <1>1, <1>4, <2>3, <2>4 DEF OrganizerOK, OrganizerTypeOK
  <2>6. ASSUME NEW q \in Requests, Doing(q, "schedule")' PROVE ScheduleOK(q)'
    <3>1. q # r /\ Doing(q, "schedule") /\ req'[q] = req[q] /\ ScheduleOK(q) /\ r \notin saw[q]
      BY <2>6, <1>3 DEF Doing, Idle, OrganizerOK, RequestOK
    <3>2. CASE req[q].user = u
      BY <3>1, <3>2, <2>10, <2>1, <2>2, <1>2, <1>3 DEF ScheduleOK, OrganizerOK, OrganizerTypeOK
    <3>3. CASE req[q].user # u
      <4>1. req[q].user \in Users
        BY <3>1, OrganizerTyped DEF OrganizerOK
      <4> QED BY <3>1, <3>3, <4>1, <2>10, <2>1, <2>2, <1>3 DEF ScheduleOK, OrganizerOK, OrganizerTypeOK
    <3> QED BY <3>2, <3>3
  <2>7. OffDaysHaveNoTimesUnlessOverlapped'
    <3> SUFFICES ASSUME NEW v \in Users, schedule'[v].status \notin Working,
                        schedule'[v].times # None
        PROVE  Overlap(statusBy[v], timesBy[v])'
      BY DEF OffDaysHaveNoTimesUnlessOverlapped
    <3>1. CASE statusBy'[v] = statusBy[v] /\ timesBy'[v] = timesBy[v]
               /\ schedule'[v].status = schedule[v].status
               /\ schedule'[v].times = schedule[v].times
      <4>1. Overlap(statusBy[v], timesBy[v])
        BY <3>1 DEF OrganizerOK, OffDaysHaveNoTimesUnlessOverlapped
      <4>2. statusBy[v] \in Requests /\ timesBy[v] \in Requests
        BY <4>1 DEF Overlap
      <4> QED BY <4>1, <4>2, <3>1, <1>3, OverlapStays
    <3>2. CASE v = u /\ to.status # was.status /\ to.times = was.times
      <4>1. statusBy'[u] = r /\ timesBy'[u] = timesBy[u] /\ to.status \notin Working
            /\ schedule[u].times # was.times
        BY <3>2, <2>1, <2>2, <1>1, <1>2 DEF ScheduleOK, OrganizerOK, OrganizerTypeOK
      <4>2. timesBy[u] \in ended /\ timesBy[u] \notin saw[r] /\ timesBy[u] \in Requests
        BY <4>1, <1>1 DEF ScheduleOK, OrganizerOK, RequestOK
      <4> QED BY <4>1, <4>2, <3>2, <1>1, EndingOverlaps DEF OrganizerOK
    <3>3. CASE v = u /\ to.status = was.status /\ to.times # was.times
      <4>1. statusBy'[u] = statusBy[u] /\ timesBy'[u] = r /\ to.status \in Working
            /\ schedule[u].status # was.status
        BY <3>3, <2>1, <2>2, <1>1, <1>2 DEF ScheduleOK, OrganizerOK, OrganizerTypeOK
      <4>2. statusBy[u] \in ended /\ statusBy[u] \notin saw[r] /\ statusBy[u] \in Requests
        BY <4>1, <1>1 DEF ScheduleOK, OrganizerOK, RequestOK
      <4> QED BY <4>1, <4>2, <3>3, <1>1, EndingOverlaps DEF OrganizerOK
    <3>4. CASE v = u /\ to.status # was.status /\ to.times # was.times
      BY <3>4, <2>2, <1>1 DEF ScheduleOK
    <3> QED BY <3>1, <3>2, <3>3, <3>4, <2>1, <2>2, <1>2 DEF OrganizerOK, OrganizerTypeOK
  <2>8. \A q \in Requests : Doing(q, "task")' => TaskOK(q)'
    BY <1>3 DEF Doing, Idle, TaskOK, Dated, OrganizerOK
  <2>9. \A v \in Users : statusBy'[v] \in ended' \cup {None} /\ timesBy'[v] \in ended' \cup {None}
    BY <2>4, <1>3 DEF OrganizerOK
  <2> QED BY <1>3, <1>4, <2>5, <2>6, <2>7, <2>8, <2>9 DEF OrganizerOK, RequestStep
<1> QED BY <1>5, <1>6

LEMMA OrganizerSteps == OrganizerOK /\ [OrganizerNext]_organizerVars => OrganizerOK'
<1> SUFFICES ASSUME OrganizerOK, [OrganizerNext]_organizerVars PROVE OrganizerOK'
  OBVIOUS
<1>1. CASE UNCHANGED organizerVars
  BY <1>1 DEF organizerVars, requestVars, OrganizerOK, RequestOK, OrganizerTypeOK, Doing,
     ScheduleOK, TaskOK, Dated, OffDaysHaveNoTimesUnlessOverlapped, CompletedTasksAreDated, Overlap, Begun
<1>2. CASE OrganizerNext
  BY <1>2, ScheduleReads, ScheduleWrites, TaskReads, TaskWrites, TaskCreations
     DEF OrganizerNext
<1> QED BY <1>1, <1>2

THEOREM OrganizerIsTyped == OrganizerSpec => []OrganizerTypeOK
BY OrganizerBegins, OrganizerSteps, PTL DEF OrganizerSpec, OrganizerOK

\* Only requests that overlap part the times of a day from its status.
THEOREM OffDays == OrganizerSpec => []OffDaysHaveNoTimesUnlessOverlapped
BY OrganizerBegins, OrganizerSteps, PTL DEF OrganizerSpec, OrganizerOK

\* However updates of a task overlap, its date goes with its being completed.
THEOREM TasksAreDated == OrganizerSpec => []CompletedTasksAreDated
BY OrganizerBegins, OrganizerSteps, PTL DEF OrganizerSpec, OrganizerOK

\* So the columns that belong together agree.
THEOREM OrganizerConsistent == OrganizerSpec => []OrganizerIsConsistent
<1>1. OffDaysHaveNoTimesUnlessOverlapped /\ CompletedTasksAreDated => OrganizerIsConsistent
  BY DEF OrganizerIsConsistent
<1> QED BY <1>1, OffDays, TasksAreDated, PTL


-----------------------------------------------------------------------------
(* Sessions.                                                               *)

\* A token is issued by a request that has ended; one that was refreshed, or cut
\* by a deactivation, is revoked; and whoever refreshes it still saw it valid.
SessionOK ==
  /\ RequestOK
  /\ SessionTypeOK
  /\ \A t \in Requests : Issued(t) => t \in ended
  /\ \A q \in Requests : parent[q] # None =>
       q \in ended /\ Issued(parent[q]) /\ token[parent[q]].revoked
  /\ \A d \in Requests : \A t \in cut[d] : d \in ended /\ Issued(t) /\ token[t].revoked
  /\ \A q, r \in Requests :
       Doing(r, "refresh") /\ parent[q] = req[r].token => q \notin saw[r]
  /\ \A d, r \in Requests :
       Doing(r, "refresh") /\ req[r].token \in cut[d] => d \notin saw[r]
  /\ OneHeirUnlessOverlapped
  /\ DeactivationEndsSessions

\* Tokens are issued by what has ended, and stay issued and revoked.
TokensStay ==
  /\ \A t \in Requests : Issued(t) =>
       Issued(t)' /\ (token[t].revoked => token'[t].revoked)
  /\ \A t \in Requests : Issued(t)' => Issued(t) \/ t \in ended'

\* No refresh begins but of a valid token.
RefreshesStay ==
  \A r \in Requests : Doing(r, "refresh")' =>
    \/ Doing(r, "refresh") /\ req'[r] = req[r] /\ saw'[r] = saw[r]
    \/ Valid(req'[r].token)

LEMMA SessionsBegin == SessionInit => SessionOK
<1> SUFFICES ASSUME SessionInit PROVE SessionOK
  OBVIOUS
<1>1. RequestOK /\ \A r \in Requests : req[r] = Idle /\ token[r] = NoToken
        /\ parent[r] = None /\ cut[r] = {} /\ ~Doing(r, "refresh")
        /\ req[r].kind \notin {"refresh", "logout"} /\ ~Doing(r, "set_active")
  BY RequestsBegin DEF SessionInit, RequestInit, Idle, Doing
<1>2. SessionTypeOK
  BY <1>1 DEF SessionInit, RequestInit, SessionTypeOK
<1> QED BY <1>1, <1>2 DEF SessionOK, OneHeirUnlessOverlapped, DeactivationEndsSessions, Issued

\* What goes on with no session and ends none.
LEMMA SessionsGoOn ==
  ASSUME SessionOK, RequestStep, SessionTypeOK', TokensStay, RefreshesStay,
         UNCHANGED <<parent, cut>>
  PROVE  SessionOK'
<1>1. RequestOK' /\ ended \subseteq ended'
  BY DEF RequestStep
<1>2. \A t \in Requests : Issued(t)' => t \in ended'
  BY <1>1 DEF SessionOK, TokensStay
<1>3. ASSUME NEW q \in Requests, parent'[q] # None
      PROVE  q \in ended' /\ parent[q] \in Requests /\ Issued(parent[q])'
             /\ token'[parent[q]].revoked /\ saw'[q] = saw[q]
  BY <1>1, <1>3 DEF SessionOK, SessionTypeOK, TokensStay, RequestStep, Begun
<1>4. ASSUME NEW d \in Requests, NEW t \in cut'[d]
      PROVE  t \in Requests /\ d \in ended' /\ Issued(t)' /\ token'[t].revoked
  BY <1>1, <1>4 DEF SessionOK, SessionTypeOK, TokensStay
<1>5. ASSUME NEW r \in Requests, Doing(r, "refresh")'
      PROVE  /\ \A q \in Requests : parent'[q] = req'[r].token => q \notin saw'[r]
             /\ \A d \in Requests : req'[r].token \in cut'[d] => d \notin saw'[r]
  <2>1. CASE Doing(r, "refresh") /\ req'[r] = req[r] /\ saw'[r] = saw[r]
    BY <2>1 DEF SessionOK
  <2>2. CASE Valid(req'[r].token)
    <3>1. PICK t : t = req'[r].token /\ t \in Requests
      BY <1>5 DEF SessionTypeOK, SessionRequest, Doing, Idle
    <3>2. ~token[t].revoked /\ t # None
      BY <2>2, <3>1, NoneAssumption DEF Valid
    <3> QED BY <3>1, <3>2 DEF SessionOK
  <2> QED BY <1>5, <2>1, <2>2 DEF RefreshesStay
<1>6. OneHeirUnlessOverlapped'
  BY OverlapStays DEF OneHeirUnlessOverlapped, SessionOK
<1>7. DeactivationEndsSessions'
  <2> SUFFICES ASSUME NEW d \in Requests, NEW r \in Requests, parent'[r] \in cut'[d]
      PROVE  d \notin saw'[r]
    BY DEF DeactivationEndsSessions
  <2>1. parent[r] # None
    BY NoneAssumption DEF SessionOK, SessionTypeOK
  <2> QED BY <2>1, <1>3 DEF SessionOK, DeactivationEndsSessions
<1>8. \A q \in Requests : parent'[q] # None =>
        q \in ended' /\ Issued(parent[q])' /\ token'[parent'[q]].revoked
  BY <1>3
<1> QED BY <1>1, <1>2, <1>4, <1>5, <1>6, <1>7, <1>8 DEF SessionOK, Issued

LEMMA SessionRequestsBegin ==
  ASSUME SessionOK, NEW r \in Requests, NEW record \in SessionRequest, Begin(r, record),
         UNCHANGED <<status, token, parent, cut>>,
         record.kind = "refresh" => Valid(record.token),
         record.kind = "logout" => Issued(record.token),
         record.kind = "set_active" => \A t \in record.tokens : Issued(t)
  PROVE  SessionOK'
<1>1. record # Idle
  BY DEF SessionRequest, Idle
<1>2. /\ RequestStep /\ req'[r] = record
      /\ \A q \in Requests \ {r} : req'[q] = req[q] /\ saw'[q] = saw[q]
  BY <1>1, BeginStep DEF SessionOK
<1>3. RefreshesStay
  BY <1>2 DEF RefreshesStay, Doing
<1>4. \A q \in Requests :
        /\ req'[q].kind \in {"refresh", "logout"} => Issued(req'[q].token)
        /\ req'[q].kind = "set_active" => \A t \in req'[q].tokens : Issued(t)
  BY <1>2 DEF SessionOK, SessionTypeOK, Doing, Valid
<1>5. req' \in [Requests -> SessionRequest \cup {Idle}]
  BY DEF Begin, SessionOK, SessionTypeOK
<1>6. SessionTypeOK'
  BY <1>4, <1>5 DEF SessionOK, SessionTypeOK, Doing, Issued
<1>7. TokensStay
  BY DEF TokensStay, Issued
<1> QED BY <1>2, <1>3, <1>6, <1>7, SessionsGoOn

LEMMA SessionReads ==
  ASSUME SessionOK, NEW r \in Requests,
         \/ \E a \in Accounts : LoginRead(r, a) \/ SignupRead(r, a)
         \/ \E t \in Requests : RefreshRead(r, t) \/ LogoutRead(r, t)
         \/ \E o \in Owners, m \in Members, to \in {"active", "inactive"} :
              SetActiveRead(r, o, m, to)
  PROVE  SessionOK'
<1>1. ASSUME NEW a \in Accounts, LoginRead(r, a) PROVE SessionOK'
  <2> DEFINE record == [kind |-> "login", account |-> a]
  <2>1. record \in SessionRequest /\ record.kind = "login"
    BY DEF SessionRequest
  <2>2. Begin(r, record) /\ UNCHANGED <<status, token, parent, cut>>
    BY <1>1 DEF LoginRead
  <2> HIDE DEF record
  <2> QED BY <2>1, <2>2, SessionRequestsBegin
<1>2. ASSUME NEW a \in Accounts, SignupRead(r, a) PROVE SessionOK'
  <2> DEFINE record == [kind |-> "signup", account |-> a]
  <2>1. record \in SessionRequest /\ record.kind = "signup"
    BY DEF SessionRequest
  <2>2. Begin(r, record) /\ UNCHANGED <<status, token, parent, cut>>
    BY <1>2 DEF SignupRead
  <2> HIDE DEF record
  <2> QED BY <2>1, <2>2, SessionRequestsBegin
<1>3. ASSUME NEW t \in Requests, RefreshRead(r, t) PROVE SessionOK'
  <2> DEFINE record == [kind |-> "refresh", token |-> t]
  <2>1. record \in SessionRequest /\ record.kind = "refresh" /\ record.token = t
    BY DEF SessionRequest
  <2>2. Begin(r, record) /\ UNCHANGED <<status, token, parent, cut>> /\ Valid(t)
    BY <1>3 DEF RefreshRead
  <2> HIDE DEF record
  <2> QED BY <2>1, <2>2, SessionRequestsBegin
<1>4. ASSUME NEW t \in Requests, LogoutRead(r, t) PROVE SessionOK'
  <2> DEFINE record == [kind |-> "logout", token |-> t]
  <2>1. record \in SessionRequest /\ record.kind = "logout" /\ record.token = t
    BY DEF SessionRequest
  <2>2. Begin(r, record) /\ UNCHANGED <<status, token, parent, cut>> /\ Issued(t)
    BY <1>4 DEF LogoutRead, Valid
  <2> HIDE DEF record
  <2> QED BY <2>1, <2>2, SessionRequestsBegin
<1>5. ASSUME NEW o \in Owners, NEW m \in Members, NEW to \in {"active", "inactive"},
             SetActiveRead(r, o, m, to)
      PROVE  SessionOK'
  <2> DEFINE tokens == IF to = "inactive" THEN OpenTokens(m) ELSE {}
             record == [kind |-> "set_active", member |-> m, was |-> status[m], to |-> to,
                        tokens |-> tokens]
  <2>1. status[m] \in {"active", "inactive"}
    BY <1>5 DEF SetActiveRead, SessionOK, SessionTypeOK, Accounts, Staff
  <2>2. tokens \in SUBSET Requests /\ \A t \in tokens : Issued(t)
    BY DEF OpenTokens
  <2>3. Begin(r, record) /\ UNCHANGED <<status, token, parent, cut>>
    BY <1>5 DEF SetActiveRead
  <2> HIDE DEF tokens
  <2>4. record \in SessionRequest /\ record.kind = "set_active" /\ record.tokens = tokens
    BY <2>1, <2>2 DEF SessionRequest
  <2> HIDE DEF record
  <2> QED BY <2>2, <2>3, <2>4, SessionRequestsBegin
<1> QED BY <1>1, <1>2, <1>3, <1>4, <1>5

\* The end of a request that goes on with no session.
LEMMA SessionRequestsEnd ==
  ASSUME SessionOK, NEW r \in Requests, End(r), UNCHANGED <<parent, cut>>,
         status' \in [Accounts -> {"none", "active", "inactive"}],
         token' \in [Requests -> TokenRow \cup {NoToken}],
         \A t \in Requests : Issued(t) =>
           Issued(t)' /\ (token[t].revoked => token'[t].revoked),
         \A t \in Requests : Issued(t)' => Issued(t) \/ t = r
  PROVE  SessionOK'
<1>1. /\ RequestStep /\ req'[r] = Idle /\ saw' = saw /\ ended' = ended \cup {r}
      /\ \A q \in Requests \ {r} : req'[q] = req[q]
  BY EndStep DEF SessionOK
<1>2. RefreshesStay
  BY <1>1 DEF RefreshesStay, Doing, Idle
<1>3. TokensStay
  BY <1>1 DEF TokensStay
<1>4. SessionTypeOK'
  <2>1. req' \in [Requests -> SessionRequest \cup {Idle}]
    BY DEF End, SessionOK, SessionTypeOK
  <2>2. ASSUME NEW q \in Requests
        PROVE  /\ req'[q].kind \in {"refresh", "logout"} =>
                    req[q].token = req'[q].token /\ req[q].token \in Requests
                    /\ Issued(req[q].token)
               /\ req'[q].kind = "set_active" =>
                    \A t \in req'[q].tokens : t \in Requests /\ Issued(t)
    BY <1>1 DEF SessionOK, SessionTypeOK, SessionRequest, Doing, Idle
  <2>3. ASSUME NEW q \in Requests
        PROVE  /\ req'[q].kind \in {"refresh", "logout"} => token'[req'[q].token] # NoToken
               /\ req'[q].kind = "set_active" => \A t \in req'[q].tokens : token'[t] # NoToken
    BY <2>2 DEF Issued
  <2> QED BY <2>1, <2>3 DEF SessionOK, SessionTypeOK, Doing, Issued
<1> QED BY <1>1, <1>2, <1>3, <1>4, SessionsGoOn

LEMMA SessionEnds ==
  ASSUME SessionOK, NEW r \in Requests,
         LoginCommit(r) \/ SignupCommit(r) \/ LogoutCommit(r) \/ SessionAbort(r)
  PROVE  SessionOK'
<1>1. CASE LoginCommit(r) \/ SignupCommit(r)
  <2>1. /\ End(r) /\ UNCHANGED <<parent, cut>> /\ req[r].account \in Accounts
        /\ token' \in {token, [token EXCEPT ![r] = NewToken(req[r].account)]}
        /\ status' \in {status, [status EXCEPT ![req[r].account] = "active"]}
    BY <1>1 DEF LoginCommit, SignupCommit, SessionOK, SessionTypeOK, SessionRequest, Doing,
       Idle
  <2>2. NewToken(req[r].account) \in TokenRow /\ NewToken(req[r].account) # NoToken
    BY <2>1 DEF NewToken, TokenRow, NoToken
  <2>3. ~Issued(r)
    BY <2>1, EndStep DEF SessionOK
  <2>4. /\ status' \in [Accounts -> {"none", "active", "inactive"}]
        /\ token' \in [Requests -> TokenRow \cup {NoToken}]
        /\ \A t \in Requests \ {r} : token'[t] = token[t]
    BY <2>1, <2>2 DEF SessionOK, SessionTypeOK
  <2>5. \A t \in Requests : Issued(t) =>
          Issued(t)' /\ (token[t].revoked => token'[t].revoked)
    BY <2>3, <2>4 DEF Issued
  <2> QED BY <2>1, <2>4, <2>5, SessionRequestsEnd DEF Issued
<1>2. CASE LogoutCommit(r)
  <2>1. PICK u \in Requests : u = req[r].token /\ Issued(u)
    BY <1>2 DEF LogoutCommit, SessionOK, SessionTypeOK, SessionRequest, Doing, Idle
  <2>2. End(r) /\ UNCHANGED <<parent, cut, status>> /\ token' = [token EXCEPT ![u].revoked = TRUE]
    BY <1>2, <2>1 DEF LogoutCommit
  <2>3. token[u] \in TokenRow /\ token[u].revoked \in BOOLEAN
    BY <2>1 DEF SessionOK, SessionTypeOK, Issued, TokenRow
  <2>4. /\ token'[u] = [token[u] EXCEPT !.revoked = TRUE] /\ token'[u] \in TokenRow
        /\ token'[u].revoked /\ \A t \in Requests \ {u} : token'[t] = token[t]
    BY <2>1, <2>2, <2>3 DEF SessionOK, SessionTypeOK, TokenRow
  <2>5. token'[u] # NoToken
    BY <2>4 DEF TokenRow, NoToken
  <2>6. token' \in [Requests -> TokenRow \cup {NoToken}]
    BY <2>2, <2>4 DEF SessionOK, SessionTypeOK
  <2>7. \A t \in Requests : Issued(t) =>
          Issued(t)' /\ (token[t].revoked => token'[t].revoked)
    BY <2>4, <2>5 DEF Issued
  <2>8. \A t \in Requests : Issued(t)' => Issued(t) \/ t = r
    BY <2>1, <2>4 DEF Issued
  <2> QED BY <2>2, <2>6, <2>7, <2>8, SessionRequestsEnd DEF SessionOK, SessionTypeOK
<1>3. CASE SessionAbort(r)
  <2>1. End(r) /\ UNCHANGED <<status, token, parent, cut>>
    BY <1>3 DEF SessionAbort
  <2>2. \A t \in Requests : (Issued(t)' <=> Issued(t)) /\ token'[t] = token[t]
    BY <2>1 DEF Issued
  <2> QED BY <2>1, <2>2, SessionRequestsEnd DEF SessionOK, SessionTypeOK
<1> QED BY <1>1, <1>2, <1>3

LEMMA SessionExpiry ==
  ASSUME SessionOK, NEW u \in Requests, ExpireToken(u)
  PROVE  SessionOK'
<1>1. /\ RequestStep /\ req' = req /\ saw' = saw /\ ended' = ended
      /\ UNCHANGED <<status, parent, cut>> /\ token' = [token EXCEPT ![u].expired = TRUE]
      /\ Issued(u)
  BY QuietStep DEF ExpireToken, SessionOK
<1>2. token[u] \in TokenRow
  BY <1>1 DEF SessionOK, SessionTypeOK, Issued
<1>3. /\ token'[u] = [token[u] EXCEPT !.expired = TRUE] /\ token'[u] \in TokenRow
      /\ token'[u].revoked = token[u].revoked
      /\ \A t \in Requests \ {u} : token'[t] = token[t]
  BY <1>1, <1>2 DEF SessionOK, SessionTypeOK, TokenRow
<1>4. token'[u] # NoToken
  BY <1>3 DEF TokenRow, NoToken
<1>5. token' \in [Requests -> TokenRow \cup {NoToken}]
  BY <1>1, <1>3 DEF SessionOK, SessionTypeOK
<1>6. \A t \in Requests : Issued(t)' <=> Issued(t)
  BY <1>1, <1>3, <1>4 DEF Issued
<1>7. TokensStay
  BY <1>3, <1>6 DEF TokensStay
<1>8. RefreshesStay
  BY <1>1 DEF RefreshesStay, Doing
<1>9. SessionTypeOK'
  <2>1. ASSUME NEW q \in Requests
        PROVE  /\ req'[q].kind \in {"refresh", "logout"} =>
                    req'[q] = req[q] /\ req[q].token \in Requests /\ Issued(req[q].token)
               /\ req'[q].kind = "set_active" =>
                    req'[q] = req[q] /\ \A t \in req[q].tokens : t \in Requests /\ Issued(t)
    BY <1>1 DEF SessionOK, SessionTypeOK, SessionRequest, Doing, Idle
  <2>2. ASSUME NEW q \in Requests
        PROVE  /\ req'[q].kind \in {"refresh", "logout"} => token'[req'[q].token] # NoToken
               /\ req'[q].kind = "set_active" => \A t \in req'[q].tokens : token'[t] # NoToken
    BY <1>6, <2>1 DEF Issued
  <2> QED BY <2>2, <1>1, <1>5 DEF SessionOK, SessionTypeOK, Doing, Issued
<1> QED BY <1>1, <1>7, <1>8, <1>9, SessionsGoOn

\* A refresh goes on with a token that was valid when it began, and that nobody
\* it could have seen had refreshed or cut.
LEMMA SessionRefreshes ==
  ASSUME SessionOK, NEW r \in Requests, RefreshCommit(r)
  PROVE  SessionOK'
<1>1. PICK u \in Requests : u = req[r].token /\ Issued(u) /\ Doing(r, "refresh") /\ End(r)
  BY DEF RefreshCommit, SessionOK, SessionTypeOK, SessionRequest, Doing, Idle
<1>2. /\ RequestStep /\ req'[r] = Idle /\ saw' = saw /\ ended' = ended \cup {r}
      /\ \A q \in Requests \ {r} : req'[q] = req[q]
      /\ r \notin ended /\ RequestOK'
  BY <1>1, EndStep DEF SessionOK, RequestStep
<1>3. u # r /\ u # None /\ ~Issued(r) /\ parent[r] = None
  BY <1>1, <1>2, NoneAssumption DEF SessionOK
<1>4. token[u] \in TokenRow
  BY <1>1 DEF SessionOK, SessionTypeOK, Issued
<1>5. PICK fresh : fresh = NewToken(token[u].account)
  OBVIOUS
<1>6. fresh \in TokenRow /\ fresh # NoToken /\ ~fresh.revoked
  BY <1>4, <1>5 DEF NewToken, TokenRow, NoToken
<1>7. /\ token' = [token EXCEPT ![u].revoked = TRUE, ![r] = fresh]
      /\ parent' = [parent EXCEPT ![r] = u] /\ status' = status /\ cut' = cut
  BY <1>1, <1>5 DEF RefreshCommit
<1>8. /\ token'[u] = [token[u] EXCEPT !.revoked = TRUE] /\ token'[r] = fresh
      /\ token'[u] \in TokenRow /\ token'[u].revoked
      /\ \A t \in Requests \ {u, r} : token'[t] = token[t]
  BY <1>3, <1>4, <1>7 DEF SessionOK, SessionTypeOK, TokenRow
<1>9. token'[u] # NoToken
  BY <1>8 DEF TokenRow, NoToken
<1>10. token' \in [Requests -> TokenRow \cup {NoToken}]
  BY <1>6, <1>7, <1>8 DEF SessionOK, SessionTypeOK
<1>11. /\ \A t \in Requests : Issued(t)' <=> Issued(t) \/ t = r
       /\ \A t \in Requests : Issued(t) /\ token[t].revoked => token'[t].revoked
  BY <1>1, <1>3, <1>6, <1>8, <1>9 DEF Issued
<1>12. parent'[r] = u /\ \A q \in Requests \ {r} : parent'[q] = parent[q]
  BY <1>7 DEF SessionOK, SessionTypeOK
<1>13. SessionTypeOK'
  <2>1. req' \in [Requests -> SessionRequest \cup {Idle}]
    BY <1>1 DEF End, SessionOK, SessionTypeOK
  <2>2. ASSUME NEW q \in Requests
        PROVE  /\ req'[q].kind \in {"refresh", "logout"} =>
                    req[q].token = req'[q].token /\ req[q].token \in Requests
                    /\ Issued(req[q].token)
               /\ req'[q].kind = "set_active" =>
                    \A t \in req'[q].tokens : t \in Requests /\ Issued(t)
    BY <1>2 DEF SessionOK, SessionTypeOK, SessionRequest, Doing, Idle
  <2>3. ASSUME NEW q \in Requests
        PROVE  /\ req'[q].kind \in {"refresh", "logout"} => token'[req'[q].token] # NoToken
               /\ req'[q].kind = "set_active" => \A t \in req'[q].tokens : token'[t] # NoToken
    BY <2>2, <1>11 DEF Issued
  <2>4. parent' \in [Requests -> Requests \cup {None}] /\ cut' \in [Requests -> SUBSET Requests]
        /\ status' \in [Accounts -> {"none", "active", "inactive"}]
    BY <1>7 DEF SessionOK, SessionTypeOK
  <2> QED BY <2>1, <2>3, <2>4, <1>10 DEF SessionTypeOK, Doing, Issued
<1>14. \A q \in Requests : Doing(q, "refresh")' =>
         q # r /\ Doing(q, "refresh") /\ req'[q] = req[q] /\ saw'[q] = saw[q]
  BY <1>2 DEF Doing, Idle
<1>15. r \notin saw[r] /\ \A q \in Requests : r \notin saw[q]
  BY <1>2 DEF SessionOK, RequestOK
<1>16. /\ \A t \in Requests : Issued(t)' => t \in ended'
       /\ \A d \in Requests : \A t \in cut'[d] : d \in ended' /\ Issued(t)' /\ token'[t].revoked
  <2>1. \A t \in Requests : Issued(t)' => t \in ended'
    BY <1>2, <1>11 DEF SessionOK
  <2>2. \A d \in Requests : \A t \in cut[d] :
          t \in Requests /\ d \in ended /\ Issued(t) /\ token[t].revoked
    BY DEF SessionOK, SessionTypeOK
  <2> QED BY <2>1, <2>2, <1>2, <1>7, <1>11
<1>17. ASSUME NEW q \in Requests, parent'[q] # None
       PROVE  q \in ended' /\ \E t \in Requests : t = parent'[q] /\ Issued(t)' /\ token'[t].revoked
  <2>1. CASE q = r
    BY <2>1, <1>1, <1>2, <1>8, <1>11, <1>12
  <2>2. CASE q # r
    BY <2>2, <1>2, <1>11, <1>12, <1>17 DEF SessionOK, SessionTypeOK
  <2> QED BY <2>1, <2>2
<1>18. ASSUME NEW q \in Requests, Doing(q, "refresh")'
       PROVE  /\ \A p \in Requests : parent'[p] = req'[q].token => p \notin saw'[q]
              /\ \A d \in Requests : req'[q].token \in cut'[d] => d \notin saw'[q]
  BY <1>7, <1>12, <1>14, <1>15, <1>18 DEF SessionOK
<1>19. ASSUME NEW q \in Requests, q # r, parent'[q] = u
       PROVE  Overlap(q, r)' /\ Overlap(r, q)'
  <2>1. q \in ended /\ q \notin saw[r]
    BY <1>1, <1>3, <1>12, <1>19 DEF SessionOK
  <2> QED BY <2>1, <1>1, EndingOverlaps DEF SessionOK
<1>20. OneHeirUnlessOverlapped'
  <2> SUFFICES ASSUME NEW p \in Requests, NEW q \in Requests, p # q, parent'[p] # None,
                      parent'[p] = parent'[q]
      PROVE  Overlap(p, q)'
    BY DEF OneHeirUnlessOverlapped
  <2>1. CASE p = r \/ q = r
    BY <2>1, <1>12, <1>19
  <2>2. CASE p # r /\ q # r
    BY <2>2, <1>2, <1>12, OverlapStays DEF SessionOK, OneHeirUnlessOverlapped
  <2> QED BY <2>1, <2>2
<1>21. DeactivationEndsSessions'
  <2> SUFFICES ASSUME NEW d \in Requests, NEW q \in Requests, parent'[q] \in cut'[d]
      PROVE  d \notin saw'[q]
    BY DEF DeactivationEndsSessions
  <2>1. CASE q = r
    BY <2>1, <1>1, <1>2, <1>7, <1>12 DEF SessionOK
  <2>2. CASE q # r
    BY <2>2, <1>2, <1>7, <1>12 DEF SessionOK, DeactivationEndsSessions
  <2> QED BY <2>1, <2>2
<1>22. \A q \in Requests : parent'[q] # None =>
         q \in ended' /\ Issued(parent[q])' /\ token'[parent'[q]].revoked
  BY <1>17 DEF Issued
<1> QED BY <1>2, <1>13, <1>16, <1>18, <1>20, <1>21, <1>22 DEF SessionOK, Issued

\* A deactivation cuts the tokens it read; whoever went on with one began
\* before it ended.
LEMMA SessionCuts ==
  ASSUME SessionOK, NEW r \in Requests, SetActiveCommit(r)
  PROVE  SessionOK'
<1>1. PICK S \in SUBSET Requests :
        /\ S = req[r].tokens /\ Doing(r, "set_active") /\ End(r)
        /\ req[r].member \in Members /\ req[r].to \in {"active", "inactive"}
        /\ \A t \in S : Issued(t)
  BY DEF SetActiveCommit, SessionOK, SessionTypeOK, SessionRequest, Doing, Idle
<1>2. /\ RequestStep /\ req'[r] = Idle /\ saw' = saw /\ ended' = ended \cup {r}
      /\ \A q \in Requests \ {r} : req'[q] = req[q]
      /\ r \notin ended /\ RequestOK' /\ ended \subseteq ended'
  BY <1>1, EndStep DEF SessionOK, RequestStep
<1>3. /\ token' = [t \in Requests |-> IF t \in S THEN [token[t] EXCEPT !.revoked = TRUE]
                                      ELSE token[t]]
      /\ cut' = [cut EXCEPT ![r] = S] /\ parent' = parent
      /\ status' \in {status, [status EXCEPT ![req[r].member] = req[r].to]}
  BY <1>1 DEF SetActiveCommit
<1>4. ASSUME NEW t \in S
      PROVE  token'[t] \in TokenRow /\ token'[t].revoked /\ token'[t] # NoToken
  <2>1. token[t] \in TokenRow /\ t \in Requests
    BY <1>1 DEF SessionOK, SessionTypeOK, Issued
  <2>2. token'[t] = [token[t] EXCEPT !.revoked = TRUE]
    BY <2>1, <1>3
  <2>3. token'[t] \in TokenRow /\ token'[t].revoked
    BY <2>1, <2>2 DEF TokenRow
  <2> QED BY <2>3 DEF TokenRow, NoToken
<1>5. \A t \in Requests \ S : token'[t] = token[t]
  BY <1>3
<1>6. /\ \A t \in Requests : Issued(t)' <=> Issued(t)
      /\ \A t \in Requests : Issued(t) /\ token[t].revoked => token'[t].revoked
  BY <1>1, <1>4, <1>5 DEF Issued
<1>7. token' \in [Requests -> TokenRow \cup {NoToken}]
  <2>1. \A t \in Requests : token'[t] \in TokenRow \cup {NoToken}
    BY <1>4, <1>5 DEF SessionOK, SessionTypeOK
  <2> QED BY <2>1, <1>3
<1>8. cut'[r] = S /\ \A d \in Requests \ {r} : cut'[d] = cut[d]
  BY <1>3 DEF SessionOK, SessionTypeOK
<1>9. SessionTypeOK'
  <2>1. req' \in [Requests -> SessionRequest \cup {Idle}]
    BY <1>1 DEF End, SessionOK, SessionTypeOK
  <2>2. ASSUME NEW q \in Requests
        PROVE  /\ req'[q].kind \in {"refresh", "logout"} =>
                    req[q].token = req'[q].token /\ req[q].token \in Requests
                    /\ Issued(req[q].token)
               /\ req'[q].kind = "set_active" =>
                    \A t \in req'[q].tokens : t \in Requests /\ Issued(t)
    BY <1>2 DEF SessionOK, SessionTypeOK, SessionRequest, Doing, Idle
  <2>3. ASSUME NEW q \in Requests
        PROVE  /\ req'[q].kind \in {"refresh", "logout"} => token'[req'[q].token] # NoToken
               /\ req'[q].kind = "set_active" => \A t \in req'[q].tokens : token'[t] # NoToken
    BY <2>2, <1>6 DEF Issued
  <2>4. parent' \in [Requests -> Requests \cup {None}] /\ cut' \in [Requests -> SUBSET Requests]
        /\ status' \in [Accounts -> {"none", "active", "inactive"}]
    BY <1>1, <1>3 DEF SessionOK, SessionTypeOK
  <2> QED BY <2>1, <2>3, <2>4, <1>7 DEF SessionTypeOK, Doing, Issued
<1>10. \A q \in Requests : Doing(q, "refresh")' =>
         Doing(q, "refresh") /\ req'[q] = req[q] /\ saw'[q] = saw[q]
  BY <1>2 DEF Doing, Idle
<1>11. \A q \in Requests : r \notin saw[q]
  BY <1>2 DEF SessionOK, RequestOK
<1>12. \A t \in Requests : Issued(t)' => t \in ended'
  BY <1>2, <1>6 DEF SessionOK
<1>13. ASSUME NEW d \in Requests, NEW t \in cut'[d]
       PROVE  d \in ended' /\ token'[t] # NoToken /\ token'[t].revoked
  <2>1. CASE d = r
    BY <2>1, <1>2, <1>4, <1>8, <1>13
  <2>2. CASE d # r
    <3>1. t \in Requests /\ d \in ended /\ Issued(t) /\ token[t].revoked
      BY <2>2, <1>8, <1>13 DEF SessionOK, SessionTypeOK
    <3> QED BY <3>1, <1>2, <1>6 DEF Issued
  <2> QED BY <2>1, <2>2
<1>14. ASSUME NEW q \in Requests, parent'[q] # None
       PROVE  q \in ended' /\ token'[parent'[q]] # NoToken /\ token'[parent'[q]].revoked
  <2>1. parent[q] \in Requests /\ q \in ended /\ Issued(parent[q]) /\ token[parent[q]].revoked
    BY <1>3, <1>14 DEF SessionOK, SessionTypeOK
  <2> QED BY <2>1, <1>2, <1>3, <1>6 DEF Issued
<1>15. ASSUME NEW q \in Requests, Doing(q, "refresh")'
       PROVE  /\ \A p \in Requests : parent'[p] = req'[q].token => p \notin saw'[q]
              /\ \A d \in Requests : req'[q].token \in cut'[d] => d \notin saw'[q]
  BY <1>3, <1>8, <1>10, <1>11, <1>15 DEF SessionOK
<1>16. OneHeirUnlessOverlapped'
  BY <1>2, <1>3, OverlapStays DEF OneHeirUnlessOverlapped, SessionOK
<1>17. DeactivationEndsSessions'
  BY <1>2, <1>3, <1>8, <1>11 DEF DeactivationEndsSessions, SessionOK
<1> QED BY <1>2, <1>9, <1>12, <1>13, <1>14, <1>15, <1>16, <1>17 DEF SessionOK, Issued

LEMMA SessionSteps == SessionOK /\ [SessionNext]_sessionVars => SessionOK'
<1> SUFFICES ASSUME SessionOK, [SessionNext]_sessionVars PROVE SessionOK'
  OBVIOUS
<1>1. CASE UNCHANGED sessionVars
  BY <1>1 DEF sessionVars, requestVars, SessionOK, RequestOK, SessionTypeOK, Issued, Doing,
     OneHeirUnlessOverlapped, DeactivationEndsSessions, Overlap, Begun
<1>2. CASE SessionNext
  <2>1. PICK r \in Requests :
      \/ \E a \in Accounts : LoginRead(r, a) \/ SignupRead(r, a)
      \/ \E t \in Requests : RefreshRead(r, t) \/ LogoutRead(r, t)
      \/ \E o \in Owners, m \in Members, to \in {"active", "inactive"} :
           SetActiveRead(r, o, m, to)
      \/ LoginCommit(r) \/ SignupCommit(r) \/ RefreshCommit(r) \/ LogoutCommit(r)
      \/ SetActiveCommit(r)
      \/ SessionAbort(r) \/ ExpireToken(r)
    BY <1>2 DEF SessionNext
  <2> QED BY <2>1, SessionReads, SessionEnds, SessionExpiry, SessionRefreshes, SessionCuts
<1> QED BY <1>1, <1>2

THEOREM SessionsAreTyped == SessionSpec => []SessionTypeOK
BY SessionsBegin, SessionSteps, PTL DEF SessionSpec, SessionOK

\* However many requests refresh, log out and deactivate beside each other, a
\* token has two heirs only where two refreshes with it overlapped.
THEOREM OneHeir == SessionSpec => []OneHeirUnlessOverlapped
BY SessionsBegin, SessionSteps, PTL DEF SessionSpec, SessionOK

\* A session that a deactivation ended is gone on with by no request that began
\* after it.
THEOREM DeactivationEnds == SessionSpec => []DeactivationEndsSessions
BY SessionsBegin, SessionSteps, PTL DEF SessionSpec, SessionOK

-----------------------------------------------------------------------------
(* Reviews.                                                                *)

\* Templates and assignments are there once their requests have ended, and stay;
\* a submission in flight answers all that its template asks.
ReviewOK ==
  /\ RequestOK
  /\ ReviewTypeOK
  /\ \A t \in Templates : t \in ended
  /\ \A i \in Requests : Assigned(i) => i \in ended /\ assignment[i].template \in Templates
  /\ \A i \in Requests : ~Assigned(i) => Answered(i) = {}
  /\ \A r \in Requests : Doing(r, "assign") => req[r].template \in Templates
  /\ \A r \in Requests : Doing(r, "submit") => Complete(req[r].assignment, req[r].answers)
  /\ default \subseteq Templates
  /\ \A r \in Requests : Doing(r, "list_templates") => default \cap saw[r] = {}
  /\ SubmittedReviewIsComplete
  /\ DefaultTemplatesOverlap

LEMMA ReviewsBegin == ReviewInit => ReviewOK
<1> SUFFICES ASSUME ReviewInit PROVE ReviewOK
  OBVIOUS
<1>1. /\ RequestOK /\ Templates = {} /\ default = {}
      /\ \A r \in Requests : req[r] = Idle /\ ~Assigned(r) /\ Answered(r) = {}
           /\ req[r].kind \notin {"assign", "submit", "list_templates"}
  BY RequestsBegin DEF ReviewInit, RequestInit, Idle, Templates, Assigned, Answered, Unanswered
<1>2. ReviewTypeOK
  BY <1>1 DEF ReviewInit, RequestInit, ReviewTypeOK, Unanswered, Doing
<1> QED BY <1>1, <1>2 DEF ReviewOK, Doing, SubmittedReviewIsComplete, DefaultTemplatesOverlap

\* No row is written: a request begins or is rolled back.
LEMMA ReviewsWait ==
  ASSUME ReviewOK, RequestStep, ReviewTypeOK',
         UNCHANGED <<template, assignment, response, default>>,
         \A r \in Requests : req'[r] # Idle =>
           \/ req'[r] = req[r] /\ saw'[r] = saw[r]
           \/ /\ req'[r].kind = "assign" => req'[r].template \in Templates
              /\ req'[r].kind = "submit" => Complete(req'[r].assignment, req'[r].answers)
              /\ req'[r].kind = "list_templates" => Templates = {}
  PROVE  ReviewOK'
<1>1. RequestOK' /\ ended \subseteq ended'
  BY DEF RequestStep
<1>2. Templates' = Templates
  BY DEF Templates
<1>3. \A i \in Requests : (Assigned(i)' <=> Assigned(i)) /\ Answered(i)' = Answered(i)
  BY DEF Assigned, Answered
<1>4. ASSUME NEW r \in Requests
      PROVE  /\ Doing(r, "assign")' => req'[r].template \in Templates
             /\ Doing(r, "submit")' => Complete(req[r].assignment, req[r].answers)'
             /\ Doing(r, "list_templates")' => default \cap saw'[r] = {}
  <2>1. CASE req'[r] = req[r] /\ saw'[r] = saw[r]
    <3>1. Doing(r, "submit")' => Complete(req[r].assignment, req[r].answers)
      BY <2>1 DEF ReviewOK, Doing
    <3>2. Doing(r, "submit")' => Complete(req[r].assignment, req[r].answers)'
      BY <2>1, <3>1 DEF Complete
    <3> QED BY <2>1, <3>2 DEF ReviewOK, Doing
  <2>2. CASE req'[r] = Idle
    BY <2>2 DEF Doing, Idle
  <2>3. CASE /\ req'[r].kind = "assign" => req'[r].template \in Templates
             /\ req'[r].kind = "submit" => Complete(req'[r].assignment, req'[r].answers)
             /\ req'[r].kind = "list_templates" => Templates = {}
    <3>1. Doing(r, "submit")' => Complete(req[r].assignment, req[r].answers)'
      BY <2>3 DEF Doing, Complete
    <3> QED BY <2>3, <3>1 DEF ReviewOK, Doing
  <2> QED BY <2>1, <2>2, <2>3
<1>5. SubmittedReviewIsComplete'
  BY <1>3 DEF ReviewOK, SubmittedReviewIsComplete
<1>6. DefaultTemplatesOverlap'
  BY OverlapStays DEF ReviewOK, ReviewTypeOK, DefaultTemplatesOverlap
<1> QED BY <1>1, <1>2, <1>3, <1>4, <1>5, <1>6 DEF ReviewOK

LEMMA ReviewRequestsBegin ==
  ASSUME ReviewOK, NEW r \in Requests, NEW record \in ReviewRequest, Begin(r, record),
         UNCHANGED <<template, assignment, response, default>>,
         record.kind = "assign" => record.template \in Templates,
         record.kind = "submit" =>
           Assigned(record.assignment) /\ Complete(record.assignment, record.answers),
         record.kind = "list_templates" => Templates = {}
  PROVE  ReviewOK'
<1>1. record # Idle
  BY DEF ReviewRequest, Idle
<1>2. /\ RequestStep /\ req'[r] = record
      /\ \A q \in Requests \ {r} : req'[q] = req[q] /\ saw'[q] = saw[q]
  BY <1>1, BeginStep DEF ReviewOK
<1>3. req' \in [Requests -> ReviewRequest \cup {Idle}]
  BY DEF Begin, ReviewOK, ReviewTypeOK
<1>4. \A q \in Requests : req'[q].kind = "submit" => Assigned(req'[q].assignment)
  BY <1>2 DEF ReviewOK, ReviewTypeOK, Doing
<1>5. ReviewTypeOK'
  BY <1>3, <1>4 DEF ReviewOK, ReviewTypeOK, Doing, Assigned
<1> QED BY <1>2, <1>5, ReviewsWait

LEMMA ReviewReads ==
  ASSUME ReviewOK, NEW r \in Requests,
         \/ ListTemplatesRead(r)
         \/ \E a \in Applications, v \in Reviewers, t \in Requests : AssignRead(r, a, v, t)
         \/ \E i \in Requests, answers \in [Criteria -> Scores \cup {None}] :
              SubmitRead(r, i, answers)
  PROVE  ReviewOK'
<1>1. CASE ListTemplatesRead(r)
  <2> DEFINE record == [kind |-> "list_templates"]
  <2>1. record \in ReviewRequest /\ record.kind = "list_templates"
    BY DEF ReviewRequest
  <2>2. Begin(r, record) /\ UNCHANGED <<template, assignment, response, default>>
        /\ Templates = {}
    BY <1>1 DEF ListTemplatesRead
  <2> HIDE DEF record
  <2> QED BY <2>1, <2>2, ReviewRequestsBegin
<1>2. ASSUME NEW a \in Applications, NEW v \in Reviewers, NEW t \in Requests,
             AssignRead(r, a, v, t)
      PROVE  ReviewOK'
  <2> DEFINE record == [kind |-> "assign", application |-> a, reviewer |-> v, template |-> t]
  <2>1. record \in ReviewRequest /\ record.kind = "assign" /\ record.template = t
    BY DEF ReviewRequest
  <2>2. Begin(r, record) /\ UNCHANGED <<template, assignment, response, default>>
        /\ t \in Templates
    BY <1>2 DEF AssignRead
  <2> HIDE DEF record
  <2> QED BY <2>1, <2>2, ReviewRequestsBegin
<1>3. ASSUME NEW i \in Requests, NEW answers \in [Criteria -> Scores \cup {None}],
             SubmitRead(r, i, answers)
      PROVE  ReviewOK'
  <2> DEFINE record == [kind |-> "submit", assignment |-> i, answers |-> answers]
  <2>1. record \in ReviewRequest /\ record.kind = "submit" /\ record.assignment = i
        /\ record.answers = answers
    BY DEF ReviewRequest
  <2>2. Begin(r, record) /\ UNCHANGED <<template, assignment, response, default>>
        /\ Assigned(i) /\ Complete(i, answers)
    BY <1>3 DEF SubmitRead
  <2> HIDE DEF record
  <2> QED BY <2>1, <2>2, ReviewRequestsBegin
<1> QED BY <1>1, <1>2, <1>3

\* A request ends, and its template may be there with it.
LEMMA TemplatesGrow ==
  ASSUME ReviewOK, RequestStep, NEW r \in Requests, r \notin ended, ended' = ended \cup {r},
         req' \in [Requests -> ReviewRequest \cup {Idle}],
         \A q \in Requests : req'[q] = Idle \/ (req'[q] = req[q] /\ q # r /\ saw'[q] = saw[q]),
         NEW criteria \in SUBSET Criteria, criteria # {},
         template' = [template EXCEPT ![r] = criteria],
         default' \in {default, default \cup {r}},
         \A q \in default' \ default : \A p \in default : Overlap(p, q)' /\ Overlap(q, p)',
         UNCHANGED <<assignment, response>>
  PROVE  ReviewOK'
<1>1. RequestOK'
  BY DEF RequestStep
<1>2. /\ template' \in [Requests -> SUBSET Criteria]
      /\ \A t \in Requests \ {r} : template'[t] = template[t]
      /\ template'[r] = criteria /\ r \notin Templates
  BY DEF ReviewOK, ReviewTypeOK
<1>3. Templates' = Templates \cup {r}
  BY <1>2 DEF Templates
<1>4. \A i \in Requests : (Assigned(i)' <=> Assigned(i)) /\ Answered(i)' = Answered(i)
  BY DEF Assigned, Answered
<1>5. \A t \in Templates : t # r /\ t \in Requests /\ template'[t] = template[t]
  BY <1>2 DEF Templates
<1>6. ReviewTypeOK'
  <2>1. ASSUME NEW q \in Requests, req'[q].kind = "submit" PROVE assignment[req'[q].assignment] # NoAssignment
    BY <2>1 DEF ReviewOK, ReviewTypeOK, Doing, Idle, Assigned
  <2> QED BY <2>1, <1>2 DEF ReviewOK, ReviewTypeOK, Doing, Assigned
<1>7. ASSUME NEW q \in Requests
      PROVE  /\ Doing(q, "assign")' => req'[q].template \in Templates'
             /\ Doing(q, "submit")' => Complete(req[q].assignment, req[q].answers)'
             /\ Doing(q, "list_templates")' => default' \cap saw'[q] = {}
  <2>1. CASE req'[q] = Idle
    BY <2>1 DEF Doing, Idle
  <2>2. CASE req'[q] = req[q] /\ q # r /\ saw'[q] = saw[q]
    <3>1. Doing(q, "assign")' => req'[q].template \in Templates'
      BY <2>2, <1>3 DEF ReviewOK, Doing
    <3>2. Doing(q, "list_templates")' => default' \cap saw'[q] = {}
      BY <2>2 DEF ReviewOK, RequestOK, Doing
    <3>3. ASSUME Doing(q, "submit")' PROVE Complete(req[q].assignment, req[q].answers)'
      <4>1. PICK i \in Requests : i = req[q].assignment /\ Assigned(i)
        BY <2>2, <3>3 DEF ReviewOK, ReviewTypeOK, Doing, ReviewRequest, Idle
      <4>2. template'[assignment[i].template] = template[assignment[i].template]
        BY <4>1, <1>5 DEF ReviewOK
      <4>3. Complete(i, req[q].answers)
        BY <2>2, <3>3, <4>1 DEF ReviewOK, Doing
      <4>4. Complete(i, req[q].answers)'
        BY <2>2, <4>2, <4>3 DEF Complete
      <4> QED BY <2>2, <4>1, <4>4 DEF Complete
    <3> QED BY <3>1, <3>2, <3>3
  <2> QED BY <2>1, <2>2
<1>8. SubmittedReviewIsComplete'
  <2> SUFFICES ASSUME NEW i \in Requests, Assigned(i)
      PROVE  Answered(i)' = IF assignment'[i].status = "submitted"
                            THEN template'[assignment'[i].template] ELSE {}
    BY <1>4 DEF SubmittedReviewIsComplete
  <2>1. template'[assignment[i].template] = template[assignment[i].template]
    BY <1>5 DEF ReviewOK
  <2> QED BY <2>1, <1>4 DEF ReviewOK, SubmittedReviewIsComplete
<1>9. DefaultTemplatesOverlap'
  BY OverlapStays DEF ReviewOK, ReviewTypeOK, DefaultTemplatesOverlap
<1>10. \A i \in Requests : Assigned(i)' => i \in ended' /\ assignment'[i].template \in Templates'
  BY <1>3, <1>4 DEF ReviewOK
<1>11. \A t \in Templates' : t \in ended'
  BY <1>3 DEF ReviewOK
<1> QED BY <1>1, <1>3, <1>4, <1>6, <1>7, <1>8, <1>9, <1>10, <1>11 DEF ReviewOK

LEMMA TemplateWrites ==
  ASSUME ReviewOK, NEW r \in Requests,
         ListTemplatesCommit(r) \/ \E criteria \in SUBSET Criteria : CreateTemplate(r, criteria)
  PROVE  ReviewOK'
<1>1. ASSUME NEW criteria \in SUBSET Criteria, CreateTemplate(r, criteria) PROVE ReviewOK'
  <2>1. /\ Once(r) /\ criteria # {} /\ template' = [template EXCEPT ![r] = criteria]
        /\ UNCHANGED <<assignment, response, default>>
    BY <1>1 DEF CreateTemplate
  <2>2. /\ RequestStep /\ r \notin ended /\ req[r] = Idle /\ req' = req
        /\ ended' = ended \cup {r} /\ \A q \in Requests \ {r} : saw'[q] = saw[q]
    BY <2>1, OnceStep DEF ReviewOK
  <2>3. req' \in [Requests -> ReviewRequest \cup {Idle}]
    BY <2>2 DEF ReviewOK, ReviewTypeOK
  <2>4. \A q \in Requests : req'[q] = Idle \/ (req'[q] = req[q] /\ q # r /\ saw'[q] = saw[q])
    BY <2>2
  <2> QED BY <2>1, <2>2, <2>3, <2>4, TemplatesGrow
<1>2. CASE ListTemplatesCommit(r)
  <2>1. /\ Doing(r, "list_templates") /\ End(r) /\ default' = default \cup {r}
        /\ template' = [template EXCEPT ![r] = Criteria] /\ UNCHANGED <<assignment, response>>
    BY <1>2 DEF ListTemplatesCommit
  <2>2. /\ RequestStep /\ r \notin ended /\ req'[r] = Idle /\ saw' = saw
        /\ ended' = ended \cup {r} /\ \A q \in Requests \ {r} : req'[q] = req[q]
    BY <2>1, EndStep DEF ReviewOK
  <2>3. req' \in [Requests -> ReviewRequest \cup {Idle}]
    BY <2>1 DEF End, ReviewOK, ReviewTypeOK
  <2>4. \A q \in Requests : req'[q] = Idle \/ (req'[q] = req[q] /\ q # r /\ saw'[q] = saw[q])
    BY <2>2
  <2>5. ASSUME NEW p \in default PROVE Overlap(p, r)' /\ Overlap(r, p)'
    <3>1. p \in Requests /\ p \in ended /\ p \notin saw[r]
      BY <2>1 DEF ReviewOK, ReviewTypeOK
    <3> QED BY <2>1, <3>1, EndingOverlaps DEF ReviewOK
  <2> QED BY <2>1, <2>2, <2>3, <2>4, <2>5, CriteriaAssumption, TemplatesGrow
<1> QED BY <1>1, <1>2

LEMMA AssignmentWrites ==
  ASSUME ReviewOK, NEW r \in Requests, AssignCommit(r)
  PROVE  ReviewOK'
<1>1. Doing(r, "assign") /\ End(r) /\ UNCHANGED <<template, response, default>>
  BY DEF AssignCommit
<1>2. /\ RequestStep /\ RequestOK' /\ r \notin ended /\ req'[r] = Idle /\ saw' = saw
      /\ ended' = ended \cup {r} /\ \A q \in Requests \ {r} : req'[q] = req[q]
  BY <1>1, EndStep DEF ReviewOK, RequestStep
<1>3. req' \in [Requests -> ReviewRequest \cup {Idle}]
  BY <1>1 DEF End, ReviewOK, ReviewTypeOK
<1>4. PICK row \in AssignmentRow :
        /\ row.template \in Templates /\ row.status = "pending"
        /\ assignment' \in {assignment, [assignment EXCEPT ![r] = row]}
  <2> DEFINE row == [application |-> req[r].application, reviewer |-> req[r].reviewer,
                     template |-> req[r].template, status |-> "pending"]
  <2>1. row \in AssignmentRow /\ row.status = "pending" /\ row.template = req[r].template
    BY <1>1 DEF ReviewOK, ReviewTypeOK, ReviewRequest, Doing, Idle, AssignmentRow
  <2>2. assignment' \in {assignment, [assignment EXCEPT ![r] = row]}
    BY DEF AssignCommit
  <2> HIDE DEF row
  <2> QED BY <2>1, <2>2, <1>1 DEF ReviewOK
<1>5. ~Assigned(r)
  BY <1>2 DEF ReviewOK
<1>6. /\ \A i \in Requests \ {r} : assignment'[i] = assignment[i]
      /\ assignment'[r] \in {assignment[r], row}
      /\ assignment' \in [Requests -> AssignmentRow \cup {NoAssignment}]
  BY <1>4 DEF ReviewOK, ReviewTypeOK
<1>7. Templates' = Templates /\ \A i \in Requests : Answered(i)' = Answered(i)
  BY <1>1 DEF Templates, Answered
<1>8. \A i \in Requests : Assigned(i) => i # r /\ assignment'[i] = assignment[i] /\ Assigned(i)'
  BY <1>5, <1>6 DEF Assigned
<1>9. \A i \in Requests : Assigned(i)' => Assigned(i) \/ (i = r /\ assignment'[i] = row)
  BY <1>6 DEF Assigned
<1>10. ReviewTypeOK'
  <2>1. \A q \in Requests : req'[q].kind = "submit" => assignment'[req'[q].assignment] # NoAssignment
    <3> SUFFICES ASSUME NEW q \in Requests, req'[q].kind = "submit"
        PROVE  assignment'[req'[q].assignment] # NoAssignment
      OBVIOUS
    <3>1. PICK i \in Requests : i = req'[q].assignment /\ Assigned(i)
      BY <1>2 DEF ReviewOK, ReviewTypeOK, Doing, ReviewRequest, Idle
    <3> QED BY <3>1, <1>8 DEF Assigned
  <2> QED BY <2>1, <1>1, <1>3, <1>6 DEF ReviewOK, ReviewTypeOK, Doing, Assigned
<1>11. \A i \in Requests : Assigned(i)' => i \in ended' /\ assignment'[i].template \in Templates'
  BY <1>2, <1>4, <1>7, <1>8, <1>9 DEF ReviewOK
<1>12. \A i \in Requests : ~Assigned(i)' => Answered(i)' = {}
  BY <1>7, <1>8 DEF ReviewOK
<1>13. ASSUME NEW q \in Requests
       PROVE  /\ Doing(q, "assign")' => req'[q].template \in Templates'
              /\ Doing(q, "submit")' => Complete(req[q].assignment, req[q].answers)'
              /\ Doing(q, "list_templates")' => default' \cap saw'[q] = {}
  <2>1. CASE q = r
    BY <2>1, <1>2 DEF Doing, Idle
  <2>2. CASE q # r
    <3>1. ASSUME Doing(q, "submit")' PROVE Complete(req[q].assignment, req[q].answers)'
      <4>1. PICK i \in Requests : i = req[q].assignment /\ Assigned(i)
        BY <2>2, <3>1, <1>2 DEF ReviewOK, ReviewTypeOK, Doing, ReviewRequest, Idle
      <4>2. Complete(i, req[q].answers)
        BY <2>2, <3>1, <4>1, <1>2 DEF ReviewOK, Doing
      <4>3. Complete(i, req[q].answers)'
        BY <2>2, <4>1, <4>2, <1>1, <1>2, <1>8 DEF Complete
      <4> QED BY <2>2, <4>1, <4>3, <1>2 DEF Complete
    <3> QED BY <2>2, <3>1, <1>1, <1>2, <1>7 DEF ReviewOK, Doing
  <2> QED BY <2>1, <2>2
<1>14. SubmittedReviewIsComplete'
  <2> SUFFICES ASSUME NEW i \in Requests, Assigned(i)'
      PROVE  Answered(i)' = IF assignment'[i].status = "submitted"
                            THEN template'[assignment'[i].template] ELSE {}
    BY DEF SubmittedReviewIsComplete
  <2>1. CASE Assigned(i)
    BY <2>1, <1>1, <1>7, <1>8 DEF ReviewOK, SubmittedReviewIsComplete
  <2>2. CASE ~Assigned(i)
    BY <2>2, <1>4, <1>7, <1>9 DEF ReviewOK
  <2> QED BY <2>1, <2>2
<1>15. DefaultTemplatesOverlap'
  BY <1>1, <1>2, OverlapStays DEF ReviewOK, ReviewTypeOK, DefaultTemplatesOverlap
<1>16. default' \subseteq Templates' /\ \A t \in Templates' : t \in ended'
  BY <1>1, <1>2, <1>7 DEF ReviewOK
<1> QED BY <1>2, <1>10, <1>11, <1>12, <1>13, <1>14, <1>15, <1>16 DEF ReviewOK

\* What a submission brings meets no response where it succeeds: it is the first.
LEMMA FirstSubmission ==
  ASSUME ReviewOK, NEW r \in Requests, Doing(r, "submit"),
         NEW i, i = req[r].assignment, NEW answers, answers = req[r].answers,
         ~\E c \in Answered(i) : answers[c] # None
  PROVE  /\ i \in Requests /\ Assigned(i) /\ answers \in [Criteria -> Scores \cup {None}]
         /\ Complete(i, answers) /\ Answered(i) = {}
<1>1. /\ i \in Requests /\ Assigned(i) /\ answers \in [Criteria -> Scores \cup {None}]
      /\ Complete(i, answers)
  BY DEF ReviewOK, ReviewTypeOK, Doing, ReviewRequest, Idle
<1>2. Answered(i) = {} \/ Answered(i) = template[assignment[i].template]
  BY <1>1 DEF ReviewOK, SubmittedReviewIsComplete
<1>3. \A c \in Answered(i) : c \in Criteria
  BY DEF Answered
<1> QED BY <1>1, <1>2, <1>3 DEF Complete

LEMMA SubmissionWrites ==
  ASSUME ReviewOK, NEW r \in Requests, SubmitCommit(r)
  PROVE  ReviewOK' /\ \A j \in Requests : Answered(j) # {} => response'[j] = response[j]
<1>1. Doing(r, "submit") /\ End(r) /\ UNCHANGED <<template, default>>
  BY DEF SubmitCommit
<1>2. /\ RequestStep /\ RequestOK' /\ r \notin ended /\ req'[r] = Idle /\ saw' = saw
      /\ ended' = ended \cup {r} /\ ended \subseteq ended'
      /\ \A q \in Requests \ {r} : req'[q] = req[q]
  BY <1>1, EndStep DEF ReviewOK, RequestStep
<1>3. req' \in [Requests -> ReviewRequest \cup {Idle}]
  BY <1>1 DEF End, ReviewOK, ReviewTypeOK
<1>4. PICK i, answers : i = req[r].assignment /\ answers = req[r].answers
  OBVIOUS
<1>5. CASE \E c \in Answered(i) : answers[c] # None
  <2>1. UNCHANGED <<template, assignment, response, default>>
    BY <1>1, <1>4, <1>5 DEF SubmitCommit
  <2>2. \A q \in Requests : req'[q].kind = "submit" => assignment[req'[q].assignment] # NoAssignment
    BY <1>2 DEF ReviewOK, ReviewTypeOK, Doing, Assigned, Idle
  <2>3. ReviewTypeOK'
    BY <2>1, <2>2, <1>3 DEF ReviewOK, ReviewTypeOK, Doing, Assigned
  <2> QED BY <2>1, <2>3, <1>2, ReviewsWait
<1>6. CASE ~\E c \in Answered(i) : answers[c] # None
  <2>1. /\ i \in Requests /\ Assigned(i) /\ answers \in [Criteria -> Scores \cup {None}]
        /\ Complete(i, answers) /\ Answered(i) = {}
    BY <1>1, <1>4, <1>6, FirstSubmission
  <2>2. /\ response' = [response EXCEPT ![i] = answers]
        /\ assignment' = [assignment EXCEPT ![i].status = "submitted"]
    BY <1>4, <1>6 DEF SubmitCommit
  <2>3. assignment[i] \in AssignmentRow
    BY <2>1 DEF ReviewOK, ReviewTypeOK, Assigned
  <2>4. /\ assignment'[i] = [assignment[i] EXCEPT !.status = "submitted"]
        /\ \A j \in Requests \ {i} : assignment'[j] = assignment[j]
        /\ response'[i] = answers /\ \A j \in Requests \ {i} : response'[j] = response[j]
    BY <2>1, <2>2 DEF ReviewOK, ReviewTypeOK
  <2>5. /\ assignment'[i] \in AssignmentRow /\ assignment'[i].status = "submitted"
        /\ assignment'[i].template = assignment[i].template
    BY <2>3, <2>4 DEF AssignmentRow
  <2>6. assignment'[i] # NoAssignment
    BY <2>5 DEF NoAssignment
  <2>7. /\ \A j \in Requests : Assigned(j)' <=> Assigned(j)
        /\ \A j \in Requests : Assigned(j) => assignment'[j].template = assignment[j].template
    BY <2>1, <2>4, <2>5, <2>6 DEF Assigned
  <2>8. Answered(i)' = template[assignment[i].template]
    <3>1. assignment[i].template \in Requests
      BY <2>3 DEF AssignmentRow
    <3>2. template[assignment[i].template] \subseteq Criteria
      BY <3>1 DEF ReviewOK, ReviewTypeOK
    <3>3. Answered(i)' = {c \in Criteria : answers[c] # None}
      BY <2>4 DEF Answered
    <3> QED BY <3>2, <3>3, <2>1 DEF Complete
  <2>9. \A j \in Requests \ {i} : Answered(j)' = Answered(j)
    BY <2>4 DEF Answered
  <2>10. Templates' = Templates
    BY <1>1 DEF Templates
  <2>11. ReviewTypeOK'
    <3>1. \A q \in Requests : req'[q].kind = "submit" => assignment'[req'[q].assignment] # NoAssignment
      <4> SUFFICES ASSUME NEW q \in Requests, req'[q].kind = "submit"
          PROVE  assignment'[req'[q].assignment] # NoAssignment
        OBVIOUS
      <4>1. PICK j \in Requests : j = req'[q].assignment /\ Assigned(j)
        BY <1>2 DEF ReviewOK, ReviewTypeOK, Doing, ReviewRequest, Idle
      <4> QED BY <4>1, <2>7 DEF Assigned
    <3>2. response' \in [Requests -> [Criteria -> Scores \cup {None}]]
      BY <2>1, <2>2 DEF ReviewOK, ReviewTypeOK
    <3>3. assignment' \in [Requests -> AssignmentRow \cup {NoAssignment}]
      BY <2>2, <2>4, <2>5 DEF ReviewOK, ReviewTypeOK
    <3> QED BY <3>1, <3>2, <3>3, <1>1, <1>3 DEF ReviewOK, ReviewTypeOK, Doing, Assigned
  <2>12. /\ \A j \in Requests : Assigned(j)' => j \in ended' /\ assignment'[j].template \in Templates'
         /\ \A j \in Requests : ~Assigned(j)' => Answered(j)' = {}
    BY <1>2, <2>1, <2>7, <2>9, <2>10 DEF ReviewOK
  <2>13. ASSUME NEW q \in Requests
         PROVE  /\ Doing(q, "assign")' => req'[q].template \in Templates'
                /\ Doing(q, "submit")' => Complete(req[q].assignment, req[q].answers)'
                /\ Doing(q, "list_templates")' => default' \cap saw'[q] = {}
    <3>1. CASE q = r
      BY <3>1, <1>2 DEF Doing, Idle
    <3>2. CASE q # r
      <4>1. ASSUME Doing(q, "submit")' PROVE Complete(req[q].assignment, req[q].answers)'
        <5>1. PICK j \in Requests : j = req[q].assignment /\ Assigned(j)
          BY <3>2, <4>1, <1>2 DEF ReviewOK, ReviewTypeOK, Doing, ReviewRequest, Idle
        <5>2. Complete(j, req[q].answers)
          BY <3>2, <4>1, <5>1, <1>2 DEF ReviewOK, Doing
        <5>3. Complete(j, req[q].answers)'
          BY <3>2, <5>1, <5>2, <1>1, <1>2, <2>7 DEF Complete
        <5> QED BY <3>2, <5>1, <5>3, <1>2 DEF Complete
      <4> QED BY <3>2, <4>1, <1>1, <1>2, <2>10 DEF ReviewOK, Doing
    <3> QED BY <3>1, <3>2
  <2>14. SubmittedReviewIsComplete'
    <3> SUFFICES ASSUME NEW j \in Requests, Assigned(j)
        PROVE  Answered(j)' = IF assignment'[j].status = "submitted"
                              THEN template'[assignment'[j].template] ELSE {}
      BY <2>7 DEF SubmittedReviewIsComplete
    <3>1. CASE j = i
      BY <3>1, <2>5, <2>8, <1>1
    <3>2. CASE j # i
      BY <3>2, <2>4, <2>9, <1>1 DEF ReviewOK, SubmittedReviewIsComplete
    <3> QED BY <3>1, <3>2
  <2>15. DefaultTemplatesOverlap'
    BY <1>1, <1>2, OverlapStays DEF ReviewOK, ReviewTypeOK, DefaultTemplatesOverlap
  <2>16. default' \subseteq Templates' /\ \A t \in Templates' : t \in ended'
    BY <1>1, <1>2, <2>10 DEF ReviewOK
  <2>17. \A j \in Requests : Answered(j) # {} => response'[j] = response[j]
    BY <2>1, <2>4
  <2> QED BY <1>2, <2>11, <2>12, <2>13, <2>14, <2>15, <2>16, <2>17 DEF ReviewOK
<1> QED BY <1>5, <1>6

LEMMA ReviewAborts ==
  ASSUME ReviewOK, NEW r \in Requests, ReviewAbort(r)
  PROVE  ReviewOK'
<1>1. End(r) /\ UNCHANGED <<template, assignment, response, default>>
  BY DEF ReviewAbort
<1>2. /\ RequestStep /\ req'[r] = Idle /\ saw' = saw
      /\ \A q \in Requests \ {r} : req'[q] = req[q]
  BY <1>1, EndStep DEF ReviewOK
<1>3. req' \in [Requests -> ReviewRequest \cup {Idle}]
  BY <1>1 DEF End, ReviewOK, ReviewTypeOK
<1>4. \A q \in Requests : req'[q].kind = "submit" => assignment[req'[q].assignment] # NoAssignment
  BY <1>2 DEF ReviewOK, ReviewTypeOK, Doing, Assigned, Idle
<1>5. ReviewTypeOK'
  BY <1>1, <1>3, <1>4 DEF ReviewOK, ReviewTypeOK, Doing, Assigned
<1> QED BY <1>1, <1>2, <1>5, ReviewsWait

LEMMA ReviewSteps ==
  ReviewOK /\ [ReviewNext]_reviewVars =>
    ReviewOK' /\ \A i \in Requests : Answered(i) # {} => response'[i] = response[i]
<1> SUFFICES ASSUME ReviewOK, [ReviewNext]_reviewVars
    PROVE  ReviewOK' /\ \A i \in Requests : Answered(i) # {} => response'[i] = response[i]
  OBVIOUS
<1>1. CASE UNCHANGED reviewVars
  <2>1. RequestStep /\ req' = req /\ saw' = saw
    BY <1>1, QuietStep DEF reviewVars, ReviewOK
  <2>2. ReviewTypeOK'
    BY <1>1, <2>1 DEF reviewVars, ReviewOK, ReviewTypeOK, Doing, Assigned
  <2> QED BY <1>1, <2>1, <2>2, ReviewsWait DEF reviewVars
<1>2. CASE ReviewNext
  <2>1. PICK r \in Requests :
      \/ \E criteria \in SUBSET Criteria : CreateTemplate(r, criteria)
      \/ ListTemplatesRead(r) \/ ListTemplatesCommit(r)
      \/ \E a \in Applications, v \in Reviewers, t \in Requests : AssignRead(r, a, v, t)
      \/ AssignCommit(r)
      \/ \E i \in Requests, answers \in [Criteria -> Scores \cup {None}] :
           SubmitRead(r, i, answers)
      \/ SubmitCommit(r)
      \/ ReviewAbort(r)
    BY <1>2 DEF ReviewNext
  <2>2. ReviewOK'
    BY <2>1, TemplateWrites, ReviewReads, AssignmentWrites, SubmissionWrites, ReviewAborts
  <2>3. CASE SubmitCommit(r)
    BY <2>2, <2>3, SubmissionWrites
  <2>4. CASE ~SubmitCommit(r)
    BY <2>1, <2>2, <2>4 DEF CreateTemplate, ListTemplatesRead, ListTemplatesCommit,
       AssignRead, AssignCommit, SubmitRead, ReviewAbort
  <2> QED BY <2>3, <2>4
<1> QED BY <1>1, <1>2

THEOREM ReviewsAreTyped == ReviewSpec => []ReviewTypeOK
BY ReviewsBegin, ReviewSteps, PTL DEF ReviewSpec, ReviewOK

\* However submissions of one review run beside each other, it holds the answers
\* to all the criteria of its template from the moment it is submitted.
THEOREM ReviewsAreComplete == ReviewSpec => []SubmittedReviewIsComplete
BY ReviewsBegin, ReviewSteps, PTL DEF ReviewSpec, ReviewOK

\* The INSERT before the DELETE: what was submitted first stays.
THEOREM ReviewsStay == ReviewSpec => SubmittedReviewStays
<1> DEFINE Stay == \A i \in Requests : Answered(i) # {} => response'[i] = response[i]
<1>1. ReviewOK /\ [ReviewNext]_reviewVars => Stay
  BY ReviewSteps
<1> HIDE DEF Stay
<1>2. ReviewSpec => [][Stay]_reviewVars
  BY <1>1, ReviewsBegin, ReviewSteps, PTL DEF ReviewSpec
<1> QED BY <1>2 DEF Stay, SubmittedReviewStays

\* Two default templates were made by two readers of the empty list at once.
THEOREM DefaultTemplates == ReviewSpec => []DefaultTemplatesOverlap
BY ReviewsBegin, ReviewSteps, PTL DEF ReviewSpec, ReviewOK

LEMMA CardsAssign ==
  ASSUME ReviewOK, NEW r \in Requests, AssignCommit(r)
  PROVE  \/ UNCHANGED <<template, assignment, response>>
         \/ \E a \in Applications, v \in Reviewers, t \in Requests : Cards!Assign(r, a, v, t)
<1>1. Doing(r, "assign") /\ End(r) /\ UNCHANGED <<template, response>>
  BY DEF AssignCommit
<1>2. PICK a \in Applications, v \in Reviewers, t \in Requests :
        a = req[r].application /\ v = req[r].reviewer /\ t = req[r].template
  BY <1>1 DEF ReviewOK, ReviewTypeOK, ReviewRequest, Doing, Idle
<1>3. template[t] # {} /\ assignment[r] = NoAssignment
  BY <1>1, <1>2, EndStep DEF ReviewOK, Templates, Assigned
<1>4. CASE ExistingAssignment(a, v) # {}
  BY <1>1, <1>2, <1>4 DEF AssignCommit
<1>5. CASE ExistingAssignment(a, v) = {}
  <2>1. assignment' = [assignment EXCEPT ![r] =
          [application |-> a, reviewer |-> v, template |-> t, status |-> "pending"]]
    BY <1>2, <1>5 DEF AssignCommit
  <2>2. ASSUME NEW j \in Requests, assignment[j] # NoAssignment
        PROVE  <<assignment[j].application, assignment[j].reviewer>> # <<a, v>>
    BY <1>5, <2>2 DEF ExistingAssignment, Assigned
  <2>3. Cards!Assign(r, a, v, t)
    BY <1>1, <1>3, <2>1, <2>2 DEF Cards!Assign, Cards!NoAssignment, NoAssignment
  <2> QED BY <2>3
<1> QED BY <1>4, <1>5

LEMMA CardsSubmit ==
  ASSUME ReviewOK, NEW r \in Requests, SubmitCommit(r)
  PROVE  \/ UNCHANGED <<template, assignment, response>>
         \/ \E i \in Requests, scores \in [Criteria -> Scores \cup {None}] :
              Cards!Submit(i, scores)
<1>1. Doing(r, "submit") /\ UNCHANGED template
  BY DEF SubmitCommit
<1>2. PICK i, scores : i = req[r].assignment /\ scores = req[r].answers
  OBVIOUS
<1>3. CASE \E c \in Answered(i) : scores[c] # None
  BY <1>1, <1>2, <1>3 DEF SubmitCommit
<1>4. CASE ~\E c \in Answered(i) : scores[c] # None
  <2>1. /\ i \in Requests /\ Assigned(i) /\ scores \in [Criteria -> Scores \cup {None}]
        /\ Complete(i, scores) /\ Answered(i) = {}
    BY <1>1, <1>2, <1>4, FirstSubmission
  <2>2. /\ response' = [response EXCEPT ![i] = scores]
        /\ assignment' = [assignment EXCEPT ![i].status = "submitted"]
    BY <1>2, <1>4 DEF SubmitCommit
  <2>3. assignment[i] \in AssignmentRow /\ assignment[i].template \in Templates
    BY <2>1 DEF ReviewOK, ReviewTypeOK, Assigned
  <2>4. assignment[i].status = "pending"
    <3>1. template[assignment[i].template] # {}
      BY <2>3 DEF Templates
    <3>2. assignment[i].status # "submitted"
      BY <2>1, <3>1 DEF ReviewOK, SubmittedReviewIsComplete
    <3> QED BY <2>3, <3>2 DEF AssignmentRow
  <2>5. {c \in Criteria : scores[c] # None} = template[assignment[i].template]
    <3>1. template[assignment[i].template] \subseteq Criteria
      BY <2>3 DEF Templates, ReviewOK, ReviewTypeOK
    <3> QED BY <2>1, <3>1 DEF Complete
  <2>6. Cards!Submit(i, scores)
    BY <1>1, <2>2, <2>4, <2>5 DEF Cards!Submit
  <2> QED BY <2>1, <2>6
<1> QED BY <1>3, <1>4

LEMMA CardsAdd ==
  ASSUME ReviewOK, NEW r \in Requests,
         ListTemplatesCommit(r) \/ \E criteria \in SUBSET Criteria : CreateTemplate(r, criteria)
  PROVE  \E criteria \in SUBSET Criteria : Cards!AddTemplate(r, criteria)
<1>1. r \notin ended
  BY DEF ReviewOK, RequestOK, ListTemplatesCommit, CreateTemplate, End, Once
<1>2. template[r] = {}
  BY <1>1 DEF ReviewOK, Templates
<1>3. PICK criteria \in SUBSET Criteria :
        /\ criteria # {} /\ template' = [template EXCEPT ![r] = criteria]
        /\ UNCHANGED <<assignment, response>>
  BY CriteriaAssumption DEF ListTemplatesCommit, CreateTemplate
<1>4. Cards!AddTemplate(r, criteria)
  BY <1>2, <1>3 DEF Cards!AddTemplate
<1> QED BY <1>4

LEMMA CardsStep ==
  ReviewOK /\ [ReviewNext]_reviewVars => [Cards!Next]_<<template, assignment, response>>
<1> SUFFICES ASSUME ReviewOK, [ReviewNext]_reviewVars
             PROVE  [Cards!Next]_<<template, assignment, response>>
  OBVIOUS
<1>1. CASE UNCHANGED <<template, assignment, response>>
  BY <1>1
<1>2. CASE ~UNCHANGED <<template, assignment, response>>
  <2>1. PICK r \in Requests :
          \/ ListTemplatesCommit(r) \/ \E criteria \in SUBSET Criteria : CreateTemplate(r, criteria)
          \/ AssignCommit(r)
          \/ SubmitCommit(r)
    BY <1>2 DEF ReviewNext, reviewVars, ListTemplatesRead, AssignRead, SubmitRead, ReviewAbort
  <2>2. CASE AssignCommit(r)
    BY <1>2, <2>2, CardsAssign DEF Cards!Next
  <2>3. CASE SubmitCommit(r)
    BY <1>2, <2>3, CardsSubmit DEF Cards!Next
  <2>4. CASE ListTemplatesCommit(r) \/ \E criteria \in SUBSET Criteria : CreateTemplate(r, criteria)
    BY <2>4, CardsAdd DEF Cards!Next
  <2> QED BY <2>1, <2>2, <2>3, <2>4
<1> QED BY <1>1, <1>2

\* Reviews are linearizable: each request that takes effect does so at once, when
\* it commits, as if no other had run since it read.
THEOREM ImplementsScorecards == ReviewSpec => ScorecardsSpec
<1>1. ReviewInit => Cards!Init
  BY DEF ReviewInit, Cards!Init, Cards!NoAssignment, NoAssignment, Unanswered
<1>2. ReviewSpec => [][Cards!Next]_<<template, assignment, response>>
  BY ReviewsBegin, ReviewSteps, CardsStep, PTL DEF ReviewSpec
<1> QED
  BY <1>1, <1>2, PTL DEF ReviewSpec, ScorecardsSpec, Cards!Spec, Cards!vars

-----------------------------------------------------------------------------
(* Articles.                                                               *)

\* Whether the request puts the flag on an article that it read without.
Features(q) == q.to.featured /\ (q.was = NoArticle \/ ~q.was.featured)

\* An article was featured by a request that has ended.  A request that is about
\* to feature another has seen none of those whose articles it leaves featured.
ArticleOK ==
  /\ RequestOK
  /\ ArticleTypeOK
  /\ \A a \in Featured : by[a] \in ended
  /\ \A r \in Requests : Doing(r, "article") /\ req[r].flushed /\ Features(req[r]) =>
       \A b \in Featured : b # req[r].article /\ b \notin req[r].cleared => by[b] \notin saw[r]
  /\ OneFeaturedUnlessOverlapped

LEMMA ArticlesBegin == ArticleInit => ArticleOK
<1> SUFFICES ASSUME ArticleInit PROVE ArticleOK
  OBVIOUS
<1>1. RequestOK /\ Featured = {} /\ \A r \in Requests : ~Doing(r, "article")
  BY RequestsBegin DEF ArticleInit, RequestInit, Idle, Doing, Featured, Present
<1>2. ArticleTypeOK
  BY DEF ArticleInit, RequestInit, ArticleTypeOK
<1> QED BY <1>1, <1>2 DEF ArticleOK, OneFeaturedUnlessOverlapped

LEMMA WrittenRow ==
  ASSUME NEW row \in ArticleRow, NEW was \in ArticleRow, NEW to \in ArticleRow
  PROVE  /\ Written(row, was, to) \in ArticleRow
         /\ Written(row, was, to).featured =
              IF was.featured = to.featured THEN row.featured ELSE to.featured
<1>1. was # NoArticle
  BY DEF ArticleRow, NoArticle
<1>2. DOMAIN to = {"slug", "type", "featured", "published"}
  BY DEF ArticleRow
<1>3. Written(row, was, to) =
        [slug |-> IF was.slug = to.slug THEN row.slug ELSE to.slug,
         type |-> IF was.type = to.type THEN row.type ELSE to.type,
         featured |-> IF was.featured = to.featured THEN row.featured ELSE to.featured,
         published |-> IF was.published = to.published THEN row.published ELSE to.published]
  BY <1>1, <1>2 DEF Written
<1> QED BY <1>3 DEF ArticleRow

LEMMA NewRow ==
  ASSUME NEW row, NEW to \in ArticleRow
  PROVE  Written(row, NoArticle, to) = to
BY DEF Written, ArticleRow

\* Steps that feature nothing: requests begin, flush, delete and fail.
LEMMA ArticlesWait ==
  ASSUME ArticleOK, RequestStep, ArticleTypeOK', by' = by,
         Featured' \subseteq Featured,
         \A r \in Requests : Doing(r, "article")' /\ req'[r].flushed /\ Features(req'[r]) =>
           \/ req'[r] = req[r] /\ saw'[r] = saw[r]
           \/ \A b \in Featured : b # req'[r].article => b \in req'[r].cleared
  PROVE  ArticleOK'
<1>1. RequestOK' /\ ended \subseteq ended'
  BY DEF RequestStep
<1>2. \A a \in Featured' : by'[a] \in ended'
  BY <1>1 DEF ArticleOK
<1>3. ASSUME NEW r \in Requests, Doing(r, "article")', req'[r].flushed, Features(req'[r])
      PROVE  \A b \in Featured' : b # req'[r].article /\ b \notin req'[r].cleared =>
               by'[b] \notin saw'[r]
  BY <1>3 DEF ArticleOK, Doing
<1>4. OneFeaturedUnlessOverlapped'
  <2> SUFFICES ASSUME NEW a \in Featured', NEW b \in Featured', a # b
      PROVE  Overlap(by[a], by[b])'
    BY DEF OneFeaturedUnlessOverlapped
  <2>1. a \in Featured /\ b \in Featured /\ by[a] \in Requests /\ by[b] \in Requests
    BY DEF ArticleOK, RequestOK
  <2> QED BY <2>1, OverlapStays DEF ArticleOK, OneFeaturedUnlessOverlapped
<1> QED BY <1>1, <1>2, <1>3, <1>4 DEF ArticleOK, Features

LEMMA ArticleRequestsBegin ==
  ASSUME ArticleOK, NEW r \in Requests, NEW record \in ArticleRequest, Begin(r, record),
         UNCHANGED <<article, by>>,
         record.kind = "article" => ~(record.flushed /\ Features(record))
  PROVE  ArticleOK'
<1>1. record # Idle
  BY DEF ArticleRequest, Idle
<1>2. /\ RequestStep /\ req'[r] = record
      /\ \A q \in Requests \ {r} : req'[q] = req[q] /\ saw'[q] = saw[q]
  BY <1>1, BeginStep DEF ArticleOK
<1>3. ArticleTypeOK'
  BY DEF Begin, ArticleOK, ArticleTypeOK
<1>4. Featured' = Featured
  BY DEF Featured, Present
<1> QED BY <1>2, <1>3, <1>4, ArticlesWait DEF Doing

LEMMA ArticleWritesBegin ==
  ASSUME ArticleOK, NEW r \in Requests, NEW a \in Requests,
         NEW was \in ArticleRow \cup {NoArticle}, NEW to \in ArticleRow,
         NEW unfeatures \in BOOLEAN, Writes(r, a, was, to, unfeatures), UNCHANGED <<article, by>>,
         ~unfeatures => ~(to.featured /\ (was = NoArticle \/ ~was.featured))
  PROVE  ArticleOK'
<1> DEFINE flushed == ~(unfeatures /\ to.featured)
           record == [kind |-> "article", article |-> a, was |-> was, to |-> to,
                      flushed |-> flushed, cleared |-> {}]
<1>1. Begin(r, record)
  BY DEF Writes
<1>2. flushed \in BOOLEAN /\ (flushed => ~(to.featured /\ (was = NoArticle \/ ~was.featured)))
  OBVIOUS
<1> HIDE DEF flushed
<1>3. record \in ArticleRequest /\ record.was = was /\ record.to = to /\ record.flushed = flushed
  BY <1>2 DEF ArticleRequest
<1> HIDE DEF record
<1> QED BY <1>1, <1>2, <1>3, ArticleRequestsBegin DEF Features

LEMMA ArticleReads ==
  ASSUME ArticleOK, NEW r \in Requests,
         \/ \E row \in ArticleRow :
              \/ NewArticleRead(r, row)
              \/ \E a \in Requests : UpdateArticleRead(r, a, row) \/ UpdatePlainRead(r, a, row)
         \/ \E a \in Requests : FeatureRead(r, a) \/ DeleteArticleRead(r, a)
  PROVE  ArticleOK'
<1>1. ASSUME NEW row \in ArticleRow, NewArticleRead(r, row) PROVE ArticleOK'
  <2>1. Writes(r, r, NoArticle, row, row.type = "editorial") /\ UNCHANGED <<article, by>>
        /\ (row.type = "company" => ~row.featured)
    BY <1>1 DEF NewArticleRead
  <2>2. row.type \in {"editorial", "company"}
    BY DEF ArticleRow
  <2>3. PICK unfeatures \in BOOLEAN : unfeatures <=> row.type = "editorial"
    OBVIOUS
  <2>4. Writes(r, r, NoArticle, row, unfeatures)
    BY <2>1, <2>3 DEF Writes
  <2> QED BY <2>1, <2>2, <2>3, <2>4, ArticleWritesBegin
<1>2. ASSUME NEW row \in ArticleRow, NEW a \in Requests, UpdateArticleRead(r, a, row)
      PROVE  ArticleOK'
  <2>1. Writes(r, a, article[a], row, TRUE) /\ UNCHANGED <<article, by>>
    BY <1>2 DEF UpdateArticleRead
  <2>2. article[a] \in ArticleRow \cup {NoArticle}
    BY DEF ArticleOK, ArticleTypeOK
  <2> QED BY <2>1, <2>2, ArticleWritesBegin
<1>3. ASSUME NEW row \in ArticleRow, NEW a \in Requests, UpdatePlainRead(r, a, row)
      PROVE  ArticleOK'
  <2>1. Writes(r, a, article[a], row, FALSE) /\ UNCHANGED <<article, by>>
        /\ row.featured = article[a].featured /\ article[a] # NoArticle
    BY <1>3 DEF UpdatePlainRead, Present
  <2>2. article[a] \in ArticleRow \cup {NoArticle}
    BY DEF ArticleOK, ArticleTypeOK
  <2> QED BY <2>1, <2>2, ArticleWritesBegin
<1>4. ASSUME NEW a \in Requests, FeatureRead(r, a) PROVE ArticleOK'
  <2>1. article[a] \in ArticleRow
    BY <1>4 DEF FeatureRead, Present, ArticleOK, ArticleTypeOK
  <2>2. PICK row \in ArticleRow : row = [article[a] EXCEPT !.featured = ~@]
    BY <2>1 DEF ArticleRow
  <2>3. Writes(r, a, article[a], row, TRUE) /\ UNCHANGED <<article, by>>
    BY <1>4, <2>2 DEF FeatureRead
  <2> QED BY <2>1, <2>3, ArticleWritesBegin
<1>5. ASSUME NEW a \in Requests, DeleteArticleRead(r, a) PROVE ArticleOK'
  <2> DEFINE record == [kind |-> "delete_article", article |-> a]
  <2>1. record \in ArticleRequest /\ record.kind = "delete_article"
    BY DEF ArticleRequest
  <2>2. Begin(r, record) /\ UNCHANGED <<article, by>>
    BY <1>5 DEF DeleteArticleRead
  <2> HIDE DEF record
  <2> QED BY <2>1, <2>2, ArticleRequestsBegin
<1> QED BY <1>1, <1>2, <1>3, <1>4, <1>5

LEMMA ArticleFlushes ==
  ASSUME ArticleOK, NEW r \in Requests, FlushArticle(r)
  PROVE  ArticleOK'
<1>1. PICK record : record = [req[r] EXCEPT !.flushed = TRUE,
                                            !.cleared = Featured \ {req[r].article}]
  OBVIOUS
<1>2. /\ req[r] \in ArticleRequest /\ req[r].kind = "article" /\ req[r] # Idle
      /\ req' = [req EXCEPT ![r] = record] /\ UNCHANGED <<ended, saw, article, by>>
  <2>1. Doing(r, "article") /\ UNCHANGED <<ended, saw, article, by>>
    BY DEF FlushArticle
  <2>2. req[r] \in ArticleRequest /\ req[r].kind = "article" /\ req[r] # Idle
    BY <2>1 DEF Doing, ArticleOK, ArticleTypeOK, Idle
  <2>3. DOMAIN req = Requests
    BY DEF ArticleOK, ArticleTypeOK
  <2>4. req' = [req EXCEPT ![r].flushed = TRUE, ![r].cleared = Featured \ {req[r].article}]
    BY DEF FlushArticle
  <2>5. req' = [req EXCEPT ![r] = [[@ EXCEPT !.flushed = TRUE]
                                     EXCEPT !.cleared = Featured \ {req[r].article}]]
    BY <2>3, <2>4
  <2>6. req' = [req EXCEPT ![r] = record]
    BY <2>5, <1>1
  <2> QED BY <2>1, <2>2, <2>6
<1>3. Featured \ {req[r].article} \in SUBSET Requests
  BY DEF Featured
<1>4. /\ record \in ArticleRequest /\ record.kind = "article"
      /\ record.article = req[r].article /\ record.cleared = Featured \ {req[r].article}
  BY <1>1, <1>2, <1>3 DEF ArticleRequest
<1>5. record # Idle
  BY <1>4 DEF ArticleRequest, Idle
<1>6. RequestStep
  BY <1>2, <1>5, GoOnStep DEF ArticleOK
<1>7. /\ req'[r] = record /\ \A q \in Requests \ {r} : req'[q] = req[q]
      /\ req' \in [Requests -> ArticleRequest \cup {Idle}]
  BY <1>2, <1>4 DEF ArticleOK, ArticleTypeOK
<1>8. ArticleTypeOK' /\ Featured' = Featured
  BY <1>2, <1>7 DEF ArticleOK, ArticleTypeOK, Featured, Present
<1> QED BY <1>2, <1>4, <1>6, <1>7, <1>8, ArticlesWait

\* A commit that features an article meets, beside those it has cleared, only
\* articles that were featured while it ran.
LEMMA ArticleCommits ==
  ASSUME ArticleOK, NEW r \in Requests, CommitArticle(r)
  PROVE  ArticleOK'
<1>1. PICK q \in ArticleRequest : q = req[r] /\ q.kind = "article" /\ q.flushed
  BY DEF CommitArticle, Doing, ArticleOK, ArticleTypeOK, Idle
<1>2. PICK a \in Requests : a = q.article
  BY <1>1 DEF ArticleRequest
<1>3. /\ q.to \in ArticleRow /\ q.was \in ArticleRow \cup {NoArticle}
      /\ q.cleared \in SUBSET Requests
  BY <1>1 DEF ArticleRequest
<1>4. /\ End(r) /\ Doing(r, "article")
      /\ \/ UNCHANGED <<article, by>>
         \/ /\ q.was # NoArticle => Present(a)
            /\ article' = [b \in Requests |->
                 IF b = a THEN Written(article[a], q.was, q.to)
                 ELSE IF b \in q.cleared /\ Present(b) THEN Unfeatured(article[b])
                 ELSE article[b]]
            /\ by' = IF Features(q) THEN [by EXCEPT ![a] = r] ELSE by
  BY <1>1, <1>2 DEF CommitArticle, Features
<1>5. /\ RequestStep /\ RequestOK' /\ r \notin ended /\ req'[r] = Idle /\ saw' = saw
      /\ ended' = ended \cup {r} /\ \A p \in Requests \ {r} : req'[p] = req[p]
      /\ ended \subseteq Requests
  BY <1>4, EndStep DEF ArticleOK, RequestOK, RequestStep
<1>6. req' \in [Requests -> ArticleRequest \cup {Idle}]
  BY <1>4 DEF End, ArticleOK, ArticleTypeOK
<1>7. CASE UNCHANGED <<article, by>>
  <2>1. ArticleTypeOK' /\ Featured' = Featured
    BY <1>6, <1>7 DEF ArticleOK, ArticleTypeOK, Featured, Present
  <2> QED BY <1>5, <1>7, <2>1, ArticlesWait DEF Doing, Idle
<1>8. CASE ~UNCHANGED <<article, by>>
  <2>1. PICK row : row = Written(article[a], q.was, q.to)
    OBVIOUS
  <2>2. /\ q.was # NoArticle => Present(a)
        /\ article'[a] = row
        /\ \A b \in Requests \ {a} :
             article'[b] = IF b \in q.cleared /\ Present(b) THEN Unfeatured(article[b])
                           ELSE article[b]
        /\ by' = IF Features(q) THEN [by EXCEPT ![a] = r] ELSE by
    BY <1>4, <1>8, <2>1
  <2>3. row \in ArticleRow /\ (row.featured => Features(q) \/ a \in Featured)
    <3>1. CASE q.was = NoArticle
      <4>1. row = q.to
        BY <3>1, <2>1, <1>3, NewRow
      <4> QED BY <3>1, <4>1, <1>3 DEF Features
    <3>2. CASE q.was # NoArticle
      <4>1. article[a] \in ArticleRow /\ Present(a)
        BY <3>2, <2>2 DEF ArticleOK, ArticleTypeOK, Present
      <4>2. /\ row \in ArticleRow
            /\ row.featured = IF q.was.featured = q.to.featured THEN article[a].featured
                              ELSE q.to.featured
        BY <3>2, <4>1, <2>1, <1>3, WrittenRow
      <4>3. q.was.featured \in BOOLEAN /\ q.to.featured \in BOOLEAN
        BY <3>2, <1>3 DEF ArticleRow
      <4> QED BY <4>1, <4>2, <4>3 DEF Features, Featured
    <3> QED BY <3>1, <3>2
  <2>4. ASSUME NEW b \in Requests \ {a}
        PROVE  /\ article'[b] \in ArticleRow \cup {NoArticle}
               /\ b \in Featured' => b \in Featured /\ b \notin q.cleared
    <3>1. CASE b \in q.cleared /\ Present(b)
      <4>1. article[b] \in ArticleRow /\ article'[b] = Unfeatured(article[b])
        BY <3>1, <2>2 DEF ArticleOK, ArticleTypeOK, Present
      <4>2. article'[b] \in ArticleRow /\ article'[b].featured = FALSE
        BY <4>1 DEF Unfeatured, ArticleRow
      <4> QED BY <4>2 DEF Featured
    <3>2. CASE ~(b \in q.cleared /\ Present(b))
      BY <3>2, <2>2 DEF ArticleOK, ArticleTypeOK, Featured, Present
    <3> QED BY <3>1, <3>2
  <2>5. ArticleTypeOK'
    <3>1. \A b \in Requests : article'[b] \in ArticleRow \cup {NoArticle}
      BY <2>2, <2>3, <2>4
    <3>2. article' = [b \in Requests |-> article'[b]]
      BY <1>4, <1>8
    <3>3. by' \in [Requests -> Requests \cup {None}]
      BY <2>2 DEF ArticleOK, ArticleTypeOK
    <3> QED BY <3>1, <3>2, <3>3, <1>6 DEF ArticleTypeOK
  <2>6. Featured' \subseteq Requests
    BY DEF Featured
  <2>7. a \in Featured' => Features(q) \/ a \in Featured
    BY <2>2, <2>3 DEF Featured
  <2>8. CASE ~Features(q)
    <3>1. Featured' \subseteq Featured /\ by' = by
      BY <2>2, <2>4, <2>6, <2>7, <2>8
    <3> QED BY <3>1, <2>5, <1>5, ArticlesWait DEF Doing, Idle
  <2>9. CASE Features(q)
    <3>1. by'[a] = r /\ \A b \in Requests \ {a} : by'[b] = by[b]
      BY <2>2, <2>9 DEF ArticleOK, ArticleTypeOK
    <3>2. ASSUME NEW b \in Featured', b # a
          PROVE  /\ b \in Featured /\ by'[b] = by[b] /\ by[b] \in ended /\ by[b] \in Requests
                 /\ by[b] \notin saw[r]
      <4>1. b \in Featured /\ b \notin q.cleared /\ by'[b] = by[b]
        BY <3>1, <3>2, <2>4, <2>6
      <4> QED BY <4>1, <3>2, <2>9, <1>1, <1>2, <1>4, <1>5 DEF ArticleOK
    <3>3. \A b \in Featured' : by'[b] \in ended'
      BY <3>1, <3>2, <1>5
    <3>4. OneFeaturedUnlessOverlapped'
      <4> SUFFICES ASSUME NEW b \in Featured', NEW c \in Featured', b # c
          PROVE  Overlap(by[b], by[c])'
        BY DEF OneFeaturedUnlessOverlapped
      <4>1. CASE b = a
        <5>1. Overlap(r, by[c])'
          <6>1. PICK p \in Requests : p = by[c] /\ p = by'[c] /\ p \in ended /\ p \notin saw[r]
            BY <4>1, <3>2
          <6>2. Overlap(r, p)'
            BY <6>1, <1>4, EndingOverlaps DEF ArticleOK
          <6> QED BY <6>1, <6>2 DEF Overlap
        <5> QED BY <5>1, <4>1, <3>1 DEF Overlap
      <4>2. CASE c = a
        <5>1. PICK p \in Requests : p = by[b] /\ p = by'[b] /\ p \in ended /\ p \notin saw[r]
          BY <4>2, <3>2
        <5>2. Overlap(p, r)'
          BY <5>1, <1>4, EndingOverlaps DEF ArticleOK
        <5> QED BY <5>1, <5>2, <4>2, <3>1 DEF Overlap
      <4>3. CASE b # a /\ c # a
        <5>1. PICK p \in Requests, s \in Requests :
                p = by[b] /\ p = by'[b] /\ s = by[c] /\ s = by'[c] /\ b \in Featured /\ c \in Featured
          BY <4>3, <3>2
        <5>2. Overlap(p, s)
          BY <5>1 DEF ArticleOK, OneFeaturedUnlessOverlapped
        <5>3. Overlap(p, s)'
          BY <5>2, <1>5, OverlapStays
        <5> QED BY <5>1, <5>3 DEF Overlap
      <4> QED BY <4>1, <4>2, <4>3
    <3>5. ASSUME NEW p \in Requests, Doing(p, "article")', req'[p].flushed, Features(req'[p]),
                 NEW b \in Featured', b # req'[p].article, b \notin req'[p].cleared
          PROVE  by'[b] \notin saw'[p]
      <4>1. p # r /\ req'[p] = req[p] /\ saw'[p] = saw[p] /\ Doing(p, "article")
        BY <3>5, <1>5 DEF Doing, Idle
      <4>2. CASE b = a
        BY <4>1, <4>2, <3>1, <1>5 DEF ArticleOK, RequestOK
      <4>3. CASE b # a
        BY <4>1, <4>3, <3>2, <3>5 DEF ArticleOK
      <4> QED BY <4>2, <4>3
    <3> QED BY <3>3, <3>4, <3>5, <2>5, <1>5 DEF ArticleOK, Features
  <2> QED BY <2>8, <2>9
<1> QED BY <1>7, <1>8

LEMMA ArticleEnds ==
  ASSUME ArticleOK, NEW r \in Requests, DeleteArticleCommit(r) \/ ArticleAbort(r)
  PROVE  ArticleOK'
<1>1. /\ End(r) /\ by' = by
      /\ article' \in {article, [article EXCEPT ![req[r].article] = NoArticle]}
  BY DEF DeleteArticleCommit, ArticleAbort
<1>2. /\ RequestStep /\ req'[r] = Idle /\ saw' = saw
      /\ \A p \in Requests \ {r} : req'[p] = req[p]
  BY <1>1, EndStep DEF ArticleOK
<1>3. ArticleTypeOK'
  BY <1>1 DEF End, ArticleOK, ArticleTypeOK
<1>4. Featured' \subseteq Featured
  BY <1>1 DEF Featured, Present, ArticleOK, ArticleTypeOK
<1> QED BY <1>1, <1>2, <1>3, <1>4, ArticlesWait DEF Doing, Idle

LEMMA ArticleSteps == ArticleOK /\ [ArticleNext]_articleVars => ArticleOK'
<1> SUFFICES ASSUME ArticleOK, [ArticleNext]_articleVars PROVE ArticleOK'
  OBVIOUS
<1>1. CASE UNCHANGED articleVars
  <2>1. RequestStep /\ req' = req /\ saw' = saw
    BY <1>1, QuietStep DEF articleVars, ArticleOK
  <2>2. ArticleTypeOK' /\ Featured' = Featured /\ by' = by
    BY <1>1, <2>1 DEF articleVars, ArticleOK, ArticleTypeOK, Featured, Present
  <2> QED BY <2>1, <2>2, ArticlesWait
<1>2. CASE ArticleNext
  BY <1>2, ArticleReads, ArticleFlushes, ArticleCommits, ArticleEnds DEF ArticleNext
<1> QED BY <1>1, <1>2

THEOREM ArticlesAreTyped == ArticleSpec => []ArticleTypeOK
BY ArticlesBegin, ArticleSteps, PTL DEF ArticleSpec, ArticleOK

\* Taking the flag from the others before the commit is enough, but for those
\* that are featured in between.
THEOREM OneFeatured == ArticleSpec => []OneFeaturedUnlessOverlapped
BY ArticlesBegin, ArticleSteps, PTL DEF ArticleSpec, ArticleOK

-----------------------------------------------------------------------------
(* Images.                                                                 *)

\* The files that a request takes away.
Taken(d) ==
  IF req[d].kind = "remove" THEN req[d].drop
  ELSE IF about[d] \in Singles THEN req[d].was ELSE {}

\* A file is of one column, and is there from before its upload commits until a
\* request takes it away, which then leaves its name out of the row.  What a
\* request still believes to be named was there, or is excused, or was taken
\* away by one that it has not seen.
ImageOK ==
  /\ RequestOK
  /\ ImageTypeOK
  /\ \A c \in Columns : \A f \in named[c] : f \in ended /\ about[f] = c
  /\ \A q \in Requests : req[q] # Idle =>
       /\ \A f \in req[q].was : f \in ended /\ about[f] = about[q]
       /\ req[q].drop \subseteq req[q].was
       /\ Doing(q, "remove") /\ about[q] \in Singles => req[q].drop = req[q].was
       /\ Doing(q, "upload") /\ req[q].stored => q \in disk
       /\ \A f \in req[q].was \ disk :
            remover[f] \in Requests /\ (Excused(about[q], f) \/ remover[f] \notin saw[q])
  /\ \A f, d \in Requests : remover[f] = d =>
       Begun(d) /\ (req[d] # Idle => about[f] = about[d] /\ f \in Taken(d))
  /\ NamedImagesExist

LEMMA ImagesBegin == ImageInit => ImageOK
<1> SUFFICES ASSUME ImageInit PROVE ImageOK
  OBVIOUS
<1>1. RequestOK /\ \A q \in Requests : req[q] = Idle
  BY RequestsBegin DEF ImageInit, RequestInit
<1>2. ImageTypeOK
  BY <1>1 DEF ImageInit, RequestInit, ImageTypeOK
<1>3. /\ \A c \in Columns : named[c] = {}
      /\ \A f \in Requests : remover[f] = None
  BY DEF ImageInit
<1> QED BY <1>1, <1>2, <1>3, NoneAssumption DEF ImageOK, NamedImagesExist

\* An excuse stays one, unless the request that took the file away commits.
LEMMA ExcusesStay ==
  ASSUME ImageOK, RequestStep, failed \subseteq failed', NEW c, NEW f \in Requests,
         remover'[f] = remover[f], \A q \in Requests : Begun(q) => about'[q] = about[q],
         remover[f] \in ended' => remover[f] \in ended \/ remover[f] \in failed',
         Excused(c, f)
  PROVE  Excused(c, f)'
<1>1. PICK d \in Requests : d = remover[f] /\ d = remover'[f]
  BY DEF Excused
<1>2. ASSUME NEW q \in Requests, about[q] = c, Overlap(q, d)
      PROVE  about'[q] = c /\ Overlap(q, d)'
  BY <1>2, OverlapStays DEF Overlap
<1>3. CASE d \notin ended \/ d \in failed
  <2>1. d \notin ended' \/ d \in failed'
    BY <1>1, <1>3
  <2> QED BY <2>1, <1>1 DEF Excused
<1>4. CASE c \in Galleries /\ \E q \in Requests : about[q] = c /\ Overlap(q, d)
  <2>1. PICK q \in Requests : about'[q] = c /\ Overlap(q, d)'
    BY <1>2, <1>4
  <2>2. d = remover'[f] /\ d \in Requests /\ c \in Galleries
    BY <1>1, <1>4
  <2>3. \E p \in Requests : about'[p] = c /\ Overlap(p, remover[f])'
    BY <2>1, <2>2 DEF Overlap
  <2> QED BY <2>2, <2>3 DEF Excused
<1> QED BY <1>1, <1>3, <1>4 DEF Excused

\* What is asked of one request.
RequestImagesOK(q) ==
  /\ \A f \in req[q].was : f \in ended /\ about[f] = about[q]
  /\ req[q].drop \subseteq req[q].was
  /\ Doing(q, "remove") /\ about[q] \in Singles => req[q].drop = req[q].was
  /\ Doing(q, "upload") /\ req[q].stored => q \in disk
  /\ \A f \in req[q].was \ disk :
       remover[f] \in Requests /\ (Excused(about[q], f) \/ remover[f] \notin saw[q])

LEMMA ImageReads ==
  ASSUME ImageOK, NEW r \in Requests, NEW c \in Columns,
         UploadRead(r, c) \/ \E drop \in SUBSET Requests : RemoveRead(r, c, drop)
  PROVE  ImageOK'
<1>1. PICK record \in ImageRequest :
        /\ Begin(r, record) /\ about' = [about EXCEPT ![r] = c]
        /\ UNCHANGED <<named, disk, remover, failed>>
        /\ record.was = named[c] /\ record.drop \subseteq named[c] /\ ~record.stored
        /\ record.kind = "remove" /\ c \in Singles => record.drop = named[c]
  <2>0. named[c] \in SUBSET Requests
    BY DEF ImageOK, ImageTypeOK
  <2>1. CASE UploadRead(r, c)
    <3> DEFINE record == [kind |-> "upload", was |-> named[c], drop |-> {}, stored |-> FALSE]
    <3>1. record \in ImageRequest
      BY <2>0 DEF ImageRequest
    <3> QED BY <2>1, <3>1 DEF UploadRead, ImageRead
  <2>2. ASSUME NEW drop \in SUBSET Requests, RemoveRead(r, c, drop)
        PROVE  \E record \in ImageRequest :
                 /\ Begin(r, record) /\ about' = [about EXCEPT ![r] = c]
                 /\ UNCHANGED <<named, disk, remover, failed>>
                 /\ record.was = named[c] /\ record.drop \subseteq named[c] /\ ~record.stored
                 /\ record.kind = "remove" /\ c \in Singles => record.drop = named[c]
    <3> DEFINE record == [kind |-> "remove", was |-> named[c], drop |-> drop, stored |-> FALSE]
    <3>1. record \in ImageRequest /\ record.was = named[c] /\ record.drop = drop
          /\ record.kind = "remove" /\ ~record.stored
      BY <2>0 DEF ImageRequest
    <3>2. /\ Begin(r, record) /\ about' = [about EXCEPT ![r] = c]
          /\ UNCHANGED <<named, disk, remover, failed>>
          /\ drop \subseteq named[c] /\ (c \in Singles => drop = named[c])
      BY <2>2 DEF RemoveRead, ImageRead
    <3> HIDE DEF record
    <3> QED BY <3>1, <3>2
  <2> QED BY <2>1, <2>2
<1>2. record # Idle
  BY DEF ImageRequest, Idle
<1>3. /\ RequestStep /\ RequestOK' /\ r \notin ended /\ req[r] = Idle /\ req'[r] = record
      /\ saw'[r] = ended /\ ended' = ended
      /\ \A q \in Requests \ {r} : req'[q] = req[q] /\ saw'[q] = saw[q]
  BY <1>1, <1>2, BeginStep DEF ImageOK, RequestStep
<1>4. about'[r] = c /\ \A q \in Requests \ {r} : about'[q] = about[q]
  BY <1>1 DEF ImageOK, ImageTypeOK
<1>5. ImageTypeOK'
  <2>1. req' \in [Requests -> ImageRequest \cup {Idle}]
    BY <1>1 DEF Begin, ImageOK, ImageTypeOK
  <2>2. about' \in [Requests -> Columns \cup {None}]
    BY <1>1 DEF ImageOK, ImageTypeOK
  <2>3. \A q \in Requests : req'[q] # Idle => about'[q] \in Columns
    BY <1>3, <1>4 DEF ImageOK, ImageTypeOK
  <2> QED BY <2>1, <2>2, <2>3, <1>1 DEF ImageOK, ImageTypeOK
<1>6. \A q \in Requests : Begun(q) => q # r /\ about'[q] = about[q]
  BY <1>3, <1>4 DEF Begun
<1>7. ASSUME NEW f \in Requests, NEW b, Excused(b, f) PROVE Excused(b, f)'
  BY <1>1, <1>3, <1>6, <1>7, ExcusesStay
<1>8. \A b \in Columns : \A f \in named'[b] : f \in Requests /\ f \in ended' /\ about'[f] = b
  BY <1>1, <1>3, <1>4 DEF ImageOK, ImageTypeOK
<1>9. NamedImagesExist'
  BY <1>1, <1>7, <1>8 DEF ImageOK, NamedImagesExist
<1>10. ASSUME NEW q \in Requests, req'[q] # Idle PROVE RequestImagesOK(q)'
  <2>1. CASE q = r
    <3>1. \A f \in record.was : f \in ended' /\ about'[f] = about'[r]
      BY <1>1, <1>3, <1>4, <1>8
    <3>2. \A f \in record.was \ disk' : remover'[f] \in Requests /\ Excused(about[r], f)'
      <4> SUFFICES ASSUME NEW f \in record.was \ disk'
          PROVE  remover'[f] \in Requests /\ Excused(about[r], f)'
        OBVIOUS
      <4>1. Excused(c, f)'
        BY <1>1, <1>9 DEF NamedImagesExist
      <4> QED BY <4>1, <1>4 DEF Excused
    <3>3. record.kind = "remove" /\ about'[r] \in Singles => record.drop = record.was
      BY <1>1, <1>4
    <3> QED BY <2>1, <3>1, <3>2, <3>3, <1>1, <1>3 DEF RequestImagesOK, Doing
  <2>2. CASE q # r
    <3>1. req'[q] = req[q] /\ saw'[q] = saw[q] /\ about'[q] = about[q] /\ req[q] # Idle
          /\ req[q].was \subseteq Requests
      BY <2>2, <1>3, <1>4, <1>10 DEF ImageOK, ImageTypeOK, ImageRequest
    <3>2. \A f \in req[q].was : f \in ended' /\ about'[f] = about[q] /\ f \in Requests
      BY <3>1, <1>3, <1>4 DEF ImageOK
    <3>3. \A f \in req[q].was \ disk :
            remover[f] \in Requests /\ (Excused(about[q], f)' \/ remover[f] \notin saw[q])
      <4> SUFFICES ASSUME NEW f \in req[q].was \ disk
          PROVE  remover[f] \in Requests /\ (Excused(about[q], f)' \/ remover[f] \notin saw[q])
        OBVIOUS
      <4>1. CASE Excused(about[q], f)
        BY <4>1, <3>1, <1>7 DEF Excused
      <4>2. CASE ~Excused(about[q], f)
        BY <4>2, <3>1 DEF ImageOK
      <4> QED BY <4>1, <4>2
    <3>4. /\ req[q].drop \subseteq req[q].was
          /\ Doing(q, "remove") /\ about[q] \in Singles => req[q].drop = req[q].was
          /\ Doing(q, "upload") /\ req[q].stored => q \in disk
      BY <3>1 DEF ImageOK
    <3> QED BY <3>1, <3>2, <3>3, <3>4, <1>1 DEF RequestImagesOK, Doing
  <2> QED BY <2>1, <2>2
<1>11. ASSUME NEW f \in Requests, NEW d \in Requests, remover'[f] = d
       PROVE  Begun(d)' /\ (req'[d] # Idle => about'[f] = about'[d] /\ f \in Taken(d)')
  <2>1. remover[f] = d /\ Begun(d) /\ d # r /\ Begun(d)'
    BY <1>1, <1>3, <1>6, <1>11 DEF ImageOK, RequestStep
  <2>2. req'[d] = req[d] /\ about'[d] = about[d] /\ Taken(d)' = Taken(d)
    BY <2>1, <1>3, <1>4 DEF Taken
  <2>3. ASSUME req[d] # Idle PROVE about'[f] = about[f] /\ about[f] = about[d] /\ f \in Taken(d)
    <3>1. about[f] = about[d] /\ f \in Taken(d)
      BY <2>1, <2>3 DEF ImageOK
    <3>2. f \in req[d].was
      BY <3>1, <2>3 DEF Taken, ImageOK
    <3> QED BY <3>1, <3>2, <2>3, <1>3, <1>4 DEF ImageOK
  <2> QED BY <2>1, <2>2, <2>3
<1> QED BY <1>3, <1>5, <1>8, <1>9, <1>10, <1>11 DEF ImageOK, RequestImagesOK

\* A file goes: what a row or a request still names is excused by the request
\* that takes it away, for that has not ended.
LEMMA ImageMoves ==
  ASSUME ImageOK, NEW r \in Requests, StoreUpload(r) \/ DropRemoved(r)
  PROVE  ImageOK'
<1>1. /\ req[r] \in ImageRequest /\ req[r] # Idle /\ req[r].kind \in {"upload", "remove"}
      /\ about[r] \in Columns /\ req[r].was \subseteq Requests /\ r \notin ended
      /\ req' = [req EXCEPT ![r].stored = TRUE]
      /\ UNCHANGED <<ended, saw, named, failed, about>>
  BY DEF StoreUpload, DropRemoved, Doing, ImageOK, RequestOK, ImageTypeOK, ImageRequest, Idle
<1>2. /\ Taken(r) \subseteq req[r].was
      /\ \A f \in Requests : remover'[f] = IF f \in Taken(r) \cap disk THEN r ELSE remover[f]
      /\ disk' = (disk \cup (IF Doing(r, "upload") THEN {r} ELSE {})) \ Taken(r)
      /\ remover' \in [Requests -> Requests \cup {None}]
  <2>1. CASE StoreUpload(r)
    BY <2>1 DEF StoreUpload, TakeAway, Taken, Doing, ImageOK, ImageTypeOK
  <2>2. CASE DropRemoved(r)
    <3>1. Taken(r) = req[r].drop /\ ~Doing(r, "upload") /\ req[r].drop \subseteq req[r].was
      BY <2>2, <1>1 DEF DropRemoved, Doing, Taken, ImageOK
    <3>2. disk' = disk \ req[r].drop /\ TakeAway(r, req[r].drop)
      BY <2>2 DEF DropRemoved
    <3> QED BY <3>1, <3>2 DEF TakeAway, ImageOK, ImageTypeOK
  <2> QED BY <2>1, <2>2
<1>3. /\ req'[r] = [req[r] EXCEPT !.stored = TRUE] /\ req'[r] \in ImageRequest
      /\ req'[r] # Idle /\ req'[r].kind = req[r].kind /\ req'[r].was = req[r].was
      /\ req'[r].drop = req[r].drop
      /\ \A q \in Requests \ {r} : req'[q] = req[q]
  <2>1. req'[r] = [req[r] EXCEPT !.stored = TRUE] /\ \A q \in Requests \ {r} : req'[q] = req[q]
    BY <1>1 DEF ImageOK, ImageTypeOK
  <2>2. /\ req'[r] \in ImageRequest /\ req'[r].kind = req[r].kind
        /\ req'[r].was = req[r].was /\ req'[r].drop = req[r].drop
    <3>1. PICK q \in ImageRequest : q = req[r]
      BY <1>1
    <3>2. /\ [q EXCEPT !.stored = TRUE] \in ImageRequest
          /\ [q EXCEPT !.stored = TRUE].kind = q.kind
          /\ [q EXCEPT !.stored = TRUE].was = q.was /\ [q EXCEPT !.stored = TRUE].drop = q.drop
      BY DEF ImageRequest
    <3> QED BY <3>1, <3>2, <2>1
  <2>3. req'[r] # Idle
    BY <2>2 DEF ImageRequest, Idle
  <2> QED BY <2>1, <2>2, <2>3
<1>4. RequestStep /\ RequestOK'
  BY <1>1, <1>3 DEF ImageOK, RequestOK, RequestStep, Begun
<1>5. /\ \A q \in Requests : Taken(q)' = Taken(q) /\ (req'[q] # Idle <=> req[q] # Idle)
      /\ \A q \in Requests : Begun(q)' <=> Begun(q)
      /\ \A q \in Requests : req'[q].was = req[q].was /\ req'[q].drop = req[q].drop
           /\ req'[q].kind = req[q].kind
  <2>1. \A q \in Requests : req'[q].was = req[q].was /\ req'[q].drop = req[q].drop
          /\ req'[q].kind = req[q].kind /\ (req'[q] # Idle <=> req[q] # Idle)
    BY <1>1, <1>3
  <2> QED BY <2>1, <1>1 DEF Taken, Begun
<1>6. ImageTypeOK'
  <2>1. req' \in [Requests -> ImageRequest \cup {Idle}]
    BY <1>1, <1>3 DEF ImageOK, ImageTypeOK
  <2>2. disk' \subseteq Requests
    BY <1>2 DEF ImageOK, ImageTypeOK
  <2> QED BY <2>1, <2>2, <1>1, <1>2, <1>5 DEF ImageOK, ImageTypeOK
<1>7. ASSUME NEW b, NEW f \in Requests, f \notin disk', Excused(b, f) \/ f \in disk
      PROVE  remover'[f] \in Requests /\ Excused(b, f)'
  <2>1. CASE f \in Taken(r) \cap disk
    BY <2>1, <1>1, <1>2 DEF Excused
  <2>2. CASE f \notin Taken(r) \cap disk
    <3>1. f \notin disk /\ remover'[f] = remover[f]
      BY <2>2, <1>2, <1>7
    <3>2. Excused(b, f)'
      BY <3>1, <1>1, <1>4, <1>7, ExcusesStay
    <3> QED BY <3>1, <3>2, <1>7 DEF Excused
  <2> QED BY <2>1, <2>2
<1>8. NamedImagesExist'
  <2> SUFFICES ASSUME NEW c \in Columns, NEW f \in named[c], f \notin disk' PROVE Excused(c, f)'
    BY <1>1 DEF NamedImagesExist
  <2>1. f \in Requests /\ (Excused(c, f) \/ f \in disk)
    BY DEF ImageOK, ImageTypeOK, NamedImagesExist
  <2> QED BY <2>1, <1>7
<1>9. ASSUME NEW q \in Requests, req'[q] # Idle PROVE RequestImagesOK(q)'
  <2>1. /\ req[q] # Idle /\ req'[q].was = req[q].was /\ req'[q].drop = req[q].drop
        /\ req'[q].kind = req[q].kind /\ req[q].was \subseteq Requests
    BY <1>5, <1>9 DEF ImageOK, ImageTypeOK, ImageRequest
  <2>2. Doing(q, "upload")' /\ req'[q].stored => q \in disk'
    <3>1. q \notin Taken(r)
      BY <2>1, <1>1, <1>2 DEF ImageOK, RequestOK
    <3>2. CASE q = r
      BY <3>1, <3>2, <2>1, <1>2 DEF Doing
    <3>3. CASE q # r
      BY <3>1, <3>3, <2>1, <1>2, <1>3 DEF Doing, ImageOK
    <3> QED BY <3>2, <3>3
  <2>3. ASSUME NEW f \in req[q].was \ disk'
        PROVE  remover'[f] \in Requests /\ (Excused(about[q], f)' \/ remover'[f] \notin saw[q])
    <3>1. CASE f \in disk
      <4>1. remover'[f] = r
        BY <3>1, <2>1, <2>3, <1>2
      <4> QED BY <4>1, <1>1 DEF ImageOK, RequestOK
    <3>2. CASE f \notin disk
      <4>1. remover'[f] = remover[f] /\ f \in Requests
        BY <3>2, <2>1, <2>3, <1>2
      <4>2. remover[f] \in Requests /\ (Excused(about[q], f) \/ remover[f] \notin saw[q])
        BY <3>2, <2>1, <2>3 DEF ImageOK
      <4>3. CASE Excused(about[q], f)
        <5>1. PICK b : b = about[q] /\ b = about'[q]
          BY <1>1
        <5>2. Excused(b, f)'
          BY <5>1, <4>1, <4>3, <2>3, <1>7
        <5> QED BY <5>1, <5>2, <4>1, <4>2 DEF Excused
      <4> QED BY <4>1, <4>2, <4>3
    <3> QED BY <3>1, <3>2
  <2>4. /\ \A f \in req[q].was : f \in ended /\ about[f] = about[q]
        /\ req[q].drop \subseteq req[q].was
        /\ Doing(q, "remove") /\ about[q] \in Singles => req[q].drop = req[q].was
    BY <2>1 DEF ImageOK
  <2> QED BY <2>1, <2>2, <2>3, <2>4, <1>1 DEF RequestImagesOK, Doing
<1>10. ASSUME NEW f \in Requests, NEW d \in Requests, remover'[f] = d
       PROVE  Begun(d)' /\ (req'[d] # Idle => about'[f] = about'[d] /\ f \in Taken(d)')
  <2>1. CASE f \in Taken(r) \cap disk
    <3>1. d = r /\ f \in req[r].was /\ about[f] = about[r] /\ Begun(r)
      BY <2>1, <1>1, <1>2, <1>10 DEF ImageOK, Begun
    <3> QED BY <3>1, <2>1, <1>1, <1>5
  <2>2. CASE f \notin Taken(r) \cap disk
    BY <2>2, <1>1, <1>2, <1>5, <1>10 DEF ImageOK
  <2> QED BY <2>1, <2>2
<1>11. \A c \in Columns : \A f \in named'[c] : f \in ended' /\ about'[f] = c
  BY <1>1 DEF ImageOK
<1> QED BY <1>4, <1>6, <1>8, <1>9, <1>10, <1>11 DEF ImageOK, RequestImagesOK

\* A request ends.  What its row names now it had read or put there; where a
\* file is gone that it had read, another request that it overlapped took it.
LEMMA ImageEnds ==
  ASSUME ImageOK, NEW r \in Requests, End(r), UNCHANGED <<disk, remover, about>>,
         named' \in [Columns -> SUBSET Requests],
         \A b \in Columns : b # about[r] => named'[b] = named[b],
         \/ failed' = failed \cup {r} /\ named' = named
         \/ /\ failed' = failed
            /\ \A f \in named'[about[r]] :
                 \/ f \in named[about[r]] /\ Taken(r) = {}
                 \/ f \in req[r].was \ Taken(r)
                 \/ f = r /\ r \in disk
  PROVE  ImageOK'
<1>1. /\ RequestStep /\ RequestOK' /\ r \notin ended /\ req[r] # Idle /\ req'[r] = Idle
      /\ saw' = saw /\ ended' = ended \cup {r} /\ \A q \in Requests \ {r} : req'[q] = req[q]
  BY EndStep DEF ImageOK, RequestStep
<1>2. PICK c \in Columns : c = about[r]
  BY <1>1 DEF ImageOK, ImageTypeOK
<1>3. /\ failed \subseteq failed' /\ failed' \subseteq Requests
      /\ \A q \in Requests : Begun(q) => about'[q] = about[q]
      /\ req[r].was \subseteq Requests
  BY <1>1 DEF ImageOK, ImageTypeOK, ImageRequest
<1>4. ImageTypeOK'
  <2>1. req' \in [Requests -> ImageRequest \cup {Idle}]
    BY DEF End, ImageOK, ImageTypeOK
  <2>2. \A q \in Requests : req'[q] # Idle => about'[q] \in Columns
    BY <1>1 DEF ImageOK, ImageTypeOK
  <2> QED BY <2>1, <2>2, <1>3 DEF ImageOK, ImageTypeOK
<1>5. ASSUME NEW b, NEW f \in Requests, Excused(b, f), remover[f] # r \/ r \in failed'
      PROVE  Excused(b, f)'
  <2>1. remover'[f] = remover[f] /\ (remover[f] \in ended' => remover[f] \in ended \/ remover[f] \in failed')
    BY <1>1, <1>5
  <2> QED BY <2>1, <1>1, <1>3, <1>5, ExcusesStay
<1>6. \A f \in Requests : remover[f] = r => about[f] = c /\ f \in Taken(r)
  BY <1>1, <1>2 DEF ImageOK
<1>7. ASSUME NEW f \in req[r].was \ Taken(r), f \notin disk, failed' = failed
      PROVE  Excused(c, f)'
  <2>1. f \in Requests /\ remover[f] # r
    BY <1>3, <1>6, <1>7
  <2>2. PICK d \in Requests : d = remover[f] /\ d = remover'[f]
    BY <1>1, <1>7 DEF ImageOK
  <2>3. CASE Excused(c, f)
    BY <2>1, <2>3, <1>5
  <2>4. CASE ~Excused(c, f)
    <3>1. d \notin saw[r] /\ d \in ended
      <4>1. Excused(about[r], f) \/ d \notin saw[r]
        BY <1>1, <1>7, <2>2 DEF ImageOK
      <4>2. d \in ended
        BY <2>2, <2>4 DEF Excused
      <4>3. ~Excused(about[r], f)
        BY <2>4, <1>2
      <4> QED BY <4>1, <4>2, <4>3
    <3>2. Overlap(r, d)'
      BY <3>1, EndingOverlaps DEF ImageOK
    <3>3. c \in Galleries
      <4>1. req[r] \in ImageRequest /\ req[r].kind \in {"upload", "remove"}
        BY <1>1 DEF ImageOK, ImageTypeOK, ImageRequest
      <4>2. c \notin Singles
        BY <4>1, <1>1, <1>2, <1>7 DEF Taken, ImageOK, Doing
      <4> QED BY <4>2 DEF Columns
    <3>4. \E q \in Requests : about'[q] = c /\ Overlap(q, remover[f])'
      BY <3>2, <2>2, <1>2 DEF Overlap
    <3> QED BY <3>3, <3>4, <2>2 DEF Excused
  <2> QED BY <2>3, <2>4
<1>8. ASSUME NEW b \in Columns, NEW f \in named'[b], f \notin disk PROVE Excused(b, f)'
  <2>1. CASE f \in named[b] /\ (remover[f] # r \/ r \in failed')
    <3>1. f \in Requests /\ Excused(b, f)
      BY <2>1, <1>8 DEF ImageOK, ImageTypeOK, NamedImagesExist
    <3> QED BY <2>1, <3>1, <1>5
  <2>2. CASE ~(f \in named[b] /\ (remover[f] # r \/ r \in failed'))
    <3>1. r \notin failed' \/ f \notin named[b]
      BY <2>2
    <3>2. CASE b # c
      <4>1. f \in named[b] /\ about[f] = b /\ f \in Requests
        BY <3>2, <1>2, <1>8 DEF ImageOK, ImageTypeOK
      <4> QED BY <4>1, <3>2, <2>2, <1>6
    <3>3. CASE b = c
      <4>1. failed' = failed
        BY <3>1, <1>8
      <4>2. (f \in named[c] /\ Taken(r) = {}) \/ f \in req[r].was \ Taken(r)
        BY <2>2, <3>3, <1>2, <1>8
      <4>3. CASE f \in named[c] /\ Taken(r) = {}
        BY <4>3, <3>3, <2>2, <1>6 DEF ImageOK, ImageTypeOK
      <4>4. CASE f \in req[r].was \ Taken(r)
        BY <4>1, <4>4, <3>3, <1>7, <1>8
      <4> QED BY <4>2, <4>3, <4>4
    <3> QED BY <3>2, <3>3
  <2> QED BY <2>1, <2>2
<1>9. NamedImagesExist'
  BY <1>8 DEF NamedImagesExist
<1>10. ASSUME NEW b \in Columns, NEW f \in named'[b] PROVE f \in ended' /\ about'[f] = b
  <2>1. CASE f \in named[b]
    BY <2>1, <1>1 DEF ImageOK
  <2>2. CASE f \notin named[b]
    <3>1. b = c /\ (f \in req[r].was \/ f = r)
      BY <2>2, <1>2, <1>10
    <3> QED BY <3>1, <1>1, <1>2 DEF ImageOK
  <2> QED BY <2>1, <2>2
<1>11. ASSUME NEW q \in Requests, req'[q] # Idle PROVE RequestImagesOK(q)'
  <2>1. /\ q # r /\ req'[q] = req[q] /\ req[q] # Idle /\ req[q].was \subseteq Requests
    BY <1>1, <1>11 DEF ImageOK, ImageTypeOK, ImageRequest
  <2>2. ASSUME NEW f \in req[q].was \ disk
        PROVE  remover[f] \in Requests /\ (Excused(about[q], f)' \/ remover[f] \notin saw[q])
    <3>1. f \in Requests /\ remover[f] \in Requests /\ (Excused(about[q], f) \/ remover[f] \notin saw[q])
      BY <2>1, <2>2 DEF ImageOK
    <3>2. CASE remover[f] = r
      BY <3>1, <3>2, <1>1 DEF ImageOK, RequestOK
    <3>3. CASE remover[f] # r /\ Excused(about[q], f)
      <4>1. PICK b : b = about[q] /\ b = about'[q]
        OBVIOUS
      <4>2. Excused(b, f)'
        BY <4>1, <3>1, <3>3, <1>5
      <4> QED BY <4>1, <4>2, <3>1 DEF Excused
    <3> QED BY <3>1, <3>2, <3>3
  <2>3. /\ \A f \in req[q].was : f \in ended' /\ about[f] = about[q]
        /\ req[q].drop \subseteq req[q].was
        /\ Doing(q, "remove") /\ about[q] \in Singles => req[q].drop = req[q].was
        /\ Doing(q, "upload") /\ req[q].stored => q \in disk
    BY <2>1, <1>1 DEF ImageOK
  <2> QED BY <2>1, <2>2, <2>3, <1>1 DEF RequestImagesOK, Doing
<1>12. ASSUME NEW f \in Requests, NEW d \in Requests, remover'[f] = d
       PROVE  Begun(d)' /\ (req'[d] # Idle => about'[f] = about'[d] /\ f \in Taken(d)')
  <2>1. Begun(d)' /\ Begun(d)
    BY <1>1, <1>12 DEF ImageOK, RequestStep
  <2>2. CASE d = r
    BY <2>1, <2>2, <1>1
  <2>3. CASE d # r
    BY <2>1, <2>3, <1>1, <1>12 DEF ImageOK, Taken
  <2> QED BY <2>2, <2>3
<1> QED BY <1>1, <1>4, <1>9, <1>10, <1>11, <1>12 DEF ImageOK, RequestImagesOK

LEMMA ImageCommits ==
  ASSUME ImageOK, NEW r \in Requests, UploadCommit(r) \/ RemoveCommit(r) \/ ImageAbort(r)
  PROVE  ImageOK'
<1>1. /\ End(r) /\ UNCHANGED <<disk, remover, about>>
  BY DEF UploadCommit, RemoveCommit, ImageAbort
<1>2. /\ about[r] \in Columns /\ req[r].was \subseteq Requests /\ req[r].drop \subseteq Requests
  BY <1>1 DEF End, ImageOK, ImageTypeOK, ImageRequest
<1>3. CASE ImageAbort(r)
  BY <1>1, <1>3, ImageEnds DEF ImageAbort, ImageOK, ImageTypeOK
<1>4. CASE UploadCommit(r)
  <2>1. PICK N \in SUBSET Requests :
          /\ N = IF about[r] \in Singles THEN {r} ELSE req[r].was \cup {r}
          /\ named' = [named EXCEPT ![about[r]] = N]
    BY <1>2, <1>4 DEF UploadCommit
  <2>2. failed' = failed /\ Doing(r, "upload") /\ req[r].stored
    BY <1>4 DEF UploadCommit
  <2>3. r \in disk
    BY <2>2, <1>1 DEF ImageOK, End
  <2>4. about[r] \notin Singles => Taken(r) = {}
    BY <2>2 DEF Taken, Doing
  <2>5. /\ named' \in [Columns -> SUBSET Requests] /\ named'[about[r]] = N
        /\ \A b \in Columns : b # about[r] => named'[b] = named[b]
    BY <2>1, <1>2 DEF ImageOK, ImageTypeOK
  <2>6. \A f \in named'[about[r]] : f \in req[r].was \ Taken(r) \/ (f = r /\ r \in disk)
    BY <2>1, <2>3, <2>4, <2>5
  <2> QED BY <2>2, <2>5, <2>6, <1>1, ImageEnds
<1>5. CASE RemoveCommit(r)
  <2>1. failed' = failed /\ Taken(r) = req[r].drop
        /\ named' = IF req[r].was = {} THEN named
                    ELSE [named EXCEPT ![about[r]] = req[r].was \ req[r].drop]
    BY <1>5 DEF RemoveCommit, Taken, Doing
  <2>2. CASE req[r].was = {}
    <3>1. Taken(r) = {} /\ named' = named
      BY <2>1, <2>2, <1>1 DEF ImageOK, End
    <3> QED BY <3>1, <2>1, <1>1, ImageEnds DEF ImageOK, ImageTypeOK
  <2>3. CASE req[r].was # {}
    <3>1. /\ named' \in [Columns -> SUBSET Requests]
          /\ named'[about[r]] = req[r].was \ Taken(r)
          /\ \A b \in Columns : b # about[r] => named'[b] = named[b]
      BY <2>1, <2>3, <1>2 DEF ImageOK, ImageTypeOK
    <3>2. \A f \in named'[about[r]] : f \in req[r].was \ Taken(r)
      BY <3>1
    <3> QED BY <3>1, <3>2, <2>1, <1>1, ImageEnds
  <2> QED BY <2>2, <2>3
<1> QED BY <1>3, <1>4, <1>5

LEMMA ImageSteps == ImageOK /\ [ImageNext]_imageVars => ImageOK'
<1> SUFFICES ASSUME ImageOK, [ImageNext]_imageVars PROVE ImageOK'
  OBVIOUS
<1>1. CASE UNCHANGED imageVars
  <2>1. UNCHANGED <<req, ended, saw, named, disk, remover, failed, about>>
    BY <1>1 DEF imageVars, requestVars
  <2>2. RequestOK' /\ ImageTypeOK'
    BY <2>1 DEF ImageOK, RequestOK, ImageTypeOK
  <2>3. ASSUME NEW c, NEW f PROVE Excused(c, f)' <=> Excused(c, f)
    BY <2>1 DEF Excused, Overlap, Begun
  <2>4. NamedImagesExist'
    BY <2>1, <2>3 DEF ImageOK, NamedImagesExist
  <2>5. ASSUME NEW q \in Requests, req[q] # Idle PROVE RequestImagesOK(q)'
    <3>1. RequestImagesOK(q)
      BY <2>5 DEF ImageOK, RequestImagesOK
    <3>2. \A f \in req[q].was : Excused(about[q], f)' <=> Excused(about[q], f)
      BY <2>1 DEF Excused, Overlap, Begun
    <3> QED BY <3>1, <3>2, <2>1 DEF RequestImagesOK, Doing
  <2>6. ASSUME NEW d \in Requests PROVE (Begun(d)' <=> Begun(d)) /\ Taken(d)' = Taken(d)
    BY <2>1 DEF Begun, Taken
  <2>7. ASSUME NEW f \in Requests, NEW d \in Requests, remover[f] = d
        PROVE  Begun(d)' /\ (req'[d] # Idle => about'[f] = about'[d] /\ f \in Taken(d)')
    BY <2>1, <2>6, <2>7 DEF ImageOK
  <2> QED BY <2>1, <2>2, <2>4, <2>5, <2>7 DEF ImageOK, RequestImagesOK
<1>2. CASE ImageNext
  BY <1>2, ImageReads, ImageMoves, ImageCommits DEF ImageNext
<1> QED BY <1>1, <1>2

THEOREM ImagesAreTyped == ImageSpec => []ImageTypeOK
BY ImagesBegin, ImageSteps, PTL DEF ImageSpec, ImageOK

\* However uploads and removals run beside each other and fail, a row names a
\* missing file only in the three cases that Excused lists.
THEOREM ImagesExist == ImageSpec => []NamedImagesExist
BY ImagesBegin, ImageSteps, PTL DEF ImageSpec, ImageOK

-----------------------------------------------------------------------------
(* PartnerAccess.                                                          *)

\* Codes are made by requests that have ended, before whoever uses them began,
\* and each is on one link at most.  An open in flight has read a count that
\* covers the opens it saw, and a code that its link has got since has served
\* none of those.
PartnerOK ==
  /\ RequestOK
  /\ PartnerTypeOK
  /\ IsFiniteSet(ended)
  /\ \A s \in Requests : served[s] # None => s \in ended /\ served[s] \in saw[s]
  /\ \A l \in PartnerLinks : Exists(l) => link[l].code \in ended
  /\ \A l, m \in PartnerLinks : Exists(l) /\ link[l].code = link[m].code => l = m
  /\ \A r \in Requests : Doing(r, "access") =>
       /\ req[r].code \in saw[r]
       /\ \A l \in PartnerLinks : link[l].code = req[r].code => l = req[r].link
       /\ \A s \in saw[r] : served[s] # None /\ served[s] = link[req[r].link].code =>
            served[s] = req[r].code
       /\ Cardinality(AloneServed(req[r].code) \cap saw[r]) <= req[r].count
  /\ AloneOpensAreCounted

LEMMA AccessSees ==
  ASSUME PartnerOK, NEW r \in Requests, Doing(r, "access")
  PROVE  /\ req[r].link \in PartnerLinks /\ req[r].count \in Nat /\ req[r].code \in saw[r]
         /\ \A l \in PartnerLinks : link[l].code = req[r].code => l = req[r].link
         /\ \A s \in saw[r] : served[s] # None /\ served[s] = link[req[r].link].code =>
              served[s] = req[r].code
         /\ Cardinality(AloneServed(req[r].code) \cap saw[r]) <= req[r].count
<1>1. req[r] \in PartnerRequest /\ req[r].kind = "access"
  BY DEF PartnerOK, PartnerTypeOK, Doing, Idle
<1>2. req[r].link \in PartnerLinks /\ req[r].count \in Nat
  BY <1>1 DEF PartnerRequest
<1> QED BY <1>2 DEF PartnerOK

LEMMA CodesDiffer ==
  ASSUME PartnerOK
  PROVE  /\ \A l \in PartnerLinks : Exists(l) => link[l].code \in ended
         /\ \A l, m \in PartnerLinks : Exists(l) /\ link[l].code = link[m].code => l = m
BY DEF PartnerOK

LEMMA FewerOf ==
  ASSUME NEW S, IsFiniteSet(S), NEW T \in SUBSET S, NEW n \in Nat, Cardinality(S) <= n
  PROVE  IsFiniteSet(T) /\ Cardinality(T) <= n /\ Cardinality(T) \in Nat
<1>1. IsFiniteSet(T) /\ Cardinality(T) <= Cardinality(S)
  BY FS_Subset
<1>2. Cardinality(T) \in Nat /\ Cardinality(S) \in Nat
  BY <1>1, FS_CardinalityType
<1> QED BY <1>1, <1>2

LEMMA PartnersBegin == PartnerInit => PartnerOK
<1> SUFFICES ASSUME PartnerInit PROVE PartnerOK
  OBVIOUS
<1>1. /\ RequestOK /\ ended = {} /\ \A r \in Requests : req[r] = Idle /\ ~Doing(r, "access")
      /\ \A l \in PartnerLinks : ~Exists(l)
      /\ \A r \in Requests : served[r] = None
  BY RequestsBegin DEF PartnerInit, RequestInit, Idle, Doing, Exists
<1>2. PartnerTypeOK
  BY <1>1 DEF PartnerInit, RequestInit, PartnerTypeOK
<1>3. IsFiniteSet(ended)
  BY <1>1, FS_EmptySet
<1> QED BY <1>1, <1>2, <1>3 DEF PartnerOK, AloneOpensAreCounted

\* What is alone was served and has ended, and is alone no more once another
\* request overlaps it.
LEMMA AloneOnes ==
  ASSUME PartnerOK, NEW k
  PROVE  /\ AloneServed(k) \subseteq Requests
         /\ k # None => AloneServed(k) \subseteq ended
         /\ IsFiniteSet(ended)
BY DEF PartnerOK, AloneServed

LEMMA AloneStays ==
  ASSUME PartnerOK, RequestStep, served' = served, NEW k
  PROVE  AloneServed(k)' \subseteq AloneServed(k)
<1> SUFFICES ASSUME NEW s \in Requests, served'[s] = k, ~\E q \in Requests : Overlap(q, s)'
    PROVE  s \in AloneServed(k)
  BY DEF AloneServed, Overlap
<1>1. \A q \in Requests : Overlap(q, s) => Overlap(q, s)'
  BY OverlapStays
<1>2. \A q : Overlap(q, s) => q \in Requests
  BY DEF Overlap
<1> QED BY <1>1, <1>2 DEF AloneServed

\* Steps that serve nobody: links keep code and count, or r makes a new code.
LEMMA PartnersGoOn ==
  ASSUME PartnerOK, RequestStep, PartnerTypeOK', served' = served, IsFiniteSet(ended'),
         NEW r, r \notin ended, NEW m \in PartnerLinks,
         \A l \in PartnerLinks : Exists(l)' =>
           \/ Exists(l) /\ link'[l].code = link[l].code /\ link'[l].count = link[l].count
           \/ l = m /\ link'[l].code = r /\ r \in ended',
         \A q \in Requests : Doing(q, "access")' =>
           \/ Doing(q, "access") /\ req'[q] = req[q] /\ saw'[q] = saw[q]
           \/ \E l \in PartnerLinks :
                /\ Exists(l) /\ UNCHANGED link
                /\ req'[q].link = l /\ req'[q].code = link[l].code
                /\ req'[q].count = link[l].count /\ saw'[q] = ended
  PROVE  PartnerOK'
<1>1. RequestOK' /\ ended \subseteq ended'
  BY DEF RequestStep
<1>2. \A s \in Requests : served'[s] # None => s \in ended' /\ served'[s] \in saw'[s]
  BY <1>1 DEF PartnerOK, RequestStep, Begun
<1>3. \A l \in PartnerLinks : Exists(l)' => link'[l].code \in ended'
  BY <1>1 DEF PartnerOK
<1>4. \A l \in PartnerLinks : ~Exists(l)' => link'[l].code = None
  BY DEF Exists, NoLink
<1>5. \A l \in PartnerLinks : ~Exists(l) => link[l].code = None
  BY DEF Exists, NoLink
<1>6. None \notin ended /\ None \notin ended'
  BY <1>1, NoneAssumption DEF PartnerOK, RequestOK
<1>7. \A l, n \in PartnerLinks : Exists(l)' /\ link'[l].code = link'[n].code => l = n
  <2> SUFFICES ASSUME NEW l \in PartnerLinks, NEW n \in PartnerLinks, Exists(l)',
                      link'[l].code = link'[n].code
      PROVE  l = n
    OBVIOUS
  <2>1. Exists(n)'
    BY <1>3, <1>4, <1>6
  <2>2. CASE link'[l].code = r
    BY <2>1, <2>2, CodesDiffer
  <2>3. CASE link'[l].code # r
    BY <2>1, <2>3, CodesDiffer
  <2> QED BY <2>2, <2>3
<1>8. ASSUME NEW q \in Requests, Doing(q, "access")'
      PROVE  /\ req'[q].code \in saw'[q]
             /\ \A l \in PartnerLinks : link'[l].code = req'[q].code => l = req'[q].link
             /\ \A s \in saw'[q] : served'[s] # None /\ served'[s] = link'[req'[q].link].code =>
                  served'[s] = req'[q].code
             /\ Cardinality(AloneServed(req[q].code)' \cap saw'[q]) <= req'[q].count
  <2>1. PICK k, n : k = req'[q].code /\ n = req'[q].count
    OBVIOUS
  <2>2. n \in Nat
    BY <2>1, <1>8 DEF PartnerTypeOK, PartnerRequest, Doing, Idle
  <2>3. AloneServed(k)' \subseteq AloneServed(k)
    BY AloneStays
  <2>4. CASE Doing(q, "access") /\ req'[q] = req[q] /\ saw'[q] = saw[q]
    <3>1. k \in saw[q] /\ k \in ended /\ saw[q] \subseteq ended
      BY <2>1, <2>4 DEF PartnerOK, RequestOK
    <3>2. \A l \in PartnerLinks : link'[l].code = k => l = req'[q].link
      <4> SUFFICES ASSUME NEW l \in PartnerLinks, link'[l].code = k PROVE l = req'[q].link
        OBVIOUS
      <4>1. Exists(l)'
        BY <3>1, <1>4, <1>6
      <4>2. link[l].code = k
        BY <4>1, <3>1
      <4>3. \A b \in PartnerLinks : link[b].code = req[q].code => b = req[q].link
        BY <2>4 DEF PartnerOK
      <4> QED BY <4>2, <4>3, <2>1, <2>4
    <3>3. IsFiniteSet(AloneServed(k) \cap saw[q])
      <4>1. IsFiniteSet(ended) /\ AloneServed(k) \cap saw[q] \in SUBSET ended
        BY <3>1 DEF PartnerOK
      <4> QED BY <4>1, FS_Subset
    <3>4. Cardinality(AloneServed(k) \cap saw[q]) <= n
      BY <2>1, <2>4 DEF PartnerOK
    <3>5. AloneServed(k)' \cap saw'[q] \in SUBSET (AloneServed(k) \cap saw[q])
      BY <2>3, <2>4
    <3>6. Cardinality(AloneServed(k)' \cap saw'[q]) <= n
      BY <3>3, <3>4, <3>5, <2>2, FewerOf
    <3>7. ASSUME NEW s \in saw[q], served[s] # None, served[s] = link'[req[q].link].code
          PROVE  served[s] = req[q].code
      <4>1. PICK l \in PartnerLinks : l = req[q].link
        BY <2>4, AccessSees
      <4>2. served[s] \in ended
        BY <3>1, <3>7 DEF PartnerOK, RequestOK
      <4>3. Exists(l)'
        BY <4>1, <3>7, <1>4
      <4>4. link'[l].code = link[l].code
        BY <4>1, <4>2, <4>3, <3>7
      <4>5. served[s] = link[req[q].link].code
        BY <4>1, <4>4, <3>7
      <4> QED BY <4>5, <3>7, <2>4, AccessSees
    <3> QED BY <3>1, <3>2, <3>6, <3>7, <2>1, <2>4 DEF AloneServed
  <2>5. ASSUME NEW l \in PartnerLinks, Exists(l), UNCHANGED link,
               req'[q].link = l, req'[q].code = link[l].code,
               req'[q].count = link[l].count, saw'[q] = ended
        PROVE  /\ req'[q].code \in saw'[q]
               /\ \A b \in PartnerLinks : link'[b].code = req'[q].code => b = req'[q].link
               /\ \A s \in saw'[q] : served'[s] # None /\ served'[s] = link'[req'[q].link].code =>
                    served'[s] = req'[q].code
               /\ Cardinality(AloneServed(req[q].code)' \cap saw'[q]) <= req'[q].count
    <3>1. k \in ended /\ k = link[l].code /\ n = link[l].count
      BY <2>1, <2>5 DEF PartnerOK
    <3>2. Cardinality(AloneServed(k)) <= n
      BY <3>1, <2>5 DEF PartnerOK, AloneOpensAreCounted
    <3>3. k # None
      BY <3>1, <1>6
    <3>4. IsFiniteSet(AloneServed(k))
      BY <3>3, AloneOnes, FS_Subset
    <3>5. AloneServed(k)' \cap saw'[q] \in SUBSET AloneServed(k)
      BY <2>3
    <3>6. Cardinality(AloneServed(k)' \cap saw'[q]) <= n
      BY <3>2, <3>4, <3>5, <2>2, FewerOf
    <3>7. \A b \in PartnerLinks : link[b].code = link[l].code => b = l
      BY <2>5 DEF PartnerOK
    <3> QED BY <3>1, <3>6, <3>7, <2>1, <2>5 DEF AloneServed
  <2> QED BY <1>8, <2>4, <2>5
<1>9. AloneOpensAreCounted'
  <2> SUFFICES ASSUME NEW l \in PartnerLinks, Exists(l)'
      PROVE  Cardinality(AloneServed(link[l].code)') <= link'[l].count
    BY DEF AloneOpensAreCounted
  <2>1. PICK k, n : k = link'[l].code /\ n = link'[l].count
    OBVIOUS
  <2>2. n \in Nat
    BY <2>1 DEF PartnerTypeOK, LinkRow, Exists
  <2>3. AloneServed(k)' \subseteq AloneServed(k)
    BY AloneStays
  <2>4. CASE Exists(l) /\ k = link[l].code /\ n = link[l].count
    <3>1. Cardinality(AloneServed(k)) <= n
      BY <2>4 DEF PartnerOK, AloneOpensAreCounted
    <3>2. k # None
      BY <2>4, <1>6 DEF PartnerOK
    <3>3. IsFiniteSet(AloneServed(k))
      BY <3>2, AloneOnes, FS_Subset
    <3>4. Cardinality(AloneServed(k)') <= n
      BY <3>1, <3>3, <2>2, <2>3, FewerOf
    <3> QED BY <3>4, <2>1 DEF AloneServed
  <2>5. CASE k = r /\ r \in ended'
    <3>1. AloneServed(k) = {}
      BY <2>5, <1>6 DEF AloneServed, PartnerOK, RequestOK
    <3>2. Cardinality(AloneServed(k)') = 0
      BY <3>1, <2>3, FS_EmptySet
    <3> QED BY <3>2, <2>1, <2>2 DEF AloneServed
  <2> QED BY <2>1, <2>4, <2>5
<1> QED BY <1>1, <1>2, <1>3, <1>7, <1>8, <1>9 DEF PartnerOK

LEMMA PartnerRequestsBegin ==
  ASSUME PartnerOK, NEW r \in Requests, NEW record \in PartnerRequest, Begin(r, record),
         UNCHANGED <<link, served>>, NEW l \in PartnerLinks, Exists(l),
         record.kind = "access" =>
           record.link = l /\ record.code = link[l].code /\ record.count = link[l].count
  PROVE  PartnerOK'
<1>1. record # Idle
  BY DEF PartnerRequest, Idle
<1>2. /\ RequestStep /\ r \notin ended /\ req'[r] = record /\ saw'[r] = ended /\ ended' = ended
      /\ \A q \in Requests \ {r} : req'[q] = req[q] /\ saw'[q] = saw[q]
  BY <1>1, BeginStep DEF PartnerOK
<1>3. PartnerTypeOK'
  BY DEF Begin, PartnerOK, PartnerTypeOK
<1>4. IsFiniteSet(ended')
  BY <1>2 DEF PartnerOK
<1>5. \A m \in PartnerLinks : Exists(m)' => 
        Exists(m) /\ link'[m].code = link[m].code /\ link'[m].count = link[m].count
  BY DEF Exists
<1>6. \A q \in Requests : Doing(q, "access")' =>
        \/ Doing(q, "access") /\ req'[q] = req[q] /\ saw'[q] = saw[q]
        \/ \E m \in PartnerLinks :
             /\ Exists(m) /\ UNCHANGED link
             /\ req'[q].link = m /\ req'[q].code = link[m].code
             /\ req'[q].count = link[m].count /\ saw'[q] = ended
  BY <1>2 DEF Doing
<1> QED BY <1>2, <1>3, <1>4, <1>5, <1>6, PartnersGoOn

LEMMA PartnerReads ==
  ASSUME PartnerOK, NEW r \in Requests, NEW l \in PartnerLinks,
         AccessRead(r, l) \/ UpdateLinkRead(r, l) \/ RegenerateRead(r, l) \/ DeleteLinkRead(r, l)
  PROVE  PartnerOK'
<1>1. Exists(l) /\ UNCHANGED <<link, served>>
  BY DEF AccessRead, UpdateLinkRead, RegenerateRead, DeleteLinkRead, LinkRead
<1>2. PICK row \in LinkRow : row = link[l]
  BY <1>1 DEF PartnerOK, PartnerTypeOK, Exists
<1>3. CASE AccessRead(r, l)
  <2> DEFINE record == [kind |-> "access", link |-> l, code |-> row.code, count |-> row.count]
  <2>1. record \in PartnerRequest /\ record.link = l /\ record.code = link[l].code
        /\ record.count = link[l].count
    BY <1>2 DEF PartnerRequest, LinkRow
  <2>2. Begin(r, record)
    BY <1>2, <1>3 DEF AccessRead
  <2> HIDE DEF record
  <2> QED BY <2>1, <2>2, <1>1, PartnerRequestsBegin
<1>4. ASSUME NEW kind \in {"update_link", "regenerate", "delete_link"}, LinkRead(r, l, kind)
      PROVE  PartnerOK'
  <2> DEFINE record == [kind |-> kind, link |-> l, row |-> row]
  <2>1. record \in PartnerRequest /\ record.kind # "access"
    BY DEF PartnerRequest
  <2>2. Begin(r, record)
    BY <1>2, <1>4 DEF LinkRead
  <2> HIDE DEF record
  <2> QED BY <2>1, <2>2, <1>1, PartnerRequestsBegin
<1> QED BY <1>3, <1>4 DEF UpdateLinkRead, RegenerateRead, DeleteLinkRead

\* A request of the admin ends, or one that finds its link gone.
LEMMA PartnerEnds ==
  ASSUME PartnerOK, NEW r \in Requests, End(r), served' = served,
         link' \in [PartnerLinks -> LinkRow \cup {NoLink}], NEW m \in PartnerLinks,
         \A l \in PartnerLinks : link'[l] # NoLink =>
           \/ Exists(l) /\ link'[l].code = link[l].code /\ link'[l].count = link[l].count
           \/ l = m /\ link'[l].code = r
  PROVE  PartnerOK'
<1>1. /\ RequestStep /\ r \notin ended /\ req'[r] = Idle /\ saw' = saw
      /\ ended' = ended \cup {r} /\ \A q \in Requests \ {r} : req'[q] = req[q]
  BY EndStep DEF PartnerOK
<1>2. PartnerTypeOK'
  BY DEF End, PartnerOK, PartnerTypeOK
<1>3. IsFiniteSet(ended')
  BY <1>1, FS_AddElement DEF PartnerOK
<1>4. \A q \in Requests : Doing(q, "access")' =>
        Doing(q, "access") /\ req'[q] = req[q] /\ saw'[q] = saw[q]
  BY <1>1 DEF Doing, Idle
<1>5. \A l \in PartnerLinks : Exists(l)' =>
        \/ Exists(l) /\ link'[l].code = link[l].code /\ link'[l].count = link[l].count
        \/ l = m /\ link'[l].code = r /\ r \in ended'
  BY <1>1 DEF Exists
<1> QED BY <1>1, <1>2, <1>3, <1>4, <1>5, PartnersGoOn

LEMMA NewLinks ==
  ASSUME PartnerOK, NEW r \in Requests, NEW m \in PartnerLinks, NEW max \in MaxViews \cup {None},
         CreateLink(r, m, max)
  PROVE  PartnerOK'
<1>1. /\ Once(r) /\ served' = served
      /\ link' = [link EXCEPT ![m] =
           [code |-> r, active |-> TRUE, expired |-> FALSE, max |-> max, count |-> 0]]
  BY DEF CreateLink
<1>2. /\ RequestStep /\ r \notin ended /\ req[r] = Idle /\ req' = req /\ ended' = ended \cup {r}
      /\ \A q \in Requests \ {r} : saw'[q] = saw[q]
  BY <1>1, OnceStep DEF PartnerOK
<1>3. PICK row \in LinkRow : row.code = r /\ link' = [link EXCEPT ![m] = row]
  <2>1. [code |-> r, active |-> TRUE, expired |-> FALSE, max |-> max, count |-> 0] \in LinkRow
    BY DEF LinkRow
  <2> QED BY <2>1, <1>1
<1>4. PartnerTypeOK'
  BY <1>1, <1>2, <1>3 DEF PartnerOK, PartnerTypeOK
<1>5. IsFiniteSet(ended')
  BY <1>2, FS_AddElement DEF PartnerOK
<1>6. \A q \in Requests : Doing(q, "access")' =>
        Doing(q, "access") /\ req'[q] = req[q] /\ saw'[q] = saw[q]
  BY <1>2 DEF Doing, Idle
<1>7. \A l \in PartnerLinks : Exists(l)' =>
        \/ Exists(l) /\ link'[l].code = link[l].code /\ link'[l].count = link[l].count
        \/ l = m /\ link'[l].code = r /\ r \in ended'
  BY <1>2, <1>3 DEF PartnerOK, PartnerTypeOK, Exists
<1> QED BY <1>1, <1>2, <1>4, <1>5, <1>6, <1>7, PartnersGoOn

LEMMA LinkChanges ==
  ASSUME PartnerOK, NEW r \in Requests,
         \/ \E active, expired \in BOOLEAN, max \in MaxViews \cup {None} :
              UpdateLinkCommit(r, active, expired, max)
         \/ RegenerateCommit(r) \/ DeleteLinkCommit(r) \/ PartnerAbort(r)
  PROVE  PartnerOK'
<1>1. End(r) /\ served' = served
  BY DEF UpdateLinkCommit, RegenerateCommit, DeleteLinkCommit, PartnerAbort
<1>2. CASE PartnerAbort(r)
  <2>1. PartnerLinks = {} \/ \E m \in PartnerLinks : TRUE
    OBVIOUS
  <2>2. link' = link
    BY <1>2 DEF PartnerAbort
  <2>3. \E m \in PartnerLinks : TRUE
    BY <1>1 DEF End, PartnerOK, PartnerTypeOK, PartnerRequest
  <2> QED BY <2>2, <2>3, <1>1, PartnerEnds DEF PartnerOK, PartnerTypeOK, Exists
<1>3. ASSUME ~PartnerAbort(r) PROVE PartnerOK'
  <2>1. PICK m \in PartnerLinks, was \in LinkRow :
          /\ m = req[r].link /\ (req[r].kind \in {"update_link", "regenerate"} => was = req[r].row)
    <3>1. req[r] \in PartnerRequest
      BY <1>1 DEF End, PartnerOK, PartnerTypeOK
    <3>2. req[r].kind \in {"update_link", "regenerate", "delete_link"}
      BY <1>3 DEF UpdateLinkCommit, RegenerateCommit, DeleteLinkCommit, Doing
    <3>3. req[r].link \in PartnerLinks /\ req[r].row \in LinkRow
      BY <3>1, <3>2 DEF PartnerRequest
    <3> QED BY <3>3
  <2>2. CASE link' = link
    BY <2>2, <1>1, <2>1, PartnerEnds DEF PartnerOK, PartnerTypeOK, Exists
  <2>3. CASE link' = [link EXCEPT ![m] = NoLink]
    BY <2>3, <1>1, <2>1, PartnerEnds DEF PartnerOK, PartnerTypeOK, Exists
  <2>4. ASSUME NEW row \in LinkRow, link' = [link EXCEPT ![m] = row],
               \/ Exists(m) /\ row.code = link[m].code /\ row.count = link[m].count
               \/ row.code = r
        PROVE  PartnerOK'
    <3>1. link' \in [PartnerLinks -> LinkRow \cup {NoLink}]
      BY <2>4 DEF PartnerOK, PartnerTypeOK
    <3>2. \A l \in PartnerLinks : link'[l] # NoLink =>
            \/ Exists(l) /\ link'[l].code = link[l].code /\ link'[l].count = link[l].count
            \/ l = m /\ link'[l].code = r
      BY <2>4 DEF PartnerOK, PartnerTypeOK, Exists
    <3> QED BY <3>1, <3>2, <1>1, PartnerEnds
  <2>5. CASE RegenerateCommit(r) /\ Exists(m)
    <3>1. PICK row : row = [link[m] EXCEPT !.code = r,
                                           !.count = IF was.count = 0 THEN @ ELSE 0]
      OBVIOUS
    <3>2. link[m] \in LinkRow
      BY <2>5 DEF PartnerOK, PartnerTypeOK, Exists
    <3>3. row \in LinkRow /\ row.code = r
      BY <3>1, <3>2 DEF LinkRow
    <3>4. link' = [link EXCEPT ![m] = row]
      <4>1. was = req[r].row
        BY <2>1, <2>5 DEF RegenerateCommit, Doing
      <4>2. link' = [link EXCEPT ![m] = [link[m] EXCEPT !.code = r,
                                                  !.count = IF was.count = 0 THEN @ ELSE 0]]
        BY <2>1, <2>5, <4>1 DEF RegenerateCommit
      <4> QED BY <4>2, <3>1
    <3> QED BY <3>3, <3>4, <2>4
  <2>6. ASSUME NEW active \in BOOLEAN, NEW expired \in BOOLEAN, NEW max \in MaxViews \cup {None},
               UpdateLinkCommit(r, active, expired, max), Exists(m)
        PROVE  PartnerOK'
    <3>1. PICK row : row = [link[m] EXCEPT !.active = IF active = was.active THEN @ ELSE active,
                                           !.expired = IF expired = was.expired THEN @ ELSE expired,
                                           !.max = IF max = was.max THEN @ ELSE max]
      OBVIOUS
    <3>2. link[m] \in LinkRow
      BY <2>6 DEF PartnerOK, PartnerTypeOK, Exists
    <3>3. row \in LinkRow /\ row.code = link[m].code /\ row.count = link[m].count
      BY <3>1, <3>2 DEF LinkRow
    <3>4. link' = [link EXCEPT ![m] = row]
      <4>1. was = req[r].row
        BY <2>1, <2>6 DEF UpdateLinkCommit, Doing
      <4>2. link' = [link EXCEPT ![m] = [link[m] EXCEPT
                       !.active = IF active = was.active THEN @ ELSE active,
                       !.expired = IF expired = was.expired THEN @ ELSE expired,
                       !.max = IF max = was.max THEN @ ELSE max]]
        BY <2>1, <2>6, <4>1 DEF UpdateLinkCommit
      <4> QED BY <4>2, <3>1
    <3> QED BY <3>3, <3>4, <2>4, <2>6
  <2>7. CASE DeleteLinkCommit(r)
    BY <2>1, <2>3, <2>7 DEF DeleteLinkCommit
  <2>8. ASSUME RegenerateCommit(r), ~Exists(m) PROVE PartnerOK'
    BY <2>1, <2>2, <2>8 DEF RegenerateCommit
  <2>9. ASSUME NEW active \in BOOLEAN, NEW expired \in BOOLEAN, NEW max \in MaxViews \cup {None},
               UpdateLinkCommit(r, active, expired, max), ~Exists(m)
        PROVE  PartnerOK'
    BY <2>1, <2>2, <2>9 DEF UpdateLinkCommit
  <2> QED BY <1>3, <2>5, <2>6, <2>7, <2>8, <2>9
<1> QED BY <1>2, <1>3

\* An open that is alone has seen every other alone open with its code, and has
\* read a count that covers them; if the code has been renewed meanwhile, the
\* new one has served nobody alone.
LEMMA Accesses ==
  ASSUME PartnerOK, NEW r \in Requests, AccessCommit(r)
  PROVE  PartnerOK'
<1>1. PICK m \in PartnerLinks, k \in Requests, n \in Nat :
        /\ Doing(r, "access") /\ End(r)
        /\ m = req[r].link /\ k = req[r].code /\ n = req[r].count
  <2>1. req[r] \in PartnerRequest /\ Doing(r, "access") /\ End(r)
    BY DEF AccessCommit, End, PartnerOK, PartnerTypeOK
  <2> QED BY <2>1 DEF PartnerRequest, Doing
<1>2. /\ RequestStep /\ RequestOK' /\ r \notin ended /\ req'[r] = Idle /\ saw' = saw
      /\ ended' = ended \cup {r} /\ \A q \in Requests \ {r} : req'[q] = req[q]
  BY <1>1, EndStep DEF PartnerOK, RequestStep
<1>3. CASE ~Exists(m)
  <2>1. UNCHANGED <<link, served>>
    BY <1>1, <1>3 DEF AccessCommit
  <2> QED BY <2>1, <1>1, PartnerEnds DEF PartnerOK, PartnerTypeOK, Exists
<1>4. CASE Exists(m)
  <2>1. link' = [link EXCEPT ![m].count = n + 1] /\ served' = [served EXCEPT ![r] = k]
    BY <1>1, <1>4 DEF AccessCommit
  <2>2. link[m] \in LinkRow
    BY <1>4 DEF PartnerOK, PartnerTypeOK, Exists
  <2>3. /\ link'[m] = [link[m] EXCEPT !.count = n + 1] /\ link'[m] \in LinkRow
        /\ link'[m].code = link[m].code /\ link'[m].count = n + 1
        /\ \A l \in PartnerLinks \ {m} : link'[l] = link[l]
    <3>1. link'[m] = [link[m] EXCEPT !.count = n + 1]
          /\ \A l \in PartnerLinks \ {m} : link'[l] = link[l]
      BY <2>1 DEF PartnerOK, PartnerTypeOK
    <3>2. n + 1 \in Nat
      OBVIOUS
    <3> QED BY <3>1, <3>2, <2>2 DEF LinkRow
  <2>4. /\ served'[r] = k /\ served[r] = None
        /\ \A s \in Requests \ {r} : served'[s] = served[s]
    BY <2>1, <1>2 DEF PartnerOK, PartnerTypeOK
  <2>5. PartnerTypeOK'
    <3>1. link' \in [PartnerLinks -> LinkRow \cup {NoLink}]
      BY <2>1, <2>3 DEF PartnerOK, PartnerTypeOK
    <3>2. served' \in [Requests -> Requests \cup {None}]
      BY <2>1 DEF PartnerOK, PartnerTypeOK
    <3>3. req' \in [Requests -> PartnerRequest \cup {Idle}]
      BY <1>1 DEF End, PartnerOK, PartnerTypeOK
    <3> QED BY <3>1, <3>2, <3>3 DEF PartnerTypeOK
  <2>6. IsFiniteSet(ended')
    BY <1>2, FS_AddElement DEF PartnerOK
  <2>7. k \in saw[r] /\ k \in ended /\ saw[r] \subseteq ended
    BY <1>1 DEF PartnerOK, RequestOK
  <2>8. \A s \in Requests : served'[s] # None => s \in ended' /\ served'[s] \in saw'[s]
    BY <1>2, <2>4, <2>7 DEF PartnerOK
  <2>9. \A l \in PartnerLinks : link'[l].code = link[l].code /\ (Exists(l)' <=> Exists(l))
    <3>1. link'[m] # NoLink
      BY <2>3 DEF LinkRow, NoLink
    <3> QED BY <3>1, <2>3, <1>4 DEF Exists
  \* Who is alone, and not r, was so before and has been seen by r.
  <2>10. ASSUME NEW b, NEW s \in AloneServed(b)', b # None, s # r
         PROVE  s \in AloneServed(b) /\ s \in saw[r]
    <3>1. s \in Requests /\ served[s] = b /\ ~\E q \in Requests : Overlap(q, s)'
      BY <2>4, <2>10 DEF AloneServed, Overlap
    <3>2. \A q : Overlap(q, s) => q \in Requests /\ Overlap(q, s)'
      BY <3>1, <1>2, OverlapStays DEF Overlap
    <3>3. s \in AloneServed(b)
      BY <3>1, <3>2 DEF AloneServed
    <3>4. s \in ended
      BY <3>1, <2>10 DEF PartnerOK
    <3>5. s \in saw[r]
      BY <3>1, <3>4, <1>1, EndingOverlaps DEF PartnerOK
    <3> QED BY <3>3, <3>5
  <2>11. IsFiniteSet(ended) /\ IsFiniteSet(saw[r]) /\ IsFiniteSet(AloneServed(k) \cap saw[r])
    <3>1. IsFiniteSet(ended)
      BY DEF PartnerOK
    <3>2. saw[r] \in SUBSET ended /\ AloneServed(k) \cap saw[r] \in SUBSET ended
      BY <2>7
    <3> QED BY <3>1, <3>2, FS_Subset
  <2>12. ASSUME NEW q \in Requests, Doing(q, "access")'
         PROVE  /\ req'[q].code \in saw'[q]
                /\ \A l \in PartnerLinks : link'[l].code = req'[q].code => l = req'[q].link
                /\ \A s \in saw'[q] : served'[s] # None /\ served'[s] = link'[req'[q].link].code =>
                     served'[s] = req'[q].code
                /\ Cardinality(AloneServed(req[q].code)' \cap saw'[q]) <= req'[q].count
    <3>1. q # r /\ req'[q] = req[q] /\ saw'[q] = saw[q] /\ Doing(q, "access")
      BY <2>12, <1>2 DEF Doing, Idle
    <3>2. PICK b, c : b = req[q].code /\ c = req[q].count
      OBVIOUS
    <3>3. c \in Nat /\ b \in saw[q] /\ saw[q] \in SUBSET ended /\ r \notin saw[q] /\ b # None
      <4>1. c \in Nat
        BY <3>1, <3>2 DEF PartnerOK, PartnerTypeOK, PartnerRequest, Doing, Idle
      <4>2. b \in saw[q]
        BY <3>1, <3>2 DEF PartnerOK
      <4>3. saw[q] \in SUBSET ended /\ r \notin saw[q] /\ None \notin ended
        BY <1>2, NoneAssumption DEF PartnerOK, RequestOK
      <4> QED BY <4>1, <4>2, <4>3
    <3>4. AloneServed(b)' \cap saw[q] \in SUBSET (AloneServed(b) \cap saw[q])
      BY <3>3, <2>10
    <3>5. IsFiniteSet(AloneServed(b) \cap saw[q])
      <4>1. AloneServed(b) \cap saw[q] \in SUBSET ended
        BY <3>3
      <4> QED BY <4>1, <2>11, FS_Subset
    <3>6. Cardinality(AloneServed(b) \cap saw[q]) <= c
      BY <3>1, <3>2 DEF PartnerOK
    <3>7. Cardinality(AloneServed(b)' \cap saw[q]) <= c
      BY <3>3, <3>4, <3>5, <3>6, FewerOf
    <3>8. \A l \in PartnerLinks : link[l].code = b => l = req[q].link
      BY <3>1, <3>2 DEF PartnerOK
    <3>9. ASSUME NEW s \in saw[q], served'[s] # None, served'[s] = link'[req[q].link].code
          PROVE  served'[s] = req[q].code
      <4>1. req[q].link \in PartnerLinks
        BY <3>1, AccessSees
      <4>2. s \in Requests /\ s # r /\ served'[s] = served[s]
        BY <3>3, <3>9, <2>4 DEF PartnerOK, RequestOK
      <4>3. served[s] = link[req[q].link].code /\ served[s] # None
        BY <4>1, <4>2, <3>9, <2>9
      <4> QED BY <4>2, <4>3, <3>1, AccessSees
    <3> QED BY <3>1, <3>2, <3>3, <3>7, <3>8, <3>9, <2>9 DEF AloneServed
  <2>13. AloneOpensAreCounted'
    <3> SUFFICES ASSUME NEW l \in PartnerLinks, Exists(l)'
        PROVE  Cardinality(AloneServed(link[l].code)') <= link'[l].count
      BY DEF AloneOpensAreCounted
    <3>1. PICK b : b = link[l].code /\ b = link'[l].code /\ Exists(l) /\ b \in ended
      BY <2>9 DEF PartnerOK
    <3>2. b # None
      BY <3>1, NoneAssumption DEF PartnerOK, RequestOK
    <3>3. CASE l = m /\ b = k
      <4>1. AloneServed(b)' \in SUBSET ((AloneServed(k) \cap saw[r]) \cup {r})
        BY <3>2, <3>3, <2>10
      <4>2. Cardinality(AloneServed(k) \cap saw[r]) <= n
            /\ Cardinality(AloneServed(k) \cap saw[r]) \in Nat
        BY <1>1, <2>11, FS_CardinalityType DEF PartnerOK
      <4>3. /\ IsFiniteSet((AloneServed(k) \cap saw[r]) \cup {r})
            /\ Cardinality((AloneServed(k) \cap saw[r]) \cup {r}) <= n + 1
        <5>1. PICK S : S = AloneServed(k) \cap saw[r]
          OBVIOUS
        <5>2. IsFiniteSet(S \cup {r}) /\ Cardinality(S \cup {r}) \in {Cardinality(S), Cardinality(S) + 1}
          BY <5>1, <2>11, FS_AddElement
        <5> QED BY <5>1, <5>2, <4>2
      <4>4. Cardinality(AloneServed(b)') <= n + 1
        BY <4>1, <4>3, FewerOf
      <4> QED BY <4>4, <3>1, <3>3, <2>3 DEF AloneServed
    <3>4. CASE l = m /\ b # k
      <4>1. ASSUME NEW s \in AloneServed(b)' PROVE FALSE
        <5>1. s # r
          BY <4>1, <3>4, <2>4 DEF AloneServed
        <5>2. s \in AloneServed(b) /\ s \in saw[r] /\ s \in Requests
          BY <4>1, <5>1, <3>2, <2>10, <2>7 DEF AloneServed
        <5>3. served[s] = b
          BY <5>2 DEF AloneServed
        <5>4. served[s] # None /\ served[s] = link[req[r].link].code
          BY <5>3, <3>1, <3>2, <3>4, <1>1
        <5>5. served[s] = k
          BY <5>2, <5>4, <1>1 DEF PartnerOK
        <5> QED BY <5>3, <5>5, <3>4
      <4>2. AloneServed(b)' = {}
        BY <4>1
      <4>3. Cardinality(AloneServed(b)') = 0
        BY <4>2, FS_EmptySet
      <4> QED BY <4>3, <3>1, <3>4, <2>3 DEF AloneServed
    <3>5. CASE l # m
      <4>1. k # b
        <5>1. \A x \in PartnerLinks : link[x].code = req[r].code => x = req[r].link
          BY <1>1, AccessSees
        <5> QED BY <5>1, <1>1, <3>1, <3>5
      <4>2. AloneServed(b)' \in SUBSET AloneServed(b)
        BY <4>1, <3>2, <2>4, <2>10 DEF AloneServed
      <4>3. IsFiniteSet(AloneServed(b)) /\ Cardinality(AloneServed(b)) <= link[l].count
        BY <3>1, <3>2, AloneOnes, FS_Subset DEF PartnerOK, AloneOpensAreCounted
      <4>4. link'[l] = link[l] /\ link[l].count \in Nat
        BY <3>1, <3>5, <2>3 DEF PartnerOK, PartnerTypeOK, Exists, LinkRow
      <4>5. Cardinality(AloneServed(b)') <= link[l].count
        BY <4>2, <4>3, <4>4, FewerOf
      <4> QED BY <4>4, <4>5, <3>1 DEF AloneServed
    <3> QED BY <3>3, <3>4, <3>5
  <2>14. \A l, b \in PartnerLinks : Exists(l)' /\ link'[l].code = link'[b].code => l = b
    BY <2>9 DEF PartnerOK
  <2>15. \A l \in PartnerLinks : Exists(l)' => link'[l].code \in ended'
    BY <2>9, <1>2 DEF PartnerOK
  <2> QED BY <1>2, <2>5, <2>6, <2>8, <2>12, <2>13, <2>14, <2>15 DEF PartnerOK
<1> QED BY <1>3, <1>4

LEMMA LinkExpiry ==
  ASSUME PartnerOK, NEW m \in PartnerLinks, ExpireLink(m)
  PROVE  PartnerOK'
<1>1. /\ RequestStep /\ req' = req /\ saw' = saw /\ ended' = ended /\ served' = served
      /\ UNCHANGED requestVars
  BY QuietStep DEF ExpireLink, PartnerOK
<1>2. None \notin ended
  BY NoneAssumption DEF PartnerOK, RequestOK
<1>3. link[m] \in LinkRow
  BY DEF ExpireLink, Exists, PartnerOK, PartnerTypeOK
<1>4. PICK row \in LinkRow : /\ row.code = link[m].code /\ row.count = link[m].count
                             /\ link' = [link EXCEPT ![m] = row]
  <2>1. PICK row : row = [link[m] EXCEPT !.expired = TRUE]
    OBVIOUS
  <2>2. row \in LinkRow /\ row.code = link[m].code /\ row.count = link[m].count
    BY <2>1, <1>3 DEF LinkRow
  <2>3. link' = [link EXCEPT ![m] = row]
    BY <2>1 DEF ExpireLink, PartnerOK, PartnerTypeOK
  <2> QED BY <2>2, <2>3
<1>5. PartnerTypeOK' /\ IsFiniteSet(ended')
  BY <1>1, <1>4 DEF PartnerOK, PartnerTypeOK
<1>6. \A l \in PartnerLinks : Exists(l)' =>
        Exists(l) /\ link'[l].code = link[l].code /\ link'[l].count = link[l].count
  BY <1>4 DEF ExpireLink, Exists, PartnerOK, PartnerTypeOK
<1>7. \A q \in Requests : Doing(q, "access")' =>
        Doing(q, "access") /\ req'[q] = req[q] /\ saw'[q] = saw[q]
  BY <1>1 DEF Doing
<1> QED BY <1>1, <1>2, <1>5, <1>6, <1>7, PartnersGoOn

LEMMA PartnerSteps ==
  ASSUME PartnerOK, [PartnerNext]_partnerVars
  PROVE  PartnerOK'
<1>1. CASE UNCHANGED partnerVars
  <2>1. /\ RequestOK' /\ PartnerTypeOK' /\ IsFiniteSet(ended')
        /\ req' = req /\ saw' = saw /\ ended' = ended /\ link' = link /\ served' = served
    BY <1>1, QuietStep DEF PartnerOK, PartnerTypeOK, RequestStep, partnerVars, requestVars
  <2> QED BY <2>1 DEF PartnerOK, AloneOpensAreCounted, AloneServed, Overlap, Begun, Exists, Doing
<1>2. ASSUME NEW l \in PartnerLinks, ExpireLink(l) PROVE PartnerOK'
  BY <1>2, LinkExpiry
<1>3. ASSUME NEW r \in Requests,
             \/ \E l \in PartnerLinks :
                  \/ \E max \in MaxViews \cup {None} : CreateLink(r, l, max)
                  \/ AccessRead(r, l) \/ UpdateLinkRead(r, l) \/ RegenerateRead(r, l)
                  \/ DeleteLinkRead(r, l)
             \/ \E active, expired \in BOOLEAN, max \in MaxViews \cup {None} :
                  UpdateLinkCommit(r, active, expired, max)
             \/ AccessCommit(r) \/ RegenerateCommit(r) \/ DeleteLinkCommit(r)
             \/ PartnerAbort(r)
      PROVE  PartnerOK'
  BY <1>3, NewLinks, PartnerReads, LinkChanges, Accesses
<1> QED BY <1>1, <1>2, <1>3 DEF PartnerNext

LEMMA PartnersStayOK == PartnerSpec => []PartnerOK
<1>1. PartnerInit => PartnerOK
  BY PartnersBegin
<1>2. PartnerOK /\ [PartnerNext]_partnerVars => PartnerOK'
  BY PartnerSteps
<1> QED BY <1>1, <1>2, PTL DEF PartnerSpec

\* Links, requests and served codes keep their types.
THEOREM PartnersAreTyped == PartnerSpec => []PartnerTypeOK
<1>1. PartnerOK => PartnerTypeOK
  BY DEF PartnerOK
<1> QED BY <1>1, PartnersStayOK, PTL

\* AloneOpensAreCounted for any links, caps and requests: the counter covers
\* every open with the present code that overlapped no other request
\* (partners/public_router.py: access_presentation).
THEOREM AloneOpens == PartnerSpec => []AloneOpensAreCounted
<1>1. PartnerOK => AloneOpensAreCounted
  BY DEF PartnerOK
<1> QED BY <1>1, PartnersStayOK, PTL

-----------------------------------------------------------------------------
(* Interviews.                                                             *)

\* What an update read and is no longer so was written by a request that it
\* has not seen; one that leaves a live interview without a link takes it.
MeetingOK(r) ==
  LET q == req[r]
      i == q.interview
  IN /\ i \in ended
     /\ Scheduled(i) /\ interview[i].url # q.was.url => urlBy[i] \in ended \ saw[r]
     /\ Scheduled(i) /\ interview[i].status # q.was.status => stateBy[i] \in ended \ saw[r]
     /\ q.to.status # "cancelled" /\ q.to.url # "link" =>
          r \in nulled /\ q.to.url # q.was.url

InterviewOK ==
  /\ RequestOK
  /\ InterviewTypeOK
  /\ \A i \in Requests : Scheduled(i) => i \in ended
  /\ \A i \in Requests : urlBy[i] \in ended \cup {None} /\ stateBy[i] \in ended \cup {None}
  /\ \A r \in Requests : Doing(r, "interview") => MeetingOK(r)
  /\ MeetingsHaveLinks

LEMMA InterviewsBegin == InterviewInit => InterviewOK
BY RequestsBegin DEF InterviewInit, RequestInit, InterviewOK, InterviewTypeOK, Doing, Idle,
   Scheduled, MeetingsHaveLinks

LEMMA InterviewTyped ==
  ASSUME InterviewTypeOK, NEW r \in Requests
  PROVE  /\ Doing(r, "interview") =>
              req[r].interview \in Requests /\ req[r].was \in InterviewRow
              /\ req[r].to \in InterviewRow
         /\ Doing(r, "delete_interview") => req[r].interview \in Requests
BY DEF InterviewTypeOK, InterviewRequest, Doing, Idle

LEMMA InterviewRows ==
  ASSUME InterviewTypeOK, NEW i \in Requests, Scheduled(i)
  PROVE  interview[i] \in InterviewRow
BY DEF InterviewTypeOK, Scheduled

\* Steps that leave the interviews alone.
LEMMA InterviewsStay ==
  ASSUME InterviewOK, RequestStep, UNCHANGED <<interview, urlBy, stateBy>>,
         nulled \subseteq nulled', InterviewTypeOK',
         \A r \in Requests : Doing(r, "interview")' =>
           MeetingOK(r)' \/ (req'[r] = req[r] /\ saw'[r] = saw[r])
  PROVE  InterviewOK'
<1>1. \A r \in Requests : Doing(r, "interview")' => MeetingOK(r)'
  BY DEF InterviewOK, MeetingOK, Doing, RequestStep, Scheduled
<1>2. MeetingsHaveLinks'
  <2> SUFFICES ASSUME NEW i \in Requests, Scheduled(i)', interview[i].status # "cancelled",
                      interview[i].url # "link", urlBy[i] \notin nulled
      PROVE  Overlap(urlBy[i], stateBy[i])'
    BY DEF MeetingsHaveLinks
  <2>1. Overlap(urlBy[i], stateBy[i])
    BY DEF InterviewOK, MeetingsHaveLinks, Scheduled
  <2>2. urlBy[i] \in Requests /\ stateBy[i] \in Requests
    BY <2>1 DEF Overlap
  <2>3. urlBy' = urlBy /\ stateBy' = stateBy
    OBVIOUS
  <2> QED BY <2>1, <2>2, <2>3, OverlapStays
<1>3. \A i \in Requests : Scheduled(i)' => i \in ended'
  BY DEF InterviewOK, RequestStep, Scheduled
<1> QED BY <1>1, <1>2, <1>3 DEF InterviewOK, RequestStep

LEMMA InterviewDeletionsBegin ==
  ASSUME InterviewOK, NEW r \in Requests, NEW i \in Requests, DeleteInterviewRead(r, i)
  PROVE  InterviewOK'
<1> DEFINE record == [kind |-> "delete_interview", interview |-> i]
<1>1. Begin(r, record) /\ UNCHANGED <<interview, urlBy, stateBy, nulled>>
  BY DEF DeleteInterviewRead
<1>2. record \in InterviewRequest /\ record # Idle /\ record.kind = "delete_interview"
  BY DEF InterviewRequest, Idle
<1> HIDE DEF record
<1>3. InterviewTypeOK'
  BY <1>1, <1>2 DEF InterviewOK, InterviewTypeOK, Begin
<1>4. RequestStep /\ req'[r] = record /\ \A q \in Requests \ {r} : req'[q] = req[q] /\ saw'[q] = saw[q]
  BY <1>1, <1>2, BeginStep DEF InterviewOK
<1> QED BY <1>1, <1>2, <1>3, <1>4, InterviewsStay DEF Doing

LEMMA UpdatedRows ==
  ASSUME InterviewOK, NEW i \in Requests, NEW url \in MeetingUrls \cup {"unset"},
         NEW state \in InterviewStatuses \cup {"unset"}, Scheduled(i)
  PROVE  /\ InterviewRequestOf(i, url, state) \in InterviewRequest
         /\ InterviewRequestOf(i, url, state) # Idle
<1>1. interview[i] \in InterviewRow
  BY InterviewRows DEF InterviewOK
<1>2. Set(url, interview[i].url) \in MeetingUrls /\ Set(state, interview[i].status) \in InterviewStatuses
  BY <1>1 DEF Set, InterviewRow
<1> QED BY <1>1, <1>2 DEF InterviewRequestOf, InterviewRequest, InterviewRow, Idle

LEMMA InterviewReads ==
  ASSUME InterviewOK, NEW r \in Requests, NEW i \in Requests,
         NEW url \in MeetingUrls \cup {"unset"}, NEW state \in InterviewStatuses \cup {"unset"},
         UpdateInterviewRead(r, i, url, state)
  PROVE  InterviewOK'
<1> DEFINE record == InterviewRequestOf(i, url, state)
           toUrl == Set(url, interview[i].url)
           toState == Set(state, interview[i].status)
<1>1. /\ Begin(r, record) /\ UNCHANGED <<interview, urlBy, stateBy>> /\ Scheduled(i)
      /\ MayMeet(IF url = None THEN interview[i].url ELSE toUrl, toState)
      /\ nulled' = IF url = None /\ TakesLink(req'[r]) THEN nulled \cup {r} ELSE nulled
  BY DEF UpdateInterviewRead
<1>2. record \in InterviewRequest /\ record # Idle
  BY <1>1, UpdatedRows
<1>3. /\ record.kind = "interview" /\ record.interview = i /\ record.was = interview[i]
      /\ record.to = [url |-> toUrl, status |-> toState]
  BY DEF InterviewRequestOf
<1>4. interview[i] \in InterviewRow
  BY <1>1, InterviewRows DEF InterviewOK
<1> HIDE DEF record
<1>5. RequestStep /\ req'[r] = record /\ ended' = ended
      /\ \A q \in Requests \ {r} : req'[q] = req[q] /\ saw'[q] = saw[q]
  BY <1>1, <1>2, BeginStep DEF InterviewOK
<1>6. InterviewTypeOK'
  BY <1>1, <1>2 DEF InterviewOK, InterviewTypeOK, Begin
<1>7. toState # "cancelled" /\ toUrl # "link" => r \in nulled' /\ toUrl # interview[i].url
  <2> SUFFICES ASSUME toState # "cancelled", toUrl # "link"
      PROVE  r \in nulled' /\ toUrl # interview[i].url
    OBVIOUS
  <2>1. url = None
    BY <1>1 DEF MayMeet
  <2>2. interview[i].url = "link"
    BY <1>1, <2>1 DEF MayMeet
  <2>3. toUrl \in {url, interview[i].url}
    BY DEF Set
  <2>4. toUrl = None
    BY <2>1, <2>2, <2>3
  <2>5. TakesLink(req'[r])
    BY <1>3, <1>5, <2>4 DEF TakesLink
  <2> QED BY <1>1, <2>1, <2>2, <2>5
<1>8. MeetingOK(r)'
  BY <1>1, <1>3, <1>5, <1>7 DEF MeetingOK, InterviewOK
<1>9. nulled \subseteq nulled'
  BY <1>1
<1> QED BY <1>1, <1>5, <1>6, <1>8, <1>9, InterviewsStay DEF Doing

LEMMA InterviewCreations ==
  ASSUME InterviewOK, NEW r \in Requests, NEW row \in InterviewRow, CreateInterview(r, row)
  PROVE  InterviewOK'
<1>1. /\ Once(r) /\ nulled' = nulled /\ MayMeet(row.url, row.status)
      /\ interview' = [interview EXCEPT ![r] = row]
      /\ urlBy' = [urlBy EXCEPT ![r] = r] /\ stateBy' = [stateBy EXCEPT ![r] = r]
  BY DEF CreateInterview
<1>2. /\ RequestStep /\ r \notin ended /\ req[r] = Idle /\ req' = req /\ ended' = ended \cup {r}
      /\ \A q \in Requests \ {r} : saw'[q] = saw[q]
  BY <1>1, OnceStep DEF InterviewOK
<1>3. InterviewTypeOK'
  BY <1>1, <1>2 DEF InterviewOK, InterviewTypeOK
<1>4. /\ interview'[r] = row /\ urlBy'[r] = r /\ stateBy'[r] = r
      /\ \A i \in Requests \ {r} : /\ interview'[i] = interview[i]
                                   /\ urlBy'[i] = urlBy[i] /\ stateBy'[i] = stateBy[i]
  BY <1>1 DEF InterviewOK, InterviewTypeOK
<1>5. ASSUME NEW q \in Requests, Doing(q, "interview")' PROVE MeetingOK(q)'
  <2>1. Doing(q, "interview") /\ MeetingOK(q) /\ q # r /\ saw'[q] = saw[q]
    BY <1>2, <1>5 DEF Doing, Idle, InterviewOK
  <2>2. req[q].interview \in Requests \ {r}
    BY <1>2, <2>1, InterviewTyped DEF InterviewOK, MeetingOK
  <2> QED BY <1>1, <1>2, <1>4, <2>1, <2>2 DEF MeetingOK, Scheduled
<1>6. MeetingsHaveLinks'
  <2> SUFFICES ASSUME NEW i \in Requests, Scheduled(i)', interview'[i].status # "cancelled",
                      interview'[i].url # "link", urlBy'[i] \notin nulled'
      PROVE  Overlap(urlBy[i], stateBy[i])'
    BY DEF MeetingsHaveLinks
  <2>1. i # r
    BY <1>1, <1>4 DEF MayMeet
  <2>2. Overlap(urlBy[i], stateBy[i]) /\ urlBy'[i] = urlBy[i] /\ stateBy'[i] = stateBy[i]
    BY <1>1, <1>4, <2>1 DEF InterviewOK, MeetingsHaveLinks, Scheduled
  <2>3. urlBy[i] \in Requests /\ stateBy[i] \in Requests
    BY <2>2 DEF Overlap
  <2> QED BY <1>2, <2>2, <2>3, OverlapStays
<1>7. \A i \in Requests : Scheduled(i)' => i \in ended'
  BY <1>2, <1>4 DEF Scheduled, InterviewOK
<1>8. \A i \in Requests : urlBy'[i] \in ended' \cup {None} /\ stateBy'[i] \in ended' \cup {None}
  BY <1>2, <1>4 DEF InterviewOK
<1> QED BY <1>2, <1>3, <1>5, <1>6, <1>7, <1>8 DEF InterviewOK, RequestStep

LEMMA InterviewDeletions ==
  ASSUME InterviewOK, NEW r \in Requests, DeleteInterviewCommit(r)
  PROVE  InterviewOK'
<1> DEFINE d == req[r].interview
<1>1. /\ End(r) /\ UNCHANGED <<urlBy, stateBy, nulled>> /\ Doing(r, "delete_interview")
      /\ interview' = [interview EXCEPT ![d] = NoInterview]
  BY DEF DeleteInterviewCommit
<1>2. d \in Requests
  BY <1>1, InterviewTyped DEF InterviewOK
<1>3. RequestStep /\ ended' = ended \cup {r} /\ saw' = saw
      /\ req'[r] = Idle /\ \A q \in Requests \ {r} : req'[q] = req[q]
  BY <1>1, EndStep DEF InterviewOK
<1>4. InterviewTypeOK'
  BY <1>1 DEF End, InterviewOK, InterviewTypeOK
<1>5. interview'[d] = NoInterview /\ \A i \in Requests \ {d} : interview'[i] = interview[i]
  BY <1>1, <1>2 DEF InterviewOK, InterviewTypeOK
<1>6. \A i \in Requests : Scheduled(i)' => Scheduled(i) /\ interview'[i] = interview[i]
  BY <1>5 DEF Scheduled
<1>7. ASSUME NEW q \in Requests, Doing(q, "interview")' PROVE MeetingOK(q)'
  <2>1. Doing(q, "interview") /\ MeetingOK(q) /\ req'[q] = req[q]
    BY <1>3, <1>7 DEF Doing, Idle, InterviewOK
  <2>2. req[q].interview \in Requests
    BY <2>1, InterviewTyped DEF InterviewOK
  <2> QED BY <1>1, <1>3, <1>6, <2>1, <2>2 DEF MeetingOK
<1>8. MeetingsHaveLinks'
  <2> SUFFICES ASSUME NEW i \in Requests, Scheduled(i)', interview'[i].status # "cancelled",
                      interview'[i].url # "link", urlBy[i] \notin nulled
      PROVE  Overlap(urlBy[i], stateBy[i])'
    BY <1>1 DEF MeetingsHaveLinks
  <2>1. Overlap(urlBy[i], stateBy[i])
    BY <1>6 DEF InterviewOK, MeetingsHaveLinks
  <2>2. urlBy[i] \in Requests /\ stateBy[i] \in Requests
    BY <2>1 DEF Overlap
  <2>3. urlBy' = urlBy /\ stateBy' = stateBy
    BY <1>1
  <2> QED BY <1>3, <2>1, <2>2, <2>3, OverlapStays
<1>9. \A i \in Requests : Scheduled(i)' => i \in ended'
  BY <1>3, <1>6 DEF InterviewOK
<1>10. \A i \in Requests : urlBy'[i] \in ended' \cup {None} /\ stateBy'[i] \in ended' \cup {None}
  BY <1>1, <1>3 DEF InterviewOK
<1> QED BY <1>3, <1>4, <1>7, <1>8, <1>9, <1>10 DEF InterviewOK, RequestStep

LEMMA InterviewAborts ==
  ASSUME InterviewOK, NEW r \in Requests, End(r), UNCHANGED <<interview, urlBy, stateBy, nulled>>
  PROVE  InterviewOK'
<1>1. RequestStep /\ saw' = saw
      /\ req'[r] = Idle /\ \A q \in Requests \ {r} : req'[q] = req[q]
  BY EndStep DEF InterviewOK
<1>2. InterviewTypeOK'
  BY DEF End, InterviewOK, InterviewTypeOK
<1> QED BY <1>1, <1>2, InterviewsStay DEF Doing, Idle

LEMMA InterviewWrites ==
  ASSUME InterviewOK, NEW r \in Requests, UpdateInterviewCommit(r)
  PROVE  InterviewOK'
<1> DEFINE u == req[r].interview
           was == req[r].was
           to == req[r].to
<1>1. End(r) /\ nulled' = nulled /\ Doing(r, "interview") /\ MeetingOK(r)
  BY DEF UpdateInterviewCommit, InterviewOK
<1>2. u \in Requests /\ was \in InterviewRow /\ to \in InterviewRow
  BY <1>1, InterviewTyped DEF InterviewOK
<1>3. RequestStep /\ ended' = ended \cup {r} /\ r \notin ended /\ saw' = saw
      /\ req'[r] = Idle /\ \A q \in Requests \ {r} : req'[q] = req[q]
  BY <1>1, EndStep DEF InterviewOK
<1>4. CASE ~Scheduled(u)
  <2>1. UNCHANGED <<interview, urlBy, stateBy>>
    BY <1>4 DEF UpdateInterviewCommit
  <2> QED BY <1>1, <2>1, InterviewAborts
<1>5. CASE Scheduled(u)
  <2>1. /\ interview' = [interview EXCEPT ![u] =
             [url |-> IF to.url = was.url THEN interview[u].url ELSE to.url,
              status |-> IF to.status = was.status THEN interview[u].status ELSE to.status]]
        /\ urlBy' = IF to.url = was.url THEN urlBy ELSE [urlBy EXCEPT ![u] = r]
        /\ stateBy' = IF to.status = was.status THEN stateBy ELSE [stateBy EXCEPT ![u] = r]
    BY <1>5 DEF UpdateInterviewCommit
  <2>2. /\ interview'[u].url = IF to.url = was.url THEN interview[u].url ELSE to.url
        /\ interview'[u].status = IF to.status = was.status THEN interview[u].status ELSE to.status
        /\ \A i \in Requests \ {u} : interview'[i] = interview[i]
        /\ interview'[u] = [url |-> interview'[u].url, status |-> interview'[u].status]
    BY <2>1, <1>2 DEF InterviewOK, InterviewTypeOK
  <2>3. interview[u] \in InterviewRow
    BY <1>5, <1>2, InterviewRows DEF InterviewOK
  <2>4. interview'[u] \in InterviewRow
    BY <1>2, <2>2, <2>3 DEF InterviewRow
  <2>5. interview' \in [Requests -> InterviewRow \cup {NoInterview}]
    BY <2>1, <2>2, <2>4 DEF InterviewOK, InterviewTypeOK
  <2>6. /\ urlBy' \in [Requests -> Requests \cup {None}]
        /\ stateBy' \in [Requests -> Requests \cup {None}]
        /\ \A v \in Requests : /\ urlBy'[v] = urlBy[v] \/ urlBy'[v] = r
                               /\ stateBy'[v] = stateBy[v] \/ stateBy'[v] = r
    BY <2>1, <1>2 DEF InterviewOK, InterviewTypeOK
  <2>7. InterviewTypeOK'
    <3>1. req' \in [Requests -> InterviewRequest \cup {Idle}]
      BY <1>1 DEF End, InterviewOK, InterviewTypeOK
    <3> QED BY <1>1, <2>5, <2>6, <3>1 DEF InterviewOK, InterviewTypeOK
  <2>8. /\ urlBy'[u] = IF to.url = was.url THEN urlBy[u] ELSE r
        /\ stateBy'[u] = IF to.status = was.status THEN stateBy[u] ELSE r
        /\ \A i \in Requests \ {u} : urlBy'[i] = urlBy[i] /\ stateBy'[i] = stateBy[i]
    BY <2>1, <1>2 DEF InterviewOK, InterviewTypeOK
  <2>9. ASSUME NEW q \in Requests, Doing(q, "interview")' PROVE MeetingOK(q)'
    <3>1. q # r /\ Doing(q, "interview") /\ req'[q] = req[q] /\ MeetingOK(q) /\ r \notin saw[q]
      BY <2>9, <1>3 DEF Doing, Idle, InterviewOK, RequestOK
    <3>2. req[q].interview \in Requests
      BY <3>1, InterviewTyped DEF InterviewOK
    <3>3. CASE req[q].interview = u
      BY <3>1, <3>3, <1>1, <1>3, <1>5, <2>2, <2>8 DEF MeetingOK, Scheduled
    <3>4. CASE req[q].interview # u
      BY <3>1, <3>2, <3>4, <1>1, <1>3, <2>2, <2>8 DEF MeetingOK, Scheduled
    <3> QED BY <3>3, <3>4
  <2>10. MeetingsHaveLinks'
    <3> SUFFICES ASSUME NEW i \in Requests, Scheduled(i)', interview'[i].status # "cancelled",
                        interview'[i].url # "link", urlBy'[i] \notin nulled'
        PROVE  Overlap(urlBy[i], stateBy[i])'
      BY DEF MeetingsHaveLinks
    <3>1. CASE urlBy'[i] = urlBy[i] /\ stateBy'[i] = stateBy[i] /\ interview'[i].url = interview[i].url
               /\ interview'[i].status = interview[i].status /\ Scheduled(i)
      <4>1. Overlap(urlBy[i], stateBy[i])
        BY <3>1, <1>1 DEF InterviewOK, MeetingsHaveLinks
      <4>2. urlBy[i] \in Requests /\ stateBy[i] \in Requests
        BY <4>1 DEF Overlap
      <4> QED BY <4>1, <4>2, <3>1, <1>3, OverlapStays
    <3>2. CASE i = u /\ to.url # was.url /\ to.status = was.status
      <4>1. urlBy'[u] = r /\ stateBy'[u] = stateBy[u] /\ r \notin nulled
            /\ interview'[u].url = to.url /\ interview'[u].status = interview[u].status
        BY <3>2, <2>2, <2>8, <1>1
      <4>2. to.status = "cancelled"
        BY <3>2, <4>1, <1>1 DEF MeetingOK
      <4>3. interview[u].status # was.status
        BY <3>2, <4>1, <4>2
      <4>4. stateBy[u] \in ended /\ stateBy[u] \notin saw[r] /\ stateBy[u] \in Requests
        BY <4>3, <1>1, <1>5 DEF MeetingOK, InterviewOK, RequestOK
      <4> QED BY <4>1, <4>4, <3>2, <1>1, EndingOverlaps DEF InterviewOK
    <3>3. CASE i = u /\ to.url = was.url /\ to.status # was.status
      <4>1. urlBy'[u] = urlBy[u] /\ stateBy'[u] = r
            /\ interview'[u].url = interview[u].url /\ interview'[u].status = to.status
        BY <3>3, <2>2, <2>8
      <4>2. to.url = "link"
        BY <3>3, <4>1, <1>1 DEF MeetingOK
      <4>3. interview[u].url # was.url
        BY <3>3, <4>1, <4>2
      <4>4. urlBy[u] \in ended /\ urlBy[u] \notin saw[r] /\ urlBy[u] \in Requests
        BY <4>3, <1>1, <1>5 DEF MeetingOK, InterviewOK, RequestOK
      <4> QED BY <4>1, <4>4, <3>3, <1>1, EndingOverlaps DEF InterviewOK
    <3>4. CASE i = u /\ to.url # was.url /\ to.status # was.status
      <4>1. urlBy'[u] = r /\ r \notin nulled
            /\ interview'[u].url = to.url /\ interview'[u].status = to.status
        BY <3>4, <2>2, <2>8, <1>1
      <4> QED BY <3>4, <4>1, <1>1 DEF MeetingOK
    <3>5. CASE i = u /\ to.url = was.url /\ to.status = was.status
      BY <3>1, <3>5, <1>5, <2>2, <2>8
    <3>6. CASE i # u
      BY <3>1, <3>6, <2>2, <2>8 DEF Scheduled
    <3> QED BY <3>2, <3>3, <3>4, <3>5, <3>6
  <2>11. \A i \in Requests : Scheduled(i)' => i \in ended'
    BY <1>3, <1>5, <2>2, <1>2 DEF Scheduled, InterviewOK
  <2>12. \A i \in Requests : urlBy'[i] \in ended' \cup {None} /\ stateBy'[i] \in ended' \cup {None}
    BY <2>6, <1>3 DEF InterviewOK
  <2> QED BY <1>3, <2>7, <2>9, <2>10, <2>11, <2>12 DEF InterviewOK, RequestStep
<1> QED BY <1>4, <1>5

LEMMA InterviewSteps == InterviewOK /\ [InterviewNext]_interviewVars => InterviewOK'
<1> SUFFICES ASSUME InterviewOK, [InterviewNext]_interviewVars PROVE InterviewOK'
  OBVIOUS
<1>1. CASE UNCHANGED interviewVars
  BY <1>1 DEF interviewVars, requestVars, InterviewOK, RequestOK, InterviewTypeOK, Doing,
     MeetingOK, Scheduled, MeetingsHaveLinks, Overlap, Begun
<1>2. CASE InterviewNext
  BY <1>2, InterviewReads, InterviewWrites, InterviewCreations, InterviewDeletionsBegin,
     InterviewDeletions, InterviewAborts DEF InterviewNext, InterviewAbort
<1> QED BY <1>1, <1>2

\* Every variable of the interviews has its type.
THEOREM InterviewsAreTyped == InterviewSpec => []InterviewTypeOK
BY InterviewsBegin, InterviewSteps, PTL DEF InterviewSpec, InterviewOK

\* An interview loses its link only to an explicit null, or to requests that
\* overlap.
THEOREM InterviewsHaveLinks == InterviewSpec => []MeetingsHaveLinks
BY InterviewsBegin, InterviewSteps, PTL DEF InterviewSpec, InterviewOK

-----------------------------------------------------------------------------
(* Submissions.                                                            *)

\* A submission has found what is like it, of what was there when it began.
ApplyOK(r) ==
  LET row == req[r].row
      found == req[r].found
  IN /\ found \subseteq saw[r]
     /\ \A q \in saw[r] : Submitted(q) /\ Alike(application[q], row) =>
          q \in found \/ r \in cutShort
     /\ \A q \in found : Submitted(q) =>
          Alike(application[q], row) \/ application[q].email = "anonymized"

SubmissionOK ==
  /\ RequestOK
  /\ SubmissionTypeOK
  /\ \A q \in Requests : Submitted(q) => q \in ended
  /\ \A r \in Requests : Doing(r, "apply") => ApplyOK(r)
  /\ DuplicatesAreLinked
  /\ LinkedWereAlike

LEMMA SubmissionsBegin == SubmissionInit => SubmissionOK
BY RequestsBegin DEF SubmissionInit, RequestInit, SubmissionOK, SubmissionTypeOK, Doing, Idle,
   Submitted, DuplicatesAreLinked, LinkedWereAlike

LEMMA SubmissionTyped ==
  ASSUME SubmissionTypeOK, NEW r \in Requests
  PROVE  /\ Doing(r, "apply") => req[r].row \in ApplicationRow /\ req[r].found \subseteq Requests
         /\ Doing(r, "anonymize") => req[r].application \in Requests
         /\ Doing(r, "delete_application") => req[r].application \in Requests
BY DEF SubmissionTypeOK, SubmissionRequest, Doing, Idle

LEMMA SubmissionRows ==
  ASSUME SubmissionTypeOK, NEW q \in Requests, Submitted(q)
  PROVE  application[q] \in ApplicationRow
BY DEF SubmissionTypeOK, Submitted

\* Steps that leave the applications and their links alone.
LEMMA SubmissionsStay ==
  ASSUME SubmissionOK, RequestStep, UNCHANGED <<application, duplicate>>,
         cutShort \subseteq cutShort', SubmissionTypeOK',
         \A r \in Requests : Doing(r, "apply")' =>
           ApplyOK(r)' \/ (req'[r] = req[r] /\ saw'[r] = saw[r])
  PROVE  SubmissionOK'
<1>1. \A r \in Requests : Doing(r, "apply")' => ApplyOK(r)'
  <2> SUFFICES ASSUME NEW r \in Requests, Doing(r, "apply")', req'[r] = req[r], saw'[r] = saw[r]
      PROVE  ApplyOK(r)'
    OBVIOUS
  <2>1. ApplyOK(r)
    BY DEF SubmissionOK, Doing
  <2> QED BY <2>1 DEF ApplyOK, Submitted
<1>2. \A q \in Requests : Submitted(q)' => q \in ended' /\ Submitted(q) /\ saw'[q] = saw[q]
  BY DEF SubmissionOK, Submitted, RequestStep, Begun
<1>3. DuplicatesAreLinked'
  BY <1>2 DEF SubmissionOK, DuplicatesAreLinked, Submitted
<1>4. LinkedWereAlike'
  BY DEF SubmissionOK, LinkedWereAlike, Submitted
<1> QED BY <1>1, <1>2, <1>3, <1>4 DEF SubmissionOK, RequestStep

LEMMA MatchesAreSubmitted ==
  ASSUME NEW row, NEW q \in Matches(row)
  PROVE  q \in Requests /\ Submitted(q) /\ Alike(application[q], row)
BY DEF Matches

LEMMA SubmissionReads ==
  ASSUME SubmissionOK, NEW r \in Requests, NEW row \in ApplicationRow,
         NEW found \in SUBSET Requests, ApplyRead(r, row, found)
  PROVE  SubmissionOK'
<1> DEFINE record == [kind |-> "apply", row |-> row, found |-> found]
<1>1. /\ Begin(r, record) /\ UNCHANGED <<open, application, duplicate>>
      /\ found \subseteq Matches(row)
      /\ cutShort' = IF found = Matches(row) THEN cutShort ELSE cutShort \cup {r}
  BY DEF ApplyRead
<1>2. /\ record \in SubmissionRequest /\ record # Idle
      /\ record.kind = "apply" /\ record.row = row /\ record.found = found
  BY DEF SubmissionRequest, Idle
<1> HIDE DEF record
<1>3. RequestStep /\ req'[r] = record /\ ended' = ended /\ saw'[r] = ended
      /\ \A q \in Requests \ {r} : req'[q] = req[q] /\ saw'[q] = saw[q]
  BY <1>1, <1>2, BeginStep DEF SubmissionOK
<1>4. SubmissionTypeOK'
  BY <1>1, <1>2 DEF SubmissionOK, SubmissionTypeOK, Begin
<1>5. found \subseteq ended
  BY <1>1, MatchesAreSubmitted DEF SubmissionOK
<1>6. \A q \in ended : Submitted(q) /\ Alike(application[q], row) => q \in found \/ r \in cutShort'
  BY <1>1 DEF Matches, SubmissionOK, RequestOK
<1>7. \A q \in found : Alike(application[q], row)
  BY <1>1, MatchesAreSubmitted
<1>8. ApplyOK(r)'
  BY <1>1, <1>2, <1>3, <1>5, <1>6, <1>7 DEF ApplyOK, Submitted
<1>9. cutShort \subseteq cutShort'
  BY <1>1
<1> QED BY <1>1, <1>3, <1>4, <1>8, <1>9, SubmissionsStay DEF Doing

LEMMA ErasuresBegin ==
  ASSUME SubmissionOK, NEW r \in Requests, NEW q \in Requests,
         NEW kind \in {"anonymize", "delete_application"}, EraseRead(r, q, kind)
  PROVE  SubmissionOK'
<1> DEFINE record == [kind |-> kind, application |-> q]
<1>1. Begin(r, record) /\ UNCHANGED <<open, application, duplicate, cutShort>>
  BY DEF EraseRead
<1>2. record \in SubmissionRequest /\ record # Idle /\ record.kind # "apply"
  BY DEF SubmissionRequest, Idle
<1> HIDE DEF record
<1>3. SubmissionTypeOK'
  BY <1>1, <1>2 DEF SubmissionOK, SubmissionTypeOK, Begin
<1>4. RequestStep /\ req'[r] = record /\ \A p \in Requests \ {r} : req'[p] = req[p] /\ saw'[p] = saw[p]
  BY <1>1, <1>2, BeginStep DEF SubmissionOK
<1> QED BY <1>1, <1>2, <1>3, <1>4, SubmissionsStay DEF Doing

LEMMA OpeningSwitches ==
  ASSUME SubmissionOK, NEW r \in Requests, NEW j \in Openings, SwitchOpening(r, j)
  PROVE  SubmissionOK'
<1>1. Once(r) /\ UNCHANGED <<application, duplicate, cutShort>> /\ open' \subseteq Openings
  BY DEF SwitchOpening, SubmissionOK, SubmissionTypeOK
<1>2. RequestStep /\ req[r] = Idle /\ req' = req
      /\ \A q \in Requests \ {r} : saw'[q] = saw[q]
  BY <1>1, OnceStep DEF SubmissionOK
<1>3. SubmissionTypeOK'
  BY <1>1, <1>2 DEF SubmissionOK, SubmissionTypeOK
<1> QED BY <1>1, <1>2, <1>3, SubmissionsStay DEF Doing, Idle

LEMMA SubmissionAborts ==
  ASSUME SubmissionOK, NEW r \in Requests, End(r),
         UNCHANGED <<application, duplicate, cutShort, open>>
  PROVE  SubmissionOK'
<1>1. RequestStep /\ saw' = saw
      /\ req'[r] = Idle /\ \A q \in Requests \ {r} : req'[q] = req[q]
  BY EndStep DEF SubmissionOK
<1>2. SubmissionTypeOK'
  BY DEF End, SubmissionOK, SubmissionTypeOK
<1> QED BY <1>1, <1>2, SubmissionsStay DEF Doing, Idle

LEMMA ApplicationWrites ==
  ASSUME SubmissionOK, NEW r \in Requests, ApplyCommit(r)
  PROVE  SubmissionOK'
<1> DEFINE row == req[r].row
           found == req[r].found
<1>1. End(r) /\ Doing(r, "apply") /\ ApplyOK(r) /\ UNCHANGED <<open, cutShort>>
  BY DEF ApplyCommit, SubmissionOK
<1>2. row \in ApplicationRow /\ found \subseteq Requests
  BY <1>1, SubmissionTyped DEF SubmissionOK
<1>3. RequestStep /\ ended' = ended \cup {r} /\ r \notin ended /\ saw' = saw
      /\ req'[r] = Idle /\ \A q \in Requests \ {r} : req'[q] = req[q]
  BY <1>1, EndStep DEF SubmissionOK
<1>4. CASE \E q \in found : ~Submitted(q)
  <2>1. UNCHANGED <<application, duplicate>>
    BY <1>4 DEF ApplyCommit
  <2> QED BY <1>1, <2>1, SubmissionAborts
<1>5. CASE \A q \in found : Submitted(q)
  <2>1. /\ application' = [application EXCEPT ![r] = row]
        /\ duplicate' = duplicate \cup {<<r, q>> : q \in found}
    BY <1>5 DEF ApplyCommit
  <2>2. application'[r] = row /\ \A q \in Requests \ {r} : application'[q] = application[q]
    BY <2>1 DEF SubmissionOK, SubmissionTypeOK
  <2>3. SubmissionTypeOK'
    <3>1. req' \in [Requests -> SubmissionRequest \cup {Idle}]
      BY <1>1 DEF End, SubmissionOK, SubmissionTypeOK
    <3>2. application' \in [Requests -> ApplicationRow \cup {NoApplication}]
      BY <1>2, <2>1 DEF SubmissionOK, SubmissionTypeOK
    <3>3. duplicate' \subseteq Requests \X Requests
      BY <1>2, <2>1 DEF SubmissionOK, SubmissionTypeOK
    <3> QED BY <1>1, <3>1, <3>2, <3>3 DEF SubmissionOK, SubmissionTypeOK
  <2>4. ~Submitted(r) /\ \A q \in Requests : r \notin saw[q]
    BY <1>3 DEF SubmissionOK, RequestOK
  <2>5. Submitted(r)'
    BY <1>2, <2>2 DEF Submitted, NoApplication, ApplicationRow
  <2>6. \A q \in Requests \ {r} : Submitted(q)' <=> Submitted(q)
    BY <2>2 DEF Submitted
  <2>7. \A q \in Requests : Submitted(q)' => q \in ended'
    BY <1>3, <2>6 DEF SubmissionOK
  <2>8. ASSUME NEW q \in Requests, Doing(q, "apply")' PROVE ApplyOK(q)'
    <3>1. q # r /\ ApplyOK(q) /\ req'[q] = req[q] /\ r \notin saw[q] /\ saw'[q] = saw[q]
      BY <1>3, <2>4, <2>8 DEF Doing, Idle, SubmissionOK
    <3>2. saw[q] \subseteq Requests \ {r}
      BY <2>4 DEF SubmissionOK, RequestOK
    <3> QED BY <1>1, <2>2, <2>6, <3>1, <3>2 DEF ApplyOK
  <2>9. DuplicatesAreLinked'
    <3> SUFFICES ASSUME NEW p \in Requests, Submitted(p)', NEW q \in saw[p], Submitted(q)',
                        Alike(application'[q], application'[p]), p \notin cutShort
        PROVE  <<p, q>> \in duplicate'
      BY <1>1, <1>3 DEF DuplicatesAreLinked, Alike
    <3>1. q \in Requests \ {r}
      BY <2>4 DEF SubmissionOK, RequestOK
    <3>2. CASE p = r
      <4>1. q \in found
        BY <1>1, <2>2, <2>6, <3>1, <3>2 DEF ApplyOK, Alike
      <4> QED BY <2>1, <3>2, <4>1
    <3>3. CASE p # r
      <4>1. <<p, q>> \in duplicate
        BY <2>2, <2>6, <3>1, <3>3 DEF SubmissionOK, DuplicatesAreLinked, Alike
      <4> QED BY <2>1, <4>1
    <3> QED BY <3>2, <3>3
  <2>10. LinkedWereAlike'
    <3> SUFFICES ASSUME NEW l \in duplicate'
        PROVE  /\ Submitted(l[1])' /\ Submitted(l[2])'
               /\ \/ Alike(application'[l[2]], application'[l[1]])
                  \/ "anonymized" \in {application'[l[1]].email, application'[l[2]].email}
      BY DEF LinkedWereAlike, Submitted, Alike
    <3>1. CASE l \in duplicate
      <4>1. /\ Submitted(l[1]) /\ Submitted(l[2])
            /\ \/ Alike(application[l[2]], application[l[1]])
               \/ "anonymized" \in {application[l[1]].email, application[l[2]].email}
        BY <3>1 DEF SubmissionOK, LinkedWereAlike
      <4>2. l[1] \in Requests /\ l[2] \in Requests
        BY <3>1 DEF SubmissionOK, SubmissionTypeOK
      <4>3. l[1] # r /\ l[2] # r
        BY <2>4, <4>1
      <4>4. /\ application'[l[1]] = application[l[1]]
            /\ application'[l[2]] = application[l[2]]
        BY <2>2, <4>2, <4>3
      <4>5. Submitted(l[1])' /\ Submitted(l[2])'
        BY <4>1, <4>4 DEF Submitted
      <4> QED BY <4>1, <4>4, <4>5
    <3>2. CASE l \notin duplicate
      <4>1. PICK q \in found : l = <<r, q>>
        BY <2>1, <3>2
      <4>2. l[1] = r /\ l[2] = q
        BY <4>1
      <4>3. q \in Requests /\ q # r /\ Submitted(q)
        BY <1>2, <1>5, <2>4
      <4>4. Alike(application[q], row) \/ application[q].email = "anonymized"
        BY <1>1, <4>3 DEF ApplyOK
      <4>5. application'[q] = application[q] /\ Submitted(q)'
        BY <2>2, <2>6, <4>3
      <4>6. Submitted(l[1])' /\ Submitted(l[2])'
        BY <2>5, <4>2, <4>5 DEF Submitted
      <4> QED BY <2>2, <4>2, <4>4, <4>5, <4>6 DEF Alike
    <3> QED BY <3>1, <3>2
  <2> QED BY <1>3, <2>3, <2>7, <2>8, <2>9, <2>10 DEF SubmissionOK, RequestStep
<1> QED BY <1>4, <1>5

\* An erasure: the row is made unlike any other, or goes with its links.
LEMMA Erasures ==
  ASSUME SubmissionOK, NEW r \in Requests, NEW q \in Requests, End(r),
         UNCHANGED <<open, cutShort>>, SubmissionTypeOK', Submitted(q),
         \A p \in Requests \ {q} : application'[p] = application[p],
         \/ /\ application'[q] = NoApplication
            /\ duplicate' = {l \in duplicate : q \notin {l[1], l[2]}}
         \/ /\ application'[q].email = "anonymized" /\ application'[q].phone = None
            /\ application'[q] # NoApplication
            /\ duplicate' = duplicate
  PROVE  SubmissionOK'
<1>1. RequestStep /\ ended' = ended \cup {r} /\ saw' = saw
      /\ req'[r] = Idle /\ \A p \in Requests \ {r} : req'[p] = req[p]
  BY EndStep DEF SubmissionOK
<1>2. \A p \in Requests : Submitted(p)' => Submitted(p)
  BY DEF Submitted
<1>3. \A p \in Requests : \A x : Submitted(p)' /\ Alike(application'[p], x) =>
        p # q /\ Alike(application[p], x)
  BY DEF Submitted, Alike
<1>4. \A p \in Requests : Submitted(p)' =>
        application'[p].email = "anonymized" \/ application'[p] = application[p]
  BY DEF Submitted
<1>5. ASSUME NEW p \in Requests, Doing(p, "apply")' PROVE ApplyOK(p)'
  <2>1. ApplyOK(p) /\ req'[p] = req[p]
    BY <1>1, <1>5 DEF Doing, Idle, SubmissionOK
  <2>2. saw[p] \subseteq Requests
    BY DEF SubmissionOK, RequestOK
  <2>3. /\ req[p].found \subseteq saw[p]
        /\ \A a \in saw[p] : Submitted(a)' /\ Alike(application'[a], req[p].row) =>
             a \in req[p].found \/ p \in cutShort
    BY <1>2, <1>3, <2>1, <2>2 DEF ApplyOK
  <2>4. \A a \in req[p].found : Submitted(a)' =>
          Alike(application'[a], req[p].row) \/ application'[a].email = "anonymized"
    BY <1>2, <1>4, <2>1, <2>2 DEF ApplyOK
  <2> QED BY <1>1, <2>1, <2>3, <2>4 DEF ApplyOK, Alike
<1>6. DuplicatesAreLinked'
  <2> SUFFICES ASSUME NEW p \in Requests, Submitted(p)', NEW a \in saw[p], Submitted(a)',
                      Alike(application'[a], application'[p]), p \notin cutShort
      PROVE  <<p, a>> \in duplicate'
    BY <1>1 DEF DuplicatesAreLinked, Alike
  <2>1. a \in Requests
    BY DEF SubmissionOK, RequestOK
  <2>2. a # q /\ Alike(application[a], application'[p]) /\ application'[a] = application[a]
    BY <1>3, <2>1
  <2>3. p # q
    BY <2>2, <1>3, <2>1 DEF Submitted, Alike
  <2>4. <<p, a>> \in duplicate
    BY <1>2, <2>1, <2>2, <2>3 DEF SubmissionOK, DuplicatesAreLinked
  <2> QED BY <2>2, <2>3, <2>4
<1>7. LinkedWereAlike'
  <2> SUFFICES ASSUME NEW l \in duplicate'
      PROVE  /\ Submitted(l[1])' /\ Submitted(l[2])'
             /\ \/ Alike(application'[l[2]], application'[l[1]])
                \/ "anonymized" \in {application'[l[1]].email, application'[l[2]].email}
    BY DEF LinkedWereAlike, Submitted, Alike
  <2>1. l \in duplicate
    OBVIOUS
  <2>2. /\ Submitted(l[1]) /\ Submitted(l[2])
        /\ \/ Alike(application[l[2]], application[l[1]])
           \/ "anonymized" \in {application[l[1]].email, application[l[2]].email}
    BY <2>1 DEF SubmissionOK, LinkedWereAlike
  <2>3. l[1] \in Requests /\ l[2] \in Requests
    BY <2>1 DEF SubmissionOK, SubmissionTypeOK
  <2>4. CASE q \in {l[1], l[2]}
    <3>1. application'[q].email = "anonymized" /\ application'[q] # NoApplication
      BY <2>4
    <3>2. application'[l[1]] # NoApplication /\ application'[l[2]] # NoApplication
      BY <2>2, <2>3, <3>1 DEF Submitted
    <3>3. Submitted(l[1])' /\ Submitted(l[2])'
      BY <3>2 DEF Submitted
    <3> QED BY <2>4, <3>1, <3>3
  <2>5. CASE q \notin {l[1], l[2]}
    <3>1. application'[l[1]] = application[l[1]] /\ application'[l[2]] = application[l[2]]
      BY <2>3, <2>5
    <3>2. Submitted(l[1])' /\ Submitted(l[2])'
      BY <2>2, <3>1 DEF Submitted
    <3> QED BY <2>2, <3>1, <3>2
  <2> QED BY <2>4, <2>5
<1>8. \A p \in Requests : Submitted(p)' => p \in ended'
  BY <1>1, <1>2 DEF SubmissionOK
<1> QED BY <1>1, <1>5, <1>6, <1>7, <1>8 DEF SubmissionOK, RequestStep

LEMMA Anonymizations ==
  ASSUME SubmissionOK, NEW r \in Requests, AnonymizeCommit(r)
  PROVE  SubmissionOK'
<1> DEFINE q == req[r].application
           row == [job |-> application[q].job, email |-> "anonymized", phone |-> None]
<1>1. End(r) /\ UNCHANGED <<open, duplicate, cutShort>> /\ Doing(r, "anonymize")
  BY DEF AnonymizeCommit
<1>2. q \in Requests
  BY <1>1, SubmissionTyped DEF SubmissionOK
<1>3. CASE ~Submitted(q)
  <2>1. application' = application
    BY <1>3 DEF AnonymizeCommit
  <2> QED BY <1>1, <2>1, SubmissionAborts
<1>4. CASE Submitted(q)
  <2>1. application' = [application EXCEPT ![q] = row]
    BY <1>4 DEF AnonymizeCommit
  <2>2. application[q] \in ApplicationRow
    BY <1>2, <1>4, SubmissionRows DEF SubmissionOK
  <2>3. /\ row \in ApplicationRow /\ row.email = "anonymized" /\ row.phone = None
        /\ row # NoApplication
    BY <2>2 DEF ApplicationRow, NoApplication
  <2> HIDE DEF row
  <2>4. application'[q] = row /\ \A p \in Requests \ {q} : application'[p] = application[p]
    BY <1>2, <2>1 DEF SubmissionOK, SubmissionTypeOK
  <2>5. SubmissionTypeOK'
    BY <1>1, <2>1, <2>3 DEF End, SubmissionOK, SubmissionTypeOK
  <2> QED BY <1>1, <1>2, <1>4, <2>3, <2>4, <2>5, Erasures
<1> QED BY <1>3, <1>4

LEMMA ApplicationDeletions ==
  ASSUME SubmissionOK, NEW r \in Requests, DeleteApplicationCommit(r)
  PROVE  SubmissionOK'
<1> DEFINE q == req[r].application
<1>1. /\ End(r) /\ UNCHANGED <<open, cutShort>> /\ Doing(r, "delete_application")
      /\ application' = [application EXCEPT ![q] = NoApplication]
      /\ duplicate' = {l \in duplicate : q \notin {l[1], l[2]}}
  BY DEF DeleteApplicationCommit
<1>2. q \in Requests
  BY <1>1, SubmissionTyped DEF SubmissionOK
<1>3. application'[q] = NoApplication /\ \A p \in Requests \ {q} : application'[p] = application[p]
  BY <1>1, <1>2 DEF SubmissionOK, SubmissionTypeOK
<1>4. SubmissionTypeOK'
  <2>1. duplicate' \subseteq Requests \X Requests
    BY <1>1 DEF SubmissionOK, SubmissionTypeOK
  <2> QED BY <1>1, <2>1 DEF End, SubmissionOK, SubmissionTypeOK
<1>5. CASE Submitted(q)
  BY <1>1, <1>2, <1>3, <1>4, <1>5, Erasures
<1>6. CASE ~Submitted(q)
  <2>1. application' = application
    BY <1>1, <1>6 DEF Submitted, SubmissionOK, SubmissionTypeOK
  <2>2. \A l \in duplicate : l[1] # q /\ l[2] # q
    BY <1>6 DEF SubmissionOK, LinkedWereAlike
  <2>3. duplicate' = duplicate
    BY <1>1, <2>2
  <2> QED BY <1>1, <2>1, <2>3, SubmissionAborts
<1> QED BY <1>5, <1>6

LEMMA SubmissionSteps == SubmissionOK /\ [SubmissionNext]_submissionVars => SubmissionOK'
<1> SUFFICES ASSUME SubmissionOK, [SubmissionNext]_submissionVars PROVE SubmissionOK'
  OBVIOUS
<1>1. CASE UNCHANGED submissionVars
  BY <1>1 DEF submissionVars, requestVars, SubmissionOK, RequestOK, SubmissionTypeOK, Doing,
     ApplyOK, Submitted, Alike, DuplicatesAreLinked, LinkedWereAlike
<1>2. CASE SubmissionNext
  <2> SUFFICES ASSUME NEW r \in Requests,
                      \/ \E j \in Openings, e \in Emails, p \in Phones \cup {None},
                            found \in SUBSET Requests :
                           ApplyRead(r, [job |-> j, email |-> e, phone |-> p], found)
                      \/ ApplyCommit(r)
                      \/ \E j \in Openings : SwitchOpening(r, j)
                      \/ \E q \in Requests : AnonymizeRead(r, q) \/ DeleteApplicationRead(r, q)
                      \/ AnonymizeCommit(r) \/ DeleteApplicationCommit(r)
                      \/ SubmissionAbort(r)
      PROVE  SubmissionOK'
    BY <1>2 DEF SubmissionNext
  <2>1. \A j \in Openings, e \in Emails, p \in Phones \cup {None} :
          [job |-> j, email |-> e, phone |-> p] \in ApplicationRow
    BY DEF ApplicationRow
  <2>2. CASE \E j \in Openings, e \in Emails, p \in Phones \cup {None}, found \in SUBSET Requests :
               ApplyRead(r, [job |-> j, email |-> e, phone |-> p], found)
    BY <2>1, <2>2, SubmissionReads
  <2>3. CASE \E q \in Requests : AnonymizeRead(r, q) \/ DeleteApplicationRead(r, q)
    BY <2>3, ErasuresBegin DEF AnonymizeRead, DeleteApplicationRead
  <2>4. CASE SubmissionAbort(r)
    BY <2>4, SubmissionAborts DEF SubmissionAbort
  <2>5. CASE ApplyCommit(r)
    BY <2>5, ApplicationWrites
  <2>6. CASE \E j \in Openings : SwitchOpening(r, j)
    BY <2>6, OpeningSwitches
  <2>7. CASE AnonymizeCommit(r)
    BY <2>7, Anonymizations
  <2>8. CASE DeleteApplicationCommit(r)
    BY <2>8, ApplicationDeletions
  <2> QED BY <2>2, <2>3, <2>4, <2>5, <2>6, <2>7, <2>8
<1> QED BY <1>1, <1>2

\* Every variable of the submissions has its type.
THEOREM SubmissionsAreTyped == SubmissionSpec => []SubmissionTypeOK
BY SubmissionsBegin, SubmissionSteps, PTL DEF SubmissionSpec, SubmissionOK

\* No application escapes its duplicates that were there before it, whatever is
\* erased meanwhile, but for those beyond the limit.
THEOREM DuplicatesLinked == SubmissionSpec => []DuplicatesAreLinked
BY SubmissionsBegin, SubmissionSteps, PTL DEF SubmissionSpec, SubmissionOK

\* Erasures leave no link that dangles or joins what was never alike.
THEOREM LinksWereAlike == SubmissionSpec => []LinkedWereAlike
BY SubmissionsBegin, SubmissionSteps, PTL DEF SubmissionSpec, SubmissionOK

-----------------------------------------------------------------------------
(* Consents and the answers to them.                                       *)

ConsentRequest ==
  {Idle}
    \cup [kind : {"edit consent", "delete consent"}, by : Controllers, consent : Requests]
    \cup [kind : {"record consent"}, of : Controllers, consent : Requests,
          accepted : BOOLEAN, found : AnswerRow \cup {NoAnswer}]

\* The row a request has found is the one that is there, if one is, and as it
\* was unless another has recorded an answer since.
FoundOK(c, k, found, seen) ==
  found # NoAnswer =>
    /\ answerers[c][k] # {}
    /\ found.at \in seen
    /\ answer[c][k] # NoAnswer =>
         /\ answer[c][k].at = found.at
         /\ \/ answer[c][k].accepted = found.accepted
            \/ \E q \in answerers[c][k] : q \notin seen

\* What a pending request knows of the consent or the answer it is about.
ConsentRequestOK(r) ==
  /\ req[r] \in ConsentRequest
  /\ Doing(r, "edit consent") \/ Doing(r, "delete consent")
       => controller[req[r].consent] = req[r].by
  /\ Doing(r, "record consent")
       => FoundOK(req[r].of, req[r].consent, req[r].found, saw[r])

\* What consents and answers are named after has ended.
NamesEnded ==
  /\ \A k \in Requests : controller[k] # None \/ wording[k] # None => k \in ended
  /\ \A c \in Controllers, k \in Requests :
       /\ answerers[c][k] # {} => k \in ended
       /\ answerers[c][k] \subseteq ended
       /\ answer[c][k] # NoAnswer => answer[c][k].at \in ended

ConsentOK ==
  /\ RequestOK
  /\ ConsentTypeOK
  /\ NamesEnded
  /\ \A r \in Requests : ConsentRequestOK(r)
  /\ AnswersLast
  /\ AnswersAreAsGiven
  /\ DatesAreOfTheFirst
  /\ ConsentsAreOwn

LEMMA AnswersDiffer == NoAnswer \notin AnswerRow /\ NoAnswer.at = None
BY NoneAssumption DEF NoAnswer, AnswerRow

LEMMA EditTyped ==
  ASSUME ConsentOK, NEW e \in edits
  PROVE  e.by \in Controllers /\ e.to \in Requests /\ controller[e.to] = e.by
BY DEF ConsentOK, ConsentTypeOK, ConsentsAreOwn

LEMMA IdleAsks == \A r \in Requests : req[r] = Idle => ConsentRequestOK(r)
BY DEF ConsentRequestOK, FoundOK, ConsentRequest, Doing, Idle

LEMMA IdleAsksNext == \A r \in Requests : req'[r] = Idle => ConsentRequestOK(r)'
BY DEF ConsentRequestOK, FoundOK, ConsentRequest, Doing, Idle

LEMMA ConsentsBegin == ConsentInit => ConsentOK
<1> SUFFICES ASSUME ConsentInit PROVE ConsentOK
  OBVIOUS
<1>1. \A c \in Controllers, k \in Requests :
        answer[c][k] = NoAnswer /\ answerers[c][k] = {} /\ lastGiven[c][k] = None
  BY DEF ConsentInit
<1>2. RequestOK /\ \A r \in Requests : ConsentRequestOK(r)
  BY RequestsBegin, IdleAsks DEF ConsentInit, RequestInit
<1>3. ConsentTypeOK
  BY DEF ConsentInit, ConsentTypeOK
<1>4. NamesEnded /\ AnswersLast /\ AnswersAreAsGiven /\ DatesAreOfTheFirst /\ ConsentsAreOwn
  BY <1>1 DEF ConsentInit, NamesEnded, AnswersLast, AnswersAreAsGiven, DatesAreOfTheFirst,
              ConsentsAreOwn
<1> QED BY <1>2, <1>3, <1>4 DEF ConsentOK

LEMMA ConsentTyped ==
  ASSUME ConsentOK, NEW r \in Requests
  PROVE  /\ Doing(r, "edit consent") \/ Doing(r, "delete consent") =>
              /\ req[r].by \in Controllers /\ req[r].consent \in Requests
              /\ controller[req[r].consent] = req[r].by
         /\ Doing(r, "record consent") =>
              /\ req[r].of \in Controllers /\ req[r].consent \in Requests
              /\ req[r].accepted \in BOOLEAN /\ req[r].found \in AnswerRow \cup {NoAnswer}
              /\ FoundOK(req[r].of, req[r].consent, req[r].found, saw[r])
<1>1. ConsentRequestOK(r)
  BY DEF ConsentOK
<1>2. CASE req[r] = Idle
  BY <1>2 DEF Doing, Idle
<1>3. CASE req[r] \in [kind : {"edit consent", "delete consent"}, by : Controllers,
                       consent : Requests]
  BY <1>1, <1>3 DEF ConsentRequestOK, Doing
<1>4. CASE req[r] \in [kind : {"record consent"}, of : Controllers, consent : Requests,
                       accepted : BOOLEAN, found : AnswerRow \cup {NoAnswer}]
  BY <1>1, <1>4 DEF ConsentRequestOK, Doing
<1> QED BY <1>1, <1>2, <1>3, <1>4 DEF ConsentRequestOK, ConsentRequest

\* Answers may only go: what a request knows of consents and answers stays.
LEMMA AskedStays ==
  ASSUME ConsentOK, NEW r \in Requests, req'[r] = req[r], saw'[r] = saw[r],
         \A k \in Requests : controller[k] # None => controller'[k] = controller[k],
         \A c \in Controllers, k \in Requests :
           /\ answerers[c][k] \subseteq answerers'[c][k]
           /\ answer'[c][k] = answer[c][k] \/ answer'[c][k] = NoAnswer
  PROVE  ConsentRequestOK(r)'
<1>1. ConsentRequestOK(r)
  BY DEF ConsentOK
<1>2. CASE Doing(r, "edit consent") \/ Doing(r, "delete consent")
  BY <1>1, <1>2, ConsentTyped, ControllersAssumption DEF ConsentRequestOK, Doing
<1>3. CASE Doing(r, "record consent")
  <2> DEFINE c == req[r].of
             k == req[r].consent
             found == req[r].found
  <2>1. /\ c \in Controllers /\ k \in Requests
        /\ found # NoAnswer =>
             /\ answerers[c][k] # {} /\ found.at \in saw[r]
             /\ answer[c][k] # NoAnswer =>
                  /\ answer[c][k].at = found.at
                  /\ \/ answer[c][k].accepted = found.accepted
                     \/ \E q \in answerers[c][k] : q \notin saw[r]
    BY <1>3, ConsentTyped DEF FoundOK
  <2> HIDE DEF c, k, found
  <2>2. found # NoAnswer =>
          /\ answerers'[c][k] # {} /\ found.at \in saw[r]
          /\ answer'[c][k] # NoAnswer =>
               /\ answer'[c][k].at = found.at
               /\ \/ answer'[c][k].accepted = found.accepted
                  \/ \E q \in answerers'[c][k] : q \notin saw[r]
    BY <2>1
  <2>3. FoundOK(req[r].of, req[r].consent, req[r].found, saw[r])'
    BY <2>2 DEF FoundOK, c, k, found
  <2> QED BY <1>1, <1>3, <2>3 DEF ConsentRequestOK, Doing
<1>4. CASE ~ \/ Doing(r, "edit consent") \/ Doing(r, "delete consent")
             \/ Doing(r, "record consent")
  BY <1>1, <1>4 DEF ConsentRequestOK, Doing
<1> QED BY <1>2, <1>3, <1>4

\* Steps in which nobody records an answer.
LEMMA ConsentsStay ==
  ASSUME ConsentOK, RequestStep, UNCHANGED <<lastGiven, answerers>>,
         \A k \in Requests : controller[k] # None => controller'[k] = controller[k],
         \A c \in Controllers, k \in Requests :
           answer'[c][k] = answer[c][k] \/ answer'[c][k] = NoAnswer,
         \A r \in Requests :
           ConsentRequestOK(r)' \/ (req'[r] = req[r] /\ saw'[r] = saw[r]),
         ConsentTypeOK', NamesEnded', AnswersLast', ConsentsAreOwn'
  PROVE  ConsentOK'
<1>1. \A c \in Controllers, k \in Requests : \A q \in answerers[c][k] :
        q \in Requests /\ saw'[q] = saw[q]
  <2> SUFFICES ASSUME NEW c \in Controllers, NEW k \in Requests, NEW q \in answerers[c][k]
      PROVE  q \in Requests /\ saw'[q] = saw[q]
    OBVIOUS
  <2>1. q \in ended
    BY DEF ConsentOK, NamesEnded
  <2> QED BY <2>1 DEF ConsentOK, RequestOK, RequestStep, Begun
<1>2. AnswersAreAsGiven'
  <2> SUFFICES ASSUME NEW c \in Controllers, NEW k \in Requests, answer'[c][k] # NoAnswer,
                      \A q, r \in answerers'[c][k] : ~Overlap(q, r)'
      PROVE  answer'[c][k].accepted = lastGiven'[c][k]
    BY DEF AnswersAreAsGiven
  <2>1. \A q, r \in answerers[c][k] : ~Overlap(q, r)
    BY <1>1, OverlapStays
  <2> QED BY <2>1 DEF ConsentOK, AnswersAreAsGiven
<1>3. DatesAreOfTheFirst'
  <2> SUFFICES ASSUME NEW c \in Controllers, NEW k \in Requests, answer'[c][k] # NoAnswer,
                      NEW q \in answerers[c][k] \ {answer'[c][k].at}
      PROVE  answer'[c][k].at \in saw'[q]
    BY DEF DatesAreOfTheFirst
  <2> QED BY <1>1 DEF ConsentOK, DatesAreOfTheFirst
<1>4. \A r \in Requests : ConsentRequestOK(r)'
  BY AskedStays
<1> QED BY <1>2, <1>3, <1>4 DEF ConsentOK, RequestStep

LEMMA ConsentReads ==
  ASSUME ConsentOK, NEW r \in Requests, NEW c \in Controllers, NEW k \in Requests,
         NEW accepted \in BOOLEAN,
         \/ UpdateConsentRead(r, c, k) \/ DeleteConsentRead(r, c, k)
         \/ RecordConsentRead(r, c, k, accepted)
  PROVE  ConsentOK'
<1>1. UNCHANGED consentState /\ UNCHANGED ended
  BY DEF UpdateConsentRead, DeleteConsentRead, RecordConsentRead, Begin
<1>2. /\ ConsentTypeOK' /\ NamesEnded' /\ AnswersLast' /\ ConsentsAreOwn'
  BY <1>1 DEF consentState, ConsentOK, ConsentTypeOK, NamesEnded, AnswersLast, ConsentsAreOwn
<1>3. CASE UpdateConsentRead(r, c, k) \/ DeleteConsentRead(r, c, k)
  <2>1. PICK kind \in {"edit consent", "delete consent"} :
          Begin(r, [kind |-> kind, by |-> c, consent |-> k])
    BY <1>3 DEF UpdateConsentRead, DeleteConsentRead
  <2> DEFINE record == [kind |-> kind, by |-> c, consent |-> k]
  <2>2. /\ record \in ConsentRequest /\ record # Idle /\ record.kind # "record consent"
        /\ record.by = c /\ record.consent = k
    BY DEF ConsentRequest, Idle
  <2>3. Begin(r, record)
    BY <2>1
  <2> HIDE DEF record
  <2>4. controller[k] = c
    BY <1>3 DEF UpdateConsentRead, DeleteConsentRead, OwnConsent
  <2>5. /\ RequestStep /\ req'[r] = record
        /\ \A q \in Requests \ {r} : req'[q] = req[q] /\ saw'[q] = saw[q]
    BY <2>2, <2>3, BeginStep DEF ConsentOK
  <2>6. ConsentRequestOK(r)'
    BY <1>1, <2>2, <2>4, <2>5 DEF ConsentRequestOK, Doing, consentState
  <2> QED BY <1>1, <1>2, <2>5, <2>6, ConsentsStay DEF consentState
<1>4. CASE RecordConsentRead(r, c, k, accepted)
  <2> DEFINE found == answer[c][k]
             record == [kind |-> "record consent", of |-> c, consent |-> k,
                        accepted |-> accepted, found |-> found]
  <2>1. found \in AnswerRow \cup {NoAnswer}
    BY DEF ConsentOK, ConsentTypeOK
  <2>2. /\ record \in ConsentRequest /\ record # Idle
        /\ record.kind = "record consent"
        /\ record.of = c /\ record.consent = k /\ record.found = found
    BY <2>1 DEF ConsentRequest, Idle
  <2>3. Begin(r, record)
    BY <1>4 DEF RecordConsentRead
  <2> HIDE DEF record
  <2>5. /\ RequestStep /\ req'[r] = record /\ saw'[r] = ended
        /\ \A q \in Requests \ {r} : req'[q] = req[q] /\ saw'[q] = saw[q]
    BY <2>2, <2>3, BeginStep DEF ConsentOK
  <2>6. FoundOK(c, k, found, ended)
    BY DEF FoundOK, ConsentOK, NamesEnded, AnswersLast
  <2>7. FoundOK(c, k, found, ended)'
    BY <1>1, <2>6 DEF FoundOK, consentState
  <2>8. FoundOK(req[r].of, req[r].consent, req[r].found, saw[r])'
    BY <1>1, <2>2, <2>5, <2>7 DEF consentState
  <2>9. ConsentRequestOK(r)'
    BY <2>2, <2>5, <2>8 DEF ConsentRequestOK, Doing
  <2> QED BY <1>1, <1>2, <2>5, <2>9, ConsentsStay DEF consentState
<1> QED BY <1>3, <1>4

LEMMA ConsentAborts ==
  ASSUME ConsentOK, NEW r \in Requests, ConsentAbort(r)
  PROVE  ConsentOK'
<1>1. End(r) /\ UNCHANGED consentState
  BY DEF ConsentAbort
<1>2. /\ RequestStep /\ saw' = saw /\ req'[r] = Idle /\ ended' = ended \cup {r}
      /\ \A q \in Requests \ {r} : req'[q] = req[q]
  BY <1>1, EndStep DEF ConsentOK
<1>3. ConsentTypeOK' /\ NamesEnded' /\ AnswersLast' /\ ConsentsAreOwn'
  BY <1>1, <1>2 DEF consentState, ConsentOK, ConsentTypeOK, NamesEnded, AnswersLast, ConsentsAreOwn
<1>4. ConsentRequestOK(r)'
  BY <1>2, IdleAsksNext
<1> QED BY <1>1, <1>2, <1>3, <1>4, ConsentsStay DEF consentState

LEMMA ConsentCreations ==
  ASSUME ConsentOK, NEW r \in Requests, NEW c \in Controllers, CreateConsent(r, c)
  PROVE  ConsentOK'
<1>1. /\ Once(r) /\ controller' = [controller EXCEPT ![r] = c]
      /\ wording' = [wording EXCEPT ![r] = r]
      /\ UNCHANGED <<applied, answer, lastGiven, answerers, edits>>
  BY DEF CreateConsent
<1>2. /\ RequestStep /\ r \notin ended /\ ended' = ended \cup {r} /\ req[r] = Idle /\ req' = req
      /\ \A q \in Requests \ {r} : saw'[q] = saw[q]
  BY <1>1, OnceStep DEF ConsentOK
<1>3. \A d \in Controllers : answerers[d][r] = {}
  BY <1>2 DEF ConsentOK, NamesEnded
<1>4. ConsentTypeOK'
  BY <1>1 DEF ConsentOK, ConsentTypeOK
<1>5. /\ controller[r] = None /\ wording[r] = None
      /\ \A k \in Requests : controller[k] # None => controller'[k] = controller[k]
      /\ \A k \in Requests \ {r} : wording'[k] = wording[k] /\ controller'[k] = controller[k]
  BY <1>1, <1>2 DEF ConsentOK, ConsentTypeOK, NamesEnded
<1>6. AnswersLast'
  <2> SUFFICES ASSUME NEW d \in Controllers, NEW k \in Requests
      PROVE  answer[d][k] # NoAnswer
               <=> answerers[d][k] # {} /\ d \in applied /\ wording'[k] # None
    BY <1>1 DEF AnswersLast
  <2> QED BY <1>3, <1>5 DEF ConsentOK, AnswersLast
<1>7. ConsentsAreOwn'
  BY <1>1, <1>5, EditTyped, ControllersAssumption DEF ConsentsAreOwn
<1>8. NamesEnded'
  BY <1>1, <1>2, <1>5 DEF ConsentOK, NamesEnded
<1>9. ConsentRequestOK(r)'
  BY <1>2, IdleAsksNext
<1> QED BY <1>1, <1>2, <1>4, <1>5, <1>6, <1>7, <1>8, <1>9, ConsentsStay

\* A request ends that has changed or deleted a consent it may change.
LEMMA ConsentEdits ==
  ASSUME ConsentOK, NEW r \in Requests, UpdateConsentCommit(r) \/ DeleteConsentCommit(r)
  PROVE  ConsentOK'
<1> DEFINE k == req[r].consent
           owner == req[r].by
           edit == [by |-> owner, to |-> k]
<1>1. /\ Doing(r, "edit consent") \/ Doing(r, "delete consent")
      /\ edits' = edits \cup {edit}
      /\ End(r) /\ UNCHANGED <<controller, applied, lastGiven, answerers>>
  BY DEF UpdateConsentCommit, DeleteConsentCommit
<1>2. /\ owner \in Controllers /\ k \in Requests /\ controller[k] = owner
      /\ edit \in [by : Controllers, to : Requests] /\ edit.by = owner /\ edit.to = k
  BY <1>1, ConsentTyped
<1>3. /\ RequestStep /\ saw' = saw /\ req'[r] = Idle
      /\ ended' = ended \cup {r}
      /\ \A q \in Requests \ {r} : req'[q] = req[q]
  BY <1>1, EndStep DEF ConsentOK
<1>4. \/ UNCHANGED answer /\ wording[k] # None /\ wording' = [wording EXCEPT ![k] = r]
      \/ /\ wording' = [wording EXCEPT ![k] = None]
         /\ answer' = [c \in Controllers |-> [answer[c] EXCEPT ![k] = NoAnswer]]
  BY DEF UpdateConsentCommit, DeleteConsentCommit
<1> HIDE DEF k, owner, edit
<1>5. /\ \A c \in Controllers, l \in Requests \ {k} : answer'[c][l] = answer[c][l]
      /\ \A l \in Requests \ {k} : wording'[l] = wording[l]
      /\ \/ /\ wording[k] # None /\ wording'[k] = r
            /\ \A c \in Controllers : answer'[c][k] = answer[c][k]
         \/ wording'[k] = None /\ \A c \in Controllers : answer'[c][k] = NoAnswer
      /\ answer' \in [Controllers -> [Requests -> AnswerRow \cup {NoAnswer}]]
      /\ wording' \in [Requests -> Requests \cup {None}]
  <2>1. /\ answer \in [Controllers -> [Requests -> AnswerRow \cup {NoAnswer}]]
        /\ wording \in [Requests -> Requests \cup {None}]
    BY DEF ConsentOK, ConsentTypeOK
  <2>2. CASE UNCHANGED answer /\ wording[k] # None /\ wording' = [wording EXCEPT ![k] = r]
    BY <1>2, <2>1, <2>2
  <2>3. CASE /\ wording' = [wording EXCEPT ![k] = None]
             /\ answer' = [c \in Controllers |-> [answer[c] EXCEPT ![k] = NoAnswer]]
    BY <1>2, <2>1, <2>3
  <2> QED BY <1>4, <2>2, <2>3
<1>6. ConsentTypeOK'
  BY <1>1, <1>2, <1>5 DEF ConsentOK, ConsentTypeOK
<1>7. AnswersLast'
  <2> SUFFICES ASSUME NEW c \in Controllers, NEW l \in Requests
      PROVE  answer'[c][l] # NoAnswer
               <=> answerers[c][l] # {} /\ c \in applied /\ wording'[l] # None
    BY <1>1 DEF AnswersLast
  <2>1. answer[c][l] # NoAnswer
          <=> answerers[c][l] # {} /\ c \in applied /\ wording[l] # None
    BY DEF ConsentOK, AnswersLast
  <2>2. r # None
    BY NoneAssumption
  <2> QED BY <1>5, <2>1, <2>2
<1>8. ConsentsAreOwn'
  BY <1>1, <1>2, EditTyped DEF ConsentsAreOwn
<1>9. NamesEnded'
  <2>1. controller[k] # None
    BY <1>2, ControllersAssumption
  <2>2. \A l \in Requests : controller'[l] # None \/ wording'[l] # None => l \in ended'
    BY <1>1, <1>2, <1>3, <1>5, <2>1 DEF ConsentOK, NamesEnded
  <2>3. \A c \in Controllers, l \in Requests :
          answer'[c][l] = answer[c][l] \/ answer'[c][l] = NoAnswer
    BY <1>5
  <2> QED BY <1>1, <1>3, <2>2, <2>3 DEF ConsentOK, NamesEnded
<1>10. ConsentRequestOK(r)'
  BY <1>3, IdleAsksNext
<1>11. \A c \in Controllers, l \in Requests :
         answer'[c][l] = answer[c][l] \/ answer'[c][l] = NoAnswer
  BY <1>5
<1> QED BY <1>1, <1>3, <1>6, <1>7, <1>8, <1>9, <1>10, <1>11, ConsentsStay

LEMMA ApplicationsGo ==
  ASSUME ConsentOK, NEW r \in Requests, NEW c \in Controllers, DeleteApplied(r, c)
  PROVE  ConsentOK'
<1>1. /\ Once(r) /\ applied' = applied \ {c}
      /\ answer' = [answer EXCEPT ![c] = [k \in Requests |-> NoAnswer]]
      /\ UNCHANGED <<controller, wording, lastGiven, answerers, edits>>
  BY DEF DeleteApplied
<1>2. /\ RequestStep /\ ended' = ended \cup {r} /\ req[r] = Idle /\ req' = req
      /\ \A q \in Requests \ {r} : saw'[q] = saw[q]
  BY <1>1, OnceStep DEF ConsentOK
<1>3. ConsentTypeOK'
  BY <1>1 DEF ConsentOK, ConsentTypeOK
<1>4. \A d \in Controllers, k \in Requests :
        answer'[d][k] = IF d = c THEN NoAnswer ELSE answer[d][k]
  <2>1. answer \in [Controllers -> [Requests -> AnswerRow \cup {NoAnswer}]]
    BY DEF ConsentOK, ConsentTypeOK
  <2> QED BY <1>1, <2>1
<1>5. AnswersLast'
  <2> SUFFICES ASSUME NEW d \in Controllers, NEW k \in Requests
      PROVE  answer'[d][k] # NoAnswer
               <=> answerers[d][k] # {} /\ d \in applied' /\ wording[k] # None
    BY <1>1 DEF AnswersLast
  <2> QED BY <1>1, <1>4 DEF ConsentOK, AnswersLast
<1>6. ConsentsAreOwn'
  BY <1>1, EditTyped DEF ConsentsAreOwn
<1>7. NamesEnded'
  BY <1>1, <1>2, <1>4 DEF ConsentOK, NamesEnded
<1>8. ConsentRequestOK(r)'
  BY <1>2, IdleAsksNext
<1> QED BY <1>1, <1>2, <1>3, <1>4, <1>5, <1>6, <1>7, <1>8, ConsentsStay

\* A request that records an answer ends: there was none and it is the first,
\* or the row it had found is the one it leaves.
LEMMA AnswersRecorded ==
  ASSUME ConsentOK, NEW r \in Requests, RecordConsentCommit(r)
  PROVE  ConsentOK'
<1> DEFINE c == req[r].of
           k == req[r].consent
           given == req[r].accepted
           found == req[r].found
<1>1. /\ Doing(r, "record consent") /\ End(r)
      /\ UNCHANGED <<controller, wording, applied, edits>>
      /\ lastGiven' = [lastGiven EXCEPT ![c][k] = given]
      /\ answerers' = [answerers EXCEPT ![c][k] = @ \cup {r}]
  BY DEF RecordConsentCommit
<1>2. /\ c \in Controllers /\ k \in Requests /\ given \in BOOLEAN
      /\ found \in AnswerRow \cup {NoAnswer}
      /\ FoundOK(c, k, found, saw[r])
  BY <1>1, ConsentTyped
<1>3. \/ /\ found = NoAnswer /\ c \in applied /\ wording[k] # None /\ answer[c][k] = NoAnswer
         /\ answer' = [answer EXCEPT ![c][k] = [accepted |-> given, at |-> r]]
      \/ found # NoAnswer /\ given = found.accepted /\ UNCHANGED answer
      \/ /\ found # NoAnswer /\ answer[c][k] # NoAnswer
         /\ answer' = [answer EXCEPT ![c][k] = [@ EXCEPT !.accepted = given]]
  BY DEF RecordConsentCommit
<1>4. /\ RequestStep /\ saw' = saw /\ req'[r] = Idle /\ r \notin ended
      /\ ended' = ended \cup {r}
      /\ \A q \in Requests \ {r} : req'[q] = req[q]
  BY <1>1, EndStep DEF ConsentOK
<1> HIDE DEF c, k, given, found
<1>5. /\ answer \in [Controllers -> [Requests -> AnswerRow \cup {NoAnswer}]]
      /\ answer[c][k] \in AnswerRow \cup {NoAnswer}
      /\ answerers \in [Controllers -> [Requests -> SUBSET Requests]]
      /\ lastGiven \in [Controllers -> [Requests -> BOOLEAN \cup {None}]]
  BY <1>2 DEF ConsentOK, ConsentTypeOK
<1>6. PICK row \in AnswerRow \cup {NoAnswer} :
        /\ answer' = [answer EXCEPT ![c][k] = row]
        /\ \/ /\ found = NoAnswer /\ c \in applied /\ wording[k] # None
              /\ answer[c][k] = NoAnswer /\ row = [accepted |-> given, at |-> r]
           \/ found # NoAnswer /\ given = found.accepted /\ row = answer[c][k]
           \/ /\ found # NoAnswer /\ answer[c][k] # NoAnswer
              /\ row = [accepted |-> given, at |-> answer[c][k].at]
  <2>1. CASE /\ found = NoAnswer /\ c \in applied /\ wording[k] # None /\ answer[c][k] = NoAnswer
             /\ answer' = [answer EXCEPT ![c][k] = [accepted |-> given, at |-> r]]
    <3>1. [accepted |-> given, at |-> r] \in AnswerRow
      BY <1>2 DEF AnswerRow
    <3> QED BY <2>1, <3>1
  <2>2. CASE found # NoAnswer /\ given = found.accepted /\ UNCHANGED answer
    <3>1. answer' = [answer EXCEPT ![c][k] = answer[c][k]]
      BY <1>2, <1>5, <2>2
    <3> QED BY <1>5, <2>2, <3>1
  <2>3. CASE /\ found # NoAnswer /\ answer[c][k] # NoAnswer
             /\ answer' = [answer EXCEPT ![c][k] = [@ EXCEPT !.accepted = given]]
    <3> DEFINE old == answer[c][k]
    <3>1. old \in AnswerRow
      BY <1>5, <2>3
    <3> HIDE DEF old
    <3>2. /\ [old EXCEPT !.accepted = given] = [accepted |-> given, at |-> old.at]
          /\ [accepted |-> given, at |-> old.at] \in AnswerRow
      BY <1>2, <3>1 DEF AnswerRow
    <3>3. answer' = [answer EXCEPT ![c][k] = [old EXCEPT !.accepted = given]]
      BY <2>3 DEF old
    <3> QED BY <2>3, <3>2, <3>3 DEF old
  <2> QED BY <1>3, <2>1, <2>2, <2>3
<1>7. /\ answer' \in [Controllers -> [Requests -> AnswerRow \cup {NoAnswer}]]
      /\ answerers' \in [Controllers -> [Requests -> SUBSET Requests]]
      /\ lastGiven' \in [Controllers -> [Requests -> BOOLEAN \cup {None}]]
      /\ answer'[c][k] = row /\ lastGiven'[c][k] = given
      /\ answerers'[c][k] = answerers[c][k] \cup {r}
      /\ \A d \in Controllers, l \in Requests : d # c \/ l # k =>
           /\ answer'[d][l] = answer[d][l] /\ lastGiven'[d][l] = lastGiven[d][l]
           /\ answerers'[d][l] = answerers[d][l]
  BY <1>1, <1>2, <1>5, <1>6
<1>8. ConsentTypeOK'
  BY <1>1, <1>7 DEF ConsentOK, ConsentTypeOK
<1>9. c \in applied /\ wording[k] # None /\ answer[c][k] = NoAnswer => answerers[c][k] = {}
  BY <1>2 DEF ConsentOK, AnswersLast
<1>10. \/ /\ found = NoAnswer /\ c \in applied /\ wording[k] # None
          /\ answer[c][k] = NoAnswer /\ answerers[c][k] = {}
          /\ row = [accepted |-> given, at |-> r] /\ row # NoAnswer
       \/ /\ answerers[c][k] # {} /\ found # NoAnswer
          /\ row = answer[c][k]
          /\ row # NoAnswer =>
               /\ row.at \in saw[r] /\ row.at = answer[c][k].at
               /\ \/ row.accepted = given
                  \/ \E q \in answerers[c][k] : q \notin saw[r]
       \/ /\ answerers[c][k] # {} /\ answer[c][k] # NoAnswer /\ found # NoAnswer
          /\ row # NoAnswer
          /\ row.at \in saw[r] /\ row.at = answer[c][k].at
          /\ row.accepted = given
  <2>1. CASE found = NoAnswer
    <3>1. [accepted |-> given, at |-> r] # NoAnswer
      BY <1>2, AnswersDiffer DEF AnswerRow
    <3> QED BY <1>6, <1>9, <2>1, <3>1
  <2>2. CASE found # NoAnswer
    <3>1. [accepted |-> given, at |-> answer[c][k].at].at = answer[c][k].at
          /\ [accepted |-> given, at |-> answer[c][k].at].accepted = given
      OBVIOUS
    <3>2. answer[c][k] # NoAnswer => answer[c][k].at \in Requests
      BY <1>5 DEF AnswerRow
    <3>3. answer[c][k] # NoAnswer => [accepted |-> given, at |-> answer[c][k].at] # NoAnswer
      BY <1>2, <3>2, AnswersDiffer DEF AnswerRow
    <3> QED BY <1>2, <1>6, <2>2, <3>1, <3>3 DEF FoundOK
  <2> QED BY <2>1, <2>2
<1>11. AnswersLast'
  <2> SUFFICES ASSUME NEW d \in Controllers, NEW l \in Requests
      PROVE  answer'[d][l] # NoAnswer
               <=> answerers'[d][l] # {} /\ d \in applied /\ wording[l] # None
    BY <1>1 DEF AnswersLast
  <2>1. answer[d][l] # NoAnswer <=> answerers[d][l] # {} /\ d \in applied /\ wording[l] # None
    BY DEF ConsentOK, AnswersLast
  <2>2. CASE d # c \/ l # k
    BY <1>7, <2>1, <2>2
  <2>3. CASE d = c /\ l = k
    BY <1>7, <1>10, <2>1, <2>3
  <2> QED BY <2>2, <2>3
<1>12. \A q \in answerers[c][k] : q \in Requests /\ q \in ended
  BY <1>2 DEF ConsentOK, RequestOK, NamesEnded
<1>13. \A q \in answerers[c][k] : q \notin saw[r] => Overlap(q, r)'
  BY <1>1, <1>12, EndingOverlaps DEF ConsentOK
<1>14. AnswersAreAsGiven'
  <2> SUFFICES ASSUME NEW d \in Controllers, NEW l \in Requests, answer'[d][l] # NoAnswer,
                      \A q, p \in answerers'[d][l] : ~Overlap(q, p)'
      PROVE  answer'[d][l].accepted = lastGiven'[d][l]
    BY DEF AnswersAreAsGiven
  <2>1. CASE d # c \/ l # k
    <3>1. \A q, p \in answerers[d][l] : ~Overlap(q, p)
      BY <1>4, <1>5, <1>7, <2>1, OverlapStays
    <3> QED BY <1>7, <2>1, <3>1 DEF ConsentOK, AnswersAreAsGiven
  <2>2. CASE d = c /\ l = k
    <3>1. \A q \in answerers[c][k] : q \in saw[r]
      BY <1>7, <1>13, <2>2
    <3> QED BY <1>7, <1>10, <2>2, <3>1
  <2> QED BY <2>1, <2>2
<1>15. DatesAreOfTheFirst'
  <2> SUFFICES ASSUME NEW d \in Controllers, NEW l \in Requests, answer'[d][l] # NoAnswer,
                      NEW q \in answerers'[d][l] \ {answer'[d][l].at}
      PROVE  answer'[d][l].at \in saw[q]
    BY <1>4 DEF DatesAreOfTheFirst
  <2>1. answer[d][l] # NoAnswer =>
          \A p \in answerers[d][l] \ {answer[d][l].at} : answer[d][l].at \in saw[p]
    BY DEF ConsentOK, DatesAreOfTheFirst
  <2>2. CASE d # c \/ l # k
    BY <1>7, <2>1, <2>2
  <2>3. CASE d = c /\ l = k
    BY <1>7, <1>10, <2>1, <2>3
  <2> QED BY <2>2, <2>3
<1>16. NamesEnded'
  <2>1. k \in ended
    BY <1>2, <1>10 DEF ConsentOK, NamesEnded
  <2>2. row # NoAnswer => row.at \in ended'
    BY <1>4, <1>10 DEF ConsentOK, RequestOK
  <2>3. \A d \in Controllers, l \in Requests :
          /\ answerers'[d][l] # {} => l \in ended'
          /\ answerers'[d][l] \subseteq ended'
          /\ answer'[d][l] # NoAnswer => answer'[d][l].at \in ended'
    <3> SUFFICES ASSUME NEW d \in Controllers, NEW l \in Requests
        PROVE  /\ answerers'[d][l] # {} => l \in ended'
               /\ answerers'[d][l] \subseteq ended'
               /\ answer'[d][l] # NoAnswer => answer'[d][l].at \in ended'
      OBVIOUS
    <3>1. /\ answerers[d][l] # {} => l \in ended
          /\ answerers[d][l] \subseteq ended
          /\ answer[d][l] # NoAnswer => answer[d][l].at \in ended
      BY DEF ConsentOK, NamesEnded
    <3> QED BY <1>4, <1>7, <2>1, <2>2, <3>1
  <2> QED BY <1>1, <1>4, <2>3 DEF ConsentOK, NamesEnded
<1>17. \A q \in Requests : ConsentRequestOK(q)'
  <2> SUFFICES ASSUME NEW q \in Requests PROVE ConsentRequestOK(q)'
    OBVIOUS
  <2>1. CASE q = r
    BY <1>4, <2>1, IdleAsksNext
  <2>2. CASE q # r /\ ~Doing(q, "record consent")
    <3>1. ConsentRequestOK(q) /\ req'[q] = req[q]
      BY <1>4, <2>2 DEF ConsentOK
    <3> QED BY <1>1, <2>2, <3>1 DEF ConsentRequestOK, Doing
  <2>3. CASE q # r /\ Doing(q, "record consent")
    <3>1. /\ ConsentRequestOK(q) /\ req'[q] = req[q] /\ saw'[q] = saw[q]
          /\ FoundOK(req[q].of, req[q].consent, req[q].found, saw[q])
          /\ req[q].of \in Controllers /\ req[q].consent \in Requests
      BY <1>4, <2>3, ConsentTyped DEF ConsentOK
    <3>2. r \notin saw[q] /\ r \in answerers'[c][k]
      BY <1>4, <1>7 DEF ConsentOK, RequestOK
    <3>3. FoundOK(req[q].of, req[q].consent, req[q].found, saw[q])'
      <4>1. CASE req[q].of # c \/ req[q].consent # k
        BY <1>7, <3>1, <4>1 DEF FoundOK
      <4>2. CASE req[q].of = c /\ req[q].consent = k
        BY <1>7, <1>10, <3>1, <3>2, <4>2 DEF FoundOK
      <4> QED BY <4>1, <4>2
    <3> QED BY <2>3, <3>1, <3>3 DEF ConsentRequestOK, Doing
  <2> QED BY <2>1, <2>2, <2>3
<1>18. ConsentsAreOwn'
  BY <1>1, EditTyped DEF ConsentsAreOwn
<1> QED BY <1>4, <1>8, <1>11, <1>14, <1>15, <1>16, <1>17, <1>18 DEF ConsentOK, RequestStep

LEMMA ConsentSteps == ConsentOK /\ [ConsentNext]_consentVars => ConsentOK'
<1> SUFFICES ASSUME ConsentOK, [ConsentNext]_consentVars PROVE ConsentOK'
  OBVIOUS
<1>1. CASE UNCHANGED consentVars
  <2>1. RequestStep /\ req' = req /\ saw' = saw /\ ended' = ended /\ UNCHANGED consentState
    BY <1>1, QuietStep DEF consentVars, ConsentOK
  <2>2. ConsentTypeOK' /\ NamesEnded' /\ AnswersLast' /\ ConsentsAreOwn'
    BY <2>1 DEF consentState, ConsentOK, ConsentTypeOK, NamesEnded, AnswersLast, ConsentsAreOwn
  <2> QED BY <2>1, <2>2, ConsentsStay DEF consentState
<1>2. CASE ConsentNext
  BY <1>2, ConsentReads, ConsentAborts, ConsentCreations, ConsentEdits, ApplicationsGo,
     AnswersRecorded DEF ConsentNext
<1> QED BY <1>1, <1>2

\* Consents, applications, answers and edits keep their types.
THEOREM ConsentsAreTyped == ConsentSpec => []ConsentTypeOK
<1>1. ConsentOK => ConsentTypeOK
  BY DEF ConsentOK
<1> QED BY <1>1, ConsentsBegin, ConsentSteps, PTL DEF ConsentSpec

\* Answers last as long as what they are about, are the last ones given unless
\* two overlapped, are dated by the first, and nobody changes another's consents.
THEOREM ConsentsSound == ConsentSpec => []ConsentsAreSound
<1>1. ConsentOK => ConsentsAreSound
  BY DEF ConsentOK, ConsentsAreSound
<1> QED BY <1>1, ConsentsBegin, ConsentSteps, PTL DEF ConsentSpec

-----------------------------------------------------------------------------
(* Rules and the templates they mail.                                      *)

RuleRequest ==
  {Idle}
    \cup [kind : {"delete template"}, template : Requests, rules : SUBSET Requests]
    \cup [kind : {"create rule"}, row : RuleRow]
    \cup [kind : {"update rule"}, rule : Requests, was : RuleRow, toggles : BOOLEAN,
          templates : SUBSET (Requests \cup {None}), actives : {{}, {TRUE}, {FALSE}}]
    \cup [kind : {"delete rule"}, rule : Requests]

\* A template that was the company's is so, unless it is gone.
MayName(t, firm) == t # None => t \in ended /\ mailTemplate[t] \in {firm, None}

\* The rule that was read is gone, or it is the same company's and switched as
\* it was unless another has switched it since.
RuleReadOK(i, was, seen) ==
  /\ i \in ended
  /\ rule[i] # NoRule =>
       /\ rule[i].company = was.company
       /\ rule[i].active = was.active \/ \E q \in setters[i] : q \notin seen

\* What a pending request knows of the rule and the templates it is about.
RuleRequestOK(r) ==
  /\ req[r] \in RuleRequest
  /\ Doing(r, "create rule") => MayName(req[r].row.template, req[r].row.company)
  /\ Doing(r, "update rule") =>
       /\ RuleReadOK(req[r].rule, req[r].was, saw[r])
       /\ \A t \in req[r].templates : MayName(t, req[r].was.company)
       /\ req[r].toggles => req[r].actives = {~req[r].was.active}

\* What templates and rules are named after has ended.
RuleNamesEnded ==
  \A k \in Requests :
    /\ mailTemplate[k] # None \/ rule[k] # NoRule \/ setters[k] # {} => k \in ended
    /\ setters[k] \subseteq ended

RuleOK ==
  /\ RequestOK
  /\ AutomationTypeOK
  /\ RuleNamesEnded
  /\ \A r \in Requests : RuleRequestOK(r)
  /\ TemplatesAreOwn
  /\ TogglesCountUnlessOverlapped

LEMMA RulesDiffer == NoRule \notin RuleRow
BY FirmsAssumption DEF NoRule, RuleRow

LEMMA IdleRules == \A r \in Requests : req[r] = Idle => RuleRequestOK(r)
BY DEF RuleRequestOK, RuleRequest, Doing, Idle

LEMMA IdleRulesNext == \A r \in Requests : req'[r] = Idle => RuleRequestOK(r)'
BY DEF RuleRequestOK, RuleRequest, Doing, Idle

LEMMA RulesBegin == AutomationInit => RuleOK
<1> SUFFICES ASSUME AutomationInit PROVE RuleOK
  OBVIOUS
<1>1. RequestOK /\ \A r \in Requests : RuleRequestOK(r)
  BY RequestsBegin, IdleRules DEF AutomationInit, RequestInit
<1>2. AutomationTypeOK
  BY DEF AutomationInit, AutomationTypeOK
<1>3. RuleNamesEnded /\ TemplatesAreOwn /\ TogglesCountUnlessOverlapped
  BY DEF AutomationInit, RuleNamesEnded, TemplatesAreOwn, TogglesCountUnlessOverlapped
<1> QED BY <1>1, <1>2, <1>3 DEF RuleOK

LEMMA RuleTyped ==
  ASSUME RuleOK, NEW r \in Requests
  PROVE  /\ Doing(r, "delete template") =>
              req[r].template \in Requests /\ req[r].rules \subseteq Requests
         /\ Doing(r, "create rule") =>
              /\ req[r].row \in RuleRow
              /\ MayName(req[r].row.template, req[r].row.company)
         /\ Doing(r, "update rule") =>
              /\ req[r].rule \in Requests /\ req[r].was \in RuleRow
              /\ req[r].toggles \in BOOLEAN
              /\ req[r].templates \subseteq Requests \cup {None}
              /\ req[r].actives \in {{}, {TRUE}, {FALSE}}
              /\ RuleReadOK(req[r].rule, req[r].was, saw[r])
              /\ \A t \in req[r].templates : MayName(t, req[r].was.company)
              /\ req[r].toggles => req[r].actives = {~req[r].was.active}
         /\ Doing(r, "delete rule") => req[r].rule \in Requests
<1>1. RuleRequestOK(r)
  BY DEF RuleOK
<1>2. CASE req[r] = Idle
  BY <1>2 DEF Doing, Idle
<1>3. CASE req[r] \in [kind : {"delete template"}, template : Requests,
                       rules : SUBSET Requests]
  BY <1>3 DEF Doing
<1>4. CASE req[r] \in [kind : {"create rule"}, row : RuleRow]
  BY <1>1, <1>4 DEF RuleRequestOK, Doing
<1>5. CASE req[r] \in [kind : {"update rule"}, rule : Requests, was : RuleRow,
                       toggles : BOOLEAN, templates : SUBSET (Requests \cup {None}),
                       actives : {{}, {TRUE}, {FALSE}}]
  BY <1>1, <1>5 DEF RuleRequestOK, Doing
<1>6. CASE req[r] \in [kind : {"delete rule"}, rule : Requests]
  BY <1>6 DEF Doing
<1> QED BY <1>1, <1>2, <1>3, <1>4, <1>5, <1>6 DEF RuleRequestOK, RuleRequest

\* Templates that were there go or stay, and nobody gets a name that was given.
LEMMA NamesStay ==
  ASSUME NEW t, NEW firm, MayName(t, firm), ended \subseteq ended',
         \A k \in ended : mailTemplate'[k] \in {mailTemplate[k], None}
  PROVE  MayName(t, firm)'
BY DEF MayName

\* What a request knows stays, whatever others do.
LEMMA RuleAskedStays ==
  ASSUME RuleOK, NEW r \in Requests, req'[r] = req[r], saw'[r] = saw[r],
         ended \subseteq ended',
         \A k \in ended : mailTemplate'[k] \in {mailTemplate[k], None},
         \A i \in ended :
           /\ setters[i] \subseteq setters'[i]
           /\ rule'[i] # NoRule =>
                /\ rule[i] # NoRule /\ rule'[i].company = rule[i].company
                /\ \/ rule'[i].active = rule[i].active
                   \/ \E q \in setters'[i] : q \notin saw[r]
  PROVE  RuleRequestOK(r)'
<1>1. RuleRequestOK(r)
  BY DEF RuleOK
<1>2. Doing(r, "create rule") => MayName(req[r].row.template, req[r].row.company)'
  <2> SUFFICES ASSUME Doing(r, "create rule")
      PROVE  MayName(req[r].row.template, req[r].row.company)'
    OBVIOUS
  <2>1. MayName(req[r].row.template, req[r].row.company)
    BY RuleTyped
  <2> QED BY <2>1 DEF MayName
<1>3. CASE Doing(r, "update rule")
  <2> DEFINE i == req[r].rule
             was == req[r].was
  <2>1. RuleReadOK(i, was, saw[r])
    BY <1>3, RuleTyped
  <2>2. \A t \in req[r].templates : MayName(t, was.company)
    BY <1>3, RuleTyped
  <2> HIDE DEF i, was
  <2>3. /\ i \in ended'
        /\ rule'[i] # NoRule =>
             /\ rule'[i].company = was.company
             /\ rule'[i].active = was.active \/ \E q \in setters'[i] : q \notin saw[r]
    BY <2>1 DEF RuleReadOK
  <2>4. RuleReadOK(req[r].rule, req[r].was, saw[r])'
    BY <2>3 DEF RuleReadOK, i, was
  <2>5. (\A t \in req[r].templates : MayName(t, req[r].was.company))'
    BY <2>2 DEF MayName, was
  <2>6. req[r].toggles => req[r].actives = {~req[r].was.active}
    BY <1>3, RuleTyped
  <2> QED BY <1>1, <1>2, <1>3, <2>4, <2>5, <2>6 DEF RuleRequestOK, Doing
<1>4. CASE ~Doing(r, "update rule")
  BY <1>1, <1>2, <1>4 DEF RuleRequestOK, Doing
<1> QED BY <1>3, <1>4

\* Steps in which nobody switches a rule that is there.
LEMMA RulesStay ==
  ASSUME RuleOK, RequestStep, UNCHANGED setters,
         \A k \in ended : mailTemplate'[k] \in {mailTemplate[k], None},
         \A i \in Requests : rule'[i] # NoRule =>
           \/ /\ rule[i] # NoRule /\ rule'[i].company = rule[i].company
              /\ rule'[i].active = rule[i].active /\ meant'[i] = meant[i]
           \/ i \notin ended /\ rule'[i].active = meant'[i],
         \A r \in Requests :
           RuleRequestOK(r)' \/ (req'[r] = req[r] /\ saw'[r] = saw[r]),
         AutomationTypeOK', RuleNamesEnded', TemplatesAreOwn'
  PROVE  RuleOK'
<1>1. ended \subseteq ended' /\ RequestOK'
  BY DEF RequestStep
<1>2. \A r \in Requests : RuleRequestOK(r)'
  <2>1. ended \subseteq Requests
    BY DEF RuleOK, RequestOK
  <2> QED BY <1>1, <2>1, RuleAskedStays
<1>3. TogglesCountUnlessOverlapped'
  <2> SUFFICES ASSUME NEW i \in Requests, rule'[i] # NoRule,
                      \A q, r \in setters[i] : ~Overlap(q, r)'
      PROVE  rule'[i].active = meant'[i]
    BY DEF TogglesCountUnlessOverlapped
  <2>1. CASE rule[i] # NoRule /\ rule'[i].active = rule[i].active /\ meant'[i] = meant[i]
    <3>1. setters[i] \subseteq Requests
      BY DEF RuleOK, AutomationTypeOK
    <3>2. \A q, r \in setters[i] : ~Overlap(q, r)
      BY <3>1, OverlapStays
    <3> QED BY <2>1, <3>2 DEF RuleOK, TogglesCountUnlessOverlapped
  <2> QED BY <2>1
<1> QED BY <1>1, <1>2, <1>3 DEF RuleOK

LEMMA RuleReads ==
  ASSUME RuleOK, NEW r \in Requests, NEW record \in RuleRequest, record # Idle,
         Begin(r, record), UNCHANGED <<mailTemplate, rule, meant, setters>>,
         record.kind = "create rule" => MayName(record.row.template, record.row.company),
         record.kind = "update rule" =>
           /\ RuleReadOK(record.rule, record.was, ended)
           /\ \A t \in record.templates : MayName(t, record.was.company)
           /\ record.toggles => record.actives = {~record.was.active}
  PROVE  RuleOK'
<1>1. /\ RequestStep /\ req'[r] = record /\ saw'[r] = ended /\ ended' = ended
      /\ \A q \in Requests \ {r} : req'[q] = req[q] /\ saw'[q] = saw[q]
  BY BeginStep DEF RuleOK
<1>2. AutomationTypeOK' /\ RuleNamesEnded' /\ TemplatesAreOwn'
  BY <1>1 DEF RuleOK, AutomationTypeOK, RuleNamesEnded, TemplatesAreOwn
<1>3. \A t, firm : MayName(t, firm) => MayName(t, firm)'
  BY <1>1 DEF MayName
<1>4. RuleReadOK(record.rule, record.was, ended)
        => RuleReadOK(record.rule, record.was, ended)'
  BY <1>1 DEF RuleReadOK
<1>5. RuleRequestOK(r)'
  BY <1>1, <1>3, <1>4 DEF RuleRequestOK, Doing
<1> QED BY <1>1, <1>2, <1>5, RulesStay

LEMMA TemplateDeletionReads ==
  ASSUME RuleOK, NEW r \in Requests, NEW t \in Requests, DeleteMailTemplateRead(r, t)
  PROVE  RuleOK'
<1> DEFINE holders == {i \in Requests : rule[i] # NoRule /\ rule[i].template = t}
           record == [kind |-> "delete template", template |-> t, rules |-> holders]
<1>1. /\ record \in RuleRequest /\ record # Idle
      /\ record.kind # "create rule" /\ record.kind # "update rule"
  BY DEF RuleRequest, Idle
<1>2. Begin(r, record) /\ UNCHANGED <<mailTemplate, rule, meant, setters>>
  BY DEF DeleteMailTemplateRead
<1> HIDE DEF record
<1> QED BY <1>1, <1>2, RuleReads

LEMMA RuleDeletionReads ==
  ASSUME RuleOK, NEW r \in Requests, NEW i \in Requests, DeleteRuleRead(r, i)
  PROVE  RuleOK'
<1> DEFINE record == [kind |-> "delete rule", rule |-> i]
<1>1. /\ record \in RuleRequest /\ record # Idle
      /\ record.kind # "create rule" /\ record.kind # "update rule"
  BY DEF RuleRequest, Idle
<1>2. Begin(r, record) /\ UNCHANGED <<mailTemplate, rule, meant, setters>>
  BY DEF DeleteRuleRead
<1> HIDE DEF record
<1> QED BY <1>1, <1>2, RuleReads

\* A template that is looked up in a company may be named by its rules.
LEMMA LookedUp ==
  ASSUME RuleOK, NEW firm \in Firms, NEW t \in Requests \cup {None},
         EnsureTemplateInCompany(t, firm)
  PROVE  MayName(t, firm)
BY FirmsAssumption DEF EnsureTemplateInCompany, MayName, RuleOK, RuleNamesEnded

LEMMA RuleCreationReads ==
  ASSUME RuleOK, NEW r \in Requests, NEW firm \in Firms, NEW t \in Requests \cup {None},
         NEW active \in BOOLEAN, CreateRuleRead(r, firm, t, active)
  PROVE  RuleOK'
<1> DEFINE row == [company |-> firm, template |-> t, active |-> active]
           record == [kind |-> "create rule", row |-> row]
<1>1. row \in RuleRow /\ row.template = t /\ row.company = firm
  BY DEF RuleRow
<1>2. MayName(t, firm)
  BY LookedUp DEF CreateRuleRead
<1>3. Begin(r, record) /\ UNCHANGED <<mailTemplate, rule, meant, setters>>
  BY DEF CreateRuleRead
<1> HIDE DEF row
<1>4. /\ record \in RuleRequest /\ record # Idle
      /\ record.kind = "create rule" /\ record.row = row
  BY <1>1 DEF RuleRequest, Idle
<1> HIDE DEF record
<1> QED BY <1>1, <1>2, <1>3, <1>4, RuleReads

LEMMA RuleChangeReads ==
  ASSUME RuleOK, NEW r \in Requests, NEW i \in Requests,
         \/ \E templates \in {{}} \cup {{t} : t \in Requests \cup {None}},
               actives \in {{}, {TRUE}, {FALSE}} : UpdateRuleRead(r, i, templates, actives)
         \/ ToggleRead(r, i)
  PROVE  RuleOK'
<1>1. rule[i] # NoRule
  BY DEF UpdateRuleRead, ToggleRead
<1>2. /\ rule[i] \in RuleRow
      /\ rule[i].company \in Firms /\ rule[i].active \in BOOLEAN
  BY <1>1 DEF RuleOK, AutomationTypeOK, RuleRow
<1>3. RuleReadOK(i, rule[i], ended)
  BY <1>1 DEF RuleReadOK, RuleOK, RuleNamesEnded
<1>4. PICK toggles \in BOOLEAN, templates \in SUBSET (Requests \cup {None}),
           actives \in {{}, {TRUE}, {FALSE}} :
        /\ Begin(r, [kind |-> "update rule", rule |-> i, was |-> rule[i],
                     toggles |-> toggles, templates |-> templates, actives |-> actives])
        /\ UNCHANGED <<mailTemplate, rule, meant, setters>>
        /\ \A t \in templates : EnsureTemplateInCompany(t, rule[i].company)
        /\ toggles => actives = {~rule[i].active}
  <2>1. ASSUME NEW templates \in {{}} \cup {{t} : t \in Requests \cup {None}},
               NEW actives \in {{}, {TRUE}, {FALSE}},
               UpdateRuleRead(r, i, templates, actives)
        PROVE  /\ templates \in SUBSET (Requests \cup {None})
               /\ Begin(r, [kind |-> "update rule", rule |-> i, was |-> rule[i],
                            toggles |-> FALSE, templates |-> templates, actives |-> actives])
               /\ UNCHANGED <<mailTemplate, rule, meant, setters>>
               /\ \A t \in templates : EnsureTemplateInCompany(t, rule[i].company)
    BY <2>1 DEF UpdateRuleRead
  <2>2. CASE ToggleRead(r, i)
    <3> DEFINE active == rule[i].active
               actives == {~active}
    <3>1. /\ Begin(r, [kind |-> "update rule", rule |-> i, was |-> rule[i],
                       toggles |-> TRUE, templates |-> {}, actives |-> actives])
          /\ UNCHANGED <<mailTemplate, rule, meant, setters>>
          /\ active \in BOOLEAN
      BY <1>2, <2>2 DEF ToggleRead
    <3> HIDE DEF active
    <3>2. actives \in {{}, {TRUE}, {FALSE}}
      BY <3>1
    <3>3. {} \in SUBSET (Requests \cup {None})
      OBVIOUS
    <3>4. actives = {~rule[i].active}
      BY DEF active
    <3> HIDE DEF actives
    <3> QED BY <3>1, <3>2, <3>3, <3>4
  <2> QED BY <2>1, <2>2
<1> DEFINE record == [kind |-> "update rule", rule |-> i, was |-> rule[i],
                      toggles |-> toggles, templates |-> templates, actives |-> actives]
<1>5. /\ record \in RuleRequest /\ record # Idle /\ record.kind = "update rule"
      /\ record.rule = i /\ record.was = rule[i] /\ record.toggles = toggles
      /\ record.templates = templates /\ record.actives = actives
  BY <1>2, <1>4 DEF RuleRequest, Idle
<1>6. Begin(r, record)
  BY <1>4
<1> HIDE DEF record
<1>7. \A t \in templates : MayName(t, rule[i].company)
  BY <1>2, <1>4, LookedUp
<1> QED BY <1>3, <1>4, <1>5, <1>6, <1>7, RuleReads

LEMMA RuleAborts ==
  ASSUME RuleOK, NEW r \in Requests, AutomationAbort(r)
  PROVE  RuleOK'
<1>1. End(r) /\ UNCHANGED <<mailTemplate, rule, meant, setters>>
  BY DEF AutomationAbort
<1>2. /\ RequestStep /\ saw' = saw /\ req'[r] = Idle /\ ended' = ended \cup {r}
      /\ \A q \in Requests \ {r} : req'[q] = req[q]
  BY <1>1, EndStep DEF RuleOK
<1>3. AutomationTypeOK' /\ RuleNamesEnded' /\ TemplatesAreOwn'
  BY <1>1, <1>2 DEF RuleOK, AutomationTypeOK, RuleNamesEnded, TemplatesAreOwn
<1> QED BY <1>1, <1>2, <1>3, IdleRulesNext, RulesStay

LEMMA TemplateCreations ==
  ASSUME RuleOK, NEW r \in Requests, NEW firm \in Firms, CreateMailTemplate(r, firm)
  PROVE  RuleOK'
<1>1. /\ Once(r) /\ mailTemplate' = [mailTemplate EXCEPT ![r] = firm]
      /\ UNCHANGED <<rule, meant, setters>>
  BY DEF CreateMailTemplate
<1>2. /\ RequestStep /\ r \notin ended /\ ended' = ended \cup {r} /\ req[r] = Idle /\ req' = req
      /\ \A q \in Requests \ {r} : saw'[q] = saw[q]
  BY <1>1, OnceStep DEF RuleOK
<1>3. /\ mailTemplate \in [Requests -> Firms \cup {None}]
      /\ mailTemplate[r] = None
      /\ \A k \in Requests \ {r} : mailTemplate'[k] = mailTemplate[k]
  BY <1>1, <1>2 DEF RuleOK, AutomationTypeOK, RuleNamesEnded
<1>4. AutomationTypeOK' /\ RuleNamesEnded'
  BY <1>1, <1>2, <1>3 DEF RuleOK, AutomationTypeOK, RuleNamesEnded
<1>5. TemplatesAreOwn'
  <2> SUFFICES ASSUME NEW i \in Requests, rule[i] # NoRule, rule[i].template # None
      PROVE  mailTemplate'[rule[i].template] = rule[i].company
    BY <1>1 DEF TemplatesAreOwn
  <2>1. /\ rule[i].template \in Requests /\ rule[i].company \in Firms
        /\ mailTemplate[rule[i].template] = rule[i].company
    BY DEF RuleOK, AutomationTypeOK, RuleRow, TemplatesAreOwn
  <2> QED BY <1>3, <2>1, FirmsAssumption
<1>6. \A k \in ended : mailTemplate'[k] \in {mailTemplate[k], None}
  BY <1>2, <1>3 DEF RuleOK, RequestOK
<1>7. RuleRequestOK(r)'
  BY <1>2, IdleRulesNext
<1> QED BY <1>1, <1>2, <1>4, <1>5, <1>6, <1>7, RulesStay

\* A rule that is left without a template is the same otherwise.
LEMMA LeftWithout ==
  ASSUME NEW row \in RuleRow
  PROVE  /\ [row EXCEPT !.template = None] \in RuleRow
         /\ [row EXCEPT !.template = None].template = None
         /\ [row EXCEPT !.template = None].company = row.company
         /\ [row EXCEPT !.template = None].active = row.active
BY DEF RuleRow

LEMMA TemplatesGo ==
  ASSUME RuleOK, NEW r \in Requests, DeleteMailTemplateCommit(r)
  PROVE  RuleOK'
<1> DEFINE t == req[r].template
           holders == req[r].rules
<1>1. /\ Doing(r, "delete template") /\ End(r) /\ UNCHANGED <<meant, setters>>
      /\ \A i \in holders : rule[i] # NoRule
      /\ mailTemplate' = [mailTemplate EXCEPT ![t] = None]
      /\ rule' = [i \in Requests |->
                    IF i \in holders \/ (rule[i] # NoRule /\ rule[i].template = t)
                    THEN [rule[i] EXCEPT !.template = None] ELSE rule[i]]
  BY DEF DeleteMailTemplateCommit
<1>2. t \in Requests /\ holders \subseteq Requests
  BY <1>1, RuleTyped
<1>3. /\ RequestStep /\ saw' = saw /\ req'[r] = Idle /\ ended' = ended \cup {r}
      /\ \A q \in Requests \ {r} : req'[q] = req[q]
  BY <1>1, EndStep DEF RuleOK
<1> HIDE DEF t, holders
<1>4. /\ mailTemplate \in [Requests -> Firms \cup {None}]
      /\ rule \in [Requests -> RuleRow \cup {NoRule}]
  BY DEF RuleOK, AutomationTypeOK
<1>5. /\ \A k \in Requests : mailTemplate'[k] = IF k = t THEN None ELSE mailTemplate[k]
      /\ mailTemplate' \in [Requests -> Firms \cup {None}]
  BY <1>1, <1>2, <1>4
<1>6. \A i \in Requests :
        \/ rule'[i] = rule[i] /\ (rule[i] # NoRule => rule[i].template # t)
        \/ /\ rule[i] # NoRule /\ rule'[i] \in RuleRow /\ rule'[i].template = None
           /\ rule'[i].company = rule[i].company /\ rule'[i].active = rule[i].active
  <2> SUFFICES ASSUME NEW i \in Requests
      PROVE  \/ rule'[i] = rule[i] /\ (rule[i] # NoRule => rule[i].template # t)
             \/ /\ rule[i] # NoRule /\ rule'[i] \in RuleRow /\ rule'[i].template = None
                /\ rule'[i].company = rule[i].company /\ rule'[i].active = rule[i].active
    OBVIOUS
  <2>1. CASE i \in holders \/ (rule[i] # NoRule /\ rule[i].template = t)
    <3>1. rule[i] \in RuleRow /\ rule'[i] = [rule[i] EXCEPT !.template = None]
      BY <1>1, <1>4, <2>1
    <3> QED BY <1>1, <2>1, <3>1, LeftWithout
  <2>2. CASE ~(i \in holders \/ (rule[i] # NoRule /\ rule[i].template = t))
    BY <1>1, <2>2
  <2> QED BY <2>1, <2>2
<1>7. AutomationTypeOK'
  <2>1. rule' \in [Requests -> RuleRow \cup {NoRule}]
    <3>1. \A i \in Requests : rule'[i] \in RuleRow \cup {NoRule}
      BY <1>4, <1>6
    <3>2. DOMAIN rule' = Requests /\ rule' = [i \in Requests |-> rule'[i]]
      BY <1>1
    <3> QED BY <3>1, <3>2
  <2> QED BY <1>1, <1>5, <2>1 DEF RuleOK, AutomationTypeOK
<1>8. RuleNamesEnded'
  BY <1>1, <1>3, <1>5, <1>6 DEF RuleOK, RuleNamesEnded
<1>9. TemplatesAreOwn'
  <2> SUFFICES ASSUME NEW i \in Requests, rule'[i] # NoRule, rule'[i].template # None
      PROVE  mailTemplate'[rule'[i].template] = rule'[i].company
    BY DEF TemplatesAreOwn
  <2>1. rule'[i] = rule[i] /\ rule[i] # NoRule /\ rule[i].template # t
    BY <1>6
  <2>2. rule[i].template \in Requests /\ mailTemplate[rule[i].template] = rule[i].company
    BY <2>1 DEF RuleOK, AutomationTypeOK, RuleRow, TemplatesAreOwn
  <2> QED BY <1>5, <2>1, <2>2
<1>10. \A k \in ended : mailTemplate'[k] \in {mailTemplate[k], None}
  BY <1>5 DEF RuleOK, RequestOK
<1>11. \A i \in Requests : rule'[i] # NoRule =>
         /\ rule[i] # NoRule /\ rule'[i].company = rule[i].company
         /\ rule'[i].active = rule[i].active /\ meant'[i] = meant[i]
  BY <1>1, <1>6
<1> QED BY <1>1, <1>3, <1>7, <1>8, <1>9, <1>10, <1>11, IdleRulesNext, RulesStay

LEMMA RuleCreations ==
  ASSUME RuleOK, NEW r \in Requests, CreateRuleCommit(r)
  PROVE  RuleOK'
<1> DEFINE row == req[r].row
<1>1. /\ Doing(r, "create rule") /\ End(r) /\ UNCHANGED <<mailTemplate, setters>>
      /\ TemplateThere(row.template)
      /\ rule' = [rule EXCEPT ![r] = row]
      /\ meant' = [meant EXCEPT ![r] = row.active]
  BY DEF CreateRuleCommit
<1>2. row \in RuleRow /\ MayName(row.template, row.company)
  BY <1>1, RuleTyped
<1>3. /\ RequestStep /\ saw' = saw /\ req'[r] = Idle /\ r \notin ended
      /\ ended' = ended \cup {r}
      /\ \A q \in Requests \ {r} : req'[q] = req[q]
  BY <1>1, EndStep DEF RuleOK
<1> HIDE DEF row
<1>4. /\ rule \in [Requests -> RuleRow \cup {NoRule}] /\ meant \in [Requests -> BOOLEAN]
      /\ row.active \in BOOLEAN
  BY <1>2 DEF RuleOK, AutomationTypeOK, RuleRow
<1>5. /\ rule'[r] = row /\ meant'[r] = row.active
      /\ \A i \in Requests \ {r} : rule'[i] = rule[i] /\ meant'[i] = meant[i]
  BY <1>1, <1>4
<1>6. AutomationTypeOK'
  BY <1>1, <1>2, <1>4 DEF RuleOK, AutomationTypeOK
<1>7. RuleNamesEnded'
  BY <1>1, <1>3, <1>5 DEF RuleOK, RuleNamesEnded
<1>8. TemplatesAreOwn'
  BY <1>1, <1>2, <1>5 DEF RuleOK, TemplatesAreOwn, TemplateThere, MayName
<1>9. \A i \in Requests : rule'[i] # NoRule =>
        \/ /\ rule[i] # NoRule /\ rule'[i].company = rule[i].company
           /\ rule'[i].active = rule[i].active /\ meant'[i] = meant[i]
        \/ i \notin ended /\ rule'[i].active = meant'[i]
  BY <1>3, <1>5
<1> QED BY <1>1, <1>3, <1>6, <1>7, <1>8, <1>9, IdleRulesNext, RulesStay

LEMMA RulesGo ==
  ASSUME RuleOK, NEW r \in Requests, DeleteRuleCommit(r)
  PROVE  RuleOK'
<1> DEFINE k == req[r].rule
<1>1. /\ Doing(r, "delete rule") /\ End(r) /\ UNCHANGED <<mailTemplate, meant, setters>>
      /\ rule' = [rule EXCEPT ![k] = NoRule]
  BY DEF DeleteRuleCommit
<1>2. k \in Requests
  BY <1>1, RuleTyped
<1>3. /\ RequestStep /\ saw' = saw /\ req'[r] = Idle /\ ended' = ended \cup {r}
      /\ \A q \in Requests \ {r} : req'[q] = req[q]
  BY <1>1, EndStep DEF RuleOK
<1> HIDE DEF k
<1>4. \A i \in Requests : rule'[i] # NoRule => rule'[i] = rule[i]
  BY <1>1, <1>2 DEF RuleOK, AutomationTypeOK
<1>5. AutomationTypeOK' /\ RuleNamesEnded' /\ TemplatesAreOwn'
  BY <1>1, <1>3, <1>4
     DEF RuleOK, AutomationTypeOK, RuleNamesEnded, TemplatesAreOwn
<1> QED BY <1>1, <1>3, <1>4, <1>5, IdleRulesNext, RulesStay

\* Where what is given is what was read, the row keeps what it has.
LEMMA ChangedIsGivenOrKept ==
  ASSUME NEW given, NEW read, NEW held
  PROVE  \/ given \subseteq {read} /\ Changed(given, read, held) = held
         \/ (\E v \in given : v # read) /\ Changed(given, read, held) \in given
<1>1. CASE given \ {read} = {}
  BY <1>1 DEF Changed
<1>2. CASE given \ {read} # {}
  <2>1. \E v \in given : v # read
    BY <1>2
  <2>2. (CHOOSE v \in given : TRUE) \in given
    BY <2>1
  <2> QED BY <1>2, <2>1, <2>2 DEF Changed
<1> QED BY <1>1, <1>2

\* A request ends that has changed or switched a rule: unless another switched
\* it meanwhile, what the request read is what it replaces.
LEMMA RuleChanges ==
  ASSUME RuleOK, NEW r \in Requests, UpdateRuleCommit(r)
  PROVE  RuleOK'
<1> DEFINE i == req[r].rule
           was == req[r].was
           given == req[r].actives
           t == Changed(req[r].templates, was.template, rule[i].template)
           a == Changed(given, was.active, rule[i].active)
<1>1. /\ Doing(r, "update rule") /\ End(r) /\ UNCHANGED mailTemplate
      /\ rule[i] # NoRule /\ TemplateThere(t)
      /\ rule' = [rule EXCEPT ![i].template = t, ![i].active = a]
      /\ meant' = [meant EXCEPT ![i] = IF req[r].toggles THEN ~meant[i]
                                       ELSE IF given = {} THEN meant[i] ELSE given = {TRUE}]
      /\ setters' = [setters EXCEPT ![i] = IF given = {} THEN setters[i]
                                           ELSE setters[i] \cup {r}]
  BY DEF UpdateRuleCommit
<1>2. /\ i \in Requests /\ was \in RuleRow /\ req[r].toggles \in BOOLEAN
      /\ req[r].templates \subseteq Requests \cup {None}
      /\ given \in {{}, {TRUE}, {FALSE}}
      /\ RuleReadOK(i, was, saw[r])
      /\ \A u \in req[r].templates : MayName(u, was.company)
      /\ req[r].toggles => given = {~was.active}
  BY <1>1, RuleTyped
<1>3. /\ RequestStep /\ saw' = saw /\ req'[r] = Idle /\ r \notin ended
      /\ ended' = ended \cup {r}
      /\ \A q \in Requests \ {r} : req'[q] = req[q]
  BY <1>1, EndStep DEF RuleOK
<1>4. /\ rule \in [Requests -> RuleRow \cup {NoRule}] /\ meant \in [Requests -> BOOLEAN]
      /\ setters \in [Requests -> SUBSET Requests]
      /\ rule[i] \in RuleRow /\ was.active \in BOOLEAN /\ meant[i] \in BOOLEAN
      /\ rule[i].active \in BOOLEAN /\ rule[i].template \in Requests \cup {None}
      /\ rule[i].company \in Firms
  BY <1>1, <1>2 DEF RuleOK, AutomationTypeOK, RuleRow
<1>5. t \in Requests \cup {None}
      /\ (t # None => mailTemplate[t] = rule[i].company)
  <2>1. rule[i].company = was.company
    BY <1>1, <1>2 DEF RuleReadOK
  <2>2. CASE t = rule[i].template
    BY <1>1, <1>2, <1>4, <2>2 DEF RuleOK, TemplatesAreOwn
  <2>3. CASE t \in req[r].templates
    BY <1>1, <1>2, <2>1, <2>3 DEF MayName, TemplateThere
  <2> QED BY <2>2, <2>3, ChangedIsGivenOrKept
<1>6. \/ given = {} /\ a = rule[i].active
      \/ given = {a} /\ a \in BOOLEAN
      \/ given = {was.active} /\ a = rule[i].active
  <2> DEFINE read == was.active
             held == rule[i].active
  <2>1. \/ given \subseteq {read} /\ a = held
        \/ (\E v \in given : v # read) /\ a \in given
    BY ChangedIsGivenOrKept
  <2>2. given \in {{}, {TRUE}, {FALSE}} /\ read \in BOOLEAN
    BY <1>2, <1>4
  <2> HIDE DEF given, a, read, held
  <2>3. CASE given \subseteq {read} /\ a = held
    <3>1. given = {} \/ given = {read}
      BY <2>3
    <3> QED BY <2>3, <3>1 DEF read, held
  <2>4. CASE a \in given
    <3>1. CASE given = {TRUE}
      <4>1. a = TRUE
        BY <2>4, <3>1, Zenon
      <4> QED BY <3>1, <4>1
    <3>2. CASE given = {FALSE}
      <4>1. a = FALSE
        BY <2>4, <3>2, Zenon
      <4> QED BY <3>2, <4>1
    <3>3. given # {}
      BY <2>4
    <3> QED BY <2>2, <3>1, <3>2, <3>3
  <2> QED BY <2>1, <2>3, <2>4
<1> HIDE DEF i, was, given, t, a
<1>7. PICK row \in RuleRow :
        /\ rule' = [rule EXCEPT ![i] = row]
        /\ row.template = t /\ row.active = a /\ row.company = rule[i].company
  <2> DEFINE old == rule[i]
             new == [[old EXCEPT !.template = t] EXCEPT !.active = a]
  <2>1. a \in BOOLEAN
    BY <1>4, <1>6
  <2>2. old \in RuleRow
    BY <1>4
  <2>3. rule' = [rule EXCEPT ![i] = new]
    BY <1>1, <1>2, <1>4
  <2> HIDE DEF old
  <2>4. new \in RuleRow /\ new.template = t /\ new.active = a /\ new.company = old.company
    BY <1>5, <2>1, <2>2 DEF RuleRow
  <2> HIDE DEF new
  <2> QED BY <2>3, <2>4 DEF old
<1>8. /\ setters'[i] = IF given = {} THEN setters[i] ELSE setters[i] \cup {r}
      /\ meant'[i] = IF req[r].toggles THEN ~meant[i]
                     ELSE IF given = {} THEN meant[i] ELSE given = {TRUE}
      /\ rule'[i] = row
      /\ \A k \in Requests \ {i} :
           rule'[k] = rule[k] /\ meant'[k] = meant[k] /\ setters'[k] = setters[k]
  BY <1>1, <1>2, <1>4, <1>7
<1>9. AutomationTypeOK'
  <2>1. rule' \in [Requests -> RuleRow \cup {NoRule}]
    BY <1>2, <1>4, <1>7
  <2>2. setters' \in [Requests -> SUBSET Requests]
    BY <1>1, <1>2, <1>4
  <2>3. meant' \in [Requests -> BOOLEAN]
    <3> DEFINE held == meant[i]
               next == IF req[r].toggles THEN ~held
                       ELSE IF given = {} THEN held ELSE given = {TRUE}
    <3>1. held \in BOOLEAN /\ (given = {TRUE}) \in BOOLEAN
      BY <1>4, Zenon
    <3>2. (~held) \in BOOLEAN
      <4>1. held \in BOOLEAN
        BY <3>1
      <4> HIDE DEF held
      <4> QED BY <4>1
    <3>3. next \in BOOLEAN
      BY <3>1, <3>2
    <3>4. meant' = [meant EXCEPT ![i] = next]
      BY <1>1
    <3> HIDE DEF next
    <3> QED BY <1>2, <1>4, <3>3, <3>4
  <2> QED BY <1>1, <2>1, <2>2, <2>3 DEF RuleOK, AutomationTypeOK
<1>10. RuleNamesEnded'
  <2>1. i \in ended
    BY <1>2 DEF RuleReadOK
  <2> SUFFICES ASSUME NEW k \in Requests
      PROVE  /\ mailTemplate'[k] # None \/ rule'[k] # NoRule \/ setters'[k] # {} => k \in ended'
             /\ setters'[k] \subseteq ended'
    BY DEF RuleNamesEnded
  <2>2. /\ mailTemplate[k] # None \/ rule[k] # NoRule \/ setters[k] # {} => k \in ended
        /\ setters[k] \subseteq ended
    BY DEF RuleOK, RuleNamesEnded
  <2>3. /\ mailTemplate' = mailTemplate
        /\ k # i => rule'[k] = rule[k] /\ setters'[k] = setters[k]
        /\ setters'[k] \subseteq setters[k] \cup {r}
    BY <1>1, <1>8
  <2>4. ended' = ended \cup {r}
    BY <1>3
  <2> QED BY <2>1, <2>2, <2>3, <2>4
<1>11. TemplatesAreOwn'
  BY <1>1, <1>5, <1>7, <1>8 DEF RuleOK, TemplatesAreOwn
<1>12. \A q \in setters[i] : q \in Requests /\ q \in ended
  BY <1>2 DEF RuleOK, RequestOK, RuleNamesEnded
<1>13. \A q \in setters[i] : q \notin saw[r] => Overlap(q, r)'
  BY <1>1, <1>12, EndingOverlaps DEF RuleOK
<1>14. TogglesCountUnlessOverlapped'
  <2> SUFFICES ASSUME NEW k \in Requests, rule'[k] # NoRule,
                      \A q, p \in setters'[k] : ~Overlap(q, p)'
      PROVE  rule'[k].active = meant'[k]
    BY DEF TogglesCountUnlessOverlapped
  <2>1. setters[k] \subseteq setters'[k]
    BY <1>8
  <2>2. \A q, p \in setters[k] : ~Overlap(q, p)
    BY <1>3, <1>4, <2>1, OverlapStays
  <2>3. rule[k] # NoRule => rule[k].active = meant[k]
    BY <2>2 DEF RuleOK, TogglesCountUnlessOverlapped
  <2>4. CASE k # i
    BY <1>8, <2>3, <2>4
  <2>5. CASE k = i /\ given = {}
    <3>1. ~req[r].toggles
      BY <1>2, <2>5
    <3> QED BY <1>1, <1>6, <1>7, <1>8, <2>3, <2>5, <3>1
  <2>6. CASE k = i /\ given # {}
    <3>1. \A q \in setters[i] : q \in saw[r]
      BY <1>8, <1>13, <2>6
    <3>2. rule[i].active = was.active /\ rule[i].active = meant[i]
      BY <1>1, <1>2, <2>3, <2>6, <3>1 DEF RuleReadOK
    <3>3. given = {a} /\ a \in BOOLEAN
      BY <1>4, <1>6, <2>6, <3>2
    <3>4. CASE req[r].toggles
      <4> DEFINE read == was.active
      <4>1. /\ given = {~read} /\ read \in BOOLEAN /\ meant[i] = read
            /\ meant'[i] = ~meant[i]
        BY <1>2, <1>4, <1>8, <3>2, <3>4
      <4> HIDE DEF read
      <4>2. a = ~read
        BY <3>3, <4>1
      <4> QED BY <1>7, <1>8, <2>6, <4>1, <4>2
    <3>5. CASE ~req[r].toggles
      <4>1. meant'[i] = (given = {TRUE})
        BY <1>8, <2>6, <3>5
      <4>2. a = (given = {TRUE})
        BY <3>3
      <4> QED BY <1>7, <1>8, <2>6, <4>1, <4>2
    <3> QED BY <3>4, <3>5
  <2> QED BY <2>4, <2>5, <2>6
<1>15. ASSUME NEW q \in Requests PROVE RuleRequestOK(q)'
  <2>1. CASE q = r
    BY <1>3, <2>1, IdleRulesNext
  <2>2. CASE q # r
    <3>1. r \notin saw[q] /\ req'[q] = req[q] /\ saw'[q] = saw[q]
      BY <1>3, <2>2 DEF RuleOK, RequestOK
    <3>2. ASSUME NEW k \in ended
          PROVE  /\ setters[k] \subseteq setters'[k]
                 /\ rule'[k] # NoRule =>
                      /\ rule[k] # NoRule /\ rule'[k].company = rule[k].company
                      /\ \/ rule'[k].active = rule[k].active
                         \/ \E p \in setters'[k] : p \notin saw[q]
      <4>1. k \in Requests
        BY DEF RuleOK, RequestOK
      <4>2. CASE k # i
        BY <1>8, <4>1, <4>2
      <4>3. CASE k = i /\ given = {}
        BY <1>1, <1>6, <1>7, <1>8, <4>3
      <4>4. CASE k = i /\ given # {}
        <5>1. r \in setters'[k] /\ setters[k] \subseteq setters'[k]
          BY <1>8, <4>4
        <5> QED BY <1>1, <1>7, <1>8, <3>1, <4>4, <5>1
      <4> QED BY <4>2, <4>3, <4>4
    <3>3. \A k \in ended : mailTemplate'[k] \in {mailTemplate[k], None}
      BY <1>1
    <3> QED BY <1>3, <3>1, <3>2, <3>3, RuleAskedStays
  <2> QED BY <2>1, <2>2
<1> QED BY <1>3, <1>9, <1>10, <1>11, <1>14, <1>15 DEF RuleOK, RequestStep

LEMMA RuleSteps == RuleOK /\ [AutomationNext]_automationVars => RuleOK'
<1> SUFFICES ASSUME RuleOK, [AutomationNext]_automationVars PROVE RuleOK'
  OBVIOUS
<1>1. CASE UNCHANGED automationVars
  <2>1. /\ RequestStep /\ req' = req /\ saw' = saw /\ ended' = ended
        /\ UNCHANGED <<mailTemplate, rule, meant, setters>>
    BY <1>1, QuietStep DEF automationVars, RuleOK
  <2>2. AutomationTypeOK' /\ RuleNamesEnded' /\ TemplatesAreOwn'
    BY <2>1 DEF RuleOK, AutomationTypeOK, RuleNamesEnded, TemplatesAreOwn
  <2> QED BY <2>1, <2>2, RulesStay
<1>2. CASE AutomationNext
  BY <1>2, RuleAborts, TemplateCreations, TemplateDeletionReads, TemplatesGo,
     RuleCreationReads, RuleCreations, RuleChangeReads, RuleChanges, RuleDeletionReads,
     RulesGo DEF AutomationNext
<1> QED BY <1>1, <1>2

\* Rules, templates and requests keep their types.
THEOREM RulesAreTyped == AutomationSpec => []AutomationTypeOK
<1>1. RuleOK => AutomationTypeOK
  BY DEF RuleOK
<1> QED BY <1>1, RulesBegin, RuleSteps, PTL DEF AutomationSpec

\* A rule names a template of its company that is there, or none, and is on or
\* off as it was asked to be unless two requests that say so overlapped.
THEOREM RulesSound == AutomationSpec => []RulesAreSound
<1>1. RuleOK => RulesAreSound
  BY DEF RuleOK, RulesAreSound
<1> QED BY <1>1, RulesBegin, RuleSteps, PTL DEF AutomationSpec

-----------------------------------------------------------------------------
(* Forms, questions and answers.                                           *)

FormRequest ==
  {Idle}
    \cup [kind : {"removal"}, company : Companies, question : Requests]
    \cup [kind : {"setting"}, company : Companies, form : Requests \cup {None},
          link : Requests \cup {None}, was : Requests \cup {None}]
    \cup [kind : {"page"}, questions : SUBSET ended]

\* A question that is to be deleted is on a form of the company that asked.
DeletionOK(c, f) ==
  /\ f \in ended
  /\ question[f] # None => form[question[f]] = c

\* The offer has the row l that was read, with the form read, and no other.
FormRead(c, l, was) ==
  /\ LinksOf(c) = {l} \ {None}
  /\ l # None => formOf[c][l] = was

\* What was read is so unless another has set a form since; if no row was found,
\* those there are now were added since.  The form that is asked for is the
\* company's if its owner was looked at.
SettingOK(r, c, t, l, was) ==
  /\ IF l = None THEN was = None /\ LinksOf(c) \cap saw[r] = {} ELSE l \in linkers[c]
  /\ FormRead(c, l, was) \/ \E q \in linkers[c] : q \notin saw[r]
  /\ t # None => t \in ended /\ (r \notin unchecked => form[t] = c)

\* What a pending request knows of the questions and forms it is about.
FormRequestOK(r) ==
  /\ req[r] \in FormRequest
  /\ Doing(r, "removal") => DeletionOK(req[r].company, req[r].question)
  /\ Doing(r, "setting") =>
       SettingOK(r, req[r].company, req[r].form, req[r].link, req[r].was)

\* What forms, questions and applications are named after has ended.
FormNamesEnded ==
  /\ \A k \in Requests :
       /\ form[k] # None \/ question[k] # None \/ filled[k] # None => k \in ended
       /\ filled[k] # None => filled[k] \subseteq ended
       /\ \A f \in Requests : <<k, f>> \in reply => k \in ended
  /\ \A c \in Companies : LinksOf(c) \subseteq linkers[c] /\ linkers[c] \subseteq ended

FormOK ==
  /\ RequestOK
  /\ FormTypeOK
  /\ FormNamesEnded
  /\ \A r \in Requests : FormRequestOK(r)
  /\ AnswersAreWhole
  /\ QuestionsGoByTheirOwner
  /\ FormsAreOwn
  /\ OneFormUnlessOverlapped
  /\ FormsAreAsAsked

LEMMA IdleForms == \A r \in Requests : req[r] = Idle => FormRequestOK(r)
BY DEF FormRequestOK, FormRequest, Doing, Idle

LEMMA IdleFormsNext == \A r \in Requests : req'[r] = Idle => FormRequestOK(r)'
BY DEF FormRequestOK, FormRequest, Doing, Idle

LEMMA FormsBegin == FormInit => FormOK
<1> SUFFICES ASSUME FormInit PROVE FormOK
  OBVIOUS
<1>1. RequestOK /\ \A r \in Requests : FormRequestOK(r)
  BY RequestsBegin, IdleForms DEF FormInit, RequestInit
<1>2. FormTypeOK /\ FormNamesEnded
  BY DEF FormInit, FormTypeOK, FormNamesEnded, LinksOf
<1>3. AnswersAreWhole /\ QuestionsGoByTheirOwner
  BY DEF FormInit, AnswersAreWhole, QuestionsGoByTheirOwner
<1>4. \A c \in Companies : LinksOf(c) = {} /\ FormsOf(c) = {} /\ wanted[c] = None
  BY DEF FormInit, LinksOf, FormsOf
<1>5. FormsAreOwn /\ OneFormUnlessOverlapped /\ FormsAreAsAsked
  BY <1>4 DEF FormsAreOwn, OneFormUnlessOverlapped, FormsAreAsAsked
<1> QED BY <1>1, <1>2, <1>3, <1>5 DEF FormOK

LEMMA FormTyped ==
  ASSUME FormOK, NEW r \in Requests
  PROVE  /\ Doing(r, "removal") =>
              /\ req[r].company \in Companies /\ req[r].question \in Requests
              /\ DeletionOK(req[r].company, req[r].question)
         /\ Doing(r, "setting") =>
              /\ req[r].company \in Companies /\ req[r].form \in Requests \cup {None}
              /\ req[r].link \in Requests \cup {None}
              /\ req[r].was \in Requests \cup {None}
              /\ SettingOK(r, req[r].company, req[r].form, req[r].link, req[r].was)
         /\ Doing(r, "page") => req[r].questions \subseteq ended
<1>1. FormRequestOK(r)
  BY DEF FormOK
<1>2. CASE req[r] = Idle
  BY <1>2 DEF Doing, Idle
<1>3. CASE req[r] \in [kind : {"removal"}, company : Companies, question : Requests]
  BY <1>1, <1>3 DEF FormRequestOK, Doing
<1>4. CASE req[r] \in [kind : {"setting"}, company : Companies,
                       form : Requests \cup {None}, link : Requests \cup {None},
                       was : Requests \cup {None}]
  BY <1>1, <1>4 DEF FormRequestOK, Doing
<1>5. CASE req[r] \in [kind : {"page"}, questions : SUBSET ended]
  BY <1>5 DEF Doing
<1> QED BY <1>1, <1>2, <1>3, <1>4, <1>5 DEF FormRequestOK, FormRequest

\* A form stays its company's, and nobody gets a name that was given.
FormsLast ==
  /\ ended \subseteq ended'
  /\ \A k \in ended : form'[k] = form[k]
  /\ \A k \in ended : question'[k] \in {question[k], None}
  /\ \A c \in Companies : linkers[c] \subseteq linkers'[c]

LEMMA QuestionTyped ==
  ASSUME FormOK
  PROVE  /\ \A f \in Requests : question[f] \in Requests \cup {None}
         /\ \A k \in Requests : form[k] \in Companies \cup {None}
         /\ ended \subseteq Requests
BY DEF FormOK, FormTypeOK, RequestOK

LEMMA LinksFollow ==
  ASSUME NEW c \in Companies, formOf'[c] = formOf[c]
  PROVE  LinksOf(c)' = LinksOf(c) /\ FormsOf(c)' = FormsOf(c)
BY DEF LinksOf, FormsOf

\* What a request knows stays, whatever others do.
LEMMA FormAskedStays ==
  ASSUME FormOK, FormsLast, NEW r \in Requests, req'[r] = req[r], saw'[r] = saw[r],
         r \in unchecked' <=> r \in unchecked,
         \A c \in Companies :
           \/ formOf'[c] = formOf[c]
           \/ /\ LinksOf(c)' \cap saw[r] \subseteq LinksOf(c)
              /\ \E q \in linkers'[c] : q \notin saw[r]
  PROVE  FormRequestOK(r)'
<1>1. FormRequestOK(r)
  BY DEF FormOK
<1>2. (req[r] \in FormRequest)'
  <2>1. req[r] \in FormRequest => req[r] \in FormRequest'
    BY DEF FormRequest, FormsLast
  <2> QED BY <1>1, <2>1 DEF FormRequestOK
<1>3. CASE Doing(r, "removal")
  <2> DEFINE c == req[r].company
             f == req[r].question
  <2>1. /\ c \in Companies /\ f \in Requests /\ f \in ended
        /\ question[f] # None => form[question[f]] = c
    BY <1>3, FormTyped DEF DeletionOK
  <2> HIDE DEF c, f
  <2>2. question'[f] # None => question'[f] = question[f] /\ question[f] \in Requests
    BY <2>1, QuestionTyped DEF FormsLast
  <2>3. question[f] \in Requests /\ form[question[f]] = c => question[f] \in ended
    BY <2>1, CompaniesAssumption DEF FormOK, FormNamesEnded
  <2>4. f \in ended' /\ (question'[f] # None => form'[question'[f]] = c)
    BY <2>1, <2>2, <2>3 DEF FormsLast
  <2>5. DeletionOK(req[r].company, req[r].question)'
    BY <2>4 DEF DeletionOK, c, f
  <2> QED BY <1>2, <1>3, <2>5 DEF FormRequestOK, Doing
<1>4. CASE Doing(r, "setting")
  <2>1. PICK c \in Companies, t \in Requests \cup {None}, l \in Requests \cup {None},
             was \in Requests \cup {None} :
          /\ c = req[r].company /\ t = req[r].form /\ l = req[r].link /\ was = req[r].was
          /\ IF l = None THEN was = None /\ LinksOf(c) \cap saw[r] = {} ELSE l \in linkers[c]
          /\ FormRead(c, l, was) \/ \E q \in linkers[c] : q \notin saw[r]
          /\ t # None => t \in ended /\ (r \notin unchecked => form[t] = c)
    BY <1>4, FormTyped DEF SettingOK
  <2>2. \/ FormRead(c, l, was)' <=> FormRead(c, l, was)
        \/ \E q \in linkers'[c] : q \notin saw[r]
    BY <2>1, LinksFollow DEF FormRead
  <2>3. LinksOf(c)' \cap saw[r] \subseteq LinksOf(c)
    BY <2>1, LinksFollow
  <2>4. /\ IF l = None THEN was = None /\ LinksOf(c)' \cap saw'[r] = {} ELSE l \in linkers'[c]
        /\ FormRead(c, l, was)' \/ \E q \in linkers'[c] : q \notin saw'[r]
        /\ t # None => t \in ended' /\ (r \notin unchecked' => form'[t] = c)
    BY <2>1, <2>2, <2>3 DEF FormsLast
  <2>5. SettingOK(r, req[r].company, req[r].form, req[r].link, req[r].was)'
    BY <2>1, <2>4 DEF SettingOK, FormRead
  <2> QED BY <1>2, <1>4, <2>5 DEF FormRequestOK, Doing
<1>5. CASE ~Doing(r, "removal") /\ ~Doing(r, "setting")
  BY <1>2, <1>5 DEF FormRequestOK, Doing
<1> QED BY <1>3, <1>4, <1>5

LEMMA FormsTyped ==
  ASSUME FormOK, NEW c \in Companies
  PROVE  LinksOf(c) \subseteq Requests /\ FormsOf(c) \subseteq Requests
BY DEF FormOK, FormTypeOK, LinksOf, FormsOf

\* Steps in which nobody sets the form of an offer.
LEMMA FormsStay ==
  ASSUME FormOK, RequestStep, FormsLast, UNCHANGED <<formOf, wanted, linkers>>,
         \A r \in Requests : r \in ended => (r \in unchecked' <=> r \in unchecked),
         \A r \in Requests :
           \/ FormRequestOK(r)'
           \/ /\ req'[r] = req[r] /\ saw'[r] = saw[r]
              /\ r \in unchecked' <=> r \in unchecked,
         FormTypeOK', FormNamesEnded', AnswersAreWhole', QuestionsGoByTheirOwner'
  PROVE  FormOK'
<1>1. RequestOK'
  BY DEF RequestStep
<1>2. \A r \in Requests : FormRequestOK(r)'
  BY FormAskedStays
<1>3. /\ \A c \in Companies : linkers[c] \subseteq ended /\ linkers[c] \subseteq Requests
      /\ \A c \in Companies : LinksOf(c)' = LinksOf(c) /\ FormsOf(c)' = FormsOf(c)
  BY LinksFollow DEF FormOK, FormNamesEnded, FormTypeOK
<1>4. FormsAreOwn'
  <2> SUFFICES ASSUME NEW c \in Companies, NEW t \in FormsOf(c),
                      linkers[c] \cap unchecked' = {}
      PROVE  form'[t] = c
    BY <1>3 DEF FormsAreOwn
  <2>1. linkers[c] \cap unchecked = {}
    BY <1>3
  <2>2. form[t] = c /\ t \in Requests
    BY <2>1, FormsTyped DEF FormOK, FormsAreOwn
  <2>3. t \in ended
    BY <2>2, CompaniesAssumption DEF FormOK, FormNamesEnded
  <2> QED BY <2>2, <2>3 DEF FormsLast
<1>6. OneFormUnlessOverlapped'
  <2> SUFFICES ASSUME NEW c \in Companies, NEW l \in LinksOf(c), NEW k \in LinksOf(c), l # k
      PROVE  Overlap(l, k)'
    BY <1>3 DEF OneFormUnlessOverlapped
  <2>1. l \in Requests /\ k \in Requests /\ Overlap(l, k)
    BY DEF FormOK, OneFormUnlessOverlapped, LinksOf
  <2> QED BY <2>1, OverlapStays
<1>5. FormsAreAsAsked'
  <2> SUFFICES ASSUME NEW c \in Companies, \A q, r \in linkers[c] : ~Overlap(q, r)'
      PROVE  FormsOf(c) = {wanted[c]} \ {None}
    BY <1>3 DEF FormsAreAsAsked
  <2>1. \A q, r \in linkers[c] : ~Overlap(q, r)
    BY <1>3, OverlapStays
  <2> QED BY <2>1 DEF FormOK, FormsAreAsAsked
<1> QED BY <1>1, <1>2, <1>4, <1>5, <1>6 DEF FormOK

\* Whoever deleted questions of a form owns it still.
LEMMA DroppedStay ==
  ASSUME FormOK, FormsLast, dropped' = dropped
  PROVE  QuestionsGoByTheirOwner'
<1> SUFFICES ASSUME NEW d \in dropped PROVE form'[d.from] = d.by
  BY DEF QuestionsGoByTheirOwner
<1>1. d.by \in Companies /\ d.from \in Requests /\ form[d.from] = d.by
  BY DEF FormOK, FormTypeOK, QuestionsGoByTheirOwner
<1>2. d.from \in ended
  BY <1>1, CompaniesAssumption DEF FormOK, FormNamesEnded
<1> QED BY <1>1, <1>2 DEF FormsLast

LEMMA FormAborts ==
  ASSUME FormOK, NEW r \in Requests, FormAbort(r)
  PROVE  FormOK'
<1>1. End(r) /\ UNCHANGED formState
  BY DEF FormAbort
<1>2. /\ RequestStep /\ saw' = saw /\ req'[r] = Idle /\ ended' = ended \cup {r}
      /\ \A q \in Requests \ {r} : req'[q] = req[q]
  BY <1>1, EndStep DEF FormOK
<1>3. FormsLast
  BY <1>1, <1>2 DEF FormsLast, formState
<1>4. FormTypeOK' /\ FormNamesEnded' /\ AnswersAreWhole' /\ QuestionsGoByTheirOwner'
  BY <1>1, <1>2
     DEF formState, FormOK, FormTypeOK, FormNamesEnded, LinksOf, AnswersAreWhole,
         QuestionsGoByTheirOwner
<1> QED BY <1>1, <1>2, <1>3, <1>4, IdleFormsNext, FormsStay DEF formState

\* A request begins with what it has read.
LEMMA FormReads ==
  ASSUME FormOK, NEW r \in Requests, NEW record \in FormRequest, record # Idle,
         Begin(r, record),
         UNCHANGED <<form, question, formOf, reply, filled, dropped, wanted, linkers>>,
         unchecked' = unchecked \/ unchecked' = unchecked \cup {r},
         record.kind = "removal" => DeletionOK(record.company, record.question),
         record.kind = "setting" =>
           SettingOK(r, record.company, record.form, record.link, record.was)'
  PROVE  FormOK'
<1>1. /\ RequestStep /\ req'[r] = record /\ ended' = ended /\ r \notin ended
      /\ \A q \in Requests \ {r} : req'[q] = req[q] /\ saw'[q] = saw[q]
  BY BeginStep DEF FormOK
<1>2. FormsLast
  BY <1>1 DEF FormsLast
<1>3. FormTypeOK' /\ FormNamesEnded' /\ AnswersAreWhole' /\ QuestionsGoByTheirOwner'
  <2>1. FormTypeOK'
    BY <1>1 DEF FormOK, FormTypeOK
  <2>2. FormNamesEnded'
    BY <1>1 DEF FormOK, FormNamesEnded, LinksOf
  <2>3. AnswersAreWhole' /\ QuestionsGoByTheirOwner'
    BY <1>1 DEF FormOK, AnswersAreWhole, QuestionsGoByTheirOwner
  <2> QED BY <2>1, <2>2, <2>3
<1>4. FormRequestOK(r)'
  BY <1>1 DEF FormRequestOK, FormRequest, Doing, DeletionOK
<1> QED BY <1>1, <1>2, <1>3, <1>4, FormsStay

LEMMA DeletionReads ==
  ASSUME FormOK, NEW r \in Requests, NEW c \in Companies, NEW t \in Requests,
         NEW f \in Requests, DeleteQuestionRead(r, c, t, f)
  PROVE  FormOK'
<1> DEFINE record == [kind |-> "removal", company |-> c, question |-> f]
<1>1. /\ record \in FormRequest /\ record # Idle /\ record.kind = "removal"
      /\ record.company = c /\ record.question = f
  BY DEF FormRequest, Idle
<1>2. Begin(r, record) /\ UNCHANGED formState /\ form[t] = c /\ question[f] = t
  BY DEF DeleteQuestionRead
<1> HIDE DEF record
<1>3. DeletionOK(c, f)
  BY <1>2, NoneAssumption DEF DeletionOK, FormOK, FormNamesEnded
<1> QED BY <1>1, <1>2, <1>3, FormReads DEF formState

LEMMA SettingReads ==
  ASSUME FormOK, NEW r \in Requests, NEW c \in Companies, NEW t \in Requests \cup {None},
         NEW looks \in BOOLEAN, SetFormRead(r, c, t, looks)
  PROVE  FormOK'
<1>1. PICK l \in Requests \cup {None} :
        /\ LinksOf(c) = {l} \ {None}
        /\ Begin(r, [kind |-> "setting", company |-> c, form |-> t, link |-> l,
                     was |-> IF l = None THEN None ELSE formOf[c][l]])
  BY DEF SetFormRead
<1>2. PICK was \in Requests \cup {None} : was = IF l = None THEN None ELSE formOf[c][l]
  BY <1>1 DEF FormOK, FormTypeOK
<1> DEFINE record == [kind |-> "setting", company |-> c, form |-> t, link |-> l,
                      was |-> was]
<1>3. /\ record \in FormRequest /\ record # Idle /\ record.kind = "setting"
      /\ record.company = c /\ record.form = t /\ record.link = l /\ record.was = was
  BY DEF FormRequest, Idle
<1>4. /\ Begin(r, record)
      /\ t # None => IF looks THEN form[t] = c ELSE form[t] # None
      /\ unchecked' = IF looks THEN unchecked ELSE unchecked \cup {r}
      /\ UNCHANGED <<form, question, formOf, reply, filled, dropped, wanted, linkers>>
  BY <1>1, <1>2 DEF SetFormRead
<1> HIDE DEF record
<1>5. ended' = ended
  BY <1>4 DEF Begin
<1>6. t # None => t \in ended' /\ (r \notin unchecked' => form'[t] = c)
  <2> SUFFICES ASSUME t # None PROVE t \in ended' /\ (r \notin unchecked' => form'[t] = c)
    OBVIOUS
  <2>1. form[t] # None /\ (r \notin unchecked' => form[t] = c)
    BY <1>4, CompaniesAssumption
  <2> QED BY <1>4, <1>5, <2>1 DEF FormOK, FormNamesEnded
<1>7. FormRead(c, l, was)'
  <2>1. LinksOf(c)' = LinksOf(c)
    BY <1>4, LinksFollow
  <2> QED BY <1>1, <1>2, <1>4, <2>1 DEF FormRead
<1>8. IF l = None THEN was = None /\ LinksOf(c)' \cap saw'[r] = {} ELSE l \in linkers'[c]
  <2>1. LinksOf(c)' = LinksOf(c)
    BY <1>4, LinksFollow
  <2>2. LinksOf(c) \subseteq linkers[c]
    BY DEF FormOK, FormNamesEnded
  <2> QED BY <1>1, <1>2, <1>4, <2>1, <2>2
<1>9. SettingOK(r, record.company, record.form, record.link, record.was)'
  BY <1>3, <1>6, <1>7, <1>8 DEF SettingOK, FormRead
<1> QED BY <1>3, <1>4, <1>9, FormReads

LEMMA PageReads ==
  ASSUME FormOK, NEW r \in Requests, NEW c \in Companies, OpenPage(r, c)
  PROVE  FormOK'
<1>1. PICK t \in FormsOf(c) \cup {None} :
        Begin(r, [kind |-> "page", questions |-> QuestionsOf(t)])
  BY DEF OpenPage
<1> DEFINE shown == QuestionsOf(t)
           record == [kind |-> "page", questions |-> shown]
<1>2. shown \subseteq ended
  BY DEF QuestionsOf, FormOK, FormNamesEnded
<1>3. Begin(r, record) /\ UNCHANGED formState
  BY <1>1 DEF OpenPage
<1> HIDE DEF shown
<1>4. /\ record \in FormRequest /\ record # Idle
      /\ record.kind # "removal" /\ record.kind # "setting"
  BY <1>2 DEF FormRequest, Idle
<1> HIDE DEF record
<1> QED BY <1>3, <1>4, FormReads DEF formState

\* A form or a question that is created has a name nobody had.
LEMMA FormCreations ==
  ASSUME FormOK, NEW r \in Requests, NEW c \in Companies,
         \/ \E asks \in BOOLEAN : CreateForm(r, c, asks)
         \/ \E t \in Requests : AddQuestion(r, c, t)
  PROVE  FormOK'
<1>1. /\ Once(r)
      /\ UNCHANGED <<formOf, reply, filled, dropped, wanted, linkers, unchecked>>
      /\ form' = [form EXCEPT ![r] = c] \/ form' = form
      /\ \E t \in Requests \cup {None} : question' = [question EXCEPT ![r] = t]
  BY DEF CreateForm, AddQuestion
<1>2. /\ RequestStep /\ r \notin ended /\ ended' = ended \cup {r} /\ req[r] = Idle /\ req' = req
      /\ \A q \in Requests \ {r} : saw'[q] = saw[q]
  BY <1>1, OnceStep DEF FormOK
<1>3. /\ form \in [Requests -> Companies \cup {None}]
      /\ question \in [Requests -> Requests \cup {None}]
  BY DEF FormOK, FormTypeOK
<1>4. /\ \A k \in Requests \ {r} : form'[k] = form[k] /\ question'[k] = question[k]
      /\ form' \in [Requests -> Companies \cup {None}]
      /\ question' \in [Requests -> Requests \cup {None}]
  BY <1>1, <1>3
<1>5. FormTypeOK'
  BY <1>1, <1>4 DEF FormOK, FormTypeOK
<1>6. FormsLast
  BY <1>1, <1>2, <1>4, QuestionTyped DEF FormsLast
<1>7. FormNamesEnded'
  <2>1. \A k \in Requests :
          /\ form'[k] # None \/ question'[k] # None \/ filled'[k] # None => k \in ended'
          /\ filled'[k] # None => filled'[k] \subseteq ended'
          /\ \A f \in Requests : <<k, f>> \in reply' => k \in ended'
    <3> SUFFICES ASSUME NEW k \in Requests
        PROVE  /\ form'[k] # None \/ question'[k] # None \/ filled[k] # None => k \in ended'
               /\ filled[k] # None => filled[k] \subseteq ended'
               /\ \A f \in Requests : <<k, f>> \in reply => k \in ended'
      BY <1>1
    <3>1. /\ form[k] # None \/ question[k] # None \/ filled[k] # None => k \in ended
          /\ filled[k] # None => filled[k] \subseteq ended
          /\ \A f \in Requests : <<k, f>> \in reply => k \in ended
      BY DEF FormOK, FormNamesEnded
    <3> QED BY <1>2, <1>4, <3>1
  <2>2. \A d \in Companies : LinksOf(d)' \subseteq linkers'[d] /\ linkers'[d] \subseteq ended'
    BY <1>1, <1>2, LinksFollow DEF FormOK, FormNamesEnded
  <2> QED BY <2>1, <2>2 DEF FormNamesEnded
<1>8. AnswersAreWhole'
  <2> SUFFICES ASSUME NEW q \in Requests, filled[q] # None
      PROVE  {f \in Requests : <<q, f>> \in reply} = {f \in filled[q] : question'[f] # None}
    BY <1>1 DEF AnswersAreWhole
  <2>1. {f \in Requests : <<q, f>> \in reply} = {f \in filled[q] : question[f] # None}
    BY DEF FormOK, AnswersAreWhole
  <2>2. filled[q] \subseteq ended /\ filled[q] \subseteq Requests
    BY QuestionTyped DEF FormOK, FormNamesEnded
  <2>3. \A f \in filled[q] : question'[f] = question[f]
    BY <1>2, <1>4, <2>2
  <2> QED BY <2>1, <2>3
<1>9. QuestionsGoByTheirOwner'
  BY <1>1, <1>6, DroppedStay
<1> QED BY <1>1, <1>2, <1>5, <1>6, <1>7, <1>8, <1>9, IdleFormsNext, FormsStay

\* A question goes with the answers to it, from a form of the company that asked.
LEMMA QuestionsGo ==
  ASSUME FormOK, NEW r \in Requests, DeleteQuestionCommit(r)
  PROVE  FormOK'
<1> DEFINE c == req[r].company
           removed == req[r].question
           from == question[removed]
<1>1. /\ Doing(r, "removal") /\ End(r)
      /\ UNCHANGED <<form, formOf, filled, wanted, linkers, unchecked>>
      /\ question' = [question EXCEPT ![removed] = None]
      /\ reply' = {a \in reply : a[2] # removed}
      /\ dropped' = IF from = None THEN dropped
                    ELSE dropped \cup {[by |-> c, from |-> from]}
  BY DEF DeleteQuestionCommit
<1>2. /\ c \in Companies /\ removed \in Requests /\ removed \in ended
      /\ from # None => form[from] = c
  BY <1>1, FormTyped DEF DeletionOK
<1>3. /\ RequestStep /\ saw' = saw /\ req'[r] = Idle /\ ended' = ended \cup {r}
      /\ \A q \in Requests \ {r} : req'[q] = req[q]
  BY <1>1, EndStep DEF FormOK
<1>4. from \in Requests \cup {None}
  BY <1>2, QuestionTyped
<1> HIDE DEF c, removed, from
<1>5. /\ question \in [Requests -> Requests \cup {None}]
      /\ question' \in [Requests -> Requests \cup {None}]
      /\ question'[removed] = None
      /\ \A f \in Requests \ {removed} : question'[f] = question[f]
  BY <1>1, <1>2 DEF FormOK, FormTypeOK
<1> DEFINE deletion == [by |-> c, from |-> from]
<1>6. /\ \A d \in dropped' : d \in dropped \/ (from # None /\ d = deletion)
      /\ deletion.by = c /\ deletion.from = from
      /\ from # None => deletion \in [by : Companies, from : Requests]
  BY <1>1, <1>2, <1>4
<1> HIDE DEF deletion
<1>7. FormTypeOK'
  <2>1. dropped' \subseteq [by : Companies, from : Requests]
    <3>1. dropped \subseteq [by : Companies, from : Requests]
      BY DEF FormOK, FormTypeOK
    <3> QED BY <1>6, <3>1
  <2>2. reply' \subseteq Requests \X Requests
    BY <1>1 DEF FormOK, FormTypeOK
  <2> QED BY <1>1, <1>5, <2>1, <2>2 DEF FormOK, FormTypeOK
<1>8. FormsLast
  BY <1>1, <1>3, <1>5, QuestionTyped DEF FormsLast
<1>9. FormNamesEnded'
  <2>1. \A k \in Requests :
          /\ form'[k] # None \/ question'[k] # None \/ filled'[k] # None => k \in ended'
          /\ filled'[k] # None => filled'[k] \subseteq ended'
          /\ \A f \in Requests : <<k, f>> \in reply' => k \in ended'
    <3> SUFFICES ASSUME NEW k \in Requests
        PROVE  /\ form[k] # None \/ question'[k] # None \/ filled[k] # None => k \in ended'
               /\ filled[k] # None => filled[k] \subseteq ended'
               /\ \A f \in Requests : <<k, f>> \in reply' => k \in ended'
      BY <1>1
    <3>1. /\ form[k] # None \/ question[k] # None \/ filled[k] # None => k \in ended
          /\ filled[k] # None => filled[k] \subseteq ended
          /\ \A f \in Requests : <<k, f>> \in reply => k \in ended
      BY DEF FormOK, FormNamesEnded
    <3>2. reply' \subseteq reply
      BY <1>1
    <3> QED BY <1>3, <1>5, <3>1, <3>2
  <2>2. \A d \in Companies : LinksOf(d)' \subseteq linkers'[d] /\ linkers'[d] \subseteq ended'
    BY <1>1, <1>3, LinksFollow DEF FormOK, FormNamesEnded
  <2> QED BY <2>1, <2>2 DEF FormNamesEnded
<1>10. AnswersAreWhole'
  <2> SUFFICES ASSUME NEW q \in Requests, filled[q] # None
      PROVE  {f \in Requests : <<q, f>> \in reply'} = {f \in filled[q] : question'[f] # None}
    BY <1>1 DEF AnswersAreWhole
  <2>1. {f \in Requests : <<q, f>> \in reply} = {f \in filled[q] : question[f] # None}
    BY DEF FormOK, AnswersAreWhole
  <2>2. filled[q] \subseteq Requests
    BY QuestionTyped DEF FormOK, FormNamesEnded
  <2>3. \A f \in Requests : <<q, f>> \in reply' <=> <<q, f>> \in reply /\ f # removed
    BY <1>1
  <2>4. \A f \in Requests : <<q, f>> \in reply <=> f \in filled[q] /\ question[f] # None
    BY <2>1, <2>2
  <2>5. \A f \in Requests : <<q, f>> \in reply' <=> f \in filled[q] /\ question'[f] # None
    BY <1>5, <2>3, <2>4
  <2> QED BY <2>2, <2>5
<1>11. QuestionsGoByTheirOwner'
  <2> SUFFICES ASSUME NEW d \in dropped' PROVE form[d.from] = d.by
    BY <1>1 DEF QuestionsGoByTheirOwner
  <2>1. CASE d \in dropped
    BY <2>1 DEF FormOK, QuestionsGoByTheirOwner
  <2>2. CASE d \notin dropped
    <3>1. from # None /\ d = deletion
      BY <1>6, <2>2
    <3> QED BY <1>2, <1>6, <3>1
  <2> QED BY <2>1, <2>2
<1> QED BY <1>1, <1>3, <1>7, <1>8, <1>9, <1>10, <1>11, IdleFormsNext, FormsStay

\* An application is sent, with answers to questions that are there.
LEMMA AnswersSent ==
  ASSUME FormOK, NEW r \in Requests, NEW given \in SUBSET Requests, SendAnswers(r, given)
  PROVE  FormOK'
<1>1. /\ Doing(r, "page") /\ End(r) /\ given \subseteq req[r].questions
      /\ \A f \in given : question[f] # None
      /\ reply' = reply \cup {<<r, f>> : f \in given}
      /\ filled' = [filled EXCEPT ![r] = given]
      /\ UNCHANGED <<form, question, formOf, dropped, wanted, linkers, unchecked>>
  BY DEF SendAnswers
<1>2. given \subseteq ended
  BY <1>1, FormTyped
<1>3. /\ RequestStep /\ saw' = saw /\ req'[r] = Idle /\ ended' = ended \cup {r}
      /\ r \notin ended
      /\ \A q \in Requests \ {r} : req'[q] = req[q]
  BY <1>1, EndStep DEF FormOK
<1>4. filled \in [Requests -> (SUBSET Requests) \cup {None}]
  BY DEF FormOK, FormTypeOK
<1>5. /\ filled'[r] = given
      /\ \A q \in Requests \ {r} : filled'[q] = filled[q]
      /\ filled' \in [Requests -> (SUBSET Requests) \cup {None}]
  BY <1>1, <1>4
<1>6. \A q, f \in Requests :
        <<q, f>> \in reply' <=> <<q, f>> \in reply \/ (q = r /\ f \in given)
  BY <1>1
<1>7. FormTypeOK'
  <2>1. reply' \subseteq Requests \X Requests
    BY <1>1 DEF FormOK, FormTypeOK
  <2> QED BY <1>1, <1>5, <2>1 DEF FormOK, FormTypeOK
<1>8. FormsLast
  BY <1>1, <1>3 DEF FormsLast
<1>9. FormNamesEnded'
  <2>1. \A k \in Requests :
          /\ form'[k] # None \/ question'[k] # None \/ filled'[k] # None => k \in ended'
          /\ filled'[k] # None => filled'[k] \subseteq ended'
          /\ \A f \in Requests : <<k, f>> \in reply' => k \in ended'
    <3> SUFFICES ASSUME NEW k \in Requests
        PROVE  /\ form[k] # None \/ question[k] # None \/ filled'[k] # None => k \in ended'
               /\ filled'[k] # None => filled'[k] \subseteq ended'
               /\ \A f \in Requests : <<k, f>> \in reply' => k \in ended'
      BY <1>1
    <3>1. /\ form[k] # None \/ question[k] # None \/ filled[k] # None => k \in ended
          /\ filled[k] # None => filled[k] \subseteq ended
          /\ \A f \in Requests : <<k, f>> \in reply => k \in ended
      BY DEF FormOK, FormNamesEnded
    <3> QED BY <1>2, <1>3, <1>5, <1>6, <3>1
  <2>2. \A d \in Companies : LinksOf(d)' \subseteq linkers'[d] /\ linkers'[d] \subseteq ended'
    BY <1>1, <1>3, LinksFollow DEF FormOK, FormNamesEnded
  <2> QED BY <2>1, <2>2 DEF FormNamesEnded
<1>10. AnswersAreWhole'
  <2> SUFFICES ASSUME NEW q \in Requests, filled'[q] # None
      PROVE  {f \in Requests : <<q, f>> \in reply'} = {f \in filled'[q] : question[f] # None}
    BY <1>1 DEF AnswersAreWhole
  <2>1. CASE q = r
    <3>1. \A f \in Requests : <<r, f>> \notin reply
      BY <1>3 DEF FormOK, FormNamesEnded
    <3>2. \A f \in Requests : <<r, f>> \in reply' <=> f \in given
      BY <1>6, <3>1
    <3> QED BY <1>1, <1>5, <2>1, <3>2
  <2>2. CASE q # r
    <3>1. {f \in Requests : <<q, f>> \in reply} = {f \in filled[q] : question[f] # None}
      BY <1>5, <2>2 DEF FormOK, AnswersAreWhole
    <3>2. \A f \in Requests : <<q, f>> \in reply' <=> <<q, f>> \in reply
      BY <1>6, <2>2
    <3> QED BY <1>5, <2>2, <3>1, <3>2
  <2> QED BY <2>1, <2>2
<1>11. QuestionsGoByTheirOwner'
  BY <1>1, <1>8, DroppedStay
<1> QED BY <1>1, <1>3, <1>7, <1>8, <1>9, <1>10, <1>11, IdleFormsNext, FormsStay

\* A request ends that has set the form of an offer: unless another set it
\* meanwhile, what the request read is what it replaces.
LEMMA FormsSet ==
  ASSUME FormOK, NEW r \in Requests, SetFormCommit(r)
  PROVE  FormOK'
<1>1. PICK c \in Companies, t \in Requests \cup {None}, l \in Requests \cup {None},
           was \in Requests \cup {None}, row \in Requests :
        /\ c = req[r].company /\ t = req[r].form /\ l = req[r].link /\ was = req[r].was
        /\ row = IF l = None THEN r ELSE l
        /\ IF l = None THEN was = None /\ LinksOf(c) \cap saw[r] = {} ELSE l \in linkers[c]
        /\ FormRead(c, l, was) \/ \E q \in linkers[c] : q \notin saw[r]
        /\ t # None => t \in ended /\ (r \notin unchecked => form[t] = c)
  BY FormTyped DEF SetFormCommit, SettingOK
<1>2. /\ End(r)
      /\ UNCHANGED <<form, question, reply, filled, dropped, unchecked>>
      /\ t # None /\ l # None /\ t # was => formOf[c][l] # None
      /\ formOf' = IF t = was THEN formOf ELSE [formOf EXCEPT ![c][row] = t]
      /\ wanted' = [wanted EXCEPT ![c] = t]
      /\ linkers' = [linkers EXCEPT ![c] = @ \cup {r}]
  BY <1>1 DEF SetFormCommit
<1>3. /\ RequestStep /\ saw' = saw /\ req'[r] = Idle /\ ended' = ended \cup {r}
      /\ r \notin ended
      /\ \A q \in Requests \ {r} : req'[q] = req[q]
  BY <1>2, EndStep DEF FormOK
<1>4. (l = None => row = r) /\ (l # None => row = l)
  BY <1>1
<1>5. /\ formOf \in [Companies -> [Requests -> Requests \cup {None}]]
      /\ wanted \in [Companies -> Requests \cup {None}]
      /\ linkers \in [Companies -> SUBSET Requests]
  BY DEF FormOK, FormTypeOK
<1>6. /\ formOf' \in [Companies -> [Requests -> Requests \cup {None}]]
      /\ formOf'[c][row] = IF t = was THEN formOf[c][row] ELSE t
      /\ \A k \in Requests \ {row} : formOf'[c][k] = formOf[c][k]
      /\ \A d \in Companies \ {c} : formOf'[d] = formOf[d]
  BY <1>1, <1>2, <1>4, <1>5
<1>7. /\ wanted' \in [Companies -> Requests \cup {None}]
      /\ linkers' \in [Companies -> SUBSET Requests]
      /\ wanted'[c] = t /\ linkers'[c] = linkers[c] \cup {r}
      /\ \A d \in Companies \ {c} : wanted'[d] = wanted[d] /\ linkers'[d] = linkers[d]
  BY <1>1, <1>2, <1>5
<1>8. \A d \in Companies \ {c} : LinksOf(d)' = LinksOf(d) /\ FormsOf(d)' = FormsOf(d)
  BY <1>6, LinksFollow
\* A row is added only if none was found.
<1>9. LinksOf(c)' \subseteq LinksOf(c) \cup (IF l = None THEN {r} ELSE {})
  BY <1>1, <1>2, <1>4, <1>6 DEF LinksOf
<1>10. FormsOf(c)' \subseteq FormsOf(c) \cup {t}
  BY <1>4, <1>6 DEF LinksOf, FormsOf
<1>11. FormTypeOK'
  BY <1>1, <1>2, <1>6, <1>7 DEF FormOK, FormTypeOK
<1>12. FormsLast
  BY <1>1, <1>2, <1>3, <1>7 DEF FormsLast
<1>13. FormNamesEnded'
  <2>1. \A k \in Requests :
          /\ form'[k] # None \/ question'[k] # None \/ filled'[k] # None => k \in ended'
          /\ filled'[k] # None => filled'[k] \subseteq ended'
          /\ \A f \in Requests : <<k, f>> \in reply' => k \in ended'
    BY <1>1, <1>2, <1>3 DEF FormOK, FormNamesEnded
  <2>2. \A d \in Companies : LinksOf(d) \subseteq linkers[d] /\ linkers[d] \subseteq ended
    BY DEF FormOK, FormNamesEnded
  <2>3. \A d \in Companies : LinksOf(d)' \subseteq linkers'[d] /\ linkers'[d] \subseteq ended'
    BY <1>3, <1>7, <1>8, <1>9, <2>2
  <2> QED BY <2>1, <2>3 DEF FormNamesEnded
<1>14. AnswersAreWhole' /\ QuestionsGoByTheirOwner'
  BY <1>1, <1>2, <1>12, DroppedStay DEF FormOK, AnswersAreWhole
<1>15. \A q \in linkers[c] : q \in Requests /\ q \in ended
  BY <1>1, <1>2, <1>5 DEF FormOK, FormNamesEnded
<1>16. \A q \in linkers[c] : q \notin saw[r] => Overlap(q, r)' /\ Overlap(r, q)'
  BY <1>1, <1>2, <1>15, EndingOverlaps DEF FormOK
<1>17. FormsAreOwn'
  <2> SUFFICES ASSUME NEW d \in Companies, linkers'[d] \cap unchecked = {},
                      NEW f \in FormsOf(d)', f # None
      PROVE  form[f] = d
    <3>1. \A d \in Companies : None \notin FormsOf(d)'
      BY DEF FormsOf, LinksOf
    <3> QED BY <1>1, <1>2, <3>1 DEF FormsAreOwn
  <2>1. linkers[d] \cap unchecked = {}
    BY <1>7
  <2>2. f \in FormsOf(d) => form[f] = d
    BY <2>1 DEF FormOK, FormsAreOwn
  <2>3. CASE d # c \/ f \in FormsOf(d)
    BY <1>8, <2>2, <2>3
  <2>4. CASE d = c /\ f = t
    <3>1. r \notin unchecked
      BY <1>7, <2>4
    <3> QED BY <1>1, <1>2, <2>4, <3>1
  <2> QED BY <1>10, <2>3, <2>4
<1>18. OneFormUnlessOverlapped'
  <2> SUFFICES ASSUME NEW d \in Companies, NEW p \in LinksOf(d)', NEW k \in LinksOf(d)', p # k
      PROVE  Overlap(p, k)'
    BY DEF OneFormUnlessOverlapped
  <2>1. CASE p \in LinksOf(d) /\ k \in LinksOf(d)
    <3>1. p \in Requests /\ k \in Requests /\ Overlap(p, k)
      BY <2>1, FormsTyped DEF FormOK, OneFormUnlessOverlapped
    <3> QED BY <1>3, <3>1, OverlapStays
  <2>2. CASE d = c /\ l = None /\ (p = r \/ k = r)
    <3>1. \A q \in LinksOf(c) : q \in linkers[c] /\ q \notin saw[r]
      BY <1>1, <1>2, <2>2 DEF FormOK, FormNamesEnded
    <3>2. (p = r /\ k \in LinksOf(c)) \/ (k = r /\ p \in LinksOf(c))
      BY <1>9, <2>2
    <3> QED BY <1>16, <3>1, <3>2
  <2> QED BY <1>8, <1>9, <2>1, <2>2
<1>19. FormsAreAsAsked'
  <2> SUFFICES ASSUME NEW d \in Companies, \A q, p \in linkers'[d] : ~Overlap(q, p)'
      PROVE  FormsOf(d)' = {wanted'[d]} \ {None}
    BY DEF FormsAreAsAsked
  <2>1. CASE d # c
    <3>1. linkers[d] \subseteq Requests
      BY <1>5
    <3>2. \A q, p \in linkers[d] : ~Overlap(q, p)
      BY <1>3, <1>7, <2>1, <3>1, OverlapStays
    <3> QED BY <1>7, <1>8, <2>1, <3>2 DEF FormOK, FormsAreAsAsked
  <2>2. CASE d = c
    <3>1. \A q \in linkers[c] : q \in saw[r]
      BY <1>7, <1>16, <2>2
    <3>2. FormRead(c, l, was)
      BY <1>1, <1>2, <3>1
    <3>3. \A k \in Requests : formOf'[c][k] = IF k = row THEN t ELSE None
      BY <1>1, <1>2, <1>4, <1>6, <3>2 DEF FormRead, LinksOf
    <3>4. FormsOf(c)' = {t} \ {None}
      BY <1>4, <3>3 DEF FormsOf, LinksOf
    <3> QED BY <1>7, <2>2, <3>4
  <2> QED BY <2>1, <2>2
<1>20. ASSUME NEW q \in Requests PROVE FormRequestOK(q)'
  <2>1. CASE q = r
    BY <1>3, <2>1, IdleFormsNext
  <2>2. CASE q # r
    <3>1. r \notin saw[q] /\ req'[q] = req[q] /\ saw'[q] = saw[q]
      BY <1>3, <2>2 DEF FormOK, RequestOK
    <3>2. \A d \in Companies :
            \/ formOf'[d] = formOf[d]
            \/ /\ LinksOf(d)' \cap saw[q] \subseteq LinksOf(d)
               /\ \E p \in linkers'[d] : p \notin saw[q]
      BY <1>6, <1>7, <1>9, <3>1
    <3> QED BY <1>1, <1>2, <1>12, <3>1, <3>2, FormAskedStays
  <2> QED BY <2>1, <2>2
<1> QED
  BY <1>3, <1>11, <1>13, <1>14, <1>17, <1>18, <1>19, <1>20 DEF FormOK, RequestStep

LEMMA FormSteps == FormOK /\ [FormNext]_formVars => FormOK'
<1> SUFFICES ASSUME FormOK, [FormNext]_formVars PROVE FormOK'
  OBVIOUS
<1>1. CASE UNCHANGED formVars
  <2>1. RequestStep /\ req' = req /\ saw' = saw /\ ended' = ended /\ UNCHANGED formState
    BY <1>1, QuietStep DEF formVars, FormOK
  <2>2. FormsLast
    BY <2>1 DEF FormsLast, formState
  <2>3. FormTypeOK' /\ FormNamesEnded' /\ AnswersAreWhole' /\ QuestionsGoByTheirOwner'
    BY <2>1
       DEF formState, FormOK, FormTypeOK, FormNamesEnded, LinksOf, AnswersAreWhole,
           QuestionsGoByTheirOwner
  <2> QED BY <2>1, <2>2, <2>3, FormsStay DEF formState
<1>2. CASE FormNext
  BY <1>2, FormCreations, DeletionReads, QuestionsGo, SettingReads, FormsSet, PageReads,
     AnswersSent, FormAborts DEF FormNext
<1> QED BY <1>1, <1>2

\* Forms, questions, answers and requests keep their types.
THEOREM FormsAreTyped == FormSpec => []FormTypeOK
<1>1. FormOK => FormTypeOK
  BY DEF FormOK
<1> QED BY <1>1, FormsBegin, FormSteps, PTL DEF FormSpec

\* An application keeps the answers to the questions that still stand, only the
\* owner of a form deletes questions, and an offer has the form it was given, and
\* no second one unless the requests that added them overlapped.
THEOREM FormsSound == FormSpec => []FormsAreSound
<1>1. FormOK => FormsAreSound
  BY DEF FormOK, FormsAreSound
<1> QED BY <1>1, FormsBegin, FormSteps, PTL DEF FormSpec

-----------------------------------------------------------------------------
(* How long applications are kept.                                         *)

RetentionRequest ==
  {Idle}
    \cup [kind : {"retention"}, applicant : Applicants,
          was : Dates \cup {None}, until : Dates \cup {None}]
    \cup [kind : {"anonymize", "delete data"}, applicant : Applicants]
    \cup [kind : {"clean up"}, rest : SUBSET Applicants, written : SUBSET Applicants,
          named : SUBSET Applicants]

\* An application a clean-up has found is past its date, unless another date was
\* written since.
Overdue(r, a) ==
  InKeeping(a) =>
    \/ kept[a].until # None /\ kept[a].until <= now
    \/ setBy[a] # None /\ setBy[a] \notin saw[r]

CleanUpOK(r) ==
  /\ \A a \in req[r].rest \cup req[r].written : Overdue(r, a)
  /\ \A a \in req[r].rest \ req[r].named : InKeeping(a) => ~kept[a].cv
  /\ \A a \in req[r].written : InKeeping(a) /\ (a \in onDisk => a \in jammed)

\* What a pending request knows of the applications it is about.
KeepRequestOK(r) ==
  /\ req[r] \in RetentionRequest
  /\ Doing(r, "anonymize") => (req[r].applicant \in onDisk => req[r].applicant \in jammed)
  /\ Doing(r, "clean up") => CleanUpOK(r)

\* A row is written by one clean-up at a time.
WrittenOnce ==
  \A q, r \in Requests :
    q # r /\ Doing(q, "clean up") /\ Doing(r, "clean up")
      => req[q].written \cap req[r].written = {}

\* A row that names no file has none, or one that could not be removed.
UnnamedFilesAreGone ==
  \A a \in Applicants : InKeeping(a) =>
    /\ kept[a].erased => ~kept[a].cv
    /\ ~kept[a].cv /\ a \in onDisk => a \in jammed

CleanersEnded == \A a \in Applicants : cleanedBy[a] # None => cleanedBy[a] \in ended

KeepOK ==
  /\ RequestOK
  /\ RetentionTypeOK
  /\ WrittenOnce
  /\ UnnamedFilesAreGone
  /\ CleanersEnded
  /\ \A r \in Requests : KeepRequestOK(r)
  /\ NamedFilesExist
  /\ CleanUpsHonourRetention

LEMMA KeptDiffer == NoKept \notin KeptRow
<1> SUFFICES ASSUME NoKept \in KeptRow PROVE FALSE
  OBVIOUS
<1>1. DOMAIN NoKept = {"until"}
  BY DEF NoKept
<1>2. DOMAIN NoKept = {"until", "cv", "erased"}
  BY DEF KeptRow
<1> QED BY <1>1, <1>2

LEMMA ErasedRow ==
  ASSUME NEW row \in KeptRow
  PROVE  /\ Erased(row) \in KeptRow /\ Erased(row).until = row.until
         /\ Erased(row).cv = FALSE /\ Erased(row).erased = TRUE
BY DEF Erased, KeptRow

LEMMA DatedRow ==
  ASSUME NEW row \in KeptRow, NEW until \in Dates \cup {None}
  PROVE  /\ [row EXCEPT !.until = until] \in KeptRow
         /\ [row EXCEPT !.until = until].cv = row.cv
         /\ [row EXCEPT !.until = until].erased = row.erased
BY DEF KeptRow

LEMMA KeptTyped ==
  ASSUME KeepOK, NEW a \in Applicants
  PROVE  /\ kept[a] \in KeptRow \cup {NoKept}
         /\ InKeeping(a) =>
              /\ kept[a] \in KeptRow /\ kept[a].until \in Dates \cup {None}
              /\ kept[a].cv \in BOOLEAN /\ kept[a].erased \in BOOLEAN
BY DEF KeepOK, RetentionTypeOK, InKeeping, KeptRow

LEMMA IdleKeeps == \A r \in Requests : req[r] = Idle => KeepRequestOK(r)
BY DEF KeepRequestOK, RetentionRequest, Doing, Idle

LEMMA IdleKeepsNext == \A r \in Requests : req'[r] = Idle => KeepRequestOK(r)'
BY DEF KeepRequestOK, RetentionRequest, Doing, Idle

LEMMA KeepBegins == RetentionInit => KeepOK
<1> SUFFICES ASSUME RetentionInit PROVE KeepOK
  OBVIOUS
<1>1. RequestOK /\ \A r \in Requests : KeepRequestOK(r)
  BY RequestsBegin, IdleKeeps DEF RetentionInit, RequestInit
<1>2. PICK withCv \in SUBSET Applicants, until \in {None, MaxNow} :
        /\ kept = [a \in Applicants |->
                     [until |-> until, cv |-> a \in withCv, erased |-> FALSE]]
        /\ onDisk = withCv
  BY DEF RetentionInit
<1>3. MaxNow \in Dates /\ 0 \in Dates
  BY MaxNowAssumption DEF Dates
<1>4. \A a \in Applicants :
        /\ kept[a] \in KeptRow /\ kept[a].cv = (a \in onDisk) /\ kept[a].erased = FALSE
  BY <1>2, <1>3 DEF KeptRow
<1>5. RetentionTypeOK
  BY <1>2, <1>3, <1>4 DEF RetentionInit, RetentionTypeOK
<1>6. WrittenOnce
  <2>1. \A r \in Requests : req[r].kind = "idle"
    BY DEF RetentionInit, RequestInit, Idle
  <2> QED BY <2>1 DEF WrittenOnce, Doing
<1>7. UnnamedFilesAreGone /\ NamedFilesExist
  BY <1>4 DEF UnnamedFilesAreGone, NamedFilesExist
<1>8. CleanersEnded /\ CleanUpsHonourRetention
  BY DEF RetentionInit, CleanersEnded, CleanUpsHonourRetention
<1> QED BY <1>1, <1>5, <1>6, <1>7, <1>8 DEF KeepOK

LEMMA KeepTyped ==
  ASSUME KeepOK, NEW r \in Requests
  PROVE  /\ Doing(r, "retention") =>
              /\ req[r].applicant \in Applicants /\ req[r].was \in Dates \cup {None}
              /\ req[r].until \in Dates \cup {None}
         /\ Doing(r, "anonymize") =>
              /\ req[r].applicant \in Applicants
              /\ req[r].applicant \in onDisk => req[r].applicant \in jammed
         /\ Doing(r, "delete data") => req[r].applicant \in Applicants
         /\ Doing(r, "clean up") =>
              /\ req[r].rest \subseteq Applicants /\ req[r].written \subseteq Applicants
              /\ req[r].named \subseteq Applicants
              /\ CleanUpOK(r)
         /\ Removed(r) \subseteq Applicants
<1>1. KeepRequestOK(r)
  BY DEF KeepOK
<1>2. CASE req[r] = Idle
  BY <1>2 DEF Doing, Idle, Removed
<1>3. CASE req[r] \in [kind : {"retention"}, applicant : Applicants,
                       was : Dates \cup {None}, until : Dates \cup {None}]
  BY <1>3 DEF Doing, Removed
<1>4. CASE req[r] \in [kind : {"anonymize", "delete data"}, applicant : Applicants]
  BY <1>1, <1>4 DEF KeepRequestOK, Doing, Removed
<1>5. CASE req[r] \in [kind : {"clean up"}, rest : SUBSET Applicants,
                       written : SUBSET Applicants, named : SUBSET Applicants]
  BY <1>1, <1>5 DEF KeepRequestOK, Doing, Removed
<1> QED BY <1>1, <1>2, <1>3, <1>4, <1>5 DEF KeepRequestOK, RetentionRequest

\* Time goes on, files and rows go, and a date is written by one who has not ended.
KeptGoes ==
  /\ now' \in Dates /\ now <= now'
  /\ onDisk' \subseteq onDisk /\ jammed \subseteq jammed'
  /\ \A a \in Applicants : InKeeping(a)' =>
       /\ InKeeping(a)
       /\ kept'[a].cv => kept[a].cv
       /\ \/ kept'[a].until = kept[a].until /\ setBy'[a] = setBy[a]
          \/ setBy'[a] \in Requests /\ setBy'[a] \notin ended

LEMMA OverdueStays ==
  ASSUME KeepOK, KeptGoes, NEW r \in Requests, NEW a \in Applicants, Overdue(r, a),
         saw'[r] = saw[r]
  PROVE  Overdue(r, a)'
<1> SUFFICES ASSUME InKeeping(a)'
    PROVE  \/ kept'[a].until # None /\ kept'[a].until <= now'
           \/ setBy'[a] # None /\ setBy'[a] \notin saw[r]
  BY DEF Overdue
<1>1. InKeeping(a) /\ kept[a].until \in Dates \cup {None} /\ now \in Dates
  BY KeptTyped DEF KeptGoes, KeepOK, RetentionTypeOK
<1>2. CASE setBy'[a] \in Requests /\ setBy'[a] \notin ended
  BY <1>2, NoneAssumption DEF KeepOK, RequestOK
<1>3. CASE kept'[a].until = kept[a].until /\ setBy'[a] = setBy[a]
  <2>1. CASE setBy[a] # None /\ setBy[a] \notin saw[r]
    BY <1>3, <2>1
  <2>2. CASE kept[a].until # None /\ kept[a].until <= now
    <3>1. kept[a].until \in Nat /\ now \in Nat /\ now' \in Nat /\ now <= now'
      BY <1>1, <2>2, MaxNowAssumption DEF Dates, KeptGoes
    <3> QED BY <1>3, <2>2, <3>1
  <2> QED BY <1>1, <2>1, <2>2 DEF Overdue
<1> QED BY <1>2, <1>3 DEF KeptGoes

\* What a request knows stays, if the rows it has written do.
LEMMA KeepAskedStays ==
  ASSUME KeepOK, KeptGoes, NEW r \in Requests, req'[r] = req[r], saw'[r] = saw[r],
         Doing(r, "clean up") => \A a \in req[r].written : InKeeping(a)'
  PROVE  KeepRequestOK(r)'
<1>1. KeepRequestOK(r)
  BY DEF KeepOK
<1>2. CASE Doing(r, "clean up")
  <2>1. CleanUpOK(r) /\ req[r].rest \subseteq Applicants /\ req[r].written \subseteq Applicants
    BY <1>2, KeepTyped
  <2>2. \A a \in req[r].rest \cup req[r].written : Overdue(r, a)'
    BY <2>1, OverdueStays DEF CleanUpOK
  <2>3. \A a \in req[r].rest \ req[r].named : InKeeping(a)' => ~kept'[a].cv
    BY <2>1 DEF CleanUpOK, KeptGoes
  <2>4. \A a \in req[r].written : InKeeping(a)' /\ (a \in onDisk' => a \in jammed')
    BY <1>2, <2>1 DEF CleanUpOK, KeptGoes
  <2>5. CleanUpOK(r)'
    BY <2>2, <2>3, <2>4 DEF CleanUpOK
  <2> QED BY <1>1, <1>2, <2>5 DEF KeepRequestOK, RetentionRequest, Doing
<1>3. CASE ~Doing(r, "clean up")
  <2>1. (req[r] \in RetentionRequest)'
    BY <1>1 DEF KeepRequestOK, RetentionRequest
  <2>2. onDisk' \subseteq onDisk /\ jammed \subseteq jammed'
    BY DEF KeptGoes
  <2> QED BY <1>1, <1>3, <2>1, <2>2 DEF KeepRequestOK, Doing
<1> QED BY <1>2, <1>3

\* Nobody has cleaned up what was dated after it began, whoever else does what.
LEMMA CleanedStay ==
  ASSUME KeepOK, RequestStep, KeptGoes, cleanedBy' = cleanedBy
  PROVE  CleanUpsHonourRetention' /\ CleanersEnded'
<1>1. CleanersEnded'
  BY DEF KeepOK, CleanersEnded, RequestStep
<1>2. CleanUpsHonourRetention'
  <2> SUFFICES ASSUME NEW a \in Applicants, InKeeping(a)', cleanedBy[a] # None,
                      kept'[a].until = None \/ kept'[a].until > now'
      PROVE  setBy'[a] # None /\ setBy'[a] \notin saw'[cleanedBy[a]]
    BY DEF CleanUpsHonourRetention
  <2>1. /\ cleanedBy[a] \in ended /\ cleanedBy[a] \in Requests
        /\ saw'[cleanedBy[a]] = saw[cleanedBy[a]] /\ saw[cleanedBy[a]] \subseteq ended
    BY DEF KeepOK, CleanersEnded, RequestOK, RequestStep, Begun
  <2>2. CASE setBy'[a] \in Requests /\ setBy'[a] \notin ended
    BY <2>1, <2>2, NoneAssumption
  <2>3. CASE kept'[a].until = kept[a].until /\ setBy'[a] = setBy[a]
    <3>1. /\ InKeeping(a) /\ kept[a].until \in Dates \cup {None}
          /\ now \in Dates /\ now' \in Dates /\ now <= now'
      BY KeptTyped DEF KeptGoes, KeepOK, RetentionTypeOK
    <3>2. kept[a].until = None \/ kept[a].until > now
      BY <2>3, <3>1, MaxNowAssumption DEF Dates
    <3> QED BY <2>1, <2>3, <3>1, <3>2 DEF KeepOK, CleanUpsHonourRetention
  <2> QED BY <2>2, <2>3 DEF KeptGoes
<1> QED BY <1>1, <1>2

\* Steps that clean nothing up: a file goes with a request that removes it, and a
\* row is left without a file only where the file is gone or could not be removed.
LEMMA KeepStays ==
  ASSUME KeepOK, RequestStep, KeptGoes, RetentionTypeOK', WrittenOnce',
         CleanersEnded', CleanUpsHonourRetention',
         cutOff \subseteq cutOff',
         \A a \in Applicants : InKeeping(a)' =>
           \/ kept'[a].cv = kept[a].cv /\ kept'[a].erased = kept[a].erased
           \/ kept'[a].cv = FALSE /\ (a \in onDisk' => a \in jammed'),
         \A a \in onDisk : a \in onDisk' \/ \E r \in Requests : a \in Removed(r)',
         \A r \in Requests : \A a \in Removed(r) :
           \/ a \in Removed(r)' \/ a \in cutOff' \/ a \in onDisk'
           \/ InKeeping(a)' => kept'[a].cv = FALSE,
         \A r \in Requests :
           \/ KeepRequestOK(r)'
           \/ /\ req'[r] = req[r] /\ saw'[r] = saw[r]
              /\ Doing(r, "clean up") => \A a \in req[r].written : InKeeping(a)'
  PROVE  KeepOK'
<1>1. \A r \in Requests : KeepRequestOK(r)'
  BY KeepAskedStays
<1>2. UnnamedFilesAreGone'
  <2> SUFFICES ASSUME NEW a \in Applicants, InKeeping(a)'
      PROVE  /\ kept'[a].erased => ~kept'[a].cv
             /\ ~kept'[a].cv /\ a \in onDisk' => a \in jammed'
    BY DEF UnnamedFilesAreGone
  <2>1. /\ InKeeping(a)
        /\ kept[a].erased => ~kept[a].cv
        /\ ~kept[a].cv /\ a \in onDisk => a \in jammed
        /\ onDisk' \subseteq onDisk /\ jammed \subseteq jammed'
    BY DEF KeptGoes, KeepOK, UnnamedFilesAreGone
  <2>2. CASE kept'[a].cv = kept[a].cv /\ kept'[a].erased = kept[a].erased
    BY <2>1, <2>2
  <2>3. CASE kept'[a].cv = FALSE /\ (a \in onDisk' => a \in jammed')
    BY <2>3
  <2> QED BY <2>2, <2>3
<1>3. NamedFilesExist'
  <2> SUFFICES ASSUME NEW a \in Applicants, InKeeping(a)', kept'[a].cv, a \notin onDisk',
                      a \notin cutOff'
      PROVE  \E r \in Requests : a \in Removed(r)'
    BY DEF NamedFilesExist
  <2>1. CASE a \in onDisk
    BY <2>1
  <2>2. CASE a \notin onDisk
    <3>1. InKeeping(a) /\ kept[a].cv
      BY DEF KeptGoes
    <3>2. PICK r \in Requests : a \in Removed(r)
      BY <2>2, <3>1 DEF KeepOK, NamedFilesExist
    <3>3. ~(kept'[a].cv = FALSE)
      OBVIOUS
    <3> QED BY <3>2, <3>3
  <2> QED BY <2>1, <2>2
<1> QED BY <1>1, <1>2, <1>3 DEF KeepOK, RequestStep

\* Nobody has written a row of another, if nobody has written one more.
LEMMA WrittenStay ==
  ASSUME KeepOK,
         \A r \in Requests :
           req'[r] = req[r] \/ (Doing(r, "clean up")' => req'[r].written = {})
  PROVE  WrittenOnce'
BY DEF KeepOK, WrittenOnce, Doing

LEMMA IdleWrites == \A r \in Requests : req'[r] = Idle => ~Doing(r, "clean up")'
BY DEF Doing, Idle

\* What a request has removed is a matter of what it has in memory.
LEMMA RemovedStays ==
  ASSUME NEW r \in Requests, req'[r] = req[r]
  PROVE  Removed(r)' = Removed(r)
BY DEF Removed, Doing

\* Steps of requests that have removed nothing, on rows as they are.
LEMMA RowsStay ==
  ASSUME KeepOK, UNCHANGED <<kept, setBy>>, now' \in Dates, now <= now',
         onDisk' \subseteq onDisk, jammed \subseteq jammed'
  PROVE  KeptGoes
BY DEF KeptGoes, InKeeping

LEMMA WrittenKept ==
  ASSUME KeepOK, NEW r \in Requests, Doing(r, "clean up"), NEW a \in req[r].written
  PROVE  a \in Applicants /\ InKeeping(a)
BY KeepTyped DEF CleanUpOK

LEMMA NowTyped ==
  ASSUME KeepOK
  PROVE  now \in Dates /\ now \in Nat /\ now <= now
BY MaxNowAssumption DEF KeepOK, RetentionTypeOK, Dates

LEMMA KeepAborts ==
  ASSUME KeepOK, NEW r \in Requests, RetentionAbort(r)
  PROVE  KeepOK'
<1>1. /\ End(r) /\ cutOff' = cutOff \cup (Removed(r) \ onDisk)
      /\ UNCHANGED <<now, kept, onDisk, setBy, cleanedBy, jammed>>
  BY DEF RetentionAbort
<1>2. /\ RequestStep /\ saw' = saw /\ req'[r] = Idle /\ ended' = ended \cup {r}
      /\ \A q \in Requests \ {r} : req'[q] = req[q]
  BY <1>1, EndStep DEF KeepOK
<1>3. RetentionTypeOK'
  BY <1>1, KeepTyped DEF KeepOK, RetentionTypeOK
<1>4. KeptGoes
  BY <1>1, NowTyped, RowsStay
<1>5. WrittenOnce'
  BY <1>2, IdleWrites, WrittenStay
<1>6. CleanersEnded' /\ CleanUpsHonourRetention'
  BY <1>1, <1>2, <1>4, CleanedStay
<1>7. \A q \in Requests : \A a \in Removed(q) :
        a \in Removed(q)' \/ a \in cutOff' \/ a \in onDisk'
  BY <1>1, <1>2, RemovedStays
<1>8. \A q \in Requests : Doing(q, "clean up") => \A a \in req[q].written : InKeeping(a)'
  BY <1>1, WrittenKept DEF InKeeping
<1> QED BY <1>1, <1>2, <1>3, <1>4, <1>5, <1>6, <1>7, <1>8, IdleKeepsNext, KeepStays

LEMMA TimePasses ==
  ASSUME KeepOK, Tick
  PROVE  KeepOK'
<1>1. /\ now < MaxNow /\ now' = now + 1
      /\ UNCHANGED requestVars
      /\ UNCHANGED <<kept, onDisk, setBy, cleanedBy, cutOff, jammed>>
  BY DEF Tick, requestVars
<1>2. RequestStep /\ saw' = saw /\ req' = req
  BY <1>1, QuietStep DEF KeepOK
<1>3. now' \in Dates /\ now <= now'
  BY <1>1, NowTyped, MaxNowAssumption DEF Dates
<1>4. RetentionTypeOK'
  BY <1>1, <1>3 DEF KeepOK, RetentionTypeOK
<1>5. KeptGoes
  BY <1>1, <1>3, RowsStay
<1>6. WrittenOnce'
  BY <1>2, WrittenStay
<1>7. CleanersEnded' /\ CleanUpsHonourRetention'
  BY <1>1, <1>2, <1>5, CleanedStay
<1>8. \A q \in Requests : Removed(q)' = Removed(q)
  BY <1>2, RemovedStays
<1>9. \A q \in Requests : Doing(q, "clean up") => \A a \in req[q].written : InKeeping(a)'
  BY <1>1, WrittenKept DEF InKeeping
<1> QED BY <1>1, <1>2, <1>4, <1>5, <1>6, <1>7, <1>8, <1>9, KeepStays

LEMMA IdleRemoves == \A r \in Requests : req[r] = Idle => Removed(r) = {}
<1> SUFFICES ASSUME NEW r \in Requests, req[r] = Idle PROVE Removed(r) = {}
  OBVIOUS
<1>1. req[r].kind = "idle"
  BY DEF Idle
<1>2. ~Doing(r, "anonymize") /\ ~Doing(r, "clean up")
  BY <1>1 DEF Doing
<1> QED BY <1>2 DEF Removed

\* A request begins, with what it has read, and may have removed one file.
LEMMA KeepReads ==
  ASSUME KeepOK, NEW r \in Requests, NEW record \in RetentionRequest, record # Idle,
         Begin(r, record), UNCHANGED <<now, kept, setBy, cleanedBy, cutOff>>,
         onDisk' \subseteq onDisk, jammed \subseteq jammed', jammed' \subseteq Applicants,
         onDisk \ onDisk' \subseteq Removed(r)', KeepRequestOK(r)',
         record.kind = "clean up" => record.written = {}
  PROVE  KeepOK'
<1>1. /\ RequestStep /\ req[r] = Idle /\ req'[r] = record
      /\ \A q \in Requests \ {r} : req'[q] = req[q] /\ saw'[q] = saw[q]
  BY BeginStep DEF KeepOK
<1>2. RetentionTypeOK'
  BY DEF KeepOK, RetentionTypeOK
<1>3. KeptGoes
  BY NowTyped, RowsStay
<1>4. WrittenOnce'
  BY <1>1, WrittenStay DEF Doing
<1>5. CleanersEnded' /\ CleanUpsHonourRetention'
  BY <1>1, <1>3, CleanedStay
<1>6. Removed(r) = {}
  BY <1>1, IdleRemoves
<1>7. \A q \in Requests : \A a \in Removed(q) : a \in Removed(q)'
  BY <1>1, <1>6, RemovedStays
<1>8. \A q \in Requests : Doing(q, "clean up") => \A a \in req[q].written : InKeeping(a)'
  BY WrittenKept DEF InKeeping
<1> QED BY <1>1, <1>2, <1>3, <1>4, <1>5, <1>7, <1>8, KeepStays

LEMMA DateReads ==
  ASSUME KeepOK, NEW r \in Requests, NEW a \in Applicants, NEW until \in Dates \cup {None},
         SetRetentionRead(r, a, until)
  PROVE  KeepOK'
<1>1. PICK was \in Dates \cup {None} : was = kept[a].until
  BY KeptTyped DEF SetRetentionRead
<1> DEFINE record == [kind |-> "retention", applicant |-> a, was |-> was, until |-> until]
<1>2. record \in RetentionRequest /\ record # Idle /\ record.kind = "retention"
  BY DEF RetentionRequest, Idle
<1>3. Begin(r, record) /\ UNCHANGED keptState
  BY <1>1 DEF SetRetentionRead
<1> HIDE DEF record
<1>4. req'[r] = record
  BY <1>2, <1>3, BeginStep DEF KeepOK
<1>5. KeepRequestOK(r)'
  BY <1>2, <1>4 DEF KeepRequestOK, RetentionRequest, Doing
<1>6. jammed \subseteq Applicants
  BY DEF KeepOK, RetentionTypeOK
<1> QED BY <1>2, <1>3, <1>5, <1>6, KeepReads DEF keptState

LEMMA DataDeletionReads ==
  ASSUME KeepOK, NEW r \in Requests, NEW a \in Applicants, DeleteDataRead(r, a)
  PROVE  KeepOK'
<1> DEFINE record == [kind |-> "delete data", applicant |-> a]
<1>2. record \in RetentionRequest /\ record # Idle /\ record.kind = "delete data"
  BY DEF RetentionRequest, Idle
<1>3. Begin(r, record) /\ UNCHANGED keptState
  BY DEF DeleteDataRead
<1> HIDE DEF record
<1>4. req'[r] = record
  BY <1>2, <1>3, BeginStep DEF KeepOK
<1>5. KeepRequestOK(r)'
  BY <1>2, <1>4 DEF KeepRequestOK, RetentionRequest, Doing
<1>6. jammed \subseteq Applicants
  BY DEF KeepOK, RetentionTypeOK
<1> QED BY <1>2, <1>3, <1>5, <1>6, KeepReads DEF keptState

\* The file of a row that is there is removed, or it cannot be, or the row names
\* none: then it is gone, or could not be removed before.
LEMMA FileRemoved ==
  ASSUME KeepOK, NEW a \in Applicants, NEW names, InKeeping(a),
         ~names => ~kept[a].cv, RemoveFile(a, names)
  PROVE  /\ onDisk' \subseteq onDisk /\ jammed \subseteq jammed'
         /\ jammed' \subseteq Applicants
         /\ onDisk \ onDisk' \subseteq {a}
         /\ a \in onDisk' => a \in jammed'
<1>1. jammed \subseteq Applicants /\ (~kept[a].cv /\ a \in onDisk => a \in jammed)
  BY DEF KeepOK, RetentionTypeOK, UnnamedFilesAreGone
<1>2. CASE ~names /\ UNCHANGED <<onDisk, jammed>>
  BY <1>1, <1>2
<1>3. CASE names /\ onDisk' = onDisk \ {a} /\ UNCHANGED jammed
  BY <1>1, <1>3
<1>4. CASE names /\ a \in onDisk /\ jammed' = jammed \cup {a} /\ UNCHANGED onDisk
  BY <1>1, <1>4
<1> QED BY <1>2, <1>3, <1>4 DEF RemoveFile

LEMMA ErasureReads ==
  ASSUME KeepOK, NEW r \in Requests, NEW a \in Applicants, AnonymizeOneRead(r, a)
  PROVE  KeepOK'
<1> DEFINE record == [kind |-> "anonymize", applicant |-> a]
<1>1. /\ record \in RetentionRequest /\ record # Idle
      /\ record.kind = "anonymize" /\ record.applicant = a
  BY DEF RetentionRequest, Idle
<1>2. /\ Begin(r, record) /\ UNCHANGED <<now, kept, setBy, cleanedBy, cutOff>>
      /\ InKeeping(a) /\ RemoveFile(a, kept[a].cv)
  BY DEF AnonymizeOneRead
<1> HIDE DEF record
<1>3. /\ onDisk' \subseteq onDisk /\ jammed \subseteq jammed'
      /\ jammed' \subseteq Applicants
      /\ onDisk \ onDisk' \subseteq {a}
      /\ a \in onDisk' => a \in jammed'
  <2> DEFINE names == kept[a].cv
  <2>1. (~names => ~kept[a].cv) /\ RemoveFile(a, names)
    BY <1>2
  <2> HIDE DEF names
  <2> QED BY <1>2, <2>1, FileRemoved
<1>4. req'[r] = record
  BY <1>1, <1>2, BeginStep DEF KeepOK
<1>5. KeepRequestOK(r)'
  <2>1. (req[r] \in RetentionRequest)'
    BY <1>1, <1>4 DEF RetentionRequest
  <2> QED BY <1>1, <1>3, <1>4, <2>1 DEF KeepRequestOK, Doing
<1>6. Removed(r)' = {a}
  BY <1>1, <1>4 DEF Removed, Doing
<1> QED BY <1>1, <1>2, <1>3, <1>5, <1>6, KeepReads

LEMMA CleanUpReads ==
  ASSUME KeepOK, NEW r \in Requests, CleanUpRead(r)
  PROVE  KeepOK'
<1>1. PICK rest \in SUBSET Applicants, names \in SUBSET Applicants :
        /\ rest = {a \in Applicants : Expired(a)}
        /\ names = {a \in Applicants : Expired(a) /\ kept[a].cv}
  OBVIOUS
<1> DEFINE record == [kind |-> "clean up", rest |-> rest, written |-> {}, named |-> names]
<1>2. /\ record \in RetentionRequest /\ record # Idle /\ record.kind = "clean up"
      /\ record.rest = rest /\ record.written = {} /\ record.named = names
  BY DEF RetentionRequest, Idle
<1>3. Begin(r, record) /\ UNCHANGED keptState
  BY <1>1 DEF CleanUpRead
<1> HIDE DEF record
<1>4. req'[r] = record
  BY <1>2, <1>3, BeginStep DEF KeepOK
<1>5. UNCHANGED <<now, kept, onDisk, setBy, cleanedBy, cutOff, jammed>>
  BY <1>3 DEF keptState
<1>6. CleanUpOK(r)'
  <2>1. \A a \in rest : Overdue(r, a)'
    BY <1>1, <1>5 DEF Overdue, Expired
  <2>2. \A a \in rest \ names : InKeeping(a)' => ~kept'[a].cv
    BY <1>1, <1>5
  <2> QED BY <1>2, <1>4, <2>1, <2>2 DEF CleanUpOK
<1>7. KeepRequestOK(r)'
  <2>1. (req[r] \in RetentionRequest)'
    BY <1>2, <1>4 DEF RetentionRequest
  <2> QED BY <1>2, <1>4, <1>6, <2>1 DEF KeepRequestOK, Doing
<1>8. jammed \subseteq Applicants
  BY DEF KeepOK, RetentionTypeOK
<1> QED BY <1>2, <1>3, <1>5, <1>7, <1>8, KeepReads

\* A request that is not about to erase has removed nothing.
LEMMA RemovesNothing ==
  ASSUME NEW r \in Requests, Doing(r, "retention") \/ Doing(r, "delete data")
  PROVE  Removed(r) = {} /\ ~Doing(r, "clean up")
<1>1. ~Doing(r, "anonymize") /\ ~Doing(r, "clean up")
  BY DEF Doing
<1> QED BY <1>1 DEF Removed

LEMMA DatesSet ==
  ASSUME KeepOK, NEW r \in Requests, SetRetentionCommit(r)
  PROVE  KeepOK'
<1> DEFINE a == req[r].applicant
           until == req[r].until
<1>1. /\ Doing(r, "retention") /\ End(r)
      /\ UNCHANGED <<now, onDisk, cleanedBy, cutOff, jammed>>
      /\ \/ UNCHANGED <<kept, setBy>>
         \/ /\ InKeeping(a)
            /\ kept' = [kept EXCEPT ![a].until = until]
            /\ setBy' = [setBy EXCEPT ![a] = r]
  BY DEF SetRetentionCommit
<1>2. a \in Applicants /\ until \in Dates \cup {None}
  BY <1>1, KeepTyped
<1>3. /\ RequestStep /\ saw' = saw /\ req'[r] = Idle /\ ended' = ended \cup {r}
      /\ r \notin ended
      /\ \A q \in Requests \ {r} : req'[q] = req[q]
  BY <1>1, EndStep DEF KeepOK
<1>4. Removed(r) = {}
  BY <1>1, RemovesNothing
<1> HIDE DEF a, until
<1>5. /\ kept \in [Applicants -> KeptRow \cup {NoKept}]
      /\ setBy \in [Applicants -> Requests \cup {None}]
  BY DEF KeepOK, RetentionTypeOK
<1>6. /\ kept' \in [Applicants -> KeptRow \cup {NoKept}]
      /\ setBy' \in [Applicants -> Requests \cup {None}]
      /\ \A b \in Applicants :
           /\ InKeeping(b)' <=> InKeeping(b)
           /\ InKeeping(b) => kept'[b].cv = kept[b].cv /\ kept'[b].erased = kept[b].erased
           /\ \/ kept'[b] = kept[b] /\ setBy'[b] = setBy[b]
              \/ setBy'[b] = r
  <2>1. CASE UNCHANGED <<kept, setBy>>
    BY <1>5, <2>1 DEF InKeeping
  <2>2. CASE /\ InKeeping(a)
             /\ kept' = [kept EXCEPT ![a].until = until]
             /\ setBy' = [setBy EXCEPT ![a] = r]
    <3> DEFINE old == kept[a]
               new == [old EXCEPT !.until = until]
    <3>1. old \in KeptRow /\ old # NoKept /\ kept' = [kept EXCEPT ![a] = new]
      BY <1>2, <1>5, <2>2 DEF InKeeping
    <3> HIDE DEF old
    <3>2. new \in KeptRow /\ new.cv = old.cv /\ new.erased = old.erased /\ new # NoKept
      BY <1>2, <3>1, DatedRow, KeptDiffer
    <3> HIDE DEF new
    <3>3. /\ kept'[a] = new /\ setBy'[a] = r
          /\ \A b \in Applicants \ {a} : kept'[b] = kept[b] /\ setBy'[b] = setBy[b]
      BY <1>2, <1>5, <2>2, <3>1
    <3>4. kept' \in [Applicants -> KeptRow \cup {NoKept}]
          /\ setBy' \in [Applicants -> Requests \cup {None}]
      BY <1>5, <2>2, <3>1, <3>2
    <3> QED BY <3>1, <3>2, <3>3, <3>4 DEF InKeeping, old
  <2> QED BY <1>1, <2>1, <2>2
<1>7. RetentionTypeOK'
  BY <1>1, <1>6 DEF KeepOK, RetentionTypeOK
<1>8. KeptGoes
  BY <1>1, <1>3, <1>6, NowTyped DEF KeptGoes
<1>9. WrittenOnce'
  BY <1>3, IdleWrites, WrittenStay
<1>10. CleanersEnded' /\ CleanUpsHonourRetention'
  BY <1>1, <1>3, <1>8, CleanedStay
<1>11. \A q \in Requests : \A b \in Removed(q) : b \in Removed(q)'
  BY <1>3, <1>4, RemovedStays
<1>12. \A q \in Requests : Doing(q, "clean up") => \A b \in req[q].written : InKeeping(b)'
  BY <1>6, WrittenKept
<1> QED BY <1>1, <1>3, <1>6, <1>7, <1>8, <1>9, <1>10, <1>11, <1>12, IdleKeepsNext, KeepStays

LEMMA ErasuresDone ==
  ASSUME KeepOK, NEW r \in Requests, AnonymizeOneCommit(r)
  PROVE  KeepOK'
<1> DEFINE a == req[r].applicant
           new == Erased(kept[a])
<1>1. /\ Doing(r, "anonymize") /\ End(r) /\ InKeeping(a)
      /\ kept' = [kept EXCEPT ![a] = new]
      /\ UNCHANGED <<now, onDisk, setBy, cleanedBy, cutOff, jammed>>
  BY DEF AnonymizeOneCommit
<1>2. a \in Applicants /\ (a \in onDisk => a \in jammed)
  BY <1>1, KeepTyped
<1>3. /\ RequestStep /\ saw' = saw /\ req'[r] = Idle /\ ended' = ended \cup {r}
      /\ \A q \in Requests \ {r} : req'[q] = req[q]
  BY <1>1, EndStep DEF KeepOK
<1>4. Removed(r) = {a}
  <2>1. Doing(r, "anonymize") /\ ~Doing(r, "clean up")
    BY <1>1 DEF Doing
  <2> QED BY <2>1 DEF Removed
<1>5. /\ new \in KeptRow /\ new.until = kept[a].until /\ new.cv = FALSE /\ new # NoKept
  <2> HIDE DEF a
  <2>1. kept[a] \in KeptRow
    BY <1>1, <1>2, KeptTyped
  <2>2. new \in KeptRow /\ new.until = kept[a].until /\ new.cv = FALSE
    BY <2>1, ErasedRow
  <2> QED BY <2>2, KeptDiffer
<1> HIDE DEF a, new
<1>6. kept \in [Applicants -> KeptRow \cup {NoKept}]
  BY DEF KeepOK, RetentionTypeOK
<1>7. /\ kept' \in [Applicants -> KeptRow \cup {NoKept}]
      /\ kept'[a] = new
      /\ \A b \in Applicants \ {a} : kept'[b] = kept[b]
  BY <1>1, <1>2, <1>5, <1>6
<1>8. RetentionTypeOK'
  BY <1>1, <1>7 DEF KeepOK, RetentionTypeOK
<1>9. KeptGoes
  BY <1>1, <1>5, <1>7, NowTyped DEF KeptGoes, InKeeping
<1>10. WrittenOnce'
  BY <1>3, IdleWrites, WrittenStay
<1>11. CleanersEnded' /\ CleanUpsHonourRetention'
  BY <1>1, <1>3, <1>9, CleanedStay
<1>12. \A q \in Requests : \A b \in Removed(q) : b \in Removed(q)' \/ kept'[b].cv = FALSE
  BY <1>3, <1>4, <1>5, <1>7, RemovedStays
<1>13. \A q \in Requests : Doing(q, "clean up") => \A b \in req[q].written : InKeeping(b)'
  BY <1>5, <1>7, WrittenKept DEF InKeeping
<1>14. \A b \in Applicants :
         \/ kept'[b].cv = kept[b].cv /\ kept'[b].erased = kept[b].erased
         \/ kept'[b].cv = FALSE /\ (b \in onDisk' => b \in jammed')
  BY <1>1, <1>2, <1>5, <1>7
<1> QED BY <1>1, <1>3, <1>8, <1>9, <1>10, <1>11, <1>12, <1>13, <1>14, IdleKeepsNext, KeepStays

LEMMA DataDeleted ==
  ASSUME KeepOK, NEW r \in Requests, DeleteDataCommit(r)
  PROVE  KeepOK'
<1> DEFINE a == req[r].applicant
<1>1. /\ Doing(r, "delete data") /\ End(r) /\ Free(r, a)
      /\ kept' = [kept EXCEPT ![a] = NoKept]
      /\ UNCHANGED <<now, onDisk, setBy, cleanedBy, cutOff, jammed>>
  BY DEF DeleteDataCommit
<1>2. a \in Applicants
  BY <1>1, KeepTyped
<1>3. /\ RequestStep /\ saw' = saw /\ req'[r] = Idle /\ ended' = ended \cup {r}
      /\ \A q \in Requests \ {r} : req'[q] = req[q]
  BY <1>1, EndStep DEF KeepOK
<1>4. Removed(r) = {} /\ ~Doing(r, "clean up")
  BY <1>1, RemovesNothing
<1> HIDE DEF a
<1>5. /\ kept' \in [Applicants -> KeptRow \cup {NoKept}]
      /\ kept'[a] = NoKept
      /\ \A b \in Applicants \ {a} : kept'[b] = kept[b]
  BY <1>1, <1>2 DEF KeepOK, RetentionTypeOK
<1>6. RetentionTypeOK'
  BY <1>1, <1>5 DEF KeepOK, RetentionTypeOK
<1>7. KeptGoes
  BY <1>1, <1>5, NowTyped DEF KeptGoes, InKeeping
<1>8. WrittenOnce'
  BY <1>3, IdleWrites, WrittenStay
<1>9. CleanersEnded' /\ CleanUpsHonourRetention'
  BY <1>1, <1>3, <1>7, CleanedStay
<1>10. \A q \in Requests : \A b \in Removed(q) : b \in Removed(q)'
  BY <1>3, <1>4, RemovedStays
<1>11. \A q \in Requests : Doing(q, "clean up") => \A b \in req[q].written : InKeeping(b)'
  <2> SUFFICES ASSUME NEW q \in Requests, Doing(q, "clean up"), NEW b \in req[q].written
      PROVE  InKeeping(b)'
    OBVIOUS
  <2>1. b \in Applicants /\ InKeeping(b) /\ b # a
    BY <1>1, <1>4, WrittenKept DEF Free
  <2> QED BY <1>5, <2>1 DEF InKeeping
<1>12. \A b \in Applicants : InKeeping(b)' =>
         kept'[b].cv = kept[b].cv /\ kept'[b].erased = kept[b].erased
  BY <1>5 DEF InKeeping
<1> QED BY <1>1, <1>3, <1>6, <1>7, <1>8, <1>9, <1>10, <1>11, <1>12, IdleKeepsNext, KeepStays

LEMMA CleaningUp ==
  ASSUME KeepOK, NEW r \in Requests, Doing(r, "clean up")
  PROVE  req[r] \in [kind : {"clean up"}, rest : SUBSET Applicants,
                     written : SUBSET Applicants, named : SUBSET Applicants]
<1>1. req[r] \in RetentionRequest /\ req[r].kind = "clean up"
  BY DEF KeepOK, KeepRequestOK, Doing
<1>2. CASE req[r] = Idle
  <2>1. Idle.kind = "idle"
    BY DEF Idle
  <2> QED BY <1>1, <1>2, <2>1
<1>3. CASE req[r] \in [kind : {"retention"}, applicant : Applicants,
                       was : Dates \cup {None}, until : Dates \cup {None}]
  BY <1>1, <1>3
<1>4. CASE req[r] \in [kind : {"anonymize", "delete data"}, applicant : Applicants]
  BY <1>1, <1>4
<1> QED BY <1>1, <1>2, <1>3, <1>4 DEF RetentionRequest

\* A clean-up comes to the next of what it has found: its row is written, and its
\* file is gone or could not be removed.
LEMMA CleanUpGoesOn ==
  ASSUME KeepOK, NEW r \in Requests, NEW a \in Applicants, CleanUpOne(r, a)
  PROVE  KeepOK'
<1> DEFINE rest == req[r].rest
           written == req[r].written
           names == a \in req[r].named
           record == [req[r] EXCEPT !.rest = @ \ {a}, !.written = @ \cup {a}]
<1>1. /\ Doing(r, "clean up") /\ a \in rest /\ InKeeping(a) /\ Free(r, a)
      /\ RemoveFile(a, names)
      /\ req' = [req EXCEPT ![r] = record]
      /\ UNCHANGED <<ended, saw, now, kept, setBy, cleanedBy, cutOff>>
  BY DEF CleanUpOne
<1>2. /\ rest \subseteq Applicants /\ written \subseteq Applicants
      /\ CleanUpOK(r)
  BY <1>1, KeepTyped
<1>3. req[r] \in [kind : {"clean up"}, rest : SUBSET Applicants,
                  written : SUBSET Applicants, named : SUBSET Applicants]
  BY <1>1, CleaningUp
<1>4. /\ record \in [kind : {"clean up"}, rest : SUBSET Applicants,
                     written : SUBSET Applicants, named : SUBSET Applicants]
      /\ record.rest = rest \ {a} /\ record.written = written \cup {a}
      /\ record.named = req[r].named /\ record.kind = "clean up"
  BY <1>3
<1>5. record \in RetentionRequest /\ record # Idle /\ req[r] # Idle
  BY <1>1, <1>4 DEF RetentionRequest, Idle, Doing
<1>6. RequestStep
  BY <1>1, <1>5, GoOnStep DEF KeepOK
<1>7. ~names => ~kept[a].cv
  BY <1>1, <1>2 DEF CleanUpOK
<1> HIDE DEF names
<1>8. /\ onDisk' \subseteq onDisk /\ jammed \subseteq jammed'
      /\ jammed' \subseteq Applicants
      /\ onDisk \ onDisk' \subseteq {a}
      /\ a \in onDisk' => a \in jammed'
  BY <1>1, <1>7, FileRemoved
<1>9. /\ Doing(r, "clean up")' /\ req'[r] \in RetentionRequest
      /\ req'[r].rest = rest \ {a} /\ req'[r].written = written \cup {a}
      /\ req'[r].named = req[r].named
      /\ \A q \in Requests \ {r} : req'[q] = req[q]
  <2>1. DOMAIN req = Requests
    BY DEF KeepOK, RequestOK
  <2>2. req'[r] = record /\ \A q \in Requests \ {r} : req'[q] = req[q]
    BY <1>1, <2>1
  <2> HIDE DEF record
  <2> QED BY <1>4, <1>5, <2>2 DEF Doing
<1> HIDE DEF record, rest, written
<1>10. RetentionTypeOK'
  BY <1>1, <1>8 DEF KeepOK, RetentionTypeOK
<1>11. KeptGoes
  BY <1>1, <1>8, NowTyped, RowsStay
<1>12. CleanersEnded' /\ CleanUpsHonourRetention'
  BY <1>1, <1>6, <1>11, CleanedStay
<1>13. Removed(r)' = written \cup {a} /\ Removed(r) = written
  <2>1. ~Doing(r, "anonymize")' /\ ~Doing(r, "anonymize")
    BY <1>1, <1>9 DEF Doing
  <2> QED BY <1>1, <1>9, <2>1 DEF Removed, written
<1>14. \A q \in Requests : \A b \in Removed(q) : b \in Removed(q)'
  BY <1>9, <1>13, RemovedStays
<1>15. \A q \in Requests : Doing(q, "clean up") => \A b \in req[q].written : InKeeping(b)'
  BY <1>1, WrittenKept DEF InKeeping
<1>16. WrittenOnce'
  <2> SUFFICES ASSUME NEW q \in Requests, q # r, Doing(q, "clean up")'
      PROVE  req'[q].written \cap req'[r].written = {}
    <3>1. ASSUME NEW p \in Requests, NEW q \in Requests, p # q, p # r, q # r,
                 Doing(p, "clean up")', Doing(q, "clean up")'
          PROVE  req'[p].written \cap req'[q].written = {}
      BY <1>9, <3>1 DEF KeepOK, WrittenOnce, Doing
    <3> QED BY <3>1 DEF WrittenOnce
  <2>1. Doing(q, "clean up") /\ req'[q] = req[q]
    BY <1>9 DEF Doing
  <2>2. req[q].written \cap written = {}
    BY <1>1, <2>1 DEF KeepOK, WrittenOnce, written
  <2>3. a \notin req[q].written
    BY <1>1, <2>1 DEF Free
  <2> QED BY <1>9, <2>1, <2>2, <2>3
<1>17. CleanUpOK(r)'
  <2>1. \A b \in rest \cup written : Overdue(r, b)'
    <3>1. \A b \in rest \cup written : Overdue(r, b) /\ b \in Applicants
      BY <1>2 DEF CleanUpOK, rest, written
    <3> QED BY <1>1, <1>11, <3>1, OverdueStays
  <2>2. \A b \in rest \ req[r].named : InKeeping(b)' => ~kept'[b].cv
    BY <1>1, <1>2 DEF CleanUpOK, InKeeping, rest
  <2>3. \A b \in written : InKeeping(b)' /\ (b \in onDisk' => b \in jammed')
    BY <1>1, <1>2, <1>8 DEF CleanUpOK, InKeeping, written
  <2>4. InKeeping(a)'
    BY <1>1 DEF InKeeping
  <2> QED BY <1>1, <1>8, <1>9, <2>1, <2>2, <2>3, <2>4 DEF CleanUpOK
<1>18. KeepRequestOK(r)'
  <2>1. (req[r] \in RetentionRequest)'
    BY <1>9 DEF RetentionRequest
  <2> QED BY <1>9, <1>17, <2>1 DEF KeepRequestOK, Doing
<1>19. \A b \in onDisk : b \in onDisk' \/ \E q \in Requests : b \in Removed(q)'
  BY <1>8, <1>13
<1> QED BY <1>1, <1>6, <1>9, <1>10, <1>11, <1>12, <1>14, <1>15, <1>16, <1>18, <1>19, KeepStays

\* A clean-up ends: what it erases is past its date, unless another was written
\* since it began.
LEMMA CleanUpEnds ==
  ASSUME KeepOK, NEW r \in Requests, CleanUpCommit(r)
  PROVE  KeepOK'
<1> DEFINE written == req[r].written
<1>1. /\ Doing(r, "clean up") /\ End(r)
      /\ kept' = [a \in Applicants |-> IF a \in written THEN Erased(kept[a]) ELSE kept[a]]
      /\ cleanedBy' = [a \in Applicants |-> IF a \in written THEN r ELSE cleanedBy[a]]
      /\ UNCHANGED <<now, onDisk, setBy, cutOff, jammed>>
  BY DEF CleanUpCommit
<1>2. /\ \A a \in written : /\ a \in Applicants /\ InKeeping(a) /\ Overdue(r, a)
                            /\ a \in onDisk => a \in jammed
  BY <1>1, KeepTyped DEF CleanUpOK
<1>3. /\ RequestStep /\ saw' = saw /\ req'[r] = Idle /\ ended' = ended \cup {r}
      /\ r \notin ended
      /\ \A q \in Requests \ {r} : req'[q] = req[q]
  BY <1>1, EndStep DEF KeepOK
<1>4. Removed(r) = written
  <2>1. ~Doing(r, "anonymize")
    BY <1>1 DEF Doing
  <2> QED BY <1>1, <2>1 DEF Removed
<1> HIDE DEF written
<1>5. \A a \in Applicants :
        /\ kept'[a] \in KeptRow \cup {NoKept}
        /\ a \notin written => kept'[a] = kept[a] /\ cleanedBy'[a] = cleanedBy[a]
        /\ a \in written =>
             /\ kept'[a].cv = FALSE /\ kept'[a].until = kept[a].until
             /\ kept'[a] # NoKept /\ cleanedBy'[a] = r
  <2> SUFFICES ASSUME NEW a \in Applicants
      PROVE  /\ kept'[a] \in KeptRow \cup {NoKept}
             /\ a \notin written => kept'[a] = kept[a] /\ cleanedBy'[a] = cleanedBy[a]
             /\ a \in written =>
                  /\ kept'[a].cv = FALSE /\ kept'[a].until = kept[a].until
                  /\ kept'[a] # NoKept /\ cleanedBy'[a] = r
    OBVIOUS
  <2>1. CASE a \in written
    <3>1. kept[a] \in KeptRow /\ kept'[a] = Erased(kept[a]) /\ cleanedBy'[a] = r
      BY <1>1, <1>2, <2>1, KeptTyped
    <3> QED BY <2>1, <3>1, ErasedRow, KeptDiffer
  <2>2. CASE a \notin written
    BY <1>1, <2>2, KeptTyped
  <2> QED BY <2>1, <2>2
<1>6. RetentionTypeOK'
  <2>1. kept' \in [Applicants -> KeptRow \cup {NoKept}]
    <3>1. kept' = [a \in Applicants |-> kept'[a]]
      BY <1>1
    <3> QED BY <1>5, <3>1
  <2>2. cleanedBy' \in [Applicants -> Requests \cup {None}]
    BY <1>1 DEF KeepOK, RetentionTypeOK
  <2> QED BY <1>1, <2>1, <2>2 DEF KeepOK, RetentionTypeOK
<1>7. KeptGoes
  BY <1>1, <1>2, <1>5, NowTyped DEF KeptGoes, InKeeping
<1>8. WrittenOnce'
  BY <1>3, IdleWrites, WrittenStay
<1>9. CleanersEnded'
  BY <1>3, <1>5 DEF KeepOK, CleanersEnded
<1>10. CleanUpsHonourRetention'
  <2> SUFFICES ASSUME NEW a \in Applicants, InKeeping(a)', cleanedBy'[a] # None,
                      kept'[a].until = None \/ kept'[a].until > now
      PROVE  setBy[a] # None /\ setBy[a] \notin saw[cleanedBy'[a]]
    BY <1>1, <1>3 DEF CleanUpsHonourRetention
  <2>1. CASE a \in written
    <3>1. /\ kept[a].until \in Dates \cup {None} /\ now \in Nat
          /\ kept[a].until = None \/ kept[a].until > now
          /\ cleanedBy'[a] = r
      BY <1>2, <1>5, <2>1, KeptTyped, NowTyped
    <3>2. ~(kept[a].until # None /\ kept[a].until <= now)
      BY <3>1, MaxNowAssumption DEF Dates
    <3> QED BY <1>2, <2>1, <3>1, <3>2 DEF Overdue
  <2>2. CASE a \notin written
    BY <1>5, <2>2 DEF KeepOK, CleanUpsHonourRetention, InKeeping
  <2> QED BY <2>1, <2>2
<1>11. \A q \in Requests : \A a \in Removed(q) :
         a \in Removed(q)' \/ (InKeeping(a)' => kept'[a].cv = FALSE)
  BY <1>2, <1>3, <1>4, <1>5, RemovedStays
<1>12. \A q \in Requests : Doing(q, "clean up") => \A a \in req[q].written : InKeeping(a)'
  <2> SUFFICES ASSUME NEW q \in Requests, Doing(q, "clean up"), NEW a \in req[q].written
      PROVE  InKeeping(a)'
    OBVIOUS
  <2>1. a \in Applicants /\ kept[a] # NoKept
    BY WrittenKept DEF InKeeping
  <2> QED BY <1>5, <2>1 DEF InKeeping
<1>13. \A a \in Applicants :
         \/ kept'[a].cv = kept[a].cv /\ kept'[a].erased = kept[a].erased
         \/ kept'[a].cv = FALSE /\ (a \in onDisk' => a \in jammed')
  BY <1>1, <1>2, <1>5
<1> QED BY <1>1, <1>3, <1>6, <1>7, <1>8, <1>9, <1>10, <1>11, <1>12, <1>13, IdleKeepsNext, KeepStays

LEMMA KeepSteps == KeepOK /\ [RetentionNext]_retentionVars => KeepOK'
<1> SUFFICES ASSUME KeepOK, [RetentionNext]_retentionVars PROVE KeepOK'
  OBVIOUS
<1>1. CASE UNCHANGED retentionVars
  <2>1. /\ RequestStep /\ req' = req /\ saw' = saw
        /\ UNCHANGED <<now, kept, onDisk, setBy, cleanedBy, cutOff, jammed>>
    BY <1>1, QuietStep DEF retentionVars, keptState, KeepOK
  <2>2. KeptGoes /\ WrittenOnce'
    BY <2>1, NowTyped, RowsStay, WrittenStay
  <2>3. RetentionTypeOK'
    BY <2>1 DEF KeepOK, RetentionTypeOK
  <2>4. CleanersEnded' /\ CleanUpsHonourRetention'
    BY <2>1, <2>2, CleanedStay
  <2>5. \A q \in Requests : Removed(q)' = Removed(q)
    BY <2>1, RemovedStays
  <2>6. \A q \in Requests : Doing(q, "clean up") => \A a \in req[q].written : InKeeping(a)'
    BY <2>1, WrittenKept DEF InKeeping
  <2> QED BY <2>1, <2>2, <2>3, <2>4, <2>5, <2>6, KeepStays
<1>2. CASE RetentionNext
  BY <1>2, DateReads, DatesSet, ErasureReads, ErasuresDone, DataDeletionReads, DataDeleted,
     CleanUpReads, CleanUpGoesOn, CleanUpEnds, KeepAborts, TimePasses DEF RetentionNext
<1> QED BY <1>1, <1>2

\* Applications, files and requests keep their types.
THEOREM RetentionIsTyped == RetentionSpec => []RetentionTypeOK
<1>1. KeepOK => RetentionTypeOK
  BY DEF KeepOK
<1> QED BY <1>1, KeepBegins, KeepSteps, PTL DEF RetentionSpec

\* Files go with the rows except where a rollback or the disk parted them, and
\* what was to be kept longer when a clean-up began is kept.
THEOREM ErasuresWhole == RetentionSpec => []ErasuresAreWhole
<1>1. KeepOK => ErasedFilesAreGone
  BY DEF KeepOK, UnnamedFilesAreGone, ErasedFilesAreGone
<1>2. KeepOK => ErasuresAreWhole
  BY <1>1 DEF KeepOK, ErasuresAreWhole
<1> QED BY <1>2, KeepBegins, KeepSteps, PTL DEF RetentionSpec

=============================================================================
