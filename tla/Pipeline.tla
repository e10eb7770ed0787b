------------------------------- MODULE Pipeline -------------------------------
(***************************************************************************)
(* The hiring pipeline: stages, applications in them, the history of their *)
(* moves, interviews, and the requests that change any of these.           *)
(*                                                                         *)
(* A request has one database session.  It reads rows, with others between *)
(* its reads, and all it writes is visible at the commit: a step of this   *)
(* module is the reads of one item of a request, or its commit.  What is   *)
(* flushed earlier is locked until then, so that it may as well be written *)
(* then.  The session does not autoflush, an UPDATE carries only the       *)
(* columns that differ from what was read, and changed_at is now(), the    *)
(* time at which the transaction began.  The positions of the stages, tags *)
(* and the audit log are left out.                                         *)
(***************************************************************************)
EXTENDS Naturals, Sequences, FiniteSets, Functions

CONSTANTS
  Applications,
  Stages,     \* identities of pipeline_stages rows, never used again
  NoStage,    \* applications.stage_id is NULL
  Requests,   \* requests that take more than one step
  Batches,    \* the application_ids a bulk action may carry, as sequences
  MaxRules    \* how many automation rules may match a move

ASSUME PipelineAssumption ==
  /\ NoStage \notin Stages
  /\ Batches \subseteq Seq(Applications)
  /\ MaxRules \in Nat

VARIABLES
  name,       \* pipeline_stages.name, of the stages that exist
  submitted,  \* applications that exist
  stage,      \* applications.stage_id
  history,    \* the application_stage_history rows of an application
  ready,      \* applications with an interview that opens the interview stage
  ended,      \* requests that have answered
  req,        \* what a request has in memory
  clock,      \* how many transactions of moves have begun
  contended   \* observer: applications that two requests moved at one time

rowVars == <<name, submitted, stage, history, ready>>
reqVars == <<ended, req, clock, contended>>
vars    == <<rowVars, reqVars>>

-----------------------------------------------------------------------------
(* Rows.                                                                   *)

Names == {"interview", "rejected", "other"}
Live(s) == name[s] \in Names

HistoryRow == [stage : Stages, at : Nat]

-----------------------------------------------------------------------------
(* Requests.                                                               *)

Mail == [app : Applications, stage : Stages, by : {"rule", "fallback"}]

MoveRequest ==
  [kind   : {"move", "bulk", "reject"},
   batch  : Seq(Applications),
   target : Stages \cup {NoStage},                     \* of a stage change
   at     : Nat,
   next   : Nat \ {0},                                 \* item of the batch
   from   : [Applications -> Stages \cup {NoStage}],   \* stage_id as read
   to     : [Applications -> Stages \cup {NoStage}],   \* and as set
   rows   : SUBSET (Applications \X Stages),           \* history rows added
   mails  : Seq(Mail)]                                 \* tasks added

CountedRequest == [kind : {"counted"}, target : Stages]
DeleteRequest  == [kind : {"delete"}, target : Stages, selected : SUBSET Applications]

\* What is left of a move after its commit: the background tasks.
Tasks == [kind : {"tasks"}, at : Nat, mails : Seq(Mail)]

NoRequest == [kind |-> "none"]

Moving(r) == req[r].kind \in {"move", "bulk", "reject"}

Init ==
  /\ name = [s \in Stages |-> "unborn"]
  /\ submitted = {}
  /\ stage = [a \in Applications |-> NoStage]
  /\ history = [a \in Applications |-> {}]
  /\ ready = {}
  /\ ended = {}
  /\ req = [r \in Requests |-> NoRequest]
  /\ clock = 0 /\ contended = {}

Start(r, request) ==
  /\ r \notin ended /\ req[r] = NoRequest
  /\ req' = [req EXCEPT ![r] = request]
  /\ UNCHANGED ended

End(r) ==
  /\ ended' = ended \cup {r}
  /\ req' = [req EXCEPT ![r] = NoRequest]

\* An exception, a timeout or a deadlock before the commit: rolled back, and
\* the background tasks that were added never run.
Abort(r) ==
  /\ Moving(r) \/ req[r].kind \in {"counted", "delete"}
  /\ End(r)
  /\ UNCHANGED <<rowVars, clock, contended>>

-----------------------------------------------------------------------------
(* Stages and applications.                                                *)

CreateStage(s, n) ==
  /\ name[s] = "unborn"
  /\ name' = [name EXCEPT ![s] = n]
  /\ UNCHANGED <<submitted, stage, history, ready, reqVars>>

RenameStage(s, n) ==
  /\ Live(s) /\ name[s] # n
  /\ name' = [name EXCEPT ![s] = n]
  /\ UNCHANGED <<submitted, stage, history, ready, reqVars>>

\* submit_application enters the first stage, if there is one, and records no
\* history.  Which stage is the first is left open: no property needs it.  If
\* the stage is deleted before the insert, the foreign key refuses it: no step.
SubmitApplication(a) ==
  /\ a \notin submitted
  /\ submitted' = submitted \cup {a}
  /\ IF \E s \in Stages : Live(s)
     THEN \E s \in Stages : Live(s) /\ stage' = [stage EXCEPT ![a] = s]
     ELSE UNCHANGED stage
  /\ UNCHANGED <<name, history, ready, reqVars>>

InUse(s) == \E a \in Applications :
              \/ stage[a] = s
              \/ \E h \in history[a] : h.stage = s

\* delete_stage counts what refers to the stage ...
DeleteStageCheck(r, s) ==
  /\ Live(s) /\ ~InUse(s)
  /\ Start(r, [kind |-> "counted", target |-> s])
  /\ UNCHANGED <<rowVars, clock, contended>>

In(s) == {a \in Applications : stage[a] = s}

\* ... the session selects the applications in the stage, to take them out of it
\* (the relationship has no passive_deletes) ...
DeleteStageSelect(r) ==
  /\ req[r].kind = "counted"
  /\ req' = [req EXCEPT ![r] = [kind |-> "delete", target |-> req[r].target,
                               selected |-> In(req[r].target)]]
  /\ UNCHANGED <<rowVars, ended, clock, contended>>

\* ... sets their stage_id to NULL, each by its id and wherever it is by now, and
\* deletes the stage.  The database does the same to an application that entered
\* the stage meanwhile.  A history row that names the stage restricts all of it.
\* The stage may be gone already: a DELETE that finds no row is only warned of.
DeleteStage(r) ==
  /\ req[r].kind = "delete"
  /\ End(r)
  /\ LET s == req[r].target IN
     IF \E a \in Applications : \E h \in history[a] : h.stage = s
     THEN UNCHANGED <<name, stage>>
     ELSE /\ name' = [name EXCEPT ![s] = "deleted"]
          /\ stage' = [a \in Applications |->
                         IF a \in req[r].selected \cup In(s) THEN NoStage ELSE stage[a]]
  /\ UNCHANGED <<submitted, history, ready, clock, contended>>

-----------------------------------------------------------------------------
(* Moves: one application (update_stage), or a batch (bulk_action).        *)

OpenMove(r, kind, batch, s) ==
  /\ Start(r, [kind |-> kind, batch |-> batch, target |-> s, at |-> clock, next |-> 1,
               from |-> [a \in Applications |-> NoStage],
               to |-> [a \in Applications |-> NoStage],
               rows |-> {}, mails |-> <<>>])
  /\ clock' = clock + 1
  /\ contended' = contended \cup
       {a \in Range(batch) : \E q \in Requests : Moving(q) /\ a \in Range(req[q].batch)}
  /\ UNCHANGED <<rowVars>>

Item(r)    == req[r].batch[req[r].next]
HasItem(r) == Moving(r) /\ req[r].next <= Len(req[r].batch)

\* Where the item goes.  The rejected stage is looked up by its name, per
\* item; a lookup that finds two raises.
Targets(r) == IF req[r].kind = "reject" THEN {s \in Stages : name[s] = "rejected"}
                                        ELSE {req[r].target} \cap {s \in Stages : Live(s)}

Movable(r) ==
  /\ Item(r) \in submitted
  /\ \E s \in Targets(r) :
       /\ Targets(r) = {s}
       /\ name[s] = "interview" => Item(r) \in ready

\* The background tasks added if notify_candidate was sent.  Only a single
\* move asks for automation rules; the default notification goes out only
\* when none of them fired.
Announcements(r, s) ==
  LET by(k) == [app |-> Item(r), stage |-> s, by |-> k] IN
  {<<>>, <<by("fallback")>>} \cup
  (IF req[r].kind = "move" THEN {[i \in 1..n |-> by("rule")] : n \in 1..MaxRules} ELSE {})

\* stage_id as read.  An application that the session has changed before is
\* not read again.
ReadStage(r, a) == IF req[r].to[a] = NoStage THEN stage[a] ELSE req[r].from[a]

\* The request after it has changed application a in memory.
Moved(r, a, s, mails) ==
  [req[r] EXCEPT !.next  = @ + 1,
                 !.from  = [@ EXCEPT ![a] = ReadStage(r, a)],
                 !.to    = [@ EXCEPT ![a] = s],
                 !.rows  = @ \cup {<<a, s>>},
                 !.mails = @ \o mails]

\* Mutant: a batch is committed item by item.
MoveItemAtOnce(r) ==
  /\ HasItem(r) /\ Movable(r)
  /\ \E s \in Targets(r) :
       /\ req' = [req EXCEPT ![r] = Moved(r, Item(r), s, <<>>)]
       /\ stage' = [stage EXCEPT ![Item(r)] = s]
       /\ history' = [history EXCEPT ![Item(r)] = @ \cup {[stage |-> s, at |-> req[r].at]}]
  /\ UNCHANGED <<name, submitted, ready, ended, clock, contended>>

MoveItem(r) ==
  /\ HasItem(r) /\ Movable(r)
  /\ \E s \in Targets(r) : \E mails \in Announcements(r, s) :
       req' = [req EXCEPT ![r] = Moved(r, Item(r), s, mails)]
  /\ UNCHANGED <<rowVars, ended, clock, contended>>

Skipped(r) == [req[r] EXCEPT !.next = @ + 1]

\* An item that cannot be moved, or finds no rejected stage: a batch goes on
\* with the next one, a single move answers with an error.
RefuseItem(r) ==
  /\ HasItem(r) /\ ~Movable(r)
  /\ IF req[r].kind = "move"
     THEN End(r)
     ELSE req' = [req EXCEPT ![r] = Skipped(r)] /\ UNCHANGED ended
  /\ UNCHANGED <<rowVars, clock, contended>>

Recorded(r, a) == {[stage |-> p[2], at |-> req[r].at] : p \in {q \in req[r].rows : q[1] = a}}

\* stage_id is written if it differs from what was read.
WrittenStage(r, a) ==
  IF req[r].to[a] # NoStage /\ req[r].to[a] # req[r].from[a] THEN req[r].to[a] ELSE stage[a]

\* The request answers; the response carries its background tasks.
Answer(r, mails) ==
  /\ ended' = ended \cup {r}
  /\ req' = [req EXCEPT ![r] = [kind |-> "tasks", at |-> req[r].at, mails |-> mails]]

\* Mutant: the background tasks run although the transaction failed.
CommitMoveMailingAnyway(r) ==
  /\ Moving(r) /\ req[r].next > Len(req[r].batch)
  /\ Answer(r, req[r].mails)
  /\ IF \A p \in req[r].rows : Live(p[2])
     THEN /\ stage' = [a \in Applications |-> WrittenStage(r, a)]
          /\ history' = [a \in Applications |-> history[a] \cup Recorded(r, a)]
     ELSE UNCHANGED <<stage, history>>
  /\ UNCHANGED <<name, submitted, ready, clock, contended>>

\* Everything is flushed and committed.  The foreign key of the history
\* fails if a stage is gone, and with it the whole batch.
CommitMove(r) ==
  /\ Moving(r) /\ req[r].next > Len(req[r].batch)
  /\ IF \A p \in req[r].rows : Live(p[2])
     THEN /\ Answer(r, req[r].mails)
          /\ stage' = [a \in Applications |-> WrittenStage(r, a)]
          /\ history' = [a \in Applications |-> history[a] \cup Recorded(r, a)]
     ELSE End(r) /\ UNCHANGED <<stage, history>>
  /\ UNCHANGED <<name, submitted, ready, clock, contended>>

\* The background tasks run after the commit, in order, until the last one,
\* or until _send_smtp raises, or the process dies.
FinishTasks(r) ==
  /\ req[r].kind = "tasks"
  /\ req' = [req EXCEPT ![r] = NoRequest]
  /\ UNCHANGED <<rowVars, ended, clock, contended>>

-----------------------------------------------------------------------------
(* Interviews, as far as get_stage_ready_interview sees them.              *)

ScheduleInterview(a) ==
  /\ a \in submitted \ ready
  /\ ready' = ready \cup {a}
  /\ UNCHANGED <<name, submitted, stage, history, reqVars>>

\* Cancelled, deleted, or left without a link.
WithdrawInterview(a) ==
  /\ a \in ready
  /\ ready' = ready \ {a}
  /\ UNCHANGED <<name, submitted, stage, history, reqVars>>

-----------------------------------------------------------------------------
MoveOpens(r) ==
  \E s \in Stages :
    \/ \E a \in Applications : OpenMove(r, "move", <<a>>, s)
    \/ \E b \in Batches : OpenMove(r, "bulk", b, s) \/ OpenMove(r, "reject", b, NoStage)

Next ==
  \/ \E s \in Stages, n \in Names : CreateStage(s, n) \/ RenameStage(s, n)
  \/ \E a \in Applications :
       SubmitApplication(a) \/ ScheduleInterview(a) \/ WithdrawInterview(a)
  \/ \E r \in Requests :
       \/ \E s \in Stages : DeleteStageCheck(r, s)
       \/ DeleteStageSelect(r) \/ DeleteStage(r)
       \/ MoveOpens(r) \/ MoveItem(r) \/ RefuseItem(r) \/ CommitMove(r)
       \/ FinishTasks(r) \/ Abort(r)

Spec == Init /\ [][Next]_vars

-----------------------------------------------------------------------------
(* Properties.                                                             *)

\* Every variable has its type; interviews belong to applications that exist.
TypeOK ==
  /\ name \in [Stages -> Names \cup {"unborn", "deleted"}]
  /\ submitted \subseteq Applications
  /\ stage \in [Applications -> Stages \cup {NoStage}]
  /\ history \in [Applications -> SUBSET HistoryRow]
  /\ ready \subseteq submitted
  /\ ended \subseteq Requests
  /\ req \in [Requests -> MoveRequest \cup CountedRequest \cup DeleteRequest
                            \cup Tasks \cup {NoRequest}]
  /\ clock \in Nat
  /\ contended \subseteq Applications

\* The history never names a stage that is gone, and an application that was
\* ever moved is in a stage of its history, or in none: deleting a stage while
\* others move into it, or bulk actions that overlap, cannot leave it in a stage
\* its history does not know.
StageIsRecorded ==
  \A a \in Applications :
    /\ \A h \in history[a] : Live(h.stage)
    /\ history[a] # {} /\ stage[a] # NoStage => \E h \in history[a] : h.stage = stage[a]

\* An application is in the stage that its history, read by changed_at, names
\* last, unless two requests moved it at one time (then the one that began
\* first may commit last), or the deletion of a stage that it had been in when
\* the deletion selected it took it out of the stage it had moved to.
HistoryEndsAtStage ==
  \A a \in Applications \ contended :
    history[a] # {} /\ stage[a] # NoStage =>
      \E h \in history[a] :
        /\ h.stage = stage[a]
        /\ \A g \in history[a] : g.at <= h.at

\* A candidate only hears of moves that were committed, and of each through
\* one channel: the automation rules or the default notification.
MailsTellCommittedMoves ==
  \A r \in Requests : req[r].kind = "tasks" =>
    \A i \in DOMAIN req[r].mails :
      LET m == req[r].mails[i] IN
      /\ \E h \in history[m.app] : h.at = req[r].at /\ h.stage = m.stage
      /\ \A j \in DOMAIN req[r].mails :
           LET k == req[r].mails[j] IN k.app = m.app => k.by = m.by

\* What the company sees of the pipeline is the journal of stages: requests
\* that read, act and commit move applications in one step, or not at all, and
\* only the deletion of a stage takes an application out of the stage it is in.
Journal == INSTANCE StageJournal WITH
  live    <- {s \in Stages : Live(s)},
  removed <- {s \in Stages : name[s] = "deleted"},
  known   <- submitted,
  journal <- history,
  shared  <- contended,
  marked  <- {p \in Stages \X Applications :
                \E r \in Requests : /\ req[r].kind = "delete"
                                    /\ req[r].target = p[1] /\ p[2] \in req[r].selected}

StageJournalSpec == Journal!Spec

=============================================================================
