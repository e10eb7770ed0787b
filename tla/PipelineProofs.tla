---------------------------- MODULE PipelineProofs ----------------------------
(***************************************************************************)
(* Proofs about Pipeline, for all applications, stages, requests and       *)
(* batches.                                                                *)
(***************************************************************************)
EXTENDS Pipeline, SequenceTheorems, TLAPS

-----------------------------------------------------------------------------
(* Type correctness.                                                       *)

RequestType == MoveRequest \cup CountedRequest \cup DeleteRequest \cup Tasks \cup {NoRequest}

\* The record types of the requests are told apart by their kind.
LEMMA KindOfRequest ==
  ASSUME TypeOK, NEW r \in Requests
  PROVE  /\ Moving(r) => req[r] \in MoveRequest
         /\ req[r].kind = "counted" => req[r] \in CountedRequest
         /\ req[r].kind = "delete" => req[r] \in DeleteRequest
         /\ req[r].kind = "tasks" => req[r] \in Tasks
BY DEF TypeOK, Moving, MoveRequest, CountedRequest, DeleteRequest, Tasks, NoRequest

\* The item a move is at is an application; where it may go is a stage.
LEMMA ItemType ==
  ASSUME TypeOK, NEW r \in Requests, HasItem(r)
  PROVE  Item(r) \in Applications /\ Targets(r) \subseteq Stages
<1>1. req[r] \in MoveRequest
  BY KindOfRequest DEF HasItem
<1>2. req[r].batch \in Seq(Applications) /\ req[r].next \in 1..Len(req[r].batch)
  BY <1>1, LenProperties DEF HasItem, MoveRequest
<1>3. Item(r) \in Applications
  BY <1>2, ElementOfSeq DEF Item
<1> QED
  BY <1>3 DEF Targets

LEMMA AnnouncementsType ==
  ASSUME TypeOK, NEW r \in Requests, HasItem(r), NEW s \in Stages,
         NEW mails \in Announcements(r, s)
  PROVE  mails \in Seq(Mail)
<1> DEFINE by(k) == [app |-> Item(r), stage |-> s, by |-> k]
<1>1. by("rule") \in Mail /\ by("fallback") \in Mail
  BY ItemType DEF Mail
<1>2. ASSUME NEW n \in 1..MaxRules PROVE [i \in 1..n |-> by("rule")] \in Seq(Mail)
  BY <1>1, PipelineAssumption, IsASeq
<1>3. <<>> \in Seq(Mail) /\ <<by("fallback")>> \in Seq(Mail)
  BY <1>1
<1> QED
  BY <1>2, <1>3 DEF Announcements

StageIds == [Applications -> Stages \cup {NoStage}]

\* Updates of the fields of a move keep its type.
LEMMA MoveRequestUpdate ==
  ASSUME NEW q \in MoveRequest, NEW n \in Nat \ {0}, NEW f \in StageIds, NEW t \in StageIds,
         NEW w \in SUBSET (Applications \X Stages), NEW m \in Seq(Mail)
  PROVE  [q EXCEPT !.next = n, !.from = f, !.to = t, !.rows = w, !.mails = m] \in MoveRequest
<1> USE DEF MoveRequest, StageIds
<1>1. [q EXCEPT !.next = n, !.from = f] \in MoveRequest
  OBVIOUS
<1>2. [q EXCEPT !.next = n, !.from = f, !.to = t] \in MoveRequest
  BY <1>1
<1>3. [q EXCEPT !.next = n, !.from = f, !.to = t, !.rows = w] \in MoveRequest
  BY <1>2
<1> QED
  BY <1>3

LEMMA SkippedType ==
  ASSUME NEW r, req[r] \in MoveRequest
  PROVE  Skipped(r) \in MoveRequest
<1>1. ASSUME NEW q \in MoveRequest, NEW n \in Nat \ {0} PROVE [q EXCEPT !.next = n] \in MoveRequest
  BY DEF MoveRequest
<1>2. req[r].next + 1 \in Nat \ {0}
  BY DEF MoveRequest
<1> QED
  BY <1>1, <1>2 DEF Skipped

LEMMA MoveItemStep ==
  ASSUME TypeOK, NEW r \in Requests, MoveItem(r)
  PROVE  /\ req[r] \in MoveRequest /\ Item(r) \in Applications
         /\ \E s \in Stages, mails \in Seq(Mail) :
              /\ Moved(r, Item(r), s, mails) \in MoveRequest
              /\ req' = [req EXCEPT ![r] = Moved(r, Item(r), s, mails)]
<1>1. req[r] \in MoveRequest /\ Item(r) \in Applications /\ Targets(r) \subseteq Stages
  BY KindOfRequest, ItemType DEF MoveItem, HasItem
<1>2. PICK s \in Targets(r) : \E mails \in Announcements(r, s) :
        req' = [req EXCEPT ![r] = Moved(r, Item(r), s, mails)]
  BY DEF MoveItem
<1>3. PICK mails \in Announcements(r, s) :
        req' = [req EXCEPT ![r] = Moved(r, Item(r), s, mails)]
  BY <1>2
<1>4. s \in Stages /\ mails \in Seq(Mail)
  BY <1>1, <1>3, AnnouncementsType DEF MoveItem
<1>5. ReadStage(r, Item(r)) \in Stages \cup {NoStage}
  BY <1>1 DEF TypeOK, MoveRequest, ReadStage
<1>6. req[r].mails \o mails \in Seq(Mail)
  BY <1>1, <1>4, ConcatProperties DEF MoveRequest
<1>7. Moved(r, Item(r), s, mails) \in MoveRequest
  <2>1. /\ req[r].next + 1 \in Nat \ {0}
        /\ [req[r].from EXCEPT ![Item(r)] = ReadStage(r, Item(r))] \in StageIds
        /\ [req[r].to EXCEPT ![Item(r)] = s] \in StageIds
        /\ req[r].rows \cup {<<Item(r), s>>} \in SUBSET (Applications \X Stages)
    BY <1>1, <1>4, <1>5 DEF MoveRequest, StageIds
  <2> QED BY <1>1, <1>6, <2>1, MoveRequestUpdate DEF Moved
<1> QED
  BY <1>1, <1>3, <1>4, <1>7

LEMMA TypeInit == Init => TypeOK
BY DEF Init, TypeOK

LEMMA TypeStep == TypeOK /\ [Next]_vars => TypeOK'
<1> SUFFICES ASSUME TypeOK, [Next]_vars PROVE TypeOK'
  OBVIOUS
<1> USE PipelineAssumption DEF TypeOK, Names
<1>1. ASSUME NEW s \in Stages, NEW n \in Names, CreateStage(s, n) \/ RenameStage(s, n)
      PROVE  TypeOK'
  BY <1>1 DEF CreateStage, RenameStage, reqVars
<1>2. ASSUME NEW a \in Applications, SubmitApplication(a) PROVE TypeOK'
  BY <1>2 DEF SubmitApplication, reqVars
<1>3. ASSUME NEW a \in Applications, ScheduleInterview(a) \/ WithdrawInterview(a) PROVE TypeOK'
  BY <1>3 DEF ScheduleInterview, WithdrawInterview, reqVars
<1>4. ASSUME NEW r \in Requests, NEW s \in Stages, DeleteStageCheck(r, s) PROVE TypeOK'
  BY <1>4 DEF DeleteStageCheck, Start, rowVars, CountedRequest
<1>13. ASSUME NEW r \in Requests, DeleteStageSelect(r) PROVE TypeOK'
  <2>1. [kind |-> "delete", target |-> req[r].target, selected |-> In(req[r].target)]
          \in DeleteRequest
    BY <1>13, KindOfRequest DEF DeleteStageSelect, CountedRequest, DeleteRequest, In
  <2> QED BY <1>13, <2>1 DEF DeleteStageSelect, rowVars
<1>5. ASSUME NEW r \in Requests, DeleteStage(r) PROVE TypeOK'
  BY <1>5, KindOfRequest DEF DeleteStage, End, DeleteRequest
<1>6. ASSUME NEW r \in Requests, MoveOpens(r) PROVE TypeOK'
  <2>1. PICK kind \in {"move", "bulk", "reject"}, batch \in Seq(Applications),
             s \in Stages \cup {NoStage} : OpenMove(r, kind, batch, s)
    <3>1. ASSUME NEW s \in Stages, NEW a \in Applications PROVE <<a>> \in Seq(Applications)
      OBVIOUS
    <3> QED BY <1>6, <3>1 DEF MoveOpens
  <2>2. req' \in [Requests -> RequestType]
    BY <2>1 DEF OpenMove, Start, MoveRequest, RequestType
  <2>3. Range(batch) \subseteq Applications
    BY <2>1, ElementOfSeq, LenProperties DEF Range
  <2>4. contended' \subseteq Applications /\ clock' \in Nat
    BY <2>1, <2>3 DEF OpenMove
  <2> QED BY <2>1, <2>2, <2>4 DEF OpenMove, Start, rowVars, RequestType
<1>7. ASSUME NEW r \in Requests, MoveItem(r) PROVE TypeOK'
  <2>1. PICK now \in MoveRequest : req' = [req EXCEPT ![r] = now]
    BY <1>7, MoveItemStep
  <2>2. UNCHANGED <<rowVars, ended, clock, contended>>
    BY <1>7 DEF MoveItem
  <2> QED BY <2>1, <2>2 DEF rowVars
<1>8. ASSUME NEW r \in Requests, RefuseItem(r) PROVE TypeOK'
  <2>1. req[r] \in MoveRequest
    BY <1>8, KindOfRequest DEF RefuseItem, HasItem
  <2>2. Skipped(r) \in MoveRequest
    BY <2>1, SkippedType
  <2> QED BY <1>8, <2>2 DEF RefuseItem, End, rowVars
<1>9. ASSUME NEW r \in Requests, CommitMove(r) PROVE TypeOK'
  <2>1. req[r] \in MoveRequest
    BY <1>9, KindOfRequest DEF CommitMove
  <2>2. \A a \in Applications : Recorded(r, a) \subseteq HistoryRow
                                /\ WrittenStage(r, a) \in Stages \cup {NoStage}
    BY <2>1 DEF Recorded, WrittenStage, HistoryRow, MoveRequest
  <2>3. [kind |-> "tasks", at |-> req[r].at, mails |-> req[r].mails] \in Tasks
    BY <2>1 DEF MoveRequest, Tasks
  <2> QED BY <1>9, <2>2, <2>3 DEF CommitMove, Answer, End
<1>10. ASSUME NEW r \in Requests, FinishTasks(r) PROVE TypeOK'
  BY <1>10 DEF FinishTasks, rowVars
<1>11. ASSUME NEW r \in Requests, Abort(r) PROVE TypeOK'
  BY <1>11 DEF Abort, End, rowVars
<1>12. CASE UNCHANGED vars
  BY <1>12 DEF vars, rowVars, reqVars
<1> QED
  BY <1>1, <1>2, <1>3, <1>4, <1>5, <1>6, <1>7, <1>8, <1>9, <1>10, <1>11, <1>12, <1>13
     DEF Next

\* Every reachable state is well typed.
THEOREM TypeCorrect == Spec => []TypeOK
BY TypeInit, TypeStep, PTL DEF Spec

-----------------------------------------------------------------------------
(* Applications and their history.                                         *)

\* A stage that the history names exists.
HistoryIsLive ==
  \A a \in Applications : \A h \in history[a] : h.stage \in Stages /\ Live(h.stage)

\* An application that was moved is in a stage of its history, if in any.
MovedIsRecorded ==
  \A a \in Applications :
    history[a] # {} =>
      a \in submitted /\ (stage[a] = NoStage \/ \E h \in history[a] : h.stage = stage[a])

\* Only an application that exists is in a stage.
StagedAreSubmitted == \A a \in Applications : stage[a] # NoStage => a \in submitted

\* What a deletion selected stays in the stage until it is moved.
SelectedArePlaced ==
  \A r \in Requests : req[r].kind = "delete" =>
    \A a \in req[r].selected :
      a \in submitted /\ (history[a] = {} => stage[a] \in {req[r].target, NoStage})

\* What a move has in memory about application a: as long as no move of a was
\* committed, a is where it was read, unless that stage was deleted.
MemoryIsFresh(r, a) ==
  /\ req[r].to[a] # NoStage <=> \E s \in Stages : <<a, s>> \in req[r].rows
  /\ req[r].to[a] # NoStage =>
       /\ a \in submitted
       /\ <<a, req[r].to[a]>> \in req[r].rows
       /\ history[a] = {} =>
            \/ stage[a] = req[r].from[a]
            \/ req[r].from[a] \in Stages /\ name[req[r].from[a]] = "deleted"

MovesAreFresh == \A r \in Requests : Moving(r) => \A a \in Applications : MemoryIsFresh(r, a)

HistoryInv ==
  /\ TypeOK /\ HistoryIsLive /\ MovedIsRecorded /\ MovesAreFresh
  /\ StagedAreSubmitted /\ SelectedArePlaced

\* Only the selection of a deletion begins one.
LEMMA NoneSelects ==
  ASSUME TypeOK, [Next]_vars, NEW q \in Requests, req'[q].kind = "delete",
         ~DeleteStageSelect(q)
  PROVE  req'[q] = req[q]
<1>1. ASSUME NEW r \in Requests, NEW s \in Stages, DeleteStageCheck(r, s)
      PROVE  req'[q] = req[q]
  BY <1>1 DEF DeleteStageCheck, Start, TypeOK
<1>2. ASSUME NEW r \in Requests, DeleteStageSelect(r) PROVE req'[q] = req[q]
  BY <1>2 DEF DeleteStageSelect, TypeOK
<1>3. ASSUME NEW r \in Requests, DeleteStage(r) \/ FinishTasks(r) \/ Abort(r)
      PROVE  req'[q] = req[q]
  BY <1>3 DEF DeleteStage, FinishTasks, Abort, End, NoRequest, TypeOK
<1>4. ASSUME NEW r \in Requests, MoveOpens(r) PROVE req'[q] = req[q]
  <2>1. PICK kind \in {"move", "bulk", "reject"} : \E batch, s : OpenMove(r, kind, batch, s)
    BY <1>4 DEF MoveOpens
  <2> QED BY <2>1 DEF OpenMove, Start, TypeOK
<1>5. ASSUME NEW r \in Requests, MoveItem(r) PROVE req'[q] = req[q]
  <2>1. PICK s, mails : req' = [req EXCEPT ![r] = Moved(r, Item(r), s, mails)]
    BY <1>5 DEF MoveItem
  <2>2. Moved(r, Item(r), s, mails).kind # "delete"
    BY <1>5, KindOfRequest DEF MoveItem, HasItem, Moved, MoveRequest
  <2> QED BY <2>1, <2>2 DEF TypeOK
<1>6. ASSUME NEW r \in Requests, RefuseItem(r) PROVE req'[q] = req[q]
  <2>1. Skipped(r).kind # "delete"
    BY <1>6, KindOfRequest DEF RefuseItem, HasItem, Skipped, MoveRequest
  <2> QED BY <1>6, <2>1 DEF RefuseItem, End, NoRequest, TypeOK
<1>7. ASSUME NEW r \in Requests, CommitMove(r) PROVE req'[q] = req[q]
  BY <1>7 DEF CommitMove, Answer, End, NoRequest, TypeOK
<1>8. CASE UNCHANGED req
  BY <1>8
<1> QED
  BY <1>1, <1>2, <1>3, <1>4, <1>5, <1>6, <1>7, <1>8
     DEF Next, CreateStage, RenameStage, SubmitApplication, ScheduleInterview,
         WithdrawInterview, vars, reqVars

\* A step that selects nothing: an application stays in its stage, leaves it, is
\* submitted, or its history says where it went.
LEMMA PlacesStay ==
  ASSUME HistoryInv, submitted \subseteq submitted',
         \A a \in Applications :
           /\ history'[a] = {} => history[a] = {}
           /\ \/ stage'[a] = stage[a] \/ stage'[a] = NoStage
              \/ a \in submitted' \ submitted
              \/ a \in submitted /\ history'[a] # {},
         \A r \in Requests : req'[r].kind = "delete" => req'[r] = req[r]
  PROVE  StagedAreSubmitted' /\ SelectedArePlaced'
<1>1. StagedAreSubmitted'
  BY DEF HistoryInv, StagedAreSubmitted
<1>2. ASSUME NEW r \in Requests, req'[r].kind = "delete", NEW a \in req'[r].selected
      PROVE  /\ a \in submitted'
             /\ history'[a] = {} => stage'[a] \in {req'[r].target, NoStage}
  <2>1. req'[r] = req[r] /\ a \in Applications
    BY <1>2, KindOfRequest DEF HistoryInv, DeleteRequest
  <2>2. a \in submitted /\ (history[a] = {} => stage[a] \in {req[r].target, NoStage})
    BY <1>2, <2>1 DEF HistoryInv, SelectedArePlaced
  <2> QED BY <2>1, <2>2
<1> QED BY <1>1, <1>2 DEF SelectedArePlaced

LEMMA PlacesStep ==
  ASSUME HistoryInv, [Next]_vars
  PROVE  StagedAreSubmitted' /\ SelectedArePlaced'
<1> DEFINE Goal == StagedAreSubmitted' /\ SelectedArePlaced'
<1>0. TypeOK
  BY DEF HistoryInv
<1>1. ASSUME NEW d \in Requests, DeleteStageSelect(d) PROVE Goal
  <2> DEFINE s == req[d].target
  <2>1. /\ s \in Stages /\ UNCHANGED <<submitted, stage, history>>
        /\ req' = [req EXCEPT ![d] = [kind |-> "delete", target |-> s, selected |-> In(s)]]
    BY <1>0, <1>1, KindOfRequest DEF DeleteStageSelect, CountedRequest, rowVars
  <2>2. ASSUME NEW r \in Requests, req'[r].kind = "delete", NEW a \in req'[r].selected
        PROVE  a \in submitted /\ (history[a] = {} => stage[a] \in {req'[r].target, NoStage})
    <3>1. CASE r = d
      <4>1. req'[d].target = s /\ req'[d].selected = In(s)
        BY <1>0, <2>1 DEF TypeOK
      <4>2. a \in Applications /\ stage[a] = s
        BY <2>2, <3>1, <4>1 DEF In
      <4>3. a \in submitted
        BY <2>1, <4>2, PipelineAssumption DEF HistoryInv, StagedAreSubmitted
      <4> QED BY <3>1, <4>1, <4>2, <4>3
    <3>2. CASE r # d
      <4>1. req'[r] = req[r]
        BY <1>0, <2>1, <3>2 DEF TypeOK
      <4> QED BY <2>2, <4>1 DEF HistoryInv, SelectedArePlaced
    <3> QED BY <3>1, <3>2
  <2> QED BY <2>1, <2>2 DEF HistoryInv, StagedAreSubmitted, SelectedArePlaced
<1>2. CASE \A r \in Requests : ~DeleteStageSelect(r)
  <2>0. \A r \in Requests : req'[r].kind = "delete" => req'[r] = req[r]
    BY <1>0, <1>2, NoneSelects
  <2>1. ASSUME NEW b \in Applications, SubmitApplication(b) PROVE Goal
    <3>1. /\ submitted' = submitted \cup {b} /\ b \notin submitted
          /\ UNCHANGED history
          /\ \A a \in Applications \ {b} : stage'[a] = stage[a]
      BY <1>0, <2>1 DEF SubmitApplication, TypeOK, reqVars
    <3> QED BY <2>0, <3>1, PlacesStay
  <2>2. ASSUME NEW d \in Requests, DeleteStage(d) PROVE Goal
    <3>1. /\ UNCHANGED <<submitted, history>>
          /\ \A a \in Applications : stage'[a] = stage[a] \/ stage'[a] = NoStage
      BY <2>2 DEF DeleteStage
    <3> QED BY <2>0, <3>1, PlacesStay
  <2>3. ASSUME NEW c \in Requests, CommitMove(c) PROVE Goal
    <3>1. UNCHANGED submitted
      BY <2>3 DEF CommitMove
    <3>2. CASE UNCHANGED <<stage, history>>
      BY <2>0, <3>1, <3>2, PlacesStay
    <3>3. CASE /\ stage' = [a \in Applications |-> WrittenStage(c, a)]
               /\ history' = [a \in Applications |-> history[a] \cup Recorded(c, a)]
      <4>1. ASSUME NEW a \in Applications, stage'[a] # stage[a]
            PROVE  a \in submitted /\ history'[a] # {}
        <5>1. req[c].to[a] # NoStage
          BY <3>3, <4>1 DEF WrittenStage
        <5>2. a \in submitted /\ <<a, req[c].to[a]>> \in req[c].rows
          BY <2>3, <5>1 DEF CommitMove, HistoryInv, MovesAreFresh, MemoryIsFresh
        <5>3. [stage |-> req[c].to[a], at |-> req[c].at] \in Recorded(c, a)
          BY <5>2, <<a, req[c].to[a]>>[1] = a, <<a, req[c].to[a]>>[2] = req[c].to[a]
             DEF Recorded
        <5> QED BY <3>3, <5>2, <5>3
      <4>2. \A a \in Applications : history'[a] = {} => history[a] = {}
        BY <3>3
      <4> QED BY <2>0, <3>1, <4>1, <4>2, PlacesStay
    <3> QED BY <2>3, <3>2, <3>3 DEF CommitMove
  <2>4. CASE UNCHANGED <<submitted, stage, history>>
    BY <2>0, <2>4, PlacesStay
  <2>5. \/ \E a \in Applications : SubmitApplication(a)
        \/ \E r \in Requests : DeleteStage(r) \/ CommitMove(r)
        \/ UNCHANGED <<submitted, stage, history>>
    <3>1. \A r \in Requests : MoveOpens(r) => UNCHANGED <<submitted, stage, history>>
      BY DEF MoveOpens, OpenMove, rowVars
    <3>2. \A r \in Requests, s \in Stages :
            DeleteStageCheck(r, s) => UNCHANGED <<submitted, stage, history>>
      BY DEF DeleteStageCheck, rowVars
    <3>3. \A r \in Requests :
            MoveItem(r) \/ RefuseItem(r) \/ FinishTasks(r) \/ Abort(r) =>
              UNCHANGED <<submitted, stage, history>>
      BY DEF MoveItem, RefuseItem, FinishTasks, Abort, rowVars
    <3> QED
      BY <1>2, <3>1, <3>2, <3>3
         DEF Next, CreateStage, RenameStage, ScheduleInterview, WithdrawInterview, vars,
             rowVars, reqVars
  <2>6. ASSUME NEW r \in Requests, DeleteStage(r) \/ CommitMove(r) PROVE Goal
    BY <2>2, <2>3, <2>6
  <2> QED BY <2>1, <2>4, <2>5, <2>6
<1> QED
  BY <1>1, <1>2

\* A stage that gets a name keeps existing; a deleted one stays deleted.
LEMMA NamesStep ==
  ASSUME HistoryInv, UNCHANGED <<submitted, stage, history, req>>,
         \A s \in Stages : /\ Live(s) => Live(s)'
                           /\ name[s] = "deleted" => name'[s] = "deleted"
  PROVE  HistoryIsLive' /\ MovedIsRecorded' /\ MovesAreFresh'
<1>1. HistoryIsLive' /\ MovedIsRecorded'
  BY DEF HistoryInv, HistoryIsLive, MovedIsRecorded
<1>2. ASSUME NEW r \in Requests, Moving(r)', NEW a \in Applications
      PROVE  MemoryIsFresh(r, a)'
  <2>1. MemoryIsFresh(r, a)
    BY <1>2 DEF HistoryInv, MovesAreFresh, Moving
  <2> QED BY <2>1 DEF MemoryIsFresh
<1> QED
  BY <1>1, <1>2 DEF MovesAreFresh

\* Nothing but the requests changes, and every move keeps what it had read
\* and set, or starts with nothing.
LEMMA RequestsStep ==
  ASSUME HistoryInv, UNCHANGED <<name, submitted, stage, history>>,
         \A r \in Requests : Moving(r)' =>
           \/ /\ Moving(r)
              /\ req'[r].from = req[r].from
              /\ req'[r].to = req[r].to
              /\ req'[r].rows = req[r].rows
           \/ req'[r].rows = {} /\ req'[r].to = [a \in Applications |-> NoStage]
  PROVE  HistoryIsLive' /\ MovedIsRecorded' /\ MovesAreFresh'
<1>1. HistoryIsLive' /\ MovedIsRecorded'
  BY DEF HistoryInv, HistoryIsLive, MovedIsRecorded, Live
<1>2. ASSUME NEW r \in Requests, Moving(r)', NEW a \in Applications
      PROVE  MemoryIsFresh(r, a)'
  <2>1. CASE req'[r].rows = {} /\ req'[r].to = [b \in Applications |-> NoStage]
    BY <2>1 DEF MemoryIsFresh
  <2>2. CASE /\ Moving(r) /\ req'[r].from = req[r].from
             /\ req'[r].to = req[r].to /\ req'[r].rows = req[r].rows
    <3>1. MemoryIsFresh(r, a)
      BY <2>2 DEF HistoryInv, MovesAreFresh
    <3> QED BY <2>2, <3>1 DEF MemoryIsFresh
  <2> QED BY <1>2, <2>1, <2>2
<1> QED
  BY <1>1, <1>2 DEF MovesAreFresh

LEMMA SubmitStep ==
  ASSUME HistoryInv, NEW b \in Applications, SubmitApplication(b)
  PROVE  HistoryIsLive' /\ MovedIsRecorded' /\ MovesAreFresh'
<1> USE DEF SubmitApplication, reqVars
<1>1. HistoryIsLive'
  BY DEF HistoryInv, HistoryIsLive, Live
<1>2. \A a \in Applications \ {b} : stage'[a] = stage[a]
  BY DEF HistoryInv, TypeOK
<1>3. MovedIsRecorded'
  BY <1>2 DEF HistoryInv, MovedIsRecorded
<1>4. ASSUME NEW r \in Requests, Moving(r)', NEW a \in Applications
      PROVE  MemoryIsFresh(r, a)'
  <2>1. MemoryIsFresh(r, a)
    BY <1>4 DEF HistoryInv, MovesAreFresh, Moving
  <2> QED BY <1>2, <2>1 DEF MemoryIsFresh
<1> QED
  BY <1>1, <1>3, <1>4 DEF MovesAreFresh

LEMMA DeleteStep ==
  ASSUME HistoryInv, NEW d \in Requests, DeleteStage(d)
  PROVE  HistoryIsLive' /\ MovedIsRecorded' /\ MovesAreFresh'
<1> DEFINE s == req[d].target
<1>1. s \in Stages /\ UNCHANGED <<submitted, history>>
  BY KindOfRequest DEF DeleteStage, DeleteRequest, HistoryInv
<1>2. \A r \in Requests : Moving(r)' => Moving(r) /\ req'[r] = req[r]
  BY DEF DeleteStage, End, Moving, NoRequest, HistoryInv, TypeOK
<1>3. CASE UNCHANGED <<name, stage>>
  BY <1>1, <1>2, <1>3, RequestsStep
<1>4. CASE /\ \A a \in Applications : \A h \in history[a] : h.stage # s
           /\ name' = [name EXCEPT ![s] = "deleted"]
           /\ stage' = [a \in Applications |->
                          IF a \in req[d].selected \cup In(s) THEN NoStage ELSE stage[a]]
  <2>1. name'[s] = "deleted" /\ \A x \in Stages \ {s} : name'[x] = name[x]
    BY <1>1, <1>4 DEF HistoryInv, TypeOK
  <2>2. HistoryIsLive'
    BY <1>1, <1>4, <2>1 DEF HistoryInv, HistoryIsLive, Live
  <2>3. MovedIsRecorded'
    BY <1>1, <1>4 DEF HistoryInv, MovedIsRecorded
  <2>5. \A a \in Applications : history[a] = {} =>
           stage'[a] = stage[a] \/ stage[a] = s
    BY <1>4 DEF DeleteStage, HistoryInv, SelectedArePlaced, In
  <2>4. ASSUME NEW r \in Requests, Moving(r)', NEW a \in Applications
        PROVE  MemoryIsFresh(r, a)'
    <3>1. MemoryIsFresh(r, a) /\ req'[r] = req[r]
      BY <1>2, <2>4 DEF HistoryInv, MovesAreFresh
    <3> QED BY <1>1, <2>1, <2>5, <3>1 DEF MemoryIsFresh
  <2> QED BY <2>2, <2>3, <2>4 DEF MovesAreFresh
<1> QED
  BY <1>3, <1>4 DEF DeleteStage

LEMMA MoveItemKeeps ==
  ASSUME HistoryInv, NEW m \in Requests, MoveItem(m)
  PROVE  HistoryIsLive' /\ MovedIsRecorded' /\ MovesAreFresh'
<1> DEFINE b == Item(m)
<1>1. PICK s \in Stages, mails \in Seq(Mail) :
         req' = [req EXCEPT ![m] = Moved(m, b, s, mails)]
  BY MoveItemStep DEF HistoryInv
<1>2. req[m] \in MoveRequest /\ b \in Applications
  BY MoveItemStep DEF HistoryInv
<1>3. UNCHANGED <<name, submitted, stage, history>> /\ b \in submitted /\ Moving(m)
  BY DEF MoveItem, Movable, HasItem, rowVars
<1>4. HistoryIsLive' /\ MovedIsRecorded'
  BY <1>3 DEF HistoryInv, HistoryIsLive, MovedIsRecorded, Live
<1>5. ASSUME NEW r \in Requests, Moving(r)', NEW a \in Applications, r # m
      PROVE  MemoryIsFresh(r, a)'
  <2>1. req'[r] = req[r] /\ Moving(r)
    BY <1>1, <1>5 DEF Moving, HistoryInv, TypeOK
  <2>2. MemoryIsFresh(r, a)
    BY <2>1 DEF HistoryInv, MovesAreFresh
  <2> QED BY <1>3, <2>1, <2>2 DEF MemoryIsFresh
<1>6. ASSUME NEW a \in Applications PROVE MemoryIsFresh(m, a)'
  <2>1. MemoryIsFresh(m, a)
    BY <1>3 DEF HistoryInv, MovesAreFresh
  <2>2. /\ req'[m].from = [req[m].from EXCEPT ![b] = ReadStage(m, b)]
        /\ req'[m].to = [req[m].to EXCEPT ![b] = s]
        /\ req'[m].rows = req[m].rows \cup {<<b, s>>}
    <3>1. req'[m] = Moved(m, b, s, mails)
      BY <1>1 DEF HistoryInv, TypeOK
    <3>2. /\ Moved(m, b, s, mails).from = [req[m].from EXCEPT ![b] = ReadStage(m, b)]
          /\ Moved(m, b, s, mails).to = [req[m].to EXCEPT ![b] = s]
          /\ Moved(m, b, s, mails).rows = req[m].rows \cup {<<b, s>>}
      BY <1>2 DEF Moved, MoveRequest
    <3> HIDE DEF b
    <3> QED BY <3>1, <3>2
  <2>3. /\ req[m].from \in [Applications -> Stages \cup {NoStage}]
        /\ req[m].to \in [Applications -> Stages \cup {NoStage}]
    BY <1>2 DEF MoveRequest
  <2>4. CASE a = b
    <3>1. req'[m].to[a] = s /\ <<a, s>> \in req'[m].rows /\ s # NoStage
      BY <1>2, <2>2, <2>3, <2>4, PipelineAssumption
    <3>2. req'[m].from[a] = ReadStage(m, a)
      BY <1>2, <2>2, <2>3, <2>4
    <3> QED BY <1>3, <2>1, <2>4, <3>1, <3>2 DEF MemoryIsFresh, ReadStage
  <2>5. CASE a # b
    <3>1. /\ req'[m].to[a] = req[m].to[a] /\ req'[m].from[a] = req[m].from[a]
          /\ \A x \in Stages : <<a, x>> \in req'[m].rows <=> <<a, x>> \in req[m].rows
      BY <2>2, <2>3, <2>5
    <3>2. req[m].to[a] # NoStage => req[m].to[a] \in Stages
      BY <2>3
    <3> QED BY <1>3, <2>1, <3>1, <3>2 DEF MemoryIsFresh
  <2> QED BY <2>4, <2>5
<1> QED
  BY <1>4, <1>5, <1>6 DEF MovesAreFresh

LEMMA CommitStep ==
  ASSUME HistoryInv, NEW c \in Requests, CommitMove(c)
  PROVE  HistoryIsLive' /\ MovedIsRecorded' /\ MovesAreFresh'
<1>1. UNCHANGED <<name, submitted>> /\ req[c] \in MoveRequest /\ Moving(c)
  BY KindOfRequest DEF CommitMove, HistoryInv
<1>2. \A r \in Requests : Moving(r)' => Moving(r) /\ req'[r] = req[r]
  BY DEF CommitMove, Answer, End, Moving, NoRequest, HistoryInv, TypeOK
<1>3. CASE UNCHANGED <<stage, history>>
  BY <1>1, <1>2, <1>3, RequestsStep
<1>4. CASE /\ \A p \in req[c].rows : Live(p[2])
           /\ stage' = [a \in Applications |-> WrittenStage(c, a)]
           /\ history' = [a \in Applications |-> history[a] \cup Recorded(c, a)]
  <2>1. \A a \in Applications : \A h \in Recorded(c, a) :
           h.stage \in Stages /\ Live(h.stage) /\ <<a, h.stage>> \in req[c].rows
    BY <1>1, <1>4 DEF Recorded, MoveRequest
  <2>2. \A a \in Applications, s \in Stages : <<a, s>> \in req[c].rows =>
           \E h \in Recorded(c, a) : h.stage = s
    <3>1. ASSUME NEW a \in Applications, NEW s \in Stages, <<a, s>> \in req[c].rows
          PROVE  \E h \in Recorded(c, a) : h.stage = s
      <4>1. [stage |-> s, at |-> req[c].at] \in Recorded(c, a)
        BY <3>1, <<a, s>>[1] = a, <<a, s>>[2] = s DEF Recorded
      <4> QED BY <4>1
    <3> QED BY <3>1
  <2>3. HistoryIsLive'
    BY <1>1, <1>4, <2>1 DEF HistoryInv, HistoryIsLive, Live
  <2>4. \A a \in Applications : MemoryIsFresh(c, a) /\ req[c].to[a] \in Stages \cup {NoStage}
    BY <1>1 DEF HistoryInv, MovesAreFresh, MoveRequest
  <2>5. ASSUME NEW a \in Applications, history'[a] # {}
        PROVE  /\ a \in submitted'
               /\ stage'[a] = NoStage \/ \E h \in history'[a] : h.stage = stage'[a]
    <3>1. CASE req[c].to[a] = NoStage
      <4>1. Recorded(c, a) = {} /\ stage'[a] = stage[a]
        BY <1>4, <2>1, <2>4, <3>1 DEF MemoryIsFresh, WrittenStage
      <4> QED BY <1>1, <1>4, <2>5, <4>1 DEF HistoryInv, MovedIsRecorded
    <3>2. CASE req[c].to[a] # NoStage
      <4>1. /\ a \in submitted /\ req[c].to[a] \in Stages
            /\ <<a, req[c].to[a]>> \in req[c].rows
        BY <2>4, <3>2 DEF MemoryIsFresh
      <4>2. \E h \in history'[a] : h.stage = req[c].to[a]
        BY <1>4, <2>2, <4>1
      <4>3. CASE stage'[a] = req[c].to[a]
        BY <1>1, <4>1, <4>2, <4>3
      <4>4. CASE stage'[a] # req[c].to[a]
        <5>1. stage'[a] = stage[a] /\ req[c].to[a] = req[c].from[a]
          BY <1>4, <3>2, <4>4 DEF WrittenStage
        <5>2. Live(req[c].from[a])
          BY <1>4, <4>1, <5>1
        <5>3. history[a] # {}
          BY <2>4, <3>2, <4>4, <5>1, <5>2 DEF MemoryIsFresh, Live, Names
        <5> QED BY <1>1, <1>4, <4>1, <5>1, <5>3 DEF HistoryInv, MovedIsRecorded
      <4> QED BY <4>3, <4>4
    <3> QED BY <3>1, <3>2
  <2>6. ASSUME NEW r \in Requests, Moving(r)', NEW a \in Applications
        PROVE  MemoryIsFresh(r, a)'
    <3>1. MemoryIsFresh(r, a) /\ req'[r] = req[r]
      BY <1>2, <2>6 DEF HistoryInv, MovesAreFresh
    <3>2. CASE history'[a] # {}
      BY <1>1, <3>1, <3>2 DEF MemoryIsFresh
    <3>3. CASE history'[a] = {}
      <4>1. history[a] = {} /\ Recorded(c, a) = {}
        BY <1>4, <3>3
      <4>2. stage'[a] = stage[a]
        BY <1>4, <2>2, <2>4, <4>1 DEF MemoryIsFresh, WrittenStage
      <4> QED BY <1>1, <3>1, <4>1, <4>2 DEF MemoryIsFresh
    <3> QED BY <3>2, <3>3
  <2> QED BY <2>3, <2>5, <2>6 DEF MovedIsRecorded, MovesAreFresh
<1> QED
  BY <1>3, <1>4 DEF CommitMove

LEMMA HistoryInit == Init => HistoryInv
BY TypeInit DEF Init, HistoryInv, HistoryIsLive, MovedIsRecorded, MovesAreFresh, Moving,
   NoRequest, StagedAreSubmitted, SelectedArePlaced

LEMMA HistoryStep == HistoryInv /\ [Next]_vars => HistoryInv'
<1> SUFFICES ASSUME HistoryInv, [Next]_vars
             PROVE  HistoryIsLive' /\ MovedIsRecorded' /\ MovesAreFresh'
  BY TypeStep, PlacesStep DEF HistoryInv
<1>0. TypeOK
  BY DEF HistoryInv
<1> DEFINE Goal == HistoryIsLive' /\ MovedIsRecorded' /\ MovesAreFresh'
<1>1. ASSUME NEW s \in Stages, NEW n \in Names, CreateStage(s, n) \/ RenameStage(s, n)
      PROVE  Goal
  <2>1. \A x \in Stages : /\ Live(x) => Live(x)'
                          /\ name[x] = "deleted" => name'[x] = "deleted"
    BY <1>0, <1>1 DEF CreateStage, RenameStage, TypeOK, Live, Names
  <2>2. UNCHANGED <<submitted, stage, history, req>>
    BY <1>1 DEF CreateStage, RenameStage, reqVars
  <2> QED BY <2>1, <2>2, NamesStep
<1>2. ASSUME NEW a \in Applications, SubmitApplication(a) PROVE Goal
  BY <1>2, SubmitStep
<1>3. ASSUME NEW a \in Applications, ScheduleInterview(a) \/ WithdrawInterview(a) PROVE Goal
  <2>1. UNCHANGED <<name, submitted, stage, history, req>>
    BY <1>3 DEF ScheduleInterview, WithdrawInterview, reqVars
  <2> QED BY <2>1, RequestsStep DEF Moving
<1>4. ASSUME NEW r \in Requests, NEW s \in Stages, DeleteStageCheck(r, s) PROVE Goal
  <2>1. \A q \in Requests : Moving(q)' => Moving(q) /\ req'[q] = req[q]
    BY <1>0, <1>4 DEF DeleteStageCheck, Start, Moving, TypeOK
  <2>2. UNCHANGED <<name, submitted, stage, history>>
    BY <1>4 DEF DeleteStageCheck, rowVars
  <2> QED BY <2>1, <2>2, RequestsStep
<1>12. ASSUME NEW r \in Requests, DeleteStageSelect(r) PROVE Goal
  <2>1. \A q \in Requests : Moving(q)' => Moving(q) /\ req'[q] = req[q]
    BY <1>0, <1>12 DEF DeleteStageSelect, Moving, TypeOK
  <2>2. UNCHANGED <<name, submitted, stage, history>>
    BY <1>12 DEF DeleteStageSelect, rowVars
  <2> QED BY <2>1, <2>2, RequestsStep
<1>5. ASSUME NEW r \in Requests, DeleteStage(r) PROVE Goal
  BY <1>5, DeleteStep
<1>6. ASSUME NEW r \in Requests, MoveOpens(r) PROVE Goal
  <2>1. PICK kind, batch, s : OpenMove(r, kind, batch, s)
    BY <1>6 DEF MoveOpens
  <2>2. \A q \in Requests : Moving(q)' =>
          \/ Moving(q) /\ req'[q] = req[q]
          \/ req'[q].rows = {} /\ req'[q].to = [a \in Applications |-> NoStage]
    BY <1>0, <2>1 DEF OpenMove, Start, Moving, TypeOK
  <2>3. UNCHANGED <<name, submitted, stage, history>>
    BY <2>1 DEF OpenMove, rowVars
  <2> QED BY <2>2, <2>3, RequestsStep
<1>7. ASSUME NEW r \in Requests, MoveItem(r) PROVE Goal
  BY <1>7, MoveItemKeeps
<1>8. ASSUME NEW r \in Requests, RefuseItem(r) PROVE Goal
  <2>1. req[r] \in MoveRequest /\ Moving(r)
    BY <1>0, <1>8, KindOfRequest DEF RefuseItem, HasItem
  <2>2. /\ Skipped(r).from = req[r].from /\ Skipped(r).to = req[r].to
        /\ Skipped(r).rows = req[r].rows
    BY <2>1 DEF Skipped, MoveRequest
  <2>3. \A q \in Requests : Moving(q)' =>
          /\ Moving(q) /\ req'[q].from = req[q].from
          /\ req'[q].to = req[q].to /\ req'[q].rows = req[q].rows
    BY <1>0, <1>8, <2>1, <2>2 DEF RefuseItem, End, Moving, NoRequest, TypeOK
  <2>4. UNCHANGED <<name, submitted, stage, history>>
    BY <1>8 DEF RefuseItem, rowVars
  <2> QED BY <2>3, <2>4, RequestsStep
<1>9. ASSUME NEW r \in Requests, CommitMove(r) PROVE Goal
  BY <1>9, CommitStep
<1>10. ASSUME NEW r \in Requests, FinishTasks(r) \/ Abort(r) PROVE Goal
  <2>1. \A q \in Requests : Moving(q)' => Moving(q) /\ req'[q] = req[q]
    BY <1>0, <1>10 DEF FinishTasks, Abort, End, Moving, NoRequest, TypeOK
  <2>2. UNCHANGED <<name, submitted, stage, history>>
    BY <1>10 DEF FinishTasks, Abort, rowVars
  <2> QED BY <2>1, <2>2, RequestsStep
<1>11. CASE UNCHANGED vars
  <2>1. UNCHANGED <<name, submitted, stage, history, req>>
    BY <1>11 DEF vars, rowVars, reqVars
  <2> QED BY <2>1, RequestsStep DEF Moving
<1> QED
  BY <1>1, <1>2, <1>3, <1>4, <1>5, <1>6, <1>7, <1>8, <1>9, <1>10, <1>11, <1>12 DEF Next

\* Deleting stages beside moves, and moves beside moves, never leaves an
\* application that was moved in a stage outside its history, nor a history
\* that names a deleted stage.
THEOREM MovesAreRecorded == Spec => []StageIsRecorded
<1>1. HistoryInv => StageIsRecorded
  BY DEF HistoryInv, HistoryIsLive, MovedIsRecorded, StageIsRecorded
<1> QED
  BY <1>1, HistoryInit, HistoryStep, PTL DEF Spec

-----------------------------------------------------------------------------
(* What candidates are told.                                               *)

OneChannel(mails) ==
  \A i, j \in DOMAIN mails : mails[i].app = mails[j].app => mails[i].by = mails[j].by

\* The mails of a move are about history rows that it adds.  A single move has
\* mails of one kind for its one item; a batch has no others than the default.
MailsFollowRows(r) ==
  /\ \A i \in DOMAIN req[r].mails :
       <<req[r].mails[i].app, req[r].mails[i].stage>> \in req[r].rows
  /\ OneChannel(req[r].mails)
  /\ req[r].kind = "move" =>
       Len(req[r].batch) = 1 /\ (req[r].next = 1 => req[r].mails = <<>>)
  /\ req[r].kind # "move" => \A i \in DOMAIN req[r].mails : req[r].mails[i].by = "fallback"

\* The mails of a move that was committed are about rows of the history.
MailsAreTrue(r) ==
  /\ \A i \in DOMAIN req[r].mails :
       \E h \in history[req[r].mails[i].app] :
         h.at = req[r].at /\ h.stage = req[r].mails[i].stage
  /\ OneChannel(req[r].mails)

MailInv ==
  /\ TypeOK
  /\ \A r \in Requests : /\ Moving(r) => MailsFollowRows(r)
                         /\ req[r].kind = "tasks" => MailsAreTrue(r)

LEMMA ConcatElements ==
  ASSUME NEW u \in Seq(Mail), NEW v \in Seq(Mail), NEW i \in DOMAIN (u \o v)
  PROVE  \/ i \in DOMAIN u /\ (u \o v)[i] = u[i]
         \/ \E j \in DOMAIN v : (u \o v)[i] = v[j]
<1>1. i \in 1..(Len(u) + Len(v)) /\ Len(u) \in Nat /\ Len(v) \in Nat
  BY ConcatProperties, LenProperties
<1>2. CASE i <= Len(u)
  BY <1>1, <1>2, ConcatProperties, LenProperties
<1>3. CASE i > Len(u)
  <2>1. i - Len(u) \in 1..Len(v)
    BY <1>1, <1>3
  <2>2. (u \o v)[i] = v[i - Len(u)]
    BY <1>1, <1>3, ConcatProperties
  <2>3. i - Len(u) \in DOMAIN v
    BY <2>1, LenProperties
  <2> QED BY <2>2, <2>3
<1> QED BY <1>1, <1>2, <1>3

\* What one item adds is about that item and of one kind.
LEMMA AnnouncementsTell ==
  ASSUME NEW r \in Requests, NEW s \in Stages, NEW mails \in Announcements(r, s)
  PROVE  /\ \A i \in DOMAIN mails : mails[i].app = Item(r) /\ mails[i].stage = s
         /\ OneChannel(mails)
         /\ req[r].kind # "move" => \A i \in DOMAIN mails : mails[i].by = "fallback"
<1> DEFINE by(k) == [app |-> Item(r), stage |-> s, by |-> k]
<1>1. /\ by("rule").app = Item(r) /\ by("rule").stage = s /\ by("rule").by = "rule"
      /\ by("fallback").app = Item(r) /\ by("fallback").stage = s
      /\ by("fallback").by = "fallback"
  OBVIOUS
<1>2. \/ mails = <<>>
      \/ mails = <<by("fallback")>>
      \/ req[r].kind = "move" /\ \E n \in 1..MaxRules : mails = [i \in 1..n |-> by("rule")]
  BY DEF Announcements
<1> HIDE DEF by
<1>3. CASE mails = <<>>
  BY <1>3 DEF OneChannel
<1>4. CASE mails = <<by("fallback")>>
  <2>1. \A i \in DOMAIN mails : mails[i] = by("fallback")
    BY <1>4
  <2> QED BY <1>1, <2>1 DEF OneChannel
<1>5. CASE req[r].kind = "move" /\ \E n \in 1..MaxRules : mails = [i \in 1..n |-> by("rule")]
  <2>1. \A i \in DOMAIN mails : mails[i] = by("rule")
    BY <1>5
  <2> QED BY <1>1, <1>5, <2>1 DEF OneChannel
<1> QED BY <1>2, <1>3, <1>4, <1>5

\* A step keeps the history of everybody; a request keeps its mails, or has
\* none, or its mails are true.
LEMMA MailsStay ==
  ASSUME MailInv, TypeOK',
         \A a \in Applications : history[a] \subseteq history'[a],
         \A r \in Requests :
           /\ Moving(r)' => (Moving(r) /\ req'[r] = req[r]) \/ MailsFollowRows(r)'
           /\ req'[r].kind = "tasks" => req'[r] = req[r] \/ MailsAreTrue(r)'
  PROVE  MailInv'
<1>1. ASSUME NEW r \in Requests, Moving(r)' PROVE MailsFollowRows(r)'
  BY <1>1 DEF MailInv, MailsFollowRows
<1>2. ASSUME NEW r \in Requests, req'[r].kind = "tasks" PROVE MailsAreTrue(r)'
  <2>1. CASE req'[r] = req[r]
    <3>1. MailsAreTrue(r) /\ req[r] \in Tasks
      BY <1>2, <2>1, KindOfRequest DEF MailInv
    <3>2. \A i \in DOMAIN req[r].mails : req[r].mails[i].app \in Applications
      <4>1. req[r].mails \in Seq(Mail)
        BY <3>1 DEF Tasks
      <4>2. \A i \in DOMAIN req[r].mails : req[r].mails[i] \in Mail
        BY <4>1, ElementOfSeq, LenProperties
      <4> QED BY <4>2 DEF Mail
    <3> QED BY <2>1, <3>1, <3>2 DEF MailsAreTrue
  <2> QED BY <1>2, <2>1
<1> QED BY <1>1, <1>2 DEF MailInv

LEMMA MoveItemTells ==
  ASSUME MailInv, TypeOK', NEW r \in Requests, MoveItem(r)
  PROVE  MailInv'
<1>1. /\ req[r] \in MoveRequest /\ Item(r) \in Applications /\ Targets(r) \subseteq Stages
      /\ HasItem(r) /\ Moving(r) /\ UNCHANGED history
  BY KindOfRequest, ItemType DEF MoveItem, HasItem, MailInv, rowVars
<1>2. PICK s \in Targets(r) : \E mails \in Announcements(r, s) :
        req' = [req EXCEPT ![r] = Moved(r, Item(r), s, mails)]
  BY DEF MoveItem
<1>3. PICK mails \in Announcements(r, s) :
        req' = [req EXCEPT ![r] = Moved(r, Item(r), s, mails)]
  BY <1>2
<1>4. s \in Stages /\ mails \in Seq(Mail)
  BY <1>1, AnnouncementsType DEF MailInv
<1>5. /\ req'[r] = Moved(r, Item(r), s, mails)
      /\ \A q \in Requests \ {r} : req'[q] = req[q]
  BY <1>3 DEF MailInv, TypeOK
<1>6. /\ req'[r].kind = req[r].kind /\ req'[r].batch = req[r].batch
      /\ req'[r].next = req[r].next + 1
      /\ req'[r].rows = req[r].rows \cup {<<Item(r), s>>}
      /\ req'[r].mails = req[r].mails \o mails
  BY <1>1, <1>5 DEF Moved, MoveRequest
<1>7. MailsFollowRows(r)
  BY <1>1 DEF MailInv
<1>8. MailsFollowRows(r)'
  <2> DEFINE old == req[r].mails
             new == old \o mails
  <2>1. /\ old \in Seq(Mail) /\ req[r].next \in Nat \ {0}
        /\ req[r].next <= Len(req[r].batch)
    BY <1>1 DEF MoveRequest, HasItem
  <2> HIDE DEF old
  <2>2. \A i \in DOMAIN new : \/ i \in DOMAIN old /\ new[i] = old[i]
                              \/ \E j \in DOMAIN mails : new[i] = mails[j]
    BY <1>4, <2>1, ConcatElements
  <2> HIDE DEF new
  <2>3. /\ \A i \in DOMAIN mails : mails[i].app = Item(r) /\ mails[i].stage = s
        /\ OneChannel(mails)
        /\ req[r].kind # "move" => \A i \in DOMAIN mails : mails[i].by = "fallback"
    BY <1>4, AnnouncementsTell
  <2>4. \A i \in DOMAIN new : <<new[i].app, new[i].stage>> \in req'[r].rows
    BY <1>6, <1>7, <2>2, <2>3 DEF MailsFollowRows, old
  <2>5. req[r].kind # "move" => \A i \in DOMAIN new : new[i].by = "fallback"
    BY <1>7, <2>2, <2>3 DEF MailsFollowRows, old
  <2>6. CASE req[r].kind = "move"
    <3>1. Len(req[r].batch) = 1 /\ (req[r].next = 1 => old = <<>>)
      BY <1>7, <2>6 DEF MailsFollowRows, old
    <3>2. req[r].next = 1
      BY <2>1, <3>1
    <3>3. new = mails
      BY <1>4, <3>1, <3>2, ConcatEmptySeq DEF new
    <3> QED BY <1>6, <2>3, <2>4, <2>6, <3>1, <3>2, <3>3 DEF MailsFollowRows, new, old
  <2>7. CASE req[r].kind # "move"
    <3>1. OneChannel(new)
      BY <2>5, <2>7 DEF OneChannel
    <3> QED BY <1>6, <2>4, <2>5, <2>7, <3>1 DEF MailsFollowRows, new, old
  <2> QED BY <2>6, <2>7
<1>9. ASSUME NEW q \in Requests
      PROVE  /\ Moving(q)' => (Moving(q) /\ req'[q] = req[q]) \/ MailsFollowRows(q)'
             /\ req'[q].kind = "tasks" => req'[q] = req[q] \/ MailsAreTrue(q)'
  <2>1. CASE q = r
    BY <1>1, <1>6, <1>8, <2>1 DEF Moving
  <2>2. CASE q # r
    BY <1>5, <2>2 DEF Moving
  <2> QED BY <2>1, <2>2
<1> QED BY <1>1, <1>9, MailsStay

LEMMA CommitTells ==
  ASSUME MailInv, TypeOK', NEW c \in Requests, CommitMove(c)
  PROVE  MailInv'
<1>1. req[c] \in MoveRequest /\ Moving(c) /\ MailsFollowRows(c)
  BY KindOfRequest DEF CommitMove, MailInv
<1>2. \A q \in Requests \ {c} : req'[q] = req[q]
  BY DEF CommitMove, Answer, End, MailInv, TypeOK
<1>3. CASE End(c) /\ UNCHANGED <<stage, history>>
  <2>1. req'[c] = NoRequest
    BY <1>3 DEF End, MailInv, TypeOK
  <2> QED BY <1>2, <1>3, <2>1, MailsStay DEF Moving, NoRequest
<1>4. CASE /\ Answer(c, req[c].mails)
           /\ history' = [a \in Applications |-> history[a] \cup Recorded(c, a)]
  <2>1. req'[c] = [kind |-> "tasks", at |-> req[c].at, mails |-> req[c].mails]
    BY <1>4 DEF Answer, MailInv, TypeOK
  <2>2. ASSUME NEW i \in DOMAIN req[c].mails
        PROVE  \E h \in history'[req[c].mails[i].app] :
                 h.at = req[c].at /\ h.stage = req[c].mails[i].stage
    <3> DEFINE a == req[c].mails[i].app
               s == req[c].mails[i].stage
    <3>1. <<a, s>> \in req[c].rows /\ a \in Applications
      BY <1>1 DEF MailsFollowRows, MoveRequest
    <3> HIDE DEF a, s
    <3>2. [stage |-> s, at |-> req[c].at] \in Recorded(c, a)
      BY <3>1, <<a, s>>[1] = a, <<a, s>>[2] = s DEF Recorded
    <3>3. [stage |-> s, at |-> req[c].at] \in history'[a]
      BY <1>4, <3>1, <3>2
    <3> QED BY <3>3 DEF a, s
  <2>3. MailsAreTrue(c)'
    BY <1>1, <2>1, <2>2 DEF MailsAreTrue, MailsFollowRows
  <2> QED BY <1>2, <1>4, <2>1, <2>3, MailsStay DEF Moving
<1> QED BY <1>3, <1>4 DEF CommitMove

LEMMA MailStep == MailInv /\ [Next]_vars => MailInv'
<1> SUFFICES ASSUME MailInv, [Next]_vars PROVE MailInv'
  OBVIOUS
<1>1. TypeOK /\ TypeOK'
  BY TypeStep DEF MailInv
<1>2. ASSUME UNCHANGED <<history, req>> PROVE MailInv'
  BY <1>1, <1>2, MailsStay DEF Moving
<1>3. ASSUME NEW r \in Requests, NEW q, UNCHANGED history, req' = [req EXCEPT ![r] = q],
             q.kind \notin {"move", "bulk", "reject", "tasks"}
      PROVE  MailInv'
  <2>1. req'[r] = q /\ \A p \in Requests \ {r} : req'[p] = req[p]
    BY <1>1, <1>3 DEF TypeOK
  <2> QED BY <1>1, <1>3, <2>1, MailsStay DEF Moving
<1>4. ASSUME NEW s \in Stages, NEW n \in Names, CreateStage(s, n) \/ RenameStage(s, n)
      PROVE  MailInv'
  BY <1>2, <1>4 DEF CreateStage, RenameStage, reqVars
<1>5. ASSUME NEW a \in Applications,
             SubmitApplication(a) \/ ScheduleInterview(a) \/ WithdrawInterview(a)
      PROVE  MailInv'
  BY <1>2, <1>5 DEF SubmitApplication, ScheduleInterview, WithdrawInterview, reqVars
<1>6. ASSUME NEW r \in Requests, NEW s \in Stages, DeleteStageCheck(r, s) PROVE MailInv'
  BY <1>3, <1>6 DEF DeleteStageCheck, Start, rowVars
<1>7. ASSUME NEW r \in Requests,
             DeleteStageSelect(r) \/ DeleteStage(r) \/ FinishTasks(r) \/ Abort(r)
      PROVE  MailInv'
  BY <1>3, <1>7 DEF DeleteStageSelect, DeleteStage, FinishTasks, Abort, End, rowVars, NoRequest
<1>8. ASSUME NEW r \in Requests, MoveOpens(r) PROVE MailInv'
  <2>1. PICK kind, batch, s :
          /\ OpenMove(r, kind, batch, s)
          /\ \/ kind = "move" /\ \E a \in Applications : batch = <<a>>
             \/ kind \in {"bulk", "reject"}
    BY <1>8 DEF MoveOpens
  <2>2. /\ req'[r].kind = kind /\ req'[r].batch = batch /\ req'[r].mails = <<>>
        /\ \A p \in Requests \ {r} : req'[p] = req[p]
    BY <1>1, <2>1 DEF OpenMove, Start, TypeOK
  <2>3. MailsFollowRows(r)'
    BY <2>1, <2>2 DEF MailsFollowRows, OneChannel
  <2>4. UNCHANGED history /\ req'[r].kind # "tasks"
    BY <2>1, <2>2 DEF OpenMove, rowVars
  <2> QED BY <1>1, <2>2, <2>3, <2>4, MailsStay DEF Moving
<1>9. ASSUME NEW r \in Requests, MoveItem(r) PROVE MailInv'
  BY <1>1, <1>9, MoveItemTells
<1>10. ASSUME NEW r \in Requests, RefuseItem(r) PROVE MailInv'
  <2>1. req[r] \in MoveRequest /\ HasItem(r) /\ Moving(r) /\ UNCHANGED history
    BY <1>1, <1>10, KindOfRequest DEF RefuseItem, HasItem, rowVars
  <2>2. CASE End(r)
    BY <1>3, <2>1, <2>2 DEF End, NoRequest
  <2>3. CASE req[r].kind # "move" /\ req' = [req EXCEPT ![r] = Skipped(r)]
    <3>1. req'[r] = Skipped(r) /\ \A p \in Requests \ {r} : req'[p] = req[p]
      BY <1>1, <2>3 DEF TypeOK
    <3>2. /\ req'[r].kind = req[r].kind /\ req'[r].rows = req[r].rows
          /\ req'[r].mails = req[r].mails
      BY <2>1, <3>1 DEF Skipped, MoveRequest
    <3>3. MailsFollowRows(r)' /\ req'[r].kind # "tasks"
      BY <2>1, <2>3, <3>2 DEF MailInv, MailsFollowRows, Moving
    <3> QED BY <1>1, <2>1, <3>1, <3>3, MailsStay DEF Moving
  <2> QED BY <1>10, <2>2, <2>3 DEF RefuseItem
<1>11. ASSUME NEW r \in Requests, CommitMove(r) PROVE MailInv'
  BY <1>1, <1>11, CommitTells
<1>12. CASE UNCHANGED vars
  BY <1>2, <1>12 DEF vars, rowVars, reqVars
<1> QED
  BY <1>4, <1>5, <1>6, <1>7, <1>8, <1>9, <1>10, <1>11, <1>12 DEF Next

\* Whatever a candidate is told of a move was committed before, and each move
\* is told by the rules or by the default mail, never by both: the tasks of a
\* request that fails are dropped, and only a single move asks for rules.
THEOREM MailsAreCommitted == Spec => []MailsTellCommittedMoves
<1>1. Init => MailInv
  BY TypeInit DEF Init, MailInv, Moving, NoRequest
<1>2. MailInv => MailsTellCommittedMoves
  BY DEF MailInv, MailsAreTrue, OneChannel, MailsTellCommittedMoves
<1> QED
  BY <1>1, <1>2, MailStep, PTL DEF Spec

-----------------------------------------------------------------------------
(* The history of an application that no two requests moved at one time.   *)

Holds(r, a) == Moving(r) /\ a \in Range(req[r].batch)

\* Times are in the past; nothing is set outside of the batch.
TimesArePast ==
  /\ \A a \in Applications : \A h \in history[a] : h.at < clock
  /\ \A r \in Requests : Moving(r) =>
       /\ req[r].at < clock
       /\ \A a \in Applications : req[r].to[a] # NoStage => a \in Range(req[r].batch)

\* Two moves in flight that share an application are seen by the observer.
SharedIsContended ==
  \A r, q \in Requests : r # q =>
    \A a \in Applications : Holds(r, a) /\ Holds(q, a) => a \in contended

\* A move is alone with an application: the history ends before it began, and
\* the application is where it was read, unless that stage was deleted, or a
\* deletion took it out.
AloneWith(r, a) ==
  /\ \A h \in history[a] : h.at < req[r].at
  /\ req[r].to[a] # NoStage =>
       \/ stage[a] = req[r].from[a] \/ stage[a] = NoStage
       \/ req[r].from[a] \in Stages /\ name[req[r].from[a]] = "deleted"

MovesAreAlone ==
  \A r \in Requests, a \in Applications \ contended : Holds(r, a) => AloneWith(r, a)

OrderInv ==
  HistoryInv /\ TimesArePast /\ SharedIsContended /\ MovesAreAlone /\ HistoryEndsAtStage

OrderGoal ==
  TimesArePast' /\ SharedIsContended' /\ MovesAreAlone' /\ HistoryEndsAtStage'

\* No history is written, and a stage is set to NULL, or written before anything
\* is known of the application.
LEMMA OrderStays ==
  ASSUME OrderInv, HistoryInv', UNCHANGED <<history, contended, clock>>,
         \A s \in Stages : name[s] = "deleted" => name'[s] = "deleted",
         \A a \in Applications :
           stage'[a] = stage[a] \/ stage'[a] = NoStage \/ a \notin submitted,
         \A r \in Requests : Moving(r)' =>
           /\ Moving(r)
           /\ req'[r].batch = req[r].batch /\ req'[r].at = req[r].at
           /\ req'[r].from = req[r].from /\ req'[r].to = req[r].to
  PROVE  OrderGoal
<1>1. TimesArePast'
  BY DEF OrderInv, TimesArePast
<1>2. \A r \in Requests, a \in Applications : Holds(r, a)' => Holds(r, a)
  BY DEF Holds
<1>3. SharedIsContended'
  BY <1>2 DEF OrderInv, SharedIsContended
<1>4. ASSUME NEW r \in Requests, NEW a \in Applications \ contended, Holds(r, a)'
      PROVE  AloneWith(r, a)'
  <2>1. AloneWith(r, a) /\ Moving(r) /\ MemoryIsFresh(r, a)
    BY <1>2, <1>4 DEF OrderInv, MovesAreAlone, HistoryInv, MovesAreFresh, Holds
  <2>2. /\ req'[r].at = req[r].at /\ req'[r].from = req[r].from /\ req'[r].to = req[r].to
    BY <1>4 DEF Holds
  <2>3. CASE req[r].to[a] = NoStage
    BY <2>1, <2>2, <2>3 DEF AloneWith
  <2>4. CASE req[r].to[a] # NoStage
    <3>1. a \in submitted
      BY <2>1, <2>4 DEF MemoryIsFresh
    <3> QED BY <2>1, <2>2, <2>4, <3>1 DEF AloneWith
  <2> QED BY <2>3, <2>4
<1>5. MovesAreAlone'
  BY <1>4 DEF MovesAreAlone
<1>6. HistoryEndsAtStage'
  <2> SUFFICES ASSUME NEW a \in Applications \ contended, history[a] # {},
                      stage'[a] # NoStage
      PROVE  \E h \in history[a] : h.stage = stage'[a] /\ \A g \in history[a] : g.at <= h.at
    BY DEF HistoryEndsAtStage
  <2>1. stage'[a] = stage[a]
    BY DEF OrderInv, HistoryInv, MovedIsRecorded
  <2> QED BY <2>1 DEF OrderInv, HistoryEndsAtStage
<1> QED BY <1>1, <1>3, <1>5, <1>6 DEF OrderGoal

\* A move begins: whoever else has one of its applications is seen.
LEMMA OpeningOrders ==
  ASSUME OrderInv, NEW r \in Requests, NEW kind, NEW batch, NEW s,
         OpenMove(r, kind, batch, s), HistoryInv'
  PROVE  OrderGoal
<1>1. /\ req'[r].batch = batch /\ req'[r].at = clock
      /\ req'[r].to = [a \in Applications |-> NoStage]
      /\ \A q \in Requests \ {r} : req'[q] = req[q]
      /\ clock' = clock + 1 /\ UNCHANGED <<name, submitted, stage, history>>
      /\ contended' = contended \cup
           {a \in Range(batch) : \E q \in Requests : Moving(q) /\ a \in Range(req[q].batch)}
      /\ ~Moving(r)
  BY DEF OpenMove, Start, OrderInv, HistoryInv, TypeOK, rowVars, Moving, NoRequest
<1>2. clock \in Nat /\ \A a \in Applications : history[a] \subseteq HistoryRow
  BY DEF OrderInv, HistoryInv, TypeOK
<1>3. \A q \in Requests \ {r} : Moving(q) => req[q].at \in Nat
  BY KindOfRequest DEF OrderInv, HistoryInv, MoveRequest
<1>4. \A q \in Requests \ {r} : Moving(q)' <=> Moving(q)
  BY <1>1 DEF Moving
<1>5. TimesArePast'
  <2>1. \A a \in Applications : \A h \in history'[a] : h.at < clock'
    BY <1>1, <1>2 DEF OrderInv, TimesArePast, HistoryRow
  <2>2. ASSUME NEW q \in Requests, Moving(q)'
        PROVE  /\ req'[q].at < clock'
               /\ \A a \in Applications : req'[q].to[a] # NoStage => a \in Range(req'[q].batch)
    <3>1. CASE q = r
      BY <1>1, <1>2, <3>1
    <3>2. CASE q # r
      <4>1. Moving(q) /\ req'[q] = req[q] /\ req[q].at \in Nat
        BY <1>1, <1>3, <1>4, <2>2, <3>2
      <4> QED BY <1>1, <1>2, <4>1 DEF OrderInv, TimesArePast
    <3> QED BY <3>1, <3>2
  <2> QED BY <2>1, <2>2 DEF TimesArePast
<1>6. \A q \in Requests \ {r}, a \in Applications : Holds(q, a)' <=> Holds(q, a)
  BY <1>1, <1>4 DEF Holds
<1>7. \A q \in Requests \ {r}, a \in Applications :
        Holds(q, a) /\ Holds(r, a)' => a \in contended'
  BY <1>1 DEF Holds
<1>8. SharedIsContended'
  <2> SUFFICES ASSUME NEW p \in Requests, NEW q \in Requests, p # q,
                      NEW a \in Applications, Holds(p, a)', Holds(q, a)'
      PROVE  a \in contended'
    BY DEF SharedIsContended
  <2>1. CASE p = r
    BY <1>6, <1>7, <2>1
  <2>2. CASE q = r
    BY <1>6, <1>7, <2>2
  <2>3. CASE p # r /\ q # r
    <3>1. Holds(p, a) /\ Holds(q, a)
      BY <1>6, <2>3
    <3> QED BY <1>1, <3>1 DEF OrderInv, SharedIsContended
  <2> QED BY <2>1, <2>2, <2>3
<1>9. MovesAreAlone'
  <2> SUFFICES ASSUME NEW q \in Requests, NEW a \in Applications \ contended', Holds(q, a)'
      PROVE  AloneWith(q, a)'
    BY DEF MovesAreAlone
  <2>0. a \notin contended
    BY <1>1
  <2>1. CASE q = r
    BY <1>1, <2>1 DEF OrderInv, TimesArePast, AloneWith
  <2>2. CASE q # r
    <3>1. AloneWith(q, a) /\ req'[q] = req[q]
      BY <1>1, <1>6, <2>0, <2>2 DEF OrderInv, MovesAreAlone
    <3> QED BY <1>1, <3>1 DEF AloneWith
  <2> QED BY <2>1, <2>2
<1>10. HistoryEndsAtStage'
  BY <1>1 DEF OrderInv, HistoryEndsAtStage
<1> QED BY <1>5, <1>8, <1>9, <1>10 DEF OrderGoal

\* An item is moved in memory.
LEMMA MovingOrders ==
  ASSUME OrderInv, NEW m \in Requests, MoveItem(m), HistoryInv'
  PROVE  OrderGoal
<1> DEFINE b == Item(m)
<1>1. PICK s \in Stages, mails \in Seq(Mail) :
         req' = [req EXCEPT ![m] = Moved(m, b, s, mails)]
  BY MoveItemStep DEF OrderInv, HistoryInv
<1>2. req[m] \in MoveRequest /\ b \in Applications
  BY MoveItemStep DEF OrderInv, HistoryInv
<1>3. /\ UNCHANGED <<name, submitted, stage, history, clock, contended>> /\ Moving(m)
      /\ HasItem(m)
  BY DEF MoveItem, HasItem, rowVars
<1>4. /\ req'[m] = Moved(m, b, s, mails)
      /\ \A q \in Requests \ {m} : req'[q] = req[q]
  BY <1>1 DEF OrderInv, HistoryInv, TypeOK
<1>5. b \in Range(req[m].batch)
  <2>1. req[m].batch \in Seq(Applications) /\ req[m].next \in Nat \ {0}
        /\ req[m].next <= Len(req[m].batch)
    BY <1>2, <1>3 DEF MoveRequest, HasItem
  <2>2. req[m].next \in DOMAIN req[m].batch
    BY <2>1, LenProperties
  <2> QED BY <2>2 DEF Range, Item
<1>6. /\ req'[m].batch = req[m].batch /\ req'[m].at = req[m].at /\ Moving(m)'
      /\ req'[m].from = [req[m].from EXCEPT ![b] = ReadStage(m, b)]
      /\ req'[m].to = [req[m].to EXCEPT ![b] = s]
  <2>1. /\ Moved(m, b, s, mails).from = [req[m].from EXCEPT ![b] = ReadStage(m, b)]
        /\ Moved(m, b, s, mails).to = [req[m].to EXCEPT ![b] = s]
        /\ Moved(m, b, s, mails).batch = req[m].batch
        /\ Moved(m, b, s, mails).at = req[m].at
        /\ Moved(m, b, s, mails).kind = req[m].kind
    BY <1>2 DEF Moved, MoveRequest
  <2> HIDE DEF b
  <2> QED BY <1>3, <1>4, <2>1 DEF Moving
<1>7. /\ req[m].from \in [Applications -> Stages \cup {NoStage}]
      /\ req[m].to \in [Applications -> Stages \cup {NoStage}]
  BY <1>2 DEF MoveRequest
<1> HIDE DEF b
<1>8. /\ req'[m].to[b] = s /\ req'[m].from[b] = ReadStage(m, b)
      /\ \A a \in Applications \ {b} :
           req'[m].to[a] = req[m].to[a] /\ req'[m].from[a] = req[m].from[a]
  BY <1>2, <1>6, <1>7
<1>9. \A q \in Requests, a \in Applications : Holds(q, a)' <=> Holds(q, a)
  BY <1>3, <1>4, <1>6 DEF Holds, Moving
<1>10. TimesArePast'
  <2> SUFFICES ASSUME NEW q \in Requests, Moving(q)'
      PROVE  /\ req'[q].at < clock
             /\ \A a \in Applications : req'[q].to[a] # NoStage => a \in Range(req'[q].batch)
    BY <1>3 DEF OrderInv, TimesArePast
  <2>1. CASE q = m
    BY <1>3, <1>5, <1>6, <1>8, <2>1 DEF OrderInv, TimesArePast
  <2>2. CASE q # m
    BY <1>4, <2>2 DEF OrderInv, TimesArePast, Moving
  <2> QED BY <2>1, <2>2
<1>11. SharedIsContended'
  BY <1>3, <1>9 DEF OrderInv, SharedIsContended
<1>12. MovesAreAlone'
  <2> SUFFICES ASSUME NEW q \in Requests, NEW a \in Applications \ contended, Holds(q, a)'
      PROVE  AloneWith(q, a)'
    BY <1>3 DEF MovesAreAlone
  <2>1. AloneWith(q, a)
    BY <1>9 DEF OrderInv, MovesAreAlone
  <2>2. CASE q # m
    BY <1>3, <1>4, <2>1, <2>2 DEF AloneWith
  <2>3. CASE q = m /\ a # b
    BY <1>3, <1>6, <1>8, <2>1, <2>3 DEF AloneWith
  <2>4. CASE q = m /\ a = b
    <3>1. CASE req[m].to[b] = NoStage
      BY <1>3, <1>6, <1>8, <2>1, <2>4, <3>1 DEF AloneWith, ReadStage
    <3>2. CASE req[m].to[b] # NoStage
      BY <1>3, <1>6, <1>8, <2>1, <2>4, <3>2 DEF AloneWith, ReadStage
    <3> QED BY <3>1, <3>2
  <2> QED BY <2>2, <2>3, <2>4
<1>13. HistoryEndsAtStage'
  BY <1>3 DEF OrderInv, HistoryEndsAtStage
<1> QED BY <1>10, <1>11, <1>12, <1>13 DEF OrderGoal

\* A move is committed: what it records is the latest that is known of an
\* application it is alone with, and the application is where it was moved.
LEMMA CommitOrders ==
  ASSUME OrderInv, NEW c \in Requests, CommitMove(c), HistoryInv'
  PROVE  OrderGoal
<1>1. /\ UNCHANGED <<name, submitted, clock, contended>>
      /\ req[c] \in MoveRequest /\ Moving(c)
  BY KindOfRequest DEF CommitMove, OrderInv, HistoryInv
<1>2. \A r \in Requests : Moving(r)' => Moving(r) /\ r # c /\ req'[r] = req[r]
  BY DEF CommitMove, Answer, End, Moving, NoRequest, OrderInv, HistoryInv, TypeOK
<1>3. CASE UNCHANGED <<stage, history>>
  BY <1>1, <1>2, <1>3, OrderStays
<1>4. CASE /\ \A p \in req[c].rows : Live(p[2])
           /\ stage' = [a \in Applications |-> WrittenStage(c, a)]
           /\ history' = [a \in Applications |-> history[a] \cup Recorded(c, a)]
  <2>1. \A a \in Applications : \A h \in Recorded(c, a) :
           h.at = req[c].at /\ h.stage \in Stages /\ <<a, h.stage>> \in req[c].rows
    BY <1>1 DEF Recorded, MoveRequest
  <2>2. \A a \in Applications : MemoryIsFresh(c, a) /\ req[c].to[a] \in Stages \cup {NoStage}
    BY <1>1 DEF OrderInv, HistoryInv, MovesAreFresh, MoveRequest
  <2>3. ASSUME NEW a \in Applications, req[c].to[a] = NoStage
        PROVE  history'[a] = history[a] /\ stage'[a] = stage[a]
    <3>1. Recorded(c, a) = {}
      BY <2>1, <2>2, <2>3 DEF MemoryIsFresh
    <3> QED BY <1>4, <2>3, <3>1 DEF WrittenStage
  <2>4. \A a \in Applications : ~Holds(c, a) => req[c].to[a] = NoStage
    BY <1>1 DEF OrderInv, TimesArePast, Holds
  <2>5. /\ req[c].at < clock /\ req[c].at \in Nat
        /\ \A a \in Applications : \A h \in history[a] : h.at \in Nat
    BY <1>1 DEF OrderInv, TimesArePast, MoveRequest, HistoryInv, TypeOK, HistoryRow
  <2>6. TimesArePast'
    <3>1. \A a \in Applications : \A h \in history'[a] : h.at < clock'
      BY <1>1, <1>4, <2>1, <2>5 DEF OrderInv, TimesArePast
    <3> QED BY <1>1, <1>2, <3>1 DEF OrderInv, TimesArePast
  <2>7. \A r \in Requests, a \in Applications : Holds(r, a)' => Holds(r, a) /\ r # c
    BY <1>2 DEF Holds
  <2>8. SharedIsContended'
    BY <1>1, <2>7 DEF OrderInv, SharedIsContended
  <2>9. MovesAreAlone'
    <3> SUFFICES ASSUME NEW r \in Requests, NEW a \in Applications \ contended, Holds(r, a)'
        PROVE  AloneWith(r, a)'
      BY <1>1 DEF MovesAreAlone
    <3>1. AloneWith(r, a) /\ req'[r] = req[r] /\ ~Holds(c, a)
      BY <1>2, <2>7 DEF OrderInv, MovesAreAlone, SharedIsContended, Holds
    <3>2. history'[a] = history[a] /\ stage'[a] = stage[a]
      BY <2>3, <2>4, <3>1
    <3> QED BY <1>1, <3>1, <3>2 DEF AloneWith
  <2>10. HistoryEndsAtStage'
    <3> SUFFICES ASSUME NEW a \in Applications \ contended, history'[a] # {},
                        stage'[a] # NoStage
        PROVE  \E h \in history'[a] : h.stage = stage'[a] /\ \A g \in history'[a] : g.at <= h.at
      BY <1>1 DEF HistoryEndsAtStage
    <3>1. CASE req[c].to[a] = NoStage
      BY <2>3, <3>1 DEF OrderInv, HistoryEndsAtStage
    <3>2. CASE req[c].to[a] # NoStage
      <4> DEFINE h == [stage |-> req[c].to[a], at |-> req[c].at]
      <4>1. AloneWith(c, a) /\ <<a, req[c].to[a]>> \in req[c].rows /\ req[c].to[a] \in Stages
        BY <1>1, <2>2, <2>4, <3>2 DEF OrderInv, MovesAreAlone, MemoryIsFresh
      <4>2. h \in Recorded(c, a)
        BY <4>1, <<a, req[c].to[a]>>[1] = a, <<a, req[c].to[a]>>[2] = req[c].to[a]
        DEF Recorded
      <4>3. h \in history'[a] /\ \A g \in history'[a] : g.at <= h.at
        <5>1. h.at = req[c].at /\ history'[a] = history[a] \cup Recorded(c, a)
          BY <1>4
        <5>2. \A g \in history[a] : g.at <= req[c].at
          BY <2>5, <4>1 DEF AloneWith
        <5>3. \A g \in Recorded(c, a) : g.at <= req[c].at
          <6>1. req[c].at <= req[c].at
            BY <2>5
          <6>2. \A g \in Recorded(c, a) : g.at = req[c].at
            BY <2>1
          <6> QED BY <6>1, <6>2
        <5> QED BY <4>2, <5>1, <5>2, <5>3
      <4>4. stage'[a] = req[c].to[a]
        <5>1. Live(req[c].to[a])
          BY <1>4, <4>1
        <5>2. \/ stage[a] = req[c].from[a] \/ stage[a] = NoStage
              \/ req[c].from[a] # req[c].to[a]
          BY <3>2, <4>1, <5>1 DEF AloneWith, Live, Names
        <5>3. stage'[a] = WrittenStage(c, a)
          BY <1>4
        <5> QED BY <3>2, <5>2, <5>3 DEF WrittenStage
      <4> QED BY <4>3, <4>4
    <3> QED BY <3>1, <3>2
  <2> QED BY <2>6, <2>8, <2>9, <2>10 DEF OrderGoal
<1> QED
  BY <1>3, <1>4 DEF CommitMove

LEMMA OrderInit == Init => OrderInv
BY HistoryInit DEF Init, OrderInv, TimesArePast, SharedIsContended, MovesAreAlone, Holds,
   HistoryEndsAtStage, Moving, NoRequest

LEMMA OrderStep == OrderInv /\ [Next]_vars => OrderInv'
<1> SUFFICES ASSUME OrderInv, [Next]_vars PROVE OrderGoal
  BY HistoryStep DEF OrderInv, OrderGoal
<1>0. TypeOK /\ HistoryInv'
  BY HistoryStep DEF OrderInv, HistoryInv
<1>1. ASSUME UNCHANGED <<history, contended, clock, req>>,
             \A a \in Applications : stage'[a] = stage[a] \/ a \notin submitted,
             \A s \in Stages : name[s] = "deleted" => name'[s] = "deleted"
      PROVE  OrderGoal
  BY <1>0, <1>1, OrderStays DEF Moving
<1>2. ASSUME NEW s \in Stages, NEW n \in Names, CreateStage(s, n) \/ RenameStage(s, n)
      PROVE  OrderGoal
  <2>1. \A x \in Stages : name[x] = "deleted" => name'[x] = "deleted"
    BY <1>0, <1>2 DEF CreateStage, RenameStage, TypeOK, Live, Names
  <2> QED BY <1>1, <1>2, <2>1 DEF CreateStage, RenameStage, reqVars
<1>3. ASSUME NEW b \in Applications, SubmitApplication(b) PROVE OrderGoal
  <2>1. \A a \in Applications : stage'[a] = stage[a] \/ a \notin submitted
    BY <1>0, <1>3 DEF SubmitApplication, TypeOK
  <2> QED BY <1>1, <1>3, <2>1 DEF SubmitApplication, reqVars
<1>4. ASSUME NEW a \in Applications, ScheduleInterview(a) \/ WithdrawInterview(a)
      PROVE  OrderGoal
  BY <1>1, <1>4 DEF ScheduleInterview, WithdrawInterview, reqVars
<1>5. ASSUME UNCHANGED <<name, stage, history, contended, clock>>,
             \A r \in Requests : Moving(r)' => Moving(r) /\ req'[r] = req[r]
      PROVE  OrderGoal
  BY <1>0, <1>5, OrderStays
<1>6. ASSUME NEW r \in Requests, NEW s \in Stages, DeleteStageCheck(r, s) PROVE OrderGoal
  BY <1>0, <1>5, <1>6 DEF DeleteStageCheck, Start, Moving, TypeOK, rowVars
<1>14. ASSUME NEW r \in Requests, DeleteStageSelect(r) PROVE OrderGoal
  BY <1>0, <1>5, <1>14 DEF DeleteStageSelect, Moving, TypeOK, rowVars
<1>7. ASSUME NEW d \in Requests, DeleteStage(d) PROVE OrderGoal
  <2> DEFINE s == req[d].target
  <2>1. s \in Stages /\ UNCHANGED <<history, contended, clock>>
    BY <1>0, <1>7, KindOfRequest DEF DeleteStage, DeleteRequest
  <2>2. \A r \in Requests : Moving(r)' => Moving(r) /\ req'[r] = req[r]
    BY <1>0, <1>7 DEF DeleteStage, End, Moving, NoRequest, TypeOK
  <2>3. \A x \in Stages : name[x] = "deleted" => name'[x] = "deleted"
    BY <1>0, <1>7, <2>1 DEF DeleteStage, TypeOK
  <2>4. \A a \in Applications : stage'[a] = stage[a] \/ stage'[a] = NoStage
    BY <1>7 DEF DeleteStage
  <2> QED BY <1>0, <2>1, <2>2, <2>3, <2>4, OrderStays
<1>8. ASSUME NEW r \in Requests, MoveOpens(r) PROVE OrderGoal
  <2>1. PICK kind, batch, s : OpenMove(r, kind, batch, s)
    BY <1>8 DEF MoveOpens
  <2> QED BY <1>0, <2>1, OpeningOrders
<1>9. ASSUME NEW r \in Requests, MoveItem(r) PROVE OrderGoal
  BY <1>0, <1>9, MovingOrders
<1>10. ASSUME NEW r \in Requests, RefuseItem(r) PROVE OrderGoal
  <2>1. req[r] \in MoveRequest /\ Moving(r)
    BY <1>0, <1>10, KindOfRequest DEF RefuseItem, HasItem
  <2>2. /\ Skipped(r).from = req[r].from /\ Skipped(r).to = req[r].to
        /\ Skipped(r).batch = req[r].batch /\ Skipped(r).at = req[r].at
    BY <2>1 DEF Skipped, MoveRequest
  <2>3. \A q \in Requests : Moving(q)' =>
          /\ Moving(q) /\ req'[q].batch = req[q].batch /\ req'[q].at = req[q].at
          /\ req'[q].from = req[q].from /\ req'[q].to = req[q].to
    BY <1>0, <1>10, <2>1, <2>2 DEF RefuseItem, End, Moving, NoRequest, TypeOK
  <2>4. UNCHANGED <<name, stage, history, contended, clock>>
    BY <1>10 DEF RefuseItem, rowVars
  <2> QED BY <1>0, <2>3, <2>4, OrderStays
<1>11. ASSUME NEW r \in Requests, CommitMove(r) PROVE OrderGoal
  BY <1>0, <1>11, CommitOrders
<1>12. ASSUME NEW r \in Requests, FinishTasks(r) \/ Abort(r) PROVE OrderGoal
  BY <1>0, <1>5, <1>12 DEF FinishTasks, Abort, End, Moving, NoRequest, TypeOK, rowVars
<1>13. CASE UNCHANGED vars
  BY <1>1, <1>13 DEF vars, rowVars, reqVars
<1> QED
  BY <1>2, <1>3, <1>4, <1>6, <1>7, <1>8, <1>9, <1>10, <1>11, <1>12, <1>13, <1>14 DEF Next

\* An application that was never moved by two requests at one time is where the
\* latest row of its history says, or was taken out of it by the deletion of a
\* stage, although a commit writes a stage only where it differs from what was
\* read.
THEOREM HistoryEnds == Spec => []HistoryEndsAtStage
<1>1. OrderInv => HistoryEndsAtStage
  BY DEF OrderInv
<1> QED
  BY <1>1, OrderInit, OrderStep, PTL DEF Spec

-----------------------------------------------------------------------------
(* The journal of stages.                                                  *)

\* No other move, in flight or committed, began when this one did.
TimesAreOwn ==
  \A r \in Requests : Moving(r) =>
    /\ \A a \in Applications : \A h \in history[a] : h.at # req[r].at
    /\ \A q \in Requests \ {r} : Moving(q) => req[q].at # req[r].at

\* An application is in a stage that exists, if in any; a stage that somebody
\* deletes does or did exist.
StagesExist ==
  /\ \A a \in Applications : stage[a] \in Stages => Live(stage[a])
  /\ \A r \in Requests : req[r].kind \in {"counted", "delete"} =>
       name[req[r].target] # "unborn"

JournalInv == OrderInv /\ TimesAreOwn /\ StagesExist

\* Moves in flight go on or end, and write no history.
LEMMA TimesStay ==
  ASSUME TimesAreOwn, UNCHANGED history,
         \A r \in Requests : Moving(r)' => Moving(r) /\ req'[r].at = req[r].at
  PROVE  TimesAreOwn'
BY DEF TimesAreOwn

\* Only two kinds of steps are not of that kind.
LEMMA MovesGoOn ==
  ASSUME TypeOK, [Next]_vars,
         ~ \E r \in Requests : MoveOpens(r) \/ CommitMove(r)
  PROVE  /\ UNCHANGED history
         /\ \A r \in Requests : Moving(r)' => Moving(r) /\ req'[r].at = req[r].at
<1>1. ASSUME UNCHANGED <<history, req>>
      PROVE  /\ UNCHANGED history
             /\ \A r \in Requests : Moving(r)' => Moving(r) /\ req'[r].at = req[r].at
  BY <1>1 DEF Moving
<1>2. ASSUME NEW d \in Requests, NEW q, req' = [req EXCEPT ![d] = q], UNCHANGED history,
             q.kind \in {"move", "bulk", "reject"} => Moving(d) /\ q.at = req[d].at
      PROVE  /\ UNCHANGED history
             /\ \A r \in Requests : Moving(r)' => Moving(r) /\ req'[r].at = req[r].at
  BY <1>2 DEF Moving, TypeOK
<1>3. ASSUME NEW d \in Requests, MoveItem(d)
      PROVE  /\ UNCHANGED history
             /\ \A r \in Requests : Moving(r)' => Moving(r) /\ req'[r].at = req[r].at
  <2>1. PICK s, mails : req' = [req EXCEPT ![d] = Moved(d, Item(d), s, mails)]
    BY <1>3 DEF MoveItem
  <2>2. Moved(d, Item(d), s, mails).at = req[d].at /\ Moving(d) /\ UNCHANGED history
    BY <1>3, KindOfRequest DEF MoveItem, HasItem, Moved, MoveRequest, rowVars
  <2> QED BY <1>2, <2>1, <2>2
<1>4. ASSUME NEW d \in Requests, RefuseItem(d)
      PROVE  /\ UNCHANGED history
             /\ \A r \in Requests : Moving(r)' => Moving(r) /\ req'[r].at = req[r].at
  <2>1. Skipped(d).at = req[d].at /\ Moving(d) /\ UNCHANGED history
    BY <1>4, KindOfRequest DEF RefuseItem, HasItem, Skipped, MoveRequest, rowVars
  <2>2. CASE End(d)
    BY <1>2, <2>1, <2>2 DEF End, NoRequest
  <2>3. CASE req' = [req EXCEPT ![d] = Skipped(d)]
    BY <1>2, <2>1, <2>3
  <2> QED BY <1>4, <2>2, <2>3 DEF RefuseItem
<1>5. ASSUME NEW d \in Requests, NEW s \in Stages, DeleteStageCheck(d, s)
      PROVE  /\ UNCHANGED history
             /\ \A r \in Requests : Moving(r)' => Moving(r) /\ req'[r].at = req[r].at
  BY <1>2, <1>5 DEF DeleteStageCheck, Start, rowVars
<1>6. ASSUME NEW d \in Requests, DeleteStage(d) \/ FinishTasks(d) \/ Abort(d)
      PROVE  /\ UNCHANGED history
             /\ \A r \in Requests : Moving(r)' => Moving(r) /\ req'[r].at = req[r].at
  BY <1>2, <1>6 DEF DeleteStage, FinishTasks, Abort, End, NoRequest, rowVars
<1>7. ASSUME NEW d \in Requests, DeleteStageSelect(d)
      PROVE  /\ UNCHANGED history
             /\ \A r \in Requests : Moving(r)' => Moving(r) /\ req'[r].at = req[r].at
  BY <1>2, <1>7 DEF DeleteStageSelect, rowVars
<1> QED
  BY <1>1, <1>3, <1>4, <1>5, <1>6, <1>7
     DEF Next, CreateStage, RenameStage, SubmitApplication, ScheduleInterview,
         WithdrawInterview, vars, rowVars, reqVars

\* A commit writes the stage that a live row names, or none.
LEMMA StagesExistStep ==
  ASSUME HistoryInv, StagesExist, [Next]_vars
  PROVE  StagesExist'
<1>0. TypeOK /\ NoStage \notin Stages
  BY PipelineAssumption DEF HistoryInv
<1>1. ASSUME NEW s \in Stages, NEW n \in Names, CreateStage(s, n) \/ RenameStage(s, n)
      PROVE  StagesExist'
  <2>1. /\ name' = [name EXCEPT ![s] = n] /\ UNCHANGED <<stage, req>>
        /\ n # "unborn" /\ n \in Names
    BY <1>1 DEF CreateStage, RenameStage, reqVars, Names
  <2>2. \A r \in Requests : req[r].kind \in {"counted", "delete"} => req[r].target \in Stages
    BY <1>0, KindOfRequest DEF CountedRequest, DeleteRequest
  <2> QED BY <1>0, <2>1, <2>2 DEF StagesExist, Live, TypeOK
<1>2. ASSUME NEW a \in Applications, SubmitApplication(a) PROVE StagesExist'
  BY <1>0, <1>2 DEF SubmitApplication, StagesExist, Live, TypeOK, reqVars
<1>3. ASSUME UNCHANGED <<name, stage>>,
             \A r \in Requests : req'[r].kind \in {"counted", "delete"} =>
               req'[r] = req[r] \/ name[req'[r].target] # "unborn"
      PROVE  StagesExist'
  BY <1>3 DEF StagesExist, Live
<1>4. ASSUME NEW r \in Requests, DeleteStage(r) PROVE StagesExist'
  <2> DEFINE t == req[r].target
  <2>1. /\ t \in Stages
        /\ \A q \in Requests : req'[q].kind \in {"counted", "delete"} => req'[q] = req[q]
    BY <1>0, <1>4, KindOfRequest DEF DeleteStage, End, NoRequest, DeleteRequest, TypeOK
  <2>2. CASE UNCHANGED <<name, stage>>
    BY <1>3, <2>1, <2>2
  <2>3. CASE /\ name' = [name EXCEPT ![t] = "deleted"]
             /\ \A a \in Applications :
                  stage'[a] = NoStage \/ (stage'[a] = stage[a] /\ stage[a] # t)
    <3>1. name'[t] = "deleted" /\ \A x \in Stages \ {t} : name'[x] = name[x]
      BY <1>0, <2>1, <2>3 DEF TypeOK
    <3>2. \A a \in Applications : stage'[a] \in Stages => name'[stage'[a]] \in Names
      BY <1>0, <2>3, <3>1 DEF StagesExist, Live, TypeOK
    <3>3. \A q \in Requests : req'[q].kind \in {"counted", "delete"} =>
            /\ req'[q] = req[q] /\ req[q].target \in Stages
            /\ name[req[q].target] # "unborn"
      BY <1>0, <2>1, KindOfRequest DEF StagesExist, CountedRequest, DeleteRequest
    <3>4. \A q \in Requests : req'[q].kind \in {"counted", "delete"} =>
            name'[req'[q].target] # "unborn"
      BY <3>1, <3>3
    <3> QED BY <3>2, <3>4 DEF StagesExist, Live
  <2> QED BY <1>4, <2>2, <2>3 DEF DeleteStage, In
<1>5. ASSUME NEW c \in Requests, CommitMove(c) PROVE StagesExist'
  <2>1. /\ UNCHANGED name
        /\ \A q \in Requests : req'[q].kind \in {"counted", "delete"} => req'[q] = req[q]
    BY <1>0, <1>5 DEF CommitMove, Answer, End, NoRequest, TypeOK
  <2>2. CASE UNCHANGED stage
    BY <1>3, <2>1, <2>2
  <2>3. CASE /\ \A p \in req[c].rows : Live(p[2])
             /\ stage' = [a \in Applications |-> WrittenStage(c, a)]
    <3>1. ASSUME NEW a \in Applications, stage'[a] # stage[a] PROVE Live(stage'[a])
      <4>1. /\ stage'[a] = req[c].to[a] /\ req[c].to[a] # NoStage
        BY <2>3, <3>1 DEF WrittenStage
      <4>2. <<a, req[c].to[a]>> \in req[c].rows
        BY <1>5, <4>1 DEF CommitMove, HistoryInv, MovesAreFresh, MemoryIsFresh
      <4> QED BY <2>3, <4>1, <4>2
    <3> QED BY <2>1, <3>1 DEF StagesExist, Live
  <2> QED BY <1>5, <2>2, <2>3 DEF CommitMove
<1>6. ASSUME NEW r \in Requests, NEW s \in Stages, DeleteStageCheck(r, s) PROVE StagesExist'
  BY <1>0, <1>3, <1>6 DEF DeleteStageCheck, Start, TypeOK, Live, Names, rowVars
<1>12. ASSUME NEW r \in Requests, DeleteStageSelect(r) PROVE StagesExist'
  <2>1. /\ name[req[r].target] # "unborn" /\ UNCHANGED <<name, stage>>
        /\ req'[r].target = req[r].target
        /\ \A q \in Requests \ {r} : req'[q] = req[q]
    BY <1>0, <1>12 DEF DeleteStageSelect, StagesExist, TypeOK, rowVars
  <2> QED BY <1>3, <2>1
<1>7. ASSUME NEW r \in Requests, FinishTasks(r) \/ Abort(r) PROVE StagesExist'
  BY <1>0, <1>3, <1>7 DEF FinishTasks, Abort, End, NoRequest, TypeOK, rowVars
<1>11. ASSUME NEW r \in Requests, MoveOpens(r) PROVE StagesExist'
  <2>1. PICK kind, batch, s :
          /\ OpenMove(r, kind, batch, s)
          /\ kind = "move" \/ kind \in {"bulk", "reject"}
    BY <1>11 DEF MoveOpens
  <2>2. req'[r].kind \notin {"counted", "delete"} /\ \A q \in Requests \ {r} : req'[q] = req[q]
    BY <1>0, <2>1 DEF OpenMove, Start, TypeOK
  <2>3. UNCHANGED <<name, stage>>
    BY <2>1 DEF OpenMove, rowVars
  <2> QED BY <1>3, <2>2, <2>3
<1>8. ASSUME NEW r \in Requests, MoveItem(r) PROVE StagesExist'
  <2>1. PICK s, mails : req' = [req EXCEPT ![r] = Moved(r, Item(r), s, mails)]
    BY <1>8 DEF MoveItem
  <2>2. Moved(r, Item(r), s, mails).kind \notin {"counted", "delete"} /\ UNCHANGED <<name, stage>>
    BY <1>0, <1>8, KindOfRequest DEF MoveItem, HasItem, Moved, MoveRequest, rowVars
  <2> QED BY <1>0, <1>3, <2>1, <2>2 DEF TypeOK
<1>9. ASSUME NEW r \in Requests, RefuseItem(r) PROVE StagesExist'
  <2>1. Skipped(r).kind \notin {"counted", "delete"} /\ UNCHANGED <<name, stage>>
    BY <1>0, <1>9, KindOfRequest DEF RefuseItem, HasItem, Skipped, MoveRequest, rowVars
  <2>2. CASE End(r)
    BY <1>0, <1>3, <2>1, <2>2 DEF End, NoRequest, TypeOK
  <2>3. CASE req' = [req EXCEPT ![r] = Skipped(r)]
    BY <1>0, <1>3, <2>1, <2>3 DEF TypeOK
  <2> QED BY <1>9, <2>2, <2>3 DEF RefuseItem
<1>10. CASE UNCHANGED <<name, stage, req>>
  BY <1>3, <1>10
<1> QED
  BY <1>1, <1>2, <1>4, <1>5, <1>6, <1>7, <1>8, <1>9, <1>10, <1>11, <1>12
     DEF Next, ScheduleInterview, WithdrawInterview, vars, rowVars, reqVars

LEMMA JournalInvStep == JournalInv /\ [Next]_vars => JournalInv'
<1> SUFFICES ASSUME JournalInv, [Next]_vars PROVE TimesAreOwn'
  BY OrderStep, StagesExistStep DEF JournalInv, OrderInv
<1>0. TypeOK /\ OrderInv /\ TimesAreOwn
  BY DEF JournalInv, OrderInv, HistoryInv
<1>1. ASSUME NEW r \in Requests, MoveOpens(r) PROVE TimesAreOwn'
  <2>1. PICK kind, batch, s : OpenMove(r, kind, batch, s)
    BY <1>1 DEF MoveOpens
  <2>2. /\ req'[r].at = clock /\ UNCHANGED history
        /\ \A q \in Requests \ {r} : req'[q] = req[q]
    BY <1>0, <2>1 DEF OpenMove, Start, TypeOK, rowVars
  <2>3. /\ \A q \in Requests : Moving(q) => req[q].at \in Nat /\ req[q].at < clock
        /\ \A a \in Applications : \A h \in history[a] : h.at \in Nat /\ h.at < clock
    BY <1>0, KindOfRequest DEF OrderInv, TimesArePast, TypeOK, MoveRequest, HistoryRow
  <2>4. clock \in Nat
    BY <1>0 DEF TypeOK
  <2>5. /\ \A q \in Requests : Moving(q) => req[q].at # clock
        /\ \A a \in Applications : \A h \in history[a] : h.at # clock
    BY <2>3, <2>4
  <2>6. \A q \in Requests \ {r} : Moving(q)' <=> Moving(q)
    BY <2>2 DEF Moving
  <2> QED BY <1>0, <2>2, <2>5, <2>6 DEF TimesAreOwn
<1>2. ASSUME NEW c \in Requests, CommitMove(c) PROVE TimesAreOwn'
  <2>1. \A r \in Requests : Moving(r)' => Moving(r) /\ r # c /\ req'[r] = req[r]
    BY <1>0, <1>2 DEF CommitMove, Answer, End, Moving, NoRequest, TypeOK
  <2>2. Moving(c)
    BY <1>2 DEF CommitMove
  <2>3. \A a \in Applications : \A h \in history'[a] : h \in history[a] \/ h.at = req[c].at
    BY <1>2 DEF CommitMove, Recorded
  <2> QED BY <1>0, <2>1, <2>2, <2>3 DEF TimesAreOwn
<1> QED
  BY <1>0, <1>1, <1>2, MovesGoOn, TimesStay

LEMMA JournalInvariant == Spec => []JournalInv
<1>1. Init => JournalInv
  BY OrderInit, PipelineAssumption
     DEF JournalInv, Init, TimesAreOwn, StagesExist, Moving, NoRequest
<1> QED
  BY <1>1, JournalInvStep, PTL DEF Spec

LiveStages == {s \in Stages : Live(s)}
DeletedStages == {s \in Stages : name[s] = "deleted"}

MarkedPairs ==
  {p \in Stages \X Applications :
     \E r \in Requests : /\ req[r].kind = "delete"
                         /\ req[r].target = p[1] /\ p[2] \in req[r].selected}

JournalVars ==
  <<LiveStages, DeletedStages, submitted, stage, history, clock, contended, MarkedPairs>>

\* Nothing is selected; a deletion ends, or none does.
LEMMA MarkedShrink ==
  ASSUME \A r \in Requests : req'[r].kind = "delete" => req'[r] = req[r]
  PROVE  MarkedPairs' \in SUBSET MarkedPairs
BY DEF MarkedPairs

LEMMA MarkedStay ==
  ASSUME \A r \in Requests :
           \/ req'[r] = req[r]
           \/ req[r].kind # "delete" /\ req'[r].kind # "delete"
  PROVE  MarkedPairs' = MarkedPairs
BY DEF MarkedPairs

LEMMA JournalStutters ==
  ASSUME UNCHANGED <<submitted, stage, history, clock, contended>>,
         \A s \in Stages : /\ Live(s)' <=> Live(s)
                           /\ name'[s] = "deleted" <=> name[s] = "deleted",
         \A r \in Requests : req'[r].kind = "delete" => req'[r] = req[r]
  PROVE  [Journal!Next]_JournalVars
<1>1. UNCHANGED <<LiveStages, DeletedStages>>
  BY DEF LiveStages, DeletedStages
<1>2. MarkedPairs' \in SUBSET MarkedPairs
  BY MarkedShrink
<1>3. Journal!GiveUp
  BY <1>1, <1>2 DEF Journal!GiveUp, LiveStages, DeletedStages, MarkedPairs
<1> QED
  BY <1>3 DEF Journal!Next

\* A deletion that selects the applications in its stage marks them.
LEMMA JournalMarks ==
  ASSUME TypeOK, NEW d \in Requests, DeleteStageSelect(d)
  PROVE  [Journal!Next]_JournalVars
<1>1. PICK s \in Stages : s = req[d].target
  BY KindOfRequest DEF DeleteStageSelect, CountedRequest
<1>2. UNCHANGED <<name, submitted, stage, history, clock, contended>>
  BY DEF DeleteStageSelect, rowVars
<1>3. /\ req'[d].kind = "delete" /\ req'[d].target = s /\ req'[d].selected = In(s)
      /\ \A r \in Requests \ {d} : req'[r] = req[r]
      /\ req[d].kind # "delete"
  BY <1>1 DEF DeleteStageSelect, TypeOK
<1> DEFINE met == {<<s, a>> : a \in {b \in Applications : stage[b] = s}}
<1>4. ASSUME NEW x \in Stages, NEW a \in Applications
      PROVE  <<x, a>> \in MarkedPairs' <=> <<x, a>> \in MarkedPairs \/ <<x, a>> \in met
  <2>1. <<x, a>> \in met <=> x = s /\ a \in In(s)
    BY DEF In
  <2>2. <<x, a>>[1] = x /\ <<x, a>>[2] = a
    OBVIOUS
  <2>3. <<x, a>> \in MarkedPairs' <=>
          \E r \in Requests : req'[r].kind = "delete" /\ req'[r].target = x
                              /\ a \in req'[r].selected
    BY <2>2 DEF MarkedPairs
  <2>4. <<x, a>> \in MarkedPairs <=>
          \E r \in Requests : req[r].kind = "delete" /\ req[r].target = x
                              /\ a \in req[r].selected
    BY <2>2 DEF MarkedPairs
  <2> HIDE DEF met
  <2> QED BY <1>3, <2>1, <2>3, <2>4
<1>5. MarkedPairs' = MarkedPairs \cup met
  <2>1. /\ MarkedPairs \subseteq Stages \X Applications
        /\ MarkedPairs' \subseteq Stages \X Applications
        /\ met \subseteq Stages \X Applications
    BY DEF MarkedPairs
  <2> HIDE DEF met
  <2> QED BY <1>4, <2>1
<1>6. UNCHANGED <<LiveStages, DeletedStages>>
  BY <1>2 DEF LiveStages, DeletedStages, Live
<1>7. Journal!MarkStage(s)
  BY <1>2, <1>5, <1>6 DEF Journal!MarkStage, LiveStages, DeletedStages, MarkedPairs
<1> QED
  BY <1>1, <1>7 DEF Journal!Next

LEMMA JournalAdds ==
  ASSUME TypeOK, NEW s \in Stages, NEW n \in Names, CreateStage(s, n)
  PROVE  Journal!AddStage(s)
<1>1. /\ name[s] = "unborn" /\ name'[s] = n
      /\ \A x \in Stages \ {s} : name'[x] = name[x]
  BY DEF CreateStage, TypeOK
<1>2. n # "deleted" /\ n # "unborn"
  BY DEF Names
<1>3. LiveStages' = LiveStages \cup {s} /\ DeletedStages' = DeletedStages
  BY <1>1, <1>2 DEF LiveStages, DeletedStages, Live
<1>4. s \notin LiveStages \cup DeletedStages
  BY <1>1 DEF LiveStages, DeletedStages, Live, Names
<1>5. MarkedPairs' = MarkedPairs
  BY DEF CreateStage, reqVars, MarkedPairs
<1> QED
  BY <1>3, <1>4, <1>5
     DEF Journal!AddStage, CreateStage, LiveStages, DeletedStages, MarkedPairs, reqVars

\* The applications in the stage leave it, and those that the deletion selected
\* leave the stage they are in.
LEMMA JournalRemoves ==
  ASSUME TypeOK, StagesExist, NEW r \in Requests, DeleteStage(r)
  PROVE  [Journal!Next]_JournalVars
<1>0. req[r].kind = "delete"
  BY DEF DeleteStage
<1>1. PICK s \in Stages : s = req[r].target
  BY <1>0, KindOfRequest DEF DeleteRequest
<1>2. /\ UNCHANGED <<submitted, history, clock, contended>>
      /\ \A q \in Requests : req'[q].kind = "delete" => req'[q] = req[q]
  BY DEF DeleteStage, End, NoRequest, TypeOK
<1>3. CASE UNCHANGED <<name, stage>>
  BY <1>2, <1>3, JournalStutters DEF Live
<1> DEFINE met == req[r].selected
<1>4. CASE /\ \A a \in Applications : \A h \in history[a] : h.stage # s
           /\ name' = [name EXCEPT ![s] = "deleted"]
           /\ stage' = [a \in Applications |->
                          IF a \in met \cup In(s) THEN NoStage ELSE stage[a]]
  <2>1. name'[s] = "deleted" /\ \A x \in Stages \ {s} : name'[x] = name[x]
    BY <1>4 DEF TypeOK
  <2>2. name[s] \in Names \cup {"deleted"}
    <3>1. name[s] \in Names \cup {"unborn", "deleted"}
      BY DEF TypeOK
    <3>2. name[s] # "unborn"
      BY <1>0, <1>1 DEF StagesExist
    <3> QED BY <3>1, <3>2
  <2>3. /\ LiveStages' = LiveStages \ {s} /\ DeletedStages' = DeletedStages \cup {s}
        /\ s \in LiveStages \cup DeletedStages
    BY <2>1, <2>2 DEF LiveStages, DeletedStages, Live, Names
  <2>4. MarkedPairs' \in SUBSET MarkedPairs
    BY <1>2, MarkedShrink
  <2>5. met \in SUBSET {a \in Applications : <<s, a>> \in MarkedPairs}
    <3>1. met \subseteq Applications
      BY <1>0, KindOfRequest DEF DeleteRequest
    <3>2. ASSUME NEW a \in met PROVE <<s, a>> \in MarkedPairs
      BY <1>0, <1>1, <3>1, <<s, a>>[1] = s, <<s, a>>[2] = a DEF MarkedPairs
    <3> QED BY <3>1, <3>2
  <2> HIDE DEF met
  <2>6. stage' = [a \in Applications |->
                    IF stage[a] = s \/ a \in met THEN NoStage ELSE stage[a]]
    BY <1>4 DEF In
  <2>7. Journal!RemoveStage(s)
    BY <1>2, <1>4, <2>3, <2>4, <2>5, <2>6
       DEF Journal!RemoveStage, LiveStages, DeletedStages, MarkedPairs
  <2> QED BY <2>7 DEF Journal!Next
<1> QED
  BY <1>1, <1>3, <1>4 DEF DeleteStage

LEMMA JournalBegins ==
  ASSUME TypeOK, NEW r \in Requests, MoveOpens(r)
  PROVE  \E met \in SUBSET Applications : Journal!Begin(met)
<1>1. PICK kind, batch, s : OpenMove(r, kind, batch, s) /\ batch \in Seq(Applications)
  <2>1. \A a \in Applications : <<a>> \in Seq(Applications)
    OBVIOUS
  <2>2. \A b \in Batches : b \in Seq(Applications)
    BY PipelineAssumption
  <2> QED BY <2>1, <2>2 DEF MoveOpens
<1> DEFINE met == {a \in Range(batch) : \E q \in Requests : Moving(q) /\ a \in Range(req[q].batch)}
<1>2. met \in SUBSET Applications
  BY <1>1, ElementOfSeq DEF Range
<1>3. /\ clock' = clock + 1 /\ contended' = contended \cup met
      /\ UNCHANGED <<name, submitted, stage, history>>
  BY <1>1 DEF OpenMove, rowVars
<1>4. UNCHANGED <<LiveStages, DeletedStages>>
  BY <1>3 DEF LiveStages, DeletedStages, Live
<1>5. MarkedPairs' = MarkedPairs
  <2>1. PICK k \in {"move", "bulk", "reject"} : \E b, x : OpenMove(r, k, b, x)
    BY DEF MoveOpens
  <2>2. /\ req[r].kind # "delete" /\ req'[r].kind # "delete"
        /\ \A q \in Requests \ {r} : req'[q] = req[q]
    BY <2>1 DEF OpenMove, Start, NoRequest, TypeOK
  <2> QED BY <2>2, MarkedStay
<1>6. Journal!Begin(met)
  BY <1>3, <1>4, <1>5 DEF Journal!Begin, LiveStages, DeletedStages, MarkedPairs
<1> QED
  BY <1>2, <1>6

\* What a commit takes into the history is what the journal calls a move.
LEMMA JournalMoves ==
  ASSUME JournalInv, NEW c \in Requests, CommitMove(c)
  PROVE  [Journal!Next]_JournalVars
<1>0. /\ TypeOK /\ OrderInv /\ TimesAreOwn /\ StagesExist
      /\ req[c] \in MoveRequest /\ Moving(c)
  BY KindOfRequest DEF CommitMove, JournalInv, OrderInv, HistoryInv
<1>1. UNCHANGED <<name, submitted, clock, contended>>
  BY DEF CommitMove
<1>4. \A r \in Requests :
        \/ req'[r] = req[r]
        \/ req[r].kind # "delete" /\ req'[r].kind # "delete"
  BY <1>0 DEF CommitMove, Answer, End, NoRequest, Moving, TypeOK
<1>2. CASE UNCHANGED <<stage, history>>
  BY <1>1, <1>2, <1>4, JournalStutters DEF Live
<1>3. CASE /\ \A p \in req[c].rows : Live(p[2])
           /\ stage' = [a \in Applications |-> WrittenStage(c, a)]
           /\ history' = [a \in Applications |-> history[a] \cup Recorded(c, a)]
  <2> DEFINE moves == req[c].rows
             at == req[c].at
  <2>1. moves \subseteq Applications \X Stages
    BY <1>0 DEF MoveRequest
  <2>2. \A a \in Applications : MemoryIsFresh(c, a) /\ req[c].to[a] \in Stages \cup {NoStage}
    BY <1>0 DEF OrderInv, HistoryInv, MovesAreFresh, MoveRequest
  <2>3. at \in 0..(clock - 1)
    <3>1. at \in Nat /\ at < clock /\ clock \in Nat
      BY <1>0 DEF OrderInv, TimesArePast, MoveRequest, TypeOK
    <3> QED BY <3>1
  <2>4. \A a \in Applications :
          Recorded(c, a) = {[stage |-> s, at |-> at] : s \in Journal!Given(moves, a)}
    <3> SUFFICES ASSUME NEW a \in Applications
        PROVE  Recorded(c, a) = {[stage |-> s, at |-> at] : s \in Journal!Given(moves, a)}
      OBVIOUS
    <3>1. \A p \in moves : p = <<p[1], p[2]>> /\ p[2] \in Stages
      BY <2>1
    <3>2. ASSUME NEW h \in Recorded(c, a)
          PROVE  h \in {[stage |-> s, at |-> at] : s \in Journal!Given(moves, a)}
      <4>1. PICK p \in moves : p[1] = a /\ h = [stage |-> p[2], at |-> at]
        BY <3>2 DEF Recorded
      <4>2. p[2] \in Journal!Given(moves, a)
        BY <3>1, <4>1 DEF Journal!Given
      <4> QED BY <4>1, <4>2
    <3>3. ASSUME NEW s \in Journal!Given(moves, a)
          PROVE  [stage |-> s, at |-> at] \in Recorded(c, a)
      <4>1. <<a, s>> \in moves /\ <<a, s>>[1] = a /\ <<a, s>>[2] = s
        BY DEF Journal!Given
      <4>2. <<a, s>> \in {q \in req[c].rows : q[1] = a}
        BY <4>1
      <4> QED BY <4>1, <4>2 DEF Recorded
    <3> QED BY <3>2, <3>3
  <2>5. history' = [a \in Applications |->
                      history[a] \cup {[stage |-> s, at |-> at] : s \in Journal!Given(moves, a)}]
    BY <1>3, <2>4
  <2>6. \A a \in Applications : Journal!Given(moves, a) = {} <=> req[c].to[a] = NoStage
    BY <2>2 DEF MemoryIsFresh, Journal!Given
  <2>7. CASE moves = {}
    <3>1. \A a \in Applications : Recorded(c, a) = {} /\ req[c].to[a] = NoStage
      BY <2>2, <2>7 DEF Recorded, MemoryIsFresh
    <3>2. history' = history /\ stage' = stage
      BY <1>0, <1>3, <3>1 DEF WrittenStage, TypeOK
    <3> QED BY <1>2, <3>2
  <2>8. CASE moves # {}
    <3>1. moves \subseteq submitted \X LiveStages
      <4> SUFFICES ASSUME NEW p \in moves PROVE p[1] \in submitted /\ p[2] \in LiveStages
        BY <2>1
      <4>1. p[1] \in Applications /\ p[2] \in Stages /\ <<p[1], p[2]>> \in req[c].rows
        BY <2>1
      <4>2. MemoryIsFresh(c, p[1])
        BY <2>2, <4>1
      <4>3. p[1] \in submitted
        BY <4>1, <4>2 DEF MemoryIsFresh
      <4> QED BY <1>3, <4>1, <4>3 DEF LiveStages
    <3>2. ASSUME NEW a \in Applications, NEW m \in history[a]
          PROVE  m.at # at /\ (a \notin contended /\ Journal!Given(moves, a) # {} => m.at < at)
      <4>1. m.at # at
        BY <1>0 DEF TimesAreOwn
      <4>2. ASSUME a \notin contended, req[c].to[a] # NoStage PROVE m.at < at
        BY <1>0, <4>2 DEF OrderInv, TimesArePast, MovesAreAlone, Holds, AloneWith
      <4> QED BY <2>6, <4>1, <4>2
    <3>3. ASSUME NEW a \in Applications
          PROVE  \/ stage'[a] \in Journal!Given(moves, a)
                 \/ stage'[a] = stage[a] /\ Journal!Given(moves, a) = {}
                 \/ /\ stage'[a] = stage[a] /\ a \in contended
                    /\ \E m \in history[a] : m.stage = stage[a]
                 \/ stage'[a] = NoStage /\ stage[a] = NoStage /\ history[a] # {}
      <4>1. stage'[a] = WrittenStage(c, a)
        BY <1>3
      <4>2. CASE req[c].to[a] = NoStage
        BY <2>6, <4>1, <4>2 DEF WrittenStage
      <4>3. CASE req[c].to[a] # NoStage
        <5>1. req[c].to[a] \in Stages /\ <<a, req[c].to[a]>> \in moves
          BY <2>2, <4>3 DEF MemoryIsFresh
        <5>2. req[c].to[a] \in Journal!Given(moves, a)
          BY <5>1 DEF Journal!Given
        <5>3. CASE a \in contended
          <6>1. CASE history[a] # {}
            <7>1. stage[a] = NoStage \/ \E m \in history[a] : m.stage = stage[a]
              BY <1>0, <6>1 DEF OrderInv, HistoryInv, MovedIsRecorded
            <7> QED BY <4>1, <5>2, <5>3, <6>1, <7>1 DEF WrittenStage
          <6>2. CASE history[a] = {}
            <7>1. \/ stage[a] = req[c].from[a]
                  \/ name[req[c].from[a]] = "deleted"
              BY <2>2, <4>3, <6>2 DEF MemoryIsFresh
            <7>2. name[req[c].to[a]] # "deleted"
              BY <1>3, <5>1 DEF Live, Names
            <7>3. stage'[a] = req[c].to[a]
              BY <4>1, <4>3, <7>1, <7>2 DEF WrittenStage
            <7> QED BY <5>2, <7>3
          <6> QED BY <6>1, <6>2
        <5>4. CASE a \notin contended
          <6>1. AloneWith(c, a)
            BY <1>0, <4>3, <5>4 DEF OrderInv, TimesArePast, MovesAreAlone, Holds
          <6>2. Live(req[c].to[a])
            BY <1>3, <5>1
          <6>3. CASE stage[a] = NoStage /\ history[a] # {}
            BY <4>1, <5>2, <6>3 DEF WrittenStage
          <6>4. CASE ~(stage[a] = NoStage /\ history[a] # {})
            <7>1. stage[a] = req[c].from[a] \/ req[c].from[a] # req[c].to[a]
              BY <2>2, <4>3, <6>1, <6>2, <6>4 DEF AloneWith, MemoryIsFresh, Live, Names
            <7>2. stage'[a] = req[c].to[a]
              BY <4>1, <4>3, <7>1 DEF WrittenStage
            <7> QED BY <5>2, <7>2
          <6> QED BY <6>3, <6>4
        <5> QED BY <5>3, <5>4
      <4> QED BY <4>2, <4>3
    <3>4. stage' \in [Applications -> Stages \cup {NoStage}]
      <4>1. \A a \in Applications : WrittenStage(c, a) \in Stages \cup {NoStage}
        BY <1>0, <2>2 DEF WrittenStage, TypeOK
      <4> QED BY <1>3, <4>1
    <3>5. UNCHANGED <<LiveStages, DeletedStages>>
      BY <1>1 DEF LiveStages, DeletedStages, Live
    <3>8. MarkedPairs' = MarkedPairs
      BY <1>4, MarkedStay
    <3> HIDE DEF moves, at
    <3>6. Journal!Move(moves, at)
      BY <1>1, <2>5, <2>8, <3>1, <3>2, <3>3, <3>4, <3>5, <3>8
         DEF Journal!Move, LiveStages, DeletedStages, MarkedPairs
    <3>7. moves \in SUBSET (Applications \X Stages)
      BY <2>1
    <3> QED BY <2>3, <3>6, <3>7 DEF Journal!Next
  <2> QED BY <2>7, <2>8
<1> QED
  BY <1>2, <1>3 DEF CommitMove

LEMMA JournalSubmits ==
  ASSUME TypeOK, NEW a \in Applications, SubmitApplication(a)
  PROVE  Journal!Submit(a)
<1>1. /\ a \notin submitted /\ submitted' = submitted \cup {a}
      /\ UNCHANGED <<name, history, clock, contended>>
  BY DEF SubmitApplication, reqVars
<1>2. \/ LiveStages = {} /\ UNCHANGED stage
      \/ \E s \in LiveStages : stage' = [stage EXCEPT ![a] = s]
  BY DEF SubmitApplication, LiveStages
<1>3. UNCHANGED <<LiveStages, DeletedStages>>
  BY <1>1 DEF LiveStages, DeletedStages, Live
<1>4. MarkedPairs' = MarkedPairs
  BY DEF SubmitApplication, reqVars, MarkedPairs
<1> QED
  BY <1>1, <1>2, <1>3, <1>4 DEF Journal!Submit, LiveStages, DeletedStages, MarkedPairs

LEMMA JournalStep == JournalInv /\ [Next]_vars => [Journal!Next]_JournalVars
<1> SUFFICES ASSUME JournalInv, [Next]_vars PROVE [Journal!Next]_JournalVars
  OBVIOUS
<1>0. TypeOK /\ StagesExist
  BY DEF JournalInv, OrderInv, HistoryInv
<1>1. ASSUME UNCHANGED <<submitted, stage, history, clock, contended, name>>,
             \A r \in Requests : ~DeleteStageSelect(r)
      PROVE  [Journal!Next]_JournalVars
  BY <1>0, <1>1, NoneSelects, JournalStutters DEF Live
<1>2. ASSUME NEW s \in Stages, NEW n \in Names, CreateStage(s, n)
      PROVE  [Journal!Next]_JournalVars
  BY <1>0, <1>2, JournalAdds DEF Journal!Next
<1>3. ASSUME NEW s \in Stages, NEW n \in Names, RenameStage(s, n)
      PROVE  [Journal!Next]_JournalVars
  <2>1. name' = [name EXCEPT ![s] = n] /\ name[s] \in Names
    BY <1>3 DEF RenameStage, Live
  <2>2. \A x \in Stages : /\ Live(x)' <=> Live(x)
                          /\ name'[x] = "deleted" <=> name[x] = "deleted"
    BY <1>0, <2>1 DEF Live, TypeOK, Names
  <2>3. UNCHANGED <<submitted, stage, history, clock, contended, req>>
    BY <1>3 DEF RenameStage, reqVars
  <2> QED BY <2>2, <2>3, JournalStutters
<1>4. ASSUME NEW a \in Applications, SubmitApplication(a)
      PROVE  [Journal!Next]_JournalVars
  BY <1>0, <1>4, JournalSubmits DEF Journal!Next
<1>5. ASSUME NEW r \in Requests, DeleteStage(r) PROVE [Journal!Next]_JournalVars
  BY <1>0, <1>5, JournalRemoves
<1>6. ASSUME NEW r \in Requests, MoveOpens(r) PROVE [Journal!Next]_JournalVars
  BY <1>0, <1>6, JournalBegins DEF Journal!Next
<1>7. ASSUME NEW r \in Requests, CommitMove(r) PROVE [Journal!Next]_JournalVars
  BY <1>7, JournalMoves
<1>12. ASSUME NEW r \in Requests, DeleteStageSelect(r) PROVE [Journal!Next]_JournalVars
  BY <1>0, <1>12, JournalMarks
<1>8. ASSUME NEW r \in Requests, NEW s \in Stages, DeleteStageCheck(r, s)
      PROVE  [Journal!Next]_JournalVars
  BY <1>1, <1>8, <1>12 DEF DeleteStageCheck, rowVars
<1>9. ASSUME NEW r \in Requests, MoveItem(r) \/ RefuseItem(r) \/ FinishTasks(r) \/ Abort(r)
      PROVE  [Journal!Next]_JournalVars
  BY <1>1, <1>9, <1>12 DEF MoveItem, RefuseItem, FinishTasks, Abort, rowVars
<1>10. ASSUME NEW a \in Applications, ScheduleInterview(a) \/ WithdrawInterview(a)
       PROVE  [Journal!Next]_JournalVars
  BY <1>1, <1>10, <1>12 DEF ScheduleInterview, WithdrawInterview, reqVars
<1>11. CASE UNCHANGED vars
  BY <1>1, <1>11, <1>12 DEF vars, rowVars, reqVars
<1> QED
  BY <1>2, <1>3, <1>4, <1>5, <1>6, <1>7, <1>8, <1>9, <1>10, <1>11, <1>12
     DEF Next

\* Requests read, others commit, and then they act on what they read; what comes
\* of it is the journal of stages: a batch is moved at once or not at all, under
\* a time of its own, no row is lost or changed, no stage of the history is
\* removed, and an application goes where its latest row says unless two requests
\* moved it at one time.
THEOREM ImplementsStageJournal == Spec => StageJournalSpec
<1>1. Init => Journal!Init
  BY DEF Init, Journal!Init, NoRequest, Live, Names
<1>2. Spec => [][Journal!Next]_JournalVars
  BY JournalInvariant, JournalStep, PTL DEF Spec
<1> QED
  BY <1>1, <1>2, PTL
     DEF Spec, StageJournalSpec, Journal!Spec, Journal!vars, JournalVars, LiveStages,
         DeletedStages, MarkedPairs

=============================================================================
