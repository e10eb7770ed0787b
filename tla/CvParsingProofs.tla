---------------------------- MODULE CvParsingProofs ----------------------------
(***************************************************************************)
(* Proofs about CvParsing, for any number of jobs and of worker processes, *)
(* with the LLM on or off, whether or not the disk and the sweep may fail. *)
(***************************************************************************)
EXTENDS CvParsing, TLAPS

-----------------------------------------------------------------------------
(* Type correctness.                                                       *)

RowTypes ==
  /\ app \in {"none", "live", "anonymized", "deleted", "unposted"}
  /\ consent \in {"never", "granted", "revoked"}
  /\ job \in [Jobs -> JobRow]
  /\ profile \in ProfileRow
  /\ match \in [Jobs -> MatchRow]
  /\ metered \subseteq Jobs \X Operation
TaskTypes ==
  /\ paid \subseteq Jobs \X Operation
  /\ pc \in [Jobs -> Place]
  /\ at \in [Jobs -> Workers \cup {NoWorker}]
  /\ run \in [Jobs -> Memory]
  /\ mail \in [Jobs -> {"none", "queued", "sent"}]
  /\ up \subseteq Workers
FlagTypes ==
  /\ cvUrl \in BOOLEAN /\ cvFile \in BOOLEAN
  /\ retrying \in BOOLEAN /\ erasing \in BOOLEAN

LEMMA TypeOKParts == TypeOK <=> RowTypes /\ TaskTypes /\ FlagTypes
BY Zenon DEF TypeOK, RowTypes, TaskTypes, FlagTypes

LEMMA TypeOKInit == Init => TypeOK
<1> SUFFICES ASSUME Init PROVE TypeOK
  OBVIOUS
<1>1. RowTypes
  BY DEF Init, RowTypes, JobRow, Row, JobStatus, NoProfile, Profile, ProfileRow, MatchRow, NoMatch
<1>2. TaskTypes
  BY DEF Init, TaskTypes, Place, NoMemory, Memory, NoProfile, Profile, ProfileRow
<1>3. FlagTypes
  BY DEF Init, FlagTypes
<1> QED BY <1>1, <1>2, <1>3, TypeOKParts

\* What an upsert leaves in the profile row is a profile row.
LEMMA UpsertType ==
  ASSUME TypeOK, NEW j \in Jobs, NEW status \in {"completed", "failed"},
         NEW content \in Content \cup {NoContent}
  PROVE  Upsert(j, status, content) \in ProfileRow
<1>1. profile \in ProfileRow /\ run[j].seen \in ProfileRow
  BY TypeOKParts DEF RowTypes, TaskTypes, Memory
<1> QED
  BY <1>1 DEF Upsert, ProfileRow, Profile, NoProfile

\* The rows the actions write are rows.
LEMMA NewRows ==
  /\ \A s \in JobStatus : Row(s) \in JobRow
  /\ NoProfile \in ProfileRow
  /\ NoMatch \in MatchRow
BY DEF Row, JobRow, NoProfile, Profile, ProfileRow, NoMatch, MatchRow

LEMMA MarkedRows ==
  ASSUME NEW row \in JobRow
  PROVE  /\ MarkCompleted(row) \in JobRow
         /\ MarkCompleted(row).status = "completed" /\ ~ MarkCompleted(row).rawText
         /\ MarkFailed(row) \in JobRow
         /\ MarkFailed(row).status = "failed"
BY DEF MarkCompleted, MarkFailed, JobRow, JobStatus

LEMMA RowTypesStep == TypeOK /\ [Next]_vars => RowTypes'
<1> SUFFICES ASSUME TypeOK, [Next]_vars PROVE RowTypes'
  OBVIOUS
<1>0. RowTypes /\ TaskTypes
  BY TypeOKParts
<1>1. ASSUME NEW j \in Jobs, SubmitApplication(j) PROVE RowTypes'
  BY <1>0, <1>1 DEF SubmitApplication, RowTypes, Queue, Row, JobRow, JobStatus
<1>2. ASSUME NEW j \in Jobs, RetryCommit(j) PROVE RowTypes'
  BY <1>0, <1>2 DEF RetryCommit, RowTypes, Queue, Row, JobRow, JobStatus
<1>3. ASSUME RetryRead \/ RetryAbort \/ AnonymizeAbort PROVE RowTypes'
  BY <1>0, <1>3 DEF RetryRead, RetryAbort, AnonymizeAbort, RowTypes, rowVars
<1>4. ASSUME SetAiProfilingConsent PROVE RowTypes'
  BY <1>0, <1>4 DEF SetAiProfilingConsent, RowTypes
<1>5. ASSUME AnonymizeDeleteFile PROVE RowTypes'
  BY <1>0, <1>5 DEF AnonymizeDeleteFile, RowTypes
<1>6. ASSUME AnonymizeCommit \/ DeleteApplicationData \/ DeleteJob PROVE RowTypes'
  <2>1. "absent" \in JobStatus
    BY DEF JobStatus
  <2> QED
    BY <1>0, <1>6, <2>1, NewRows DEF AnonymizeCommit, DeleteApplicationData, DeleteJob, RowTypes
<1>7. ASSUME NEW j \in Jobs, RunLoad(j) PROVE RowTypes'
  BY <1>0, <1>7 DEF RunLoad, RowTypes, rowVars
<1>8. ASSUME NEW j \in Jobs, RunMarkExtracting(j) PROVE RowTypes'
  BY <1>0, <1>8 DEF RunMarkExtracting, RowTypes, JobRow, JobStatus, InProgress
<1>9. ASSUME NEW j \in Jobs, RunExtract(j) PROVE RowTypes'
  BY <1>0, <1>9 DEF RunExtract, RowTypes, JobRow, JobStatus, InProgress,
                    FailOutsideTransaction, FailInTransaction, rowVars
<1>10. ASSUME NEW j \in Jobs, RunParse(j) PROVE RowTypes'
  BY <1>0, <1>10 DEF RunParse, RowTypes, FailOutsideTransaction, rowVars
<1>11. ASSUME NEW j \in Jobs, RunEnriched(j) PROVE RowTypes'
  BY <1>0, <1>11 DEF RunEnriched, RowTypes, FailInTransaction, rowVars
<1>12. ASSUME NEW j \in Jobs, RunComplete(j) PROVE RowTypes'
  <2>1. CASE FailInTransaction(j)
    BY <1>0, <2>1 DEF FailInTransaction, RowTypes, rowVars
  <2>2. CASE ~ FailInTransaction(j)
    <3>1. /\ job' = [job EXCEPT ![j] = MarkCompleted(job[j])]
          /\ profile' = Upsert(j, "completed", run[j].content)
          /\ UNCHANGED <<app, consent, match, metered>>
      BY <1>12, <2>2 DEF RunComplete
    <3>2. run[j].content \in Content \cup {NoContent}
      BY <1>0 DEF TaskTypes, Memory
    <3>3. job' \in [Jobs -> JobRow]
      BY <1>0, <3>1, MarkedRows DEF RowTypes
    <3>4. profile' \in ProfileRow
      BY <3>1, <3>2, UpsertType
    <3> QED BY <1>0, <3>1, <3>3, <3>4 DEF RowTypes
  <2> QED BY <2>1, <2>2
<1>13. ASSUME NEW j \in Jobs, RunLogUsage(j) PROVE RowTypes'
  BY <1>0, <1>13 DEF RunLogUsage, RowTypes, FailInTransaction, rowVars, Operation
<1>14. ASSUME NEW j \in Jobs, RunMatchLookup(j) PROVE RowTypes'
  BY <1>0, <1>14 DEF RunMatchLookup, RowTypes, rowVars
<1>15. ASSUME NEW j \in Jobs, RunMatched(j) PROVE RowTypes'
  <2>1. CASE UNCHANGED rowVars
    BY <1>0, <2>1 DEF RowTypes, rowVars
  <2>2. CASE ~ UNCHANGED rowVars
    BY <1>0, <1>15, <2>2
       DEF RunMatched, RowTypes, FailInTransaction, rowVars, MatchOutcome, MatchRow, MatchKey,
           Operation, TaskTypes, Memory, ProfileRow
  <2> QED BY <2>1, <2>2
<1>16. ASSUME NEW j \in Jobs, HandlerRead(j) PROVE RowTypes'
  BY <1>0, <1>16 DEF HandlerRead, RowTypes, rowVars
<1>17. ASSUME NEW j \in Jobs, HandlerWrite(j) PROVE RowTypes'
  BY <1>0, <1>17, UpsertType, MarkedRows DEF HandlerWrite, RowTypes
<1>18. ASSUME NEW j \in Jobs, SendConfirmation(j) PROVE RowTypes'
  BY <1>0, <1>18 DEF SendConfirmation, RowTypes, rowVars
<1>19. ASSUME NEW w \in Workers, WorkerCrash(w) PROVE RowTypes'
  BY <1>0, <1>19 DEF WorkerCrash, RowTypes, rowVars
<1>20. ASSUME NEW w \in Workers, Lifespan(w) PROVE RowTypes'
  <2>1. Sweep \in [Jobs -> JobRow]
    BY <1>0, MarkedRows DEF RowTypes, Sweep
  <2> QED BY <1>0, <1>20, <2>1 DEF Lifespan, RowTypes
<1>21. CASE UNCHANGED vars
  BY <1>0, <1>21 DEF vars, rowVars, RowTypes
<1> QED
  BY <1>1, <1>2, <1>3, <1>4, <1>5, <1>6, <1>7, <1>8, <1>9, <1>10, <1>11, <1>12, <1>13,
     <1>14, <1>15, <1>16, <1>17, <1>18, <1>19, <1>20, <1>21
     DEF Next, Request, RunStep

\* Moving a task, alone or with the loss of its memory, keeps the types.
LEMMA MoveTypes ==
  ASSUME TypeOK, NEW j \in Jobs, NEW place \in Place, Goto(j, place)
  PROVE  pc' \in [Jobs -> Place] /\ at' \in [Jobs -> Workers \cup {NoWorker}]
BY TypeOKParts DEF TaskTypes, Goto

LEMMA LeaveTypes ==
  ASSUME TypeOK, NEW j \in Jobs, NEW place \in Place, Leave(j, place)
  PROVE  /\ pc' \in [Jobs -> Place] /\ at' \in [Jobs -> Workers \cup {NoWorker}]
         /\ run' \in [Jobs -> Memory]
<1>1. NoMemory \in Memory
  BY NewRows DEF NoMemory, Memory
<1> QED
  BY <1>1, MoveTypes, TypeOKParts DEF TaskTypes, Leave

LEMMA ReturnOrDieTypes ==
  ASSUME TypeOK, NEW j \in Jobs, Return(j) \/ Die(j)
  PROVE  /\ pc' \in [Jobs -> Place] /\ at' \in [Jobs -> Workers \cup {NoWorker}]
         /\ run' \in [Jobs -> Memory]
<1>1. {"mail", "done", "dead"} \subseteq Place
  BY DEF Place, Working, Ended
<1>2. PICK place \in {"mail", "done", "dead"} : Leave(j, place)
  BY DEF Return, Die
<1> QED
  BY <1>1, <1>2, LeaveTypes

LEMMA TaskTypesStep == TypeOK /\ [Next]_vars => TaskTypes'
<1> SUFFICES ASSUME TypeOK, [Next]_vars PROVE TaskTypes'
  OBVIOUS
<1>0. RowTypes /\ TaskTypes
  BY TypeOKParts
<1>p. Working \subseteq Place /\ Ended \subseteq Place
  BY DEF Place
<1> USE DEF Working, Ended
<1>1. ASSUME NEW j \in Jobs, Queue(j), up' = up, paid' = paid, run' = run,
             mail' = mail \/ mail' = [mail EXCEPT ![j] = "queued"]
      PROVE  TaskTypes'
  BY <1>0, <1>p, <1>1 DEF Queue, TaskTypes
<1>2. ASSUME NEW j \in Jobs, SubmitApplication(j) \/ RetryCommit(j) PROVE TaskTypes'
  BY <1>1, <1>2 DEF SubmitApplication, RetryCommit
<1>3. ASSUME UNCHANGED <<taskVars, up>> PROVE TaskTypes'
  BY <1>0, <1>3 DEF TaskTypes, taskVars
<1>4. ASSUME NEW j \in Jobs, Return(j) \/ Die(j), mail' = mail, up' = up,
             paid' \subseteq Jobs \X Operation
      PROVE  TaskTypes'
  BY <1>0, <1>4, ReturnOrDieTypes DEF TaskTypes
<1>5. ASSUME NEW j \in Jobs, NEW place \in Working, Goto(j, place), mail' = mail, up' = up,
             paid' \subseteq Jobs \X Operation, run' \in [Jobs -> Memory]
      PROVE  TaskTypes'
  BY <1>0, <1>p, <1>5, MoveTypes DEF TaskTypes
<1>6. ASSUME NEW j \in Jobs, RunLoad(j) PROVE TaskTypes'
  <2>1. CASE Return(j)
    BY <1>0, <1>6, <2>1, <1>4 DEF RunLoad, TaskTypes
  <2>2. CASE ~ Return(j)
    <3>1. (consent = "granted") \in BOOLEAN
      OBVIOUS
    <3>2. run' = [run EXCEPT ![j].optIn = consent = "granted"]
      BY <1>6, <2>2 DEF RunLoad
    <3>3. run' \in [Jobs -> Memory]
      BY <1>0, <3>1, <3>2 DEF TaskTypes, Memory
    <3> QED
      BY <1>0, <1>6, <2>2, <1>5, <3>3 DEF RunLoad, TaskTypes
  <2> QED BY <2>1, <2>2
<1>7. ASSUME NEW j \in Jobs, RunMarkExtracting(j) PROVE TaskTypes'
  BY <1>0, <1>7, <1>4, <1>5 DEF RunMarkExtracting, TaskTypes
<1>8. ASSUME NEW j \in Jobs, RunExtract(j) \/ RunParse(j) PROVE TaskTypes'
  BY <1>0, <1>8, <1>4, <1>5
     DEF RunExtract, RunParse, FailOutsideTransaction, FailInTransaction, TaskTypes
<1>9. ASSUME NEW j \in Jobs, RunEnriched(j) PROVE TaskTypes'
  <2>1. CASE FailInTransaction(j)
    BY <1>0, <1>9, <2>1, <1>4 DEF RunEnriched, FailInTransaction, TaskTypes
  <2>2. CASE ~ FailInTransaction(j)
    <3>1. PICK c \in Content \cup {NoContent} :
            /\ Goto(j, "upsert")
            /\ run' = [run EXCEPT ![j].content = c, ![j].seen = profile]
            /\ paid' = IF c = NoContent THEN paid ELSE paid \cup {<<j, "cv_parsing">>}
      BY <1>9, <2>2 DEF RunEnriched
    <3>2. run' \in [Jobs -> Memory]
      BY <1>0, <3>1 DEF TaskTypes, RowTypes, Memory
    <3>3. paid' \subseteq Jobs \X Operation
      BY <1>0, <3>1 DEF TaskTypes, Operation
    <3> QED BY <1>9, <3>1, <3>2, <3>3, <1>5 DEF RunEnriched
  <2> QED BY <2>1, <2>2
<1>10. ASSUME NEW j \in Jobs, RunComplete(j) PROVE TaskTypes'
  <2>1. CASE Return(j) \/ FailInTransaction(j)
    BY <1>0, <1>10, <2>1, <1>4 DEF RunComplete, FailInTransaction, TaskTypes
  <2>2. CASE ~ (Return(j) \/ FailInTransaction(j))
    <3>1. profile' \in ProfileRow
      BY RowTypesStep DEF RowTypes
    <3>2. run' = [run EXCEPT ![j].seen = profile'] /\ Goto(j, "usage") /\ paid' = paid
      BY <1>10, <2>2 DEF RunComplete
    <3>3. run' \in [Jobs -> Memory]
      BY <1>0, <3>1, <3>2 DEF TaskTypes, Memory
    <3> QED BY <1>0, <1>10, <3>2, <3>3, <1>5 DEF RunComplete, TaskTypes
  <2> QED BY <2>1, <2>2
<1>11. ASSUME NEW j \in Jobs, RunLogUsage(j) \/ RunMatchLookup(j) PROVE TaskTypes'
  BY <1>0, <1>11, <1>4, <1>5 DEF RunLogUsage, RunMatchLookup, FailInTransaction, TaskTypes
<1>12. ASSUME NEW j \in Jobs, RunMatched(j) PROVE TaskTypes'
  <2>1. paid' \subseteq Jobs \X Operation
    BY <1>0, <1>12 DEF RunMatched, FailInTransaction, TaskTypes, Operation
  <2> QED BY <1>12, <2>1, <1>4 DEF RunMatched, FailInTransaction
<1>13. ASSUME NEW j \in Jobs, HandlerRead(j) PROVE TaskTypes'
  <2>1. run' \in [Jobs -> Memory]
    BY <1>0, <1>13 DEF HandlerRead, TaskTypes, RowTypes, Memory
  <2> QED BY <1>0, <1>13, <2>1, <1>5 DEF HandlerRead, TaskTypes
<1>14. ASSUME NEW j \in Jobs, HandlerWrite(j) PROVE TaskTypes'
  BY <1>0, <1>14, <1>4 DEF HandlerWrite, TaskTypes
<1>15. ASSUME NEW j \in Jobs, SendConfirmation(j) PROVE TaskTypes'
  BY <1>0, <1>p, <1>15, MoveTypes DEF SendConfirmation, TaskTypes
<1>16. ASSUME NEW w \in Workers, WorkerCrash(w) PROVE TaskTypes'
  <2>1. NoMemory \in Memory /\ "lost" \in Place
    BY NewRows DEF NoMemory, Memory, Place
  <2> QED BY <1>0, <1>16, <2>1 DEF WorkerCrash, TaskTypes
<1>17. ASSUME NEW w \in Workers, Lifespan(w) PROVE TaskTypes'
  BY <1>0, <1>17 DEF Lifespan, TaskTypes, taskVars
<1> QED
  BY <1>2, <1>3, <1>6, <1>7, <1>8, <1>9, <1>10, <1>11, <1>12, <1>13, <1>14, <1>15,
     <1>16, <1>17
     DEF Next, Request, RunStep, RetryRead, RetryAbort, SetAiProfilingConsent,
         AnonymizeDeleteFile, AnonymizeCommit, AnonymizeAbort, DeleteApplicationData,
         DeleteJob, vars

LEMMA FlagTypesStep == TypeOK /\ [Next]_vars => FlagTypes'
<1> SUFFICES ASSUME TypeOK, [Next]_vars PROVE FlagTypes'
  OBVIOUS
<1>0. FlagTypes
  BY TypeOKParts
<1>1. CASE UNCHANGED <<cvUrl, cvFile, retrying, erasing>>
  BY <1>0, <1>1 DEF FlagTypes
<1>2. ASSUME NEW j \in Jobs, SubmitApplication(j) \/ RetryCommit(j) PROVE FlagTypes'
  BY <1>0, <1>2 DEF SubmitApplication, RetryCommit, FlagTypes, requestVars
<1>3. ASSUME RetryRead \/ RetryAbort PROVE FlagTypes'
  BY <1>0, <1>3 DEF RetryRead, RetryAbort, FlagTypes, rowVars
<1>4. ASSUME AnonymizeDeleteFile PROVE FlagTypes'
  BY <1>0, <1>4 DEF AnonymizeDeleteFile, FlagTypes
<1>5. ASSUME AnonymizeCommit \/ AnonymizeAbort \/ DeleteApplicationData \/ DeleteJob
      PROVE  FlagTypes'
  BY <1>0, <1>5 DEF AnonymizeCommit, AnonymizeAbort, DeleteApplicationData, DeleteJob, FlagTypes,
                    rowVars, requestVars
<1>6. ASSUME NEW j \in Jobs, RunStep(j) PROVE UNCHANGED <<cvUrl, cvFile, retrying, erasing>>
  BY <1>6 DEF RunStep, RunLoad, RunMarkExtracting, RunExtract, RunParse, RunEnriched,
              RunComplete, RunLogUsage, RunMatchLookup, RunMatched, HandlerRead,
              HandlerWrite, SendConfirmation, FailInTransaction, FailOutsideTransaction,
              rowVars, requestVars
<1>7. ASSUME SetAiProfilingConsent \/ (\E w \in Workers : WorkerCrash(w) \/ Lifespan(w))
      PROVE  UNCHANGED <<cvUrl, cvFile, retrying, erasing>>
  BY <1>7 DEF SetAiProfilingConsent, WorkerCrash, Lifespan, rowVars, requestVars
<1>8. UNCHANGED vars => UNCHANGED <<cvUrl, cvFile, retrying, erasing>>
  BY DEF vars, rowVars, requestVars
<1> QED
  BY <1>1, <1>2, <1>3, <1>4, <1>5, <1>6, <1>7, <1>8 DEF Next, Request

LEMMA TypeOKStep == TypeOK /\ [Next]_vars => TypeOK'
<1>1. TypeOK' <=> RowTypes' /\ TaskTypes' /\ FlagTypes'
  BY TypeOKParts, PTL
<1> QED
  BY <1>1, RowTypesStep, TaskTypesStep, FlagTypesStep

\* Every variable keeps its declared value, whatever interleaves.
THEOREM TypeCorrect == Spec => []TypeOK
BY TypeOKInit, TypeOKStep, PTL DEF Spec

-----------------------------------------------------------------------------
(* Where a run stands and what its row says.                               *)

\* While a task runs, its row is where the task left it, unless an erasure
\* removed it or the boot of another process marked it failed.
RunFitsRow ==
  \A j \in Jobs :
    /\ pc[j] = "none" => job[j].status = "absent"
    /\ pc[j] \in {"scheduled", "loaded"} => job[j].status \in {"absent", "queued"}
    /\ pc[j] = "extract" => job[j].status \in {"absent", "extracting", "failed"}
    /\ pc[j] \in {"parse", "enrich", "upsert"} =>
         job[j].status \in {"absent", "parsing", "failed"}
    /\ pc[j] \in {"failing", "failWrite"} =>
         job[j].status \in {"absent", "extracting", "parsing", "failed"}
    /\ pc[j] \in {"usage", "lookup", "match"} => job[j].status \in {"absent", "completed"}
    /\ pc[j] \in {"mail", "done"} => job[j].status \in {"absent", "completed", "failed"}

RowInv == RunFitsRow /\ ProfileBackedByJob /\ TextOnlyWhileUnfinished

LEMMA RowInvInit == Init => RowInv
BY DEF Init, RowInv, RunFitsRow, ProfileBackedByJob, TextOnlyWhileUnfinished,
       Row, NoProfile, Profile

\* No job row and no profile status changes: the invariant rests on where the
\* tasks are.
LEMMA RowInvByPlace ==
  ASSUME RowInv, UNCHANGED <<job, profile>>, RunFitsRow'
  PROVE  RowInv'
BY DEF RowInv, ProfileBackedByJob, TextOnlyWhileUnfinished

LEMMA RowInvErased ==
  ASSUME job' = [j \in Jobs |-> Row("absent")], profile' = NoProfile, UNCHANGED pc, RowInv
  PROVE  RowInv'
BY DEF RowInv, RunFitsRow, ProfileBackedByJob, TextOnlyWhileUnfinished, Row, NoProfile, Profile

LEMMA RowInvQueued ==
  ASSUME TypeOK, NEW j \in Jobs, Queue(j), UNCHANGED profile, RowInv
  PROVE  RowInv'
<1>1. job \in [Jobs -> JobRow] /\ pc \in [Jobs -> Place]
  BY TypeOKParts DEF RowTypes, TaskTypes
<1>2. job' = [job EXCEPT ![j] = Row("queued")] /\ pc' = [pc EXCEPT ![j] = "scheduled"]
      /\ job[j].status = "absent"
  BY DEF Queue, RowInv, RunFitsRow
<1>3. RunFitsRow'
  BY <1>1, <1>2 DEF RowInv, RunFitsRow, Row
<1>4. ProfileBackedByJob'
  BY <1>1, <1>2 DEF RowInv, ProfileBackedByJob
<1>5. TextOnlyWhileUnfinished'
  BY <1>1, <1>2 DEF RowInv, TextOnlyWhileUnfinished, Row
<1> QED BY <1>3, <1>4, <1>5 DEF RowInv

LEMMA RowInvSwept ==
  ASSUME TypeOK, job' = Sweep, UNCHANGED <<pc, profile>>, RowInv
  PROVE  RowInv'
<1>1. \A j \in Jobs : IF job[j].status \in {"extracting", "parsing"}
                      THEN job'[j].status = "failed" ELSE job'[j] = job[j]
  BY TypeOKParts, MarkedRows DEF Sweep, InProgress, RowTypes
<1>2. RunFitsRow'
  BY <1>1 DEF RowInv, RunFitsRow
<1>3. ProfileBackedByJob'
  BY <1>1 DEF RowInv, ProfileBackedByJob
<1>4. TextOnlyWhileUnfinished'
  BY <1>1 DEF RowInv, TextOnlyWhileUnfinished
<1> QED BY <1>2, <1>3, <1>4 DEF RowInv

LEMMA RowInvCrash ==
  ASSUME TypeOK, NEW w \in Workers, WorkerCrash(w), RowInv
  PROVE  RowInv'
<1>1. \A j \in Jobs : pc'[j] \in {pc[j], "lost"}
  BY DEF WorkerCrash
<1>2. UNCHANGED <<job, profile>>
  BY DEF WorkerCrash, rowVars
<1>3. RunFitsRow'
  BY <1>1, <1>2 DEF RowInv, RunFitsRow
<1> QED BY <1>2, <1>3, RowInvByPlace

\* The steps of a run that write no row.
LEMMA RowInvMove ==
  ASSUME TypeOK, RowInv, NEW j \in Jobs, UNCHANGED <<job, profile>>,
         \/ Die(j)
         \/ Return(j) /\ job[j].status \in {"absent", "completed", "failed"}
         \/ pc[j] = "scheduled" /\ Goto(j, "loaded")
         \/ pc[j] \in {"extract", "parse"} /\ Goto(j, "failing")
         \/ pc[j] = "parse" /\ Goto(j, "enrich")
         \/ pc[j] = "enrich" /\ Goto(j, "upsert")
         \/ pc[j] = "usage" /\ Goto(j, "lookup")
         \/ pc[j] = "lookup" /\ Goto(j, "match")
         \/ pc[j] = "failing" /\ Goto(j, "failWrite")
         \/ pc[j] = "mail" /\ Goto(j, "done")
  PROVE  RowInv'
<1>1. pc \in [Jobs -> Place]
  BY TypeOKParts DEF TaskTypes
<1>2. \A k \in Jobs \ {j} : pc'[k] = pc[k]
  BY <1>1 DEF Die, Return, Leave, Goto
<1>3. RunFitsRow'
  BY <1>1, <1>2 DEF RowInv, RunFitsRow, Die, Return, Leave, Goto
<1> QED BY <1>3, RowInvByPlace

\* A step of j that writes row r to its job and moves its task to a place that
\* fits r.  A profile it marks as parsed is backed by r.
LEMMA RowInvWrite ==
  ASSUME TypeOK, RowInv, NEW j \in Jobs, NEW r \in JobRow, NEW place \in Place,
         job' = [job EXCEPT ![j] = r],
         pc' = [pc EXCEPT ![j] = place],
         job[j].status # "completed",
         \/ r.status = "extracting" /\ place = "extract"
         \/ r.status = "parsing" /\ place = "parse"
         \/ r.status = "completed" /\ place \in {"usage", "mail", "done"}
         \/ r.status = "failed" /\ place \in {"mail", "done"},
         r.rawText => r.status \in {"parsing", "failed"},
         profile'.status = "completed" =>
           profile.status = "completed" \/ r.status = "completed"
  PROVE  RowInv'
<1>1. job \in [Jobs -> JobRow] /\ pc \in [Jobs -> Place]
  BY TypeOKParts DEF RowTypes, TaskTypes
<1>2. RunFitsRow'
  BY <1>1 DEF RowInv, RunFitsRow
<1>3. ProfileBackedByJob'
  BY <1>1 DEF RowInv, ProfileBackedByJob
<1>4. TextOnlyWhileUnfinished'
  BY <1>1 DEF RowInv, TextOnlyWhileUnfinished
<1> QED BY <1>2, <1>3, <1>4 DEF RowInv

\* An upsert leaves the status it was given, or the status the row has now.
LEMMA UpsertStatus ==
  ASSUME NEW j \in Jobs, NEW status, NEW content
  PROVE  Upsert(j, status, content).status \in {status, profile.status}
BY DEF Upsert, Profile

LEMMA RowInvRun ==
  ASSUME TypeOK, RowInv, NEW j \in Jobs, RunStep(j)
  PROVE  RowInv'
<1>0. /\ job \in [Jobs -> JobRow] /\ pc \in [Jobs -> Place] /\ RunFitsRow
      /\ job[j] \in JobRow
  BY TypeOKParts DEF RowTypes, TaskTypes, RowInv
<1>p. {"extract", "parse", "usage", "mail", "done"} \subseteq Place
  BY DEF Place, Working, Ended
<1>1. CASE RunLoad(j)
  BY <1>0, <1>1, RowInvMove DEF RunLoad, Gone, Leave, Here, rowVars
<1>2. CASE RunMarkExtracting(j)
  <2>1. CASE Gone(j)
    BY <1>2, <2>1, RowInvMove DEF RunMarkExtracting
  <2>2. CASE ~ Gone(j)
    <3> DEFINE r == [job[j] EXCEPT !.status = "extracting"]
    <3>1. job[j].status = "queued" /\ ~ job[j].rawText
      BY <1>0, <1>2, <2>2
         DEF RunMarkExtracting, Here, Gone, RunFitsRow, RowInv, TextOnlyWhileUnfinished
    <3>2. r \in JobRow /\ r.status = "extracting" /\ ~ r.rawText
      BY <1>0, <3>1 DEF JobRow, JobStatus, InProgress
    <3>3. job' = [job EXCEPT ![j] = r] /\ pc' = [pc EXCEPT ![j] = "extract"]
          /\ profile' = profile
      BY <1>2, <2>2 DEF RunMarkExtracting, Goto
    <3> HIDE DEF r
    <3> QED BY <1>p, <3>1, <3>2, <3>3, RowInvWrite
  <2> QED BY <2>1, <2>2
<1>3. CASE RunExtract(j)
  <2>1. CASE FailOutsideTransaction(j) \/ FailInTransaction(j)
    BY <1>3, <2>1, RowInvMove
       DEF RunExtract, Here, FailOutsideTransaction, FailInTransaction, rowVars
  <2>2. CASE ~ (FailOutsideTransaction(j) \/ FailInTransaction(j))
    <3> DEFINE r == [job[j] EXCEPT !.status = "parsing", !.rawText = TRUE]
    <3>1. job[j].status # "completed"
      BY <1>0, <1>3 DEF RunExtract, Here, RunFitsRow
    <3>2. r \in JobRow /\ r.status = "parsing"
      BY <1>0 DEF JobRow, JobStatus, InProgress
    <3>3. job' = [job EXCEPT ![j] = r] /\ pc' = [pc EXCEPT ![j] = "parse"]
          /\ profile' = profile
      BY <1>3, <2>2 DEF RunExtract, Goto
    <3> HIDE DEF r
    <3> QED BY <1>p, <3>1, <3>2, <3>3, RowInvWrite
  <2> QED BY <2>1, <2>2
<1>4. CASE RunParse(j)
  BY <1>4, RowInvMove DEF RunParse, Here, FailOutsideTransaction, rowVars
<1>5. CASE RunEnriched(j)
  BY <1>5, RowInvMove DEF RunEnriched, Here, FailInTransaction, rowVars
<1>6. CASE RunComplete(j)
  <2>1. CASE FailInTransaction(j)
    BY <1>6, <2>1, RowInvMove DEF FailInTransaction, rowVars
  <2>2. CASE ~ FailInTransaction(j)
    <3> DEFINE r == MarkCompleted(job[j])
    <3>1. job[j].status # "completed"
      BY <1>0, <1>6 DEF RunComplete, Here, RunFitsRow
    <3>2. r \in JobRow /\ r.status = "completed" /\ ~ r.rawText
      BY <1>0, MarkedRows
    <3>3. job' = [job EXCEPT ![j] = r]
      BY <1>6, <2>2 DEF RunComplete
    <3>4. PICK place \in {"usage", "mail", "done"} : pc' = [pc EXCEPT ![j] = place]
      BY <1>6, <2>2 DEF RunComplete, Return, Leave, Goto
    <3> HIDE DEF r
    <3> QED BY <1>p, <3>1, <3>2, <3>3, <3>4, RowInvWrite
  <2> QED BY <2>1, <2>2
<1>7. CASE RunLogUsage(j)
  BY <1>0, <1>7, RowInvMove DEF RunLogUsage, Here, RunFitsRow, FailInTransaction, rowVars
<1>8. CASE RunMatchLookup(j)
  BY <1>0, <1>8, RowInvMove DEF RunMatchLookup, Here, RunFitsRow, rowVars
<1>9. CASE RunMatched(j)
  BY <1>0, <1>9, RowInvMove DEF RunMatched, Here, RunFitsRow, FailInTransaction, rowVars
<1>10. CASE HandlerRead(j)
  BY <1>10, RowInvMove DEF HandlerRead, Here, rowVars
<1>11. CASE HandlerWrite(j)
  <2>1. CASE Die(j) /\ UNCHANGED <<job, profile>>
    BY <2>1, RowInvMove
  <2>2. CASE ~ (Die(j) /\ UNCHANGED <<job, profile>>)
    <3> DEFINE r == MarkFailed(job[j])
    <3>1. job[j].status # "completed"
      BY <1>0, <1>11 DEF HandlerWrite, Here, RunFitsRow
    <3>2. r \in JobRow /\ r.status = "failed"
      BY <1>0, MarkedRows
    <3>3. job' = [job EXCEPT ![j] = r] /\ profile' = Upsert(j, "failed", NoContent)
      BY <1>11, <2>2 DEF HandlerWrite
    <3>4. PICK place \in {"mail", "done"} : pc' = [pc EXCEPT ![j] = place]
      BY <1>11, <2>2 DEF HandlerWrite, Return, Leave, Goto
    <3>5. profile'.status = "completed" => profile.status = "completed"
      BY <3>3, UpsertStatus
    <3> HIDE DEF r
    <3> QED BY <1>p, <3>1, <3>2, <3>3, <3>4, <3>5, RowInvWrite
  <2> QED BY <2>1, <2>2
<1>12. CASE SendConfirmation(j)
  BY <1>12, RowInvMove DEF SendConfirmation, Here, rowVars
<1> QED
  BY <1>1, <1>2, <1>3, <1>4, <1>5, <1>6, <1>7, <1>8, <1>9, <1>10, <1>11, <1>12 DEF RunStep

LEMMA RowInvStep == TypeOK /\ RowInv /\ [Next]_vars => RowInv'
<1> SUFFICES ASSUME TypeOK, RowInv, [Next]_vars PROVE RowInv'
  OBVIOUS
<1>1. CASE UNCHANGED <<job, profile, pc>>
  BY <1>1 DEF RowInv, RunFitsRow, ProfileBackedByJob, TextOnlyWhileUnfinished
<1>2. ASSUME NEW j \in Jobs, SubmitApplication(j) \/ RetryCommit(j) PROVE RowInv'
  BY <1>2, RowInvQueued DEF SubmitApplication, RetryCommit
<1>3. CASE RetryRead \/ RetryAbort \/ SetAiProfilingConsent \/ AnonymizeDeleteFile
           \/ AnonymizeAbort
  BY <1>1, <1>3 DEF RetryRead, RetryAbort, SetAiProfilingConsent, AnonymizeDeleteFile,
                    AnonymizeAbort, rowVars, taskVars
<1>4. CASE AnonymizeCommit \/ DeleteApplicationData \/ DeleteJob
  BY <1>4, RowInvErased DEF AnonymizeCommit, DeleteApplicationData, DeleteJob, taskVars
<1>5. ASSUME NEW w \in Workers, Lifespan(w) PROVE RowInv'
  BY <1>1, <1>5, RowInvSwept DEF Lifespan, taskVars
<1>6. UNCHANGED vars => UNCHANGED <<job, profile, pc>>
  BY DEF vars, rowVars, taskVars
<1> QED
  BY <1>1, <1>2, <1>3, <1>4, <1>5, <1>6, RowInvCrash, RowInvRun DEF Next, Request

LEMMA RowInvariant == Spec => [](TypeOK /\ RowInv)
BY TypeOKInit, TypeOKStep, RowInvInit, RowInvStep, PTL DEF Spec

\* A run that returned left no job behind in progress.
THEOREM CleanRunsSettle == Spec => []CleanRunSettles
<1>1. RowInv => CleanRunSettles
  BY DEF RowInv, RunFitsRow, CleanRunSettles
<1> QED BY RowInvariant, <1>1, PTL

\* A profile shown as parsed has a completed job behind it.
THEOREM ParsedProfilesAreBacked == Spec => []ProfileBackedByJob
<1>1. RowInv => ProfileBackedByJob
  BY DEF RowInv
<1> QED BY RowInvariant, <1>1, PTL

\* The full text of a CV is kept only by a job that has not completed.
THEOREM TextIsMinimised == Spec => []TextOnlyWhileUnfinished
<1>1. RowInv => TextOnlyWhileUnfinished
  BY DEF RowInv
<1> QED BY RowInvariant, <1>1, PTL
-----------------------------------------------------------------------------
(* Metering.                                                               *)

\* What CleanRunIsMetered says of a run that returned.
Accounted(j) ==
  /\ <<j, "job_matching">> \in paid =>
       {<<j, "cv_parsing">>, <<j, "job_matching">>} \subseteq metered
  /\ <<j, "cv_parsing">> \in paid => <<j, "cv_parsing">> \in metered \/ app = "unposted"

\* What is paid but not metered belongs to a run that has not written its usage
\* row: of the parse until "usage" is left, of the match at no point between
\* two steps, for the call and the row are one step.  Only a run whose posting is
\* gone leaves "usage" without the row, and it returns.
MeterInv ==
  /\ metered \subseteq paid
  /\ \A j \in Jobs :
       /\ pc[j] \in Working \ {"mail"} => <<j, "job_matching">> \notin paid
       /\ pc[j] \in {"none", "scheduled", "loaded", "extract", "parse", "enrich",
                     "failing", "failWrite"} =>
            <<j, "cv_parsing">> \notin paid /\ <<j, "job_matching">> \notin paid
       /\ pc[j] = "upsert" => (<<j, "cv_parsing">> \in paid <=> run[j].content # NoContent)
       /\ pc[j] = "usage" => <<j, "cv_parsing">> \in paid
       /\ pc[j] \in {"lookup", "match"} => <<j, "cv_parsing">> \in metered
       /\ pc[j] \in {"mail", "done"} => Accounted(j)

\* A step of one run: the others keep what they have.
LEMMA MeterByRun ==
  ASSUME TypeOK, MeterInv, NEW j \in Jobs, NEW place \in Place,
         pc' = [pc EXCEPT ![j] = place],
         NEW new \in SUBSET Operation, paid' = paid \cup {<<j, op>> : op \in new},
         NEW row \in SUBSET Operation, metered' = metered \cup {<<j, op>> : op \in row},
         metered' \subseteq paid',
         app = "unposted" => app' = "unposted",
         \A k \in Jobs \ {j} : run'[k] = run[k],
         place \in Working \ {"mail"} => <<j, "job_matching">> \notin paid',
         place \in {"none", "scheduled", "loaded", "extract", "parse", "enrich",
                    "failing", "failWrite"} => <<j, "cv_parsing">> \notin paid',
         place = "upsert" => (<<j, "cv_parsing">> \in paid' <=> run'[j].content # NoContent),
         place = "usage" => <<j, "cv_parsing">> \in paid',
         place \in {"lookup", "match"} => <<j, "cv_parsing">> \in metered',
         place \in {"mail", "done"} => Accounted(j)',
         place # "none"
  PROVE  MeterInv'
<1>1. pc'[j] = place /\ \A k \in Jobs \ {j} : pc'[k] = pc[k]
  BY TypeOKParts DEF TaskTypes
<1>2. \A k \in Jobs \ {j}, op \in Operation :
        /\ <<k, op>> \in paid' <=> <<k, op>> \in paid
        /\ <<k, op>> \in metered' <=> <<k, op>> \in metered
  OBVIOUS
<1>3. {"cv_parsing", "job_matching"} \subseteq Operation
  BY DEF Operation
<1>4. ASSUME NEW k \in Jobs
      PROVE  /\ pc'[k] \in Working \ {"mail"} => <<k, "job_matching">> \notin paid'
             /\ pc'[k] \in {"none", "scheduled", "loaded", "extract", "parse", "enrich",
                            "failing", "failWrite"} =>
                  <<k, "cv_parsing">> \notin paid' /\ <<k, "job_matching">> \notin paid'
             /\ pc'[k] = "upsert" => (<<k, "cv_parsing">> \in paid' <=> run'[k].content # NoContent)
             /\ pc'[k] = "usage" => <<k, "cv_parsing">> \in paid'
             /\ pc'[k] \in {"lookup", "match"} => <<k, "cv_parsing">> \in metered'
             /\ pc'[k] \in {"mail", "done"} => Accounted(k)'
  <2>1. CASE k = j
    BY <1>1, <2>1 DEF Working
  <2>2. CASE k # j
    <3>1. pc'[k] = pc[k] /\ run'[k] = run[k]
      BY <1>1, <2>2
    <3>2. \A op \in Operation : /\ <<k, op>> \in paid' <=> <<k, op>> \in paid
                                /\ <<k, op>> \in metered' <=> <<k, op>> \in metered
      BY <1>2, <2>2
    <3>3. Accounted(k) => Accounted(k)'
      BY <1>3, <3>2 DEF Accounted
    <3> QED BY <1>3, <3>1, <3>2, <3>3 DEF MeterInv
  <2> QED BY <2>1, <2>2
<1> QED BY <1>4 DEF MeterInv

\* A run ends, or moves on where no call was answered.
LEMMA MeterNothingNew ==
  ASSUME TypeOK, MeterInv, NEW j \in Jobs, UNCHANGED <<paid, metered>>,
         app = "unposted" => app' = "unposted",
         \/ Die(j)
         \/ Return(j) /\ Accounted(j)
         \/ /\ pc[j] \in {"none", "scheduled", "loaded", "extract", "parse",
                          "failing", "failWrite"}
            /\ \E place \in {"scheduled", "loaded", "extract", "parse", "enrich",
                             "failing", "failWrite"} : pc' = [pc EXCEPT ![j] = place]
            /\ \A k \in Jobs \ {j} : run'[k] = run[k]
  PROVE  MeterInv'
<1>1. run \in [Jobs -> Memory]
  BY TypeOKParts DEF TaskTypes
<1>2. PICK place \in {"mail", "done", "dead", "scheduled", "loaded", "extract", "parse",
                      "enrich", "failing", "failWrite"} :
        /\ pc' = [pc EXCEPT ![j] = place]
        /\ \A k \in Jobs \ {j} : run'[k] = run[k]
        /\ place \in {"mail", "done"} => Accounted(j)
        /\ place \notin {"mail", "done", "dead"} =>
             pc[j] \in {"none", "scheduled", "loaded", "extract", "parse",
                        "failing", "failWrite"}
  <2>1. CASE Die(j)
    BY <1>1, <2>1 DEF Die, Leave, Goto
  <2>2. CASE Return(j) /\ Accounted(j)
    BY <1>1, <2>2 DEF Return, Leave, Goto
  <2> QED BY <2>1, <2>2
<1>3. place \in Place /\ place # "none"
  BY DEF Place, Working, Ended
<1>4. place \notin {"mail", "done", "dead"} =>
        <<j, "cv_parsing">> \notin paid /\ <<j, "job_matching">> \notin paid
  BY <1>2 DEF MeterInv
<1>5. /\ paid' = paid \cup {<<j, op>> : op \in {}}
      /\ metered' = metered \cup {<<j, op>> : op \in {}}
      /\ {} \in SUBSET Operation /\ metered' \subseteq paid'
  BY DEF MeterInv
<1>6. /\ place \in Working \ {"mail"} => <<j, "job_matching">> \notin paid'
      /\ place \in {"none", "scheduled", "loaded", "extract", "parse", "enrich",
                    "failing", "failWrite"} => <<j, "cv_parsing">> \notin paid'
      /\ place \notin {"upsert", "usage", "lookup", "match"}
      /\ place \in {"mail", "done"} => Accounted(j)'
  BY <1>2, <1>4 DEF Working, Accounted
<1> QED BY <1>2, <1>3, <1>5, <1>6, MeterByRun

LEMMA MeterRun ==
  ASSUME TypeOK, MeterInv, NEW j \in Jobs, RunStep(j)
  PROVE  MeterInv'
<1>0. /\ pc \in [Jobs -> Place] /\ run \in [Jobs -> Memory]
      /\ {"cv_parsing", "job_matching"} = Operation
  BY TypeOKParts DEF TaskTypes, Operation
<1>p. {"upsert", "usage", "lookup", "match", "done"} \subseteq Place
  BY DEF Place, Working, Ended
<1>a. app' = app
  BY DEF RunStep, RunLoad, RunMarkExtracting, RunExtract, RunParse, RunEnriched,
         RunComplete, RunLogUsage, RunMatchLookup, RunMatched, HandlerRead,
         HandlerWrite, SendConfirmation, FailInTransaction, FailOutsideTransaction,
         rowVars
<1>b. <<j, "cv_parsing">> \notin paid /\ <<j, "job_matching">> \notin paid => Accounted(j)
  BY DEF Accounted
<1>1. CASE RunLoad(j)
  BY <1>0, <1>1, <1>a, <1>b, MeterNothingNew DEF RunLoad, Here, Goto, rowVars, MeterInv
<1>2. CASE RunMarkExtracting(j)
  BY <1>0, <1>2, <1>a, MeterNothingNew DEF RunMarkExtracting, Here, Goto
<1>3. CASE RunExtract(j)
  BY <1>0, <1>3, <1>a, MeterNothingNew
     DEF RunExtract, Here, Goto, FailOutsideTransaction, FailInTransaction, rowVars
<1>4. CASE RunParse(j)
  BY <1>0, <1>4, <1>a, MeterNothingNew DEF RunParse, Here, Goto, FailOutsideTransaction, rowVars
<1>5. CASE RunEnriched(j)
  <2>1. CASE FailInTransaction(j)
    BY <2>1, <1>a, MeterNothingNew DEF FailInTransaction, rowVars
  <2>2. CASE ~ FailInTransaction(j)
    <3>1. PICK c \in Content \cup {NoContent} :
            /\ pc' = [pc EXCEPT ![j] = "upsert"]
            /\ run' = [run EXCEPT ![j].content = c, ![j].seen = profile]
            /\ paid' = IF c = NoContent THEN paid ELSE paid \cup {<<j, "cv_parsing">>}
      BY <1>5, <2>2 DEF RunEnriched, Goto
    <3>2. /\ run'[j].content = c /\ metered' = metered
          /\ pc' = [pc EXCEPT ![j] = "upsert"]
          /\ \A k \in Jobs \ {j} : run'[k] = run[k]
      BY <1>0, <1>5, <2>2, <3>1 DEF RunEnriched, rowVars, Memory
    <3>3. <<j, "cv_parsing">> \notin paid /\ <<j, "job_matching">> \notin paid
      BY <1>5 DEF RunEnriched, Here, MeterInv
    <3>4. metered' = metered \cup {<<j, op>> : op \in {}} /\ metered' \subseteq paid'
      BY <3>1, <3>2 DEF MeterInv
    <3>5. CASE c = NoContent
      <4>1. paid' = paid \cup {<<j, op>> : op \in {}}
        BY <3>1, <3>5
      <4>2. <<j, "cv_parsing">> \notin paid' /\ <<j, "job_matching">> \notin paid'
        BY <3>1, <3>3, <3>5
      <4>3. {} \in SUBSET Operation
        OBVIOUS
      <4> QED BY <1>p, <3>2, <3>4, <3>5, <4>1, <4>2, <4>3, <1>a, MeterByRun
    <3>6. CASE c # NoContent
      <4>1. /\ paid' = paid \cup {<<j, op>> : op \in {"cv_parsing"}}
            /\ {"cv_parsing"} \in SUBSET Operation
        BY <1>0, <3>1, <3>6
      <4>2. <<j, "cv_parsing">> \in paid' /\ <<j, "job_matching">> \notin paid'
        BY <3>1, <3>3, <3>6
      <4>3. {} \in SUBSET Operation
        OBVIOUS
      <4> QED BY <1>p, <3>2, <3>4, <3>6, <4>1, <4>2, <4>3, <1>a, MeterByRun
    <3> QED BY <3>5, <3>6
  <2> QED BY <2>1, <2>2
<1>6. CASE RunComplete(j)
  <2>1. CASE FailInTransaction(j)
    BY <2>1, <1>a, MeterNothingNew DEF FailInTransaction, rowVars
  <2>2. CASE ~ FailInTransaction(j)
    <3>1. UNCHANGED <<paid, metered>> /\ <<j, "job_matching">> \notin paid
          /\ (<<j, "cv_parsing">> \in paid <=> run[j].content # NoContent)
      BY <1>6, <2>2 DEF RunComplete, Here, MeterInv, Working
    <3>2. CASE run[j].content = NoContent
      BY <1>0, <1>6, <2>2, <3>1, <3>2, <1>a, <1>b, MeterNothingNew DEF RunComplete
    <3>3. CASE run[j].content # NoContent
      <4>1. /\ pc' = [pc EXCEPT ![j] = "usage"]
            /\ \A k \in Jobs \ {j} : run'[k] = run[k]
        BY <1>0, <1>6, <2>2, <3>3 DEF RunComplete, Goto
      <4>2. /\ paid' = paid \cup {<<j, op>> : op \in {}}
            /\ metered' = metered \cup {<<j, op>> : op \in {}}
            /\ {} \in SUBSET Operation /\ metered' \subseteq paid'
        BY <3>1 DEF MeterInv
      <4> QED BY <1>p, <3>1, <3>3, <4>1, <4>2, <1>a, MeterByRun
    <3> QED BY <3>2, <3>3
  <2> QED BY <2>1, <2>2
<1>7. CASE RunLogUsage(j)
  <2>0. <<j, "job_matching">> \notin paid /\ <<j, "cv_parsing">> \in paid
    BY <1>7 DEF RunLogUsage, Here, MeterInv, Working
  <2>1. CASE FailInTransaction(j)
    BY <2>1, <1>a, MeterNothingNew DEF FailInTransaction, rowVars
  <2>2. CASE app = "unposted" /\ Return(j) /\ UNCHANGED <<rowVars, paid>>
    BY <2>0, <2>2, <1>a, MeterNothingNew DEF Accounted, rowVars
  <2>3. CASE /\ metered' = metered \cup {<<j, "cv_parsing">>} /\ UNCHANGED paid
             /\ IF run[j].optIn THEN Goto(j, "lookup") /\ UNCHANGED run ELSE Return(j)
    <3>2. PICK place \in {"lookup", "mail", "done"} :
            /\ pc' = [pc EXCEPT ![j] = place]
            /\ \A k \in Jobs \ {j} : run'[k] = run[k]
      BY <1>0, <2>3 DEF Return, Leave, Goto
    <3>3. /\ paid' = paid \cup {<<j, op>> : op \in {}}
          /\ metered' = metered \cup {<<j, op>> : op \in {"cv_parsing"}}
          /\ {} \in SUBSET Operation /\ {"cv_parsing"} \in SUBSET Operation
          /\ metered' \subseteq paid'
      BY <1>0, <2>0, <2>3 DEF MeterInv
    <3>4. <<j, "cv_parsing">> \in metered' /\ <<j, "job_matching">> \notin paid'
      BY <2>0, <2>3
    <3>5. place \in Place /\ Accounted(j)'
      BY <3>2, <3>4 DEF Place, Working, Ended, Accounted
    <3> QED BY <3>2, <3>3, <3>4, <3>5, <1>a, MeterByRun
  <2> QED BY <1>7, <2>1, <2>2, <2>3 DEF RunLogUsage
<1>8. CASE RunMatchLookup(j)
  <2>1. UNCHANGED <<paid, metered>> /\ <<j, "job_matching">> \notin paid
        /\ <<j, "cv_parsing">> \in metered /\ Accounted(j)
    BY <1>8 DEF RunMatchLookup, Here, MeterInv, Working, rowVars, Accounted
  <2>2. CASE Return(j)
    BY <1>0, <2>1, <2>2, <1>a, MeterNothingNew
  <2>3. CASE Goto(j, "match") /\ UNCHANGED run
    <3>1. /\ paid' = paid \cup {<<j, op>> : op \in {}}
          /\ metered' = metered \cup {<<j, op>> : op \in {}}
          /\ {} \in SUBSET Operation /\ metered' \subseteq paid'
      BY <2>1 DEF MeterInv
    <3> QED BY <1>p, <2>1, <2>3, <3>1, <1>a, MeterByRun DEF Goto
  <2> QED BY <1>8, <2>2, <2>3 DEF RunMatchLookup
<1>9. CASE RunMatched(j)
  <2>1. CASE FailInTransaction(j)
    BY <2>1, <1>a, MeterNothingNew DEF FailInTransaction, rowVars
  <2>2. CASE ~ FailInTransaction(j)
    <3>1. <<j, "job_matching">> \notin paid
          /\ <<j, "cv_parsing">> \in metered
      BY <1>9 DEF RunMatched, Here, MeterInv, Working
    <3>2. PICK s \in MatchOutcome :
            LET calls == IF s = "completed" THEN {<<j, "job_matching">>} ELSE {}
            IN  /\ paid' = paid \cup calls
                /\ \/ Die(j) /\ UNCHANGED metered
                   \/ Return(j) /\ metered' = metered \cup calls
      BY <1>9, <2>2 DEF RunMatched
    <3>3. PICK new \in SUBSET {"job_matching"} :
            /\ paid' = paid \cup {<<j, op>> : op \in new}
            /\ \/ Die(j) /\ UNCHANGED metered
               \/ Return(j) /\ metered' = metered \cup {<<j, op>> : op \in new}
      <4>1. CASE s = "completed"
        <5>1. {<<j, op>> : op \in {"job_matching"}} = {<<j, "job_matching">>}
          OBVIOUS
        <5> QED BY <3>2, <4>1, <5>1
      <4>2. CASE s # "completed"
        <5>1. {<<j, op>> : op \in {}} = {}
          OBVIOUS
        <5> QED BY <3>2, <4>2, <5>1
      <4> QED BY <4>1, <4>2
    <3>4. PICK place \in {"dead", "mail", "done"}, row \in SUBSET {"job_matching"} :
            /\ pc' = [pc EXCEPT ![j] = place]
            /\ \A k \in Jobs \ {j} : run'[k] = run[k]
            /\ metered' = metered \cup {<<j, op>> : op \in row}
            /\ row \subseteq new
            /\ place # "dead" => row = new
      <4>1. CASE Die(j) /\ UNCHANGED metered
        <5>1. /\ metered' = metered \cup {<<j, op>> : op \in {}}
              /\ pc' = [pc EXCEPT ![j] = "dead"]
              /\ \A k \in Jobs \ {j} : run'[k] = run[k]
          BY <1>0, <4>1 DEF Die, Leave, Goto
        <5> QED BY <5>1
      <4>2. CASE Return(j) /\ metered' = metered \cup {<<j, op>> : op \in new}
        <5>1. PICK place \in {"mail", "done"} :
                /\ pc' = [pc EXCEPT ![j] = place]
                /\ \A k \in Jobs \ {j} : run'[k] = run[k]
          BY <1>0, <4>2 DEF Return, Leave, Goto
        <5> QED BY <4>2, <5>1
      <4> QED BY <3>3, <4>1, <4>2
    <3>5. /\ new \in SUBSET Operation /\ row \in SUBSET Operation
          /\ metered' \subseteq paid' /\ place \in Place
      BY <1>0, <3>3, <3>4 DEF MeterInv, Place, Working, Ended
    <3>6. place \in {"mail", "done"} => Accounted(j)'
      BY <1>0, <3>1, <3>3, <3>4 DEF Accounted
    <3>7. place \notin Working \ {"mail"}
      BY <3>4 DEF Working
    <3> QED BY <3>3, <3>4, <3>5, <3>6, <3>7, <1>a, MeterByRun
  <2> QED BY <2>1, <2>2
<1>10. CASE HandlerRead(j)
  BY <1>0, <1>10, <1>a, MeterNothingNew DEF HandlerRead, Here, Goto, rowVars
<1>11. CASE HandlerWrite(j)
  <2>1. UNCHANGED <<paid, metered>>
        /\ <<j, "cv_parsing">> \notin paid /\ <<j, "job_matching">> \notin paid
    BY <1>11 DEF HandlerWrite, Here, MeterInv
  <2>2. Die(j) \/ Return(j)
    BY <1>11 DEF HandlerWrite
  <2> QED BY <1>0, <1>b, <2>1, <2>2, <1>a, MeterNothingNew
<1>12. CASE SendConfirmation(j)
  <2>1. /\ UNCHANGED <<paid, metered, run>> /\ pc' = [pc EXCEPT ![j] = "done"]
        /\ Accounted(j)
    BY <1>12 DEF SendConfirmation, Here, MeterInv, Goto, rowVars
  <2>2. /\ paid' = paid \cup {<<j, op>> : op \in {}}
        /\ metered' = metered \cup {<<j, op>> : op \in {}}
        /\ {} \in SUBSET Operation /\ metered' \subseteq paid' /\ "done" \notin Working
    BY <2>1 DEF MeterInv, Working
  <2>3. Accounted(j)'
    BY <1>a, <2>1 DEF Accounted
  <2> QED BY <1>p, <2>1, <2>2, <2>3, <1>a, MeterByRun
<1> QED
  BY <1>1, <1>2, <1>3, <1>4, <1>5, <1>6, <1>7, <1>8, <1>9, <1>10, <1>11, <1>12 DEF RunStep

LEMMA MeterStep == TypeOK /\ MeterInv /\ [Next]_vars => MeterInv'
<1> SUFFICES ASSUME TypeOK, MeterInv, [Next]_vars PROVE MeterInv'
  OBVIOUS
<1>1. CASE UNCHANGED <<paid, metered, pc, run>> /\ (app = "unposted" => app' = "unposted")
  BY <1>1 DEF MeterInv, Accounted
<1>2. ASSUME NEW j \in Jobs, SubmitApplication(j) \/ RetryCommit(j) PROVE MeterInv'
  <2>1. UNCHANGED <<paid, metered, run>> /\ pc[j] = "none"
        /\ pc' = [pc EXCEPT ![j] = "scheduled"] /\ app # "unposted"
    BY <1>2 DEF SubmitApplication, RetryCommit, Queue, Exists
  <2> QED BY <2>1, MeterNothingNew
<1>3. ASSUME NEW w \in Workers, WorkerCrash(w) PROVE MeterInv'
  <2>1. /\ \A j \in Jobs : pc'[j] = "lost" \/ (pc'[j] = pc[j] /\ run'[j] = run[j])
        /\ UNCHANGED <<paid, metered, app>>
    BY <1>3 DEF WorkerCrash, rowVars
  <2> QED BY <2>1 DEF MeterInv, Accounted, Working
<1>4. ASSUME NEW w \in Workers, Lifespan(w) PROVE MeterInv'
  BY <1>1, <1>4 DEF Lifespan, taskVars
<1>5. CASE RetryRead \/ RetryAbort \/ SetAiProfilingConsent \/ AnonymizeDeleteFile
           \/ AnonymizeCommit \/ AnonymizeAbort \/ DeleteApplicationData \/ DeleteJob
           \/ UNCHANGED vars
  BY <1>1, <1>5 DEF RetryRead, RetryAbort, SetAiProfilingConsent, AnonymizeDeleteFile,
                    AnonymizeCommit, AnonymizeAbort, DeleteApplicationData, DeleteJob, vars,
                    Exists, rowVars, taskVars
<1> QED
  BY <1>2, <1>3, <1>4, <1>5, MeterRun DEF Next, Request

\* A run that returned has a usage row for every call that answered it, but for
\* the CV call of a run whose posting was deleted, and no call that was not
\* answered has one.
THEOREM CleanRunsAreMetered == Spec => []CleanRunIsMetered
<1>1. Init => MeterInv
  BY DEF Init, MeterInv, Working
<1>2. MeterInv => CleanRunIsMetered
  BY DEF MeterInv, Accounted, CleanRunIsMetered
<1> QED BY TypeOKInit, TypeOKStep, <1>1, <1>2, MeterStep, PTL DEF Spec

-----------------------------------------------------------------------------
(* Erasure.                                                                *)

\* The places a run is at once it has written a profile, and others.
Wrote    == {"usage", "lookup", "match", "mail", "done", "dead", "lost"}
Matching == {"usage", "lookup", "match"}

\* An id of a profile is that of a run that has written it, so no other run
\* inserts a profile with that id.
ProfileIds ==
  /\ profile.id = NoId => profile = NoProfile
  /\ profile.id \in Jobs => pc[profile.id] \in Wrote
  /\ \A j \in Jobs :
       /\ run[j].seen.id = NoId => run[j].seen = NoProfile
       /\ run[j].seen.id \in Jobs => pc[run[j].seen.id] \in Wrote
       /\ pc[j] \in Matching => run[j].seen.id \in Jobs

\* A step of j that leaves the profile alone, or writes it as j's own or under
\* the id it has, and keeps or reads it.
LEMMA ProfileIdsByRun ==
  ASSUME TypeOK, ProfileIds, NEW j \in Jobs, NEW place,
         pc' = [pc EXCEPT ![j] = place],
         pc[j] \in Wrote => place \in Wrote,
         \/ profile' = profile
         \/ profile' \in ProfileRow /\ profile'.id = j /\ place \in Wrote
         \/ profile' \in ProfileRow /\ profile'.id = profile.id /\ profile.id # NoId,
         \A k \in Jobs \ {j} : run'[k] = run[k],
         \/ run'[j].seen = run[j].seen
         \/ run'[j].seen = NoProfile
         \/ run'[j].seen = profile',
         place \in Matching => run'[j].seen.id \in Jobs
  PROVE  ProfileIds'
<1>1. /\ pc \in [Jobs -> Place] /\ profile \in ProfileRow
      /\ \A k \in Jobs : run[k].seen \in ProfileRow
  BY TypeOKParts DEF TaskTypes, RowTypes, Memory
<1>2. pc'[j] = place /\ \A k \in Jobs \ {j} : pc'[k] = pc[k]
  BY <1>1
<1>3. \A i \in Jobs : pc[i] \in Wrote => pc'[i] \in Wrote
  BY <1>2
<1>4. NoProfile.id = NoId /\ NoId \notin Jobs
  BY CvParsingAssumption DEF NoProfile, Profile
<1>5. /\ profile'.id = NoId => profile' = NoProfile
      /\ profile'.id \in Jobs => pc'[profile'.id] \in Wrote
  <2>1. CASE profile' = profile
    BY <1>3, <2>1 DEF ProfileIds
  <2>2. CASE profile'.id = j /\ place \in Wrote
    BY <1>2, <1>4, <2>2
  <2>3. CASE profile'.id = profile.id /\ profile.id # NoId
    BY <1>3, <2>3 DEF ProfileIds
  <2> QED BY <2>1, <2>2, <2>3
<1>6. ASSUME NEW k \in Jobs
      PROVE  /\ run'[k].seen.id = NoId => run'[k].seen = NoProfile
             /\ run'[k].seen.id \in Jobs => pc'[run'[k].seen.id] \in Wrote
             /\ pc'[k] \in Matching => run'[k].seen.id \in Jobs
  <2>1. CASE k # j
    BY <1>2, <1>3, <2>1 DEF ProfileIds
  <2>2. CASE k = j
    <3>1. pc'[k] \in Matching => run'[k].seen.id \in Jobs
      BY <1>2, <2>2
    <3>2. CASE run'[j].seen = run[j].seen
      BY <1>3, <2>2, <3>1, <3>2 DEF ProfileIds
    <3>3. CASE run'[j].seen = NoProfile
      BY <1>4, <2>2, <3>1, <3>3
    <3>4. CASE run'[j].seen = profile'
      BY <1>5, <2>2, <3>1, <3>4
    <3> QED BY <3>2, <3>3, <3>4
  <2> QED BY <2>1, <2>2
<1> QED BY <1>5, <1>6 DEF ProfileIds

\* An upsert that does not fail inserts under the id of its run, or keeps the
\* id that the row has.
LEMMA UpsertId ==
  ASSUME TypeOK, ProfileIds, NEW j \in Jobs, ~UpsertFails(run[j].seen),
         NEW status \in {"completed", "failed"}, NEW content
  PROVE  LET new == Upsert(j, status, content)
         IN  IF profile.id = NoId THEN new.id = j ELSE new.id = profile.id
<1>1. profile.id = run[j].seen.id
  BY DEF UpsertFails
<1>2. CASE profile.id = NoId
  <2>1. run[j].seen = NoProfile /\ run[j].seen.id = NoId /\ j # NoId
    BY <1>1, <1>2, CvParsingAssumption DEF ProfileIds
  <2> QED BY <1>2, <2>1 DEF Upsert, Profile
<1>3. CASE profile.id # NoId
  <2>1. run[j].seen # NoProfile
    BY <1>1, <1>3 DEF NoProfile, Profile
  <2> QED BY <1>1, <1>3, <2>1 DEF Upsert, Profile
<1> QED BY <1>2, <1>3

LEMMA ProfileIdsRun ==
  ASSUME TypeOK, ProfileIds, NEW j \in Jobs, RunStep(j)
  PROVE  ProfileIds'
<1>0. /\ pc \in [Jobs -> Place] /\ run \in [Jobs -> Memory] /\ profile \in ProfileRow
      /\ \A k \in Jobs : run[k].seen \in ProfileRow
  BY TypeOKParts DEF TaskTypes, RowTypes, Memory
<1>1. ASSUME NEW place \in {"mail", "done", "dead"}, Leave(j, place), UNCHANGED profile
      PROVE  ProfileIds'
  <2>1. /\ run'[j].seen = NoProfile /\ \A k \in Jobs \ {j} : run'[k] = run[k]
        /\ pc' = [pc EXCEPT ![j] = place] /\ place \in Wrote /\ place \notin Matching
    BY <1>0, <1>1 DEF Leave, Goto, NoMemory, Wrote, Matching
  <2> QED BY <1>1, <2>1, ProfileIdsByRun
<1>2. ASSUME Return(j) \/ Die(j), UNCHANGED profile PROVE ProfileIds'
  BY <1>1, <1>2 DEF Return, Die
<1>3. ASSUME FailInTransaction(j) PROVE ProfileIds'
  BY <1>2, <1>3 DEF FailInTransaction, rowVars
<1>4. ASSUME NEW place, Goto(j, place), UNCHANGED profile,
             \A k \in Jobs \ {j} : run'[k] = run[k],
             run'[j].seen = run[j].seen \/ run'[j].seen = profile,
             \/ pc[j] \notin Wrote /\ place \notin Matching
             \/ pc[j] \in Matching /\ place \in Matching /\ run' = run
             \/ place = "done"
      PROVE  ProfileIds'
  <2>1. /\ pc' = [pc EXCEPT ![j] = place]
        /\ pc[j] \in Wrote => place \in Wrote
        /\ place \in Matching => run'[j].seen.id \in Jobs
    BY <1>4 DEF Goto, Wrote, Matching, ProfileIds
  <2> QED BY <1>4, <2>1, ProfileIdsByRun
<1>5. CASE RunLoad(j)
  <2>1. CASE Return(j)
    BY <1>2, <1>5, <2>1 DEF RunLoad, rowVars
  <2>2. CASE ~Return(j)
    <3>1. /\ run' = [run EXCEPT ![j].optIn = consent = "granted"]
          /\ Goto(j, "loaded") /\ UNCHANGED profile /\ pc[j] = "scheduled"
      BY <1>5, <2>2 DEF RunLoad, rowVars, Here
    <3>2. run'[j].seen = run[j].seen /\ \A k \in Jobs \ {j} : run'[k] = run[k]
      BY <1>0, <3>1 DEF Memory
    <3> QED BY <1>4, <3>1, <3>2 DEF Wrote, Matching
  <2> QED BY <2>1, <2>2
<1>6. CASE RunMarkExtracting(j)
  BY <1>2, <1>4, <1>6 DEF RunMarkExtracting, Here, Wrote, Matching
<1>7. CASE RunExtract(j) \/ RunParse(j)
  BY <1>3, <1>4, <1>7 DEF RunExtract, RunParse, FailOutsideTransaction, Here, Wrote,
                          Matching, rowVars
<1>8. CASE RunEnriched(j)
  <2>1. CASE FailInTransaction(j)
    BY <1>3, <2>1
  <2>2. CASE ~FailInTransaction(j)
    <3>1. PICK c \in Content \cup {NoContent} :
            /\ Goto(j, "upsert") /\ UNCHANGED profile /\ pc[j] = "enrich"
            /\ run' = [run EXCEPT ![j].content = c, ![j].seen = profile]
      BY <1>8, <2>2 DEF RunEnriched, rowVars, Here
    <3>2. run'[j].seen = profile /\ \A k \in Jobs \ {j} : run'[k] = run[k]
      BY <1>0, <3>1 DEF Memory
    <3> QED BY <1>4, <3>1, <3>2 DEF Wrote, Matching
  <2> QED BY <2>1, <2>2
<1>9. CASE RunComplete(j)
  <2>1. CASE FailInTransaction(j)
    BY <1>3, <2>1
  <2>2. CASE ~FailInTransaction(j)
    <3>1. /\ profile' = Upsert(j, "completed", run[j].content)
          /\ ~UpsertFails(run[j].seen) /\ pc[j] = "upsert"
          /\ IF run[j].content = NoContent THEN Return(j)
             ELSE Goto(j, "usage") /\ run' = [run EXCEPT ![j].seen = profile']
      BY <1>9, <2>2 DEF RunComplete, Here
    <3>2. profile' \in ProfileRow /\ run[j].content \in Content \cup {NoContent}
      BY <1>0, <3>1, UpsertType DEF Memory
    <3>3. IF profile.id = NoId THEN profile'.id = j ELSE profile'.id = profile.id
      BY <3>1, UpsertId
    <3>4. profile'.id \in Jobs
      BY <1>0, <3>3 DEF ProfileRow
    <3>5. PICK place \in {"usage", "mail", "done"} :
            /\ pc' = [pc EXCEPT ![j] = place]
            /\ \A k \in Jobs \ {j} : run'[k] = run[k]
            /\ \/ run'[j].seen = profile'
               \/ run'[j].seen = NoProfile /\ place # "usage"
      BY <1>0, <3>1 DEF Return, Leave, Goto, NoMemory, Memory
    <3>6. place \in Wrote /\ (place \in Matching => run'[j].seen.id \in Jobs)
      BY <3>4, <3>5 DEF Wrote, Matching
    <3> QED BY <3>2, <3>3, <3>5, <3>6, ProfileIdsByRun
  <2> QED BY <2>1, <2>2
<1>10. CASE RunLogUsage(j)
  <2>1. CASE Return(j) /\ UNCHANGED profile
    BY <1>2, <2>1
  <2>2. CASE FailInTransaction(j)
    BY <1>3, <2>2
  <2>3. CASE Goto(j, "lookup") /\ UNCHANGED <<run, profile>> /\ pc[j] = "usage"
    BY <1>4, <2>3 DEF Matching
  <2> QED BY <1>10, <2>1, <2>2, <2>3 DEF RunLogUsage, rowVars, Here
<1>11. CASE RunMatchLookup(j)
  <2>1. CASE Return(j) /\ UNCHANGED profile
    BY <1>2, <2>1
  <2>2. CASE Goto(j, "match") /\ UNCHANGED <<run, profile>> /\ pc[j] = "lookup"
    BY <1>4, <2>2 DEF Matching
  <2> QED BY <1>11, <2>1, <2>2 DEF RunMatchLookup, Here, rowVars
<1>12. CASE RunMatched(j)
  BY <1>2, <1>3, <1>12 DEF RunMatched
<1>13. CASE HandlerRead(j)
  <2>1. /\ Goto(j, "failWrite") /\ UNCHANGED profile /\ pc[j] = "failing"
        /\ run'[j].seen = profile /\ \A k \in Jobs \ {j} : run'[k] = run[k]
    BY <1>0, <1>13 DEF HandlerRead, Here, rowVars, Memory
  <2> QED BY <1>4, <2>1 DEF Wrote, Matching
<1>14. CASE HandlerWrite(j)
  <2>1. CASE Die(j) /\ UNCHANGED profile
    BY <1>2, <2>1
  <2>2. CASE ~(Die(j) /\ UNCHANGED profile)
    <3>1. /\ profile' = Upsert(j, "failed", NoContent) /\ Return(j)
          /\ ~UpsertFails(run[j].seen) /\ pc[j] = "failWrite"
      BY <1>14, <2>2 DEF HandlerWrite, Here
    <3>2. profile' \in ProfileRow
      BY <3>1, UpsertType
    <3>3. IF profile.id = NoId THEN profile'.id = j ELSE profile'.id = profile.id
      BY <3>1, UpsertId
    <3>4. PICK place \in {"mail", "done"} :
            /\ pc' = [pc EXCEPT ![j] = place]
            /\ \A k \in Jobs \ {j} : run'[k] = run[k]
            /\ run'[j].seen = NoProfile
      BY <1>0, <3>1 DEF Return, Leave, Goto, NoMemory
    <3>5. place \in Wrote /\ place \notin Matching
      BY <3>4 DEF Wrote, Matching
    <3> QED BY <3>2, <3>3, <3>4, <3>5, ProfileIdsByRun
  <2> QED BY <2>1, <2>2
<1>15. CASE SendConfirmation(j)
  BY <1>4, <1>15 DEF SendConfirmation, rowVars
<1> QED
  BY <1>5, <1>6, <1>7, <1>8, <1>9, <1>10, <1>11, <1>12, <1>13, <1>14, <1>15 DEF RunStep

\* No run writes a profile, and a task that goes elsewhere begins or is lost.
LEMMA ProfileIdsStays ==
  ASSUME TypeOK, ProfileIds, profile' \in {profile, NoProfile},
         \A j \in Jobs :
           /\ pc[j] \in Wrote => pc'[j] \in Wrote
           /\ pc'[j] \in Matching => pc[j] \in Matching /\ run'[j].seen = run[j].seen
           /\ run'[j].seen \in {run[j].seen, NoProfile}
  PROVE  ProfileIds'
<1>1. NoProfile.id = NoId /\ NoId \notin Jobs
  BY CvParsingAssumption DEF NoProfile, Profile
<1> QED BY <1>1 DEF ProfileIds

LEMMA ProfileIdsStep == TypeOK /\ ProfileIds /\ [Next]_vars => ProfileIds'
<1> SUFFICES ASSUME TypeOK, ProfileIds, [Next]_vars PROVE ProfileIds'
  OBVIOUS
<1>0. pc \in [Jobs -> Place]
  BY TypeOKParts DEF TaskTypes
<1>1. CASE UNCHANGED <<pc, run>> /\ profile' \in {profile, NoProfile}
  BY <1>1, ProfileIdsStays
<1>2. ASSUME NEW j \in Jobs, SubmitApplication(j) \/ RetryCommit(j) PROVE ProfileIds'
  <2>1. UNCHANGED <<run, profile>> /\ pc[j] = "none"
        /\ pc' = [pc EXCEPT ![j] = "scheduled"]
    BY <1>2 DEF SubmitApplication, RetryCommit, Queue
  <2> QED BY <1>0, <2>1, ProfileIdsStays DEF Wrote, Matching
<1>3. ASSUME NEW w \in Workers, WorkerCrash(w) PROVE ProfileIds'
  <2>1. /\ \A j \in Jobs : \/ pc'[j] = "lost" /\ run'[j] = NoMemory
                           \/ pc'[j] = pc[j] /\ run'[j] = run[j]
        /\ UNCHANGED profile
    BY <1>3 DEF WorkerCrash, rowVars
  <2> QED BY <2>1, ProfileIdsStays DEF Wrote, Matching, NoMemory
<1>4. ASSUME NEW w \in Workers, Lifespan(w) PROVE ProfileIds'
  BY <1>1, <1>4 DEF Lifespan, taskVars
<1>5. CASE AnonymizeCommit \/ DeleteApplicationData \/ DeleteJob
  BY <1>1, <1>5 DEF AnonymizeCommit, DeleteApplicationData, DeleteJob, taskVars
<1>6. CASE RetryRead \/ RetryAbort \/ SetAiProfilingConsent \/ AnonymizeDeleteFile
           \/ AnonymizeAbort \/ UNCHANGED vars
  BY <1>1, <1>6 DEF RetryRead, RetryAbort, SetAiProfilingConsent, AnonymizeDeleteFile,
                    AnonymizeAbort, vars, rowVars, taskVars
<1> QED
  BY <1>2, <1>3, <1>4, <1>5, <1>6, ProfileIdsRun DEF Next, Request

\* The places a run gets to only with a row: after the text of the file was
\* stored.  Nothing of an anonymized application has one.
Reading == {"parse", "enrich", "upsert", "usage", "lookup", "match"}

\* The file goes before the application is anonymized, and comes with its url.
FileGoesFirst ==
  /\ app = "none" => ~erasing
  /\ app = "live" => cvUrl /\ (erasing => ~cvFile)
  /\ app = "anonymized" => ~cvFile /\ ~cvUrl

\* A run that is past its file has lost its row, and one that is to match has
\* lost its profile: another has another id.
JobHoldsNothing(j) ==
  /\ ~job[j].rawText /\ match[j] = NoMatch
  /\ pc[j] \in Reading => job[j].status = "absent"
  /\ pc[j] \in Matching => run[j].seen.id # profile.id

ErasureInv ==
  /\ FileGoesFirst
  /\ app = "anonymized" =>
       /\ profile.status # "completed"
       /\ \A j \in Jobs : JobHoldsNothing(j)

LEMMA ErasedIsEmpty ==
  ASSUME ProfileIds, UNCHANGED <<pc, run>>, job' = [j \in Jobs |-> Row("absent")],
         profile' = NoProfile, match' = [j \in Jobs |-> NoMatch]
  PROVE  profile'.status # "completed" /\ \A j \in Jobs : JobHoldsNothing(j)'
<1>1. \A j \in Jobs : pc[j] \in Matching => run[j].seen.id # NoId
  BY CvParsingAssumption DEF ProfileIds
<1> QED BY <1>1 DEF JobHoldsNothing, NoProfile, Profile, Row

\* A step of j that writes no profile and no match, and does not go past its
\* file if it was before it.
LEMMA NothingComesBack ==
  ASSUME TypeOK, ErasureInv, app = "anonymized", NEW j \in Jobs, NEW place,
         UNCHANGED <<profile, match>>, pc' = [pc EXCEPT ![j] = place],
         \A k \in Jobs \ {j} : job'[k] = job[k] /\ run'[k] = run[k],
         ~job'[j].rawText,
         place \in Reading => job'[j].status = "absent",
         place \in Matching => run'[j].seen.id # profile.id
  PROVE  profile'.status # "completed" /\ \A k \in Jobs : JobHoldsNothing(k)'
<1>1. pc'[j] = place /\ \A k \in Jobs \ {j} : pc'[k] = pc[k]
  BY TypeOKParts DEF TaskTypes
<1>2. ASSUME NEW k \in Jobs PROVE JobHoldsNothing(k)'
  <2>1. JobHoldsNothing(k)
    BY DEF ErasureInv
  <2>2. CASE k = j
    BY <1>1, <2>1, <2>2 DEF JobHoldsNothing
  <2>3. CASE k # j
    BY <1>1, <2>1, <2>3 DEF JobHoldsNothing
  <2> QED BY <2>2, <2>3
<1> QED BY <1>2 DEF ErasureInv

\* A run of an anonymized application, old or new, writes nothing but the
\* failure of its job.
LEMMA AnonymizedRun ==
  ASSUME TypeOK, ProfileIds, ErasureInv, app = "anonymized", NEW j \in Jobs, RunStep(j)
  PROVE  profile'.status # "completed" /\ \A k \in Jobs : JobHoldsNothing(k)'
<1> DEFINE Goal == profile'.status # "completed" /\ \A k \in Jobs : JobHoldsNothing(k)'
<1>0. /\ pc \in [Jobs -> Place] /\ run \in [Jobs -> Memory] /\ job \in [Jobs -> JobRow]
      /\ JobHoldsNothing(j) /\ ~cvFile
  BY TypeOKParts DEF TaskTypes, RowTypes, ErasureInv, FileGoesFirst
<1>1. ASSUME NEW place \in {"mail", "done", "dead"}, Leave(j, place),
             UNCHANGED <<job, profile, match>>
      PROVE  Goal
  <2>1. /\ \A k \in Jobs \ {j} : run'[k] = run[k]
        /\ pc' = [pc EXCEPT ![j] = place] /\ place \notin Reading /\ place \notin Matching
    BY <1>0, <1>1 DEF Leave, Goto, Reading, Matching
  <2> QED BY <1>0, <1>1, <2>1, NothingComesBack DEF JobHoldsNothing
<1>2. ASSUME Return(j) \/ Die(j), UNCHANGED <<job, profile, match>> PROVE Goal
  BY <1>1, <1>2 DEF Return, Die
<1>3. ASSUME FailInTransaction(j) PROVE Goal
  BY <1>2, <1>3 DEF FailInTransaction, rowVars
<1>4. ASSUME NEW place, Goto(j, place), UNCHANGED <<job, profile, match>>,
             \A k \in Jobs \ {j} : run'[k] = run[k],
             \/ place \notin Reading
             \/ pc[j] \in Reading /\ place \notin Matching
             \/ pc[j] \in Matching /\ run' = run
      PROVE  Goal
  <2>1. pc' = [pc EXCEPT ![j] = place] /\ Matching \subseteq Reading
    BY <1>4 DEF Goto, Matching, Reading
  <2> QED BY <1>0, <1>4, <2>1, NothingComesBack DEF JobHoldsNothing
<1>5. CASE RunLoad(j)
  <2>1. CASE Return(j)
    BY <1>2, <1>5, <2>1 DEF RunLoad, rowVars
  <2>2. CASE ~Return(j)
    <3>1. /\ run' = [run EXCEPT ![j].optIn = consent = "granted"]
          /\ Goto(j, "loaded") /\ UNCHANGED <<job, profile, match>>
      BY <1>5, <2>2 DEF RunLoad, rowVars
    <3>2. \A k \in Jobs \ {j} : run'[k] = run[k]
      BY <1>0, <3>1
    <3> QED BY <1>4, <3>1, <3>2 DEF Reading
  <2> QED BY <2>1, <2>2
<1>6. CASE RunMarkExtracting(j)
  <2>1. CASE Die(j) /\ UNCHANGED job
    BY <1>2, <1>6, <2>1 DEF RunMarkExtracting
  <2>2. CASE ~(Die(j) /\ UNCHANGED job)
    <3>1. /\ pc' = [pc EXCEPT ![j] = "extract"] /\ UNCHANGED <<run, profile, match>>
          /\ job' = [job EXCEPT ![j].status = "extracting"]
      BY <1>6, <2>2 DEF RunMarkExtracting, Goto
    <3>2. ~job'[j].rawText /\ \A k \in Jobs \ {j} : job'[k] = job[k]
      BY <1>0, <3>1 DEF JobHoldsNothing, JobRow
    <3> QED BY <3>1, <3>2, NothingComesBack DEF Reading, Matching
  <2> QED BY <2>1, <2>2
<1>7. CASE RunExtract(j)
  BY <1>0, <1>3, <1>4, <1>7 DEF RunExtract, FailOutsideTransaction, Reading, rowVars
<1>8. CASE RunParse(j)
  BY <1>4, <1>8 DEF RunParse, FailOutsideTransaction, Here, Reading, Matching, rowVars
<1>9. CASE RunEnriched(j)
  <2>1. CASE FailInTransaction(j)
    BY <1>3, <2>1
  <2>2. CASE ~FailInTransaction(j)
    <3>1. PICK c \in Content \cup {NoContent} :
            /\ Goto(j, "upsert") /\ UNCHANGED <<job, profile, match>> /\ pc[j] = "enrich"
            /\ run' = [run EXCEPT ![j].content = c, ![j].seen = profile]
      BY <1>9, <2>2 DEF RunEnriched, rowVars, Here
    <3>2. \A k \in Jobs \ {j} : run'[k] = run[k]
      BY <1>0, <3>1
    <3> QED BY <1>4, <3>1, <3>2 DEF Reading, Matching
  <2> QED BY <2>1, <2>2
<1>10. CASE RunComplete(j)
  <2>1. Gone(j)
    BY <1>0, <1>10 DEF RunComplete, Here, JobHoldsNothing, Reading, Gone
  <2> QED BY <1>3, <1>10, <2>1 DEF RunComplete
<1>11. CASE RunLogUsage(j)
  <2>1. CASE FailInTransaction(j)
    BY <1>3, <2>1
  <2>2. CASE Return(j) /\ UNCHANGED <<job, profile, match>>
    BY <1>2, <2>2
  <2>3. CASE Goto(j, "lookup") /\ UNCHANGED <<run, job, profile, match>> /\ pc[j] = "usage"
    BY <1>4, <2>3 DEF Matching
  <2> QED BY <1>11, <2>1, <2>2, <2>3 DEF RunLogUsage, rowVars, Here
<1>12. CASE RunMatchLookup(j)
  <2>1. CASE Return(j)
    BY <1>2, <1>12, <2>1 DEF RunMatchLookup, rowVars
  <2>2. CASE Goto(j, "match") /\ UNCHANGED run
    BY <1>4, <1>12, <2>2 DEF RunMatchLookup, Here, Matching, rowVars
  <2> QED BY <1>12, <2>1, <2>2 DEF RunMatchLookup
<1>13. CASE RunMatched(j)
  <2>1. MatchInsertFails(j)
    BY <1>0, <1>13 DEF RunMatched, Here, JobHoldsNothing, Matching, MatchInsertFails
  <2> QED BY <1>2, <1>3, <1>13, <2>1 DEF RunMatched
<1>14. CASE HandlerRead(j)
  <2>1. /\ Goto(j, "failWrite") /\ UNCHANGED <<job, profile, match>>
        /\ \A k \in Jobs \ {j} : run'[k] = run[k]
    BY <1>0, <1>14 DEF HandlerRead, rowVars
  <2> QED BY <1>4, <2>1 DEF Reading
<1>15. CASE HandlerWrite(j)
  <2>1. CASE Die(j) /\ UNCHANGED <<job, profile>>
    BY <1>2, <1>15, <2>1 DEF HandlerWrite
  <2>2. CASE ~(Die(j) /\ UNCHANGED <<job, profile>>)
    <3>1. /\ profile' = Upsert(j, "failed", NoContent) /\ Return(j)
          /\ job' = [job EXCEPT ![j] = MarkFailed(@)] /\ UNCHANGED match
          /\ ~UpsertFails(run[j].seen) /\ pc[j] = "failWrite"
      BY <1>15, <2>2 DEF HandlerWrite, Here
    <3>2. profile'.status # "completed"
      BY <3>1, UpsertStatus DEF ErasureInv
    <3>3. IF profile.id = NoId THEN profile'.id = j ELSE profile'.id = profile.id
      BY <3>1, UpsertId
    <3>4. PICK place \in {"mail", "done"} :
            /\ pc' = [pc EXCEPT ![j] = place]
            /\ \A k \in Jobs \ {j} : run'[k] = run[k]
      BY <1>0, <3>1 DEF Return, Leave, Goto
    <3>5. /\ ~job'[j].rawText /\ \A k \in Jobs \ {j} : job'[k] = job[k]
      BY <1>0, <3>1 DEF JobHoldsNothing, MarkFailed, JobRow
    <3>6. ASSUME NEW k \in Jobs PROVE JobHoldsNothing(k)'
      <4>1. JobHoldsNothing(k)
        BY DEF ErasureInv
      <4>2. CASE k = j
        <5>1. pc'[k] \notin Reading /\ pc'[k] \notin Matching
          BY <1>0, <3>4, <4>2 DEF Reading, Matching
        <5> QED BY <3>1, <3>5, <4>1, <4>2, <5>1 DEF JobHoldsNothing
      <4>3. CASE k # j
        <5>1. pc'[k] = pc[k] /\ run'[k] = run[k] /\ job'[k] = job[k]
          BY <1>0, <3>4, <3>5, <4>3
        <5>2. run[k].seen.id # j
          BY <3>1 DEF ProfileIds, Wrote
        <5>3. pc[k] \in Matching => run[k].seen.id # profile'.id
          BY <3>3, <4>1, <5>2 DEF JobHoldsNothing
        <5> QED BY <3>1, <4>1, <5>1, <5>3 DEF JobHoldsNothing
      <4> QED BY <4>2, <4>3
    <3> QED BY <3>2, <3>6
  <2> QED BY <2>1, <2>2
<1>16. CASE SendConfirmation(j)
  <2>1. Goto(j, "done") /\ UNCHANGED <<job, profile, match, run>>
    BY <1>16 DEF SendConfirmation, rowVars
  <2> QED BY <1>4, <2>1 DEF Reading
<1> QED
  BY <1>5, <1>6, <1>7, <1>8, <1>9, <1>10, <1>11, <1>12, <1>13, <1>14, <1>15, <1>16
     DEF RunStep

LEMMA ErasureStep ==
  ASSUME ~DiskMayFail, TypeOK, ProfileIds, ErasureInv, [Next]_vars
  PROVE  ErasureInv'
<1> DEFINE Empty == profile'.status # "completed" /\ \A j \in Jobs : JobHoldsNothing(j)'
<1>0. pc \in [Jobs -> Place] /\ job \in [Jobs -> JobRow]
  BY TypeOKParts DEF TaskTypes, RowTypes
<1>1. ASSUME UNCHANGED <<job, profile, match, pc, run, app>>, FileGoesFirst'
      PROVE  ErasureInv'
  BY <1>1 DEF ErasureInv, JobHoldsNothing
<1>2. ASSUME NEW j \in Jobs, SubmitApplication(j) PROVE ErasureInv'
  BY <1>2 DEF SubmitApplication, ErasureInv, FileGoesFirst, requestVars
<1>3. ASSUME NEW j \in Jobs, RetryCommit(j) PROVE ErasureInv'
  <2>1. /\ UNCHANGED <<app, cvUrl, cvFile, erasing, profile, match, run>>
        /\ job' = [job EXCEPT ![j] = Row("queued")]
        /\ pc' = [pc EXCEPT ![j] = "scheduled"]
    BY <1>3 DEF RetryCommit, Queue
  <2>2. ~job'[j].rawText /\ \A k \in Jobs \ {j} : job'[k] = job[k]
    BY <1>0, <2>1 DEF Row
  <2>3. app = "anonymized" => Empty
    BY <2>1, <2>2, NothingComesBack DEF Reading, Matching
  <2> QED BY <2>1, <2>3 DEF ErasureInv, FileGoesFirst
<1>4. CASE RetryRead \/ RetryAbort \/ SetAiProfilingConsent \/ UNCHANGED vars
  <2>1. UNCHANGED <<app, cvUrl, cvFile, erasing, job, profile, match, pc, run>>
    BY <1>4 DEF RetryRead, RetryAbort, SetAiProfilingConsent, vars, rowVars, taskVars,
                requestVars
  <2> QED BY <1>1, <2>1 DEF ErasureInv, FileGoesFirst
<1>5. CASE AnonymizeDeleteFile
  <2>1. /\ UNCHANGED <<app, cvUrl, job, profile, match, pc, run>>
        /\ app \in {"live", "anonymized"} /\ (cvUrl => ~cvFile') /\ (cvFile' => cvFile)
    BY <1>5 DEF AnonymizeDeleteFile, taskVars, Exists
  <2>2. CASE app = "live"
    BY <1>1, <2>1, <2>2 DEF ErasureInv, FileGoesFirst
  <2>3. CASE app = "anonymized"
    BY <1>1, <2>1, <2>3 DEF ErasureInv, FileGoesFirst
  <2> QED BY <2>1, <2>2, <2>3
<1>6. CASE AnonymizeCommit
  <2>1. /\ app' = "anonymized" /\ ~cvUrl' /\ UNCHANGED <<cvFile, pc, run>>
        /\ job' = [j \in Jobs |-> Row("absent")] /\ profile' = NoProfile
        /\ match' = [j \in Jobs |-> NoMatch]
        /\ ~cvFile
    BY <1>6 DEF AnonymizeCommit, taskVars, ErasureInv, FileGoesFirst, Exists
  <2>2. Empty
    BY <2>1, ErasedIsEmpty
  <2> QED BY <2>1, <2>2 DEF ErasureInv, FileGoesFirst
<1>7. CASE AnonymizeAbort
  <2>1. UNCHANGED <<app, cvUrl, cvFile, job, profile, match, pc, run>> /\ ~erasing'
    BY <1>7 DEF AnonymizeAbort, rowVars, taskVars
  <2> QED BY <1>1, <2>1 DEF ErasureInv, FileGoesFirst
<1>8. CASE DeleteApplicationData \/ DeleteJob
  BY <1>8 DEF DeleteApplicationData, DeleteJob, ErasureInv, FileGoesFirst
<1>9. ASSUME NEW j \in Jobs, RunStep(j) PROVE ErasureInv'
  <2>1. UNCHANGED <<app, cvUrl, cvFile, erasing>>
    BY <1>9 DEF RunStep, RunLoad, RunMarkExtracting, RunExtract, RunParse, RunEnriched,
                RunComplete, RunLogUsage, RunMatchLookup, RunMatched, HandlerRead,
                HandlerWrite, SendConfirmation, FailInTransaction, FailOutsideTransaction,
                rowVars, requestVars
  <2>2. app = "anonymized" => Empty
    BY <1>9, AnonymizedRun
  <2> QED BY <2>1, <2>2 DEF ErasureInv, FileGoesFirst
<1>10. ASSUME NEW w \in Workers, WorkerCrash(w) PROVE ErasureInv'
  <2>1. /\ \A j \in Jobs : \/ pc'[j] = "lost"
                           \/ pc'[j] = pc[j] /\ run'[j] = run[j]
        /\ UNCHANGED <<app, cvUrl, cvFile, erasing, job, profile, match>>
    BY <1>10 DEF WorkerCrash, rowVars, requestVars
  <2>2. app = "anonymized" => Empty
    BY <2>1 DEF ErasureInv, JobHoldsNothing, Reading, Matching
  <2> QED BY <2>1, <2>2 DEF ErasureInv, FileGoesFirst
<1>11. ASSUME NEW w \in Workers, Lifespan(w) PROVE ErasureInv'
  <2>1. UNCHANGED <<app, cvUrl, cvFile, erasing, profile, match, pc, run>>
        /\ job' \in {job, Sweep}
    BY <1>11 DEF Lifespan, taskVars, requestVars
  <2>2. \A j \in Jobs :
          /\ job[j].status = "absent" => job'[j].status = "absent"
          /\ job'[j].rawText = job[j].rawText
    BY <1>0, <2>1 DEF Sweep, MarkFailed, InProgress, JobRow
  <2>3. app = "anonymized" => Empty
    BY <2>1, <2>2 DEF ErasureInv, JobHoldsNothing
  <2> QED BY <2>1, <2>3 DEF ErasureInv, FileGoesFirst
<1> QED
  BY <1>2, <1>3, <1>4, <1>5, <1>6, <1>7, <1>8, <1>9, <1>10, <1>11 DEF Next, Request

\* If files can be deleted, an anonymized application holds no file, no text, no
\* parsed profile and no match, whatever runs were in flight or are started
\* later: what they would write refers to a row, or to a profile, that is gone.
THEOREM AnonymizedIsErased == Spec => []AnonymizedHoldsNoCvData
<1>1. Init => ProfileIds
  <2>1. NoProfile.id = NoId /\ NoId \notin Jobs
    BY CvParsingAssumption DEF NoProfile, Profile
  <2> QED BY <2>1 DEF Init, ProfileIds, NoMemory, Matching
<1>2. Init => ErasureInv
  BY DEF Init, ErasureInv, FileGoesFirst
<1> DEFINE Inv == ProfileIds /\ (~DiskMayFail => ErasureInv)
<1>3. TypeOK /\ Inv /\ [Next]_vars => Inv'
  BY ProfileIdsStep, ErasureStep
<1>4. Inv => AnonymizedHoldsNoCvData
  BY DEF ErasureInv, FileGoesFirst, JobHoldsNothing, AnonymizedHoldsNoCvData
<1>5. Init => Inv
  BY <1>1, <1>2
<1> HIDE DEF Inv
<1> QED BY TypeOKInit, TypeOKStep, <1>3, <1>4, <1>5, PTL DEF Spec

=============================================================================
