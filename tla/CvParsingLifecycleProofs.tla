----------------------- MODULE CvParsingLifecycleProofs -----------------------
(***************************************************************************)
(* CvParsing implements ParseLifecycle, and what more holds when a single  *)
(* process runs.                                                           *)
(***************************************************************************)
EXTENDS CvParsingProofs

-----------------------------------------------------------------------------
(* One process: a process boots only when no run is alive, so the sweep    *)
(* hits no job of a live run.                                              *)

Alone == \A v, w \in Workers : v = w

LiveRunsAreUp == \A j \in Jobs : pc[j] \in Working => at[j] \in up

LiveRunsNotFailed ==
  \A j \in Jobs : pc[j] \in Working \ {"mail"} => job[j].status # "failed"

AloneInv == LiveRunsAreUp /\ LiveRunsNotFailed /\ ErrorOnlyIfFailed

LEMMA AloneInvInit == Init => AloneInv
BY DEF Init, AloneInv, LiveRunsAreUp, LiveRunsNotFailed, ErrorOnlyIfFailed, Working, Row

\* A task that goes on stays in the event loop of a running process.
LEMMA LiveRunsStayUp ==
  ASSUME TypeOK, LiveRunsAreUp, NEW j \in Jobs, at[j] \in up, up' = up,
         NEW place, Goto(j, place)
  PROVE  LiveRunsAreUp'
<1>1. pc \in [Jobs -> Place] /\ at \in [Jobs -> Workers \cup {NoWorker}]
  BY TypeOKParts DEF TaskTypes
<1> QED BY <1>1 DEF Goto, LiveRunsAreUp

LEMMA AloneInvMove ==
  ASSUME TypeOK, AloneInv, NEW j \in Jobs, at[j] \in up, up' = up, UNCHANGED job,
         NEW place, Goto(j, place),
         place \in Working \ {"mail"} => pc[j] \in Working \ {"mail"}
  PROVE  AloneInv'
<1>1. pc \in [Jobs -> Place]
  BY TypeOKParts DEF TaskTypes
<1>2. LiveRunsNotFailed'
  BY <1>1 DEF Goto, LiveRunsNotFailed, AloneInv
<1>3. ErrorOnlyIfFailed'
  BY DEF AloneInv, ErrorOnlyIfFailed
<1> QED BY <1>2, <1>3, LiveRunsStayUp DEF AloneInv

LEMMA AloneInvWrite ==
  ASSUME TypeOK, AloneInv, NEW j \in Jobs, at[j] \in up, up' = up,
         NEW place, Goto(j, place), NEW r \in JobRow, job' = [job EXCEPT ![j] = r],
         r.error => r.status = "failed",
         place \in Working \ {"mail"} => r.status # "failed"
  PROVE  AloneInv'
<1>1. pc \in [Jobs -> Place] /\ job \in [Jobs -> JobRow]
  BY TypeOKParts DEF TaskTypes, RowTypes
<1>2. LiveRunsNotFailed'
  BY <1>1 DEF Goto, LiveRunsNotFailed, AloneInv
<1>3. ErrorOnlyIfFailed'
  BY <1>1 DEF AloneInv, ErrorOnlyIfFailed
<1> QED BY <1>2, <1>3, LiveRunsStayUp DEF AloneInv

LEMMA AloneInvRun ==
  ASSUME TypeOK, RowInv, AloneInv, NEW j \in Jobs, RunStep(j)
  PROVE  AloneInv'
<1>0. /\ job \in [Jobs -> JobRow] /\ pc \in [Jobs -> Place] /\ job[j] \in JobRow
      /\ pc[j] \in Working /\ at[j] \in up /\ up' = up
      /\ job[j].error => job[j].status = "failed"
      /\ pc[j] # "mail" => job[j].status # "failed"
  <2>1. pc[j] \in Working /\ up' = up
    BY DEF RunStep, RunLoad, RunMarkExtracting, RunExtract, RunParse, RunEnriched,
           RunComplete, RunLogUsage, RunMatchLookup, RunMatched, HandlerRead,
           HandlerWrite, SendConfirmation, Here, Working
  <2> QED BY <2>1, TypeOKParts DEF TaskTypes, RowTypes, AloneInv, LiveRunsAreUp,
                                   ErrorOnlyIfFailed, LiveRunsNotFailed
<1>1. ASSUME Return(j) \/ Die(j), UNCHANGED job PROVE AloneInv'
  <2>1. PICK place \in {"mail", "done", "dead"} : Goto(j, place)
    BY <1>1 DEF Return, Die, Leave
  <2>2. place \notin Working \ {"mail"}
    BY DEF Working
  <2> QED BY <1>0, <1>1, <2>1, <2>2, AloneInvMove
<1>2. ASSUME NEW place \in Working, Goto(j, place), UNCHANGED job, pc[j] # "mail"
      PROVE  AloneInv'
  BY <1>0, <1>2, AloneInvMove
<1>3. CASE RunLoad(j)
  BY <1>1, <1>2, <1>3 DEF RunLoad, Here, Working, rowVars
<1>4. CASE RunMarkExtracting(j)
  <2>1. CASE Gone(j)
    BY <1>1, <1>4, <2>1 DEF RunMarkExtracting
  <2>2. CASE ~ Gone(j)
    <3> DEFINE r == [job[j] EXCEPT !.status = "extracting"]
    <3>1. ~ job[j].error
      BY <1>0, <1>4 DEF RunMarkExtracting, Here
    <3>2. r \in JobRow /\ ~ r.error /\ r.status # "failed"
      BY <1>0, <3>1 DEF JobRow, JobStatus, InProgress
    <3>3. job' = [job EXCEPT ![j] = r] /\ Goto(j, "extract")
      BY <1>4, <2>2 DEF RunMarkExtracting
    <3> HIDE DEF r
    <3> QED BY <1>0, <3>2, <3>3, AloneInvWrite
  <2> QED BY <2>1, <2>2
<1>5. CASE RunExtract(j)
  <2>1. CASE FailOutsideTransaction(j)
    BY <1>2, <1>5, <2>1 DEF RunExtract, Here, FailOutsideTransaction, rowVars, Working
  <2>2. CASE FailInTransaction(j)
    BY <1>1, <2>2 DEF FailInTransaction, rowVars
  <2>3. CASE ~ (FailOutsideTransaction(j) \/ FailInTransaction(j))
    <3> DEFINE r == [job[j] EXCEPT !.status = "parsing", !.rawText = TRUE]
    <3>1. ~ job[j].error
      BY <1>0, <1>5 DEF RunExtract, Here
    <3>2. r \in JobRow /\ ~ r.error /\ r.status # "failed"
      BY <1>0, <3>1 DEF JobRow, JobStatus, InProgress
    <3>3. job' = [job EXCEPT ![j] = r] /\ Goto(j, "parse")
      BY <1>5, <2>3 DEF RunExtract
    <3> HIDE DEF r
    <3> QED BY <1>0, <3>2, <3>3, AloneInvWrite
  <2> QED BY <2>1, <2>2, <2>3
<1>6. CASE RunParse(j)
  BY <1>2, <1>6 DEF RunParse, Here, FailOutsideTransaction, rowVars, Working
<1>7. CASE RunEnriched(j)
  BY <1>1, <1>2, <1>7 DEF RunEnriched, Here, FailInTransaction, rowVars, Working
<1>8. CASE RunComplete(j)
  <2>1. CASE FailInTransaction(j)
    BY <1>1, <2>1 DEF FailInTransaction, rowVars
  <2>2. CASE ~ FailInTransaction(j)
    <3> DEFINE r == MarkCompleted(job[j])
    <3>1. ~ job[j].error
      BY <1>0, <1>8 DEF RunComplete, Here
    <3>2. r \in JobRow /\ ~ r.error /\ r.status # "failed"
      BY <1>0, <3>1, MarkedRows DEF MarkCompleted, JobRow
    <3>3. job' = [job EXCEPT ![j] = r]
      BY <1>8, <2>2 DEF RunComplete
    <3>4. PICK place : Goto(j, place)
      BY <1>8, <2>2 DEF RunComplete, Return, Leave
    <3> HIDE DEF r
    <3> QED BY <1>0, <3>2, <3>3, <3>4, AloneInvWrite
  <2> QED BY <2>1, <2>2
<1>9. CASE RunLogUsage(j)
  BY <1>1, <1>2, <1>9 DEF RunLogUsage, Here, FailInTransaction, rowVars, Working
<1>10. CASE RunMatchLookup(j)
  BY <1>1, <1>2, <1>10 DEF RunMatchLookup, Here, rowVars, Working
<1>11. CASE RunMatched(j)
  BY <1>1, <1>11 DEF RunMatched, FailInTransaction, rowVars
<1>12. CASE HandlerRead(j)
  BY <1>2, <1>12 DEF HandlerRead, Here, rowVars, Working
<1>13. CASE HandlerWrite(j)
  <2>1. CASE Die(j) /\ UNCHANGED job
    BY <1>1, <2>1
  <2>2. CASE ~ (Die(j) /\ UNCHANGED job)
    <3> DEFINE r == MarkFailed(job[j])
    <3>1. r \in JobRow /\ r.status = "failed"
      BY <1>0, MarkedRows
    <3>2. job' = [job EXCEPT ![j] = r]
      BY <1>13, <2>2 DEF HandlerWrite
    <3>3. PICK place \in {"mail", "done"} : Goto(j, place)
      BY <1>13, <2>2 DEF HandlerWrite, Return, Leave
    <3>4. place \notin Working \ {"mail"}
      BY DEF Working
    <3> HIDE DEF r
    <3> QED BY <1>0, <3>1, <3>2, <3>3, <3>4, AloneInvWrite
  <2> QED BY <2>1, <2>2
<1>14. CASE SendConfirmation(j)
  <2>1. "done" \notin Working
    BY DEF Working
  <2> QED BY <1>0, <1>14, <2>1, AloneInvMove DEF SendConfirmation, rowVars
<1> QED
  BY <1>3, <1>4, <1>5, <1>6, <1>7, <1>8, <1>9, <1>10, <1>11, <1>12, <1>13, <1>14
     DEF RunStep

LEMMA AloneInvQueued ==
  ASSUME TypeOK, RowInv, AloneInv, NEW j \in Jobs, Queue(j), up' = up
  PROVE  AloneInv'
<1>1. pc \in [Jobs -> Place] /\ job \in [Jobs -> JobRow] /\ at \in [Jobs -> Workers \cup {NoWorker}]
  BY TypeOKParts DEF TaskTypes, RowTypes
<1>2. PICK w \in up : at' = [at EXCEPT ![j] = w]
  BY DEF Queue
<1>3. job' = [job EXCEPT ![j] = Row("queued")] /\ pc' = [pc EXCEPT ![j] = "scheduled"]
  BY DEF Queue
<1>4. Row("queued").status = "queued" /\ ~ Row("queued").error
  BY DEF Row
<1>5. LiveRunsAreUp'
  BY <1>1, <1>2, <1>3 DEF AloneInv, LiveRunsAreUp
<1>6. LiveRunsNotFailed'
  BY <1>1, <1>3, <1>4 DEF AloneInv, LiveRunsNotFailed
<1>7. ErrorOnlyIfFailed'
  BY <1>1, <1>3, <1>4 DEF AloneInv, ErrorOnlyIfFailed
<1> QED BY <1>5, <1>6, <1>7 DEF AloneInv

LEMMA AloneInvCrash ==
  ASSUME Alone, TypeOK, AloneInv, NEW w \in Workers, WorkerCrash(w)
  PROVE  AloneInv'
<1>1. up' = {}
  BY TypeOKParts DEF Alone, WorkerCrash, TaskTypes
<1>2. \A j \in Jobs : pc'[j] \notin Working
  <2> SUFFICES ASSUME NEW j \in Jobs PROVE pc'[j] \notin Working
    OBVIOUS
  <2>1. CASE at[j] = w
    BY <2>1 DEF WorkerCrash, Working
  <2>2. CASE at[j] # w
    BY <2>2, TypeOKParts DEF WorkerCrash, Alone, AloneInv, LiveRunsAreUp, TaskTypes
  <2> QED BY <2>1, <2>2
<1>3. job' = job
  BY DEF WorkerCrash, rowVars
<1> QED
  BY <1>2, <1>3 DEF AloneInv, LiveRunsAreUp, LiveRunsNotFailed, ErrorOnlyIfFailed

LEMMA AloneInvBoot ==
  ASSUME Alone, TypeOK, AloneInv, NEW w \in Workers, Lifespan(w)
  PROVE  AloneInv'
<1>1. up = {} /\ pc' = pc
  BY TypeOKParts DEF Alone, Lifespan, TaskTypes, taskVars
<1>2. \A j \in Jobs : pc'[j] \notin Working
  BY <1>1 DEF AloneInv, LiveRunsAreUp
<1>3. \A j \in Jobs : job'[j] = job[j] \/ job'[j].status = "failed"
  BY TypeOKParts, MarkedRows DEF Lifespan, Sweep, RowTypes
<1> QED
  BY <1>2, <1>3 DEF AloneInv, LiveRunsAreUp, LiveRunsNotFailed, ErrorOnlyIfFailed

LEMMA AloneInvStep == Alone /\ TypeOK /\ RowInv /\ AloneInv /\ [Next]_vars => AloneInv'
<1> SUFFICES ASSUME Alone, TypeOK, RowInv, AloneInv, [Next]_vars PROVE AloneInv'
  OBVIOUS
<1>1. ASSUME UNCHANGED <<pc, at, up>>, UNCHANGED job \/ job' = [j \in Jobs |-> Row("absent")]
      PROVE  AloneInv'
  BY <1>1 DEF AloneInv, LiveRunsAreUp, LiveRunsNotFailed, ErrorOnlyIfFailed, Row
<1>2. ASSUME NEW j \in Jobs, SubmitApplication(j) \/ RetryCommit(j) PROVE AloneInv'
  BY <1>2, AloneInvQueued DEF SubmitApplication, RetryCommit
<1>3. CASE RetryRead \/ RetryAbort \/ SetAiProfilingConsent \/ AnonymizeDeleteFile
           \/ AnonymizeCommit \/ AnonymizeAbort \/ DeleteApplicationData \/ DeleteJob
  BY <1>1, <1>3 DEF RetryRead, RetryAbort, SetAiProfilingConsent, AnonymizeDeleteFile,
       AnonymizeCommit, AnonymizeAbort, DeleteApplicationData, DeleteJob, rowVars, taskVars
<1>4. CASE UNCHANGED vars
  BY <1>1, <1>4 DEF vars, rowVars, taskVars
<1> QED
  BY <1>2, <1>3, <1>4, AloneInvRun, AloneInvCrash, AloneInvBoot DEF Next, Request

LEMMA AloneInvariant == Spec => [](Alone => AloneInv)
<1>1. Init => (Alone => AloneInv)
  BY AloneInvInit
<1>2. TypeOK /\ RowInv /\ (Alone => AloneInv) /\ [Next]_vars => (Alone => AloneInv)'
  BY AloneInvStep DEF Alone
<1> QED BY <1>1, <1>2, RowInvariant, PTL DEF Spec

\* With a single process, the error message of a job is that of its last
\* outcome: a completed job carries none.
THEOREM ErrorsAreCurrentWhenAlone == Spec => [](Alone => ErrorOnlyIfFailed)
<1>1. (Alone => AloneInv) => (Alone => ErrorOnlyIfFailed)
  BY DEF AloneInv
<1> QED BY AloneInvariant, <1>1, PTL

-----------------------------------------------------------------------------
(* Several processes: who runs a job in progress.                          *)

\* The processes that hold live runs are up, and a job that a crash has left in
\* progress waits for the boot of a process.
HeldInv ==
  /\ LiveRunsAreUp
  /\ ~SweepMayFail =>
       \A j \in Jobs : job[j].status \in InProgress =>
         pc[j] \in Working \cup {"dead"} \/ (pc[j] = "lost" /\ up # Workers)

LEMMA HeldInit == Init => HeldInv
BY DEF Init, HeldInv, LiveRunsAreUp, Working, Row, InProgress

LEMMA HeldQueued ==
  ASSUME TypeOK, HeldInv, NEW j \in Jobs, Queue(j), up' = up
  PROVE  HeldInv'
<1>1. /\ pc \in [Jobs -> Place] /\ job \in [Jobs -> JobRow]
      /\ at \in [Jobs -> Workers \cup {NoWorker}]
  BY TypeOKParts DEF TaskTypes, RowTypes
<1>2. PICK w \in up : at' = [at EXCEPT ![j] = w]
  BY DEF Queue
<1>3. job' = [job EXCEPT ![j] = Row("queued")] /\ pc' = [pc EXCEPT ![j] = "scheduled"]
  BY DEF Queue
<1>4. Row("queued").status \notin InProgress
  BY DEF Row, InProgress
<1>5. LiveRunsAreUp'
  BY <1>1, <1>2, <1>3 DEF HeldInv, LiveRunsAreUp
<1> QED BY <1>1, <1>3, <1>4, <1>5 DEF HeldInv

\* A run that goes on is still held; one that ends has settled its job or died.
LEMMA HeldRun ==
  ASSUME TypeOK, HeldInv, CleanRunSettles', NEW j \in Jobs, RunStep(j)
  PROVE  HeldInv'
<1>1. /\ pc \in [Jobs -> Place] /\ job \in [Jobs -> JobRow]
      /\ at \in [Jobs -> Workers \cup {NoWorker}]
  BY TypeOKParts DEF TaskTypes, RowTypes
<1>2. /\ at[j] \in up /\ up' = up
      /\ \E r : job' = [job EXCEPT ![j] = r]
  <2>1. at[j] \in up /\ up' = up
    BY DEF RunStep, RunLoad, RunMarkExtracting, RunExtract, RunParse, RunEnriched,
           RunComplete, RunLogUsage, RunMatchLookup, RunMatched, HandlerRead,
           HandlerWrite, SendConfirmation, Here
  <2>2. ASSUME job' = job PROVE job' = [job EXCEPT ![j] = job[j]]
    BY <1>1, <2>2
  <2>3. job' = job \/ \E r : job' = [job EXCEPT ![j] = r]
    <3>1. RunExtract(j) => job' = job \/ \E r : job' = [job EXCEPT ![j] = r]
      BY DEF RunExtract, FailInTransaction, FailOutsideTransaction, rowVars
    <3>2. RunComplete(j) => job' = job \/ \E r : job' = [job EXCEPT ![j] = r]
      BY DEF RunComplete, FailInTransaction, rowVars
    <3>3. RunMarkExtracting(j) => job' = job \/ \E r : job' = [job EXCEPT ![j] = r]
      BY DEF RunMarkExtracting
    <3>4. HandlerWrite(j) => job' = job \/ \E r : job' = [job EXCEPT ![j] = r]
      BY DEF HandlerWrite
    <3> QED
      BY <3>1, <3>2, <3>3, <3>4
         DEF RunStep, RunLoad, RunParse, RunEnriched, RunLogUsage, RunMatchLookup,
             RunMatched, HandlerRead, SendConfirmation, FailInTransaction,
             FailOutsideTransaction, rowVars
  <2> QED BY <2>1, <2>2, <2>3
<1>3. PICK place \in Working \cup {"done", "dead"} : Goto(j, place)
  BY DEF RunStep, RunLoad, RunMarkExtracting, RunExtract, RunParse, RunEnriched,
         RunComplete, RunLogUsage, RunMatchLookup, RunMatched, HandlerRead,
         HandlerWrite, SendConfirmation, Working, Return, Die, Leave,
         FailInTransaction, FailOutsideTransaction
<1>4. LiveRunsAreUp'
  BY <1>2, <1>3, LiveRunsStayUp DEF HeldInv
<1>5. job'[j].status \in InProgress => pc'[j] # "done"
  BY DEF CleanRunSettles, InProgress
<1>6. pc'[j] = place /\ \A k \in Jobs \ {j} : pc'[k] = pc[k] /\ job'[k] = job[k]
  BY <1>1, <1>2, <1>3 DEF Goto
<1> QED BY <1>2, <1>3, <1>4, <1>5, <1>6 DEF HeldInv

LEMMA HeldCrash ==
  ASSUME TypeOK, HeldInv, NEW w \in Workers, WorkerCrash(w)
  PROVE  HeldInv'
<1>1. /\ pc \in [Jobs -> Place] /\ at \in [Jobs -> Workers \cup {NoWorker}]
  BY TypeOKParts DEF TaskTypes
<1>2. up' = up \ {w} /\ job' = job /\ w \notin up'
  BY DEF WorkerCrash, rowVars
<1>3. \A j \in Jobs : IF at[j] = w THEN pc'[j] = "lost"
                                  ELSE pc'[j] = pc[j] /\ at'[j] = at[j]
  BY DEF WorkerCrash
<1>4. LiveRunsAreUp'
  BY <1>2, <1>3 DEF HeldInv, LiveRunsAreUp, Working
<1>5. up' # Workers
  BY <1>2
<1> QED BY <1>2, <1>3, <1>4, <1>5 DEF HeldInv

\* The sweep at a boot leaves no job in progress.
LEMMA HeldBoot ==
  ASSUME TypeOK, HeldInv, NEW w \in Workers, Lifespan(w)
  PROVE  HeldInv'
<1>1. UNCHANGED <<pc, at>> /\ up \subseteq up'
  BY DEF Lifespan, taskVars
<1>2. LiveRunsAreUp'
  BY <1>1 DEF HeldInv, LiveRunsAreUp
<1>3. ~SweepMayFail => \A j \in Jobs : job'[j].status \notin InProgress
  <2>1. SUFFICES ASSUME ~SweepMayFail, NEW j \in Jobs PROVE job'[j].status \notin InProgress
    OBVIOUS
  <2>2. job[j] \in JobRow
    BY TypeOKParts DEF RowTypes
  <2>3. MarkFailed(job[j]).status \notin InProgress
    BY <2>2, MarkedRows DEF InProgress
  <2> QED BY <2>1, <2>3 DEF Lifespan, Sweep
<1> QED BY <1>2, <1>3 DEF HeldInv

LEMMA HeldStep == TypeOK /\ HeldInv /\ CleanRunSettles' /\ [Next]_vars => HeldInv'
<1> SUFFICES ASSUME TypeOK, HeldInv, CleanRunSettles', [Next]_vars PROVE HeldInv'
  OBVIOUS
<1>1. ASSUME NEW j \in Jobs, SubmitApplication(j) \/ RetryCommit(j) PROVE HeldInv'
  BY <1>1, HeldQueued DEF SubmitApplication, RetryCommit
<1>2. ASSUME UNCHANGED <<pc, at, up>>, UNCHANGED job \/ job' = [j \in Jobs |-> Row("absent")]
      PROVE  HeldInv'
  BY <1>2 DEF HeldInv, LiveRunsAreUp, Row, InProgress
<1>3. CASE RetryRead \/ RetryAbort \/ SetAiProfilingConsent \/ AnonymizeDeleteFile
           \/ AnonymizeCommit \/ AnonymizeAbort \/ DeleteApplicationData \/ DeleteJob
  BY <1>2, <1>3 DEF RetryRead, RetryAbort, SetAiProfilingConsent, AnonymizeDeleteFile,
       AnonymizeCommit, AnonymizeAbort, DeleteApplicationData, DeleteJob, rowVars, taskVars
<1>4. CASE UNCHANGED vars
  BY <1>2, <1>4 DEF vars, rowVars, taskVars
<1> QED
  BY <1>1, <1>3, <1>4, HeldRun, HeldCrash, HeldBoot DEF Next, Request

\* A job that is not settled is being run by a process that is up, or its run died:
\* of an exception, or with its process, and then a job in progress is left so only
\* until all processes are up, unless sweeps fail.
THEOREM UnsettledJobsHaveARun == Spec => []UnsettledJobsAreRun
<1>1. TypeOK /\ RowInv /\ HeldInv => UnsettledJobsAreRun
  <2> SUFFICES ASSUME TypeOK, RowInv, HeldInv, NEW j \in Jobs,
                      job[j].status \in InProgress \cup {"queued"}
               PROVE  \/ pc[j] \in Working \ {"mail"} /\ at[j] \in up
                      \/ pc[j] = "dead"
                      \/ /\ pc[j] = "lost"
                         /\ job[j].status = "queued" \/ SweepMayFail \/ up # Workers
    BY DEF UnsettledJobsAreRun
  <2>1. pc[j] \in Place /\ pc[j] \notin {"none", "mail", "done"}
    BY TypeOKParts DEF TaskTypes, RowInv, RunFitsRow, InProgress
  <2>2. pc[j] \in Working => at[j] \in up
    BY DEF HeldInv, LiveRunsAreUp
  <2>3. pc[j] = "lost" /\ job[j].status # "queued" /\ ~SweepMayFail => up # Workers
    BY DEF HeldInv, Working
  <2> QED BY <2>1, <2>2, <2>3 DEF Place, Ended
<1> QED BY HeldInit, HeldStep, RowInvariant, CleanRunsSettle, <1>1, PTL DEF Spec

-----------------------------------------------------------------------------
(* The refinement.                                                         *)

LEMMA LifecycleInit == Init => Lifecycle!Init
BY DEF Init, Lifecycle!Init, Row

\* The mapped variables.
Status == [j \in Jobs |-> job[j].status]
Used   == {j \in Jobs : pc[j] # "none"}

\* A step that changes the status of no job and queues none is a stutter.
LEMMA LifecycleStutter ==
  ASSUME \A j \in Jobs : job'[j].status = job[j].status,
         \A j \in Jobs : pc[j] = "none" <=> pc'[j] = "none"
  PROVE  UNCHANGED <<Status, Used>>
BY DEF Status, Used

LEMMA LifecycleMove ==
  ASSUME TypeOK, NEW j \in Jobs, NEW r \in JobRow, NEW From,
         job[j].status \in From, job' = [job EXCEPT ![j] = r],
         \A k \in Jobs : pc[k] = "none" <=> pc'[k] = "none"
  PROVE  Lifecycle!Move(j, From, r.status)
<1>1. job \in [Jobs -> JobRow]
  BY TypeOKParts DEF RowTypes
<1>2. Status' = [Status EXCEPT ![j] = r.status]
  BY <1>1 DEF Status
<1>3. Used' = Used
  BY DEF Used
<1> QED BY <1>2, <1>3 DEF Lifecycle!Move, Status, Used

LEMMA LifecycleQueue ==
  ASSUME TypeOK, RowInv, NEW j \in Jobs, Queue(j)
  PROVE  Lifecycle!Queue(j)
<1>1. job \in [Jobs -> JobRow] /\ pc \in [Jobs -> Place]
  BY TypeOKParts DEF RowTypes, TaskTypes
<1>2. Status' = [Status EXCEPT ![j] = "queued"]
  BY <1>1 DEF Queue, Status, Row
<1>3. j \notin Used /\ Used' = Used \cup {j}
  BY <1>1 DEF Queue, Used
<1> QED BY <1>2, <1>3 DEF Lifecycle!Queue, Status, Used

\* A task never returns to where no task is.
LEMMA RunStepUsed ==
  ASSUME TypeOK, NEW j \in Jobs, RunStep(j)
  PROVE  /\ pc[j] \in Working
         /\ \A k \in Jobs : pc[k] = "none" <=> pc'[k] = "none"
         /\ \A k \in Jobs : pc[k] = "none" => at'[k] = at[k]
<1>1. pc \in [Jobs -> Place]
  BY TypeOKParts DEF TaskTypes
<1>2. pc[j] \in Working
  BY DEF RunStep, RunLoad, RunMarkExtracting, RunExtract, RunParse, RunEnriched,
         RunComplete, RunLogUsage, RunMatchLookup, RunMatched, HandlerRead,
         HandlerWrite, SendConfirmation, Here, Working
<1>3. PICK place \in Working \cup Ended : Goto(j, place)
  BY DEF RunStep, RunLoad, RunMarkExtracting, RunExtract, RunParse, RunEnriched,
         RunComplete, RunLogUsage, RunMatchLookup, RunMatched, HandlerRead,
         HandlerWrite, SendConfirmation, Working, Ended, Return, Die, Leave,
         FailInTransaction, FailOutsideTransaction
<1>4. "none" \notin Working \cup Ended
  BY DEF Working, Ended
<1>5. at \in [Jobs -> Workers \cup {NoWorker}]
  BY TypeOKParts DEF TaskTypes
<1> QED BY <1>1, <1>2, <1>3, <1>4, <1>5 DEF Goto

\* No event loop holds a task that was never queued.
UnqueuedUnheld == \A j \in Jobs : pc[j] = "none" => at[j] = NoWorker

LEMMA UnqueuedUnheldStep == TypeOK /\ UnqueuedUnheld /\ [Next]_vars => UnqueuedUnheld'
<1> SUFFICES ASSUME TypeOK, UnqueuedUnheld, [Next]_vars PROVE UnqueuedUnheld'
  OBVIOUS
<1>0. pc \in [Jobs -> Place] /\ at \in [Jobs -> Workers \cup {NoWorker}]
  BY TypeOKParts DEF TaskTypes
<1>1. ASSUME NEW j \in Jobs, Queue(j) PROVE UnqueuedUnheld'
  BY <1>0, <1>1 DEF Queue, UnqueuedUnheld
<1>2. ASSUME NEW j \in Jobs, RunStep(j) PROVE UnqueuedUnheld'
  BY <1>2, RunStepUsed DEF UnqueuedUnheld
<1>3. ASSUME NEW w \in Workers, WorkerCrash(w) PROVE UnqueuedUnheld'
  BY <1>3 DEF WorkerCrash, UnqueuedUnheld
<1>4. ASSUME UNCHANGED <<pc, at>> PROVE UnqueuedUnheld'
  BY <1>4 DEF UnqueuedUnheld
<1> QED
  BY <1>1, <1>2, <1>3, <1>4
     DEF Next, Request, SubmitApplication, RetryCommit, RetryRead, RetryAbort,
         SetAiProfilingConsent, AnonymizeDeleteFile, AnonymizeCommit, AnonymizeAbort,
         DeleteApplicationData, DeleteJob, Lifespan, vars, taskVars

\* A failed job moves on only when processes overlap.
LEMMA ResumedWhenOverlap ==
  ASSUME Alone => AloneInv, NEW j \in Jobs, pc[j] \in Working \ {"mail"},
         job[j].status = "failed"
  PROVE  "failed" \in Lifecycle!Resumable
BY DEF Alone, AloneInv, LiveRunsNotFailed, Lifecycle!Resumable

LEMMA LifecycleRun ==
  ASSUME TypeOK, RowInv, Alone => AloneInv, NEW j \in Jobs, RunStep(j)
  PROVE  [Lifecycle!Next]_<<Status, Used>>
<1>0. /\ job \in [Jobs -> JobRow] /\ job[j] \in JobRow /\ RunFitsRow
      /\ pc[j] \in Working
      /\ \A k \in Jobs : pc[k] = "none" <=> pc'[k] = "none"
  BY TypeOKParts, RunStepUsed DEF RowTypes, RowInv
<1>1. ASSUME UNCHANGED job PROVE [Lifecycle!Next]_<<Status, Used>>
  BY <1>0, <1>1, LifecycleStutter
<1>2. CASE RunMarkExtracting(j) /\ ~ Gone(j)
  <2> DEFINE r == [job[j] EXCEPT !.status = "extracting"]
  <2>1. job[j].status \in {"queued"}
    BY <1>0, <1>2 DEF RunMarkExtracting, Here, Gone, RunFitsRow
  <2>2. r \in JobRow /\ r.status = "extracting" /\ job' = [job EXCEPT ![j] = r]
    BY <1>0, <1>2 DEF JobRow, JobStatus, InProgress, RunMarkExtracting
  <2> HIDE DEF r
  <2>3. Lifecycle!Extract(j)
    BY <1>0, <2>1, <2>2, LifecycleMove DEF Lifecycle!Extract
  <2> QED BY <2>3 DEF Lifecycle!Next
<1>3. CASE RunExtract(j) /\ ~ UNCHANGED job
  <2> DEFINE r == [job[j] EXCEPT !.status = "parsing", !.rawText = TRUE]
  <2>1. job[j].status \in {"extracting", "failed"}
    BY <1>0, <1>3
       DEF RunExtract, Here, Gone, RunFitsRow, FailOutsideTransaction, FailInTransaction, rowVars
  <2>2. r \in JobRow /\ r.status = "parsing" /\ job' = [job EXCEPT ![j] = r]
    BY <1>0, <1>3 DEF JobRow, JobStatus, InProgress, RunExtract, FailOutsideTransaction,
                      FailInTransaction, rowVars
  <2>3. job[j].status \in {"extracting"} \cup Lifecycle!Resumable
    BY <2>1, <1>0, <1>3, ResumedWhenOverlap DEF RunExtract, Here, Working
  <2> HIDE DEF r
  <2>4. Lifecycle!Parse(j)
    BY <1>0, <2>2, <2>3, LifecycleMove DEF Lifecycle!Parse
  <2> QED BY <2>4 DEF Lifecycle!Next
<1>4. CASE RunComplete(j) /\ ~ UNCHANGED job
  <2> DEFINE r == MarkCompleted(job[j])
  <2>1. job[j].status \in {"parsing", "failed"}
    BY <1>0, <1>4
       DEF RunComplete, Here, Gone, RunFitsRow, FailInTransaction, rowVars
  <2>2. r \in JobRow /\ r.status = "completed" /\ job' = [job EXCEPT ![j] = r]
    BY <1>0, <1>4, MarkedRows DEF RunComplete, FailInTransaction, rowVars
  <2>3. job[j].status \in {"parsing"} \cup Lifecycle!Resumable
    BY <2>1, <1>0, <1>4, ResumedWhenOverlap DEF RunComplete, Here, Working
  <2> HIDE DEF r
  <2>4. Lifecycle!Complete(j)
    BY <1>0, <2>2, <2>3, LifecycleMove DEF Lifecycle!Complete
  <2> QED BY <2>4 DEF Lifecycle!Next
<1>5. CASE HandlerWrite(j) /\ ~ UNCHANGED job
  <2> DEFINE r == MarkFailed(job[j])
  <2>1. job[j].status \in {"extracting", "parsing", "failed"}
    BY <1>0, <1>5 DEF HandlerWrite, Here, Gone, RunFitsRow
  <2>2. r \in JobRow /\ r.status = "failed" /\ job' = [job EXCEPT ![j] = r]
    BY <1>0, <1>5, MarkedRows DEF HandlerWrite
  <2>3. job[j].status \in {"extracting", "parsing"} \cup Lifecycle!Resumable
    BY <2>1, <1>0, <1>5, ResumedWhenOverlap DEF HandlerWrite, Here, Working
  <2> HIDE DEF r
  <2>4. Lifecycle!Fail(j)
    BY <1>0, <2>2, <2>3, LifecycleMove DEF Lifecycle!Fail
  <2> QED BY <2>4 DEF Lifecycle!Next
<1> QED
  BY <1>1, <1>2, <1>3, <1>4, <1>5
     DEF RunStep, RunLoad, RunMarkExtracting, RunParse, RunEnriched, RunLogUsage,
         RunMatchLookup, RunMatched, HandlerRead, SendConfirmation,
         FailInTransaction, FailOutsideTransaction, rowVars

LEMMA LifecycleStep ==
  TypeOK /\ RowInv /\ UnqueuedUnheld /\ (Alone => AloneInv) /\ [Next]_vars
    => [Lifecycle!Next]_<<Status, Used>>
<1> SUFFICES ASSUME TypeOK, RowInv, UnqueuedUnheld, Alone => AloneInv, [Next]_vars
             PROVE  [Lifecycle!Next]_<<Status, Used>>
  OBVIOUS
<1>1. ASSUME UNCHANGED <<job, pc>> PROVE [Lifecycle!Next]_<<Status, Used>>
  BY <1>1, LifecycleStutter
<1>2. ASSUME NEW j \in Jobs, SubmitApplication(j) \/ RetryCommit(j)
      PROVE  [Lifecycle!Next]_<<Status, Used>>
  BY <1>2, LifecycleQueue DEF SubmitApplication, RetryCommit, Lifecycle!Next
<1>3. CASE AnonymizeCommit \/ DeleteApplicationData \/ DeleteJob
  <2>1. Status' = [j \in Jobs |-> "absent"] /\ Used' = Used
    BY <1>3 DEF AnonymizeCommit, DeleteApplicationData, DeleteJob, Status, Used, Row, taskVars
  <2> QED BY <2>1 DEF Lifecycle!Next, Lifecycle!Erase, Status, Used
<1>4. ASSUME NEW w \in Workers, WorkerCrash(w) PROVE [Lifecycle!Next]_<<Status, Used>>
  <2>1. \A k \in Jobs : pc'[k] = pc[k] \/ (pc'[k] = "lost" /\ at[k] = w)
    BY <1>4 DEF WorkerCrash
  <2>2. NoWorker \notin Workers
    BY CvParsingAssumption
  <2>3. job' = job
    BY <1>4 DEF WorkerCrash, rowVars
  <2>4. \A k \in Jobs : pc[k] = "none" <=> pc'[k] = "none"
    BY <2>1, <2>2 DEF UnqueuedUnheld
  <2> QED BY <2>3, <2>4, LifecycleStutter
<1>5. ASSUME NEW w \in Workers, Lifespan(w) PROVE [Lifecycle!Next]_<<Status, Used>>
  <2>1. CASE job' = Sweep
    <3>1. \A k \in Jobs : job'[k].status = IF job[k].status \in {"extracting", "parsing"}
                                           THEN "failed" ELSE job[k].status
      BY <2>1, TypeOKParts, MarkedRows DEF RowTypes, Sweep, InProgress
    <3>2. Status' = [k \in Jobs |-> IF Status[k] \in {"extracting", "parsing"}
                                    THEN "failed" ELSE Status[k]]
      BY <3>1 DEF Status
    <3>3. Used' = Used
      BY <1>5 DEF Lifespan, taskVars, Used
    <3> QED BY <3>2, <3>3 DEF Lifecycle!Next, Lifecycle!Restart, Status, Used
  <2>2. CASE job' # Sweep
    BY <1>5, <2>2, <1>1 DEF Lifespan, taskVars
  <2> QED BY <2>1, <2>2
<1>6. CASE RetryRead \/ RetryAbort \/ SetAiProfilingConsent \/ AnonymizeDeleteFile
           \/ AnonymizeAbort \/ UNCHANGED vars
  BY <1>1, <1>6 DEF RetryRead, RetryAbort, SetAiProfilingConsent, AnonymizeDeleteFile,
       AnonymizeAbort, rowVars, taskVars, vars
<1> QED
  BY <1>2, <1>3, <1>4, <1>5, <1>6, LifecycleRun DEF Next, Request

\* Polling the status of a job shows the life that ParseLifecycle describes:
\* forward only, completed is final, and an erased job stays erased.
THEOREM ImplementsParseLifecycle == Spec => ParseLifecycleSpec
<1>1. Init => UnqueuedUnheld
  BY DEF Init, UnqueuedUnheld
<1>2. Spec => [][Lifecycle!Next]_<<Status, Used>>
  BY <1>1, UnqueuedUnheldStep, RowInvariant, AloneInvariant, LifecycleStep, PTL DEF Spec
<1>3. Spec => Lifecycle!Init
  BY LifecycleInit DEF Spec
<1> QED
  BY <1>2, <1>3, PTL DEF ParseLifecycleSpec, Lifecycle!Spec, Status, Used
=============================================================================
