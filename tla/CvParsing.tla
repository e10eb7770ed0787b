------------------------------ MODULE CvParsing ------------------------------
(***************************************************************************)
(* The CV parsing pipeline of one application: the requests that queue     *)
(* parse jobs, the background run of each job, the candidate's AI opt-out, *)
(* the erasure of the application or of its posting, and the worker        *)
(* processes that crash and sweep interrupted jobs when they boot.         *)
(*                                                                         *)
(* A step of this module is what happens between two points where other    *)
(* work can interleave: a commit, or an await of the database or of the    *)
(* LLM.  A run keeps in memory (variable run) what it read earlier, and    *)
(* uses it later, however stale.  The session does not expire objects on   *)
(* commit, so nothing is read again unless the code says so.               *)
(***************************************************************************)
EXTENDS Naturals, FiniteSets

CONSTANTS
  Jobs,         \* identities of cv_parse_jobs rows: one per submit or retry
  Workers,      \* server processes, all running the same application
  Content,      \* what the LLM may extract from the CV (decides the match key)
  NoContent,    \* a profile row with no LLM content
  NoId,         \* the id of a row that does not exist
  NoWorker,     \* where a task is that no event loop holds
  LlmEnabled,   \* settings.llm_enabled
  DiskMayFail,  \* deleting the CV file may fail (the error is suppressed)
  SweepMayFail  \* the sweep at boot may fail (the error is logged, boot goes on)

ASSUME CvParsingAssumption ==
  /\ Jobs # {} /\ Workers # {}
  /\ NoContent \notin Content /\ NoId \notin Jobs /\ NoWorker \notin Workers
  /\ LlmEnabled \in BOOLEAN
  /\ DiskMayFail \in BOOLEAN /\ SweepMayFail \in BOOLEAN

VARIABLES
  app,       \* the applications row: "none", "live", "anonymized", "deleted",
             \* or "unposted": the posting (jobs row) is gone, and the row with it
  cvUrl,     \* applications.cv_url is set
  cvFile,    \* the CV file is on disk
  consent,   \* ai_profiling_consented_at: set iff "granted"
  job,       \* the cv_parse_jobs rows
  profile,   \* the candidate_profiles row (application_id is unique)
  match,     \* the candidate_job_matches row each run wrote
  metered,   \* <<job, operation>> pairs with an api_usage_logs row
  paid,      \* <<job, operation>> pairs of LLM calls that answered
  pc,        \* where the background task of each job stands
  at,        \* the worker whose event loop holds that task, while it runs
  run,       \* what the task has in memory
  mail,      \* the confirmation e-mail queued behind the task
  up,        \* workers that are running
  retrying,  \* a retry request has read the application, not yet committed
  erasing    \* an anonymize request has deleted the file, not yet committed

requestVars == <<retrying, erasing>>
rowVars     == <<app, cvUrl, cvFile, consent, job, profile, match, metered>>
taskVars    == <<pc, at, run, mail, paid>>
vars        == <<rowVars, taskVars, up, requestVars>>

-----------------------------------------------------------------------------
(* Rows.                                                                   *)

InProgress == {"extracting", "parsing"}
JobStatus  == {"absent", "queued", "completed", "failed"} \cup InProgress
JobRow     == [status : JobStatus, rawText : BOOLEAN, error : BOOLEAN]
Row(s)     == [status |-> s, rawText |-> FALSE, error |-> FALSE]

\* Mutant: completing a job forgets to clear raw_text.
MarkCompletedKeepingText(row) == [row EXCEPT !.status = "completed"]

\* Completing a job drops the CV text, but not an error left by a sweep.
MarkCompleted(row) == [row EXCEPT !.status = "completed", !.rawText = FALSE]
MarkFailed(row)    == [row EXCEPT !.status = "failed", !.error = TRUE]

\* A profile row is inserted by at most one run, so that run's job is its id.
ProfileRow == [id : Jobs \cup {NoId}, status : {"absent", "completed", "failed"},
               content : Content \cup {NoContent}]
Profile(i, s, c) == [id |-> i, status |-> s, content |-> c]
NoProfile        == Profile(NoId, "absent", NoContent)

MatchRow == [status : {"absent", "completed", "llm_failed", "llm_disabled"},
             key : Content \cup {NoContent}]
NoMatch  == [status |-> "absent", key |-> NoContent]

Operation == {"cv_parsing", "job_matching"}

Memory   == [optIn : BOOLEAN, seen : ProfileRow, content : Content \cup {NoContent}]
NoMemory == [optIn |-> FALSE, seen |-> NoProfile, content |-> NoContent]

Working == {"scheduled", "loaded", "extract", "parse", "enrich", "upsert", "usage",
            "lookup", "match", "failing", "failWrite", "mail"}
Ended   == {"done", "dead", "lost"}
Place   == {"none"} \cup Working \cup Ended

Exists  == app \in {"live", "anonymized"}

Init ==
  /\ app = "none" /\ cvUrl = FALSE /\ cvFile = FALSE /\ consent = "never"
  /\ job = [j \in Jobs |-> Row("absent")]
  /\ profile = NoProfile
  /\ match = [j \in Jobs |-> NoMatch]
  /\ metered = {} /\ paid = {}
  /\ pc = [j \in Jobs |-> "none"]
  /\ at = [j \in Jobs |-> NoWorker]
  /\ run = [j \in Jobs |-> NoMemory]
  /\ mail = [j \in Jobs |-> "none"]
  /\ up = {} /\ retrying = FALSE /\ erasing = FALSE

-----------------------------------------------------------------------------
(* Requests.                                                               *)

\* create_cv_parse_job and add_task: the row and the background task of j.
Queue(j) ==
  /\ pc[j] = "none"
  /\ job' = [job EXCEPT ![j] = Row("queued")]
  /\ pc' = [pc EXCEPT ![j] = "scheduled"]
  /\ \E w \in up : at' = [at EXCEPT ![j] = w]

\* A candidate applies with a CV; the confirmation e-mail is added to the
\* same request's background tasks, after the parse.
SubmitApplication(j) ==
  /\ app = "none" /\ app' = "live"
  /\ cvUrl' = TRUE /\ cvFile' = TRUE
  /\ consent' \in {"never", "granted"}
  /\ Queue(j)
  /\ mail' = [mail EXCEPT ![j] = "queued"]
  /\ UNCHANGED <<profile, match, metered, paid, run, up, requestVars>>

\* retry_cv_parse reads the application (and needs its cv_url) ...
RetryRead ==
  /\ ~retrying /\ Exists /\ cvUrl
  /\ \E j \in Jobs : pc[j] = "none"
  /\ retrying' = TRUE
  /\ UNCHANGED <<rowVars, taskVars, up, erasing>>

\* ... and commits a new job later, whatever happened to the application
\* row meanwhile, as long as the foreign key still finds it.
RetryCommit(j) ==
  /\ retrying /\ retrying' = FALSE
  /\ Exists
  /\ Queue(j)
  /\ UNCHANGED <<app, cvUrl, cvFile, consent, profile, match, metered,
                 run, mail, paid, up, erasing>>

\* The insert of the new row fails, or the worker serving the request dies.
RetryAbort ==
  /\ retrying /\ retrying' = FALSE
  /\ UNCHANGED <<rowVars, taskVars, up, erasing>>

\* The candidate opts in or out with the tracking token.
SetAiProfilingConsent ==
  /\ Exists
  /\ consent' \in {"granted", "revoked"}
  /\ UNCHANGED <<app, cvUrl, cvFile, job, profile, match, metered,
                 taskVars, up, requestVars>>

\* anonymize: the file goes first, and an error there is suppressed ...
AnonymizeDeleteFile ==
  /\ ~erasing /\ Exists
  /\ erasing' = TRUE
  /\ \/ cvUrl /\ cvFile' = FALSE
     \/ (~cvUrl \/ DiskMayFail) /\ UNCHANGED cvFile
  /\ UNCHANGED <<app, cvUrl, consent, job, profile, match, metered,
                 taskVars, up, retrying>>

\* Mutant: the parse jobs are left behind, so a run in flight finds its row.
AnonymizeCommitKeepingJobs ==
  /\ erasing /\ erasing' = FALSE
  /\ Exists /\ app' = "anonymized"
  /\ cvUrl' = FALSE
  /\ job' = [j \in Jobs |-> [job[j] EXCEPT !.rawText = FALSE]]
  /\ profile' = NoProfile
  /\ match' = [j \in Jobs |-> NoMatch]
  /\ UNCHANGED <<cvFile, consent, metered, taskVars, up, retrying>>

\* ... then one transaction overwrites the row and drops the dependent ones.
AnonymizeCommit ==
  /\ erasing /\ erasing' = FALSE
  /\ Exists /\ app' = "anonymized"
  /\ cvUrl' = FALSE
  /\ job' = [j \in Jobs |-> Row("absent")]
  /\ profile' = NoProfile
  /\ match' = [j \in Jobs |-> NoMatch]
  /\ UNCHANGED <<cvFile, consent, metered, taskVars, up, retrying>>

\* The transaction fails (the row is gone, the database or the worker died).
AnonymizeAbort ==
  /\ erasing /\ erasing' = FALSE
  /\ UNCHANGED <<rowVars, taskVars, up, retrying>>

\* Hard delete: the row and, by cascade, everything but the file.
DeleteApplicationData ==
  /\ Exists /\ app' = "deleted"
  /\ cvUrl' = FALSE
  /\ job' = [j \in Jobs |-> Row("absent")]
  /\ profile' = NoProfile
  /\ match' = [j \in Jobs |-> NoMatch]
  /\ UNCHANGED <<cvFile, consent, metered, taskVars, up, requestVars>>

\* delete_job: the posting goes and, by cascade, its applications with all that
\* hangs on them but the files.  Usage rows stay: they belong to the company.
DeleteJob ==
  /\ app # "unposted" /\ app' = "unposted"
  /\ cvUrl' = FALSE
  /\ job' = [j \in Jobs |-> Row("absent")]
  /\ profile' = NoProfile
  /\ match' = [j \in Jobs |-> NoMatch]
  /\ UNCHANGED <<cvFile, consent, metered, taskVars, up, requestVars>>

-----------------------------------------------------------------------------
(* The background run of job j: CVParsingService.run.                      *)

Here(j, place) == pc[j] = place /\ at[j] \in up

\* A task that ends leaves its event loop, and what it had in memory is gone.
Goto(j, place) ==
  /\ pc' = [pc EXCEPT ![j] = place]
  /\ at' = [at EXCEPT ![j] = IF place \in Working THEN at[j] ELSE NoWorker]

Leave(j, place) == Goto(j, place) /\ run' = [run EXCEPT ![j] = NoMemory]

\* The task returns: the next background task of its request is the e-mail.
Return(j) == Leave(j, IF mail[j] = "queued" THEN "mail" ELSE "done")

\* An exception leaves the task, and skips the tasks queued behind it.
Die(j)    == Leave(j, "dead")

\* A failure while a transaction is open: rollback() expires parse_job, the
\* handler's read of parse_job.application_id needs I/O outside the session's
\* greenlet and raises, so nothing the handler meant to write is written.
FailInTransaction(j) ==
  /\ Die(j)
  /\ UNCHANGED <<rowVars, paid>>

\* Mutant: the except block logs the error and returns.
SwallowFailure(j) ==
  /\ Return(j)
  /\ UNCHANGED <<rowVars, paid>>

\* A failure with no transaction open: rollback() expires nothing and the
\* handler goes on.
FailOutsideTransaction(j) ==
  /\ Goto(j, "failing")
  /\ UNCHANGED <<rowVars, run, paid>>

\* Mutant: a lost row is written again (an upsert in place of the UPDATE).
NeverGone(j) == FALSE

\* An UPDATE of a row that is gone raises StaleDataError.
Gone(j) == job[j].status = "absent"

\* upsert_candidate_profile: the SELECT saw the row seen; the flush inserts
\* (unique application_id) or updates that row, writing only the columns whose
\* value differs from what was seen.
UpsertFails(seen) == profile.id # seen.id
Upsert(j, status, content) ==
  LET seen == run[j].seen
      new  == Profile(IF seen = NoProfile THEN j ELSE seen.id, status, content)
  IN  [col \in {"id", "status", "content"} |->
         IF new[col] = seen[col] THEN profile[col] ELSE new[col]]

\* get_cv_parse_job also loads the application, once, with its consent.
RunLoad(j) ==
  /\ Here(j, "scheduled")
  /\ IF Gone(j) THEN Return(j)
     ELSE /\ Goto(j, "loaded")
          /\ run' = [run EXCEPT ![j].optIn = consent = "granted"]
  /\ UNCHANGED <<rowVars, mail, paid, up, requestVars>>

RunMarkExtracting(j) ==
  /\ Here(j, "loaded")
  /\ IF Gone(j) THEN Die(j) /\ UNCHANGED job
     ELSE /\ Goto(j, "extract") /\ UNCHANGED run
          /\ job' = [job EXCEPT ![j].status = "extracting"]
  /\ UNCHANGED <<app, cvUrl, cvFile, consent, profile, match, metered,
                 mail, paid, up, requestVars>>

\* Read the file (it may be gone or unreadable) and store its text.
RunExtract(j) ==
  /\ Here(j, "extract")
  /\ \/ FailOutsideTransaction(j)
     \/ cvFile /\ Gone(j) /\ FailInTransaction(j)
     \/ /\ cvFile /\ ~Gone(j)
        /\ Goto(j, "parse")
        /\ job' = [job EXCEPT ![j].status = "parsing", ![j].rawText = TRUE]
        /\ UNCHANGED <<app, cvUrl, cvFile, consent, profile, match, metered, run, paid>>
  /\ UNCHANGED <<mail, up, requestVars>>

\* The regex parser, then the call of the LLM: it is made whatever the consent.
RunParse(j) ==
  /\ Here(j, "parse")
  /\ \/ FailOutsideTransaction(j)
     \/ Goto(j, "enrich") /\ UNCHANGED <<rowVars, run, paid>>
  /\ UNCHANGED <<mail, up, requestVars>>

\* The LLM answered with content, gave nothing (disabled, breaker open, error)
\* or the call raised; then the profile row is read.
RunEnriched(j) ==
  /\ Here(j, "enrich")
  /\ \/ LlmEnabled /\ FailInTransaction(j)
     \/ \E c \in (IF LlmEnabled THEN Content ELSE {}) \cup {NoContent} :
          /\ Goto(j, "upsert")
          /\ run' = [run EXCEPT ![j].content = c, ![j].seen = profile]
          /\ paid' = IF c = NoContent THEN paid ELSE paid \cup {<<j, "cv_parsing">>}
          /\ UNCHANGED rowVars
  /\ UNCHANGED <<mail, up, requestVars>>

\* The job completes and the profile is written in one transaction.
RunComplete(j) ==
  /\ Here(j, "upsert")
  /\ IF Gone(j) \/ UpsertFails(run[j].seen)
     THEN FailInTransaction(j)
     ELSE /\ job' = [job EXCEPT ![j] = MarkCompleted(@)]
          /\ profile' = Upsert(j, "completed", run[j].content)
          /\ IF run[j].content = NoContent THEN Return(j)
             ELSE Goto(j, "usage") /\ run' = [run EXCEPT ![j].seen = profile']
          /\ UNCHANGED <<app, cvUrl, cvFile, consent, match, metered, paid>>
  /\ UNCHANGED <<mail, up, requestVars>>

\* Mutant: only a run that goes on to match commits its usage row.
RunLogUsageIfMatching(j) ==
  /\ Here(j, "usage")
  /\ \/ app = "unposted" /\ Return(j) /\ UNCHANGED <<rowVars, paid>>
     \/ ~Exists /\ FailInTransaction(j)
     \/ /\ Exists
        /\ metered' = IF run[j].optIn THEN metered \cup {<<j, "cv_parsing">>}
                                      ELSE metered
        /\ IF run[j].optIn THEN Goto(j, "lookup") /\ UNCHANGED run ELSE Return(j)
        /\ UNCHANGED <<app, cvUrl, cvFile, consent, job, profile, match, paid>>
  /\ UNCHANGED <<mail, up, requestVars>>

\* The posting is read for its company.  If it is gone, the usage row is skipped,
\* and the matching too, and the run ends as if nothing had happened.  If it is
\* found, the usage row refers to the application, and fails once that is deleted
\* (the posting may go between the read and the insert).  Matching follows, with
\* the posting in memory, if the consent read at the start was given.
RunLogUsage(j) ==
  /\ Here(j, "usage")
  /\ \/ app = "unposted" /\ Return(j) /\ UNCHANGED <<rowVars, paid>>
     \/ ~Exists /\ FailInTransaction(j)
     \/ /\ Exists
        /\ metered' = metered \cup {<<j, "cv_parsing">>}
        /\ IF run[j].optIn THEN Goto(j, "lookup") /\ UNCHANGED run ELSE Return(j)
        /\ UNCHANGED <<app, cvUrl, cvFile, consent, job, profile, match, paid>>
  /\ UNCHANGED <<mail, up, requestVars>>

\* match_key hashes the profile content; the job snapshot is constant here.
MatchKey(seen) == seen.content

\* get_job_match_by_key: a row with the key ends the run, none leads to the
\* matcher call.
MatchesOf(key) == {j \in Jobs : match[j].status # "absent" /\ match[j].key = key}

RunMatchLookup(j) ==
  /\ Here(j, "lookup")
  /\ IF MatchesOf(MatchKey(run[j].seen)) = {} THEN Goto(j, "match") /\ UNCHANGED run
                                             ELSE Return(j)
  /\ UNCHANGED <<rowVars, mail, paid, up, requestVars>>

\* The insert of a match fails once the profile it refers to is gone, and once
\* another run has inserted the key: the database holds it unique.
MatchInsertFails(j) ==
  \/ profile.id # run[j].seen.id
  \/ MatchesOf(MatchKey(run[j].seen)) # {}

\* The matcher answered, gave nothing, or raised; then the row is saved with
\* the usage row of the call.
MatchOutcome == IF LlmEnabled THEN {"completed", "llm_failed"} ELSE {"llm_disabled"}

RunMatched(j) ==
  /\ Here(j, "match")
  /\ \/ LlmEnabled /\ FailInTransaction(j)
     \/ \E s \in MatchOutcome :
          LET calls == IF s = "completed" THEN {<<j, "job_matching">>} ELSE {}
          IN  /\ paid' = paid \cup calls
              /\ IF MatchInsertFails(j) THEN Die(j) /\ UNCHANGED <<match, metered>>
                 ELSE /\ match' = [match EXCEPT ![j] = [status |-> s,
                                                       key |-> MatchKey(run[j].seen)]]
                      /\ metered' = metered \cup calls
                      /\ Return(j)
              /\ UNCHANGED <<app, cvUrl, cvFile, consent, job, profile>>
  /\ UNCHANGED <<mail, up, requestVars>>

\* The except block, when the row's attributes can still be read: it reads the
\* profile, then writes "failed" to the job and to the profile.
HandlerRead(j) ==
  /\ Here(j, "failing")
  /\ Goto(j, "failWrite")
  /\ run' = [run EXCEPT ![j].seen = profile]
  /\ UNCHANGED <<rowVars, mail, paid, up, requestVars>>

HandlerWrite(j) ==
  /\ Here(j, "failWrite")
  /\ IF Gone(j) \/ UpsertFails(run[j].seen) THEN Die(j) /\ UNCHANGED <<job, profile>>
     ELSE /\ job' = [job EXCEPT ![j] = MarkFailed(@)]
          /\ profile' = Upsert(j, "failed", NoContent)
          /\ Return(j)
  /\ UNCHANGED <<app, cvUrl, cvFile, consent, match, metered, mail, paid, up, requestVars>>

\* The next background task of the submit request.
SendConfirmation(j) ==
  /\ Here(j, "mail")
  /\ Goto(j, "done")
  /\ mail' = [mail EXCEPT ![j] = "sent"]
  /\ UNCHANGED <<rowVars, run, paid, up, requestVars>>

RunStep(j) ==
  \/ RunLoad(j) \/ RunMarkExtracting(j) \/ RunExtract(j) \/ RunParse(j)
  \/ RunEnriched(j) \/ RunComplete(j) \/ RunLogUsage(j)
  \/ RunMatchLookup(j) \/ RunMatched(j)
  \/ HandlerRead(j) \/ HandlerWrite(j) \/ SendConfirmation(j)

-----------------------------------------------------------------------------
(* Worker processes.                                                       *)

\* A process dies with every task in its event loop.
WorkerCrash(w) ==
  /\ w \in up /\ up' = up \ {w}
  /\ LET lost(j) == at[j] = w
     IN  /\ pc'  = [j \in Jobs |-> IF lost(j) THEN "lost" ELSE pc[j]]
         /\ at'  = [j \in Jobs |-> IF lost(j) THEN NoWorker ELSE at[j]]
         /\ run' = [j \in Jobs |-> IF lost(j) THEN NoMemory ELSE run[j]]
  /\ UNCHANGED <<rowVars, mail, paid, requestVars>>

\* Mutant: the sweep forgets its WHERE clause.
SweepEveryJob == [j \in Jobs |-> IF job[j].status # "absent" THEN MarkFailed(job[j])
                                                             ELSE job[j]]

\* Mutant: the sweep overlooks the jobs that were still extracting.
SweepParsingOnly == [j \in Jobs |-> IF job[j].status = "parsing" THEN MarkFailed(job[j])
                                                                 ELSE job[j]]

\* A process boots: every job in progress, of any worker, is marked failed.
Sweep == [j \in Jobs |-> IF job[j].status \in InProgress THEN MarkFailed(job[j])
                                                         ELSE job[j]]

\* Mutant: the sweep also runs while the process serves (a periodic cleanup).
LifespanPeriodic(w) ==
  /\ up' = up \cup {w}
  /\ job' = Sweep
  /\ UNCHANGED <<app, cvUrl, cvFile, consent, profile, match, metered,
                 taskVars, requestVars>>

Lifespan(w) ==
  /\ w \notin up /\ up' = up \cup {w}
  /\ \/ job' = Sweep
     \/ SweepMayFail /\ UNCHANGED job
  /\ UNCHANGED <<app, cvUrl, cvFile, consent, profile, match, metered,
                 taskVars, requestVars>>

Request ==
  \/ \E j \in Jobs : SubmitApplication(j) \/ RetryCommit(j)
  \/ RetryRead \/ RetryAbort \/ SetAiProfilingConsent
  \/ AnonymizeDeleteFile \/ AnonymizeCommit \/ AnonymizeAbort
  \/ DeleteApplicationData \/ DeleteJob

Next ==
  \/ Request
  \/ \E j \in Jobs : RunStep(j)
  \/ \E w \in Workers : WorkerCrash(w) \/ Lifespan(w)

\* The event loop runs what it holds, the LLM client times out, and the
\* supervisor restarts a process that died.  No request is ever owed.
Fairness ==
  /\ \A j \in Jobs : WF_vars(RunStep(j))
  /\ \A w \in Workers : WF_vars(Lifespan(w))

Spec == Init /\ [][Next]_vars /\ Fairness

-----------------------------------------------------------------------------
(* Properties.                                                             *)

(* The declared value of every variable.                                   *)
TypeOK ==
  /\ app \in {"none", "live", "anonymized", "deleted", "unposted"}
  /\ cvUrl \in BOOLEAN /\ cvFile \in BOOLEAN
  /\ consent \in {"never", "granted", "revoked"}
  /\ job \in [Jobs -> JobRow]
  /\ profile \in ProfileRow
  /\ match \in [Jobs -> MatchRow]
  /\ metered \subseteq Jobs \X Operation
  /\ paid \subseteq Jobs \X Operation
  /\ pc \in [Jobs -> Place]
  /\ at \in [Jobs -> Workers \cup {NoWorker}]
  /\ run \in [Jobs -> Memory]
  /\ mail \in [Jobs -> {"none", "queued", "sent"}]
  /\ up \subseteq Workers
  /\ retrying \in BOOLEAN /\ erasing \in BOOLEAN

\* A run that returned (rather than died or was lost) left its job settled: no
\* job stays "extracting" or "parsing" behind a run that reported no error.
CleanRunSettles ==
  \A j \in Jobs : pc[j] \in {"mail", "done"} =>
    job[j].status \in {"completed", "failed", "absent"}

\* A profile shown as parsed is backed by a completed job: the two rows are
\* written in one transaction, and every erasure removes both.
ProfileBackedByJob ==
  profile.status = "completed" => \E j \in Jobs : job[j].status = "completed"

\* Data minimisation (F-14): the full CV text is kept only by a job that has
\* not completed, also when the job was swept, or retried beside another run.
TextOnlyWhileUnfinished ==
  \A j \in Jobs : job[j].rawText => job[j].status \in {"parsing", "failed"}

\* A run that returned has metered every LLM call that answered it, and no
\* usage row is written for a call that did not.  One call escapes: the CV call
\* of a run whose posting was deleted before its usage row, which then does not
\* go on to pay for a match.
CleanRunIsMetered ==
  /\ metered \subseteq paid
  /\ \A j \in Jobs : pc[j] \in {"mail", "done"} =>
       /\ <<j, "job_matching">> \in paid =>
            {<<j, "cv_parsing">>, <<j, "job_matching">>} \subseteq metered
       /\ <<j, "cv_parsing">> \in paid =>
            <<j, "cv_parsing">> \in metered \/ app = "unposted"

\* Erasure is complete as long as the disk works: no run, and no retry that
\* read the application before it was anonymized, brings back CV data.
AnonymizedHoldsNoCvData ==
  app = "anonymized" /\ ~DiskMayFail =>
    /\ ~cvFile /\ ~cvUrl
    /\ profile.status # "completed"
    /\ \A j \in Jobs : ~job[j].rawText /\ match[j] = NoMatch

\* The error message of a job is that of its last outcome.  It holds when one
\* process runs: the sweep of a second process may hit a job whose run is
\* alive, and completes with the restart message still on it.
ErrorOnlyIfFailed ==
  \A j \in Jobs : job[j].error => job[j].status = "failed"

\* A job that is not settled is being run by a process that is up, never behind a
\* run that returned.  Else its run died of an exception, or with its process; and
\* what a dead process left in progress is swept once all processes are up.
UnsettledJobsAreRun ==
  \A j \in Jobs : job[j].status \in InProgress \cup {"queued"} =>
    \/ pc[j] \in Working \ {"mail"} /\ at[j] \in up
    \/ pc[j] = "dead"
    \/ pc[j] = "lost" /\ (job[j].status = "queued" \/ SweepMayFail \/ up # Workers)

\* A job whose run was lost in a crash is marked failed once a process boots.
InterruptedJobIsFailed ==
  \A j \in Jobs : pc[j] = "lost" /\ job[j].status \in InProgress
                  ~> job[j].status \notin InProgress

\* Opting out "stops all future LLM calls for this application".
NoLlmCallAfterOptOut ==
  [][\A j \in Jobs : pc'[j] # pc[j] /\ pc'[j] \in {"enrich", "match"}
                      => consent # "revoked"]_vars

\* "A second match call with the same key short-circuits": the matcher is not
\* paid for a key that a match has.
KeyIsPaidOnce ==
  [][\A j \in Jobs : <<j, "job_matching">> \in paid' \ paid
                       => MatchesOf(MatchKey(run[j].seen)) = {}]_vars

\* What the recruiter sees of a job is the abstract life of a parse job.
Lifecycle == INSTANCE ParseLifecycle WITH
  status  <- [j \in Jobs |-> job[j].status],
  used    <- {j \in Jobs : pc[j] # "none"},
  Overlap <- \E v, w \in Workers : v # w

ParseLifecycleSpec == Lifecycle!Spec
=============================================================================
