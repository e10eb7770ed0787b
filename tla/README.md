# ATS platform backend: TLA+ models and proofs

The backend is a FastAPI application over PostgreSQL for applicant tracking:
companies publish jobs, candidates apply with a CV, an LLM enriches the parsed
CV and matches it with the job, recruiters move applications through a
pipeline. It runs as several uvicorn worker processes (`Dockerfile`,
`--workers 4`), each with one event loop; a request has one database session
that is committed when its handler returns (`app/core/database.py:71-84`);
background tasks run in the same process after the response.

This directory holds TLA+ modules for the parts of it where steps of several
actors, failures and restarts decide what is correct, TLC runs over small
instances, and proofs that hold for every instance.

## 1. Inventory

| Part | State | Operations | Interacts with | Module |
|---|---|---|---|---|
| CV parsing pipeline (`services/cv_parsing.py`) | `cv_parse_jobs`, `candidate_profiles`, `candidate_job_matches`, `api_usage_logs`, the CV file | queue (submit, retry), one background run per job, failure handler | LLM client, erasure, consent, start-up sweep | `CvParsing`, `ParseLifecycle` |
| Start-up sweep (`main.py:44-63`) | job status and error | one UPDATE at the boot of every worker | runs of *other* workers | `CvParsing` |
| Regex CV parser | lines, sections, entries | read a CV line by line | the pipeline | `CvTimeline` |
| AI-profiling consent | `ai_profiling_consented_at` | opt in, opt out | read once by a run | `CvParsing` |
| LLM client and breaker (`services/llm`) | failures, `opened_at`, per process, in memory | call with retries, health probe | every LLM feature of the process | `LlmBreaker` |
| Pipeline, bulk actions, notifications | stage of an application, history, stages, events | move, bulk move/reject/tag, create/rename/reorder/delete a stage | e-mail, audit log, interviews, rules | `Pipeline` |
| Interviews | link, status | create, PATCH, delete | the interview stage | `Interviews`, `Pipeline` |
| Automation rules, e-mail templates | rules, templates | create, PATCH, toggle, delete | what fires: notifications | `AutomationRules` |
| Jobs | job status and content, analyses, `suggest_used_at`, usage rows | autosave, publish, clone, analyse, suggest, daily budget | LLM client, usage rows | `Jobs` |
| Forms | forms, questions, the form of an offer, answers | create, add and delete questions, assign, fill in | jobs, applications | `Forms` |
| Submissions, duplicates | applications, duplicate links | check, submit, link | erasure | `Submissions` |
| Erasure and retention (`modules/consents`) | application row and its dependants, the CV file, `data_retention_until` | anonymize, hard delete, clean-up | runs and retries in flight | `Retention`, `CvParsing`, `Submissions` |
| Consents | consents, the answers to them | create, PATCH, delete, record | applications | `Consents` |
| Accounts, invitations | users, invitations | sign up, invite, resend, revoke, accept | every guarded route | `Invitations` |
| Sessions of staff, candidates, admins | accounts, refresh tokens | log in, refresh, log out, deactivate | every guarded route | `Sessions` |
| Reviews | templates, assignments, responses | default template, assign, submit | applications | `Reviews` |
| Partner presentation | code, view counter, cap | open, create, change, renew, delete | - | `PartnerAccess` |
| Tags, saved jobs and companies, scores, newsletter | one row per pair | check-then-insert, remove | cascades | `Links` |
| Organizer, tasks | schedules, tasks | upsert, create, PATCH, delete | - | `Organizer` |
| Articles | flag, slug, cover | create, PATCH, publish, feature, delete | images | `Articles`, `Images` |
| Company profile | slug, images | PATCH, upload, remove | images | `CompanyProfile`, `Images` |
| Schema migrations (`alembic/`) | the tables, the revision, the rows | upgrade, downgrade | the models of every module | `Migrations`, `Revisions`, `OrmTables` |
| Notes, audit log, reports, usage dashboards, i18n, rate limits, seeds | rows that are only added, reads, text | - | - | not modelled (section 6) |

What is hard in it:

* *Interleaving at every await.* Handlers read a row, await, and write it; the
  session neither expires objects on commit nor autoflushes, so a run acts on
  what it read long ago, and SQLAlchemy writes only the columns that differ
  from what was read. Nothing takes a row lock for reading, nothing has a
  version check.
* *Several processes, one database.* The start-up sweep of one process fails
  the jobs another one still runs; the breaker is per process.
* *Failure halfway.* A background task has several commits. After a failure
  with an open transaction, `rollback()` expires the job and the failure
  handler's own read of it raises (`cv_parsing.py:540`), so the failure is not
  recorded.
* *Files*, which no transaction covers, beside rows that name them.
* *Erasure beside runs in flight.*
* *Time:* windows, cool-downs, retries with backoff, late answers.
* *A database that is migrated with rows in it*, up and down, by commands that
  may start together.

`PROJECT.json` lists every hazard at its line with the properties that would
catch it.

### What makes each part correct

* Parsing: a run that returned left its job settled; a parsed profile is backed
  by a completed job; completed jobs keep no CV text; every LLM call of a clean
  run is metered, but for the CV call of a run whose posting is deleted beside it;
  an interrupted job ends up failed; polling never sees a completed job go back. No line of a timeline is lost but for named reasons.
* Erasure: nothing brings CV data back into an anonymized application; files go
  with rows unless a rollback or the disk parted them; what was to be kept longer
  is kept.
* Breaker: opens only on a burst; late results neither prolong a cool-down nor
  pile up; calls end.
* Pipeline: an application that was moved is in a stage of its history, which
  exists, and in the one its history names last unless moves overlapped, or in
  none when a stage it was in was deleted beside the move; no mail tells of a move
  that was rolled back. A meeting has a link. A rule names a
  template of its company, and is switched as often as asked.
* Jobs: an open offer is complete unless a write to it went unvalidated; the
  daily budget and the one-time suggestion hold but for calls that overlap; a
  result and the usage row that paid for it are committed together.
* Forms, consents, submissions: an offer has one form, the last it was given, unless
  edits overlapped; answers are there whole, as last given, no longer
  than what they are about; nobody changes another company's rows; an application
  is linked to every like one that was there.
* Invitations and sessions: one account for each address; an invitation ends
  once, with the link that was sent last; a refresh token has one heir; a
  deactivation ends sessions.
* Rows: at most one featured article, one row of a pair, one default template,
  one slug for good; columns that belong together stay together; a submitted
  review stays; the view counter counts. Where the code does not hold what it
  intends, the property names the exact overlap that is to blame.
* Migrations: no operation fails on what it finds; the newest revision has the
  tables of the models; rows survive, but for two losses that the revisions intend.

## 2. Modules

```
ParseLifecycle            abstract life of a parse job
   ^  INSTANCE ... WITH
CvParsing                 the pipeline, erasure, consent, sweep, crashes
   ^ EXTENDS                 ^ EXTENDS
MCCvParsing (TLC)         CvParsingProofs <- CvParsingLifecycleProofs

LlmBreaker                retries and the circuit breaker of one process
   ^ EXTENDS
LlmBreakerProofs

StageJournal              abstract: moves and batches take effect at once
   ^  INSTANCE ... WITH
Pipeline                  stages, moves, history, bulk actions, mails
   ^ EXTENDS                 ^ EXTENDS
MCPipeline (TLC)          PipelineProofs

InvitationBook            abstract: requests take effect one after another
   ^  INSTANCE ... WITH
Invitations               invitations and the accounts of addresses
   ^ EXTENDS                 ^ EXTENDS
MCInvitations (TLC)       InvitationsProofs

Jobs                      offers, the publish gate, LLM calls and their budget
   ^ EXTENDS                 ^ EXTENDS
MCJobs (TLC)              JobsProofs

Requests                  a request: read, others run, commit or roll back
   ^ EXTENDS
Sessions PartnerAccess Reviews Articles Images Links Organizer CompanyProfile
Interviews Submissions AutomationRules Retention Forms Consents
   (Reviews INSTANCE Scorecards, abstract: a review is one step)
Migrations (INSTANCE Revisions, OrmTables)
                          CvTimeline <- CvTimelineProofs
   ^ EXTENDS                 ^ EXTENDS
MCDesk (TLC, all of them) DeskProofs (all with theorems)
```

### CvParsing

All rows of *one* application: the pipeline touches nothing across
applications. A step is what happens between two points where other work can
interleave: a commit, an await of the database or of the LLM.

| Variable | Code |
|---|---|
| `app`, `cvUrl`, `consent` | `applications` row (also whether the posting it is for is gone), its `cv_url` and `ai_profiling_consented_at` |
| `cvFile` | the file under the upload directory |
| `job` | `cv_parse_jobs`: status, whether `raw_text` and `error_message` are set |
| `profile`, `match`, `metered` | `candidate_profiles` (unique per application), `candidate_job_matches`, `api_usage_logs` |
| `pc`, `at`, `run`, `mail` | where each background task stands, the worker that holds it, the stale objects it has in memory, the e-mail queued behind it |
| `paid` | observer: LLM calls that gave a valid answer |
| `up` | worker processes that run |
| `retrying`, `erasing` | a retry or anonymize request between its read (or its file deletion) and its commit |

`RunLoad`, `RunMarkExtracting`, `RunExtract`, `RunParse`, `RunEnriched`,
`RunComplete`, `RunLogUsage`, `RunMatchLookup` and `RunMatched` are the
consecutive stretches of `CVParsingService.run` and `_run_matching`. Each can
fail; `FailInTransaction` and `FailOutsideTransaction` are the two ways the
`except` block goes. An UPDATE of a row that is gone raises (`Gone`), an INSERT
or UPDATE of the profile fails when the row it saw is not the row that is there
(`UpsertFails`), and `Upsert` writes only the changed columns. The posting may be
deleted at any time (`DeleteJob`), which takes the application with it.
`RunLogUsage` reads it for the company of the usage row: if it is gone, that row
and the matching are skipped without an error (`cv_parsing.py:503`, 574), while a
usage row for an application that alone is gone is refused. What is abstracted: the texts, the fields of the profile (only "which LLM content"
remains, because the match key hashes it: `MatchKey`), the job snapshot (constant here),
the usage amounts. `confirm_cv_parse` is not modelled: no route reaches it.

`paid` holds calls whose answer validated; a call whose answer failed
validation costs tokens as well, and the code meters none of those.

### ParseLifecycle

What a recruiter may rely on when polling: a job is queued once, moves forward,
*completed is final*, and an erased job never comes back. *Failed* is final as
well unless processes overlap (`Overlap`), for then a sweep may fail a job that
another process is still running.

### LlmBreaker

The calls of one process (`BaseLLMService._call`, `call_with_retry`) and the
`LLMCircuitBreaker` they share. The code keeps monotonic timestamps; the module
keeps their ages, which saturate just beyond the point where a comparison can
tell the difference, so that time can go on for ever in a finite state space.
The first call after the cool-down, or the health endpoint, resets the breaker.
`Timeout` and `Backoff` bound an attempt and a pause. The SDK's timeout applies
to each network operation, so the bound on a whole attempt is an idealisation;
only `EveryCallReturns` and `RetriesUseUpTheTime` depend on it. `phase` and
`probes` only observe.

### Pipeline

| Variable | Code |
|---|---|
| `name` | the `pipeline_stages` rows; of a name only whether it is "interview" or "rejected" matters |
| `submitted`, `stage` | `applications` rows and their `stage_id` |
| `history` | `application_stage_history`: stage and `changed_at` |
| `ready` | applications for which `get_stage_ready_interview` finds one |
| `req`, `ended` | the requests: what each has read, set and added, or which mails are left to send |
| `clock` | transaction starts, which `now()` returns |
| `contended` | observer: applications with moves that overlapped |

A single move (`PATCH /applications/{id}/stage`) is a batch of one. `MoveItem`
and `RefuseItem` are one round of the loop of `bulk_action`, or the body of
`update_application_stage`; `CommitMove` is the commit of `get_db` when the
handler has returned. With FastAPI 0.116 that is before the response, so the
background tasks (`FinishTasks`) come after it. `WrittenStage` is what the
session writes: a batch that names an application twice, or that moves it to
the stage it was in when read, has no UPDATE to send although it adds history.
A deletion counts what refers to the stage (`DeleteStageCheck`), selects the
applications in it (`DeleteStageSelect`: the relationship has no
`passive_deletes`), and then sets *their* `stage_id` to NULL by primary key and
deletes the row (`DeleteStage`): an application that a committed move has taken
elsewhere since the selection loses its new stage, and so does, by `ON DELETE SET
NULL`, one that entered the deleted stage. A history row that names the stage
refuses all of it (its `stage_id` is NOT NULL, and the key says `RESTRICT`).
Left out: positions and their reordering, the tag
branch, the interview rows behind `ready` (module `Interviews`), cascades of a
hard delete. Whether
`notify_candidate` was sent, and how many rules match, is a choice.

### Invitations

| Variable | Code |
|---|---|
| `account` | `users`: which user has an address (unique in the database) |
| `inv` | `user_invitations`; of `expires_at` only whether it has passed |
| `req`, `ended` | requests between their reads and their commit, and those that answered |
| `raced`, `revived`, `used` | observers: invitations handled by two requests at one time; renewed after they expired; the token of the acceptance |

`...Read` is the checks of a request, `...Commit` what its session commits: an
UPDATE of the columns that the handler set and no others, so that a revocation
may be written over an acceptance. Tokens are fresh, hence named after the
request that issues them, as are invitations and users. A request that is
refused is no step. `preview` only reads. An address is what is stored:
`invite` lowers its case and `signup_company` does not, so two spellings are two
addresses to the code and here.

### StageJournal, InvitationBook, Scorecards

What a user may take requests for: steps that happen at once or not at all. A
handler reads, awaits and commits, with other requests between; these modules have
one action per outcome, and the detailed modules are shown to implement them.

`StageJournal` (of `Pipeline`): a batch enters all its moves under one time that no
other move has, the journal is only added to and keeps the stages it names, and of
an application that no two requests move at one time (`shared`, the observer
`contended`) it tells the moves in their order. Only a removal of a stage takes
applications out of theirs: those in it, and those that it had met in it when it
began (`marked`), wherever they are by then. `InvitationBook` (of `Invitations`):
a request acts on an invitation that is open at that moment, with its last link, as
if nothing ran beside it; only where two requests handle one invitation at one time
(`raced`) may one act on what is no longer so, and even then it is accepted once,
for an address without an account. `Scorecards` (of `Reviews`): no such exception;
the constraints of the database make assignments and submissions atomic.

They imply properties that the detailed modules state by themselves and that have
proofs of their own, so no run checks those again: `StageIsRecorded` and
`HistoryEndsAtStage`, `AcceptedIsTheAccount` and `OneEnd`, `SubmittedReviewStays`.
In the same way `UnsettledJobsAreRun` implies `CleanRunSettles`.

### Jobs

| Variable | Code |
|---|---|
| `life`, `jobs` | the `jobs` rows: the columns `PublishValidator` looks at and the status |
| `suggested` | whether `suggest_used_at` is set |
| `results` | `job_analyses` and `job_risk_assessments`, one row per job each: which request wrote it last |
| `usage`, `spent` | the committed `api_usage_logs` rows, and the cost of those of the last 24 hours |
| `req`, `ended` | the row a request read, its patch, or how far its LLM call is |
| `unchecked`, `knew`, `peak`, `background` | observers: was the last write validated against the row it met; the usage rows a request could have seen; the most calls in flight together; what the CV pipeline spent |

Of a column only what the validator distinguishes is kept: nothing (or blank),
HTML without text, text. `Accepted` is `JobService.update`: the gate refuses the
status and saves the rest, and does not look at an offer that is open.
`Written` is what the session sends, the columns that differ from the row it
read, so that two edits of different columns both take. The LLM endpoints are
`Load` (ownership, the checks of the offer), `CheckBudget`, `Answer` (the call
has returned, and the row to replace was looked up) and `Save` (usage row,
result or mark, and the commit of `get_db`). Everything between is one open
transaction; `Abort` is its rollback, for any reason: a refusal after the read,
no answer, a row that is gone or already there, a worker that dies, or
PostgreSQL's `idle_in_transaction_session_timeout` of 60 s
(`core/config.py:58`) during a call with retries. `CvUsage` is the CV pipeline,
which adds usage rows and never asks for the budget. Left out: the form of an
offer (module `Forms`), risk items, mitigations, the public listings, and the contents of answers.

### Requests, and the modules that extend it

`Requests` is a request of the API and its session: `Begin` reads, `End` commits
or rolls back, and between them others run. `req` is what it holds in memory,
`ended` who is done, and `saw` observes who had ended when it began, so that
`Overlap(q, r)` says that two requests ran beside each other. The modules below
keep the rows of their component besides, in variables named after the tables,
and observers where a property needs to know who wrote what. `...Read` is what
a handler checks and reads, `...Commit` what its session then writes: the columns
that differ from those read, after the constraints of the database have been
asked. A commit that a constraint refuses is a rollback (`...Abort`), which is
also what a refusal after the read, a crash or a time-out comes to. Rows are
named after the request that inserts them; a request identity is used once.

| Module | Rows (code) | What is abstracted |
|---|---|---|
| `Sessions` | `users`, `candidates`, `admins`: active or not; the three tables of refresh tokens | passwords, cookies, roles, access tokens, the Google redirect |
| `PartnerAccess` | `partner_access_tokens`: code, cap, counter, active, expired | the deck, labels |
| `Reviews` | templates (their criteria), assignments, responses | comments, due dates; the flush inserts before it deletes |
| `Articles` | `articles`: slug, published, featured | texts, promotion; `FlushArticle` and the `UPDATE` of the others are a step of their own before the commit |
| `Images` | one-image columns and galleries, the files under `uploads/` | order and captions; a PATCH that names images itself |
| `Links` | saved jobs and companies, tags, scores, newsletter addresses: one row per pair | the values; tags have a generated id in their key, so two rows are possible |
| `Organizer` | `work_schedules` (status, times), `tasks` (completed, when) | one day; texts |
| `CompanyProfile` | `companies.slug` | the other sections |
| `Interviews` | `interviews`: link, status | dates, notes, recruiters |
| `Submissions` | `applications` (e-mail, phone, opening), `application_duplicate_links` | what hangs on an application besides |
| `AutomationRules` | `automation_rules` (template, active), `email_templates` | triggers and texts |
| `Retention` | `applications` (file, date, erased), the files, the clock | what else an erasure deletes (`CvParsing`) |
| `Forms` | `form_templates`, `form_fields`, `job_form_templates` (`formOf`: its key holds a generated id, so an offer may come to have several rows, and edits then fail), `application_answers` | labels, types, order |
| `Consents` | `consents` (owner, wording), `application_consents` (answer, date) | names, languages, flags |

`Retention`: a row that the clean-up has written is locked until it ends, so
others wait (`Free`); it is the one place where the lock decides what is
possible. In `Submissions` the lookup is cut at `MostMatches`, as the code's
`LIMIT` does.

### CvTimeline

`CVProfileParser`: how lines fall into sections and, of experience and
education, into entries. The code collects the lines of a section first and then
parses them; here each line goes on to its entry at once, which comes to the
same because nothing looks ahead. What the regular expressions and keyword tables
say of a line is its kind, chosen freely among the combinations that they can
give: `BodyKinds`, `MayName`, `MayPlace`, `NamesBoth`. A heading moves to another
section, a date pushes the entry being filled, `FinishParse` cuts the list to
`MostEntries`.

### Migrations, Revisions, OrmTables

`Revisions` holds the 32 revisions of `alembic/versions`, each as the operations
its `upgrade` and its `downgrade` run, interpreted over a database: tables as
sets of items (columns, `UNIQUE` and `CHECK` constraints, a few marks) and facts
about rows. An operation that the tables or the rows refuse fails
(`RunOperations`). `OrmTables` is what the models of the program declare.
`Migrations` are the commands that walk between revisions, each in one
transaction, and the program of the revision that writes rows between them.
Foreign keys and plain indexes are left out. Each value that is written is a token
of its own, so that a description and a summary beside it can be told apart:
`RowsSurvive` says which tokens a command keeps, and names what revision 14
(`d5e6`, a description that stands beside a summary) and revision 31 (`c6d7`, a
second score of one recruiter) drop on purpose.

## 3. Runs

| Run | Instance | Question | Result |
|---|---|---|---|
| `parse_workers` | 2 jobs, 2 workers, LLM off, the disk may fail | what may a poller rely on when processes overlap, crash and boot? | passes, 506,448 states |
| `parse_erasure` | 3 jobs, 1 worker, LLM on, the sweep may fail, symmetric | metering and erasure with runs and retries in flight | passes, 1,235,344 states |
| `parse_optout` | 1 job, 1 worker | does opting out stop LLM calls? | no |
| `parse_matchkey` | 2 jobs, 1 worker | is a match key paid for once? | no |
| `llm_breaker` | 3 calls, threshold 3, window 2, cool-down 3, 3 attempts | bursts, late results, memory, the time of a call, termination | passes, 54,636 states |
| `pipeline` | 1 application, 3 stages, 2 requests, batches of two | do overlapping moves, batches and deletions keep stage and history together, and are they atomic? | passes, 738,309 states |
| `invitations` | 5 requests, 2 companies, 2 addresses, symmetric | how may an invitation end, who makes the account, and is each request as if alone? | passes, 85,113 states |
| `invitation_lookup` | 3 requests, 1 company, 1 address | is there one active invitation of an address? | no |
| `jobs` | 3 requests, 2 offers, budget 2, cost to 2, symmetric | what do gate, budget, suggestion, metering and autosave guarantee when requests overlap? | passes, 149,041 states |
| `job_gate` | 2 requests, 1 offer | is an offer complete when it opens? | no |
| `llm_probe` | 2 calls, threshold 1 | is one probe allowed after the cool-down? | no, all are |
| `desk` | 3 or 4 requests per component (below), symmetric | what do the components of `Requests`, the migrations and the CV timelines keep when requests overlap and fail? | passes, 1,053,496 states |

*Why the bounds are enough.* Two jobs give a submit beside a retry; the third
in `parse_erasure` is needed for the lookup that finds two matches. Two workers
give the sweep of one beside the run of the other. A single content makes all
match keys collide, which is the interesting case. In `llm_breaker` the calls in
flight reach the threshold, the window is shorter than the cool-down, so late
failures arrive both inside and outside it, and a call has the three attempts
the settings give it. The jobs bound the number of retries; nothing else is
capped. In `pipeline` two requests are what can overlap on one application, and
three stages give both a target besides the stage the application is in; one of
them may be deleted. The batch names the application twice, which exercises
the session's memory of it. Applications meet only in the commit of one batch;
the theorems below cover any number of them. Stage and request identities are
not used again, which bounds the run.

`CHECK_DEADLOCK FALSE` is set in the `parse_*` runs: once all jobs of the
instance are used and the application is deleted, with the worker running,
only crashes and boots are left, and in other corners nothing at all. The same
holds in `pipeline` and in the runs of `Invitations` once the identities of
stages and requests are used up.

In `invitations` five requests are an invite of each of two companies, and three
more to send, revoke, accept or sign up between; each request identity is used
once, which bounds the run and lets it stop.

In `jobs` three requests let a third begin between the checks of two others and
their commits, or delete the offer they work on; the second offer is the target
of a clone. The budget equals the cost of one dear call or two cheap ones, and
the CV pipeline spends at most 1 (`MaxBackground`), so the sum meets the budget
exactly and passes it. The offer at the start is empty, lacks only its place of
work, or (a new one) is complete; the patches supply the place, open, open and
supply, empty a text that the gate asks for, half-empty the salary, and close.
Requests run out, hence `CHECK_DEADLOCK FALSE`. Requests are interchangeable and
only invariants are checked, so the symmetry is sound. Nothing in `Jobs` is owed:
a request may fail at any point, and no fairness is assumed.

The components of `desk` share no state, so `MCDesk` chooses one of them in the
initial state (`focus`) and runs it by itself: the states are a sum and not a
product. `MostRequests` gives each the requests in which its cases happen: 4 to
sessions, partner links, reviews, images, links, profiles, submissions, forms and
consents (two that overlap, one before that makes the row, one after that looks
at it or deletes it); 3 to articles, the organizer, interviews, rules, retention
and migrations. Admins are left out of the instance: to the module they are
candidates who have signed up. The applications of `Retention` have a file and a
date at first, or neither. Two companies own rules, forms and consents, so that
a row of the other can be named. `MaxViews` is 1 or 2, so that the cap is met;
`MostMatches` is 1, so that the lookup of duplicates is cut; `MostEntries` 1 and 2
over 5 lines (`MaxLines`), so that lists are cut and entries follow each other;
`MaxNow` is 1, so that a date passes. The migration commands stop at the ten
revisions of `Stops`, those around which rows move or a downgrade differs from
its upgrade, and rows are of one kind at a time. Requests are interchangeable and
what is temporal here is an action property, so the symmetry is sound. Requests
run out, hence `CHECK_DEADLOCK FALSE`. A component may abort at any point and
nothing is owed.

*Fairness.* A run's steps (`WF` of `RunStep(j)` per task): the event loop runs
what it holds. The boot of a worker that is down (`WF` of `Lifespan(w)`): uvicorn's
supervisor restarts it. The end of an attempt or of a pause (`WF` of `Step(c)`):
the client has a timeout and the backoff a maximum. No request, failure, crash or
tick is ever owed. `InterruptedJobIsFailed` needs the sweep to succeed
(`SweepMayFail = FALSE`); the code swallows its failure, and then the job
remains in progress until a later boot.

*Mutants.* Each property comes with a mutated definition, in the module beside
its original, that violates it: a sweep without its WHERE clause, a swallowed
exception, a reset that keeps the failures, and so on (`PROJECT.json`).

### Disagreements with the documentation

1. Opting out "stops all future LLM calls for this application"
   (`applications/router.py:132-133`). The enricher is called whatever the
   consent, and the matcher on the consent read when the run began.
2. The hash is "used as a unique key — a repeat call with the same content is a
   no-op" (`cv_parsing.py:604-605`). Lookup, LLM call and insert are separate:
   two overlapping runs both pay, and the second dies on the unique index that
   the migration creates (the model declares a plain one), its call unmetered.
3. "Cool-down over - half-open, allow one probe" (`circuit.py:54`). The breaker
   closes for every caller.
4. `get_active_by_email` expects one row at most (`users/repository.py:128`). Two
   invites at one time, or an expired invitation that is sent again after a new
   one was made, leave two; then every invite of that address raises.

5. The gate "anything → open [...] requires a fully-completed offer"
   (`jobs/validators.py:168-169`). It judges the row that was read; of two edits
   that overlap, one may empty a column while the other opens the offer. (An
   offer that is open is edited without the gate, which the code means to allow:
   `jobs/service.py:126-127`. The run is about the transition only.)

Others came up while modelling and have no run of their own; where a property
touches them, it names the exception:

* "Slug is set-once" (`companies/service.py:18`): an explicit `null` in a PATCH
  clears it, and the next request sets another.
* "Interview scheduling requires a meeting link" (`en.json:70`): a PATCH with
  `meeting_url: null` is checked with the old link and clears it.
* "a view cap can't be raced past by parallel requests"
  (`partners/public_router.py:51-52`): it can; only opens that overlap none are
  sure to be counted.
* A second submission of a review is meant to replace the first
  (`reviews/repository.py:128-157`); the session inserts before it deletes, and
  the unique constraint refuses it.
* "Tenant isolation: the form template must belong to the caller's company"
  (`jobs/router.py:356-357`) holds for the PUT; POST and PATCH of a job
  (`jobs/repository.py:48-53`, 90-101) only have the foreign key.
* A clean-up fails as a whole, with files already gone, when one of its
  applications is deleted meanwhile; a hard delete never removes the file of the
  CV (`consents/service.py:219-239`).
* `refresh_tokens.expires_at` is a string in the first revision
  (`1737d3e08d9e_initial.py:152`), the revision meant to fix it is empty, and the
  model declares a date (`users/models.py:70`). `OrmTables` compares types only of
  JSON columns, so `MigrationsFit` does not say so.
* A run whose posting is deleted after its result was committed ends cleanly with a
  paid call that no usage row counts (`cv_parsing.py:502-503`); `CleanRunIsMetered`
  names the case.
* `job_form_templates` has a generated id in its key (`jobs/models.py:118-126`,
  `models/base.py:29-36`) where `_update_template` expects one row of an offer
  (`jobs/repository.py:126-139`): two overlapping edits leave two, and every later
  edit of the form of that offer raises.
* Three unique indexes exist in migrations but not in the models. The downgrade of
  `d0e1` says NOT NULL and leaves the column nullable. Offers written at revisions
  6 to 13 lose their summary below 6, unless revision 14 came between and its
  downgrade copied it; lists that were made HTML are
  emptied by the downgrade of `b2c3`.
* `_phones_match` takes the last nine digits, the SQL before it
  (`applications/repository.py:183-185`) whole numbers only.
* The last return of `_looks_like_new_section` is never reached: a line in capitals
  alone does not begin a section. In a CV that puts titles before dates, a date
  goes with the entry after it.
* Required questions and required consents are not enforced by the server.
  Recording an answer checks the company of the application, not that of the
  consent (`consents/service.py:59-63`), and a consent that was refused first and
  given later is dated by the refusal.
* "the LLM call always sees [REDACTED_*] placeholders for contact data"
  (`cv_parsing.py:421-426`): the text does; the parsed data that goes with it
  (`cv_enricher.py:132-134`) is not redacted.
* `Dockerfile` speaks of two workers and starts four.

## 4. Proofs

All theorems hold for every value of the constants that satisfies the named
assumptions. `CvParsingAssumption` and `LlmBreakerAssumption` ask for non-empty
sets of jobs and workers, null values outside the sets they extend, a finite set
of calls, natural bounds with at least one attempt and a threshold of at least 1;
the others are given with their modules.

**CvParsingProofs.** `TypeCorrect`; then `CleanRunsSettle`,
`ParsedProfilesAreBacked` and `TextIsMinimised`. None of the three is inductive
alone: whether a run may return depends on what its row says, and that on where
the run stands, under sweeps and erasures that may come at any time. The
inductive invariant is `RowInv`, the conjunction of `RunFitsRow` (for each place
a task can be in, the statuses its row can have, with "absent" and "failed"
allowed wherever an erasure or a sweep can intervene), `ProfileBackedByJob` and
`TextOnlyWhileUnfinished`. Each proof has one step per action.
`CleanRunsAreMetered` follows from `MeterInv`: what is paid but not metered
belongs to a run that has yet to write its usage row, or to one that returned
because the posting was gone, and then it paid for no match (a posting does not
come back, so the exception once met stays met). `AnonymizedIsErased` rests
on two invariants. `ProfileIds` says that the id of a profile, in the row or in
the memory of a run, is that of a run that has written it, so no other run can
insert a profile under it. `ErasureInv`, which holds when files can be deleted,
says that the file goes before the application is anonymized, that a run past its
file has then lost its row, and that a run about to match has lost its profile.

**CvParsingLifecycleProofs.** `ImplementsParseLifecycle`: initial states map to
initial states, and each step maps to a step of `ParseLifecycle` or a stutter.
`ErrorsAreCurrentWhenAlone`: with one worker an error stays only on failed jobs.
Both need to know that with a single process no run is alive when the sweep
happens (`AloneInv`, from "a task is held by a worker that is up"); the
refinement also, that no event loop holds a task that was never queued
(`UnqueuedUnheld`). `UnsettledJobsHaveARun` is for any
number of processes and is the safety half of `InterruptedJobIsFailed`. With
`RowInv` it takes `HeldInv`: live runs are held by processes that are up, and a job
that a crash left in progress implies a process that is down, if sweeps succeed. So
a boot that is due is all that such a job waits for. Runs that died of an exception
and jobs that were still queued are the exceptions that the code makes, and the
property names them.

**LlmBreakerProofs.** `TypeCorrect`, `ClosedBreakerIsBelowThreshold`,
`RememberedFailuresAreBounded`, and the action properties
`CoolDownIsNotProlonged` and `BreakerOpensOnlyOnBurst`. `FailuresBounded` is
inductive together with `ClosedMeansFewFailures`: a call enters only through a
closed (or just reset) breaker, and each later failure trades a call in flight
for a remembered failure, so the sum never grows while the breaker is open. The
lemmas about `SubSeq` and `Append` are stated once. `CallsUseUpTheirTime` is the
safety half of `EveryCallReturns`: `TimeLeft` is a bound on how long a call may
still last, in natural numbers (`TimeInv`: no attempt and no pause passes its
limit), which no step increases and the clock decreases.

**PipelineProofs.** `TypeCorrect`, `MovesAreRecorded`, `MailsAreCommitted` and
`HistoryEnds`, from `PipelineAssumption` (the null value is not a stage, batches
are sequences of applications). `StageIsRecorded` is not inductive: a commit that
skips the UPDATE of `stage_id`, because the value is the one that was read, is
right only because the application is still there. `HistoryInv` adds what a
request in flight knows: as long as no move of an application was committed, it
is where the request read it, unless that stage was deleted, and then the commit
of a move to that stage fails (`MemoryIsFresh`). Once a move was committed, its
history row keeps the stage from being deleted. `MailInv` relates the mails a
move has in memory to the rows it will add, and to its kind: only a single move
asks for rules, and it has one item. `OrderInv` says of a move that is alone with
an application that the history ends before the move began and that the
application is where it was read (`AloneWith`); two moves in flight that share an
application have been seen by the observer. `ImplementsStageJournal` maps each step
to one of `StageJournal` or a stutter: a move shows only when it is committed. A
deletion that has selected its applications maps to `MarkStage`, its commit to
`RemoveStage` or, if it is refused or aborted, to `GiveUp`. The proof uses these
invariants and `JournalInv`: the time of a move in flight is in no history and no
other move has it (`TimesAreOwn`), and an application is in a stage that exists, if
in any (`StagesExist`). What a deletion has selected is in `HistoryInv`: such an
application exists, and as long as it has no history it is where it was or in no
stage (`SelectedArePlaced`), so that only the deletion of the stage in which a move
has read it takes it out.

**InvitationsProofs.** `TypeCorrect`, `OneAccountPerInvitation`,
`InvitationEndsOnce` and `DuplicatesComeFromRacesOrRenewals`, all from
`InvitationsAssumption` (NULL is no request) and one inductive invariant,
`LifeInv`. It adds to the properties that users and rows come from requests that
have answered, that what a request read of an invitation still holds unless the
invitation was raced for (`ReadStillHolds`), and that an invite under way saw no
active invitation that is neither raced nor revived (`InviteSawNone`).
`ImplementsInvitationBook` takes from the same invariant that a commit finds what
its request has read, so it is the step of the abstract book at the time of the
commit; reads, and dates that pass, are stutters, and the beginning of a request is
a stutter or the race it enters.

**JobsProofs.** From `JobsAssumption` (finitely many requests, patches that are
well typed, natural costs and budget): `TypeCorrect`; `OpenOffersAreReady`, whose
invariant `GateInv` rests on what a single write does to a row that nobody
changed meanwhile (`WrittenToTheSame`, `AcceptedIsReady`); `OneSuggestionAtATime`
and `PaidWithItsResult` from `UsageInv`, which relates the usage rows to marks
and results, to the requests that answered, and to what a request in flight knew
when it read the mark; and `BudgetHoldsButForCallsInFlight` from `BudgetInv`: each
call in flight may add `MaxCost` yet, so the sum with that reserve stays below the
budget plus the reserve of the busiest moment. `CheckBudget` adds a call only when
the sum is below the budget, `Save` trades a reserve for a cost.
`EditsLeaveOtherColumns` is an action property: a column changes only to what the
request that ends was sent for it, since what an edit has computed differs from the
row it read only in its own fields (`EditedDiffers`, `WrittenDiffers`).

**DeskProofs.** One part for each of the fourteen desk modules that have requests
of this kind, all from facts about `Begin`, `End` and `Once` that are stated once
(`RequestOK`: what a request saw has ended; `OverlapStays`, `EndingOverlaps`),
under `NoneAssumption`: NULL is no request. Each part has its type invariant and
an inductive invariant that says what a request in flight still knows of the rows
it read, unless one that it overlaps has ended since. Thus `OneHeir` (a token
that is refreshed was not revoked when read, so whoever has refreshed it before
overlaps), `DeactivationEnds`, `AloneOpens` (a request that overlaps none writes
one more than the counter is; a finite-set argument bounds those that are alone),
`ReviewsAreComplete`, `ReviewsStay`, `ImplementsScorecards` (a submission has the
criteria of its template when it commits, as templates and assignments are never
changed, and the unique constraints refuse what comes second), `DefaultTemplates`
(from `CriteriaAssumption`: the default template has a criterion), `OneFeatured`,
`ImagesExist`, `OneRow`, `OrganizerConsistent`, `SlugIsSetOnce`,
`InterviewsHaveLinks`, `DuplicatesLinked` and `LinksWereAlike` (from
`MatchesAssumption`), `ConsentsSound` (from `ControllersAssumption`), whose
invariant has, besides, that an answer in flight is about an application and a
consent it has seen; `RulesSound` (from `FirmsAssumption`: a template that was
the company's when it was looked up is so or is gone, as no identifier is given
twice), `FormsSound` (from `CompaniesAssumption`: a question in flight is still
on a form of the company that asked, or is gone; an edit in flight that saw no row
overlaps whoever has added one since) and `ErasuresWhole` (from
`MaxNowAssumption`: what a clean-up has found is past its date unless a request
it has not seen set another, what it has written is locked to others, and a row
that names no file has none left but one that could not be removed).

**CvTimelineProofs.** `TimelineIsTyped`, `NoLineIsLost` and `EntriesInOrder`, for
any number of lines and any limits (`MostEntriesAssumption`). The order of the
entries carries the invariant: what the entry being filled holds comes after all
that is finished and before the next line.

*Only model-checked:* the liveness properties (`InterruptedJobIsFailed`,
`EveryCallReturns`), which are out of the prover's reach beyond the safety halves
above, and `MigrationsFit`. It is about one list of revisions, which TLC covers;
only the commands between them vary. The type invariants are proved wherever a
module has theorems and are not in the cfgs.

## 5. Plan

What would add most next: the interview rows in place of `ready` in `Pipeline`,
and the positions of stages.

## 6. Not modelled

Rows that are only inserted and listed (notes, audit log, application events),
CRUD of one row with no rule across steps (risk items, mitigations, saved
searches, promotion of articles, roles and languages of users, the tag branch of
a bulk action, the order of stages), read-only queries (reports, usage
dashboards, public listings, the organizer's board), text and number functions
(contact data, headline and skills of a CV, redaction, sanitising, prompts,
pricing, rendering of templates, i18n), validation of uploads, rate limits (a
library's moving window), configuration and logging, seeds and scripts.
`confirm_cv_parse` has no route.
