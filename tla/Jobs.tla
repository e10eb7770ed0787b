-------------------------------- MODULE Jobs --------------------------------
(***************************************************************************)
(* Job offers of one company: the autosave PATCH and the publish gate, and *)
(* the calls of the LLM that are made for an offer under a daily budget.   *)
(*                                                                         *)
(* A request reads, with others between, and commits what it writes.  A    *)
(* call of the LLM lies between the two, in one transaction with them.  A  *)
(* request that its guards refuse changes nothing: it is no step, or it    *)
(* ends by Abort when it had read something first.  The rows of            *)
(* api_usage_logs are named after the request that writes them; the sum    *)
(* of their cost over the last 24 hours is kept as one number.  Form       *)
(* templates, risk items and mitigations of an offer are left out.         *)
(***************************************************************************)
EXTENDS Integers, FiniteSets

CONSTANTS Requests, JobIds,
          InitialJobs,     \* the offers there are at the start
          Offers,          \* what the body of POST /jobs may hold
          Patches,         \* what the body of PATCH /jobs/{id} may hold
          Budget,          \* llm_daily_budget_usd_per_company; 0: no limit
          MaxCost,         \* the most that one call costs
          MaxBackground,   \* bound on what the CV pipeline may spend
          None             \* no job, or no row

VARIABLES
  life,       \* is the offer not yet created, there, or deleted
  jobs,       \* its row: what PublishValidator looks at, and the status
  suggested,  \* is suggest_used_at set
  results,    \* job_analyses and job_risk_assessments: who wrote the row last
  usage,      \* the committed rows of api_usage_logs
  spent,      \* the cost of those of the last 24 hours
  req,        \* what a request has in memory between its reads and its commit
  ended,      \* requests that have answered
  unchecked,  \* observer: was the row last written unseen by the validator
  knew,       \* observer: the usage rows there were when a request began
  peak,       \* observer: the most calls that were in flight at one time
  background  \* observer: what the CV pipeline has spent

vars == <<life, jobs, suggested, results, usage, spent, req, ended,
          unchecked, knew, peak, background>>

-----------------------------------------------------------------------------
(* PublishValidator.  "markup" is HTML without text in it; "none" is NULL, *)
(* or a blank text.                                                        *)

TextColumns == {"role_summary", "role_purpose", "seniority", "team_context",
                "work_mode", "contract_type", "value_proposition"}
HtmlColumns == {"responsibilities", "must_haves", "nice_to_haves", "tech_stack",
                "benefits", "hiring_process"}
PlaceColumns == {"location", "remote_constraints"}
SalaryColumns == {"salary_min", "salary_max", "salary_currency", "salary_period"}
Columns == TextColumns \cup HtmlColumns \cup PlaceColumns \cup SalaryColumns

Values == {"none", "markup", "text"}
Statuses == {"draft", "open", "closed"}
Fields == Columns \cup {"status"}
Rows == {row \in [Fields -> Values \cup Statuses] :
           row["status"] \in Statuses /\ \A c \in Columns : row[c] \in Values}
Blank == [f \in Fields |-> IF f = "status" THEN "draft" ELSE "none"]

HasText(value) == value # "none"
HtmlHasContent(value) == value = "text"

SalaryClear(row) ==
  \/ row["salary_min"] = "none" /\ row["salary_max"] = "none"   \* undisclosed
  \/ \A c \in SalaryColumns : HasText(row[c])

\* No issue is found.
Ready(row) ==
  /\ \A c \in TextColumns : HasText(row[c])
  /\ \A c \in HtmlColumns : HtmlHasContent(row[c])
  /\ \E c \in PlaceColumns : HasText(row[c])
  /\ SalaryClear(row)

-----------------------------------------------------------------------------
(* A PATCH and what becomes of it.                                         *)

Publish == [f \in {"status"} |-> "open"]

ASSUME JobsAssumption ==
  /\ IsFiniteSet(Requests) /\ None \notin Requests /\ None \notin JobIds
  /\ InitialJobs \subseteq JobIds /\ Offers \subseteq Rows
  /\ Blank \in Offers
  /\ \A p \in Patches :
       /\ DOMAIN p \subseteq Fields
       /\ \A f \in DOMAIN p : p[f] \in IF f = "status" THEN Statuses ELSE Values
  /\ Budget \in Nat /\ MaxCost \in Nat /\ MaxBackground \in Nat

Merged(row, p) == [f \in Fields |-> IF f \in DOMAIN p THEN p[f] ELSE row[f]]

\* Mutant: the update takes the status as it comes.
AcceptAll(row, p) == Merged(row, p)

\* update(): an offer that is not ready is not opened, the rest is saved.  An
\* offer that is open is not looked at.
Accepted(row, p) ==
  LET merged == Merged(row, p)
  IN  IF row["status"] # "open" /\ merged["status"] = "open" /\ ~Ready(merged)
      THEN [merged EXCEPT !["status"] = row["status"]]
      ELSE merged

\* Mutant: the UPDATE carries the whole row that was read and changed.
WholeRow(row, read, new) == new

\* The UPDATE carries the columns in which the row read was changed.
Written(row, read, new) ==
  [f \in Fields |-> IF new[f] # read[f] THEN new[f] ELSE row[f]]

-----------------------------------------------------------------------------
(* Requests.                                                               *)

Results == {"analyze", "risk"}    \* kept in a row of their own, one per job
AiKinds == Results \cup {"suggest", "parse"}

NoRequest == [kind |-> "none"]
Edit == [kind : {"patch", "publish"}, job : JobIds, read : Rows,
         patch : Patches \cup {Publish}]
AiRequest == [kind : AiKinds, job : JobIds \cup {None},
              phase : {"loaded", "calling", "answered"},
              cost : 0..MaxCost, found : BOOLEAN]

NoUsage == [kind |-> "none"]
Usage == [kind : AiKinds, job : JobIds \cup {None}]

\* Calls that the budget let through and whose cost is not committed yet.
InFlight ==
  {r \in Requests : req[r].kind \in AiKinds /\ req[r].phase \in {"calling", "answered"}}

Init ==
  /\ life = [j \in JobIds |-> IF j \in InitialJobs THEN "live" ELSE "unborn"]
  /\ jobs \in {f \in [JobIds -> Offers] :
                 \A j \in JobIds : IF j \in InitialJobs THEN f[j]["status"] # "open"
                                                        ELSE f[j] = Blank}
  /\ suggested = [j \in JobIds |-> FALSE]
  /\ results = [j \in JobIds |-> [k \in Results |-> None]]
  /\ usage = [r \in Requests |-> NoUsage]
  /\ spent = 0
  /\ req = [r \in Requests |-> NoRequest]
  /\ ended = {}
  /\ unchecked = [j \in JobIds |-> FALSE]
  /\ knew = [r \in Requests |-> {}]
  /\ peak = 0 /\ background = 0

New(r) == req[r] = NoRequest /\ r \notin ended

Start(r, request) ==
  /\ New(r)
  /\ req' = [req EXCEPT ![r] = request]
  /\ UNCHANGED <<life, jobs, suggested, results, usage, spent, ended, unchecked,
                 background>>

End(r) ==
  /\ req' = [req EXCEPT ![r] = NoRequest]
  /\ ended' = ended \cup {r}
  /\ UNCHANGED <<knew, peak, background>>

\* Refused after a read, no answer of the LLM, or a failure anywhere before
\* the commit: a conflict, a worker that dies, the transaction of a long call
\* that the database closes.  All of the request is rolled back.
Abort(r) ==
  /\ req[r] # NoRequest
  /\ End(r)
  /\ UNCHANGED <<life, jobs, suggested, results, usage, spent, unchecked>>

-----------------------------------------------------------------------------
(* Offers.                                                                 *)

Insert(r, j, row) ==
  /\ New(r) /\ life[j] = "unborn"
  /\ ended' = ended \cup {r}
  /\ life' = [life EXCEPT ![j] = "live"]
  /\ jobs' = [jobs EXCEPT ![j] = row]
  /\ UNCHANGED <<suggested, results, usage, spent, req, unchecked, knew, peak,
                 background>>

\* POST /jobs, with StatusTransitionValidator.
Create(r, j, row) ==
  /\ row["status"] = "open" => Ready(row)
  /\ Insert(r, j, row)

\* POST /jobs/{id}/clone.
Clone(r, source, j) ==
  /\ life[source] = "live"
  /\ Insert(r, j, [jobs[source] EXCEPT !["status"] = "draft"])

PatchRead(r, j, p) ==
  /\ life[j] = "live"
  /\ Start(r, [kind |-> "patch", job |-> j, read |-> jobs[j], patch |-> p])
  /\ UNCHANGED <<knew, peak>>

\* POST /jobs/{id}/publish.
PublishRead(r, j) ==
  /\ life[j] = "live" /\ Ready(Merged(jobs[j], Publish))
  /\ Start(r, [kind |-> "publish", job |-> j, read |-> jobs[j], patch |-> Publish])
  /\ UNCHANGED <<knew, peak>>

\* The row a request makes of the one it read.
Edited(r) == IF req[r].kind = "publish" THEN Merged(req[r].read, req[r].patch)
                                        ELSE Accepted(req[r].read, req[r].patch)

Unseen(r) ==
  \/ jobs[req[r].job] # req[r].read                             \* written meanwhile
  \/ req[r].kind = "patch" /\ req[r].read["status"] = "open"    \* not validated

\* The UPDATE of a row that is gone fails.
EditCommit(r) ==
  /\ req[r].kind \in {"patch", "publish"} /\ life[req[r].job] = "live"
  /\ End(r)
  /\ jobs' = [jobs EXCEPT ![req[r].job] = Written(@, req[r].read, Edited(r))]
  /\ unchecked' = [unchecked EXCEPT ![req[r].job] = Unseen(r)]
  /\ UNCHANGED <<life, suggested, results, usage, spent>>

\* With the rows that hang on it.
Delete(r, j) ==
  /\ New(r) /\ life[j] = "live"
  /\ ended' = ended \cup {r}
  /\ life' = [life EXCEPT ![j] = "deleted"]
  /\ jobs' = [jobs EXCEPT ![j] = Blank]
  /\ suggested' = [suggested EXCEPT ![j] = FALSE]
  /\ results' = [results EXCEPT ![j] = [k \in Results |-> None]]
  /\ unchecked' = [unchecked EXCEPT ![j] = FALSE]
  /\ UNCHANGED <<usage, spent, req, knew, peak, background>>

-----------------------------------------------------------------------------
(* Calls of the LLM.                                                       *)

Loaded(kind, j) ==
  [kind |-> kind, job |-> j, phase |-> "loaded", cost |-> 0, found |-> FALSE]

Known == {q \in Requests : usage[q] # NoUsage}

\* Mutant: the one-time gate of suggest() is missing.
LoadAgain(r, kind, j) ==
  /\ life[j] = "live"
  /\ kind = "analyze" => Ready(jobs[j])
  /\ Start(r, Loaded(kind, j))
  /\ knew' = [knew EXCEPT ![r] = Known]
  /\ UNCHANGED peak

Load(r, kind, j) ==
  /\ life[j] = "live"
  /\ kind = "analyze" => Ready(jobs[j])
  /\ kind = "suggest" => ~suggested[j]
  /\ Start(r, Loaded(kind, j))
  /\ knew' = [knew EXCEPT ![r] = Known]
  /\ UNCHANGED peak

ParseStart(r) ==
  /\ Start(r, Loaded("parse", None))
  /\ UNCHANGED <<knew, peak>>

\* Mutant: a budget that is used up exactly lets one more call through.
WithinOrAtBudget == Budget = 0 \/ spent <= Budget

WithinBudget == Budget = 0 \/ spent < Budget

CheckBudget(r) ==
  /\ req[r].kind \in AiKinds /\ req[r].phase = "loaded"
  /\ WithinBudget
  /\ req' = [req EXCEPT ![r].phase = "calling"]
  /\ peak' = IF Cardinality(InFlight) + 1 > peak THEN Cardinality(InFlight) + 1 ELSE peak
  /\ UNCHANGED <<life, jobs, suggested, results, usage, spent, ended, unchecked,
                 knew, background>>

\* get_analysis, get_risk_assessment.
Found(r) == req[r].kind \in Results /\ results[req[r].job][req[r].kind] # None

\* The LLM has answered, and the row to be replaced has been looked up.
Answer(r, cost) ==
  /\ req[r].kind \in AiKinds /\ req[r].phase = "calling"
  /\ req' = [req EXCEPT ![r] = [@ EXCEPT !.phase = "answered", !.cost = cost,
                                         !.found = Found(r)]]
  /\ UNCHANGED <<life, jobs, suggested, results, usage, spent, ended, unchecked,
                 knew, peak, background>>

\* The foreign key, the UPDATE of a row that is gone, the unique job_id.
CanSave(r) ==
  /\ req[r].kind # "parse" => life[req[r].job] = "live"
  /\ req[r].kind \in Results =>
       (req[r].found \/ results[req[r].job][req[r].kind] = None)

\* Mutant: the suggestion is handed out and not marked.
SaveUnmarked(r) ==
  /\ req[r].kind \in AiKinds /\ req[r].phase = "answered" /\ CanSave(r)
  /\ End(r)
  /\ usage' = [usage EXCEPT ![r] = [kind |-> req[r].kind, job |-> req[r].job]]
  /\ spent' = spent + req[r].cost
  /\ results' = IF req[r].kind \in Results
                THEN [results EXCEPT ![req[r].job][req[r].kind] = r] ELSE results
  /\ UNCHANGED <<life, jobs, suggested, unchecked>>

\* _record_usage, the upsert or the mark, and the commit of all of it.
Save(r) ==
  /\ req[r].kind \in AiKinds /\ req[r].phase = "answered" /\ CanSave(r)
  /\ End(r)
  /\ usage' = [usage EXCEPT ![r] = [kind |-> req[r].kind, job |-> req[r].job]]
  /\ spent' = spent + req[r].cost
  /\ results' = IF req[r].kind \in Results
                THEN [results EXCEPT ![req[r].job][req[r].kind] = r] ELSE results
  /\ suggested' = IF req[r].kind = "suggest"
                  THEN [suggested EXCEPT ![req[r].job] = TRUE] ELSE suggested
  /\ UNCHANGED <<life, jobs, unchecked>>

\* The CV pipeline writes usage rows too, and does not ask for the budget.
CvUsage(cost) ==
  /\ background + cost <= MaxBackground
  /\ spent' = spent + cost
  /\ background' = background + cost
  /\ UNCHANGED <<life, jobs, suggested, results, usage, req, ended, unchecked,
                 knew, peak>>

\* Rows grow older than 24 hours.
Expire(cost) ==
  /\ spent' = spent - cost
  /\ UNCHANGED <<life, jobs, suggested, results, usage, req, ended, unchecked,
                 knew, peak, background>>

-----------------------------------------------------------------------------
Next ==
  \/ \E r \in Requests, j \in JobIds :
       \/ \E row \in Offers : Create(r, j, row)
       \/ \E source \in JobIds : Clone(r, source, j)
       \/ \E p \in Patches : PatchRead(r, j, p)
       \/ PublishRead(r, j)
       \/ Delete(r, j)
       \/ \E kind \in AiKinds \ {"parse"} : Load(r, kind, j)
  \/ \E r \in Requests :
       \/ EditCommit(r)
       \/ ParseStart(r)
       \/ CheckBudget(r)
       \/ \E cost \in 0..MaxCost : Answer(r, cost)
       \/ Save(r)
       \/ Abort(r)
  \/ \E cost \in 1..MaxBackground : CvUsage(cost)
  \/ \E cost \in 1..spent : Expire(cost)

Spec == Init /\ [][Next]_vars

-----------------------------------------------------------------------------
(* Properties.                                                             *)

\* The rows and what requests hold are of their types; an offer that is not
\* there has nothing that hangs on it.
TypeOK ==
  /\ life \in [JobIds -> {"unborn", "live", "deleted"}]
  /\ jobs \in [JobIds -> Rows]
  /\ suggested \in [JobIds -> BOOLEAN]
  /\ results \in [JobIds -> [Results -> Requests \cup {None}]]
  /\ usage \in [Requests -> Usage \cup {NoUsage}]
  /\ spent \in Nat
  /\ req \in [Requests -> Edit \cup AiRequest \cup {NoRequest}]
  /\ ended \in SUBSET Requests
  /\ unchecked \in [JobIds -> BOOLEAN]
  /\ knew \in [Requests -> SUBSET Requests]
  /\ peak \in Nat /\ background \in 0..MaxBackground
  /\ \A j \in JobIds : life[j] # "live" => /\ ~suggested[j] /\ ~unchecked[j]
                                           /\ results[j] = [k \in Results |-> None]

\* update() and publish() keep the gate: an open offer has an issue only if the
\* last write to it was not validated (it was open already), or was computed
\* from a row that another request had changed by then.
OpenIsReady ==
  \A j \in JobIds :
    life[j] = "live" /\ jobs[j]["status"] = "open" /\ ~unchecked[j] => Ready(jobs[j])

\* Two autosaves of one offer do not undo each other: a column changes only to
\* what the request that ends just then was sent for it, whatever the others
\* wrote since that request read the row.
EditsTouchOnlyTheirFields ==
  [][\A j \in JobIds, f \in Fields :
       /\ life[j] = "live" /\ life'[j] = "live"
       /\ jobs'[j][f] # jobs[j][f]
       => \E r \in ended' \ ended :
            /\ req[r].kind \in {"patch", "publish"} /\ req[r].job = j
            /\ f \in DOMAIN req[r].patch /\ jobs'[j][f] = req[r].patch[f]]_vars

\* suggest() is used once: two paid suggestions for one offer overlapped, each
\* began before the other was committed.
SuggestedOnceUnlessOverlapping ==
  \A q, r \in Requests :
    /\ q # r
    /\ usage[q] # NoUsage /\ usage[r] # NoUsage
    /\ usage[q].kind = "suggest" /\ usage[r].kind = "suggest"
    /\ usage[q].job = usage[r].job
    => q \notin knew[r]

\* _enforce_daily_budget reads the sum before the call: what is spent passes the
\* budget by no more than the calls that were in flight together, beside what
\* the CV pipeline adds without asking.
OverspentByCallsInFlight ==
  Budget > 0 => spent < Budget + MaxCost * peak + background

\* A commit takes the usage row and the result together: whoever wrote the
\* analysis of an offer is metered for it, and a metered call has left its
\* analysis, or its mark, on an offer that is still there.
ResultAndUsageTogether ==
  /\ \A j \in JobIds, k \in Results :
       results[j][k] # None => usage[results[j][k]] = [kind |-> k, job |-> j]
  /\ \A r \in Requests :
       usage[r] # NoUsage /\ usage[r].kind # "parse" /\ life[usage[r].job] = "live"
       => IF usage[r].kind = "suggest" THEN suggested[usage[r].job]
                                       ELSE results[usage[r].job][usage[r].kind] # None

\* What validators.py says of the gate: anything -> open requires a completed
\* offer.
Opens(j) == /\ life'[j] = "live" /\ jobs'[j]["status"] = "open"
            /\ life[j] = "live" => jobs[j]["status"] # "open"

OnlyReadyOffersOpen == [][\A j \in JobIds : Opens(j) => Ready(jobs'[j])]_vars
=============================================================================
