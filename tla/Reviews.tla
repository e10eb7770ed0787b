-------------------------------- MODULE Reviews --------------------------------
(***************************************************************************)
(* Scorecards: templates with criteria, assignments of a template to a     *)
(* reviewer of an application, and the responses the reviewer submits.     *)
(*                                                                         *)
(* A submission deletes the responses it finds and adds those it brings,   *)
(* in one flush.  The unit of work of the ORM inserts before it deletes,   *)
(* and a response is unique for an assignment and a criterion: where an    *)
(* earlier submission left responses, the INSERT fails and the request is  *)
(* rolled back.  Templates and assignments are named after the request     *)
(* that creates them.  Comments and due dates are left out.                *)
(***************************************************************************)
EXTENDS Requests, FiniteSets

CONSTANTS Criteria, Scores, Applications, Reviewers

\* Criteria: those of the default template.
ASSUME CriteriaAssumption == Criteria # {}

VARIABLES
  template,    \* scorecard_templates: the criteria of a template, or None
  assignment,  \* review_assignments: a row, or NoAssignment
  response,    \* review_responses: the score of a criterion, or None
  default      \* observer: the templates made because a list was empty

reviewVars == <<requestVars, template, assignment, response, default>>

AssignmentRow ==
  [application : Applications, reviewer : Reviewers, template : Requests,
   status : {"pending", "submitted"}]
NoAssignment == [status |-> "none"]

Assigned(i) == assignment[i] # NoAssignment
Templates == {t \in Requests : template[t] # {}}

Unanswered == [c \in Criteria |-> None]
Answered(i) == {c \in Criteria : response[i][c] # None}

ReviewInit ==
  /\ RequestInit
  /\ template = [r \in Requests |-> {}]
  /\ assignment = [r \in Requests |-> NoAssignment]
  /\ response = [r \in Requests |-> Unanswered]
  /\ default = {}

ReviewAbort(r) == End(r) /\ UNCHANGED <<template, assignment, response, default>>

-----------------------------------------------------------------------------
(* Templates.                                                              *)

\* A template needs a criterion.
CreateTemplate(r, criteria) ==
  /\ Once(r)
  /\ criteria # {}
  /\ template' = [template EXCEPT ![r] = criteria]
  /\ UNCHANGED <<assignment, response, default>>

\* Mutant: a template is made for every list.
ListTemplatesReadAlways(r) ==
  /\ Begin(r, [kind |-> "list_templates"])
  /\ UNCHANGED <<template, assignment, response, default>>

\* list_templates: where there is none, the default one is made.
ListTemplatesRead(r) ==
  /\ Templates = {}
  /\ Begin(r, [kind |-> "list_templates"])
  /\ UNCHANGED <<template, assignment, response, default>>

ListTemplatesCommit(r) ==
  /\ Doing(r, "list_templates") /\ End(r)
  /\ template' = [template EXCEPT ![r] = Criteria]
  /\ default' = default \cup {r}
  /\ UNCHANGED <<assignment, response>>

-----------------------------------------------------------------------------
(* Assignments.                                                            *)

ExistingAssignment(a, v) ==
  {i \in Requests : Assigned(i) /\ assignment[i].application = a /\ assignment[i].reviewer = v}

AssignRead(r, a, v, t) ==
  /\ t \in Templates
  /\ ExistingAssignment(a, v) = {}
  /\ Begin(r, [kind |-> "assign", application |-> a, reviewer |-> v, template |-> t])
  /\ UNCHANGED <<template, assignment, response, default>>

\* Mutant: what was looked up is not asked of the database.
AssignCommitAlways(r) ==
  /\ Doing(r, "assign") /\ End(r)
  /\ assignment' = [assignment EXCEPT ![r] =
       [application |-> req[r].application, reviewer |-> req[r].reviewer,
        template |-> req[r].template, status |-> "pending"]]
  /\ UNCHANGED <<template, response, default>>

\* One assignment of an application to a reviewer: the second is rolled back.
AssignCommit(r) ==
  /\ Doing(r, "assign") /\ End(r)
  /\ LET q == req[r] IN
     assignment' = IF ExistingAssignment(q.application, q.reviewer) # {} THEN assignment
                   ELSE [assignment EXCEPT ![r] =
                          [application |-> q.application, reviewer |-> q.reviewer,
                           template |-> q.template, status |-> "pending"]]
  /\ UNCHANGED <<template, response, default>>

-----------------------------------------------------------------------------
(* Submissions.                                                            *)

\* One response to each criterion of the template.
Complete(i, answers) ==
  \A c \in Criteria : answers[c] # None <=> c \in template[assignment[i].template]

SubmitRead(r, i, answers) ==
  /\ Assigned(i)
  /\ Complete(i, answers)
  /\ Begin(r, [kind |-> "submit", assignment |-> i, answers |-> answers])
  /\ UNCHANGED <<template, assignment, response, default>>

SubmitCommit(r) ==
  /\ Doing(r, "submit") /\ End(r)
  /\ LET i == req[r].assignment
         answers == req[r].answers
     IN IF \E c \in Answered(i) : answers[c] # None
        THEN UNCHANGED <<response, assignment>>
        ELSE /\ response' = [response EXCEPT ![i] = answers]
             /\ assignment' = [assignment EXCEPT ![i].status = "submitted"]
  /\ UNCHANGED <<template, default>>

-----------------------------------------------------------------------------
ReviewNext ==
  \E r \in Requests :
    \/ \E criteria \in SUBSET Criteria : CreateTemplate(r, criteria)
    \/ ListTemplatesRead(r) \/ ListTemplatesCommit(r)
    \/ \E a \in Applications, v \in Reviewers, t \in Requests : AssignRead(r, a, v, t)
    \/ AssignCommit(r)
    \/ \E i \in Requests, answers \in [Criteria -> Scores \cup {None}] :
         SubmitRead(r, i, answers)
    \/ SubmitCommit(r)
    \/ ReviewAbort(r)

ReviewSpec == ReviewInit /\ [][ReviewNext]_reviewVars

-----------------------------------------------------------------------------
(* Properties.                                                             *)

ReviewRequest ==
  [kind : {"list_templates"}]
  \cup [kind : {"assign"}, application : Applications, reviewer : Reviewers,
        template : Requests]
  \cup [kind : {"submit"}, assignment : Requests,
        answers : [Criteria -> Scores \cup {None}]]

\* Every variable has its type; a submission is for an assignment.
ReviewTypeOK ==
  /\ req \in [Requests -> ReviewRequest \cup {Idle}]
  /\ template \in [Requests -> SUBSET Criteria]
  /\ assignment \in [Requests -> AssignmentRow \cup {NoAssignment}]
  /\ response \in [Requests -> [Criteria -> Scores \cup {None}]]
  /\ default \subseteq Requests
  /\ \A r \in Requests : Doing(r, "submit") => Assigned(req[r].assignment)

\* A review has all the responses its template asks for when it is submitted
\* and none before, however many submissions run beside each other.
SubmittedReviewIsComplete ==
  \A i \in Requests : Assigned(i) =>
    Answered(i) = IF assignment[i].status = "submitted"
                  THEN template[assignment[i].template] ELSE {}

\* What a reviewer has submitted is never replaced: a second submission fails.
SubmittedReviewStays ==
  [][\A i \in Requests : Answered(i) # {} => response'[i] = response[i]]_reviewVars

\* The default template is made once: two of them were made by two readers of
\* the empty list who overlapped.
DefaultTemplatesOverlap == \A q, r \in default : q # r => Overlap(q, r)

\* Reviewers that submit, and recruiters that assign, beside each other leave
\* what they would leave one after another.
Cards == INSTANCE Scorecards

ScorecardsSpec == Cards!Spec

=============================================================================
