--------------------------------- MODULE Forms ---------------------------------
(***************************************************************************)
(* The forms of companies, the questions on them, the form that belongs to *)
(* an offer, and the answers of candidates.                                *)
(*                                                                         *)
(* A candidate's page loads the questions of an offer and later sends the  *)
(* answers; questions may be deleted in between, and with a question go    *)
(* the answers to it.  The answers are inserted with the application, and  *)
(* one that names a question that is gone fails all of it.  Nothing checks *)
(* that what is required was answered.                                     *)
(*                                                                         *)
(* An offer has its form by a row of a table whose key is the offer and an *)
(* identifier of the row: nothing keeps requests that overlap from adding  *)
(* one each.  Then the offer has several; a page shows any of them, and a  *)
(* request to change the form finds more than one row, and fails.          *)
(*                                                                         *)
(* Every company has one offer, named after it; forms, questions, those    *)
(* rows and applications are named after the request that creates them.    *)
(* Labels, types, options and the order of questions are left out; forms   *)
(* are never deleted.                                                      *)
(***************************************************************************)
EXTENDS Requests

CONSTANT Companies

ASSUME CompaniesAssumption == None \notin Companies

VARIABLES
  form,      \* form_templates: the company that owns one, or None
  question,  \* form_fields: the form it is on, or None
  formOf,    \* job_form_templates: per offer and row, the form, or None: no row
  reply,     \* application_answers: <<application, question>>
  filled,    \* observer: the questions an application answered, or None
  dropped,   \* observer: [by, from], the deletions of questions
  wanted,    \* observer: the form that was last asked for an offer
  linkers,   \* observer: the requests that asked
  unchecked  \* observer: those of them that do not look at the form's owner

formState == <<form, question, formOf, reply, filled, dropped, wanted, linkers, unchecked>>
formVars == <<requestVars, formState>>

FormInit ==
  /\ RequestInit
  /\ form = [r \in Requests |-> None]
  /\ question = [r \in Requests |-> None]
  /\ formOf = [c \in Companies |-> [r \in Requests |-> None]]
  /\ reply = {}
  /\ filled = [r \in Requests |-> None]
  /\ dropped = {}
  /\ wanted = [c \in Companies |-> None]
  /\ linkers = [c \in Companies |-> {}]
  /\ unchecked = {}

FormAbort(r) == End(r) /\ UNCHANGED formState

QuestionsOf(t) == {f \in Requests : question[f] = t /\ t # None}

\* The rows that give the offer of c a form, and the forms they give it.
LinksOf(c) == {l \in Requests : formOf[c][l] # None}
FormsOf(c) == {formOf[c][l] : l \in LinksOf(c)}

-----------------------------------------------------------------------------
\* A form, with a question or none.
CreateForm(r, c, asks) ==
  /\ Once(r)
  /\ form' = [form EXCEPT ![r] = c]
  /\ question' = [question EXCEPT ![r] = IF asks THEN r ELSE None]
  /\ UNCHANGED <<formOf, reply, filled, dropped, wanted, linkers, unchecked>>

AddQuestion(r, c, t) ==
  /\ Once(r)
  /\ form[t] = c
  /\ question' = [question EXCEPT ![r] = t]
  /\ UNCHANGED <<form, formOf, reply, filled, dropped, wanted, linkers, unchecked>>

\* Mutant: a question is looked up by its identifier alone.
DeleteQuestionReadAny(r, c, t, f) ==
  /\ form[t] = c /\ question[f] # None
  /\ Begin(r, [kind |-> "removal", company |-> c, question |-> f])
  /\ UNCHANGED formState

DeleteQuestionRead(r, c, t, f) ==
  /\ form[t] = c /\ question[f] = t
  /\ Begin(r, [kind |-> "removal", company |-> c, question |-> f])
  /\ UNCHANGED formState

\* Its answers go with it; gone already, nothing happens.
DeleteQuestionCommit(r) ==
  /\ Doing(r, "removal")
  /\ LET f == req[r].question
     IN /\ question' = [question EXCEPT ![f] = None]
        /\ reply' = {a \in reply : a[2] # f}
        /\ dropped' = IF question[f] = None THEN dropped
                      ELSE dropped \cup {[by |-> req[r].company, from |-> question[f]]}
  /\ End(r)
  /\ UNCHANGED <<form, formOf, filled, wanted, linkers, unchecked>>

-----------------------------------------------------------------------------
\* PUT looks at the owner of the form; PATCH leaves that to the foreign key.  The
\* row of the offer is looked up, which fails if there is more than one.
SetFormRead(r, c, t, looks) ==
  /\ t # None => IF looks THEN form[t] = c ELSE form[t] # None
  /\ \E l \in Requests \cup {None} :
       /\ LinksOf(c) = {l} \ {None}
       /\ Begin(r, [kind |-> "setting", company |-> c, form |-> t, link |-> l,
                    was |-> IF l = None THEN None ELSE formOf[c][l]])
  /\ unchecked' = IF looks THEN unchecked ELSE unchecked \cup {r}
  /\ UNCHANGED <<form, question, formOf, reply, filled, dropped, wanted, linkers>>

\* _update_template: the row that was found gets the form, if it is another one,
\* or is deleted; if none was found, one is added.  Writing a row that is gone
\* fails; deleting one does not.
SetFormCommit(r) ==
  /\ Doing(r, "setting")
  /\ LET c == req[r].company
         t == req[r].form
         l == req[r].link
     IN /\ t # None /\ l # None /\ t # req[r].was => formOf[c][l] # None
        /\ formOf' = IF t = req[r].was THEN formOf
                     ELSE [formOf EXCEPT ![c][IF l = None THEN r ELSE l] = t]
        /\ wanted' = [wanted EXCEPT ![c] = t]
        /\ linkers' = [linkers EXCEPT ![c] = @ \cup {r}]
  /\ End(r)
  /\ UNCHANGED <<form, question, reply, filled, dropped, unchecked>>

-----------------------------------------------------------------------------
\* The candidate's page: the offer with the questions of a form it has.
OpenPage(r, c) ==
  /\ \E t \in FormsOf(c) \cup {None} :
       /\ t = None => FormsOf(c) = {}
       /\ Begin(r, [kind |-> "page", questions |-> QuestionsOf(t)])
  /\ UNCHANGED formState

\* Blank answers are left out.
SendAnswers(r, given) ==
  /\ Doing(r, "page")
  /\ given \subseteq req[r].questions
  /\ \A f \in given : question[f] # None
  /\ reply' = reply \cup {<<r, f>> : f \in given}
  /\ filled' = [filled EXCEPT ![r] = given]
  /\ End(r)
  /\ UNCHANGED <<form, question, formOf, dropped, wanted, linkers, unchecked>>

FormNext ==
  \/ \E r \in Requests, c \in Companies :
       \/ \E asks \in BOOLEAN : CreateForm(r, c, asks)
       \/ \E t \in Requests : AddQuestion(r, c, t)
       \/ \E t, f \in Requests : DeleteQuestionRead(r, c, t, f)
       \/ \E t \in Requests \cup {None}, looks \in BOOLEAN : SetFormRead(r, c, t, looks)
       \/ OpenPage(r, c)
  \/ \E r \in Requests :
       \/ DeleteQuestionCommit(r) \/ SetFormCommit(r) \/ FormAbort(r)
       \/ \E given \in SUBSET Requests : SendAnswers(r, given)

FormSpec == FormInit /\ [][FormNext]_formVars

-----------------------------------------------------------------------------
FormTypeOK ==
  /\ form \in [Requests -> Companies \cup {None}]
  /\ question \in [Requests -> Requests \cup {None}]
  /\ formOf \in [Companies -> [Requests -> Requests \cup {None}]]
  /\ reply \subseteq Requests \X Requests
  /\ filled \in [Requests -> (SUBSET Requests) \cup {None}]
  /\ dropped \subseteq [by : Companies, from : Requests]
  /\ wanted \in [Companies -> Requests \cup {None}]
  /\ linkers \in [Companies -> SUBSET Requests]
  /\ unchecked \subseteq Requests

\* An application has every answer that was sent with it, but for questions
\* that were deleted since.
AnswersAreWhole ==
  \A q \in Requests : filled[q] # None =>
    {f \in Requests : <<q, f>> \in reply} = {f \in filled[q] : question[f] # None}

\* Only the company that owns a form deletes its questions (and the answers).
QuestionsGoByTheirOwner == \A d \in dropped : form[d.from] = d.by

\* An offer has forms of its company only, unless a request set one that does
\* not look at the owner.
FormsAreOwn ==
  \A c \in Companies :
    linkers[c] \cap unchecked = {} => \A t \in FormsOf(c) : form[t] = c

\* An offer has one form, unless the requests that added them overlapped.
OneFormUnlessOverlapped ==
  \A c \in Companies : \A l, k \in LinksOf(c) : l # k => Overlap(l, k)

\* An offer has the form that was last asked for it, or none if none was, unless
\* requests for it overlapped: one writes only what differs from what it read.
FormsAreAsAsked ==
  \A c \in Companies :
    (\A q, r \in linkers[c] : ~Overlap(q, r)) => FormsOf(c) = {wanted[c]} \ {None}

(* However forms are changed while candidates fill them in: applications   *)
(* keep the answers to all questions that still stand, questions are       *)
(* deleted by their owners only, and an offer has the form it was given,   *)
(* and no second one, unless requests that set it overlapped.              *)
FormsAreSound ==
  /\ AnswersAreWhole
  /\ QuestionsGoByTheirOwner
  /\ FormsAreOwn
  /\ OneFormUnlessOverlapped
  /\ FormsAreAsAsked

=============================================================================
