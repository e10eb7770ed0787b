-------------------------------- MODULE Consents --------------------------------
(***************************************************************************)
(* The consents a company asks for and the answers recorded for its        *)
(* applications, one for each application and consent.                     *)
(*                                                                         *)
(* A recruiter records an answer: the application must be of the company,  *)
(* the consent need not be.  An answer that is found is changed in place   *)
(* and keeps its date, accepted_at, which the database sets when the row   *)
(* is inserted; and the ORM writes it only if it differs from the one      *)
(* read.  Consents are edited and deleted by their company; with a consent *)
(* or an application go its answers.                                       *)
(*                                                                         *)
(* Every company has one application, named after it; a consent, a wording *)
(* and a date are named after the request that made them.  Names,          *)
(* languages and the flags required and is_active are left out: only       *)
(* listings read them.                                                     *)
(***************************************************************************)
EXTENDS Requests

CONSTANT Controllers

ASSUME ControllersAssumption == None \notin Controllers

VARIABLES
  controller,  \* consents: the company that made one, also after it is deleted
  wording,     \* consents: the request that wrote its text; None for no row
  applied,     \* applications: the companies whose application is there
  answer,      \* application_consents: a row, or NoAnswer
  lastGiven,   \* observer: the answer that was last asked to be recorded
  answerers,   \* observer: the requests that asked
  edits        \* observer: [by, to], the changes and deletions of consents

consentState == <<controller, wording, applied, answer, lastGiven, answerers, edits>>
consentVars == <<requestVars, consentState>>

AnswerRow == [accepted : BOOLEAN, at : Requests]
NoAnswer == [at |-> None]

ConsentInit ==
  /\ RequestInit
  /\ controller = [r \in Requests |-> None]
  /\ wording = [r \in Requests |-> None]
  /\ applied = Controllers
  /\ answer = [c \in Controllers |-> [k \in Requests |-> NoAnswer]]
  /\ lastGiven = [c \in Controllers |-> [k \in Requests |-> None]]
  /\ answerers = [c \in Controllers |-> [k \in Requests |-> {}]]
  /\ edits = {}

ConsentAbort(r) == End(r) /\ UNCHANGED consentState

\* Mutant: a consent is looked up by its identifier alone.
AnyConsent(c, k) == wording[k] # None

\* get_by_id_and_company
OwnConsent(c, k) == wording[k] # None /\ controller[k] = c

-----------------------------------------------------------------------------
CreateConsent(r, c) ==
  /\ Once(r)
  /\ controller' = [controller EXCEPT ![r] = c]
  /\ wording' = [wording EXCEPT ![r] = r]
  /\ UNCHANGED <<applied, answer, lastGiven, answerers, edits>>

UpdateConsentRead(r, c, k) ==
  /\ OwnConsent(c, k)
  /\ Begin(r, [kind |-> "edit consent", by |-> c, consent |-> k])
  /\ UNCHANGED consentState

\* An UPDATE that finds no row fails.
UpdateConsentCommit(r) ==
  /\ Doing(r, "edit consent")
  /\ LET k == req[r].consent
     IN /\ wording[k] # None
        /\ wording' = [wording EXCEPT ![k] = r]
        /\ edits' = edits \cup {[by |-> req[r].by, to |-> k]}
  /\ End(r)
  /\ UNCHANGED <<controller, applied, answer, lastGiven, answerers>>

DeleteConsentRead(r, c, k) ==
  /\ OwnConsent(c, k)
  /\ Begin(r, [kind |-> "delete consent", by |-> c, consent |-> k])
  /\ UNCHANGED consentState

\* The answers that were read are deleted first, and the database takes the
\* others along; a DELETE that finds no row does nothing.
DeleteConsentCommit(r) ==
  /\ Doing(r, "delete consent")
  /\ LET k == req[r].consent
     IN /\ wording' = [wording EXCEPT ![k] = None]
        /\ answer' = [c \in Controllers |-> [answer[c] EXCEPT ![k] = NoAnswer]]
        /\ edits' = edits \cup {[by |-> req[r].by, to |-> k]}
  /\ End(r)
  /\ UNCHANGED <<controller, applied, lastGiven, answerers>>

-----------------------------------------------------------------------------
\* The application is looked up, the consent is not.
RecordConsentRead(r, c, k, accepted) ==
  /\ c \in applied
  /\ Begin(r, [kind |-> "record consent", of |-> c, consent |-> k,
               accepted |-> accepted, found |-> answer[c][k]])
  /\ UNCHANGED consentState

\* One that was found is changed if it differs, and then must be there still;
\* else one is inserted, unless another came up or what it names is gone.
RecordConsentCommit(r) ==
  /\ Doing(r, "record consent")
  /\ LET q == req[r]
         c == q.of
         k == q.consent
     IN /\ IF q.found = NoAnswer
           THEN /\ c \in applied /\ wording[k] # None /\ answer[c][k] = NoAnswer
                /\ answer' = [answer EXCEPT ![c][k] = [accepted |-> q.accepted, at |-> r]]
           ELSE IF q.accepted = q.found.accepted
           THEN UNCHANGED answer
           ELSE /\ answer[c][k] # NoAnswer
                /\ answer' = [answer EXCEPT ![c][k] = [@ EXCEPT !.accepted = q.accepted]]
        /\ lastGiven' = [lastGiven EXCEPT ![c][k] = q.accepted]
        /\ answerers' = [answerers EXCEPT ![c][k] = @ \cup {r}]
  /\ End(r)
  /\ UNCHANGED <<controller, wording, applied, edits>>

\* delete_application_data
DeleteApplied(r, c) ==
  /\ c \in applied
  /\ Once(r)
  /\ applied' = applied \ {c}
  /\ answer' = [answer EXCEPT ![c] = [k \in Requests |-> NoAnswer]]
  /\ UNCHANGED <<controller, wording, lastGiven, answerers, edits>>

ConsentNext ==
  \/ \E r \in Requests, c \in Controllers :
       \/ CreateConsent(r, c) \/ DeleteApplied(r, c)
       \/ \E k \in Requests :
            \/ UpdateConsentRead(r, c, k) \/ DeleteConsentRead(r, c, k)
            \/ \E accepted \in BOOLEAN : RecordConsentRead(r, c, k, accepted)
  \/ \E r \in Requests :
       \/ UpdateConsentCommit(r) \/ DeleteConsentCommit(r)
       \/ RecordConsentCommit(r) \/ ConsentAbort(r)

ConsentSpec == ConsentInit /\ [][ConsentNext]_consentVars

-----------------------------------------------------------------------------
(* Properties.                                                             *)

ConsentTypeOK ==
  /\ controller \in [Requests -> Controllers \cup {None}]
  /\ wording \in [Requests -> Requests \cup {None}]
  /\ applied \subseteq Controllers
  /\ answer \in [Controllers -> [Requests -> AnswerRow \cup {NoAnswer}]]
  /\ lastGiven \in [Controllers -> [Requests -> BOOLEAN \cup {None}]]
  /\ answerers \in [Controllers -> [Requests -> SUBSET Requests]]
  /\ edits \subseteq [by : Controllers, to : Requests]

\* There is an answer exactly where one was recorded, while the application
\* and the consent are there.
AnswersLast ==
  \A c \in Controllers, k \in Requests :
    answer[c][k] # NoAnswer
      <=> answerers[c][k] # {} /\ c \in applied /\ wording[k] # None

\* It is the one that was recorded last, unless two were recorded at one time.
AnswersAreAsGiven ==
  \A c \in Controllers, k \in Requests :
    answer[c][k] # NoAnswer /\ (\A q, r \in answerers[c][k] : ~Overlap(q, r))
      => answer[c][k].accepted = lastGiven[c][k]

\* Its date is before every other request that recorded one began, so it is
\* never later than the answer it stands beside (but may be that of another).
DatesAreOfTheFirst ==
  \A c \in Controllers, k \in Requests :
    answer[c][k] # NoAnswer =>
      \A q \in answerers[c][k] \ {answer[c][k].at} : answer[c][k].at \in saw[q]

\* Only the company that made a consent changes or deletes it.
ConsentsAreOwn == \A e \in edits : controller[e.to] = e.by

(* However consents are edited and deleted while answers are recorded:     *)
(* answers last as long as what they are about, are the last ones given,   *)
(* are dated by the first, and nobody else's consents are changed.         *)
ConsentsAreSound ==
  /\ AnswersLast
  /\ AnswersAreAsGiven
  /\ DatesAreOfTheFirst
  /\ ConsentsAreOwn

=============================================================================
