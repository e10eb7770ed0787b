------------------------------ MODULE Submissions ------------------------------
(***************************************************************************)
(* Candidates apply for the openings of a company.  A submission looks for *)
(* applications to the company with the same e-mail or phone number; the   *)
(* candidate is warned, and may submit again and ignore the warning.  The  *)
(* application is then linked to those that were found.                    *)
(*                                                                         *)
(* E-mails and phones are those compared, lower-cased and digits only.     *)
(* Applications are named after the request that submits them.  Answers,   *)
(* stages, mails and the CV (module CvParsing) are left out, and so are    *)
(* the erasure of what hangs on an application and other companies.        *)
(***************************************************************************)
EXTENDS Requests, Naturals, FiniteSets

CONSTANTS Openings, Emails, Phones,
          MostMatches   \* the applications that are looked at

ASSUME MatchesAssumption == MostMatches \in Nat /\ "anonymized" \notin Emails

VARIABLES
  open,         \* jobs: the openings that take applications
  application,  \* applications: a row, or NoApplication
  duplicate,    \* application_duplicate_links: <<source, duplicate>>
  cutShort      \* observer: the submissions that were shown only some

submissionVars == <<requestVars, open, application, duplicate, cutShort>>

ApplicationRow ==
  [job : Openings, email : Emails \cup {"anonymized"}, phone : Phones \cup {None}]
NoApplication == [job |-> None]

Submitted(q) == application[q] # NoApplication

\* An anonymized application has an e-mail of its own, and no phone.
Alike(a, b) ==
  \/ a.email = b.email /\ a.email # "anonymized"
  \/ a.phone = b.phone /\ a.phone # None

\* Mutant: only the e-mail is looked up.
MatchesByEmail(row) == {q \in Requests : Submitted(q) /\ application[q].email = row.email}

\* list_potential_duplicates and _collect_reasons.
Matches(row) == {q \in Requests : Submitted(q) /\ Alike(application[q], row)}

SubmissionInit ==
  /\ RequestInit
  /\ open = Openings
  /\ application = [r \in Requests |-> NoApplication]
  /\ duplicate = {}
  /\ cutShort = {}

SubmissionAbort(r) == End(r) /\ UNCHANGED <<open, application, duplicate, cutShort>>

-----------------------------------------------------------------------------
\* The newest matches; which these are is left open.  Where there are any, the
\* candidate has been warned before.
ApplyRead(r, row, found) ==
  /\ row.job \in open
  /\ found \subseteq Matches(row)
  /\ IF Cardinality(Matches(row)) <= MostMatches THEN found = Matches(row)
     ELSE Cardinality(found) = MostMatches
  /\ Begin(r, [kind |-> "apply", row |-> row, found |-> found])
  /\ cutShort' = IF found = Matches(row) THEN cutShort ELSE cutShort \cup {r}
  /\ UNCHANGED <<open, application, duplicate>>

\* A link to an application that is gone fails, and the submission with it.
\* The opening may have closed meanwhile.
ApplyCommit(r) ==
  /\ Doing(r, "apply") /\ End(r)
  /\ LET found == req[r].found IN
     IF \E q \in found : ~Submitted(q)
     THEN UNCHANGED <<application, duplicate>>
     ELSE /\ application' = [application EXCEPT ![r] = req[r].row]
          /\ duplicate' = duplicate \cup {<<r, q>> : q \in found}
  /\ UNCHANGED <<open, cutShort>>

\* The recruiters open and close (module Jobs).
SwitchOpening(r, j) ==
  /\ Once(r)
  /\ open' = IF j \in open THEN open \ {j} ELSE open \cup {j}
  /\ UNCHANGED <<application, duplicate, cutShort>>

EraseRead(r, q, kind) ==
  /\ Submitted(q)
  /\ Begin(r, [kind |-> kind, application |-> q])
  /\ UNCHANGED <<open, application, duplicate, cutShort>>

AnonymizeRead(r, q) == EraseRead(r, q, "anonymize")
DeleteApplicationRead(r, q) == EraseRead(r, q, "delete_application")

\* The links stay.  It fails if the row is gone.
AnonymizeCommit(r) ==
  /\ Doing(r, "anonymize") /\ End(r)
  /\ LET q == req[r].application IN
     application' = IF ~Submitted(q) THEN application
                    ELSE [application EXCEPT ![q] =
                      [job |-> application[q].job, email |-> "anonymized", phone |-> None]]
  /\ UNCHANGED <<open, duplicate, cutShort>>

\* The links are deleted with it.
DeleteApplicationCommit(r) ==
  /\ Doing(r, "delete_application") /\ End(r)
  /\ LET q == req[r].application IN
     /\ application' = [application EXCEPT ![q] = NoApplication]
     /\ duplicate' = {l \in duplicate : q \notin {l[1], l[2]}}
  /\ UNCHANGED <<open, cutShort>>

-----------------------------------------------------------------------------
SubmissionNext ==
  \E r \in Requests :
    \/ \E j \in Openings, e \in Emails, p \in Phones \cup {None}, found \in SUBSET Requests :
         ApplyRead(r, [job |-> j, email |-> e, phone |-> p], found)
    \/ ApplyCommit(r)
    \/ \E j \in Openings : SwitchOpening(r, j)
    \/ \E q \in Requests : AnonymizeRead(r, q) \/ DeleteApplicationRead(r, q)
    \/ AnonymizeCommit(r) \/ DeleteApplicationCommit(r)
    \/ SubmissionAbort(r)

SubmissionSpec == SubmissionInit /\ [][SubmissionNext]_submissionVars

-----------------------------------------------------------------------------
(* Properties.                                                             *)

SubmissionRequest ==
  [kind : {"apply"}, row : ApplicationRow, found : SUBSET Requests]
  \cup [kind : {"anonymize", "delete_application"}, application : Requests]

\* Every variable has its type.
SubmissionTypeOK ==
  /\ req \in [Requests -> SubmissionRequest \cup {Idle}]
  /\ open \subseteq Openings
  /\ application \in [Requests -> ApplicationRow \cup {NoApplication}]
  /\ duplicate \subseteq Requests \X Requests
  /\ cutShort \subseteq Requests

\* An application is linked to every earlier one that is like it, whatever was
\* anonymized or deleted since: to all that were there when its submission
\* began, unless those were more than it looks at.
DuplicatesAreLinked ==
  \A r \in Requests : Submitted(r) =>
    \A q \in saw[r] : Submitted(q) /\ Alike(application[q], application[r]) =>
      <<r, q>> \in duplicate \/ r \in cutShort

\* A link joins two applications that are there and that were alike, as they
\* are unless one of them was anonymized.
LinkedWereAlike ==
  \A l \in duplicate :
    /\ Submitted(l[1]) /\ Submitted(l[2])
    /\ \/ Alike(application[l[2]], application[l[1]])
       \/ "anonymized" \in {application[l[1]].email, application[l[2]].email}

=============================================================================
