------------------------------ MODULE Retention ------------------------------
(***************************************************************************)
(* How long applications are kept, and how they end: anonymised one by     *)
(* one, by the clean-up of those whose date has passed, or deleted.        *)
(*                                                                         *)
(* An erasure removes the file of the CV first and commits the row after,  *)
(* and the removal of a file is not undone when the transaction is.  The   *)
(* clean-up reads what has expired once and then erases it one by one in   *)
(* one transaction: a row it has written is locked to others until it      *)
(* ends, and a row that is gone by its turn fails all of it.               *)
(*                                                                         *)
(* Applications arrive with a date ahead, and those from before that was   *)
(* so with none.  What else an erasure deletes is in module CvParsing.     *)
(* Time passes up to the bound MaxNow.                                     *)
(***************************************************************************)
EXTENDS Requests, Naturals

CONSTANTS Applicants, MaxNow

ASSUME MaxNowAssumption == MaxNow \in Nat

VARIABLES
  now,
  kept,       \* applications: a row, or NoKept once it is deleted
  onDisk,     \* applications whose file is there
  setBy,      \* observer: the request that last wrote the date of one
  cleanedBy,  \* observer: the clean-up that erased one
  cutOff,     \* observer: files removed by a request that was rolled back
  jammed      \* observer: files that could not be removed

keptState == <<now, kept, onDisk, setBy, cleanedBy, cutOff, jammed>>
retentionVars == <<requestVars, keptState>>

Dates == 0..MaxNow
KeptRow == [until : Dates \cup {None}, cv : BOOLEAN, erased : BOOLEAN]
NoKept == [until |-> None]

InKeeping(a) == kept[a] # NoKept

RetentionInit ==
  /\ RequestInit
  /\ now = 0
  /\ \E withCv \in SUBSET Applicants, until \in {None, MaxNow} :
       /\ kept = [a \in Applicants |->
                    [until |-> until, cv |-> a \in withCv, erased |-> FALSE]]
       /\ onDisk = withCv
  /\ setBy = [a \in Applicants |-> None]
  /\ cleanedBy = [a \in Applicants |-> None]
  /\ cutOff = {}
  /\ jammed = {}

\* The files a request has removed before its transaction ends.
Removed(r) ==
  CASE Doing(r, "anonymize") -> {req[r].applicant}
    [] Doing(r, "clean up") -> req[r].written
    [] OTHER -> {}

\* Rows that a clean-up has written are locked to others.
Free(r, a) == \A q \in Requests \ {r} : Doing(q, "clean up") => a \notin req[q].written

RetentionAbort(r) ==
  /\ End(r)
  /\ cutOff' = cutOff \cup (Removed(r) \ onDisk)
  /\ UNCHANGED <<now, kept, onDisk, setBy, cleanedBy, jammed>>

Tick ==
  /\ now < MaxNow
  /\ now' = now + 1
  /\ UNCHANGED <<requestVars, kept, onDisk, setBy, cleanedBy, cutOff, jammed>>

-----------------------------------------------------------------------------
SetRetentionRead(r, a, until) ==
  /\ InKeeping(a)
  /\ Begin(r, [kind |-> "retention", applicant |-> a, was |-> kept[a].until, until |-> until])
  /\ UNCHANGED keptState

\* The date is written if it differs from the one read.
SetRetentionCommit(r) ==
  /\ Doing(r, "retention")
  /\ LET a == req[r].applicant
     IN IF req[r].until = req[r].was THEN UNCHANGED <<kept, setBy>>
        ELSE /\ InKeeping(a) /\ Free(r, a)
             /\ kept' = [kept EXCEPT ![a].until = req[r].until]
             /\ setBy' = [setBy EXCEPT ![a] = r]
  /\ End(r)
  /\ UNCHANGED <<now, onDisk, cleanedBy, cutOff, jammed>>

\* Mutant: the url is dropped first, and no file is found by it.
RemoveFileLate(a, named) == UNCHANGED <<onDisk, jammed>>

\* file_storage.delete_cv, whose failure is suppressed.
RemoveFile(a, named) ==
  \/ ~named /\ UNCHANGED <<onDisk, jammed>>
  \/ named /\ onDisk' = onDisk \ {a} /\ UNCHANGED jammed
  \/ named /\ a \in onDisk /\ jammed' = jammed \cup {a} /\ UNCHANGED onDisk

AnonymizeOneRead(r, a) ==
  /\ InKeeping(a)
  /\ RemoveFile(a, kept[a].cv)
  /\ Begin(r, [kind |-> "anonymize", applicant |-> a])
  /\ UNCHANGED <<now, kept, setBy, cleanedBy, cutOff>>

Erased(row) == [row EXCEPT !.cv = FALSE, !.erased = TRUE]

AnonymizeOneCommit(r) ==
  /\ Doing(r, "anonymize")
  /\ LET a == req[r].applicant
     IN /\ InKeeping(a) /\ Free(r, a)
        /\ kept' = [kept EXCEPT ![a] = Erased(@)]
  /\ End(r)
  /\ UNCHANGED <<now, onDisk, setBy, cleanedBy, cutOff, jammed>>

\* Hard delete: the row and what hangs on it, not the file.
DeleteDataRead(r, a) ==
  /\ InKeeping(a)
  /\ Begin(r, [kind |-> "delete data", applicant |-> a])
  /\ UNCHANGED keptState

DeleteDataCommit(r) ==
  /\ Doing(r, "delete data")
  /\ Free(r, req[r].applicant)
  /\ kept' = [kept EXCEPT ![req[r].applicant] = NoKept]
  /\ End(r)
  /\ UNCHANGED <<now, onDisk, setBy, cleanedBy, cutOff, jammed>>

Expired(a) ==
  /\ InKeeping(a) /\ ~kept[a].erased
  /\ kept[a].until # None /\ kept[a].until <= now

CleanUpRead(r) ==
  /\ Begin(r, [kind |-> "clean up", rest |-> {a \in Applicants : Expired(a)}, written |-> {},
               named |-> {a \in Applicants : Expired(a) /\ kept[a].cv}])
  /\ UNCHANGED keptState

\* The next of the expired: looked up again, but for its date and its url.
CleanUpOne(r, a) ==
  /\ Doing(r, "clean up") /\ a \in req[r].rest
  /\ InKeeping(a) /\ Free(r, a)
  /\ RemoveFile(a, a \in req[r].named)
  /\ req' = [req EXCEPT ![r].rest = @ \ {a}, ![r].written = @ \cup {a}]
  /\ UNCHANGED <<ended, saw, now, kept, setBy, cleanedBy, cutOff>>

CleanUpCommit(r) ==
  /\ Doing(r, "clean up") /\ req[r].rest = {}
  /\ kept' = [a \in Applicants |-> IF a \in req[r].written THEN Erased(kept[a]) ELSE kept[a]]
  /\ cleanedBy' = [a \in Applicants |-> IF a \in req[r].written THEN r ELSE cleanedBy[a]]
  /\ End(r)
  /\ UNCHANGED <<now, onDisk, setBy, cutOff, jammed>>

RetentionNext ==
  \/ \E r \in Requests, a \in Applicants :
       \/ \E until \in Dates \cup {None} : SetRetentionRead(r, a, until)
       \/ AnonymizeOneRead(r, a) \/ DeleteDataRead(r, a) \/ CleanUpOne(r, a)
  \/ \E r \in Requests :
       \/ SetRetentionCommit(r) \/ AnonymizeOneCommit(r) \/ DeleteDataCommit(r)
       \/ CleanUpRead(r) \/ CleanUpCommit(r) \/ RetentionAbort(r)
  \/ Tick

RetentionSpec == RetentionInit /\ [][RetentionNext]_retentionVars

-----------------------------------------------------------------------------
RetentionTypeOK ==
  /\ now \in Dates
  /\ kept \in [Applicants -> KeptRow \cup {NoKept}]
  /\ onDisk \subseteq Applicants
  /\ setBy \in [Applicants -> Requests \cup {None}]
  /\ cleanedBy \in [Applicants -> Requests \cup {None}]
  /\ cutOff \subseteq Applicants
  /\ jammed \subseteq Applicants

\* A row that names a file has it, but while an erasure is under way or after
\* one was rolled back.
NamedFilesExist ==
  \A a \in Applicants :
    InKeeping(a) /\ kept[a].cv /\ a \notin onDisk =>
      a \in cutOff \/ \E r \in Requests : a \in Removed(r)

\* The file of an erased application is gone, unless it could not be removed.
ErasedFilesAreGone ==
  \A a \in Applicants : InKeeping(a) /\ kept[a].erased /\ a \in onDisk => a \in jammed

\* A clean-up that erased an application whose date is yet to come, or that
\* has none, began before the request that set the date had ended.
CleanUpsHonourRetention ==
  \A a \in Applicants :
    /\ InKeeping(a) /\ cleanedBy[a] # None
    /\ kept[a].until = None \/ kept[a].until > now
    => setBy[a] # None /\ setBy[a] \notin saw[cleanedBy[a]]

(* However erasures, clean-ups, deletions and new dates overlap and are    *)
(* rolled back: the files go with the rows except where a rollback or the  *)
(* disk parted them, and what was to be kept longer when the clean-up      *)
(* began is kept.                                                          *)
ErasuresAreWhole == NamedFilesExist /\ ErasedFilesAreGone /\ CleanUpsHonourRetention

=============================================================================
