--------------------------------- MODULE Links ---------------------------------
(***************************************************************************)
(* Rows that say little more than that two things belong together: the     *)
(* jobs and the companies a candidate has saved, the tags of an            *)
(* application, and, with a value, the score a recruiter gave to it, the   *)
(* consents recorded for it and the addresses that take the newsletter.    *)
(* Each is added unless it is found; the first two are removed if found.   *)
(*                                                                         *)
(* All are unique in the database but tags: the key of application_tags    *)
(* has a generated id in it, so that the same tag can belong twice to an   *)
(* application; a lookup that then finds two rows raises.  Rows are named  *)
(* after the request that adds them.                                       *)
(***************************************************************************)
EXTENDS Requests, Naturals, FiniteSets

CONSTANTS Saved, Tagged, Kept   \* the pairs, by the kind of their table

VARIABLES
  rows,      \* the rows of a pair
  gone,      \* the pairs that name something deleted
  aboutPair  \* observer: the pair a request is about, or None

linkVars == <<requestVars, rows, gone, aboutPair>>

Pairs == Saved \cup Tagged \cup Kept
Unique == Saved \cup Kept

LinkInit ==
  /\ RequestInit
  /\ rows = [p \in Pairs |-> {}]
  /\ gone = {}
  /\ aboutPair = [r \in Requests |-> None]

LinkAbort(r) == End(r) /\ UNCHANGED <<rows, gone, aboutPair>>

\* scalar_one_or_none: two rows raise.
Lookup(p) == Cardinality(rows[p]) <= 1

\* Mutant: the lookup before an insert is forgotten.
AddReadAlways(r, p) ==
  /\ Begin(r, [kind |-> "add"])
  /\ aboutPair' = [aboutPair EXCEPT ![r] = p]
  /\ UNCHANGED <<rows, gone>>

\* A pair that is found is left alone, or its value is changed in place.
AddRead(r, p) ==
  /\ p \notin gone /\ Lookup(p) /\ rows[p] = {}
  /\ Begin(r, [kind |-> "add"])
  /\ aboutPair' = [aboutPair EXCEPT ![r] = p]
  /\ UNCHANGED <<rows, gone>>

\* The unique constraint rolls the second of two inserts back, and the foreign
\* key one that names something deleted.
AddCommit(r) ==
  /\ Doing(r, "add") /\ End(r)
  /\ LET p == aboutPair[r] IN
     rows' = IF p \in gone \/ (p \in Unique /\ rows[p] # {}) THEN rows
             ELSE [rows EXCEPT ![p] = @ \cup {r}]
  /\ UNCHANGED <<gone, aboutPair>>

RemoveLinkRead(r, p) ==
  /\ p \notin Kept
  /\ Lookup(p) /\ rows[p] # {}
  /\ Begin(r, [kind |-> "remove_link", rows |-> rows[p]])
  /\ aboutPair' = [aboutPair EXCEPT ![r] = p]
  /\ UNCHANGED <<rows, gone>>

RemoveLinkCommit(r) ==
  /\ Doing(r, "remove_link") /\ End(r)
  /\ rows' = [rows EXCEPT ![aboutPair[r]] = @ \ req[r].rows]
  /\ UNCHANGED <<gone, aboutPair>>

\* The tag, job, company or consent is deleted, and its rows with it.
DeleteNamed(r, p) ==
  /\ p \notin gone
  /\ Once(r)
  /\ rows' = [rows EXCEPT ![p] = {}]
  /\ gone' = gone \cup {p}
  /\ UNCHANGED aboutPair

-----------------------------------------------------------------------------
LinkNext ==
  \E r \in Requests :
    \/ \E p \in Pairs : AddRead(r, p) \/ RemoveLinkRead(r, p) \/ DeleteNamed(r, p)
    \/ AddCommit(r) \/ RemoveLinkCommit(r)
    \/ LinkAbort(r)

LinkSpec == LinkInit /\ [][LinkNext]_linkVars

-----------------------------------------------------------------------------
(* Properties.                                                             *)

LinkRequest ==
  [kind : {"add"}] \cup [kind : {"remove_link"}, rows : SUBSET Requests]

\* Every variable has its type.
LinkTypeOK ==
  /\ req \in [Requests -> LinkRequest \cup {Idle}]
  /\ rows \in [Pairs -> SUBSET Requests]
  /\ gone \subseteq Pairs
  /\ aboutPair \in [Requests -> Pairs \cup {None}]
  /\ \A r \in Requests : req[r] # Idle => aboutPair[r] \in Pairs

\* A pair has one row at most, so that its lookups work; a tag has two only
\* when the requests that added it overlapped.
OneRowUnlessOverlapped ==
  \A p \in Pairs : \A q, r \in rows[p] :
    q # r => p \in Tagged /\ Overlap(q, r)

=============================================================================
