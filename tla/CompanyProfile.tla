----------------------------- MODULE CompanyProfile -----------------------------
(***************************************************************************)
(* The address (slug) of a company's public profile: unique, and chosen    *)
(* once.  A PATCH that carries an explicit null clears it, for the check   *)
(* is made only of a slug that is given.  The other sections of a profile  *)
(* are left out, its images are in Images.                                 *)
(***************************************************************************)
EXTENDS Requests

CONSTANTS Profiles, Addresses

VARIABLES
  slug,   \* companies.slug, or None
  slugBy  \* observer: the request that last wrote it

profileVars == <<requestVars, slug, slugBy>>

ProfileInit ==
  /\ RequestInit
  /\ slug = [c \in Profiles |-> None]
  /\ slugBy = [c \in Profiles |-> None]

ProfileAbort(r) == End(r) /\ UNCHANGED <<slug, slugBy>>

TakenByAnother(s, c) == \E d \in Profiles \ {c} : slug[d] = s

\* Mutant: the slug may be changed.
ProfileReadAnew(r, c, s) ==
  /\ s # None => ~TakenByAnother(s, c)
  /\ Begin(r, [kind |-> "profile", company |-> c, was |-> slug[c], to |-> s])
  /\ UNCHANGED <<slug, slugBy>>

ProfileRead(r, c, s) ==
  /\ s # None => IF slug[c] = None THEN ~TakenByAnother(s, c) ELSE s = slug[c]
  /\ Begin(r, [kind |-> "profile", company |-> c, was |-> slug[c], to |-> s])
  /\ UNCHANGED <<slug, slugBy>>

\* The unique index rolls back a slug that another company has by now.
ProfileCommit(r) ==
  /\ Doing(r, "profile") /\ End(r)
  /\ LET c == req[r].company
         s == req[r].to
     IN IF s = req[r].was \/ (s # None /\ TakenByAnother(s, c))
        THEN UNCHANGED <<slug, slugBy>>
        ELSE /\ slug' = [slug EXCEPT ![c] = s]
             /\ slugBy' = [slugBy EXCEPT ![c] = r]

ProfileNext ==
  \E r \in Requests :
    \/ \E c \in Profiles, s \in Addresses \cup {None} : ProfileRead(r, c, s)
    \/ ProfileCommit(r) \/ ProfileAbort(r)

ProfileSpec == ProfileInit /\ [][ProfileNext]_profileVars

-----------------------------------------------------------------------------
(* Properties.                                                             *)

ProfileRequest ==
  [kind : {"profile"}, company : Profiles, was : Addresses \cup {None},
   to : Addresses \cup {None}]

\* Every variable has its type.
ProfileTypeOK ==
  /\ req \in [Requests -> ProfileRequest \cup {Idle}]
  /\ slug \in [Profiles -> Addresses \cup {None}]
  /\ slugBy \in [Profiles -> Requests \cup {None}]

\* "Slug is set-once": no step puts another slug in the place of one, unless
\* the requests that wrote the two overlapped.
SlugIsNeverReplaced ==
  [][\A c \in Profiles : slug[c] # None /\ slug[c]' \notin {None, slug[c]} =>
       \E q \in Requests : q = slugBy[c] /\ Overlap(q, slugBy[c])']_profileVars

=============================================================================
