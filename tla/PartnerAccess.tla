----------------------------- MODULE PartnerAccess -----------------------------
(***************************************************************************)
(* The links to the partners' presentation: an admin creates, changes,     *)
(* renews and deletes them, and partners open the presentation with the    *)
(* code of a link until it is switched off, expires or has been opened     *)
(* max_views times.                                                        *)
(*                                                                         *)
(* Codes are named after the request that made them (generated codes do    *)
(* not collide).  The deck, the label and the note are left out.           *)
(***************************************************************************)
EXTENDS Requests, Integers, FiniteSets

CONSTANTS PartnerLinks, MaxViews   \* MaxViews: the caps an admin may choose

VARIABLES
  link,    \* partner_access_tokens: a row, or NoLink
  served   \* observer: the code with which a request was served, or None

partnerVars == <<requestVars, link, served>>

LinkRow ==
  [code : Requests, active : BOOLEAN, expired : BOOLEAN,
   max : MaxViews \cup {None}, count : Nat]
NoLink == [code |-> None]

Exists(l) == link[l] # NoLink

UnderCap(row) == row.max # None => row.count < row.max

\* token_is_valid.
Opens(row) == row.active /\ ~row.expired /\ UnderCap(row)

PartnerInit ==
  /\ RequestInit
  /\ link = [l \in PartnerLinks |-> NoLink]
  /\ served = [r \in Requests |-> None]

PartnerAbort(r) == End(r) /\ UNCHANGED <<link, served>>

-----------------------------------------------------------------------------
(* The public side.                                                        *)

AccessRead(r, l) ==
  /\ Exists(l) /\ Opens(link[l])
  /\ Begin(r, [kind |-> "access", link |-> l, code |-> link[l].code, count |-> link[l].count])
  /\ UNCHANGED <<link, served>>

\* Mutant: the opens of a link without a cap are not counted.
AccessCommitOfCapped(r) ==
  /\ Doing(r, "access") /\ End(r)
  /\ LET q == req[r] IN
     IF Exists(q.link)
     THEN /\ link' = IF link[q.link].max = None THEN link
                     ELSE [link EXCEPT ![q.link].count = q.count + 1]
          /\ served' = [served EXCEPT ![r] = q.code]
     ELSE UNCHANGED <<link, served>>

\* view_count is written as one more than the value read, whatever it is by
\* now.  If the row is gone, the UPDATE finds none and the request fails.
AccessCommit(r) ==
  /\ Doing(r, "access") /\ End(r)
  /\ LET q == req[r] IN
     IF Exists(q.link)
     THEN /\ link' = [link EXCEPT ![q.link].count = q.count + 1]
          /\ served' = [served EXCEPT ![r] = q.code]
     ELSE UNCHANGED <<link, served>>

-----------------------------------------------------------------------------
(* The admin.                                                              *)

CreateLink(r, l, max) ==
  /\ Once(r)
  /\ ~Exists(l)
  /\ link' = [link EXCEPT ![l] =
       [code |-> r, active |-> TRUE, expired |-> FALSE, max |-> max, count |-> 0]]
  /\ UNCHANGED served

LinkRead(r, l, kind) ==
  /\ Exists(l)
  /\ Begin(r, [kind |-> kind, link |-> l, row |-> link[l]])
  /\ UNCHANGED <<link, served>>

UpdateLinkRead(r, l) == LinkRead(r, l, "update_link")
RegenerateRead(r, l) == LinkRead(r, l, "regenerate")
DeleteLinkRead(r, l) == LinkRead(r, l, "delete_link")

\* Only what differs from the row read is written.
UpdateLinkCommit(r, active, expired, max) ==
  /\ Doing(r, "update_link") /\ End(r)
  /\ LET l == req[r].link
         was == req[r].row
     IN link' = IF ~Exists(l) THEN link
                ELSE [link EXCEPT ![l] = [link[l] EXCEPT
                        !.active = IF active = was.active THEN @ ELSE active,
                        !.expired = IF expired = was.expired THEN @ ELSE expired,
                        !.max = IF max = was.max THEN @ ELSE max]]
  /\ UNCHANGED served

\* The counter starts again with the new code, unless it was read as 0.
RegenerateCommit(r) ==
  /\ Doing(r, "regenerate") /\ End(r)
  /\ LET l == req[r].link
         was == req[r].row
     IN link' = IF ~Exists(l) THEN link
                ELSE [link EXCEPT ![l] = [link[l] EXCEPT
                        !.code = r,
                        !.count = IF was.count = 0 THEN @ ELSE 0]]
  /\ UNCHANGED served

DeleteLinkCommit(r) ==
  /\ Doing(r, "delete_link") /\ End(r)
  /\ link' = [link EXCEPT ![req[r].link] = NoLink]
  /\ UNCHANGED served

ExpireLink(l) ==
  /\ Exists(l) /\ ~link[l].expired
  /\ link' = [link EXCEPT ![l].expired = TRUE]
  /\ UNCHANGED <<requestVars, served>>

-----------------------------------------------------------------------------
PartnerNext ==
  \/ \E r \in Requests :
       \/ \E l \in PartnerLinks :
            \/ \E max \in MaxViews \cup {None} : CreateLink(r, l, max)
            \/ AccessRead(r, l) \/ UpdateLinkRead(r, l) \/ RegenerateRead(r, l)
            \/ DeleteLinkRead(r, l)
       \/ \E active, expired \in BOOLEAN, max \in MaxViews \cup {None} :
            UpdateLinkCommit(r, active, expired, max)
       \/ AccessCommit(r) \/ RegenerateCommit(r) \/ DeleteLinkCommit(r)
       \/ PartnerAbort(r)
  \/ \E l \in PartnerLinks : ExpireLink(l)

PartnerSpec == PartnerInit /\ [][PartnerNext]_partnerVars

-----------------------------------------------------------------------------
(* Properties.                                                             *)

PartnerRequest ==
  [kind : {"access"}, link : PartnerLinks, code : Requests, count : Nat]
  \cup [kind : {"update_link", "regenerate", "delete_link"}, link : PartnerLinks, row : LinkRow]

\* Every variable has its type.
PartnerTypeOK ==
  /\ req \in [Requests -> PartnerRequest \cup {Idle}]
  /\ link \in [PartnerLinks -> LinkRow \cup {NoLink}]
  /\ served \in [Requests -> Requests \cup {None}]

\* The opens of a code with no other request beside them.
AloneServed(code) ==
  {r \in Requests : served[r] = code /\ ~\E q \in Requests : Overlap(q, r)}

\* "a view cap can't be raced past by parallel requests": the counter of a
\* link is never below the opens with its code that overlapped no request, so
\* that the cap holds for these whatever else went on beside the others.
AloneOpensAreCounted ==
  \A l \in PartnerLinks : Exists(l) => Cardinality(AloneServed(link[l].code)) <= link[l].count

=============================================================================
