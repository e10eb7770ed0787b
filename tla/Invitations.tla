----------------------------- MODULE Invitations -----------------------------
(***************************************************************************)
(* Invitations of a team and the accounts that come from them, beside      *)
(* sign-ups that create accounts of their own.                             *)
(*                                                                         *)
(* A request reads, with others between, and commits what it writes: two   *)
(* steps here.  A request that its guards refuse changes nothing, and is   *)
(* no step.  Invitations, tokens and users are named after the request     *)
(* that creates them.  Addresses are compared as they are stored; roles,   *)
(* passwords and the mails that carry the tokens are left out.             *)
(***************************************************************************)
EXTENDS FiniteSets

CONSTANTS Companies, Emails, Requests,
          None   \* NULL, or no row

ASSUME InvitationsAssumption == None \notin Requests

VARIABLES
  account,  \* the user of an address (users.email is unique), or None
  inv,      \* user_invitations: the row that a request created, or NoRow
  req,      \* what a request has in memory between its reads and its commit
  ended,    \* requests that have answered
  raced,    \* observer: invitations that two requests handled at one time
  revived,  \* observer: invitations that a resend renewed after they expired
  used      \* observer: the token with which an invitation was accepted

vars == <<account, inv, req, ended, raced, revived, used>>

-----------------------------------------------------------------------------
(* Rows.                                                                   *)

NoRow == [company |-> None]

InvitationRow ==
  [company : Companies, email : Emails, token : Requests, expired : BOOLEAN,
   revoked : BOOLEAN,                          \* revoked_at IS NOT NULL
   acceptedUser : Requests \cup {None}]        \* with accepted_at

Sent(i) == inv[i] # NoRow

\* _get_pending: an expired invitation is pending still.
Pending(i) == Sent(i) /\ inv[i].acceptedUser = None /\ ~inv[i].revoked

\* get_active_by_email.
Active(i, c, e) ==
  Sent(i) /\ inv[i].company = c /\ inv[i].email = e
  /\ inv[i].acceptedUser = None /\ ~inv[i].revoked /\ ~inv[i].expired

-----------------------------------------------------------------------------
(* Requests.                                                               *)

NoRequest == [kind |-> "none"]

Request ==
  [kind : {"invite"}, company : Companies, email : Emails]
  \cup [kind : {"resend", "revoke"}, invitation : Requests]
  \cup [kind : {"accept"}, invitation : Requests, token : Requests]
  \cup [kind : {"signup"}, email : Emails]

Handles(r, i) == req[r].kind \in {"resend", "revoke", "accept"} /\ req[r].invitation = i
Invites(r, c, e) == req[r].kind = "invite" /\ req[r].company = c /\ req[r].email = e

Init ==
  /\ account = [e \in Emails |-> None]
  /\ inv = [r \in Requests |-> NoRow]
  /\ req = [r \in Requests |-> NoRequest]
  /\ ended = {} /\ raced = {} /\ revived = {}
  /\ used = [r \in Requests |-> None]

Start(r, request) ==
  /\ req[r] = NoRequest /\ r \notin ended
  /\ req' = [req EXCEPT ![r] = request]
  /\ UNCHANGED <<account, inv, ended, revived, used>>

StartOn(r, i, request) ==
  /\ Start(r, request)
  /\ raced' = IF \E q \in Requests : Handles(q, i) THEN raced \cup {i} ELSE raced

End(r) ==
  /\ req' = [req EXCEPT ![r] = NoRequest]
  /\ ended' = ended \cup {r}
  /\ UNCHANGED raced

\* Rolled back: a failure anywhere before the commit.
Abort(r) ==
  /\ req[r] # NoRequest
  /\ End(r)
  /\ UNCHANGED <<account, inv, revived, used>>

-----------------------------------------------------------------------------
(* The owner: invite, send again, revoke.                                  *)

\* Mutant: the lookup of an active invitation is forgotten.
InviteReadAlways(r, c, e) ==
  /\ account[e] = None
  /\ Start(r, [kind |-> "invite", company |-> c, email |-> e])
  /\ UNCHANGED raced

\* A lookup that finds several active invitations raises.
InviteRead(r, c, e) ==
  /\ account[e] = None
  /\ ~\E i \in Requests : Active(i, c, e)
  /\ Start(r, [kind |-> "invite", company |-> c, email |-> e])
  /\ raced' = raced \cup
       (IF \E q \in Requests : Invites(q, c, e)
        THEN {r} \cup {q \in Requests : Invites(q, c, e)} ELSE {})

InviteCommit(r) ==
  /\ req[r].kind = "invite"
  /\ End(r)
  /\ inv' = [inv EXCEPT ![r] =
       [company |-> req[r].company, email |-> req[r].email, token |-> r,
        expired |-> FALSE, revoked |-> FALSE, acceptedUser |-> None]]
  /\ UNCHANGED <<account, revived, used>>

ResendRead(r, i) ==
  Pending(i) /\ StartOn(r, i, [kind |-> "resend", invitation |-> i])

\* Only token_hash and expires_at are written.
ResendCommit(r) ==
  /\ req[r].kind = "resend"
  /\ End(r)
  /\ LET i == req[r].invitation IN
     /\ inv' = [inv EXCEPT ![i].token = r, ![i].expired = FALSE]
     /\ revived' = IF inv[i].expired THEN revived \cup {i} ELSE revived
  /\ UNCHANGED <<account, used>>

RevokeRead(r, i) ==
  Pending(i) /\ StartOn(r, i, [kind |-> "revoke", invitation |-> i])

\* Only revoked_at is written, over whatever else was committed meanwhile.
RevokeCommit(r) ==
  /\ req[r].kind = "revoke"
  /\ End(r)
  /\ inv' = [inv EXCEPT ![req[r].invitation].revoked = TRUE]
  /\ UNCHANGED <<account, revived, used>>

\* Seven days go by.
Expire(i) ==
  /\ Sent(i) /\ ~inv[i].expired
  /\ inv' = [inv EXCEPT ![i].expired = TRUE]
  /\ UNCHANGED <<account, req, ended, raced, revived, used>>

-----------------------------------------------------------------------------
(* The public side: accept, sign up.                                       *)

\* _resolve_valid_invitation finds the row by the hash of its token.
AcceptRead(r, i) ==
  /\ Pending(i) /\ ~inv[i].expired
  /\ account[inv[i].email] = None
  /\ StartOn(r, i, [kind |-> "accept", invitation |-> i, token |-> inv[i].token])

\* The user and the acceptance, in one transaction.
Accept(r, i) ==
  /\ account' = [account EXCEPT ![inv[i].email] = r]
  /\ inv' = [inv EXCEPT ![i].acceptedUser = r]
  /\ used' = [used EXCEPT ![i] = req[r].token]

\* Mutant: the addresses of users are not unique in the database.
AcceptCommitAlways(r) ==
  /\ req[r].kind = "accept"
  /\ End(r)
  /\ Accept(r, req[r].invitation)
  /\ UNCHANGED revived

\* If the address was taken meanwhile, the unique constraint rolls it back.
AcceptCommit(r) ==
  /\ req[r].kind = "accept"
  /\ End(r)
  /\ IF account[inv[req[r].invitation].email] = None
     THEN Accept(r, req[r].invitation)
     ELSE UNCHANGED <<account, inv, used>>
  /\ UNCHANGED revived

\* signup_company, or the first log-in with Google.
SignupRead(r, e) ==
  /\ account[e] = None
  /\ Start(r, [kind |-> "signup", email |-> e])
  /\ UNCHANGED raced

SignupCommit(r) ==
  /\ req[r].kind = "signup"
  /\ End(r)
  /\ account' = IF account[req[r].email] = None
                THEN [account EXCEPT ![req[r].email] = r] ELSE account
  /\ UNCHANGED <<inv, revived, used>>

-----------------------------------------------------------------------------
Next ==
  \E r \in Requests :
    \/ \E e \in Emails : SignupRead(r, e) \/ \E c \in Companies : InviteRead(r, c, e)
    \/ \E i \in Requests : ResendRead(r, i) \/ RevokeRead(r, i) \/ AcceptRead(r, i)
    \/ InviteCommit(r) \/ ResendCommit(r) \/ RevokeCommit(r)
    \/ AcceptCommit(r) \/ SignupCommit(r)
    \/ Abort(r) \/ Expire(r)

Spec == Init /\ [][Next]_vars

-----------------------------------------------------------------------------
(* Properties.                                                             *)

\* Every variable has its type; requests handle invitations that exist.
TypeOK ==
  /\ account \in [Emails -> Requests \cup {None}]
  /\ inv \in [Requests -> InvitationRow \cup {NoRow}]
  /\ req \in [Requests -> Request \cup {NoRequest}]
  /\ ended \subseteq Requests /\ raced \subseteq Requests /\ revived \subseteq Requests
  /\ used \in [Requests -> Requests \cup {None}]
  /\ \A r, i \in Requests : Handles(r, i) => Sent(i)

\* An accepted invitation has made the account of its address, and no other
\* invitation has: two invitations, or a sign-up beside one, or one link
\* followed twice, make one account.
AcceptedIsTheAccount ==
  \A i \in Requests : Sent(i) /\ inv[i].acceptedUser # None =>
    /\ account[inv[i].email] = inv[i].acceptedUser
    /\ \A j \in Requests \ {i} : Sent(j) => inv[j].acceptedUser # inv[i].acceptedUser

\* An invitation ends as accepted or as revoked, and not as both, unless two
\* requests handled it at one time.
AcceptedOrRevoked ==
  \A i \in Requests \ raced : Sent(i) => ~(inv[i].revoked /\ inv[i].acceptedUser # None)

\* Sending an invitation again ends the links sent before: it was accepted
\* with the last one, unless two requests handled it at one time.
AcceptedWithLastToken ==
  \A i \in Requests \ raced :
    Sent(i) /\ inv[i].acceptedUser # None => used[i] = inv[i].token

\* An invitation that one request at a time handles ends in one way, with the
\* token that was sent last.
OneEnd == AcceptedOrRevoked /\ AcceptedWithLastToken

\* An address has one active invitation to a company, unless two were written
\* at one time, or one that had expired was sent again.
OneActiveUnlessRacedOrRevived ==
  \A i, j \in Requests : i # j =>
    \A c \in Companies, e \in Emails :
      Active(i, c, e) /\ Active(j, c, e) => {i, j} \cap (raced \cup revived) # {}

\* What the lookup of invite expects, and the message "An active invitation
\* already exists for this email" tells: an address has one at most.
OneActiveInvitation ==
  \A i, j \in Requests, c \in Companies, e \in Emails :
    Active(i, c, e) /\ Active(j, c, e) => i = j

\* Requests that read and then commit leave what requests that take effect at
\* once would leave, but for those that handle one invitation at one time.
Book == INSTANCE InvitationBook WITH
  book     <- [i \in Requests |->
                 IF Sent(i) THEN [company |-> inv[i].company, email |-> inv[i].email,
                                  link |-> inv[i].token, revoked |-> inv[i].revoked,
                                  user |-> inv[i].acceptedUser]
                            ELSE NoRow],
  answered <- ended

InvitationBookSpec == Book!Spec

=============================================================================
