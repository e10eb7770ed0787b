-------------------------------- MODULE Sessions --------------------------------
(***************************************************************************)
(* Sessions: the refresh tokens of the three kinds of account, staff of a  *)
(* company (auth, users), candidates and platform admins.  A session is a  *)
(* chain of tokens: each refresh revokes the one it was given and issues   *)
(* another.  Tokens are named after the request that issues them.          *)
(*                                                                         *)
(* Candidates and admins are looked up to be active when they log in and   *)
(* refresh; staff are not, and are stopped at each use of the API          *)
(* (get_current_user).  Only the owner of a company deactivates, and only  *)
(* staff.  Passwords, cookies, roles and access tokens are left out.       *)
(***************************************************************************)
EXTENDS Requests

CONSTANTS Owners, Members, Candidates, Admins

VARIABLES
  status,  \* users, candidates, admins: is_active, or "none" before sign-up
  token,   \* refresh_tokens and its two siblings: a row, or NoToken
  parent,  \* observer: the token a token was refreshed from, or None
  cut      \* observer: the tokens that a deactivation revoked

sessionVars == <<requestVars, status, token, parent, cut>>

Staff == Owners \cup Members
Accounts == Staff \cup Candidates \cup Admins

TokenRow == [account : Accounts, revoked : BOOLEAN, expired : BOOLEAN]
NoToken == [account |-> None]

Issued(t) == token[t] # NoToken

\* Mutant: the lookup does not look at revoked.
ValidOrRevoked(t) == Issued(t) /\ ~token[t].expired

\* get_refresh_token: neither revoked nor expired.
Valid(t) == Issued(t) /\ ~token[t].revoked /\ ~token[t].expired

MayOpen(a) == status[a] = "active" \/ (a \in Staff /\ status[a] # "none")

SessionInit ==
  /\ RequestInit
  /\ status = [a \in Accounts |-> IF a \in Candidates THEN "none" ELSE "active"]
  /\ token = [r \in Requests |-> NoToken]
  /\ parent = [r \in Requests |-> None]
  /\ cut = [r \in Requests |-> {}]

NewToken(a) == [account |-> a, revoked |-> FALSE, expired |-> FALSE]

SessionAbort(r) == End(r) /\ UNCHANGED <<status, token, parent, cut>>

-----------------------------------------------------------------------------
(* Opening a session.                                                      *)

LoginRead(r, a) ==
  /\ MayOpen(a)
  /\ Begin(r, [kind |-> "login", account |-> a])
  /\ UNCHANGED <<status, token, parent, cut>>

LoginCommit(r) ==
  /\ Doing(r, "login") /\ End(r)
  /\ token' = [token EXCEPT ![r] = NewToken(req[r].account)]
  /\ UNCHANGED <<status, parent, cut>>

\* A candidate makes an account of their own, and is logged in with it.
SignupRead(r, a) ==
  /\ a \in Candidates /\ status[a] = "none"
  /\ Begin(r, [kind |-> "signup", account |-> a])
  /\ UNCHANGED <<status, token, parent, cut>>

\* candidates.email is unique: the second of two sign-ups is rolled back.
SignupCommit(r) ==
  /\ Doing(r, "signup") /\ End(r)
  /\ IF status[req[r].account] = "none"
     THEN /\ status' = [status EXCEPT ![req[r].account] = "active"]
          /\ token' = [token EXCEPT ![r] = NewToken(req[r].account)]
     ELSE UNCHANGED <<status, token>>
  /\ UNCHANGED <<parent, cut>>

-----------------------------------------------------------------------------
(* Continuing and leaving it.                                              *)

RefreshRead(r, t) ==
  /\ Valid(t) /\ MayOpen(token[t].account)
  /\ Begin(r, [kind |-> "refresh", token |-> t])
  /\ UNCHANGED <<status, token, parent, cut>>

\* Mutant: the token it was given stays valid.
RefreshCommitKeeping(r) ==
  /\ Doing(r, "refresh") /\ End(r)
  /\ token' = [token EXCEPT ![r] = NewToken(token[req[r].token].account)]
  /\ parent' = [parent EXCEPT ![r] = req[r].token]
  /\ UNCHANGED <<status, cut>>

\* The token is revoked by its id or its hash, whatever it is by then.
RefreshCommit(r) ==
  /\ Doing(r, "refresh") /\ End(r)
  /\ token' = [token EXCEPT ![req[r].token].revoked = TRUE,
                            ![r] = NewToken(token[req[r].token].account)]
  /\ parent' = [parent EXCEPT ![r] = req[r].token]
  /\ UNCHANGED <<status, cut>>

\* Of staff only a valid token is revoked, of the others any.
LogoutRead(r, t) ==
  /\ IF Issued(t) /\ token[t].account \in Staff THEN Valid(t) ELSE Issued(t)
  /\ Begin(r, [kind |-> "logout", token |-> t])
  /\ UNCHANGED <<status, token, parent, cut>>

LogoutCommit(r) ==
  /\ Doing(r, "logout") /\ End(r)
  /\ token' = [token EXCEPT ![req[r].token].revoked = TRUE]
  /\ UNCHANGED <<status, parent, cut>>

\* Thirty days go by.
ExpireToken(t) ==
  /\ Issued(t) /\ ~token[t].expired
  /\ token' = [token EXCEPT ![t].expired = TRUE]
  /\ UNCHANGED <<requestVars, status, parent, cut>>

-----------------------------------------------------------------------------
(* Deactivating a member, and activating them again.                       *)

OpenTokens(a) == {t \in Requests : Issued(t) /\ token[t].account = a /\ ~token[t].revoked}

\* Owners cannot be deactivated.  revoke_all_user_tokens reads the tokens.
SetActiveRead(r, o, m, to) ==
  /\ status[o] = "active" /\ status[m] # "none"
  /\ Begin(r, [kind |-> "set_active", member |-> m, was |-> status[m], to |-> to,
               tokens |-> IF to = "inactive" THEN OpenTokens(m) ELSE {}])
  /\ UNCHANGED <<status, token, parent, cut>>

SetActiveCommit(r) ==
  /\ Doing(r, "set_active") /\ End(r)
  /\ LET q == req[r] IN
     /\ status' = IF q.was = q.to THEN status ELSE [status EXCEPT ![q.member] = q.to]
     /\ token' = [t \in Requests |-> IF t \in q.tokens
                                     THEN [token[t] EXCEPT !.revoked = TRUE]
                                     ELSE token[t]]
     /\ cut' = [cut EXCEPT ![r] = q.tokens]
  /\ UNCHANGED parent

-----------------------------------------------------------------------------
SessionNext ==
  \E r \in Requests :
    \/ \E a \in Accounts : LoginRead(r, a) \/ SignupRead(r, a)
    \/ \E t \in Requests : RefreshRead(r, t) \/ LogoutRead(r, t)
    \/ \E o \in Owners, m \in Members, to \in {"active", "inactive"} :
         SetActiveRead(r, o, m, to)
    \/ LoginCommit(r) \/ SignupCommit(r) \/ RefreshCommit(r) \/ LogoutCommit(r)
    \/ SetActiveCommit(r)
    \/ SessionAbort(r) \/ ExpireToken(r)

SessionSpec == SessionInit /\ [][SessionNext]_sessionVars

-----------------------------------------------------------------------------
(* Properties.                                                             *)

SessionRequest ==
  [kind : {"login", "signup"}, account : Accounts]
  \cup [kind : {"refresh", "logout"}, token : Requests]
  \cup [kind : {"set_active"}, member : Members, was : {"active", "inactive"},
        to : {"active", "inactive"}, tokens : SUBSET Requests]

\* Every variable has its type; requests are about tokens that were issued.
SessionTypeOK ==
  /\ req \in [Requests -> SessionRequest \cup {Idle}]
  /\ status \in [Accounts -> {"none", "active", "inactive"}]
  /\ token \in [Requests -> TokenRow \cup {NoToken}]
  /\ parent \in [Requests -> Requests \cup {None}]
  /\ cut \in [Requests -> SUBSET Requests]
  /\ \A r \in Requests :
       /\ req[r].kind \in {"refresh", "logout"} => Issued(req[r].token)
       /\ Doing(r, "set_active") => \A t \in req[r].tokens : Issued(t)

\* Refreshing ends the token it was given: a session goes on in two only if
\* two refreshes with one token overlapped.
OneHeirUnlessOverlapped ==
  \A q, r \in Requests :
    q # r /\ parent[q] # None /\ parent[q] = parent[r] => Overlap(q, r)

\* "Drop active sessions so the deactivated user is kicked out": no request
\* that began after a deactivation goes on with a session that it ended, even
\* when the member has been activated again.
DeactivationEndsSessions ==
  \A d, r \in Requests : parent[r] \in cut[d] => d \notin saw[r]

=============================================================================
