---------------------------- MODULE InvitationBook ----------------------------
(***************************************************************************)
(* What an owner and the invited may rely on: each request takes effect at *)
(* once, or not at all, as if it had run alone.  An invitation is entered  *)
(* once, for one address and company; it is open until it is accepted with *)
(* its last link or revoked; only an address without an account gets one,  *)
(* and keeps it.  Only where two requests handle an invitation at one time *)
(* may one act on what is no longer so; even then it is accepted once.     *)
(***************************************************************************)
CONSTANTS Companies, Emails, Requests,
          None   \* no account, or not accepted

VARIABLES
  account,   \* the request that made the account of an address, or None
  book,      \* the entry that a request made, or NoEntry
  used,      \* the link with which an invitation was accepted, or None
  answered,  \* the requests that took effect, or were refused
  raced      \* the invitations that two requests handle at one time

vars == <<account, book, used, answered, raced>>

NoEntry == [company |-> None]
Entry(c, e, link, revoked, user) ==
  [company |-> c, email |-> e, link |-> link, revoked |-> revoked, user |-> user]

Init ==
  /\ account = [e \in Emails |-> None]
  /\ book = [i \in Requests |-> NoEntry]
  /\ used = [i \in Requests |-> None]
  /\ answered = {} /\ raced = {}

Answer(r) == r \notin answered /\ answered' = answered \cup {r} /\ UNCHANGED raced

\* A request may act on invitation i.
Open(i) ==
  /\ book[i] # NoEntry
  /\ i \in raced \/ (book[i].user = None /\ ~book[i].revoked)

Invite(r, c, e) ==
  /\ Answer(r) /\ book[r] = NoEntry
  /\ book' = [book EXCEPT ![r] = Entry(c, e, r, FALSE, None)]
  /\ UNCHANGED <<account, used>>

Resend(r, i) ==
  /\ Answer(r) /\ Open(i)
  /\ book' = [book EXCEPT ![i].link = r]
  /\ UNCHANGED <<account, used>>

Revoke(r, i) ==
  /\ Answer(r) /\ Open(i)
  /\ book' = [book EXCEPT ![i].revoked = TRUE]
  /\ UNCHANGED <<account, used>>

Accept(r, i, link) ==
  /\ Answer(r) /\ Open(i) /\ book[i].user = None
  /\ link = book[i].link \/ i \in raced
  /\ account[book[i].email] = None
  /\ account' = [account EXCEPT ![book[i].email] = r]
  /\ book' = [book EXCEPT ![i].user = r]
  /\ used' = [used EXCEPT ![i] = link]

Signup(r, e) ==
  /\ Answer(r) /\ account[e] = None
  /\ account' = [account EXCEPT ![e] = r]
  /\ UNCHANGED <<book, used>>

Refuse(r) == Answer(r) /\ UNCHANGED <<account, book, used>>

Race(met) == raced' = raced \cup met /\ UNCHANGED <<account, book, used, answered>>

Next ==
  \/ \E r \in Requests :
       \/ \E e \in Emails : Signup(r, e) \/ \E c \in Companies : Invite(r, c, e)
       \/ \E i \in Requests :
            \/ Resend(r, i) \/ Revoke(r, i)
            \/ \E link \in Requests : Accept(r, i, link)
       \/ Refuse(r)
  \/ \E met \in SUBSET Requests : Race(met)

Spec == Init /\ [][Next]_vars

=============================================================================
