-------------------------- MODULE InvitationsProofs --------------------------
(***************************************************************************)
(* Proofs about Invitations, for all companies, addresses and requests.    *)
(***************************************************************************)
EXTENDS Invitations, TLAPS

-----------------------------------------------------------------------------
(* Type correctness.                                                       *)

\* The rows and requests are told apart by their fields.
LEMMA Typed ==
  ASSUME TypeOK, NEW r \in Requests
  PROVE  /\ Sent(r) => inv[r] \in InvitationRow
         /\ req[r].kind = "invite" =>
              req[r].company \in Companies /\ req[r].email \in Emails
         /\ req[r].kind \in {"resend", "revoke", "accept"} => req[r].invitation \in Requests
         /\ req[r].kind = "accept" => req[r].token \in Requests
         /\ req[r].kind = "signup" => req[r].email \in Emails
BY DEF TypeOK, Sent, Request, NoRequest

\* An update of one field keeps a row a row.
LEMMA RowUpdates ==
  ASSUME NEW w \in InvitationRow, NEW t \in Requests, NEW u \in Requests
  PROVE  /\ [w EXCEPT !.token = t] \in InvitationRow
         /\ [w EXCEPT !.expired = FALSE] \in InvitationRow
         /\ [w EXCEPT !.expired = TRUE] \in InvitationRow
         /\ [w EXCEPT !.revoked = TRUE] \in InvitationRow
         /\ [w EXCEPT !.acceptedUser = u] \in InvitationRow
BY DEF InvitationRow

LEMMA RowsAreRows ==
  ASSUME NEW w \in InvitationRow
  PROVE  w # NoRow
BY DEF InvitationRow, NoRow

\* What the writers do to the rows.
LEMMA InviteCommitRow ==
  ASSUME TypeOK, NEW r \in Requests, InviteCommit(r)
  PROVE  /\ inv' \in [Requests -> InvitationRow \cup {NoRow}]
         /\ inv'[r] \in InvitationRow /\ inv'[r].acceptedUser = None
         /\ inv'[r].revoked = FALSE
         /\ inv'[r].company = req[r].company /\ inv'[r].email = req[r].email
         /\ \A k \in Requests \ {r} : inv'[k] = inv[k]
<1> DEFINE w == [company |-> req[r].company, email |-> req[r].email, token |-> r,
                 expired |-> FALSE, revoked |-> FALSE, acceptedUser |-> None]
<1>1. w \in InvitationRow
  BY Typed DEF InviteCommit, InvitationRow
<1>2. inv' = [inv EXCEPT ![r] = w] /\ inv \in [Requests -> InvitationRow \cup {NoRow}]
  BY DEF InviteCommit, TypeOK
<1>3. /\ w.acceptedUser = None /\ w.revoked = FALSE
      /\ w.company = req[r].company /\ w.email = req[r].email
  OBVIOUS
<1> HIDE DEF w
<1> QED BY <1>1, <1>2, <1>3

LEMMA ResendCommitRow ==
  ASSUME TypeOK, NEW r \in Requests, ResendCommit(r), NEW i, i = req[r].invitation
  PROVE  /\ i \in Requests /\ inv[i] \in InvitationRow /\ inv'[i] \in InvitationRow
         /\ inv'[i] = [inv[i] EXCEPT !.token = r, !.expired = FALSE]
         /\ \A k \in Requests \ {i} : inv'[k] = inv[k]
         /\ inv' \in [Requests -> InvitationRow \cup {NoRow}]
<1>1. i \in Requests /\ Sent(i) /\ inv[i] \in InvitationRow
  BY Typed DEF ResendCommit, TypeOK, Handles
<1>2. inv' = [inv EXCEPT ![i].token = r, ![i].expired = FALSE]
      /\ inv \in [Requests -> InvitationRow \cup {NoRow}]
  BY DEF ResendCommit, TypeOK
<1>3. inv'[i] = [inv[i] EXCEPT !.token = r, !.expired = FALSE]
  BY <1>1, <1>2
<1>4. [inv[i] EXCEPT !.token = r, !.expired = FALSE] \in InvitationRow
  BY <1>1, RowUpdates
<1> QED BY <1>1, <1>2, <1>3, <1>4

LEMMA RevokeCommitRow ==
  ASSUME TypeOK, NEW r \in Requests, RevokeCommit(r), NEW i, i = req[r].invitation
  PROVE  /\ i \in Requests /\ inv[i] \in InvitationRow /\ inv'[i] \in InvitationRow
         /\ inv'[i] = [inv[i] EXCEPT !.revoked = TRUE]
         /\ \A k \in Requests \ {i} : inv'[k] = inv[k]
         /\ inv' \in [Requests -> InvitationRow \cup {NoRow}]
<1>1. i \in Requests /\ Sent(i) /\ inv[i] \in InvitationRow
  BY Typed DEF RevokeCommit, TypeOK, Handles
<1>2. inv' = [inv EXCEPT ![i].revoked = TRUE]
      /\ inv \in [Requests -> InvitationRow \cup {NoRow}]
  BY DEF RevokeCommit, TypeOK
<1>3. inv'[i] = [inv[i] EXCEPT !.revoked = TRUE]
  BY <1>1, <1>2
<1> QED BY <1>1, <1>2, <1>3, RowUpdates

LEMMA ExpireRow ==
  ASSUME TypeOK, NEW i \in Requests, Expire(i)
  PROVE  /\ inv[i] \in InvitationRow /\ inv'[i] \in InvitationRow
         /\ inv'[i] = [inv[i] EXCEPT !.expired = TRUE]
         /\ \A k \in Requests \ {i} : inv'[k] = inv[k]
         /\ inv' \in [Requests -> InvitationRow \cup {NoRow}]
<1>1. Sent(i) /\ inv[i] \in InvitationRow
  BY Typed DEF Expire
<1>2. inv' = [inv EXCEPT ![i].expired = TRUE]
      /\ inv \in [Requests -> InvitationRow \cup {NoRow}]
  BY DEF Expire, TypeOK
<1>3. inv'[i] = [inv[i] EXCEPT !.expired = TRUE]
  BY <1>1, <1>2
<1> QED BY <1>1, <1>2, <1>3, RowUpdates

LEMMA AcceptRow ==
  ASSUME TypeOK, NEW r \in Requests, req[r].kind = "accept",
         NEW i, i = req[r].invitation, Accept(r, i)
  PROVE  /\ i \in Requests /\ inv[i] \in InvitationRow /\ inv'[i] \in InvitationRow
         /\ inv'[i] = [inv[i] EXCEPT !.acceptedUser = r]
         /\ \A k \in Requests \ {i} : inv'[k] = inv[k]
         /\ inv' \in [Requests -> InvitationRow \cup {NoRow}]
<1>1. i \in Requests /\ Sent(i) /\ inv[i] \in InvitationRow
  BY Typed DEF TypeOK, Handles
<1>2. inv' = [inv EXCEPT ![i].acceptedUser = r]
      /\ inv \in [Requests -> InvitationRow \cup {NoRow}]
  BY DEF Accept, TypeOK
<1>3. inv'[i] = [inv[i] EXCEPT !.acceptedUser = r]
  BY <1>1, <1>2
<1> QED BY <1>1, <1>2, <1>3, RowUpdates

\* A row stays a row.
LEMMA RowsStay ==
  ASSUME TypeOK, [Next]_vars, NEW i \in Requests, Sent(i)
  PROVE  Sent(i)'
<1>1. inv[i] \in InvitationRow
  BY Typed
<1>2. ASSUME NEW k \in Requests, \A j \in Requests \ {k} : inv'[j] = inv[j],
             inv'[k] \in InvitationRow
      PROVE  inv'[i] \in InvitationRow
  BY <1>1, <1>2
<1>3. ASSUME UNCHANGED inv PROVE inv'[i] \in InvitationRow
  BY <1>1, <1>3
<1>4. ASSUME NEW r \in Requests, AcceptCommit(r) PROVE inv'[i] \in InvitationRow
  BY <1>2, <1>3, <1>4, AcceptRow DEF AcceptCommit
<1>5. inv'[i] \in InvitationRow
  BY <1>2, <1>3, <1>4, InviteCommitRow, ResendCommitRow, RevokeCommitRow, ExpireRow
     DEF Next, vars, SignupRead, InviteRead, ResendRead, RevokeRead, AcceptRead, Start,
         StartOn, SignupCommit, Abort
<1> QED BY <1>5, RowsAreRows DEF Sent

LEMMA TypeInit == Init => TypeOK
BY DEF Init, TypeOK, Handles, NoRequest

\* Handled invitations exist, whatever starts or ends.
LEMMA HandledStart ==
  ASSUME TypeOK, NEW r \in Requests, NEW request, Start(r, request),
         request.kind \in {"resend", "revoke", "accept"} => Sent(request.invitation)
  PROVE  \A q, i \in Requests : Handles(q, i)' => Sent(i)'
<1>1. req \in [Requests -> Request \cup {NoRequest}] /\ inv' = inv
  BY DEF TypeOK, Start
<1>2. \A q \in Requests : req'[q] = IF q = r THEN request ELSE req[q]
  BY <1>1 DEF Start
<1> QED BY <1>1, <1>2 DEF TypeOK, Handles, Sent

LEMMA EndStep ==
  ASSUME TypeOK, NEW r \in Requests, End(r)
  PROVE  /\ \A q \in Requests : req'[q] = IF q = r THEN NoRequest ELSE req[q]
         /\ req' \in [Requests -> Request \cup {NoRequest}]
         /\ ended' \subseteq Requests /\ raced' \subseteq Requests
         /\ \A q, i \in Requests : Handles(q, i)' => q # r /\ Handles(q, i)
BY DEF TypeOK, End, Handles, NoRequest

LEMMA TypeStart ==
  ASSUME TypeOK, NEW r \in Requests, NEW request \in Request, Start(r, request),
         request.kind \in {"resend", "revoke", "accept"} => Sent(request.invitation),
         raced' \subseteq Requests
  PROVE  TypeOK'
<1>1. \A q, i \in Requests : Handles(q, i)' => Sent(i)'
  BY HandledStart
<1>2. req' \in [Requests -> Request \cup {NoRequest}]
  BY DEF Start, TypeOK
<1> QED BY <1>1, <1>2 DEF Start, TypeOK

LEMMA TypeEnd ==
  ASSUME TypeOK, NEW r \in Requests, End(r), [Next]_vars,
         inv' \in [Requests -> InvitationRow \cup {NoRow}],
         account' \in [Emails -> Requests \cup {None}],
         used' \in [Requests -> Requests \cup {None}], revived' \subseteq Requests
  PROVE  TypeOK'
<1>1. \A q, i \in Requests : Handles(q, i)' => Sent(i)'
  BY EndStep, RowsStay DEF TypeOK
<1> QED BY <1>1, EndStep DEF TypeOK

LEMMA TypeStep == TypeOK /\ [Next]_vars => TypeOK'
<1> SUFFICES ASSUME TypeOK, [Next]_vars PROVE TypeOK'
  OBVIOUS
<1>0. /\ inv \in [Requests -> InvitationRow \cup {NoRow}]
      /\ account \in [Emails -> Requests \cup {None}]
      /\ used \in [Requests -> Requests \cup {None}]
      /\ raced \subseteq Requests /\ revived \subseteq Requests
  BY DEF TypeOK
<1>1. ASSUME NEW r \in Requests, NEW e \in Emails, SignupRead(r, e) PROVE TypeOK'
  <2>1. [kind |-> "signup", email |-> e] \in Request
    BY DEF Request
  <2> QED BY <1>0, <1>1, <2>1, TypeStart DEF SignupRead
<1>2. ASSUME NEW r \in Requests, NEW e \in Emails, NEW c \in Companies, InviteRead(r, c, e)
      PROVE  TypeOK'
  <2>1. [kind |-> "invite", company |-> c, email |-> e] \in Request
    BY DEF Request
  <2>2. raced' \subseteq Requests
    BY <1>0, <1>2 DEF InviteRead
  <2> QED BY <1>2, <2>1, <2>2, TypeStart DEF InviteRead
<1>3. ASSUME NEW r \in Requests, NEW i \in Requests, ResendRead(r, i) \/ RevokeRead(r, i)
      PROVE  TypeOK'
  <2>1. PICK k \in {"resend", "revoke"} : StartOn(r, i, [kind |-> k, invitation |-> i])
    BY <1>3 DEF ResendRead, RevokeRead
  <2>2. [kind |-> k, invitation |-> i] \in Request
    BY <2>1 DEF Request
  <2>3. Sent(i) /\ raced' \subseteq Requests
    BY <1>0, <1>3, <2>1 DEF ResendRead, RevokeRead, Pending, StartOn
  <2> QED BY <2>1, <2>2, <2>3, TypeStart DEF StartOn
<1>4. ASSUME NEW r \in Requests, NEW i \in Requests, AcceptRead(r, i) PROVE TypeOK'
  <2> DEFINE request == [kind |-> "accept", invitation |-> i, token |-> inv[i].token]
  <2>1. Sent(i) /\ inv[i] \in InvitationRow
    BY <1>4, Typed DEF AcceptRead, Pending
  <2>2. request \in Request
    BY <2>1 DEF Request, InvitationRow
  <2>3. StartOn(r, i, request) /\ raced' \subseteq Requests
    BY <1>0, <1>4 DEF AcceptRead, StartOn
  <2> QED BY <2>1, <2>2, <2>3, TypeStart DEF StartOn
<1>5. ASSUME NEW r \in Requests, InviteCommit(r) PROVE TypeOK'
  BY <1>0, <1>5, InviteCommitRow, TypeEnd DEF InviteCommit
<1>6. ASSUME NEW r \in Requests, ResendCommit(r) PROVE TypeOK'
  BY <1>0, <1>6, ResendCommitRow, TypeEnd DEF ResendCommit
<1>7. ASSUME NEW r \in Requests, RevokeCommit(r) PROVE TypeOK'
  BY <1>0, <1>7, RevokeCommitRow, TypeEnd DEF RevokeCommit
<1>8. ASSUME NEW r \in Requests, AcceptCommit(r) PROVE TypeOK'
  <2> DEFINE i == req[r].invitation
  <2>1. CASE UNCHANGED <<account, inv, used>>
    BY <1>0, <1>8, <2>1, TypeEnd DEF AcceptCommit
  <2>2. CASE Accept(r, i)
    <3>1. inv' \in [Requests -> InvitationRow \cup {NoRow}]
      BY <1>8, <2>2, AcceptRow DEF AcceptCommit
    <3>2. req[r].token \in Requests
      BY <1>8, Typed DEF AcceptCommit
    <3> QED BY <1>0, <1>8, <2>2, <3>1, <3>2, TypeEnd DEF AcceptCommit, Accept
  <2> QED BY <1>8, <2>1, <2>2 DEF AcceptCommit
<1>9. ASSUME NEW r \in Requests, SignupCommit(r) PROVE TypeOK'
  BY <1>0, <1>9, TypeEnd DEF SignupCommit
<1>10. ASSUME NEW r \in Requests, Abort(r) PROVE TypeOK'
  BY <1>0, <1>10, TypeEnd DEF Abort
<1>11. ASSUME NEW i \in Requests, Expire(i) PROVE TypeOK'
  <2>1. inv' \in [Requests -> InvitationRow \cup {NoRow}]
    BY <1>11, ExpireRow
  <2>2. \A q, k \in Requests : Handles(q, k)' => Sent(k)'
    BY <1>11, RowsStay DEF Expire, Handles, TypeOK
  <2> QED BY <1>11, <2>1, <2>2 DEF Expire, TypeOK
<1>12. CASE UNCHANGED vars
  BY <1>12 DEF vars, TypeOK, Handles, Sent
<1> QED
  BY <1>1, <1>2, <1>3, <1>4, <1>5, <1>6, <1>7, <1>8, <1>9, <1>10, <1>11, <1>12 DEF Next

\* Every reachable state is well typed.
THEOREM TypeCorrect == Spec => []TypeOK
BY TypeInit, TypeStep, PTL DEF Spec

-----------------------------------------------------------------------------
(* The life of an invitation.                                              *)

\* A request that runs has not answered; rows and users come from requests
\* that have.
RunningOrEnded ==
  /\ \A r \in Requests : req[r] # NoRequest => r \notin ended
  /\ \A i \in Requests : Sent(i) =>
       i \in ended /\ (inv[i].acceptedUser # None => inv[i].acceptedUser \in ended)

\* What a request read about its invitation holds until it commits, unless
\* another request handles the invitation as well.
ReadStillHolds ==
  \A r, i \in Requests : Handles(r, i) /\ i \notin raced =>
    /\ Pending(i)
    /\ req[r].kind = "accept" => req[r].token = inv[i].token
    /\ \A q \in Requests \ {r} : ~Handles(q, i)

\* An invite that is under way saw no active invitation that stays one, and
\* others under way for the same address are marked.
InviteSawNone ==
  \A r \in Requests, c \in Companies, e \in Emails : Invites(r, c, e) =>
    /\ \A i \in Requests : Active(i, c, e) => i \in raced \cup revived
    /\ \A q \in Requests \ {r} : Invites(q, c, e) => q \in raced

Life ==
  /\ RunningOrEnded /\ ReadStillHolds /\ InviteSawNone
  /\ AcceptedIsTheAccount /\ AcceptedOrRevoked /\ AcceptedWithLastToken
  /\ OneActiveUnlessRacedOrRevived

LifeInv == TypeOK /\ Life

\* Steps that change no row and no account.
LEMMA RowsUnchanged ==
  ASSUME LifeInv, UNCHANGED <<account, inv, used>>,
         raced \subseteq raced', revived \subseteq revived'
  PROVE  /\ AcceptedIsTheAccount' /\ AcceptedOrRevoked' /\ AcceptedWithLastToken'
         /\ OneActiveUnlessRacedOrRevived'
BY DEF LifeInv, Life, AcceptedIsTheAccount, AcceptedOrRevoked, AcceptedWithLastToken,
       OneActiveUnlessRacedOrRevived, Active, Sent

\* The requests after one has started ...
LEMMA Started ==
  ASSUME TypeOK, NEW r \in Requests, NEW request, Start(r, request)
  PROVE  /\ req[r] = NoRequest /\ r \notin ended
         /\ \A q \in Requests : req'[q] = IF q = r THEN request ELSE req[q]
         /\ UNCHANGED <<account, inv, ended, revived, used>>
BY DEF TypeOK, Start

\* ... and after one has ended.
LEMMA Finished ==
  ASSUME TypeOK, NEW r \in Requests, End(r)
  PROVE  /\ \A q \in Requests : req'[q] = IF q = r THEN NoRequest ELSE req[q]
         /\ ended' = ended \cup {r} /\ raced' = raced
         /\ \A q, i \in Requests : Handles(q, i)' => q # r /\ Handles(q, i) /\ req'[q] = req[q]
         /\ \A q \in Requests, c \in Companies, e \in Emails :
              Invites(q, c, e)' => q # r /\ Invites(q, c, e)
BY DEF TypeOK, End, Handles, Invites, NoRequest

LEMMA RunningStart ==
  ASSUME LifeInv, NEW r \in Requests, NEW request, Start(r, request)
  PROVE  RunningOrEnded'
BY Started DEF LifeInv, Life, RunningOrEnded, Sent

LEMMA StartOnStep ==
  ASSUME LifeInv, NEW r \in Requests, NEW i \in Requests, NEW request,
         StartOn(r, i, request), Pending(i),
         request.kind \in {"resend", "revoke", "accept"}, request.invitation = i,
         request.kind = "accept" => request.token = inv[i].token
  PROVE  Life'
<1> USE DEF LifeInv, Life
<1>0. Start(r, request) /\ raced \subseteq raced'
      /\ (i \notin raced' => ~ \E q \in Requests : Handles(q, i))
  BY DEF StartOn
<1>1. /\ \A q \in Requests : req'[q] = IF q = r THEN request ELSE req[q]
      /\ UNCHANGED <<account, inv, ended, revived, used>>
  BY <1>0, Started
<1>2. ReadStillHolds'
  <2> SUFFICES ASSUME NEW q \in Requests, NEW k \in Requests, Handles(q, k)', k \notin raced'
               PROVE  /\ Pending(k)'
                      /\ req'[q].kind = "accept" => req'[q].token = inv'[k].token
                      /\ \A p \in Requests \ {q} : ~Handles(p, k)'
    BY DEF ReadStillHolds
  <2>1. k \notin raced
    BY <1>0
  <2>2. CASE k = i
    <3>1. q = r /\ \A p \in Requests \ {r} : ~Handles(p, k)'
      BY <1>0, <1>1, <2>2 DEF Handles
    <3> QED BY <1>1, <2>2, <3>1 DEF Pending, Sent
  <2>3. CASE k # i
    <3>1. q # r /\ Handles(q, k) /\ \A p \in Requests : Handles(p, k)' => Handles(p, k)
      BY <1>1, <2>3 DEF Handles
    <3> QED BY <1>1, <2>1, <3>1 DEF ReadStillHolds, Pending, Sent
  <2> QED BY <2>2, <2>3
<1>3. InviteSawNone'
  <2>1. \A q \in Requests, c \in Companies, e \in Emails :
          Invites(q, c, e)' => Invites(q, c, e)
    BY <1>1 DEF Invites
  <2>2. \A k \in Requests, c \in Companies, e \in Emails :
          Active(k, c, e)' <=> Active(k, c, e)
    BY <1>1 DEF Active, Sent
  <2> QED BY <1>0, <1>1, <2>1, <2>2 DEF InviteSawNone
<1> QED BY <1>0, <1>1, <1>2, <1>3, RowsUnchanged, RunningStart

LEMMA InviteReadStep ==
  ASSUME LifeInv, NEW r \in Requests, NEW c \in Companies, NEW e \in Emails,
         InviteRead(r, c, e)
  PROVE  Life'
<1> USE DEF LifeInv, Life
<1> DEFINE request == [kind |-> "invite", company |-> c, email |-> e]
           others == {q \in Requests : Invites(q, c, e)}
<1>0. /\ Start(r, request) /\ raced \subseteq raced'
      /\ others # {} => {r} \cup others \subseteq raced'
      /\ ~ \E i \in Requests : Active(i, c, e)
  BY DEF InviteRead
<1>1. /\ \A q \in Requests : req'[q] = IF q = r THEN request ELSE req[q]
      /\ UNCHANGED <<account, inv, ended, revived, used>> /\ req[r] = NoRequest
  BY <1>0, Started
<1>2. \A q, k \in Requests : Handles(q, k)' <=> Handles(q, k)
                             /\ (Handles(q, k)' => req'[q] = req[q])
  BY <1>1 DEF Handles, NoRequest
<1>3. ReadStillHolds'
  BY <1>0, <1>1, <1>2 DEF ReadStillHolds, Pending, Sent
<1>4. \A k \in Requests, d \in Companies, f \in Emails : Active(k, d, f)' <=> Active(k, d, f)
  BY <1>1 DEF Active, Sent
<1>5. InviteSawNone'
  <2> SUFFICES ASSUME NEW q \in Requests, NEW d \in Companies, NEW f \in Emails,
                      Invites(q, d, f)'
               PROVE  /\ \A i \in Requests : Active(i, d, f)' => i \in (raced \cup revived)'
                      /\ \A p \in Requests \ {q} : Invites(p, d, f)' => p \in raced'
    BY DEF InviteSawNone
  <2>1. CASE q = r
    <3>1. d = c /\ f = e
      BY <1>1, <2>1 DEF Invites
    <3>2. \A p \in Requests \ {q} : Invites(p, d, f)' => p \in others
      BY <1>1, <2>1, <3>1 DEF Invites
    <3> QED BY <1>0, <1>4, <3>1, <3>2
  <2>2. CASE q # r
    <3>1. Invites(q, d, f)
      BY <1>1, <2>2 DEF Invites
    <3>2. Invites(r, d, f)' => q \in others /\ d = c /\ f = e
      BY <1>1, <2>2, <3>1 DEF Invites
    <3>3. \A p \in Requests \ {r} : Invites(p, d, f)' => Invites(p, d, f)
      BY <1>1 DEF Invites
    <3> QED BY <1>0, <1>1, <1>4, <3>1, <3>2, <3>3 DEF InviteSawNone
  <2> QED BY <2>1, <2>2
<1> QED BY <1>0, <1>1, <1>3, <1>5, RowsUnchanged, RunningStart

LEMMA SignupReadStep ==
  ASSUME LifeInv, NEW r \in Requests, NEW e \in Emails, SignupRead(r, e)
  PROVE  Life'
<1> USE DEF LifeInv, Life
<1> DEFINE request == [kind |-> "signup", email |-> e]
<1>0. Start(r, request) /\ raced' = raced
  BY DEF SignupRead
<1>1. /\ \A q \in Requests : req'[q] = IF q = r THEN request ELSE req[q]
      /\ UNCHANGED <<account, inv, ended, revived, used>>
  BY <1>0, Started
<1>2. /\ \A q, k \in Requests : Handles(q, k)' => Handles(q, k) /\ req'[q] = req[q]
      /\ \A q \in Requests, c \in Companies, f \in Emails :
           Invites(q, c, f)' => Invites(q, c, f)
  BY <1>1 DEF Handles, Invites
<1>3. ReadStillHolds'
  BY <1>0, <1>1, <1>2 DEF ReadStillHolds, Pending, Sent
<1>4. InviteSawNone'
  BY <1>0, <1>1, <1>2 DEF InviteSawNone, Active, Sent
<1> QED BY <1>0, <1>1, <1>3, <1>4, RowsUnchanged, RunningStart

\* A request ends and leaves the rows as they are.
LEMMA EndWithoutRow ==
  ASSUME LifeInv, NEW r \in Requests, End(r), UNCHANGED <<inv, used, revived>>,
         \A e \in Emails : account[e] # None => account'[e] = account[e]
  PROVE  Life'
<1> USE DEF LifeInv, Life
<1>1. RunningOrEnded'
  BY Finished DEF RunningOrEnded, Sent
<1>2. ReadStillHolds'
  BY Finished DEF ReadStillHolds, Pending, Sent
<1>3. InviteSawNone'
  BY Finished DEF InviteSawNone, Active, Sent
<1>4. AcceptedIsTheAccount'
  BY Typed DEF AcceptedIsTheAccount, Sent, InvitationRow
<1>5. AcceptedOrRevoked' /\ AcceptedWithLastToken' /\ OneActiveUnlessRacedOrRevived'
  BY Finished DEF AcceptedOrRevoked, AcceptedWithLastToken,
                  OneActiveUnlessRacedOrRevived, Active, Sent
<1> QED BY <1>1, <1>2, <1>3, <1>4, <1>5

LEMMA InviteCommitStep ==
  ASSUME LifeInv, NEW r \in Requests, InviteCommit(r)
  PROVE  Life'
<1> USE DEF LifeInv, Life
<1>0. PICK c \in Companies, e \in Emails : c = req[r].company /\ e = req[r].email
  BY Typed DEF InviteCommit
<1>1. /\ Invites(r, c, e)
      /\ UNCHANGED <<account, revived, used>> /\ End(r)
  BY <1>0 DEF InviteCommit, Invites
<1>2. /\ inv'[r].acceptedUser = None /\ inv'[r].revoked = FALSE
      /\ inv'[r].company = c /\ inv'[r].email = e
      /\ \A k \in Requests \ {r} : inv'[k] = inv[k]
  BY <1>0, InviteCommitRow
<1>3. ~Sent(r) /\ r \notin ended
  BY <1>1 DEF RunningOrEnded, Invites, NoRequest
<1>4. \A q, k \in Requests : Handles(q, k)' => q # r /\ k # r /\ Handles(q, k) /\ req'[q] = req[q]
  BY <1>1, <1>3, Finished DEF TypeOK
<1>5. RunningOrEnded'
  BY <1>1, <1>2, <1>3, Finished DEF RunningOrEnded, Sent
<1>6. ReadStillHolds'
  BY <1>1, <1>2, <1>4, Finished DEF ReadStillHolds, Pending, Sent
<1>7. \A k \in Requests, d \in Companies, f \in Emails :
        Active(k, d, f)' => (k = r /\ d = c /\ f = e) \/ (k # r /\ Active(k, d, f))
  BY <1>2 DEF Active, Sent
<1>8. InviteSawNone'
  <2>1. \A q \in Requests, d \in Companies, f \in Emails :
          Invites(q, d, f)' => q # r /\ Invites(q, d, f)
    BY <1>1, Finished
  <2>2. \A q \in Requests : Invites(q, c, e)' => r \in raced
    BY <1>1, <2>1 DEF InviteSawNone
  <2> QED BY <1>1, <1>7, <2>1, <2>2, Finished DEF InviteSawNone
<1>9. AcceptedIsTheAccount' /\ AcceptedOrRevoked' /\ AcceptedWithLastToken'
  BY <1>1, <1>2, Finished DEF AcceptedIsTheAccount, AcceptedOrRevoked,
                              AcceptedWithLastToken, Sent
<1>10. OneActiveUnlessRacedOrRevived'
  <2>1. \A k \in Requests : Active(k, c, e) => k \in raced \cup revived
    BY <1>1 DEF InviteSawNone
  <2> QED BY <1>1, <1>7, <2>1, Finished DEF OneActiveUnlessRacedOrRevived
<1> QED BY <1>5, <1>6, <1>8, <1>9, <1>10

LEMMA ResendCommitStep ==
  ASSUME LifeInv, NEW r \in Requests, ResendCommit(r)
  PROVE  Life'
<1> USE DEF LifeInv, Life
<1>0. PICK i \in Requests : i = req[r].invitation
  BY Typed DEF ResendCommit
<1>1. /\ UNCHANGED <<account, used>> /\ End(r) /\ Handles(r, i)
      /\ revived' = IF inv[i].expired THEN revived \cup {i} ELSE revived
  BY <1>0 DEF ResendCommit, Handles
<1>2. /\ inv'[i].acceptedUser = inv[i].acceptedUser /\ inv'[i].revoked = inv[i].revoked
      /\ inv'[i].company = inv[i].company /\ inv'[i].email = inv[i].email
      /\ inv'[i] \in InvitationRow /\ inv[i] \in InvitationRow
      /\ \A k \in Requests \ {i} : inv'[k] = inv[k]
  <2>1. /\ inv[i] \in InvitationRow /\ inv'[i] \in InvitationRow
        /\ inv'[i] = [inv[i] EXCEPT !.token = r, !.expired = FALSE]
        /\ \A k \in Requests \ {i} : inv'[k] = inv[k]
    BY <1>0, ResendCommitRow
  <2> QED BY <2>1 DEF InvitationRow
<1>3. Sent(i) /\ Sent(i)'
  BY <1>2, RowsAreRows DEF Sent
<1>4. i \notin raced => Pending(i) /\ \A q \in Requests \ {r} : ~Handles(q, i)
  BY <1>1 DEF ReadStillHolds
<1>5. RunningOrEnded'
  BY <1>2, <1>3, <1>1, Finished DEF RunningOrEnded, Sent
<1>6. ReadStillHolds'
  BY <1>1, <1>2, <1>4, Finished DEF ReadStillHolds, Pending, Sent
<1>7. \A k \in Requests, d \in Companies, f \in Emails : Active(k, d, f)' =>
        Active(k, d, f) \/ k \in revived'
  BY <1>1, <1>2, <1>3 DEF Active, Sent
<1>8. InviteSawNone'
  BY <1>1, <1>7, Finished DEF InviteSawNone
<1>9. AcceptedIsTheAccount'
  BY <1>1, <1>2, <1>3 DEF AcceptedIsTheAccount, Sent
<1>10. AcceptedOrRevoked' /\ AcceptedWithLastToken'
  BY <1>1, <1>2, <1>3, <1>4, Finished DEF AcceptedOrRevoked, AcceptedWithLastToken, Pending, Sent
<1>11. OneActiveUnlessRacedOrRevived'
  BY <1>1, <1>7, Finished DEF OneActiveUnlessRacedOrRevived
<1> QED BY <1>5, <1>6, <1>8, <1>9, <1>10, <1>11

LEMMA RevokeCommitStep ==
  ASSUME LifeInv, NEW r \in Requests, RevokeCommit(r)
  PROVE  Life'
<1> USE DEF LifeInv, Life
<1>0. PICK i \in Requests : i = req[r].invitation
  BY Typed DEF RevokeCommit
<1>1. UNCHANGED <<account, used, revived>> /\ End(r) /\ Handles(r, i)
  BY <1>0 DEF RevokeCommit, Handles
<1>2. /\ inv'[i].acceptedUser = inv[i].acceptedUser /\ inv'[i].token = inv[i].token
      /\ inv'[i].company = inv[i].company /\ inv'[i].email = inv[i].email
      /\ inv'[i].revoked = TRUE
      /\ inv'[i] \in InvitationRow /\ inv[i] \in InvitationRow
      /\ \A k \in Requests \ {i} : inv'[k] = inv[k]
  <2>1. /\ inv[i] \in InvitationRow /\ inv'[i] \in InvitationRow
        /\ inv'[i] = [inv[i] EXCEPT !.revoked = TRUE]
        /\ \A k \in Requests \ {i} : inv'[k] = inv[k]
    BY <1>0, RevokeCommitRow
  <2> QED BY <2>1 DEF InvitationRow
<1>3. Sent(i) /\ Sent(i)'
  BY <1>2, RowsAreRows DEF Sent
<1>4. i \notin raced => Pending(i) /\ \A q \in Requests \ {r} : ~Handles(q, i)
  BY <1>1 DEF ReadStillHolds
<1>5. RunningOrEnded'
  BY <1>2, <1>3, <1>1, Finished DEF RunningOrEnded, Sent
<1>6. ReadStillHolds'
  BY <1>1, <1>2, <1>4, Finished DEF ReadStillHolds, Pending, Sent
<1>7. \A k \in Requests, d \in Companies, f \in Emails : Active(k, d, f)' => Active(k, d, f)
  BY <1>2 DEF Active, Sent
<1>8. InviteSawNone'
  BY <1>1, <1>7, Finished DEF InviteSawNone
<1>9. AcceptedIsTheAccount'
  BY <1>1, <1>2, <1>3 DEF AcceptedIsTheAccount, Sent
<1>10. AcceptedOrRevoked' /\ AcceptedWithLastToken'
  BY <1>1, <1>2, <1>3, <1>4, Finished DEF AcceptedOrRevoked, AcceptedWithLastToken, Pending, Sent
<1>11. OneActiveUnlessRacedOrRevived'
  BY <1>1, <1>7, Finished DEF OneActiveUnlessRacedOrRevived
<1> QED BY <1>5, <1>6, <1>8, <1>9, <1>10, <1>11

LEMMA AcceptCommitStep ==
  ASSUME LifeInv, NEW r \in Requests, AcceptCommit(r)
  PROVE  Life'
<1> USE DEF LifeInv, Life
<1>0. PICK i \in Requests : i = req[r].invitation
  BY Typed DEF AcceptCommit
<1>1. revived' = revived /\ End(r) /\ Handles(r, i) /\ req[r].kind = "accept"
  BY <1>0 DEF AcceptCommit, Handles
<1>2. CASE UNCHANGED <<account, inv, used>>
  BY <1>1, <1>2, EndWithoutRow
<1>3. CASE Accept(r, i) /\ account[inv[i].email] = None
  <2>1. /\ inv'[i].acceptedUser = r /\ inv'[i].token = inv[i].token
        /\ inv'[i].company = inv[i].company /\ inv'[i].email = inv[i].email
        /\ inv'[i].revoked = inv[i].revoked
        /\ inv'[i] \in InvitationRow /\ inv[i] \in InvitationRow
        /\ \A k \in Requests \ {i} : inv'[k] = inv[k]
    <3>1. /\ inv[i] \in InvitationRow /\ inv'[i] \in InvitationRow
          /\ inv'[i] = [inv[i] EXCEPT !.acceptedUser = r]
          /\ \A k \in Requests \ {i} : inv'[k] = inv[k]
      BY <1>0, <1>1, <1>3, AcceptRow
    <3> QED BY <3>1 DEF InvitationRow
  <2>2. Sent(i) /\ Sent(i)' /\ inv[i].email \in Emails
    BY <2>1, RowsAreRows DEF Sent, InvitationRow
  <2>3. i \notin raced => /\ Pending(i) /\ req[r].token = inv[i].token
                          /\ \A q \in Requests \ {r} : ~Handles(q, i)
    BY <1>1 DEF ReadStillHolds
  <2>4. /\ account' = [account EXCEPT ![inv[i].email] = r]
        /\ used'[i] = req[r].token
        /\ \A k \in Requests \ {i} : used'[k] = used[k]
    BY <1>3 DEF Accept, TypeOK
  <2>5. r \notin ended /\ r # None
    BY <1>1, InvitationsAssumption DEF RunningOrEnded, NoRequest
  <2>6. RunningOrEnded'
    BY <1>1, <2>1, <2>2, Finished DEF RunningOrEnded, Sent
  <2>7. ReadStillHolds'
    BY <1>1, <2>1, <2>3, Finished DEF ReadStillHolds, Pending, Sent
  <2>8. \A k \in Requests, d \in Companies, f \in Emails : Active(k, d, f)' => Active(k, d, f)
    BY <2>1, <2>5 DEF Active, Sent
  <2>9. InviteSawNone'
    BY <1>1, <2>8, Finished DEF InviteSawNone
  <2>10. AcceptedIsTheAccount'
    <3> SUFFICES ASSUME NEW k \in Requests, Sent(k)', inv'[k].acceptedUser # None
                 PROVE  /\ account'[inv'[k].email] = inv'[k].acceptedUser
                        /\ \A j \in Requests \ {k} :
                             Sent(j)' => inv'[j].acceptedUser # inv'[k].acceptedUser
      BY DEF AcceptedIsTheAccount
    <3>1. \A j \in Requests \ {i} : Sent(j)' =>
            /\ Sent(j) /\ inv'[j] = inv[j] /\ inv[j] \in InvitationRow
            /\ inv[j].acceptedUser # r
            /\ inv[j].acceptedUser # None => inv[j].email # inv[i].email
      BY <1>3, <2>1, <2>5, Typed DEF Sent, RunningOrEnded, AcceptedIsTheAccount
    <3>2. CASE k = i
      <4>1. account'[inv'[i].email] = r
        BY <2>1, <2>2, <2>4 DEF TypeOK
      <4> QED BY <2>1, <3>1, <3>2, <4>1
    <3>3. CASE k # i
      <4>1. inv[k].email \in Emails
        BY <3>1, <3>3 DEF InvitationRow
      <4>2. account'[inv'[k].email] = account[inv[k].email]
        BY <2>4, <3>1, <3>3, <4>1 DEF TypeOK
      <4>3. account[inv[k].email] = inv[k].acceptedUser
        BY <3>1, <3>3 DEF AcceptedIsTheAccount
      <4>4. \A j \in Requests \ {k} :
              Sent(j)' => inv'[j].acceptedUser # inv'[k].acceptedUser
        BY <2>1, <3>1, <3>3 DEF AcceptedIsTheAccount
      <4> QED BY <3>1, <3>3, <4>2, <4>3, <4>4
    <3> QED BY <3>2, <3>3
  <2>11. AcceptedOrRevoked' /\ AcceptedWithLastToken'
    BY <1>1, <2>1, <2>2, <2>3, <2>4, Finished
       DEF AcceptedOrRevoked, AcceptedWithLastToken, Pending, Sent
  <2>12. OneActiveUnlessRacedOrRevived'
    BY <1>1, <2>8, Finished DEF OneActiveUnlessRacedOrRevived
  <2> QED BY <2>6, <2>7, <2>9, <2>10, <2>11, <2>12
<1> QED BY <1>0, <1>2, <1>3 DEF AcceptCommit

LEMMA ExpireStep ==
  ASSUME LifeInv, NEW i \in Requests, Expire(i)
  PROVE  Life'
<1> USE DEF LifeInv, Life
<1>1. UNCHANGED <<account, req, ended, raced, revived, used>>
  BY DEF Expire
<1>2. /\ inv'[i].acceptedUser = inv[i].acceptedUser /\ inv'[i].revoked = inv[i].revoked
      /\ inv'[i].company = inv[i].company /\ inv'[i].email = inv[i].email
      /\ inv'[i].token = inv[i].token /\ inv'[i].expired = TRUE
      /\ inv'[i] \in InvitationRow /\ inv[i] \in InvitationRow
      /\ \A k \in Requests \ {i} : inv'[k] = inv[k]
  <2>1. /\ inv[i] \in InvitationRow /\ inv'[i] \in InvitationRow
        /\ inv'[i] = [inv[i] EXCEPT !.expired = TRUE]
        /\ \A k \in Requests \ {i} : inv'[k] = inv[k]
    BY ExpireRow
  <2> QED BY <2>1 DEF InvitationRow
<1>3. \A k \in Requests : Sent(k)' <=> Sent(k)
  BY <1>2, RowsAreRows DEF Sent
<1>4. RunningOrEnded' /\ ReadStillHolds'
  BY <1>1, <1>2, <1>3 DEF RunningOrEnded, ReadStillHolds, Handles, Pending
<1>5. \A k \in Requests, d \in Companies, f \in Emails : Active(k, d, f)' => Active(k, d, f)
  BY <1>2, <1>3 DEF Active
<1>6. InviteSawNone' /\ OneActiveUnlessRacedOrRevived'
  BY <1>1, <1>5 DEF InviteSawNone, Invites, OneActiveUnlessRacedOrRevived
<1>7. AcceptedIsTheAccount' /\ AcceptedOrRevoked' /\ AcceptedWithLastToken'
  BY <1>1, <1>2, <1>3 DEF AcceptedIsTheAccount, AcceptedOrRevoked, AcceptedWithLastToken
<1> QED BY <1>4, <1>6, <1>7

LEMMA LifeInit == Init => LifeInv
BY TypeInit DEF Init, LifeInv, Life, RunningOrEnded, ReadStillHolds, InviteSawNone, Handles,
     Invites, NoRequest, Sent, Active, AcceptedIsTheAccount, AcceptedOrRevoked,
     AcceptedWithLastToken, OneActiveUnlessRacedOrRevived

LEMMA LifeStep == LifeInv /\ [Next]_vars => LifeInv'
<1> SUFFICES ASSUME LifeInv, [Next]_vars PROVE Life'
  BY TypeStep DEF LifeInv
<1>1. ASSUME NEW r \in Requests, NEW i \in Requests,
             ResendRead(r, i) \/ RevokeRead(r, i) \/ AcceptRead(r, i)
      PROVE  Life'
  <2>1. CASE AcceptRead(r, i)
    BY <2>1, StartOnStep DEF AcceptRead
  <2>2. CASE ResendRead(r, i) \/ RevokeRead(r, i)
    <3>1. PICK k \in {"resend", "revoke"} :
            StartOn(r, i, [kind |-> k, invitation |-> i]) /\ Pending(i)
      BY <2>2 DEF ResendRead, RevokeRead
    <3> QED BY <3>1, StartOnStep
  <2> QED BY <1>1, <2>1, <2>2
<1>2. ASSUME NEW r \in Requests, Abort(r) \/ SignupCommit(r) PROVE Life'
  <2>1. End(r) /\ UNCHANGED <<inv, used, revived>>
    BY <1>2 DEF Abort, SignupCommit
  <2>2. \A e \in Emails : account[e] # None => account'[e] = account[e]
    BY <1>2, Typed DEF Abort, SignupCommit, LifeInv, TypeOK
  <2> QED BY <2>1, <2>2, EndWithoutRow
<1>3. CASE UNCHANGED vars
  BY <1>3 DEF vars, LifeInv, Life, RunningOrEnded, ReadStillHolds, InviteSawNone, Handles,
     Invites, Pending, Sent, Active, AcceptedIsTheAccount, AcceptedOrRevoked,
     AcceptedWithLastToken, OneActiveUnlessRacedOrRevived
<1> QED
  BY <1>1, <1>2, <1>3, SignupReadStep, InviteReadStep, InviteCommitStep, ResendCommitStep,
     RevokeCommitStep, AcceptCommitStep, ExpireStep DEF Next

LEMMA LifeInvariant == Spec => []LifeInv
BY LifeInit, LifeStep, PTL DEF Spec

\* One account for each address, made by the one invitation that says so.
THEOREM OneAccountPerInvitation == Spec => []AcceptedIsTheAccount
<1>1. LifeInv => AcceptedIsTheAccount
  BY DEF LifeInv, Life
<1> QED BY <1>1, LifeInvariant, PTL

\* An invitation that one request at a time handles ends in one way, with the
\* token that was sent last.
THEOREM InvitationEndsOnce == Spec => []OneEnd
<1>1. LifeInv => OneEnd
  BY DEF LifeInv, Life, OneEnd
<1> QED BY <1>1, LifeInvariant, PTL

\* Only a race of two invites, or the renewal of an expired invitation, makes
\* a second active one.
THEOREM DuplicatesComeFromRacesOrRenewals == Spec => []OneActiveUnlessRacedOrRevived
<1>1. LifeInv => OneActiveUnlessRacedOrRevived
  BY DEF LifeInv, Life
<1> QED BY <1>1, LifeInvariant, PTL

-----------------------------------------------------------------------------
(* The book of invitations.                                                *)

BookEntry(i) ==
  IF Sent(i) THEN [company |-> inv[i].company, email |-> inv[i].email,
                   link |-> inv[i].token, revoked |-> inv[i].revoked,
                   user |-> inv[i].acceptedUser]
             ELSE NoRow

BookRows == [i \in Requests |-> BookEntry(i)]

BookVars == <<account, BookRows, used, ended, raced>>

LEMMA BookEntries ==
  ASSUME TypeOK, NEW i \in Requests
  PROVE  /\ ~Sent(i) => BookEntry(i) = Book!NoEntry
         /\ Sent(i) => /\ BookEntry(i) # Book!NoEntry
                       /\ BookEntry(i).company = inv[i].company
                       /\ BookEntry(i).email = inv[i].email
                       /\ BookEntry(i).link = inv[i].token
                       /\ BookEntry(i).revoked = inv[i].revoked
                       /\ BookEntry(i).user = inv[i].acceptedUser
BY DEF BookEntry, NoRow, Book!NoEntry

\* A request that runs may answer.
LEMMA MayAnswer ==
  ASSUME LifeInv, NEW r \in Requests, req[r] # NoRequest, End(r)
  PROVE  Book!Answer(r)
BY DEF LifeInv, Life, RunningOrEnded, End, Book!Answer

\* What a request read allows it to act, but for a race.
LEMMA MayAct ==
  ASSUME LifeInv, NEW r \in Requests, NEW i \in Requests, Handles(r, i)
  PROVE  /\ Sent(i) /\ BookRows[i] = BookEntry(i)
         /\ BookRows[i] # Book!NoEntry
         /\ i \in raced \/ (BookRows[i].user = None /\ ~BookRows[i].revoked)
<1>1. Sent(i) /\ TypeOK
  BY DEF LifeInv, TypeOK
<1>2. i \in raced \/ Pending(i)
  BY DEF LifeInv, Life, ReadStillHolds
<1>3. BookRows[i] = BookEntry(i)
  BY DEF BookRows
<1> QED
  BY <1>1, <1>2, <1>3, BookEntries DEF Pending

\* A step that writes one row writes one entry.
LEMMA OneEntryWritten ==
  ASSUME NEW i \in Requests, \A k \in Requests \ {i} : inv'[k] = inv[k]
  PROVE  BookRows' = [BookRows EXCEPT ![i] = BookEntry(i)']
BY DEF BookRows, BookEntry, Sent

LEMMA BookUnchanged ==
  ASSUME UNCHANGED inv
  PROVE  UNCHANGED BookRows
BY DEF BookRows, BookEntry, Sent

LEMMA BookRaces ==
  ASSUME UNCHANGED <<account, inv, used, ended>>, raced' \subseteq Requests,
         raced \subseteq raced'
  PROVE  \E met \in SUBSET Requests : Book!Race(met)
<1>1. raced' \in SUBSET Requests /\ raced' = raced \cup raced'
  OBVIOUS
<1>2. Book!Race(raced')
  BY <1>1, BookUnchanged DEF Book!Race, BookRows, BookEntry
<1> QED BY <1>1, <1>2

LEMMA BookInvites ==
  ASSUME LifeInv, NEW r \in Requests, InviteCommit(r)
  PROVE  \E c \in Companies, e \in Emails : Book!Invite(r, c, e)
<1>0. TypeOK /\ req[r].kind = "invite" /\ req[r] # NoRequest /\ End(r)
      /\ UNCHANGED <<account, used>>
  BY DEF LifeInv, InviteCommit, NoRequest
<1>1. PICK c \in Companies, e \in Emails : c = req[r].company /\ e = req[r].email
  BY <1>0, Typed
<1>2. ~Sent(r)
  BY <1>0 DEF LifeInv, Life, RunningOrEnded
<1>3. BookRows[r] = Book!NoEntry
  BY <1>0, <1>2, BookEntries DEF BookRows
<1>4. BookRows' = [BookRows EXCEPT ![r] = BookEntry(r)']
  BY <1>0, InviteCommitRow, OneEntryWritten
<1>5. BookEntry(r)' = Book!Entry(c, e, r, FALSE, None)
  <2>1. Sent(r)'
    BY <1>0, InviteCommitRow, RowsAreRows DEF Sent
  <2>2. inv'[r].token = r
    BY <1>0 DEF InviteCommit, TypeOK
  <2> QED BY <1>0, <1>1, <2>1, <2>2, InviteCommitRow DEF BookEntry, Book!Entry
<1>6. Book!Answer(r)
  BY <1>0, MayAnswer
<1>7. Book!Invite(r, c, e)
  BY <1>0, <1>3, <1>4, <1>5, <1>6 DEF Book!Invite, BookRows, BookEntry
<1> QED BY <1>7

LEMMA BookResends ==
  ASSUME LifeInv, NEW r \in Requests, ResendCommit(r)
  PROVE  \E i \in Requests : Book!Resend(r, i)
<1>0. TypeOK /\ req[r].kind = "resend" /\ req[r] # NoRequest /\ End(r)
      /\ UNCHANGED <<account, used>>
  BY DEF LifeInv, ResendCommit, NoRequest
<1>1. PICK i \in Requests : i = req[r].invitation
  BY <1>0, Typed
<1>2. Handles(r, i)
  BY <1>0, <1>1 DEF Handles
<1>3. /\ inv[i] \in InvitationRow /\ inv'[i] \in InvitationRow
      /\ inv'[i] = [inv[i] EXCEPT !.token = r, !.expired = FALSE]
      /\ \A k \in Requests \ {i} : inv'[k] = inv[k]
  BY <1>0, <1>1, ResendCommitRow
<1>4. BookEntry(i)' = [BookEntry(i) EXCEPT !.link = r]
  <2>1. Sent(i) /\ Sent(i)'
    BY <1>3, RowsAreRows DEF Sent
  <2>2. /\ inv'[i].company = inv[i].company /\ inv'[i].email = inv[i].email
        /\ inv'[i].token = r /\ inv'[i].revoked = inv[i].revoked
        /\ inv'[i].acceptedUser = inv[i].acceptedUser
    BY <1>3 DEF InvitationRow
  <2> QED BY <2>1, <2>2 DEF BookEntry
<1>5. BookRows' = [BookRows EXCEPT ![i].link = r]
  BY <1>3, <1>4, OneEntryWritten DEF BookRows
<1>6. Book!Open(i) /\ Book!Answer(r)
  BY <1>0, <1>2, MayAct, MayAnswer DEF Book!Open, BookRows, BookEntry
<1>7. Book!Resend(r, i)
  BY <1>0, <1>5, <1>6 DEF Book!Resend, BookRows, BookEntry
<1> QED BY <1>7

LEMMA BookRevokes ==
  ASSUME LifeInv, NEW r \in Requests, RevokeCommit(r)
  PROVE  \E i \in Requests : Book!Revoke(r, i)
<1>0. TypeOK /\ req[r].kind = "revoke" /\ req[r] # NoRequest /\ End(r)
      /\ UNCHANGED <<account, used>>
  BY DEF LifeInv, RevokeCommit, NoRequest
<1>1. PICK i \in Requests : i = req[r].invitation
  BY <1>0, Typed
<1>2. Handles(r, i)
  BY <1>0, <1>1 DEF Handles
<1>3. /\ inv[i] \in InvitationRow /\ inv'[i] \in InvitationRow
      /\ inv'[i] = [inv[i] EXCEPT !.revoked = TRUE]
      /\ \A k \in Requests \ {i} : inv'[k] = inv[k]
  BY <1>0, <1>1, RevokeCommitRow
<1>4. BookEntry(i)' = [BookEntry(i) EXCEPT !.revoked = inv'[i].revoked]
  <2>1. Sent(i) /\ Sent(i)'
    BY <1>3, RowsAreRows DEF Sent
  <2>2. /\ inv'[i].company = inv[i].company /\ inv'[i].email = inv[i].email
        /\ inv'[i].token = inv[i].token
        /\ inv'[i].acceptedUser = inv[i].acceptedUser
    BY <1>3 DEF InvitationRow
  <2> QED BY <2>1, <2>2 DEF BookEntry
<1>5. BookRows' = [BookRows EXCEPT ![i].revoked = TRUE]
  <2>1. BookRows' = [BookRows EXCEPT ![i].revoked = inv'[i].revoked]
    BY <1>3, <1>4, OneEntryWritten DEF BookRows
  <2>2. inv'[i].revoked = TRUE
    BY <1>3 DEF InvitationRow
  <2> QED BY <2>1, <2>2, Zenon
<1>6. Book!Open(i) /\ Book!Answer(r)
  BY <1>0, <1>2, MayAct, MayAnswer DEF Book!Open, BookRows, BookEntry
<1>7. Book!Revoke(r, i)
  BY <1>0, <1>5, <1>6 DEF Book!Revoke, BookRows, BookEntry
<1> QED BY <1>7

\* The address has no account yet, so that the invitation is not accepted.
LEMMA BookAccepts ==
  ASSUME LifeInv, NEW r \in Requests, End(r), NEW i \in Requests, Handles(r, i),
         req[r].kind = "accept", Accept(r, i), account[inv[i].email] = None
  PROVE  \E link \in Requests : Book!Accept(r, i, link)
<1>0. TypeOK /\ req[r] # NoRequest /\ i = req[r].invitation
  BY DEF LifeInv, NoRequest, Handles
<1>1. PICK link \in Requests : link = req[r].token
  BY <1>0, Typed
<1>2. /\ inv[i] \in InvitationRow /\ inv'[i] \in InvitationRow
      /\ inv'[i] = [inv[i] EXCEPT !.acceptedUser = r]
      /\ \A k \in Requests \ {i} : inv'[k] = inv[k]
  BY <1>0, AcceptRow
<1>3. Sent(i) /\ Sent(i)'
  BY <1>2, RowsAreRows DEF Sent
<1>4. BookEntry(i)' = [BookEntry(i) EXCEPT !.user = r]
  <2>2. /\ inv'[i].company = inv[i].company /\ inv'[i].email = inv[i].email
        /\ inv'[i].token = inv[i].token /\ inv'[i].revoked = inv[i].revoked
        /\ inv'[i].acceptedUser = r
    BY <1>2 DEF InvitationRow
  <2> QED BY <1>3, <2>2 DEF BookEntry
<1>5. BookRows' = [BookRows EXCEPT ![i].user = r]
  BY <1>2, <1>4, OneEntryWritten DEF BookRows
<1>6. Book!Open(i) /\ Book!Answer(r)
  BY <1>0, MayAct, MayAnswer DEF Book!Open, BookRows, BookEntry
<1>7. BookRows[i].user = None
  <2>1. inv[i].acceptedUser = None
    BY <1>3 DEF LifeInv, Life, AcceptedIsTheAccount
  <2> QED BY <1>0, <1>3, <2>1, BookEntries DEF BookRows
<1>8. BookRows[i].email = inv[i].email
  BY <1>0, <1>3, BookEntries DEF BookRows
<1>9. link = BookRows[i].link \/ i \in raced
  <2>1. i \notin raced => link = inv[i].token
    BY <1>1 DEF LifeInv, Life, ReadStillHolds
  <2> QED BY <1>0, <1>3, <2>1, BookEntries DEF BookRows
<1>10. /\ account[BookRows[i].email] = None
       /\ account' = [account EXCEPT ![BookRows[i].email] = r]
       /\ used' = [used EXCEPT ![i] = link]
  BY <1>1, <1>8 DEF Accept
<1>11. Book!Accept(r, i, link)
  BY <1>5, <1>6, <1>7, <1>9, <1>10 DEF Book!Accept, BookRows, BookEntry
<1> QED BY <1>11

LEMMA BookRefuses ==
  ASSUME LifeInv, NEW r \in Requests, req[r] # NoRequest, End(r),
         UNCHANGED <<account, inv, used>>
  PROVE  Book!Refuse(r)
BY MayAnswer, BookUnchanged DEF Book!Refuse, BookRows, BookEntry

LEMMA BookStep == LifeInv /\ [Next]_vars => [Book!Next]_BookVars
<1> SUFFICES ASSUME LifeInv, [Next]_vars PROVE [Book!Next]_BookVars
  OBVIOUS
<1>0. TypeOK /\ raced \subseteq Requests
  BY DEF LifeInv, TypeOK
<1>1. ASSUME UNCHANGED <<account, inv, used, ended>>, raced' \subseteq Requests,
             raced \subseteq raced'
      PROVE  [Book!Next]_BookVars
  BY <1>1, BookRaces DEF Book!Next
<1>2. ASSUME NEW r \in Requests, NEW e \in Emails, SignupRead(r, e)
      PROVE  [Book!Next]_BookVars
  BY <1>0, <1>1, <1>2 DEF SignupRead, Start
<1>3. ASSUME NEW r \in Requests, NEW c \in Companies, NEW e \in Emails, InviteRead(r, c, e)
      PROVE  [Book!Next]_BookVars
  BY <1>0, <1>1, <1>3 DEF InviteRead, Start
<1>4. ASSUME NEW r \in Requests, NEW i \in Requests,
             ResendRead(r, i) \/ RevokeRead(r, i) \/ AcceptRead(r, i)
      PROVE  [Book!Next]_BookVars
  BY <1>0, <1>1, <1>4 DEF ResendRead, RevokeRead, AcceptRead, StartOn, Start
<1>5. ASSUME NEW r \in Requests, InviteCommit(r) PROVE [Book!Next]_BookVars
  BY <1>5, BookInvites DEF Book!Next
<1>6. ASSUME NEW r \in Requests, ResendCommit(r) PROVE [Book!Next]_BookVars
  BY <1>6, BookResends DEF Book!Next
<1>7. ASSUME NEW r \in Requests, RevokeCommit(r) PROVE [Book!Next]_BookVars
  BY <1>7, BookRevokes DEF Book!Next
<1>8. ASSUME NEW r \in Requests, AcceptCommit(r) PROVE [Book!Next]_BookVars
  <2>1. PICK i \in Requests : i = req[r].invitation
    BY <1>0, <1>8, Typed DEF AcceptCommit
  <2>2. Handles(r, i) /\ req[r].kind = "accept" /\ req[r] # NoRequest /\ End(r)
    BY <1>8, <2>1 DEF AcceptCommit, Handles, NoRequest
  <2>3. CASE UNCHANGED <<account, inv, used>>
    BY <2>2, <2>3, BookRefuses DEF Book!Next
  <2>4. CASE Accept(r, i) /\ account[inv[i].email] = None
    BY <2>2, <2>4, BookAccepts DEF Book!Next
  <2> QED BY <1>8, <2>1, <2>3, <2>4 DEF AcceptCommit
<1>9. ASSUME NEW r \in Requests, SignupCommit(r) PROVE [Book!Next]_BookVars
  <2>1. PICK e \in Emails : e = req[r].email
    BY <1>0, <1>9, Typed DEF SignupCommit
  <2>2. req[r] # NoRequest /\ End(r) /\ UNCHANGED <<inv, used>>
    BY <1>9 DEF SignupCommit, NoRequest
  <2>3. CASE UNCHANGED account
    BY <2>2, <2>3, BookRefuses DEF Book!Next
  <2>4. CASE account[e] = None /\ account' = [account EXCEPT ![e] = r]
    <3>1. Book!Signup(r, e)
      BY <2>2, <2>4, MayAnswer, BookUnchanged DEF Book!Signup, BookRows, BookEntry
    <3> QED BY <3>1 DEF Book!Next
  <2> QED BY <1>9, <2>1, <2>3, <2>4 DEF SignupCommit
<1>10. ASSUME NEW r \in Requests, Abort(r) PROVE [Book!Next]_BookVars
  BY <1>10, BookRefuses DEF Abort, Book!Next
<1>11. ASSUME NEW i \in Requests, Expire(i) PROVE [Book!Next]_BookVars
  <2>1. /\ inv[i] \in InvitationRow /\ inv'[i] \in InvitationRow
        /\ inv'[i] = [inv[i] EXCEPT !.expired = TRUE]
        /\ \A k \in Requests \ {i} : inv'[k] = inv[k]
    BY <1>0, <1>11, ExpireRow
  <2>2. Sent(i) /\ Sent(i)'
    BY <2>1, RowsAreRows DEF Sent
  <2>3. BookEntry(i)' = BookEntry(i)
    BY <2>1, <2>2 DEF BookEntry, InvitationRow
  <2>4. UNCHANGED BookRows
    BY <2>1, <2>3, OneEntryWritten DEF BookRows
  <2> QED BY <1>11, <2>4 DEF Expire, BookVars
<1>12. CASE UNCHANGED vars
  BY <1>12, BookUnchanged DEF vars, BookVars
<1> QED
  BY <1>2, <1>3, <1>4, <1>5, <1>6, <1>7, <1>8, <1>9, <1>10, <1>11, <1>12 DEF Next

\* A request reads, others commit, and then it commits what it made of what it
\* read: what comes of it is a book in which each request takes effect at once,
\* on an invitation that is open then, unless two requests handled that
\* invitation at one time, and one account for an address in any case.
THEOREM ImplementsInvitationBook == Spec => InvitationBookSpec
<1>1. Init => Book!Init
  BY DEF Init, Book!Init, Book!NoEntry, Sent, NoRow
<1>2. Spec => [][Book!Next]_BookVars
  BY LifeInvariant, BookStep, PTL DEF Spec
<1> QED
  BY <1>1, <1>2, PTL
     DEF Spec, InvitationBookSpec, Book!Spec, Book!vars, BookVars, BookRows, BookEntry

=============================================================================
