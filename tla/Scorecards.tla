------------------------------ MODULE Scorecards ------------------------------
(***************************************************************************)
(* What a team may rely on when it reviews applications: as if requests    *)
(* came one after another.  A template keeps its criteria; an application  *)
(* is assigned to a reviewer once, under one template; and a review is     *)
(* submitted once, as a whole, with a score for just those criteria.       *)
(***************************************************************************)
CONSTANTS Criteria, Scores, Applications, Reviewers,
          Requests,   \* name the templates and assignments that they make
          None        \* no score

VARIABLES template, assignment, response

vars == <<template, assignment, response>>

NoAssignment == [status |-> "none"]

Init ==
  /\ template = [t \in Requests |-> {}]
  /\ assignment = [i \in Requests |-> NoAssignment]
  /\ response = [i \in Requests |-> [c \in Criteria |-> None]]

AddTemplate(t, criteria) ==
  /\ template[t] = {} /\ criteria # {}
  /\ template' = [template EXCEPT ![t] = criteria]
  /\ UNCHANGED <<assignment, response>>

Assign(i, a, v, t) ==
  /\ assignment[i] = NoAssignment /\ template[t] # {}
  /\ \A j \in Requests : assignment[j] # NoAssignment =>
       <<assignment[j].application, assignment[j].reviewer>> # <<a, v>>
  /\ assignment' = [assignment EXCEPT ![i] =
       [application |-> a, reviewer |-> v, template |-> t, status |-> "pending"]]
  /\ UNCHANGED <<template, response>>

Submit(i, scores) ==
  /\ assignment[i].status = "pending"
  /\ {c \in Criteria : scores[c] # None} = template[assignment[i].template]
  /\ response' = [response EXCEPT ![i] = scores]
  /\ assignment' = [assignment EXCEPT ![i].status = "submitted"]
  /\ UNCHANGED template

Next ==
  \E i \in Requests :
    \/ \E criteria \in SUBSET Criteria : AddTemplate(i, criteria)
    \/ \E a \in Applications, v \in Reviewers, t \in Requests : Assign(i, a, v, t)
    \/ \E scores \in [Criteria -> Scores \cup {None}] : Submit(i, scores)

Spec == Init /\ [][Next]_vars

=============================================================================
