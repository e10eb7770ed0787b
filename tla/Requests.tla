-------------------------------- MODULE Requests --------------------------------
(***************************************************************************)
(* The life of an API request, for the components whose requests read      *)
(* rows, do something, and commit in one database transaction (get_db).    *)
(*                                                                         *)
(* A request reads at Begin and keeps what it read; others run until it    *)
(* commits or is rolled back, and each ends once.  What it read may have   *)
(* changed by then: rows are read without a lock, and an UPDATE of the ORM *)
(* names the columns whose value differs from the one read.  A request     *)
(* that its guards refuse at once changes nothing, and is no step.         *)
(***************************************************************************)
CONSTANTS Requests,
          None      \* NULL, or nothing

ASSUME NoneAssumption == None \notin Requests

VARIABLES
  req,    \* what a request has in memory, or Idle
  ended,  \* the requests that have committed or were rolled back
  saw     \* observer: the requests that had ended when this one began

requestVars == <<req, ended, saw>>

Idle == [kind |-> "idle"]

RequestInit ==
  /\ req = [r \in Requests |-> Idle]
  /\ ended = {}
  /\ saw = [r \in Requests |-> {}]

Begin(r, record) ==
  /\ req[r] = Idle /\ r \notin ended
  /\ req' = [req EXCEPT ![r] = record]
  /\ saw' = [saw EXCEPT ![r] = ended]
  /\ UNCHANGED ended

Doing(r, kind) == req[r].kind = kind

\* The request answers: the transaction is over, either way.
End(r) ==
  /\ req[r] # Idle
  /\ req' = [req EXCEPT ![r] = Idle]
  /\ ended' = ended \cup {r}
  /\ UNCHANGED saw

\* A request that reads nothing others change: it begins and commits at once.
Once(r) ==
  /\ req[r] = Idle /\ r \notin ended
  /\ ended' = ended \cup {r}
  /\ saw' = [saw EXCEPT ![r] = ended]
  /\ UNCHANGED req

Begun(r) == req[r] # Idle \/ r \in ended

\* Neither had ended when the other began.
Overlap(q, r) ==
  /\ {q, r} \subseteq Requests /\ q # r
  /\ Begun(q) /\ Begun(r)
  /\ q \notin saw[r] /\ r \notin saw[q]

=============================================================================
