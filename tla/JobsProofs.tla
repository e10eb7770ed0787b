----------------------------- MODULE JobsProofs -----------------------------
(***************************************************************************)
(* Proofs about Jobs, for all offers, edits, requests and budgets.         *)
(***************************************************************************)
EXTENDS Jobs, FiniteSetTheorems, TLAPS

-----------------------------------------------------------------------------
(* Rows and edits.                                                         *)

LEMMA BlankRow == Blank \in Rows
BY JobsAssumption

LEMMA StatusIsAField == "status" \in Fields /\ "status" \notin Columns /\ Columns \subseteq Fields
BY DEF Fields, Columns, TextColumns, HtmlColumns, PlaceColumns, SalaryColumns

LEMMA MergedRow ==
  ASSUME NEW row \in Rows, NEW p \in Patches \cup {Publish}
  PROVE  Merged(row, p) \in Rows
<1>1. \A f \in DOMAIN p \cap Fields : p[f] \in IF f = "status" THEN Statuses ELSE Values
  BY JobsAssumption DEF Publish, Statuses
<1>2. \A f \in Fields :
        Merged(row, p)[f] \in IF f = "status" THEN Statuses ELSE Values
  BY <1>1, StatusIsAField DEF Merged, Rows, Fields
<1>3. Merged(row, p) \in [Fields -> Values \cup Statuses]
  <2>1. \A f \in Fields :
          (IF f \in DOMAIN p THEN p[f] ELSE row[f]) \in Values \cup Statuses
    BY <1>1 DEF Rows
  <2> QED BY <2>1 DEF Merged
<1> QED BY <1>2, <1>3, StatusIsAField DEF Rows

LEMMA StatusChange ==
  ASSUME NEW row \in Rows, NEW s \in Statuses
  PROVE  [row EXCEPT !["status"] = s] \in Rows
BY StatusIsAField DEF Rows

LEMMA AcceptedRow ==
  ASSUME NEW row \in Rows, NEW p \in Patches \cup {Publish}
  PROVE  Accepted(row, p) \in Rows
BY MergedRow, StatusChange DEF Accepted, Rows

LEMMA WrittenRow ==
  ASSUME NEW row \in Rows, NEW read \in Rows, NEW new \in Rows
  PROVE  Written(row, read, new) \in Rows
<1>1. \A f \in Fields : (IF new[f] # read[f] THEN new[f] ELSE row[f]) \in Values \cup Statuses
  BY DEF Rows
<1>2. Written(row, read, new) \in [Fields -> Values \cup Statuses]
  BY <1>1 DEF Written
<1> QED BY <1>2, StatusIsAField DEF Written, Rows

\* An UPDATE of the row that was read makes the row that was meant.
LEMMA WrittenToTheSame ==
  ASSUME NEW row \in Rows, NEW new \in Rows
  PROVE  Written(row, row, new) = new
<1>1. \A f \in Fields : Written(row, row, new)[f] = new[f]
  BY DEF Written
<1>2. Written(row, row, new) = [f \in Fields |-> Written(row, row, new)[f]]
  BY DEF Written
<1>3. new = [f \in Fields |-> new[f]]
  BY DEF Rows
<1> QED BY <1>1, <1>2, <1>3

\* The gate: a row that was not open is opened only when it is ready.
LEMMA AcceptedIsReady ==
  ASSUME NEW row \in Rows, row["status"] # "open", NEW p \in Patches \cup {Publish},
         Accepted(row, p)["status"] = "open"
  PROVE  Ready(Accepted(row, p))
<1> DEFINE merged == Merged(row, p)
<1>1. merged \in Rows
  BY MergedRow
<1>2. CASE merged["status"] = "open" /\ ~Ready(merged)
  <2>1. Accepted(row, p) = [merged EXCEPT !["status"] = row["status"]]
    BY <1>2 DEF Accepted
  <2>2. Accepted(row, p)["status"] = row["status"]
    BY <1>1, <2>1, StatusIsAField DEF Rows
  <2> QED BY <2>2
<1>3. CASE ~(merged["status"] = "open" /\ ~Ready(merged))
  BY <1>3 DEF Accepted
<1> QED BY <1>2, <1>3

-----------------------------------------------------------------------------
(* Type correctness.                                                       *)

LEMMA Typed ==
  ASSUME TypeOK, NEW r \in Requests
  PROVE  /\ req[r].kind \in {"patch", "publish"} =>
              /\ req[r] \in Edit
              /\ req[r].job \in JobIds /\ req[r].read \in Rows
              /\ req[r].patch \in Patches \cup {Publish}
         /\ req[r].kind \in AiKinds =>
              /\ req[r] \in AiRequest /\ req[r].job \in JobIds \cup {None}
              /\ req[r].cost \in 0..MaxCost
         /\ usage[r] # NoUsage => usage[r] \in Usage
BY DEF TypeOK, Edit, AiRequest, NoRequest, AiKinds, Results, NoUsage, Usage

\* Requests that call the LLM for an offer name one.
JobNamed ==
  \A r \in Requests : req[r].kind \in AiKinds \ {"parse"} => req[r].job \in JobIds

TypeInv == TypeOK /\ JobNamed

LEMMA TypeInit == Init => TypeInv
<1> SUFFICES ASSUME Init PROVE TypeInv
  OBVIOUS
<1>1. jobs \in [JobIds -> Rows]
  BY JobsAssumption DEF Init
<1> QED
  BY <1>1, JobsAssumption DEF Init, TypeInv, TypeOK, JobNamed, NoRequest, AiKinds, Results

LEMMA EditedRow ==
  ASSUME TypeOK, NEW r \in Requests, req[r].kind \in {"patch", "publish"}
  PROVE  Edited(r) \in Rows
BY Typed, MergedRow, AcceptedRow DEF Edited

LEMMA TypeStep == TypeInv /\ [Next]_vars => TypeInv'
<1> SUFFICES ASSUME TypeInv, [Next]_vars PROVE TypeInv'
  OBVIOUS
<1> USE DEF TypeInv
<1>1. ASSUME NEW r \in Requests, NEW j \in JobIds, NEW row \in Rows, Insert(r, j, row)
      PROVE  TypeInv'
  BY <1>1 DEF Insert, TypeOK, JobNamed, New
<1>2. ASSUME NEW r \in Requests, NEW j \in JobIds, NEW p \in Patches, PatchRead(r, j, p)
      PROVE  TypeInv'
  <2>1. [kind |-> "patch", job |-> j, read |-> jobs[j], patch |-> p] \in Edit
    BY DEF Edit, TypeOK
  <2> QED BY <1>2, <2>1 DEF PatchRead, Start, TypeOK, JobNamed, AiKinds, Results
<1>3. ASSUME NEW r \in Requests, NEW j \in JobIds, PublishRead(r, j) PROVE TypeInv'
  <2>1. [kind |-> "publish", job |-> j, read |-> jobs[j], patch |-> Publish] \in Edit
    BY DEF Edit, TypeOK
  <2> QED BY <1>3, <2>1 DEF PublishRead, Start, TypeOK, JobNamed, AiKinds, Results
<1>4. ASSUME NEW r \in Requests, NEW j \in JobIds, Delete(r, j) PROVE TypeInv'
  BY <1>4, BlankRow DEF Delete, TypeOK, JobNamed, New
<1>5. ASSUME NEW r \in Requests, NEW j \in JobIds \cup {None}, NEW kind \in AiKinds,
             kind # "parse" => j \in JobIds, Start(r, Loaded(kind, j)),
             knew' = knew \/ knew' = [knew EXCEPT ![r] = Known], UNCHANGED peak
      PROVE  TypeInv'
  <2>1. Loaded(kind, j) \in AiRequest /\ Loaded(kind, j).kind = kind /\ Loaded(kind, j).job = j
    BY JobsAssumption DEF Loaded, AiRequest
  <2>2. knew' \in [Requests -> SUBSET Requests]
    BY <1>5 DEF Known, TypeOK
  <2> QED BY <1>5, <2>1, <2>2 DEF Start, TypeOK, JobNamed
<1>6. ASSUME NEW r \in Requests, EditCommit(r) PROVE TypeInv'
  <2>1. Written(jobs[req[r].job], req[r].read, Edited(r)) \in Rows /\ req[r].job \in JobIds
    BY <1>6, Typed, EditedRow, WrittenRow DEF EditCommit, TypeOK
  <2>2. jobs' \in [JobIds -> Rows] /\ unchecked' \in [JobIds -> BOOLEAN]
    BY <1>6, <2>1 DEF EditCommit, TypeOK, Unseen
  <2> QED BY <1>6, <2>1, <2>2 DEF EditCommit, End, TypeOK, JobNamed, NoRequest, AiKinds, Results
<1>7. ASSUME NEW r \in Requests, CheckBudget(r) PROVE TypeInv'
  <2>1. IsFiniteSet(InFlight) /\ Cardinality(InFlight) \in Nat
    BY JobsAssumption, FS_Subset, FS_CardinalityType DEF InFlight
  <2>2. req[r] \in AiRequest
    BY <1>7, Typed DEF CheckBudget
  <2>3. [req[r] EXCEPT !.phase = "calling"] \in AiRequest
    BY <2>2 DEF AiRequest
  <2>4. req' = [req EXCEPT ![r] = [req[r] EXCEPT !.phase = "calling"]]
    BY <1>7 DEF CheckBudget
  <2> QED BY <1>7, <2>1, <2>2, <2>3, <2>4 DEF CheckBudget, TypeOK, JobNamed, AiRequest
<1>8. ASSUME NEW r \in Requests, NEW cost \in 0..MaxCost, Answer(r, cost) PROVE TypeInv'
  <2>1. PICK b \in BOOLEAN :
          req' = [req EXCEPT ![r] =
                    [@ EXCEPT !.phase = "answered", !.cost = cost, !.found = b]]
    BY <1>8 DEF Answer, Found
  <2>2. req[r] \in AiRequest
    BY <1>8, Typed DEF Answer
  <2>3. [req[r] EXCEPT !.phase = "answered", !.cost = cost, !.found = b] \in AiRequest
    BY <2>2 DEF AiRequest
  <2> QED BY <1>8, <2>1, <2>2, <2>3 DEF Answer, TypeOK, JobNamed, AiRequest
<1>9. ASSUME NEW r \in Requests, Save(r) PROVE TypeInv'
  <2>1. req[r] \in AiRequest /\ req[r].kind \in AiKinds /\ req[r].cost \in Nat
        /\ req[r].job \in JobIds \cup {None}
    BY <1>9, Typed, JobsAssumption DEF Save
  <2>2. req[r].kind # "parse" => req[r].job \in JobIds /\ life[req[r].job] = "live"
    BY <1>9, <2>1 DEF Save, CanSave, JobNamed
  <2>3. usage' \in [Requests -> Usage \cup {NoUsage}] /\ spent' \in Nat
    BY <1>9, <2>1 DEF Save, TypeOK, Usage
  <2>4. results' \in [JobIds -> [Results -> Requests \cup {None}]]
        /\ \A j \in JobIds : life[j] # "live" => results'[j] = results[j]
    BY <1>9, <2>2 DEF Save, TypeOK, Results
  <2>5. suggested' \in [JobIds -> BOOLEAN]
        /\ \A j \in JobIds : life[j] # "live" => suggested'[j] = suggested[j]
    BY <1>9, <2>2 DEF Save, TypeOK
  <2> QED BY <1>9, <2>3, <2>4, <2>5 DEF Save, End, TypeOK, JobNamed, NoRequest, AiKinds, Results
<1>10. ASSUME NEW r \in Requests, Abort(r) PROVE TypeInv'
  BY <1>10 DEF Abort, End, TypeOK, JobNamed, NoRequest, AiKinds, Results
<1>11. ASSUME NEW cost \in 1..MaxBackground, CvUsage(cost) PROVE TypeInv'
  BY <1>11, JobsAssumption DEF CvUsage, TypeOK, JobNamed
<1>12. ASSUME NEW cost \in 1..spent, Expire(cost) PROVE TypeInv'
  BY <1>12 DEF Expire, TypeOK, JobNamed
<1>13. CASE UNCHANGED vars
  BY <1>13 DEF vars, TypeOK, JobNamed
<1>14. ASSUME NEW r \in Requests, NEW j \in JobIds, NEW row \in Offers, Create(r, j, row)
       PROVE  TypeInv'
  BY <1>14, <1>1, JobsAssumption DEF Create
<1>15. ASSUME NEW r \in Requests, NEW j \in JobIds, NEW source \in JobIds, Clone(r, source, j)
       PROVE  TypeInv'
  BY <1>15, <1>1, StatusChange DEF Clone, TypeOK, Statuses
<1>16. ASSUME NEW r \in Requests, NEW j \in JobIds, NEW kind \in AiKinds \ {"parse"},
              Load(r, kind, j)
       PROVE  TypeInv'
  BY <1>16, <1>5 DEF Load
<1>17. ASSUME NEW r \in Requests, ParseStart(r) PROVE TypeInv'
  <2>1. "parse" \in AiKinds /\ None \in JobIds \cup {None}
    BY DEF AiKinds
  <2> QED BY <1>17, <1>5, <2>1 DEF ParseStart
<1> QED
  BY <1>2, <1>3, <1>4, <1>6, <1>7, <1>8, <1>9, <1>10, <1>11, <1>12, <1>13, <1>14, <1>15,
     <1>16, <1>17 DEF Next

\* Rows and requests keep their types, and an offer that is not there has no
\* analysis and no mark.
THEOREM TypeCorrect == Spec => []TypeOK
<1>1. Spec => []TypeInv
  BY TypeInit, TypeStep, PTL DEF Spec
<1>2. TypeInv => TypeOK
  BY DEF TypeInv
<1> QED BY <1>1, <1>2, PTL

-----------------------------------------------------------------------------
(* The gate of open offers.                                                *)

\* A publish that has read is of a row that it makes ready.
PublishIsReady ==
  \A r \in Requests :
    req[r].kind = "publish" => Ready(Merged(req[r].read, req[r].patch))

GateInv == TypeInv /\ PublishIsReady /\ OpenIsReady

LEMMA GateInit == Init => GateInv
<1> SUFFICES ASSUME Init PROVE GateInv
  OBVIOUS
<1>1. \A j \in JobIds : life[j] = "live" => jobs[j]["status"] # "open"
  BY DEF Init
<1> QED BY <1>1, TypeInit DEF Init, GateInv, PublishIsReady, OpenIsReady, NoRequest

\* What another request reads, calls or gives up.
LEMMA GateQuiet ==
  ASSUME GateInv, UNCHANGED <<life, jobs, unchecked>>,
         \A r \in Requests : req'[r] = req[r] \/ req'[r].kind # "publish"
  PROVE  PublishIsReady' /\ OpenIsReady'
BY DEF GateInv, PublishIsReady, OpenIsReady

LEMMA GateInsert ==
  ASSUME GateInv, NEW r \in Requests, NEW j \in JobIds, NEW row, Insert(r, j, row),
         row["status"] = "open" => Ready(row)
  PROVE  PublishIsReady' /\ OpenIsReady'
<1>1. PublishIsReady'
  BY DEF GateInv, PublishIsReady, Insert
<1>2. ASSUME NEW k \in JobIds, life'[k] = "live", jobs'[k]["status"] = "open", ~unchecked'[k]
      PROVE  Ready(jobs'[k])
  BY <1>2 DEF GateInv, TypeInv, TypeOK, OpenIsReady, Insert
<1> QED BY <1>1, <1>2 DEF OpenIsReady

LEMMA GateEditCommit ==
  ASSUME GateInv, NEW r \in Requests, EditCommit(r)
  PROVE  PublishIsReady' /\ OpenIsReady'
<1> DEFINE j == req[r].job  row == req[r].read
<1>1. /\ j \in JobIds /\ row \in Rows /\ req[r].patch \in Patches \cup {Publish}
      /\ Edited(r) \in Rows /\ jobs \in [JobIds -> Rows] /\ unchecked \in [JobIds -> BOOLEAN]
  BY Typed, EditedRow DEF EditCommit, GateInv, TypeInv, TypeOK
<1>2. PublishIsReady'
  BY DEF GateInv, TypeInv, TypeOK, PublishIsReady, EditCommit, End, NoRequest
<1>3. ASSUME ~Unseen(r), Edited(r)["status"] = "open" PROVE Ready(Edited(r))
  <2>1. CASE req[r].kind = "publish"
    BY <2>1 DEF GateInv, PublishIsReady, Edited
  <2>2. CASE req[r].kind = "patch"
    BY <1>1, <1>3, <2>2, AcceptedIsReady DEF Edited, Unseen
  <2> QED BY <2>1, <2>2 DEF EditCommit
<1>4. ~Unseen(r) => jobs[j] = row
  BY DEF Unseen
<1>5. ~Unseen(r) => Written(jobs[j], row, Edited(r)) = Edited(r)
  BY <1>1, <1>4, WrittenToTheSame
<1>6. /\ jobs'[j] = Written(jobs[j], row, Edited(r)) /\ unchecked'[j] = Unseen(r)
      /\ \A k \in JobIds \ {j} : jobs'[k] = jobs[k] /\ unchecked'[k] = unchecked[k]
      /\ life' = life
  BY <1>1 DEF EditCommit
<1>7. ASSUME NEW k \in JobIds, life'[k] = "live", jobs'[k]["status"] = "open", ~unchecked'[k]
      PROVE  Ready(jobs'[k])
  <2>1. CASE k = j
    BY <1>3, <1>5, <1>6, <1>7, <2>1
  <2>2. CASE k # j
    BY <1>6, <1>7, <2>2 DEF GateInv, OpenIsReady
  <2> QED BY <2>1, <2>2
<1> QED BY <1>2, <1>7 DEF OpenIsReady

LEMMA GateStep == GateInv /\ [Next]_vars => GateInv'
<1> SUFFICES ASSUME GateInv, [Next]_vars PROVE PublishIsReady' /\ OpenIsReady'
  BY TypeStep DEF GateInv
<1> USE DEF GateInv
<1>1. ASSUME NEW r \in Requests, NEW j \in JobIds, NEW row \in Offers, Create(r, j, row)
      PROVE  PublishIsReady' /\ OpenIsReady'
  BY <1>1, GateInsert DEF Create
<1>2. ASSUME NEW r \in Requests, NEW j \in JobIds, NEW source \in JobIds, Clone(r, source, j)
      PROVE  PublishIsReady' /\ OpenIsReady'
  <2>1. [jobs[source] EXCEPT !["status"] = "draft"]["status"] = "draft"
    BY StatusIsAField DEF TypeInv, TypeOK, Rows
  <2> QED BY <1>2, <2>1, GateInsert DEF Clone
<1>3. ASSUME NEW r \in Requests, NEW j \in JobIds, NEW p \in Patches, PatchRead(r, j, p)
      PROVE  PublishIsReady' /\ OpenIsReady'
  <2>1. \A q \in Requests : req'[q] = req[q] \/ req'[q].kind = "patch"
    BY <1>3 DEF PatchRead, Start, TypeInv, TypeOK
  <2> QED BY <1>3, <2>1, GateQuiet DEF PatchRead, Start
<1>4. ASSUME NEW r \in Requests, NEW j \in JobIds, PublishRead(r, j)
      PROVE  PublishIsReady' /\ OpenIsReady'
  <2>1. \A q \in Requests \ {r} : req'[q] = req[q]
    BY <1>4 DEF PublishRead, Start, TypeInv, TypeOK
  <2>2. req'[r].read = jobs[j] /\ req'[r].patch = Publish
    BY <1>4 DEF PublishRead, Start, TypeInv, TypeOK
  <2>3. Ready(Merged(req'[r].read, req'[r].patch))
    BY <1>4, <2>2 DEF PublishRead
  <2>4. PublishIsReady'
    BY <2>1, <2>3 DEF PublishIsReady
  <2>5. OpenIsReady'
    BY <1>4 DEF PublishRead, Start, OpenIsReady
  <2> QED BY <2>4, <2>5
<1>5. ASSUME NEW r \in Requests, NEW j \in JobIds, Delete(r, j)
      PROVE  PublishIsReady' /\ OpenIsReady'
  <2>1. \A k \in JobIds \ {j} : /\ life'[k] = life[k] /\ jobs'[k] = jobs[k]
                                /\ unchecked'[k] = unchecked[k]
    BY <1>5 DEF Delete, TypeInv, TypeOK
  <2>2. life'[j] = "deleted" /\ req' = req
    BY <1>5 DEF Delete, TypeInv, TypeOK
  <2> QED BY <2>1, <2>2 DEF PublishIsReady, OpenIsReady
<1>6. ASSUME NEW r \in Requests, NEW kind \in AiKinds, NEW j, Start(r, Loaded(kind, j))
      PROVE  PublishIsReady' /\ OpenIsReady'
  <2>1. \A q \in Requests : req'[q] = req[q] \/ req'[q].kind = kind
    BY <1>6 DEF Start, Loaded, TypeInv, TypeOK
  <2> QED BY <1>6, <2>1, GateQuiet DEF Start, AiKinds, Results
<1>7. ASSUME NEW r \in Requests, CheckBudget(r) \/ \E c \in 0..MaxCost : Answer(r, c)
      PROVE  PublishIsReady' /\ OpenIsReady'
  <2>1. req[r].kind \in AiKinds /\ req[r] \in AiRequest
    BY <1>7, Typed DEF CheckBudget, Answer, TypeInv
  <2>2. \A q \in Requests \ {r} : req'[q] = req[q]
    BY <1>7 DEF CheckBudget, Answer, TypeInv, TypeOK
  <2>3. req'[r].kind = req[r].kind
    <3>1. CASE CheckBudget(r)
      BY <2>1, <3>1 DEF CheckBudget, TypeInv, TypeOK, AiRequest
    <3>2. ASSUME NEW c \in 0..MaxCost, Answer(r, c) PROVE req'[r].kind = req[r].kind
      BY <2>1, <3>2 DEF Answer, Found, TypeInv, TypeOK, AiRequest
    <3> QED BY <1>7, <3>1, <3>2
  <2>4. \A q \in Requests : req'[q] = req[q] \/ req'[q].kind # "publish"
    BY <2>1, <2>2, <2>3 DEF AiKinds, Results
  <2>5. UNCHANGED <<life, jobs, unchecked>>
    BY <1>7 DEF CheckBudget, Answer
  <2> QED BY <2>4, <2>5, GateQuiet
<1>8. ASSUME NEW r \in Requests, Save(r) \/ Abort(r) PROVE PublishIsReady' /\ OpenIsReady'
  <2>1. \A q \in Requests : req'[q] = req[q] \/ req'[q].kind = "none"
    BY <1>8 DEF Save, Abort, End, NoRequest, TypeInv, TypeOK
  <2> QED BY <1>8, <2>1, GateQuiet DEF Save, Abort
<1>9. ASSUME UNCHANGED <<life, jobs, unchecked, req>> PROVE PublishIsReady' /\ OpenIsReady'
  BY <1>9, GateQuiet
<1>10. ASSUME NEW r \in Requests, NEW j \in JobIds, NEW kind \in AiKinds \ {"parse"},
              Load(r, kind, j)
       PROVE  PublishIsReady' /\ OpenIsReady'
  BY <1>6, <1>10 DEF Load
<1>11. ASSUME NEW r \in Requests, ParseStart(r) PROVE PublishIsReady' /\ OpenIsReady'
  BY <1>6, <1>11 DEF ParseStart, AiKinds
<1>12. CASE \/ \E c \in 1..MaxBackground : CvUsage(c)
            \/ \E c \in 1..spent : Expire(c)
            \/ UNCHANGED vars
  BY <1>9, <1>12 DEF CvUsage, Expire, vars
<1> QED
  BY <1>1, <1>2, <1>3, <1>4, <1>5, <1>7, <1>8, <1>10, <1>11, <1>12, GateEditCommit DEF Next

\* An open offer has an issue only if its last write was not validated, or was
\* computed from a row that had changed by then.
THEOREM OpenOffersAreReady == Spec => []OpenIsReady
<1>1. Spec => []GateInv
  BY GateInit, GateStep, PTL DEF Spec
<1>2. GateInv => OpenIsReady
  BY DEF GateInv
<1> QED BY <1>1, <1>2, PTL

-----------------------------------------------------------------------------
(* Usage rows, results and the one suggestion.                             *)

\* A request that is committed is over; its offer has been there.
UsageOfEnded ==
  \A r \in Requests :
    /\ r \in ended => req[r] = NoRequest
    /\ usage[r] # NoUsage =>
         /\ r \in ended
         /\ usage[r].kind # "parse" => usage[r].job \in JobIds /\ life[usage[r].job] # "unborn"

KnewUsage == \A q, r \in Requests : q \in knew[r] => usage[q] # NoUsage

\* A suggestion in preparation knew of none for its offer.
KnewNoSuggestion ==
  \A q, r \in Requests :
    req[r].kind = "suggest" /\ q \in knew[r] /\ usage[q].kind = "suggest"
    => usage[q].job # req[r].job

UsageParts == /\ UsageOfEnded /\ KnewUsage /\ KnewNoSuggestion
              /\ SuggestedOnceUnlessOverlapping /\ ResultAndUsageTogether

UsageInv == TypeInv /\ UsageParts

LEMMA UsageInit == Init => UsageInv
BY TypeInit DEF Init, UsageInv, UsageParts, UsageOfEnded, KnewUsage, KnewNoSuggestion,
   SuggestedOnceUnlessOverlapping, ResultAndUsageTogether, NoRequest

\* A step that writes none of these rows and begins no suggestion.
LEMMA UsageQuiet ==
  ASSUME UsageInv, UNCHANGED <<usage, results, suggested, life, knew>>,
         \A r \in Requests : r \in ended' => req'[r] = NoRequest,
         ended \subseteq ended',
         \A r \in Requests :
           req'[r].kind = "suggest" => req[r].kind = "suggest" /\ req'[r].job = req[r].job
  PROVE  UsageParts'
BY DEF UsageInv, UsageParts, UsageOfEnded, KnewUsage, KnewNoSuggestion,
   SuggestedOnceUnlessOverlapping, ResultAndUsageTogether

LEMMA UsageLoad ==
  ASSUME UsageInv, NEW r \in Requests, NEW j \in JobIds, NEW kind \in AiKinds \ {"parse"},
         Load(r, kind, j)
  PROVE  UsageParts'
<1>1. /\ req'[r].kind = kind /\ req'[r].job = j
      /\ knew'[r] = Known /\ usage[r] = NoUsage /\ r \notin ended
      /\ \A q \in Requests \ {r} : req'[q] = req[q] /\ knew'[q] = knew[q]
      /\ UNCHANGED <<usage, results, suggested, life, ended>>
  BY DEF Load, Start, Loaded, New, UsageInv, UsageParts, UsageOfEnded, TypeInv, TypeOK
<1>2. UsageOfEnded' /\ KnewUsage'
  BY <1>1 DEF UsageInv, UsageParts, UsageOfEnded, KnewUsage, Known
<1>3. KnewNoSuggestion'
  <2>1. ASSUME kind = "suggest", NEW q \in Requests, usage[q].kind = "suggest", usage[q] # NoUsage
        PROVE  usage[q].job # j
    BY <2>1 DEF Load, UsageInv, UsageParts, ResultAndUsageTogether
  <2> QED BY <1>1, <2>1 DEF UsageInv, UsageParts, KnewNoSuggestion, NoUsage
<1>4. SuggestedOnceUnlessOverlapping'
  BY <1>1 DEF UsageInv, UsageParts, SuggestedOnceUnlessOverlapping
<1>5. ResultAndUsageTogether'
  BY <1>1 DEF UsageInv, UsageParts, ResultAndUsageTogether
<1> QED BY <1>2, <1>3, <1>4, <1>5 DEF UsageParts

LEMMA UsageInsert ==
  ASSUME UsageInv, NEW r \in Requests, NEW j \in JobIds, NEW row, Insert(r, j, row)
  PROVE  UsageParts'
<1>1. /\ life[j] = "unborn" /\ req[r] = NoRequest /\ ended' = ended \cup {r}
      /\ \A k \in JobIds \ {j} : life'[k] = life[k]
      /\ life'[j] = "live"
      /\ UNCHANGED <<usage, results, suggested, req, knew>>
  BY DEF Insert, New, UsageInv, TypeInv, TypeOK
<1>2. UsageOfEnded' /\ KnewUsage' /\ KnewNoSuggestion' /\ SuggestedOnceUnlessOverlapping'
  BY <1>1 DEF UsageInv, UsageParts, UsageOfEnded, KnewUsage, KnewNoSuggestion,
     SuggestedOnceUnlessOverlapping
<1>3. ResultAndUsageTogether'
  BY <1>1 DEF UsageInv, UsageParts, UsageOfEnded, ResultAndUsageTogether
<1> QED BY <1>2, <1>3 DEF UsageParts

LEMMA UsageDelete ==
  ASSUME UsageInv, NEW r \in Requests, NEW j \in JobIds, Delete(r, j)
  PROVE  UsageParts'
<1>1. /\ req[r] = NoRequest /\ ended' = ended \cup {r}
      /\ \A k \in JobIds \ {j} : /\ life'[k] = life[k] /\ suggested'[k] = suggested[k]
                                 /\ results'[k] = results[k]
      /\ life'[j] = "deleted" /\ results'[j] = [k \in Results |-> None]
      /\ UNCHANGED <<usage, req, knew>>
  BY DEF Delete, New, UsageInv, TypeInv, TypeOK
<1>2. UsageOfEnded' /\ KnewUsage' /\ KnewNoSuggestion' /\ SuggestedOnceUnlessOverlapping'
  BY <1>1 DEF UsageInv, UsageParts, UsageOfEnded, KnewUsage, KnewNoSuggestion,
     SuggestedOnceUnlessOverlapping
<1>3. ResultAndUsageTogether'
  BY <1>1 DEF UsageInv, UsageParts, UsageOfEnded, ResultAndUsageTogether
<1> QED BY <1>2, <1>3 DEF UsageParts

LEMMA UsageSave ==
  ASSUME UsageInv, NEW r \in Requests, Save(r)
  PROVE  UsageParts'
<1> DEFINE kind == req[r].kind  j == req[r].job
<1>1. /\ kind \in AiKinds /\ j \in JobIds \cup {None} /\ req[r] # NoRequest
      /\ kind # "parse" => j \in JobIds /\ life[j] = "live"
  BY Typed DEF Save, CanSave, UsageInv, TypeInv, JobNamed, NoRequest, AiKinds, Results
<1>2. r \notin ended /\ usage[r] = NoUsage
  BY <1>1 DEF UsageInv, UsageParts, UsageOfEnded
<1>3. /\ usage'[r] = [kind |-> kind, job |-> j]
      /\ usage'[r] # NoUsage
      /\ \A q \in Requests \ {r} : usage'[q] = usage[q]
  BY <1>1 DEF Save, UsageInv, TypeInv, TypeOK, NoUsage, AiKinds, Results
<1>4. /\ req'[r] = NoRequest /\ \A q \in Requests \ {r} : req'[q] = req[q]
      /\ ended' = ended \cup {r} /\ UNCHANGED <<knew, life>>
  BY DEF Save, End, UsageInv, TypeInv, TypeOK
<1>5. \A q \in Requests : r \notin knew[q]
  BY <1>2 DEF UsageInv, UsageParts, KnewUsage
<1>6. UsageOfEnded' /\ KnewUsage'
  BY <1>1, <1>2, <1>3, <1>4, <1>5 DEF UsageInv, UsageParts, UsageOfEnded, KnewUsage
<1>7. KnewNoSuggestion'
  BY <1>3, <1>4, <1>5 DEF UsageInv, UsageParts, KnewNoSuggestion, NoRequest
<1>8. SuggestedOnceUnlessOverlapping'
  BY <1>3, <1>4, <1>5 DEF UsageInv, UsageParts, KnewNoSuggestion,
     SuggestedOnceUnlessOverlapping
<1>9. \A k \in JobIds, m \in Results : results[k][m] # r
  <2> SUFFICES ASSUME NEW k \in JobIds, NEW m \in Results, results[k][m] = r PROVE FALSE
    OBVIOUS
  <2>1. usage[r] = [kind |-> m, job |-> k]
    BY JobsAssumption DEF UsageInv, UsageParts, ResultAndUsageTogether
  <2> QED BY <1>2, <2>1 DEF NoUsage
<1>10. ResultAndUsageTogether'
  <2>1. CASE kind \in Results
    <3>1. /\ results'[j][kind] = r /\ suggested' = suggested /\ r # None
          /\ \A k \in JobIds, m \in Results :
               k # j \/ m # kind => results'[k][m] = results[k][m]
      BY <1>1, <2>1, JobsAssumption DEF Save, UsageInv, TypeInv, TypeOK, Results, AiKinds
    <3>2. \A k \in JobIds, m \in Results :
            results'[k][m] # None => usage'[results'[k][m]] = [kind |-> m, job |-> k]
      <4> SUFFICES ASSUME NEW k \in JobIds, NEW m \in Results, results'[k][m] # None
                   PROVE  usage'[results'[k][m]] = [kind |-> m, job |-> k]
        OBVIOUS
      <4>1. CASE k = j /\ m = kind
        BY <1>3, <3>1, <4>1
      <4>2. CASE k # j \/ m # kind
        <5>1. results'[k][m] = results[k][m] /\ results[k][m] \in Requests \ {r}
          BY <1>9, <3>1, <4>2 DEF UsageInv, TypeInv, TypeOK
        <5> QED BY <1>3, <5>1 DEF UsageInv, UsageParts, ResultAndUsageTogether
      <4> QED BY <4>1, <4>2
    <3>3. ASSUME NEW q \in Requests, usage'[q] # NoUsage, usage'[q].kind # "parse",
                 life[usage'[q].job] = "live"
          PROVE  IF usage'[q].kind = "suggest" THEN suggested'[usage'[q].job]
                 ELSE results'[usage'[q].job][usage'[q].kind] # None
      <4>1. CASE q = r
        BY <1>1, <1>3, <2>1, <3>1, <4>1 DEF Results
      <4>2. CASE q # r
        <5>1. usage'[q] = usage[q] /\ usage[q].job \in JobIds /\ usage[q].kind \in AiKinds
          BY <1>3, <3>3, <4>2, Typed
             DEF UsageInv, UsageParts, UsageOfEnded, TypeInv, Usage
        <5>2. usage[q].kind = "suggest" \/ usage[q].kind \in Results
          BY <3>3, <5>1 DEF AiKinds
        <5> QED BY <3>1, <3>3, <4>2, <5>1, <5>2
                DEF UsageInv, UsageParts, ResultAndUsageTogether
      <4> QED BY <4>1, <4>2
    <3> QED BY <1>4, <3>2, <3>3 DEF ResultAndUsageTogether
  <2>2. CASE kind \notin Results
    <3>1. /\ results' = results
          /\ kind = "suggest" => /\ suggested'[j]
                                 /\ \A k \in JobIds \ {j} : suggested'[k] = suggested[k]
          /\ kind # "suggest" => suggested' = suggested /\ kind = "parse"
      BY <1>1, <2>2 DEF Save, UsageInv, TypeInv, TypeOK, AiKinds
    <3>2. \A k \in JobIds, m \in Results :
            results'[k][m] # None => usage'[results'[k][m]] = [kind |-> m, job |-> k]
      BY <1>3, <1>9, <3>1 DEF UsageInv, UsageParts, TypeInv, TypeOK, ResultAndUsageTogether
    <3>3. ASSUME NEW q \in Requests, usage'[q] # NoUsage, usage'[q].kind # "parse",
                 life[usage'[q].job] = "live"
          PROVE  IF usage'[q].kind = "suggest" THEN suggested'[usage'[q].job]
                 ELSE results'[usage'[q].job][usage'[q].kind] # None
      <4>1. CASE q = r
        BY <1>3, <3>1, <3>3, <4>1
      <4>2. CASE q # r
        <5>1. usage'[q] = usage[q] /\ usage[q].job \in JobIds
          BY <1>3, <3>3, <4>2 DEF UsageInv, UsageParts, UsageOfEnded
        <5>2. suggested[usage[q].job] => suggested'[usage[q].job]
          BY <3>1, <5>1
        <5> QED BY <3>1, <3>3, <5>1, <5>2
                DEF UsageInv, UsageParts, ResultAndUsageTogether
      <4> QED BY <4>1, <4>2
    <3> QED BY <1>4, <3>2, <3>3 DEF ResultAndUsageTogether
  <2> QED BY <2>1, <2>2
<1> QED BY <1>6, <1>7, <1>8, <1>10 DEF UsageParts

LEMMA UsageStep == UsageInv /\ [Next]_vars => UsageInv'
<1> SUFFICES ASSUME UsageInv, [Next]_vars PROVE UsageParts'
  BY TypeStep DEF UsageInv
<1>1. \A r \in Requests : r \in ended => req[r] = NoRequest
  BY DEF UsageInv, UsageParts, UsageOfEnded
<1>2. ASSUME NEW r \in Requests, NEW request, request.kind # "suggest", Start(r, request),
             UNCHANGED knew
      PROVE  UsageParts'
  <2>1. /\ req'[r] = request /\ \A q \in Requests \ {r} : req'[q] = req[q]
        /\ r \notin ended /\ UNCHANGED <<ended, usage, results, suggested, life>>
    BY <1>2 DEF Start, New, UsageInv, TypeInv, TypeOK
  <2> QED BY <1>1, <1>2, <2>1, UsageQuiet
<1>3. ASSUME NEW r \in Requests, NEW j \in JobIds, NEW p \in Patches, PatchRead(r, j, p)
      PROVE  UsageParts'
  BY <1>2, <1>3 DEF PatchRead
<1>4. ASSUME NEW r \in Requests, NEW j \in JobIds, PublishRead(r, j) PROVE UsageParts'
  BY <1>2, <1>4 DEF PublishRead
<1>5. ASSUME NEW r \in Requests, ParseStart(r) PROVE UsageParts'
  BY <1>2, <1>5 DEF ParseStart, Loaded
<1>6. ASSUME NEW r \in Requests, End(r), UNCHANGED <<usage, results, suggested, life>>
      PROVE  UsageParts'
  <2>1. /\ req'[r] = NoRequest /\ \A q \in Requests \ {r} : req'[q] = req[q]
        /\ ended' = ended \cup {r} /\ UNCHANGED knew
    BY <1>6 DEF End, UsageInv, TypeInv, TypeOK
  <2> QED BY <1>1, <1>6, <2>1, UsageQuiet DEF NoRequest
<1>7. ASSUME NEW r \in Requests, CheckBudget(r) \/ \E c \in 0..MaxCost : Answer(r, c)
      PROVE  UsageParts'
  <2>1. req[r] \in AiRequest /\ req[r].kind \in AiKinds
    BY <1>7, Typed DEF CheckBudget, Answer, UsageInv, TypeInv
  <2>2. req'[r].kind = req[r].kind /\ req'[r].job = req[r].job
    <3>1. CASE CheckBudget(r)
      BY <2>1, <3>1 DEF CheckBudget, UsageInv, TypeInv, TypeOK, AiRequest
    <3>2. ASSUME NEW c \in 0..MaxCost, Answer(r, c)
          PROVE  req'[r].kind = req[r].kind /\ req'[r].job = req[r].job
      BY <2>1, <3>2 DEF Answer, Found, UsageInv, TypeInv, TypeOK, AiRequest
    <3> QED BY <1>7, <3>1, <3>2
  <2>3. /\ \A q \in Requests \ {r} : req'[q] = req[q]
        /\ UNCHANGED <<usage, results, suggested, life, knew, ended>>
    BY <1>7 DEF CheckBudget, Answer, UsageInv, TypeInv, TypeOK
  <2>4. r \notin ended
    BY <1>1, <2>1 DEF NoRequest, AiKinds, Results
  <2> QED BY <1>1, <2>2, <2>3, <2>4, UsageQuiet
<1>8. ASSUME UNCHANGED <<usage, results, suggested, life, knew, ended, req>> PROVE UsageParts'
  BY <1>1, <1>8, UsageQuiet
<1>9. CASE \/ \E c \in 1..MaxBackground : CvUsage(c)
           \/ \E c \in 1..spent : Expire(c)
           \/ UNCHANGED vars
  BY <1>8, <1>9 DEF CvUsage, Expire, vars
<1>10. ASSUME NEW r \in Requests, EditCommit(r) \/ Abort(r) PROVE UsageParts'
  BY <1>6, <1>10 DEF EditCommit, Abort
<1> QED
  BY <1>3, <1>4, <1>5, <1>7, <1>9, <1>10, UsageLoad, UsageInsert, UsageDelete, UsageSave
     DEF Next, Create, Clone

LEMMA UsageInvariant == Spec => []UsageInv
BY UsageInit, UsageStep, PTL DEF Spec

\* A usage row is committed with what it paid for, and only then.
THEOREM PaidWithItsResult == Spec => []ResultAndUsageTogether
<1>1. UsageInv => ResultAndUsageTogether
  BY DEF UsageInv, UsageParts
<1> QED BY <1>1, UsageInvariant, PTL

\* Two paid suggestions for one offer overlapped.
THEOREM OneSuggestionAtATime == Spec => []SuggestedOnceUnlessOverlapping
<1>1. UsageInv => SuggestedOnceUnlessOverlapping
  BY DEF UsageInv, UsageParts
<1> QED BY <1>1, UsageInvariant, PTL

-----------------------------------------------------------------------------
(* The budget.                                                             *)

\* Each call in flight may add its cost yet.
WithinReach ==
  Budget > 0 =>
    spent + MaxCost * Cardinality(InFlight) < Budget + MaxCost * peak + background

BudgetInv == TypeInv /\ WithinReach

LEMMA InFlightFinite == IsFiniteSet(InFlight) /\ Cardinality(InFlight) \in Nat
BY JobsAssumption, FS_Subset, FS_CardinalityType DEF InFlight

LEMMA MoreCostsMore ==
  ASSUME NEW c \in Nat, NEW m \in Nat, NEW n \in Nat
  PROVE  /\ c * m \in Nat /\ c * (m + 1) = c * m + c
         /\ m <= n => c * m <= c * n
OBVIOUS

LEMMA BelowTheLimit ==
  ASSUME NEW s \in Nat, NEW t \in Nat, NEW p \in Nat, NEW q \in Nat, NEW a \in Nat,
         NEW b \in Nat, NEW c \in Nat, NEW limit \in Nat,
         t - q <= s - p, b <= a, s + a < limit + c + p
  PROVE  t + b < limit + c + q
OBVIOUS

LEMMA BudgetInit == Init => BudgetInv
<1> SUFFICES ASSUME Init PROVE WithinReach
  BY TypeInit DEF BudgetInv
<1>1. InFlight = {}
  BY DEF Init, InFlight, NoRequest, AiKinds, Results
<1> QED BY <1>1, FS_EmptySet, JobsAssumption DEF Init, WithinReach

\* A step after which no more calls are in flight.
LEMMA BudgetQuiet ==
  ASSUME BudgetInv, InFlight' \subseteq InFlight, peak' = peak,
         spent' \in Nat, background' \in Nat, spent' - background' <= spent - background
  PROVE  WithinReach'
<1>1. Cardinality(InFlight') \in Nat /\ Cardinality(InFlight') <= Cardinality(InFlight)
  BY InFlightFinite, FS_Subset, FS_CardinalityType
<1>2. MaxCost * Cardinality(InFlight') <= MaxCost * Cardinality(InFlight)
  BY <1>1, InFlightFinite, MoreCostsMore, JobsAssumption
<1>3. /\ spent \in Nat /\ background \in Nat /\ peak \in Nat
      /\ MaxCost * Cardinality(InFlight) \in Nat /\ MaxCost * Cardinality(InFlight') \in Nat
      /\ MaxCost * peak \in Nat /\ Budget \in Nat
  BY <1>1, InFlightFinite, MoreCostsMore, JobsAssumption DEF BudgetInv, TypeInv, TypeOK
<1>4. PICK a \in Nat, b \in Nat, c \in Nat :
        /\ a = MaxCost * Cardinality(InFlight) /\ b = MaxCost * Cardinality(InFlight')
        /\ c = MaxCost * peak
  BY <1>3
<1>5. Budget > 0 => spent + a < Budget + c + background
  BY <1>4 DEF BudgetInv, WithinReach
<1>6. Budget > 0 => spent' + b < Budget + c + background'
  <2>1. b <= a
    BY <1>2, <1>4
  <2>2. spent \in Nat /\ background \in Nat /\ Budget \in Nat
    BY <1>3
  <2>3. PICK s \in Nat, t \in Nat, p \in Nat, q \in Nat :
          s = spent /\ t = spent' /\ p = background /\ q = background'
    BY <2>2
  <2>4. t - q <= s - p
    BY <2>3
  <2>5. Budget > 0 => s + a < Budget + c + p
    BY <1>5, <2>3
  <2>6. Budget > 0 => t + b < Budget + c + q
    BY <2>1, <2>2, <2>4, <2>5, BelowTheLimit
  <2> QED BY <2>3, <2>6
<1>7. MaxCost * Cardinality(InFlight)' = b /\ MaxCost * peak' = c
  <2>1. MaxCost * Cardinality(InFlight)' = b
    BY <1>4
  <2>2. MaxCost * peak' = c
    BY <1>4
  <2> QED BY <2>1, <2>2
<1>8. Budget > 0 => spent' + MaxCost * Cardinality(InFlight)'
                      < Budget + MaxCost * peak' + background'
  BY <1>6, <1>7
<1> QED BY <1>8 DEF WithinReach

LEMMA BudgetCheck ==
  ASSUME BudgetInv, NEW r \in Requests, CheckBudget(r)
  PROVE  WithinReach'
<1> DEFINE n == Cardinality(InFlight)
<1>1. req[r] \in AiRequest
  BY Typed DEF CheckBudget, BudgetInv, TypeInv
<1>2. req' = [req EXCEPT ![r] = [req[r] EXCEPT !.phase = "calling"]]
  BY DEF CheckBudget
<1>3. InFlight' = InFlight \cup {r} /\ r \notin InFlight
  <2>1. req'[r].kind \in AiKinds /\ req'[r].phase = "calling"
    BY <1>1, <1>2 DEF CheckBudget, BudgetInv, TypeInv, TypeOK, AiRequest
  <2>2. \A q \in Requests \ {r} : req'[q] = req[q]
    BY <1>2 DEF BudgetInv, TypeInv, TypeOK
  <2> QED BY <2>1, <2>2 DEF CheckBudget, InFlight
<1>4. Cardinality(InFlight') = n + 1 /\ n \in Nat
  BY <1>3, InFlightFinite, FS_AddElement
<1>5. /\ peak' \in Nat /\ n + 1 <= peak' /\ spent' = spent /\ background' = background
      /\ spent \in Nat /\ background \in Nat /\ Budget \in Nat
      /\ Budget > 0 => spent < Budget
  BY <1>4, JobsAssumption DEF CheckBudget, WithinBudget, BudgetInv, TypeInv, TypeOK
<1>6. MaxCost * (n + 1) <= MaxCost * peak' /\ MaxCost * (n + 1) \in Nat /\ MaxCost * peak' \in Nat
  <2>1. n + 1 \in Nat /\ MaxCost \in Nat
    BY <1>4, JobsAssumption
  <2> HIDE DEF n
  <2> QED BY <1>5, <2>1, MoreCostsMore
<1>7. Cardinality(InFlight)' = Cardinality(InFlight')
  OBVIOUS
<1>8. Cardinality(InFlight)' = n + 1
  BY <1>4, <1>7
<1> HIDE DEF n
<1> QED BY <1>5, <1>6, <1>8 DEF WithinReach

LEMMA BudgetSave ==
  ASSUME BudgetInv, NEW r \in Requests, Save(r)
  PROVE  WithinReach'
<1> DEFINE n == Cardinality(InFlight)
<1>1. req[r].cost \in 0..MaxCost
  BY Typed DEF Save, BudgetInv, TypeInv
<1>2. InFlight' = InFlight \ {r} /\ r \in InFlight
  <2>1. req'[r] = NoRequest /\ \A q \in Requests \ {r} : req'[q] = req[q]
    BY DEF Save, End, BudgetInv, TypeInv, TypeOK
  <2> QED BY <2>1 DEF Save, InFlight, NoRequest, AiKinds, Results
<1>3. PICK m \in Nat : n = m + 1 /\ Cardinality(InFlight') = m
  <2>1. Cardinality(InFlight') = n - 1 /\ n \in Nat /\ Cardinality(InFlight') \in Nat
    BY <1>2, InFlightFinite, FS_RemoveElement, FS_CardinalityType
  <2> QED BY <2>1
<1>4. MaxCost * n = MaxCost * m + MaxCost /\ MaxCost * m \in Nat /\ MaxCost * n \in Nat
  BY <1>3, MoreCostsMore, JobsAssumption
<1>5. /\ spent' = spent + req[r].cost /\ peak' = peak /\ background' = background
      /\ spent \in Nat /\ background \in Nat /\ peak \in Nat
      /\ Budget \in Nat /\ MaxCost \in Nat
  BY JobsAssumption DEF Save, End, BudgetInv, TypeInv, TypeOK
<1>6. MaxCost * peak \in Nat
  BY <1>5, MoreCostsMore
<1>7. Cardinality(InFlight)' = m
  BY <1>3
<1>8. Budget > 0 => spent + MaxCost * n < Budget + MaxCost * peak + background
  BY DEF BudgetInv, WithinReach
<1> HIDE DEF n
<1>9. Budget > 0 => spent' + MaxCost * m < Budget + MaxCost * peak + background
  BY <1>1, <1>4, <1>5, <1>6, <1>8
<1> QED BY <1>5, <1>7, <1>9 DEF WithinReach

LEMMA BudgetStep == BudgetInv /\ [Next]_vars => BudgetInv'
<1> SUFFICES ASSUME BudgetInv, [Next]_vars PROVE WithinReach'
  BY TypeStep DEF BudgetInv
<1>0. spent \in Nat /\ background \in Nat
  BY JobsAssumption DEF BudgetInv, TypeInv, TypeOK
<1>1. ASSUME InFlight' \subseteq InFlight, UNCHANGED <<peak, spent, background>>
      PROVE  WithinReach'
  BY <1>0, <1>1, BudgetQuiet
<1>2. ASSUME NEW r \in Requests, NEW request,
             req' = [req EXCEPT ![r] = request],
             request.kind \in AiKinds => request.phase = "loaded"
      PROVE  InFlight' \subseteq InFlight
  <2>1. req'[r] = request /\ \A q \in Requests \ {r} : req'[q] = req[q]
    BY <1>2 DEF BudgetInv, TypeInv, TypeOK
  <2> QED BY <1>2, <2>1 DEF InFlight
<1>3. ASSUME NEW r \in Requests, NEW request, Start(r, request), UNCHANGED peak,
             request.kind \in {"patch", "publish"}
      PROVE  WithinReach'
  BY <1>1, <1>2, <1>3 DEF Start, AiKinds, Results
<1>4. ASSUME NEW r \in Requests, NEW j \in JobIds, NEW p \in Patches, PatchRead(r, j, p)
      PROVE  WithinReach'
  BY <1>3, <1>4 DEF PatchRead
<1>5. ASSUME NEW r \in Requests, NEW j \in JobIds, PublishRead(r, j) PROVE WithinReach'
  BY <1>3, <1>5 DEF PublishRead
<1>6. ASSUME NEW r \in Requests, NEW kind, NEW j, Start(r, Loaded(kind, j)), UNCHANGED peak
      PROVE  WithinReach'
  <2>1. Loaded(kind, j).phase = "loaded"
    BY DEF Loaded
  <2> QED BY <1>1, <1>2, <1>6, <2>1 DEF Start
<1>7. ASSUME NEW r \in Requests, End(r), UNCHANGED spent PROVE WithinReach'
  BY <1>1, <1>2, <1>7 DEF End, NoRequest, AiKinds, Results
<1>8. ASSUME NEW r \in Requests, NEW c \in 0..MaxCost, Answer(r, c) PROVE WithinReach'
  <2>1. req[r] \in AiRequest
    BY <1>8, Typed DEF Answer, BudgetInv, TypeInv
  <2>2. \A q \in Requests \ {r} : req'[q] = req[q]
    BY <1>8 DEF Answer, BudgetInv, TypeInv, TypeOK
  <2> QED BY <1>1, <1>8, <2>1, <2>2 DEF Answer, InFlight
<1>9. ASSUME UNCHANGED req PROVE InFlight' = InFlight
  BY <1>9 DEF InFlight
<1>10. ASSUME NEW c \in 1..MaxBackground, CvUsage(c) PROVE WithinReach'
  <2>1. /\ InFlight' = InFlight /\ peak' = peak
        /\ spent' = spent + c /\ background' = background + c /\ c \in Nat
    BY <1>9, <1>10, JobsAssumption DEF CvUsage
  <2> QED BY <1>0, <2>1, BudgetQuiet
<1>11. ASSUME NEW c \in 1..spent, Expire(c) PROVE WithinReach'
  <2>1. /\ InFlight' = InFlight /\ peak' = peak
        /\ spent' = spent - c /\ background' = background /\ c \in Nat
    BY <1>0, <1>9, <1>11 DEF Expire
  <2> QED BY <1>0, <2>1, BudgetQuiet
<1>12. ASSUME NEW r \in Requests, NEW j \in JobIds,
              Delete(r, j) \/ \E row : Insert(r, j, row)
       PROVE  WithinReach'
  BY <1>1, <1>9, <1>12 DEF Delete, Insert
<1>13. CASE UNCHANGED vars
  BY <1>1, <1>9, <1>13 DEF vars
<1>14. ASSUME NEW r \in Requests, EditCommit(r) \/ Abort(r) PROVE WithinReach'
  BY <1>7, <1>14 DEF EditCommit, Abort
<1> QED
  BY <1>4, <1>5, <1>6, <1>8, <1>10, <1>11, <1>12, <1>13, <1>14, BudgetCheck, BudgetSave
     DEF Next, Create, Clone, Load, ParseStart

\* The budget of a day is passed by no more than the calls that were in flight
\* together cost, and what the CV pipeline adds.
THEOREM BudgetHoldsButForCallsInFlight == Spec => []OverspentByCallsInFlight
<1>1. Spec => []BudgetInv
  BY BudgetInit, BudgetStep, PTL DEF Spec
<1>2. BudgetInv => OverspentByCallsInFlight
  <2> SUFFICES ASSUME BudgetInv, Budget > 0
               PROVE  spent < Budget + MaxCost * peak + background
    BY DEF OverspentByCallsInFlight
  <2>1. /\ MaxCost * Cardinality(InFlight) \in Nat /\ MaxCost * peak \in Nat
        /\ spent \in Nat /\ background \in Nat /\ Budget \in Nat
    BY InFlightFinite, MoreCostsMore, JobsAssumption DEF BudgetInv, TypeInv, TypeOK
  <2> QED BY <2>1 DEF BudgetInv, WithinReach
<1> QED BY <1>1, <1>2, PTL

-----------------------------------------------------------------------------
(* What an edit overwrites.                                                *)

\* What an edit makes of the row it read differs from it in the patch's fields,
\* and has the patch's values there.
LEMMA EditedDiffers ==
  ASSUME TypeOK, NEW r \in Requests, req[r].kind \in {"patch", "publish"},
         NEW f \in Fields, Edited(r)[f] # req[r].read[f]
  PROVE  f \in DOMAIN req[r].patch /\ Edited(r)[f] = req[r].patch[f]
<1> DEFINE row == req[r].read
           p == req[r].patch
           merged == Merged(row, p)
<1>1. row \in Rows /\ p \in Patches \cup {Publish} /\ merged \in Rows
  BY Typed, MergedRow
<1>2. merged[f] # row[f] => f \in DOMAIN p /\ merged[f] = p[f]
  BY DEF Merged
<1>3. CASE Edited(r) = merged
  BY <1>2, <1>3
<1>4. CASE Edited(r) = [merged EXCEPT !["status"] = row["status"]]
  <2>1. Edited(r)[f] = IF f = "status" THEN row["status"] ELSE merged[f]
    BY <1>1, <1>4 DEF Rows
  <2> QED BY <1>2, <2>1
<1> QED BY <1>3, <1>4 DEF Edited, Accepted

LEMMA WrittenDiffers ==
  ASSUME NEW row, NEW read, NEW new, NEW f \in Fields, Written(row, read, new)[f] # row[f]
  PROVE  new[f] # read[f] /\ Written(row, read, new)[f] = new[f]
BY DEF Written

LEMMA EditStep ==
  ASSUME UsageInv, Next, NEW j \in JobIds, NEW f \in Fields,
         life[j] = "live", life'[j] = "live", jobs'[j][f] # jobs[j][f]
  PROVE  \E r \in ended' \ ended :
           /\ req[r].kind \in {"patch", "publish"} /\ req[r].job = j
           /\ f \in DOMAIN req[r].patch /\ jobs'[j][f] = req[r].patch[f]
<1>0. TypeOK /\ jobs \in [JobIds -> Rows] /\ life \in [JobIds -> {"unborn", "live", "deleted"}]
  BY DEF UsageInv, TypeInv, TypeOK
<1>1. ASSUME NEW r \in Requests, NEW k \in JobIds, NEW row, Insert(r, k, row)
      PROVE  jobs'[j] = jobs[j]
  BY <1>0, <1>1 DEF Insert
<1>2. ASSUME NEW r \in Requests, NEW k \in JobIds, Delete(r, k)
      PROVE  jobs'[j] = jobs[j]
  BY <1>0, <1>2 DEF Delete
<1>3. PICK r \in Requests : EditCommit(r)
  <2>1. jobs' # jobs
    OBVIOUS
  <2> QED
    BY <1>1, <1>2, <2>1
       DEF Next, Create, Clone, PatchRead, PublishRead, Load, ParseStart, Start,
           CheckBudget, Answer, Save, Abort, CvUsage, Expire
<1>4. req[r].kind \in {"patch", "publish"} /\ req[r].job \in JobIds /\ req[r] # NoRequest
  BY <1>0, <1>3, Typed DEF EditCommit, NoRequest
<1>5. r \in ended' \ ended
  BY <1>3, <1>4 DEF EditCommit, End, UsageInv, UsageParts, UsageOfEnded
<1>6. j = req[r].job /\ jobs'[j] = Written(jobs[j], req[r].read, Edited(r))
  BY <1>0, <1>3, <1>4 DEF EditCommit
<1>7. Edited(r)[f] # req[r].read[f] /\ jobs'[j][f] = Edited(r)[f]
  BY <1>6, WrittenDiffers
<1>8. f \in DOMAIN req[r].patch /\ jobs'[j][f] = req[r].patch[f]
  BY <1>0, <1>4, <1>7, EditedDiffers
<1> QED BY <1>4, <1>5, <1>6, <1>8

\* Requests that edit one offer at one time leave each other's columns alone,
\* for all rows and patches.
THEOREM EditsLeaveOtherColumns == Spec => EditsTouchOnlyTheirFields
<1>1. UsageInv /\ [Next]_vars =>
        [\A j \in JobIds, f \in Fields :
           /\ life[j] = "live" /\ life'[j] = "live"
           /\ jobs'[j][f] # jobs[j][f]
           => \E r \in ended' \ ended :
                /\ req[r].kind \in {"patch", "publish"} /\ req[r].job = j
                /\ f \in DOMAIN req[r].patch /\ jobs'[j][f] = req[r].patch[f]]_vars
  BY EditStep DEF vars
<1> QED BY <1>1, UsageInvariant, PTL DEF Spec, EditsTouchOnlyTheirFields

=============================================================================
