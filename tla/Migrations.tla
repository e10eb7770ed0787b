------------------------------ MODULE Migrations ------------------------------
(***************************************************************************)
(* The commands that migrate the database: `alembic upgrade' when a        *)
(* container starts (Dockerfile) and `alembic downgrade' (README).  One    *)
(* reads the revision of the database, walks to its target in one          *)
(* transaction and moves the row of the revision from what it read          *)
(* (alembic/env.py); of two that start together the second fails.          *)
(*                                                                         *)
(* Between commands the program of the revision runs and writes rows.  The *)
(* tables, the revisions and what the models declare are in Revisions and  *)
(* OrmTables.  Commands stop at the revisions Stops, and the rows are of   *)
(* one kind at a time, both to bound the runs.                             *)
(***************************************************************************)
EXTENDS Requests, Naturals

CONSTANT Stops   \* the revisions that commands lead to

Alembic == INSTANCE Revisions
Orm == INSTANCE OrmTables

ASSUME StopsAssumption == Stops \subseteq 0..Alembic!Newest

VARIABLES
  db,      \* [rev, tables, rows]
  broken   \* observer: an operation of some revision has failed

migrationVars == <<requestVars, db, broken>>

Newest == Alembic!Newest

Walked(from, to) ==
  Alembic!Walk([ok |-> TRUE, tables |-> db.tables, rows |-> db.rows], from, to)

MigrationInit ==
  /\ RequestInit
  /\ db = [rev |-> 0, tables |-> <<>>, rows |-> {}]
  /\ broken = FALSE

\* `alembic upgrade' or `downgrade': what there is to do is what was read.
CommandRead(r, target) ==
  /\ target # db.rev
  /\ Begin(r, [kind |-> "command", from |-> db.rev, to |-> target])
  /\ UNCHANGED <<db, broken>>

CommandCommit(r) ==
  /\ Doing(r, "command")
  /\ LET done == Walked(req[r].from, req[r].to)
     IN IF db.rev # req[r].from THEN UNCHANGED <<db, broken>>
        ELSE IF ~done.ok THEN broken' = TRUE /\ UNCHANGED db
        ELSE /\ db' = [rev |-> req[r].to, tables |-> done.tables, rows |-> done.rows]
             /\ UNCHANGED broken
  /\ End(r)

\* The process ends first: the transaction is rolled back.
CommandAbort(r) == Doing(r, "command") /\ End(r) /\ UNCHANGED <<db, broken>>

-----------------------------------------------------------------------------
(* What the program of a revision writes. *)

Verdict(rev) == IF rev >= 13 THEN "top_candidate" ELSE "hire"

\* An offer has a description, from revision 6 a summary too or instead, of its
\* own words; from revision 14 only a summary.
OfferRows ==
  LET described == <<"jobs", "description", "text">>
      summarised == <<"jobs", "role_summary", "summary">>
  IN IF db.rev >= 14 THEN {{<<"jobs", "role_summary", "text">>}}
     ELSE {{described}} \cup
          (IF db.rev >= 6 THEN {{summarised}, {described, summarised}} ELSE {})

ListRows ==
  CASE db.rev >= 9 -> {{<<"jobs", "must_haves", "list">>}}
    [] db.rev \in 6..8 -> {{<<"jobs", "must_haves json", "list">>}}
    [] OTHER -> {}

AnalysisRows ==
  CASE db.rev >= 12 -> {{<<"job_analyses", "score", "analysis">>}}
    [] db.rev = 11 -> {{<<"jobs", "analysis_score", "analysis">>}}
    [] OTHER -> {}

MatchRows ==
  IF db.rev >= 8 THEN {{<<"candidate_job_matches", "recommendation", Verdict(db.rev)>>}} ELSE {}

\* Until revision 31 nothing keeps two requests from both scoring first.
ScoreRows ==
  {{<<"candidate_scores", "recruiter_id", "once">>}} \cup
  (IF db.rev < 31
   THEN {{<<"candidate_scores", "recruiter_id", "once">>,
          <<"candidate_scores", "recruiter_id", "again">>}} ELSE {})

PersonRows ==
  {{<<"applications", "email", "person">>} \cup
   (IF db.rev >= 4 THEN {<<"applications", "normalized_email", "person">>} ELSE {})}

Use ==
  /\ db.rev > 0 /\ db.rows = {}
  /\ \E written \in OfferRows \cup ListRows \cup AnalysisRows \cup MatchRows
                      \cup ScoreRows \cup PersonRows :
       db' = [db EXCEPT !.rows = written]
  /\ UNCHANGED <<requestVars, broken>>

MigrationNext ==
  \/ \E r \in Requests, target \in Stops : CommandRead(r, target)
  \/ \E r \in Requests : CommandCommit(r) \/ CommandAbort(r)
  \/ Use

MigrationSpec == MigrationInit /\ [][MigrationNext]_migrationVars

-----------------------------------------------------------------------------
(* What may differ from the models at the newest revision: three unique    *)
(* indexes that only the migrations know, and the type of the date at      *)
(* which a refresh token expires.  A database that was downgraded differs  *)
(* in nothing else.                                                        *)

OnlyMigrated ==
  [jobs |-> {"UNIQUE company_id slug"}, companies |-> {"UNIQUE slug"},
   candidate_job_matches |-> {"UNIQUE match_key"}, refresh_tokens |-> {"expires_at text"}]

AsDeclared(d) ==
  d.rev = Newest =>
    d.tables = Alembic!Plus([Orm!Declared EXCEPT !["refresh_tokens"] = @ \ {"expires_at"}],
                            OnlyMigrated)

Values(d) == {f[3] : f \in d.rows}

\* The revision that first has a place for a value; lists that were made HTML
\* are not made lists again.
Since(value) ==
  CASE value \in {"text", "person", "once"} -> 1
    [] value = "list" -> IF db.rev < 9 THEN 6 ELSE 9
    [] value = "summary" -> 6
    [] value = "analysis" -> 11
    [] OTHER -> 8

\* A verdict is kept under the name the program of the revision reads.
Survives(value) ==
  (IF value \in {"hire", "top_candidate"} THEN Verdict(db'.rev) ELSE value) \in Values(db')

\* The description beside a summary of its own: revision 14 keeps the summary.
Superseded(value) ==
  value = "text" /\ "summary" \in Values(db) /\ db.rev < 14 /\ db'.rev >= 14

\* A second score may be forgotten and a description that a summary supersedes,
\* and nothing else may.
RowsSurvive ==
  \A value \in Values(db) \ {"again"} :
    db'.rev >= Since(value) /\ ~Superseded(value) => Survives(value)

\* Offers are read as they were written: where the program of a revision looks.
OffersAreRead(d) ==
  LET Column(value) ==
        IF value = "summary" \/ d.rev >= 14 THEN "role_summary" ELSE "description"
  IN \A value \in {"text", "summary"} \cap Values(d) :
       d.rev >= Since(value) => <<"jobs", Column(value), value>> \in d.rows

(* Whatever commands have run before, up and down, together and cut short, *)
(* no operation of a revision fails on the tables or the rows it finds;    *)
(* the newest revision has the tables the models declare; and what the     *)
(* program of one revision wrote, the program of the next one finds in     *)
(* its place, down to the revision that made the place: all but a second   *)
(* score of one recruiter, and a description that stands beside a summary  *)
(* when revision 14 takes its column.                                      *)
MigrationsFit ==
  [][/\ ~broken'
     /\ AsDeclared(db')
     /\ RowsSurvive
     /\ OffersAreRead(db')]_migrationVars

=============================================================================
