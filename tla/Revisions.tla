------------------------------- MODULE Revisions -------------------------------
(***************************************************************************)
(* The revisions of the database (alembic/versions), oldest first.  Each   *)
(* is the operations its upgrade runs and, apart from them, the operations *)
(* its downgrade runs.                                                     *)
(*                                                                         *)
(* A database is its tables and facts about its rows.  A table is a set of *)
(* items: its columns (of those typed JSON, the type too), its UNIQUE and  *)
(* CHECK constraints, and the few marks that a revision changes (a column  *)
(* that may be NULL, an index that another revision expects).  Keys, dates *)
(* of creation, foreign keys, and indexes that only make queries faster    *)
(* are left out.  A fact <<table, column, value>> says that some row of    *)
(* the table holds the value; what a dropped column held is gone.          *)
(***************************************************************************)
EXTENDS Naturals, Sequences, SequencesExt

Create(tables)      == [op |-> "create", tables |-> tables]
DropTables(names)   == [op |-> "drop tables", names |-> names]
Add(items)          == [op |-> "add", items |-> items]
Drop(items)         == [op |-> "drop", items |-> items]
\* DROP ... IF EXISTS, and marks that may be there already.
DropIfThere(items)  == [op |-> "drop if there", items |-> items]
Loosen(items)       == [op |-> "loosen", items |-> items]
Rename(table, pairs) ==
  [op |-> "rename", columns |-> {<<table, pair[1], pair[2]>> : pair \in pairs}]
\* ALTER COLUMN ... TYPE, of the columns of several tables.
Retype(columns, from, to) ==
  [op |-> "rename",
   columns |-> UNION {{<<t, c \o from, c \o to>> : c \in columns[t]} : t \in DOMAIN columns}]
\* UPDATE or INSERT ... SELECT: what one column holds, where the other is blank.
Copy(from, to, pairs) ==
  [op |-> "copy", columns |-> {<<from, pair[1], to, pair[2]>> : pair \in pairs}]
Recode(table, column, from, to) ==
  [op |-> "recode", table |-> table, column |-> column, from |-> from, to |-> to]
Forget(table, column, value) ==
  [op |-> "forget", fact |-> <<table, column, value>>]
\* What a constraint asks of the rows that are there when it is created.
Holds(table, column, values) ==
  [op |-> "holds", table |-> table, column |-> column, values |-> values]
NotNull(table, known, column) ==
  [op |-> "not null", table |-> table, known |-> known, column |-> column]

Fails(d) == [d EXCEPT !.ok = FALSE]

Without(rows, items) ==
  {f \in rows : f[1] \in DOMAIN items => f[2] \notin items[f[1]]}

Has(d, items) ==
  /\ DOMAIN items \subseteq DOMAIN d.tables
  /\ \A t \in DOMAIN items : items[t] \subseteq d.tables[t]

Plus(tables, items) ==
  [t \in DOMAIN tables |-> IF t \in DOMAIN items THEN tables[t] \cup items[t] ELSE tables[t]]

Minus(tables, items) ==
  [t \in DOMAIN tables |-> IF t \in DOMAIN items THEN tables[t] \ items[t] ELSE tables[t]]

\* The columns of a copy or a renaming that start in table t.
Olds(columns, t) == {c[2] : c \in {x \in columns : x[1] = t}}
News(columns, t) == {c[3] : c \in {x \in columns : x[1] = t}}

Renamed(rows, columns) ==
  LET Moves(c, f) == c[1] = f[1] /\ c[2] = f[2]
  IN {f \in rows : ~ \E c \in columns : Moves(c, f)}
     \cup {<<x[2][1], x[1][3], x[2][3]>> : x \in {y \in columns \X rows : Moves(y[1], y[2])}}

Copied(rows, columns) ==
  LET Fills(c, f) ==
        /\ c[1] = f[1] /\ c[2] = f[2]
        /\ ~ \E h \in rows : h[1] = c[3] /\ h[2] = c[4]
  IN {<<x[1][3], x[1][4], x[2][3]>> : x \in {y \in columns \X rows : Fills(y[1], y[2])}}

\* What an operation makes of a database, or that it fails.
Apply(d, o) ==
  CASE ~d.ok -> d
    [] o.op = "create" ->
         IF DOMAIN o.tables \cap DOMAIN d.tables # {} THEN Fails(d)
         ELSE [d EXCEPT !.tables = o.tables @@ @]
    [] o.op = "drop tables" ->
         IF ~(o.names \subseteq DOMAIN d.tables) THEN Fails(d)
         ELSE [d EXCEPT !.tables = [t \in DOMAIN @ \ o.names |-> @[t]],
                        !.rows = {f \in @ : f[1] \notin o.names}]
    [] o.op = "add" ->
         IF \/ ~(DOMAIN o.items \subseteq DOMAIN d.tables)
            \/ \E t \in DOMAIN o.items : o.items[t] \cap d.tables[t] # {} THEN Fails(d)
         ELSE [d EXCEPT !.tables = Plus(@, o.items)]
    [] o.op = "drop" ->
         IF ~Has(d, o.items) THEN Fails(d)
         ELSE [d EXCEPT !.tables = Minus(@, o.items), !.rows = Without(@, o.items)]
    [] o.op = "drop if there" -> [d EXCEPT !.tables = Minus(@, o.items)]
    [] o.op = "loosen" -> [d EXCEPT !.tables = Plus(@, o.items)]
    [] o.op = "rename" ->
         IF ~Has(d, [t \in {c[1] : c \in o.columns} |-> Olds(o.columns, t)]) THEN Fails(d)
         ELSE [d EXCEPT
                 !.tables = [t \in DOMAIN @ |->
                               (@[t] \ Olds(o.columns, t)) \cup News(o.columns, t)],
                 !.rows = Renamed(@, o.columns)]
    [] o.op = "copy" -> [d EXCEPT !.rows = @ \cup Copied(@, o.columns)]
    [] o.op = "recode" ->
         [d EXCEPT !.rows = {IF f = <<o.table, o.column, o.from>>
                             THEN <<o.table, o.column, o.to>> ELSE f : f \in @}]
    [] o.op = "forget" -> [d EXCEPT !.rows = @ \ {o.fact}]
    [] o.op = "holds" ->
         IF \A f \in d.rows : f[1] = o.table /\ f[2] = o.column => f[3] \in o.values
         THEN d ELSE Fails(d)
    [] o.op = "not null" ->
         IF \E f \in d.rows :
              /\ f[1] = o.table /\ f[2] = o.known
              /\ ~ \E g \in d.rows : g[1] = o.table /\ g[2] = o.column
         THEN Fails(d) ELSE d

RunOperations(d, operations) == FoldLeft(Apply, d, operations)

-----------------------------------------------------------------------------
\* 1737d3e08d9e: the tables of companies, people, jobs and applications,
InitialTables ==
  [companies |-> {"name"},
   pipeline_stages |-> {"name", "order_index"},
   form_templates |-> {"company_id", "name"},
   jobs |-> {"company_id", "title", "description", "department", "location",
      "status"},
   tags |-> {"company_id", "name"},
   users |-> {"company_id", "email", "password_hash", "role", "is_verified",
      "UNIQUE email"},
   applications |-> {"job_id", "first_name", "last_name", "email", "phone",
      "cv_url", "stage_id", "public_token", "UNIQUE public_token",
      "INDEX email"}]

\* and what hangs on them.
InitialDetails ==
  [audit_logs |-> {"company_id", "user_id", "action", "entity_type",
      "entity_id", "metadata json"},
   form_fields |-> {"template_id", "label", "field_type", "required",
      "options json", "validation json", "order_index"},
   job_form_templates |-> {"job_id", "template_id"},
   refresh_tokens |-> {"user_id", "token_hash", "expires_at text", "revoked",
      "UNIQUE token_hash"},
   application_answers |-> {"application_id", "field_id", "value json"},
   application_stage_history |-> {"application_id", "stage_id", "changed_at",
      "changed_by"},
   application_tags |-> {"application_id", "tag_id"},
   candidate_scores |-> {"application_id", "recruiter_id", "communication",
      "technical", "culture_fit"},
   notes |-> {"application_id", "author_id", "content",
      "visible_to_candidate"}]

Initial ==
  [up |-> <<Create(InitialTables), Create(InitialDetails)>>,
   down |-> <<
      Drop([applications |-> {"INDEX email"}]),
      DropTables({"notes", "candidate_scores", "application_tags",
                  "application_stage_history", "application_answers",
                  "refresh_tokens", "job_form_templates", "form_fields",
                  "audit_logs", "applications", "users", "tags", "jobs",
                  "form_templates", "pipeline_stages", "companies"})>>]

\* 68bf88cadf2b, fix_refresh_token_expires_at: nothing in it.
FixRefreshToken == [up |-> <<>>, down |-> <<>>]

\* a5caf866de80, v2.
V2Tables ==
  [consents |-> {"company_id", "name", "content", "language", "required",
      "is_active"},
   email_templates |-> {"company_id", "name", "type", "subject", "body",
      "language", "variables json"},
   automation_rules |-> {"company_id", "name", "trigger_type",
      "trigger_value", "template_id", "is_active"},
   application_consents |-> {"application_id", "consent_id", "accepted",
      "accepted_at"},
   application_events |-> {"application_id", "company_id", "event_type",
      "event_value", "metadata json"},
   interviews |-> {"application_id", "recruiter_id", "scheduled_at",
      "duration_minutes", "meeting_url", "notes", "status"},
   tasks |-> {"company_id", "application_id", "assigned_to", "created_by",
      "title", "description", "type", "due_date", "completed", "completed_at"}]

\* And the columns beside them.
V2 ==
  [up |-> <<
      Create(V2Tables),
      Add([applications |-> {"source", "language", "data_retention_until"},
           users |-> {"language"}])>>,
   down |-> <<
      Drop([users |-> {"language"},
            applications |-> {"data_retention_until", "language", "source"}]),
      DropTables({"tasks", "interviews", "application_events",
                  "application_consents", "automation_rules",
                  "email_templates", "consents"})>>]

\* c1d2e3f4a5b6: the applications there are get their normalised e-mail before
\* it may not be NULL.
DuplicateCandidateSupport ==
  [up |-> <<
      Add([applications |-> {"normalized_email", "normalized_phone"}]),
      Copy("applications", "applications", {<<"email", "normalized_email">>,
                                            <<"phone", "normalized_phone">>}),
      NotNull("applications", "email", "normalized_email"),
      Create([application_duplicate_links |-> {"source_application_id",
                 "duplicate_application_id", "match_reasons json"}])>>,
   down |-> <<
      DropTables({"application_duplicate_links"}),
      Drop([applications |-> {"normalized_phone", "normalized_email"}])>>]

\* d4e5f6a7b8c9.
ReviewsScorecards ==
  [up |-> <<
      Create([scorecard_templates |-> {"company_id", "name", "description",
                 "is_active"},
              scorecard_criteria |-> {"template_id", "label", "description",
                 "order_index", "max_score"},
              review_assignments |-> {"application_id", "reviewer_id",
                 "assigned_by", "template_id", "status", "due_at",
                 "submitted_at", "overall_comment", "recommendation",
                 "UNIQUE application_id reviewer_id"},
              review_responses |-> {"assignment_id", "criterion_id", "score",
                 "comment", "UNIQUE assignment_id criterion_id"}])>>,
   down |-> <<
      DropTables({"review_responses", "review_assignments",
                  "scorecard_criteria", "scorecard_templates"})>>]

\* e7f8a9b0c1d2.
JobOfferQuality ==
  [up |-> <<
      Add([jobs |-> {"role_summary", "role_purpose", "responsibilities json",
              "must_haves json", "nice_to_haves json", "tech_stack json",
              "domain_context", "seniority", "experience_min_years",
              "experience_max_years", "work_mode", "remote_constraints",
              "success_profile", "team_context", "reporting_to",
              "value_proposition", "benefits json", "hiring_process json",
              "salary_min", "salary_max", "salary_currency", "salary_period",
              "contract_type"}])>>,
   down |-> <<
      Drop([jobs |-> {"contract_type", "salary_period", "salary_currency",
               "salary_max", "salary_min", "hiring_process json",
               "benefits json", "value_proposition", "reporting_to",
               "team_context", "success_profile", "remote_constraints",
               "work_mode", "experience_max_years", "experience_min_years",
               "seniority", "domain_context", "tech_stack json",
               "nice_to_haves json", "must_haves json",
               "responsibilities json", "role_purpose", "role_summary"}])>>]

\* f1a2b3c4d5e6.
CvParsingProfiles ==
  [up |-> <<
      Create([cv_parse_jobs |-> {"application_id", "cv_url", "status",
                 "error_message", "raw_text", "raw_result json",
                 "normalized_result json", "parser_version", "started_at",
                 "completed_at"},
              candidate_profiles |-> {"application_id", "headline", "summary",
                 "skills json", "experience json", "education json",
                 "parsing_status", "parsing_error", "last_parsed_at",
                 "UNIQUE application_id"}])>>,
   down |-> <<
      DropTables({"candidate_profiles", "cv_parse_jobs"})>>]

\* a1b2c3d4e5f6.
LlmEnrichment ==
  [up |-> <<
      Add([candidate_profiles |-> {"parser_version", "personal_summary",
              "executive_summary", "location", "linkedin_url", "github_url",
              "technical_skills jsonb", "soft_skills json", "languages jsonb",
              "certifications json", "hobbies json", "volunteering json",
              "total_experience_years", "seniority_estimate",
              "strengths json", "red_flags json", "personality_signals json",
              "culture_fit_notes"},
           cv_parse_jobs |-> {"llm_model", "token_usage json"}]),
      Create([candidate_job_matches |-> {"application_id",
                 "candidate_profile_id", "job_id", "match_score", "fit_score",
                 "reasoning", "strengths_match json", "gaps json",
                 "recommendation", "llm_model", "token_usage json"},
              api_usage_logs |-> {"company_id", "operation", "llm_model",
                 "input_tokens", "output_tokens", "cost_usd"}])>>,
   down |-> <<
      DropTables({"api_usage_logs", "candidate_job_matches"}),
      Drop([cv_parse_jobs |-> {"token_usage json", "llm_model"},
            candidate_profiles |-> {"culture_fit_notes",
               "personality_signals json", "red_flags json", "strengths json",
               "seniority_estimate", "total_experience_years",
               "volunteering json", "hobbies json", "certifications json",
               "languages jsonb", "soft_skills json",
               "technical_skills jsonb", "github_url", "linkedin_url",
               "location", "executive_summary", "personal_summary",
               "parser_version"}])>>]

\* b2c3d4e5f6a7: six lists of an offer become HTML, column by column; the way
\* back empties them.
HtmlFields ==
  {"responsibilities", "must_haves", "nice_to_haves", "tech_stack", "benefits", "hiring_process"}

JobsHtmlFields ==
  LET html == {c \o "_html" : c \in HtmlFields}
      lists == {c \o " json" : c \in HtmlFields}
      newLists == {c \o "_json json" : c \in HtmlFields}
  IN [up |-> <<Add([jobs |-> html]),
               Copy("jobs", "jobs", {<<c \o " json", c \o "_html">> : c \in HtmlFields}),
               Drop([jobs |-> lists]),
               Rename("jobs", {<<c \o "_html", c>> : c \in HtmlFields})>>,
      down |-> <<Add([jobs |-> newLists]),
                 Drop([jobs |-> HtmlFields]),
                 Rename("jobs", {<<c \o "_json json", c \o " json">> : c \in HtmlFields})>>]

\* c3d4e5f6a7b8.
CvParseJobLanguage ==
  [up |-> <<
      Add([cv_parse_jobs |-> {"language"}])>>,
   down |-> <<
      Drop([cv_parse_jobs |-> {"language"}])>>]

\* a2b3c4d5e6f7.
JobAnalysisPersist ==
  [up |-> <<
      Add([jobs |-> {"analysis_score", "analysis_market_position",
              "analysis_summary", "analysis_strengths json",
              "analysis_improvements json", "analysis_candidate_impact",
              "analysis_urgency_message", "analysis_at"}])>>,
   down |-> <<
      Drop([jobs |-> {"analysis_at", "analysis_urgency_message",
               "analysis_candidate_impact", "analysis_improvements json",
               "analysis_strengths json", "analysis_summary",
               "analysis_market_position", "analysis_score"}])>>]

AnalysisColumns ==
  {<<"analysis_score", "score">>,
   <<"analysis_market_position", "market_position">>,
   <<"analysis_summary", "summary">>,
   <<"analysis_strengths json", "strengths json">>,
   <<"analysis_improvements json", "improvements json">>,
   <<"analysis_candidate_impact", "candidate_impact">>,
   <<"analysis_urgency_message", "urgency_message">>,
   <<"analysis_at", "analyzed_at">>}

\* b3c4d5e6f7a8: the analysis of an offer moves to a table of its own.
JobRiskAssessment ==
  [up |-> <<
      Create([job_analyses |-> {"job_id", "UNIQUE job_id", "score",
                 "market_position", "summary", "strengths json",
                 "improvements json", "candidate_impact", "urgency_message",
                 "analyzed_at"}]),
      Copy("jobs", "job_analyses", AnalysisColumns),
      Create([job_risk_assessments |-> {"job_id", "UNIQUE job_id", "score",
                 "level", "factors json", "recommendations json",
                 "assessed_at"},
              risk_items |-> {"job_id", "description", "severity", "order"},
              mitigation_actions |-> {"job_id", "description", "order"}]),
      Add([jobs |-> {"role_scope", "role_deliverables"}]),
      Drop([jobs |-> {pair[1] : pair \in AnalysisColumns}])>>,
   down |-> <<
      Add([jobs |-> {pair[1] : pair \in AnalysisColumns}]),
      Copy("job_analyses", "jobs", {<<pair[2], pair[1]>> : pair \in AnalysisColumns}),
      Drop([jobs |-> {"role_scope", "role_deliverables"}]),
      DropTables({"mitigation_actions", "risk_items", "job_risk_assessments",
                  "job_analyses"})>>]

\* c4d5e6f7a8b9: the matcher's verdicts are renamed.
MatchRecommendationRename ==
  [up |-> <<Recode("candidate_job_matches", "recommendation", "hire", "top_candidate"),
            Recode("candidate_job_matches", "recommendation", "reject", "not_a_match")>>,
   down |-> <<Recode("candidate_job_matches", "recommendation", "top_candidate", "hire"),
              Recode("candidate_job_matches", "recommendation", "not_a_match", "reject")>>]

\* Mutant: the summary is not filled.
DropJobDescriptionBare ==
  [up |-> <<Drop([jobs |-> {"description"}])>>,
   down |-> <<Add([jobs |-> {"description"}]),
              Copy("jobs", "jobs", {<<"role_summary", "description">>})>>]

\* d5e6f7a8b9c0: the description of an offer goes, as its summary where that
\* is blank.
DropJobDescription ==
  [up |-> <<Copy("jobs", "jobs", {<<"description", "role_summary">>}),
            Drop([jobs |-> {"description"}])>>,
   down |-> <<Add([jobs |-> {"description"}]),
              Copy("jobs", "jobs", {<<"role_summary", "description">>})>>]

\* e6f7a8b9c0d1.
JobsSuggestUsedAt ==
  [up |-> <<
      Add([jobs |-> {"suggest_used_at"}])>>,
   down |-> <<
      Drop([jobs |-> {"suggest_used_at"}])>>]

\* f2a3b4c5d6e7.
TeamManagement ==
  [up |-> <<
      Add([users |-> {"is_active"}]),
      Create([user_invitations |-> {"company_id", "email", "role",
                 "token_hash", "invited_by", "expires_at", "accepted_at",
                 "accepted_user_id", "revoked_at", "UNIQUE token_hash"}])>>,
   down |-> <<
      Drop([user_invitations |-> {"UNIQUE token_hash"}]),
      DropTables({"user_invitations"}),
      Drop([users |-> {"is_active"}])>>]

\* a3b4c5d6e7f8.
OrganizerAndAvatars ==
  [up |-> <<
      Create([work_schedules |-> {"company_id", "user_id", "date",
                 "start_time", "end_time", "status", "note", "manager_note",
                 "updated_by", "UNIQUE user_id date"}]),
      Add([users |-> {"avatar_key"}])>>,
   down |-> <<
      DropTables({"work_schedules"}),
      Drop([users |-> {"avatar_key"}])>>]

\* b4c5d6e7f8a9.
JobsClassification ==
  [up |-> <<
      Add([jobs |-> {"category", "shift_system", "employment_size",
              "required_qualifications jsonb"}])>>,
   down |-> <<
      Drop([jobs |-> {"required_qualifications jsonb", "employment_size",
               "shift_system", "category"}])>>]

\* c5d6e7f8a9b0.
JobsSlug ==
  [up |-> <<
      Add([jobs |-> {"slug", "UNIQUE company_id slug"}])>>,
   down |-> <<
      Drop([jobs |-> {"UNIQUE company_id slug"}]),
      Drop([jobs |-> {"slug"}])>>]

\* d6e7f8a9b0c1.
CandidatesAndJobboard ==
  [up |-> <<
      Add([companies |-> {"is_verified"}]),
      Create([candidates |-> {"email", "UNIQUE email", "password_hash",
                 "full_name", "avatar_key", "phone", "location", "headline",
                 "language", "is_active", "is_verified"},
              candidate_refresh_tokens |-> {"candidate_id", "token_hash",
                 "UNIQUE token_hash", "expires_at", "revoked"},
              saved_jobs |-> {"candidate_id", "job_id",
                 "UNIQUE candidate_id job_id"},
              saved_searches |-> {"candidate_id", "name", "query jsonb",
                 "notify_email"},
              search_logs |-> {"candidate_id", "query_text", "category",
                 "location"}])>>,
   down |-> <<
      DropTables({"search_logs", "saved_searches", "saved_jobs",
                  "candidate_refresh_tokens", "candidates"}),
      Drop([companies |-> {"is_verified"}])>>]

\* f3a4b5c6d7e8.
CompaniesPublicProfile ==
  [up |-> <<
      Add([companies |-> {"slug", "UNIQUE slug", "logo_url", "banner_url",
              "tagline", "description", "industry", "employee_count",
              "hq_location", "founded_year", "website", "remote_percentage",
              "tech_stack jsonb", "how_we_work jsonb", "benefits jsonb",
              "recruitment_process jsonb", "timeline jsonb", "faq jsonb",
              "gallery jsonb"}]),
      Create([saved_companies |-> {"candidate_id", "company_id",
                 "UNIQUE candidate_id company_id"}])>>,
   down |-> <<
      DropTables({"saved_companies"}),
      Drop([companies |-> {"gallery jsonb", "faq jsonb", "timeline jsonb",
               "recruitment_process jsonb", "benefits jsonb",
               "how_we_work jsonb", "tech_stack jsonb", "remote_percentage",
               "website", "founded_year", "hq_location", "employee_count",
               "industry", "description", "tagline", "banner_url", "logo_url",
               "UNIQUE slug", "slug"}])>>]

\* f4a5b6c7d8e9.
ArticlesAndNewsletter ==
  [up |-> <<
      Create([articles |-> {"slug", "title", "excerpt", "content",
                 "cover_image_url", "category", "is_featured", "is_published",
                 "author_name", "author_role", "author_avatar_url",
                 "read_time_minutes", "published_at", "UNIQUE slug"},
              newsletter_subscribers |-> {"email", "source", "subscribed_at",
                 "unsubscribed_at", "UNIQUE email"}])>>,
   down |-> <<
      DropTables({"newsletter_subscribers", "articles"})>>]

\* f5a6b7c8d9e0.
AdminAccounts ==
  [up |-> <<
      Create([admins |-> {"email", "UNIQUE email", "password_hash",
                 "full_name", "is_active", "last_login_at"},
              admin_refresh_tokens |-> {"admin_id", "token_hash",
                 "UNIQUE token_hash", "expires_at", "revoked"}])>>,
   down |-> <<
      DropTables({"admin_refresh_tokens", "admins"})>>]

\* f6a7b8c9d0e1.
ArticlesTypeAndCompany ==
  [up |-> <<
      Add([articles |-> {"type", "company_id", "author_email"}])>>,
   down |-> <<
      Drop([articles |-> {"author_email", "company_id", "type"}])>>]

\* f7a8b9c0d1e2.
ArticlesPromotion ==
  [up |-> <<
      Add([articles |-> {"is_promoted", "promoted_until"}])>>,
   down |-> <<
      Drop([articles |-> {"promoted_until", "is_promoted"}])>>]

\* f8a9b0c1d2e3.
LlmAuditHardening ==
  [up |-> <<
      Add([applications |-> {"ai_profiling_consented_at"},
           candidate_job_matches |-> {"match_key", "UNIQUE match_key"},
           candidate_profiles |-> {"evidence_quotes jsonb"},
           api_usage_logs |-> {"prompt_name", "prompt_version",
              "correlation_id"}])>>,
   down |-> <<
      Drop([api_usage_logs |-> {"correlation_id", "prompt_version",
               "prompt_name"},
            candidate_profiles |-> {"evidence_quotes jsonb"},
            candidate_job_matches |-> {"match_key", "UNIQUE match_key"},
            applications |-> {"ai_profiling_consented_at"}])>>]

\* c9d0e1f2a3b4.
AuditAiEthics ==
  [up |-> <<
      Add([api_usage_logs |-> {"application_id", "anthropic_request_id"},
           candidate_job_matches |-> {"match_status"}])>>,
   down |-> <<
      Drop([candidate_job_matches |-> {"match_status"},
            api_usage_logs |-> {"anthropic_request_id", "application_id"}])>>]

\* d0e1f2a3b4c5: columns of JSON become JSONB ...
JsonColumns ==
  [candidate_profiles |-> {"soft_skills", "certifications", "hobbies", "volunteering",
                           "strengths", "red_flags", "personality_signals"},
   audit_logs |-> {"metadata"},
   job_analyses |-> {"strengths", "improvements"},
   job_risk_assessments |-> {"factors", "recommendations"}]

\* ... what the columns may hold becomes the database's business ...
CheckConstraints ==
  [users |-> {"CHECK role"},
   jobs |-> {"CHECK status"},
   candidate_scores |-> {"CHECK communication", "CHECK technical", "CHECK culture_fit"},
   review_assignments |-> {"CHECK status"},
   job_risk_assessments |-> {"CHECK level"},
   candidate_job_matches |-> {"CHECK recommendation", "CHECK match_status"}]

\* ... a reviewer who leaves is forgotten rather than taking the review along,
\* and the index of e-mail addresses goes.  On the way back the reviewer may
\* still be NULL.
DbPerformanceHardening ==
  [up |-> <<Retype(JsonColumns, " json", " jsonb"),
            Loosen([review_assignments |-> {"reviewer_id null"}]),
            Holds("candidate_job_matches", "recommendation",
                  {"top_candidate", "consider", "not_a_match"}),
            Add(CheckConstraints),
            DropIfThere([applications |-> {"INDEX email"}])>>,
   down |-> <<DropIfThere(CheckConstraints),
              Retype(JsonColumns, " jsonb", " json"),
              Loosen([applications |-> {"INDEX email"}])>>]

\* e1f2a3b4c5d6: indexes for speed only.
FkIndexCoverage == [up |-> <<>>, down |-> <<>>]

\* a4b5c6d7e8f9.
PartnerAccessTokens ==
  [up |-> <<
      Create([partner_access_tokens |-> {"label", "token", "UNIQUE token",
                 "note", "is_active", "expires_at", "max_views", "view_count",
                 "last_viewed_at"}])>>,
   down |-> <<
      DropTables({"partner_access_tokens"})>>]

\* c6d7e8f9a0b1: a recruiter scores an application once; second scores of the
\* time when nothing said so are deleted first.
CandidateScoresUnique ==
  [up |-> <<Forget("candidate_scores", "recruiter_id", "again"),
            Holds("candidate_scores", "recruiter_id", {"once"}),
            Add([candidate_scores |-> {"UNIQUE application_id recruiter_id"}])>>,
   down |-> <<Drop([candidate_scores |-> {"UNIQUE application_id recruiter_id"}])>>]

\* d7e8f9a0b1c2.
PartnerTokenDeck ==
  [up |-> <<
      Add([partner_access_tokens |-> {"deck"}])>>,
   down |-> <<
      Drop([partner_access_tokens |-> {"deck"}])>>]

-----------------------------------------------------------------------------
Revision ==
  <<Initial, FixRefreshToken, V2, DuplicateCandidateSupport, ReviewsScorecards,
    JobOfferQuality, CvParsingProfiles, LlmEnrichment, JobsHtmlFields,
    CvParseJobLanguage, JobAnalysisPersist, JobRiskAssessment,
    MatchRecommendationRename, DropJobDescription, JobsSuggestUsedAt,
    TeamManagement, OrganizerAndAvatars, JobsClassification, JobsSlug,
    CandidatesAndJobboard, CompaniesPublicProfile, ArticlesAndNewsletter,
    AdminAccounts, ArticlesTypeAndCompany, ArticlesPromotion, LlmAuditHardening,
    AuditAiEthics, DbPerformanceHardening, FkIndexCoverage,
    PartnerAccessTokens, CandidateScoresUnique, PartnerTokenDeck>>

Newest == Len(Revision)

\* The set of one element has TLC evaluate a database before the next
\* revision, and not all of them inside each other.
RunRevision(d, operations) ==
  CHOOSE e \in {RunOperations(x, operations) : x \in {d}} : TRUE

\* From one revision to another, through all between them.
Walk(d, from, to) ==
  IF from <= to
  THEN FoldLeft(LAMBDA e, k : RunRevision(e, Revision[k].up), d,
                [i \in 1..(to - from) |-> from + i])
  ELSE FoldLeft(LAMBDA e, k : RunRevision(e, Revision[k].down), d,
                [i \in 1..(from - to) |-> from - i + 1])

=============================================================================
