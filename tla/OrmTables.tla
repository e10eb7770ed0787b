------------------------------- MODULE OrmTables -------------------------------
(***************************************************************************)
(* The tables as the models of the program declare them, one definition    *)
(* for each file of models (or part of a long one), with the items of a    *)
(* table named as in module Revisions.                                     *)
(***************************************************************************)
EXTENDS TLC

UserTables ==
  [users |-> {"company_id", "email", "password_hash", "role", "is_verified",
      "is_active", "language", "avatar_key", "UNIQUE email", "CHECK role"},
   refresh_tokens |-> {"user_id", "token_hash", "expires_at", "revoked",
      "UNIQUE token_hash"},
   user_invitations |-> {"company_id", "email", "role", "token_hash",
      "invited_by", "expires_at", "accepted_at", "accepted_user_id",
      "revoked_at", "UNIQUE token_hash"}]

CompanyTables ==
  [companies |-> {"name", "is_verified", "slug", "logo_url", "banner_url",
      "tagline", "description", "industry", "employee_count", "hq_location",
      "founded_year", "website", "remote_percentage", "tech_stack jsonb",
      "how_we_work jsonb", "benefits jsonb", "recruitment_process jsonb",
      "timeline jsonb", "faq jsonb", "gallery jsonb"}]

JobTables ==
  [jobs |-> {"company_id", "title", "slug", "department", "location",
      "status", "category", "shift_system", "employment_size",
      "required_qualifications jsonb", "role_summary", "role_purpose",
      "role_scope", "role_deliverables", "responsibilities", "must_haves",
      "nice_to_haves", "tech_stack", "domain_context", "seniority",
      "experience_min_years", "experience_max_years", "work_mode",
      "remote_constraints", "contract_type", "salary_min", "salary_max",
      "salary_currency", "salary_period", "success_profile", "team_context",
      "reporting_to", "value_proposition", "benefits", "hiring_process",
      "suggest_used_at", "CHECK status"},
   job_form_templates |-> {"job_id", "template_id"},
   risk_items |-> {"job_id", "description", "severity", "order"},
   mitigation_actions |-> {"job_id", "description", "order"}]

AnalysisTables ==
  [job_analyses |-> {"job_id", "score", "market_position", "summary",
      "strengths jsonb", "improvements jsonb", "candidate_impact",
      "urgency_message", "analyzed_at", "UNIQUE job_id"},
   job_risk_assessments |-> {"job_id", "score", "level", "factors jsonb",
      "recommendations jsonb", "assessed_at", "UNIQUE job_id", "CHECK level"}]

ApplicationTables ==
  [applications |-> {"job_id", "first_name", "last_name", "email",
      "normalized_email", "phone", "normalized_phone", "cv_url", "stage_id",
      "public_token", "source", "language", "data_retention_until",
      "ai_profiling_consented_at", "UNIQUE public_token"},
   application_answers |-> {"application_id", "field_id", "value json"}]

ScoreTables ==
  [candidate_scores |-> {"application_id", "recruiter_id", "communication",
      "technical", "culture_fit", "UNIQUE application_id recruiter_id",
      "CHECK communication", "CHECK technical", "CHECK culture_fit"},
   application_duplicate_links |-> {"source_application_id",
      "duplicate_application_id", "match_reasons json"}]

ParseTables ==
  [cv_parse_jobs |-> {"application_id", "cv_url", "status", "error_message",
      "raw_text", "raw_result json", "normalized_result json",
      "parser_version", "started_at", "completed_at", "llm_model",
      "token_usage json", "language"},
   candidate_profiles |-> {"application_id", "headline", "summary",
      "skills json", "experience json", "education json", "parsing_status",
      "parsing_error", "last_parsed_at", "parser_version", "personal_summary",
      "executive_summary", "location", "linkedin_url", "github_url",
      "technical_skills jsonb", "soft_skills jsonb", "languages jsonb",
      "certifications jsonb", "hobbies jsonb", "volunteering jsonb",
      "total_experience_years", "seniority_estimate", "strengths jsonb",
      "red_flags jsonb", "personality_signals jsonb", "evidence_quotes jsonb",
      "culture_fit_notes", "UNIQUE application_id"}]

MatchTables ==
  [candidate_job_matches |-> {"application_id", "candidate_profile_id",
      "job_id", "match_score", "fit_score", "reasoning",
      "strengths_match json", "gaps json", "recommendation", "llm_model",
      "token_usage json", "match_key", "match_status", "CHECK recommendation",
      "CHECK match_status"},
   api_usage_logs |-> {"company_id", "operation", "llm_model", "input_tokens",
      "output_tokens", "cost_usd", "prompt_name", "prompt_version",
      "correlation_id", "application_id", "anthropic_request_id"}]

PipelineTables ==
  [pipeline_stages |-> {"name", "order_index"},
   application_stage_history |-> {"application_id", "stage_id", "changed_at",
      "changed_by"}]

FormTables ==
  [form_templates |-> {"company_id", "name"},
   form_fields |-> {"template_id", "label", "field_type", "required",
      "options json", "validation json", "order_index"}]

NoteTables ==
  [notes |-> {"application_id", "author_id", "content",
      "visible_to_candidate"}]

TagTables ==
  [tags |-> {"company_id", "name"},
   application_tags |-> {"application_id", "tag_id"}]

AuditTables ==
  [audit_logs |-> {"company_id", "user_id", "action", "entity_type",
      "entity_id", "metadata jsonb"}]

EventTables ==
  [application_events |-> {"application_id", "company_id", "event_type",
      "event_value", "metadata json"}]

ConsentTables ==
  [consents |-> {"company_id", "name", "content", "language", "required",
      "is_active"},
   application_consents |-> {"application_id", "consent_id", "accepted",
      "accepted_at"}]

EmailTables ==
  [email_templates |-> {"company_id", "name", "type", "subject", "body",
      "language", "variables json"}]

AutomationTables ==
  [automation_rules |-> {"company_id", "name", "trigger_type",
      "trigger_value", "template_id", "is_active"}]

InterviewTables ==
  [interviews |-> {"application_id", "recruiter_id", "scheduled_at",
      "duration_minutes", "meeting_url", "notes", "status"}]

TaskTables ==
  [tasks |-> {"company_id", "application_id", "assigned_to", "created_by",
      "title", "description", "type", "due_date", "completed", "completed_at"}]

OrganizerTables ==
  [work_schedules |-> {"company_id", "user_id", "date", "start_time",
      "end_time", "status", "note", "manager_note", "updated_by",
      "UNIQUE user_id date"}]

ReviewTables ==
  [scorecard_templates |-> {"company_id", "name", "description", "is_active"},
   scorecard_criteria |-> {"template_id", "label", "description",
      "order_index", "max_score"},
   review_assignments |-> {"application_id", "reviewer_id",
      "reviewer_id null", "assigned_by", "template_id", "status", "due_at",
      "submitted_at", "overall_comment", "recommendation",
      "UNIQUE application_id reviewer_id", "CHECK status"},
   review_responses |-> {"assignment_id", "criterion_id", "score", "comment",
      "UNIQUE assignment_id criterion_id"}]

CandidateTables ==
  [candidates |-> {"email", "password_hash", "full_name", "avatar_key",
      "phone", "location", "headline", "language", "is_active", "is_verified",
      "UNIQUE email"},
   candidate_refresh_tokens |-> {"candidate_id", "token_hash", "expires_at",
      "revoked", "UNIQUE token_hash"},
   saved_jobs |-> {"candidate_id", "job_id", "UNIQUE candidate_id job_id"},
   saved_companies |-> {"candidate_id", "company_id",
      "UNIQUE candidate_id company_id"},
   saved_searches |-> {"candidate_id", "name", "query jsonb", "notify_email"},
   search_logs |-> {"candidate_id", "query_text", "category", "location"}]

ArticleTables ==
  [articles |-> {"slug", "title", "excerpt", "content", "cover_image_url",
      "category", "is_featured", "is_published", "is_promoted",
      "promoted_until", "type", "company_id", "author_name", "author_role",
      "author_avatar_url", "author_email", "read_time_minutes",
      "published_at", "UNIQUE slug"},
   newsletter_subscribers |-> {"email", "source", "subscribed_at",
      "unsubscribed_at", "UNIQUE email"}]

AdminTables ==
  [admins |-> {"email", "password_hash", "full_name", "is_active",
      "last_login_at", "UNIQUE email"},
   admin_refresh_tokens |-> {"admin_id", "token_hash", "expires_at",
      "revoked", "UNIQUE token_hash"}]

PartnerTables ==
  [partner_access_tokens |-> {"label", "deck", "token", "note", "is_active",
      "expires_at", "max_views", "view_count", "last_viewed_at",
      "UNIQUE token"}]

Declared ==
  UserTables @@ CompanyTables @@ JobTables @@ AnalysisTables @@
  ApplicationTables @@ ScoreTables @@ ParseTables @@ MatchTables @@
  PipelineTables @@ FormTables @@ NoteTables @@ TagTables @@ AuditTables
  @@ EventTables @@ ConsentTables @@ EmailTables @@ AutomationTables @@
  InterviewTables @@ TaskTables @@ OrganizerTables @@ ReviewTables @@
  CandidateTables @@ ArticleTables @@ AdminTables @@ PartnerTables

=============================================================================
