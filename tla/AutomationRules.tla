---------------------------- MODULE AutomationRules ----------------------------
(***************************************************************************)
(* The rules that mail candidates and the e-mail templates they mail, of   *)
(* several companies.  A rule names a template of its own company or none: *)
(* the template is looked up first and the rule written after, and others  *)
(* may delete either in between.  What a rule does when it fires is in     *)
(* module Pipeline.                                                        *)
(*                                                                         *)
(* Templates and rules are named after the request that creates them.      *)
(* Names, triggers and the texts of templates, which PATCH replaces as     *)
(* they are, are left out.                                                 *)
(***************************************************************************)
EXTENDS Requests

CONSTANT Firms

ASSUME FirmsAssumption == None \notin Firms

VARIABLES
  mailTemplate,  \* the e-mail templates: the company that owns one, or None
  rule,          \* rules: a row, or NoRule
  meant,         \* observer: whether a rule would be active had the requests
                 \* that set or toggle it run one after another
  setters        \* observer: those requests

automationVars == <<requestVars, mailTemplate, rule, meant, setters>>

RuleRow == [company : Firms, template : Requests \cup {None}, active : BOOLEAN]
NoRule == [company |-> None]

AutomationInit ==
  /\ RequestInit
  /\ mailTemplate = [r \in Requests |-> None]
  /\ rule = [r \in Requests |-> NoRule]
  /\ meant = [r \in Requests |-> TRUE]
  /\ setters = [r \in Requests |-> {}]

AutomationAbort(r) == End(r) /\ UNCHANGED <<mailTemplate, rule, meant, setters>>

\* Mutant: the template of a rule is looked up by its identifier alone.
EnsureTemplateExists(t, firm) == t # None => mailTemplate[t] # None

\* _ensure_template_in_company.
EnsureTemplateInCompany(t, firm) == t # None => mailTemplate[t] = firm

\* The foreign key of a rule.
TemplateThere(t) == t # None => mailTemplate[t] # None

-----------------------------------------------------------------------------
CreateMailTemplate(r, firm) ==
  /\ Once(r)
  /\ mailTemplate' = [mailTemplate EXCEPT ![r] = firm]
  /\ UNCHANGED <<rule, meant, setters>>

DeleteMailTemplateRead(r, t) ==
  /\ mailTemplate[t] # None
  /\ Begin(r, [kind |-> "delete template", template |-> t,
               rules |-> {i \in Requests : rule[i] # NoRule /\ rule[i].template = t}])
  /\ UNCHANGED <<mailTemplate, rule, meant, setters>>

\* The rules that named it are left without one, whatever they name by now, and
\* so are those that name it now; it fails if one of the first is gone.
DeleteMailTemplateCommit(r) ==
  /\ Doing(r, "delete template")
  /\ LET t == req[r].template
     IN /\ \A i \in req[r].rules : rule[i] # NoRule
        /\ mailTemplate' = [mailTemplate EXCEPT ![t] = None]
        /\ rule' = [i \in Requests |->
                      IF i \in req[r].rules \/ (rule[i] # NoRule /\ rule[i].template = t)
                      THEN [rule[i] EXCEPT !.template = None] ELSE rule[i]]
  /\ End(r)
  /\ UNCHANGED <<meant, setters>>

CreateRuleRead(r, firm, t, active) ==
  /\ EnsureTemplateInCompany(t, firm)
  /\ Begin(r, [kind |-> "create rule",
               row |-> [company |-> firm, template |-> t, active |-> active]])
  /\ UNCHANGED <<mailTemplate, rule, meant, setters>>

CreateRuleCommit(r) ==
  /\ Doing(r, "create rule")
  /\ TemplateThere(req[r].row.template)
  /\ rule' = [rule EXCEPT ![r] = req[r].row]
  /\ meant' = [meant EXCEPT ![r] = req[r].row.active]
  /\ End(r)
  /\ UNCHANGED <<mailTemplate, setters>>

\* A PATCH; templates and actives hold the value given, or nothing.
UpdateRuleRead(r, i, templates, actives) ==
  /\ rule[i] # NoRule
  /\ templates # {} \/ actives # {}
  /\ \A t \in templates : EnsureTemplateInCompany(t, rule[i].company)
  /\ Begin(r, [kind |-> "update rule", rule |-> i, was |-> rule[i], toggles |-> FALSE,
               templates |-> templates, actives |-> actives])
  /\ UNCHANGED <<mailTemplate, rule, meant, setters>>

ToggleRead(r, i) ==
  /\ rule[i] # NoRule
  /\ Begin(r, [kind |-> "update rule", rule |-> i, was |-> rule[i], toggles |-> TRUE,
               templates |-> {}, actives |-> {~rule[i].active}])
  /\ UNCHANGED <<mailTemplate, rule, meant, setters>>

\* A field is written where it differs from what was read.
Changed(given, read, now) ==
  IF given \ {read} = {} THEN now ELSE CHOOSE v \in given : TRUE

UpdateRuleCommit(r) ==
  /\ Doing(r, "update rule")
  /\ LET q == req[r]
         i == q.rule
         t == Changed(q.templates, q.was.template, rule[i].template)
     IN /\ rule[i] # NoRule
        /\ TemplateThere(t)
        /\ rule' = [rule EXCEPT
                      ![i].template = t,
                      ![i].active = Changed(q.actives, q.was.active, rule[i].active)]
        /\ meant' = [meant EXCEPT ![i] =
                       IF q.toggles THEN ~meant[i]
                       ELSE IF q.actives = {} THEN meant[i] ELSE q.actives = {TRUE}]
        /\ setters' = [setters EXCEPT ![i] =
                         IF q.actives = {} THEN setters[i] ELSE setters[i] \cup {r}]
  /\ End(r)
  /\ UNCHANGED mailTemplate

DeleteRuleRead(r, i) ==
  /\ rule[i] # NoRule
  /\ Begin(r, [kind |-> "delete rule", rule |-> i])
  /\ UNCHANGED <<mailTemplate, rule, meant, setters>>

DeleteRuleCommit(r) ==
  /\ Doing(r, "delete rule")
  /\ rule' = [rule EXCEPT ![req[r].rule] = NoRule]
  /\ End(r)
  /\ UNCHANGED <<mailTemplate, meant, setters>>

AutomationNext ==
  \/ \E r \in Requests, firm \in Firms : CreateMailTemplate(r, firm)
  \/ \E r \in Requests, t \in Requests : DeleteMailTemplateRead(r, t)
  \/ \E r \in Requests, firm \in Firms, t \in Requests \cup {None}, active \in BOOLEAN :
       CreateRuleRead(r, firm, t, active)
  \/ \E r \in Requests, i \in Requests,
        templates \in {{}} \cup {{t} : t \in Requests \cup {None}}, actives \in {{}, {TRUE}, {FALSE}} :
       UpdateRuleRead(r, i, templates, actives)
  \/ \E r \in Requests, i \in Requests : ToggleRead(r, i) \/ DeleteRuleRead(r, i)
  \/ \E r \in Requests :
       \/ DeleteMailTemplateCommit(r) \/ CreateRuleCommit(r)
       \/ UpdateRuleCommit(r) \/ DeleteRuleCommit(r) \/ AutomationAbort(r)

AutomationSpec == AutomationInit /\ [][AutomationNext]_automationVars

-----------------------------------------------------------------------------
AutomationTypeOK ==
  /\ mailTemplate \in [Requests -> Firms \cup {None}]
  /\ rule \in [Requests -> RuleRow \cup {NoRule}]
  /\ meant \in [Requests -> BOOLEAN]
  /\ setters \in [Requests -> SUBSET Requests]

\* The template a rule names is there, and of the company of the rule.
TemplatesAreOwn ==
  \A i \in Requests :
    rule[i] # NoRule /\ rule[i].template # None =>
      mailTemplate[rule[i].template] = rule[i].company

\* A rule is on or off as the requests for it said, unless two of them
\* overlapped: then the second toggle may repeat the first.
TogglesCountUnlessOverlapped ==
  \A i \in Requests :
    rule[i] # NoRule /\ (\A q, r \in setters[i] : ~Overlap(q, r)) =>
      rule[i].active = meant[i]

(* However templates and rules are created, changed and deleted at once, a *)
(* rule never names a template that is gone or is another company's, and   *)
(* it is switched as often as it was asked to be but for toggles at once.  *)
RulesAreSound == TemplatesAreOwn /\ TogglesCountUnlessOverlapped

=============================================================================
