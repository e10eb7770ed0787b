-------------------------------- MODULE MCDesk --------------------------------
(* The components whose requests read, act and commit, and the parser of     *)
(* CVs, for TLC.  They share no state, so one run takes each of them by      *)
(* itself, from an initial state that chooses it: the states are a sum and   *)
(* not a product.                                                            *)
EXTENDS Sessions, PartnerAccess, Reviews, Articles, Images, Links, Organizer,
        CompanyProfile, Interviews, Submissions, AutomationRules, Retention,
        Forms, Consents, Migrations, CvTimeline, TLC

CONSTANT MostRequests   \* how many requests a component is given

VARIABLE focus   \* the component that runs

sessionState   == <<status, token, parent, cut>>
partnerState   == <<link, served>>
reviewState    == <<template, assignment, response, default>>
articleState   == <<article, by>>
imageState     == <<named, disk, remover, failed, about>>
linkState      == <<rows, gone, aboutPair>>
organizerState == <<schedule, statusBy, timesBy, task>>
profileState   == <<slug, slugBy>>
interviewState == <<interview, urlBy, stateBy, nulled>>
submissionState == <<open, application, duplicate, cutShort>>
automationState == <<mailTemplate, rule, meant, setters>>
retentionState == keptState
migrationState == <<db, broken>>
timelineState  == timelineVars

MCMostRequests ==
  [sessions |-> 4, partners |-> 4, reviews |-> 4, articles |-> 3, images |-> 4,
   links |-> 4, organizer |-> 3, profiles |-> 4,
   interviews |-> 3, submissions |-> 4,
   automation |-> 3, retention |-> 3, forms |-> 4, consents |-> 4, migrations |-> 3,
   timeline |-> 0]

MCMostEntries == [experience |-> 1, education |-> 2]

deskVars ==
  <<focus, requestVars, sessionState, partnerState, reviewState,
    articleState, imageState, linkState, organizerState, profileState,
    interviewState, submissionState, automationState, retentionState,
    formState, consentState, migrationState, timelineState>>

DeskInit ==
  /\ focus \in DOMAIN MostRequests
  /\ SessionInit /\ PartnerInit /\ ReviewInit /\ ArticleInit
  /\ ImageInit /\ LinkInit /\ OrganizerInit /\ ProfileInit
  /\ InterviewInit /\ SubmissionInit /\ AutomationInit /\ RetentionInit
  /\ FormInit /\ ConsentInit /\ MigrationInit /\ TimelineInit
  /\ focus = "retention" =>
       \/ onDisk = {} /\ \A a \in Applicants : kept[a].until = None
       \/ onDisk = Applicants /\ \A a \in Applicants : kept[a].until = MaxNow
  /\ focus # "retention" =>
       onDisk = Applicants /\ \A a \in Applicants : kept[a].until = None

SessionsOnly ==
  /\ focus = "sessions" /\ SessionNext
  /\ UNCHANGED <<partnerState, reviewState, articleState, imageState, linkState,
                 organizerState, profileState, interviewState,
                 submissionState, automationState, retentionState,
                 formState, consentState, migrationState, timelineState>>

PartnersOnly ==
  /\ focus = "partners" /\ PartnerNext
  /\ UNCHANGED <<sessionState, reviewState, articleState, imageState, linkState,
                 organizerState, profileState, interviewState,
                 submissionState, automationState, retentionState,
                 formState, consentState, migrationState, timelineState>>

ReviewsOnly ==
  /\ focus = "reviews" /\ ReviewNext
  /\ UNCHANGED <<sessionState, partnerState, articleState, imageState, linkState,
                 organizerState, profileState, interviewState,
                 submissionState, automationState, retentionState,
                 formState, consentState, migrationState, timelineState>>

ArticlesOnly ==
  /\ focus = "articles" /\ ArticleNext
  /\ UNCHANGED <<sessionState, partnerState, reviewState, imageState, linkState,
                 organizerState, profileState, interviewState,
                 submissionState, automationState, retentionState,
                 formState, consentState, migrationState, timelineState>>

ImagesOnly ==
  /\ focus = "images" /\ ImageNext
  /\ UNCHANGED <<sessionState, partnerState, reviewState, articleState, linkState,
                 organizerState, profileState, interviewState,
                 submissionState, automationState, retentionState,
                 formState, consentState, migrationState, timelineState>>

LinksOnly ==
  /\ focus = "links" /\ LinkNext
  /\ UNCHANGED <<sessionState, partnerState, reviewState, articleState, imageState,
                 organizerState, profileState, interviewState,
                 submissionState, automationState, retentionState,
                 formState, consentState, migrationState, timelineState>>

OrganizerOnly ==
  /\ focus = "organizer" /\ OrganizerNext
  /\ UNCHANGED <<sessionState, partnerState, reviewState, articleState, imageState,
                 linkState, profileState, interviewState,
                 submissionState, automationState, retentionState,
                 formState, consentState, migrationState, timelineState>>

ProfilesOnly ==
  /\ focus = "profiles" /\ ProfileNext
  /\ UNCHANGED <<sessionState, partnerState, reviewState, articleState, imageState,
                 linkState, organizerState, interviewState,
                 submissionState, automationState, retentionState,
                 formState, consentState, migrationState, timelineState>>

InterviewsOnly ==
  /\ focus = "interviews" /\ InterviewNext
  /\ UNCHANGED <<sessionState, partnerState, reviewState, articleState, imageState,
                 linkState, organizerState, profileState,
                 submissionState, automationState, retentionState,
                 formState, consentState, migrationState, timelineState>>

SubmissionsOnly ==
  /\ focus = "submissions" /\ SubmissionNext
  /\ UNCHANGED <<sessionState, partnerState, reviewState, articleState, imageState,
                 linkState, organizerState, profileState,
                 interviewState, automationState, retentionState,
                 formState, consentState, migrationState, timelineState>>

AutomationOnly ==
  /\ focus = "automation" /\ AutomationNext
  /\ UNCHANGED <<sessionState, partnerState, reviewState, articleState, imageState,
                 linkState, organizerState, profileState,
                 interviewState, submissionState, retentionState,
                 formState, consentState, migrationState, timelineState>>

RetentionOnly ==
  /\ focus = "retention" /\ RetentionNext
  /\ UNCHANGED <<sessionState, partnerState, reviewState, articleState, imageState,
                 linkState, organizerState, profileState,
                 interviewState, submissionState, automationState,
                 formState, consentState, migrationState, timelineState>>

FormsOnly ==
  /\ focus = "forms" /\ FormNext
  /\ UNCHANGED <<sessionState, partnerState, reviewState, articleState, imageState,
                 linkState, organizerState, profileState,
                 interviewState, submissionState, automationState,
                 retentionState, consentState, migrationState, timelineState>>

ConsentsOnly ==
  /\ focus = "consents" /\ ConsentNext
  /\ UNCHANGED <<sessionState, partnerState, reviewState, articleState, imageState,
                 linkState, organizerState, profileState, interviewState,
                 submissionState, automationState, retentionState,
                 formState, migrationState, timelineState>>

MigrationsOnly ==
  /\ focus = "migrations" /\ MigrationNext
  /\ UNCHANGED <<sessionState, partnerState, reviewState, articleState, imageState,
                 linkState, organizerState, profileState,
                 interviewState, submissionState, automationState,
                 retentionState, formState, consentState, timelineState>>

TimelineOnly ==
  /\ focus = "timeline" /\ TimelineNext
  /\ UNCHANGED <<requestVars, sessionState, partnerState, reviewState,
                 articleState, imageState, linkState,
                 organizerState, profileState, interviewState,
                 submissionState, automationState, retentionState,
                 formState, consentState, migrationState>>

DeskNext ==
  /\ \/ SessionsOnly \/ PartnersOnly \/ ReviewsOnly \/ ArticlesOnly
     \/ ImagesOnly \/ LinksOnly \/ OrganizerOnly \/ ProfilesOnly
     \/ InterviewsOnly \/ SubmissionsOnly \/ AutomationOnly \/ RetentionOnly
     \/ FormsOnly \/ ConsentsOnly \/ MigrationsOnly \/ TimelineOnly
  /\ UNCHANGED focus
  /\ Cardinality({r \in Requests : Begun(r)'}) <= MostRequests[focus]

DeskSpec == DeskInit /\ [][DeskNext]_deskVars

MCSymmetry == Permutations(Requests)
=============================================================================
