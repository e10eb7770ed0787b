\* Each component of the desk by itself, up to MostRequests requests.
SPECIFICATION DeskSpec
CONSTANTS
  Requests = {r1, r2, r3, r4}
  None = None
  MostRequests <- MCMostRequests
  Owners = {o1}
  Members = {m1}
  Candidates = {k1}
  Admins = {}
  PartnerLinks = {l1}
  MaxViews = {1, 2}
  Criteria = {c1, c2}
  Scores = {x1, x2}
  Applications = {p1}
  Reviewers = {v1, v2}
  Slugs = {s1, s2}
  Singles = {logo}
  Galleries = {gallery}
  Saved = {job}
  Tagged = {tag}
  Kept = {score}
  Recruiters = {u1}
  Managers = {u2}
  Times = {t1}
  Profiles = {f1, f2}
  Addresses = {d1, d2}
  Openings = {j1}
  Emails = {e1, e2}
  Phones = {n1}
  MostMatches = 1
  Firms = {g1, g2}
  Applicants = {b1, b2}
  Companies = {g1, g2}
  Controllers = {g1, g2}
  MaxNow = 1
  Stops = {0, 3, 5, 8, 11, 12, 13, 27, 30, 32}
  MaxLines = 5
  MostEntries <- MCMostEntries
SYMMETRY MCSymmetry
INVARIANTS
  OneHeirUnlessOverlapped
  DeactivationEndsSessions
  AloneOpensAreCounted
  DefaultTemplatesOverlap
  OneFeaturedUnlessOverlapped
  NamedImagesExist
  OneRowUnlessOverlapped
  OrganizerIsConsistent
  MeetingsHaveLinks
  DuplicatesAreLinked
  RulesAreSound
  ErasuresAreWhole
  FormsAreSound
  ConsentsAreSound
  LinesAreKept
PROPERTIES
  ScorecardsSpec
  SlugIsNeverReplaced
  MigrationsFit
CHECK_DEADLOCK FALSE
