\* Three requests of any kind, one offer at the start and one more.
SPECIFICATION Spec
CONSTANTS
  Requests = {r1, r2, r3}
  JobIds = {j1, j2}
  InitialJobs = {j1}
  Offers <- MCOffers
  Patches <- MCPatches
  Budget = 2
  MaxCost = 2
  MaxBackground = 1
  None = None
SYMMETRY MCSymmetry
INVARIANTS
  OpenIsReady
  SuggestedOnceUnlessOverlapping
  OverspentByCallsInFlight
  ResultAndUsageTogether
PROPERTIES
  EditsTouchOnlyTheirFields
CHECK_DEADLOCK FALSE
