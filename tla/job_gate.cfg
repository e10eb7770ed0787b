\* The gate that validators.py describes, with two edits of one draft.
SPECIFICATION Spec
CONSTANTS
  Requests = {r1, r2}
  JobIds = {j1}
  InitialJobs = {j1}
  Offers <- MCOffers
  Patches <- MCPatches
  Budget = 2
  MaxCost = 2
  MaxBackground = 1
  None = None
PROPERTY OnlyReadyOffersOpen
CHECK_DEADLOCK FALSE
