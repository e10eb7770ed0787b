\* Five requests to two companies about two addresses, in any order and overlap.
SPECIFICATION Spec
CONSTANTS
  Companies = {c1, c2}
  Emails = {e1, e2}
  Requests = {r1, r2, r3, r4, r5}
  None = None
SYMMETRY MCSymmetry
INVARIANT
  OneActiveUnlessRacedOrRevived
PROPERTY
  InvitationBookSpec
CHECK_DEADLOCK FALSE
