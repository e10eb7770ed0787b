\* Three requests to one company about one address.
SPECIFICATION Spec
CONSTANTS
  Companies = {c1}
  Emails = {e1}
  Requests = {r1, r2, r3}
  None = None
SYMMETRY MCSymmetry
INVARIANT
  OneActiveInvitation
CHECK_DEADLOCK FALSE
