\* Two calls after the cool-down: is only one of them let through?
SPECIFICATION Spec
CONSTANTS
  Calls = {c1, c2}
  Threshold = 1
  Window = 1
  CoolDown = 1
  Attempts = 1
  Timeout = 1
  Backoff = 0
  Closed = Closed
INVARIANTS
  OneProbe
