\* Three concurrent calls, three failures to open, three attempts per call (as
\* in the settings: one call and two retries).
SPECIFICATION Spec
CONSTANTS
  Calls = {c1, c2, c3}
  Threshold = 3
  Window = 2
  CoolDown = 3
  Attempts = 3
  Timeout = 2
  Backoff = 1
  Closed = Closed
INVARIANTS
  ClosedMeansFewFailures
PROPERTIES
  OpensOnlyOnBurst
  LateFailuresDoNotProlong
  RetriesUseUpTheTime
  EveryCallReturns
