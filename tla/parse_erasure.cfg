\* One process and three jobs, with the LLM: metering, matching and erasure.
SPECIFICATION Spec
CONSTANTS
  Jobs = {j1, j2, j3}
  Workers = {w1}
  Content = {c1}
  NoContent = NoContent
  NoId = NoId
  NoWorker = NoWorker
  LlmEnabled = TRUE
  DiskMayFail = FALSE
  SweepMayFail = TRUE
SYMMETRY JobContentSymmetry
INVARIANTS
  CleanRunIsMetered
  AnonymizedHoldsNoCvData
  ErrorOnlyIfFailed
CHECK_DEADLOCK FALSE
