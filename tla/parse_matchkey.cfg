\* Two runs of one application: is the matcher called once for a key?
SPECIFICATION Spec
CONSTANTS
  Jobs = {j1, j2}
  Workers = {w1}
  Content = {c1}
  NoContent = NoContent
  NoId = NoId
  NoWorker = NoWorker
  LlmEnabled = TRUE
  DiskMayFail = FALSE
  SweepMayFail = FALSE
PROPERTIES
  KeyIsPaidOnce
CHECK_DEADLOCK FALSE
