\* One job of one process: does opting out stop the calls of the LLM?
SPECIFICATION Spec
CONSTANTS
  Jobs = {j1}
  Workers = {w1}
  Content = {c1}
  NoContent = NoContent
  NoId = NoId
  NoWorker = NoWorker
  LlmEnabled = TRUE
  DiskMayFail = FALSE
  SweepMayFail = FALSE
PROPERTIES
  NoLlmCallAfterOptOut
CHECK_DEADLOCK FALSE
