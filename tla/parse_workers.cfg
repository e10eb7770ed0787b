\* Two overlapping processes, with the LLM switched off: what the pollers of a
\* job's status may rely on.
SPECIFICATION Spec
CONSTANTS
  Jobs = {j1, j2}
  Workers = {w1, w2}
  Content = {c1}
  NoContent = NoContent
  NoId = NoId
  NoWorker = NoWorker
  LlmEnabled = FALSE
  DiskMayFail = TRUE
  SweepMayFail = FALSE
INVARIANTS
  ProfileBackedByJob
  TextOnlyWhileUnfinished
  UnsettledJobsAreRun
PROPERTIES
  ParseLifecycleSpec
  InterruptedJobIsFailed
CHECK_DEADLOCK FALSE
