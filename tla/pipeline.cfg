\* Two requests that overlap over one application and three stages: single moves,
\* bulk moves that name the application twice, deletions of stages.
SPECIFICATION Spec
CONSTANTS
  Applications = {a1}
  Stages = {s1, s2, s3}
  NoStage = NoStage
  Requests = {r1, r2}
  Batches <- MCBatches
  MaxRules = 1
SYMMETRY MCSymmetry
INVARIANT
  MailsTellCommittedMoves
PROPERTY
  StageJournalSpec
CHECK_DEADLOCK FALSE
