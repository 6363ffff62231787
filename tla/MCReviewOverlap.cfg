SPECIFICATION Spec
CONSTANTS
  c1 = c1
  c2 = c2
  r1 = r1
  r2 = r2
  NoRunner = NoRunner
  Commit = {c1}
  LastStage = 2
  PullAction = {}
  Runner = {r1, r2}
  Stalls = TRUE
  MaxTries = 2
CHECK_DEADLOCK FALSE
SYMMETRY MCSymmetry
INVARIANTS
  EvidenceAppliedOnce
  RunsKeepTheirNonce
