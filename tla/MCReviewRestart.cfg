SPECIFICATION FairSpec
CONSTANTS
  c1 = c1
  c2 = c2
  r1 = r1
  r2 = r2
  NoRunner = NoRunner
  Commit = {c1}
  LastStage = 2
  PullAction = {"edited"}
  Runner = {r1}
  Stalls = FALSE
  MaxTries = 2
CHECK_DEADLOCK FALSE
INVARIANTS
  TypeOK
  SeenOnce
PROPERTIES
  AttemptIsReviewed
