SPECIFICATION FairSpec
CONSTANTS
  cli = cli
  b1 = b1
  Resumer = {cli}
  Callback = {b1}
  MaxProbes = 2
  MaxStarts = 2
  MaxApps = 2
  MaxCommit = 2
  MaxFailures = 1
CHECK_DEADLOCK FALSE
INVARIANTS
  TypeOK
  ReadyMeansComplete
  ProbeStepHasEvidence
  LatestFlowIsConsistent
PROPERTIES
  EndedSessionStaysEnded
  ProbeIsDecided
