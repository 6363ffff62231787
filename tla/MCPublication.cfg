SPECIFICATION FairSpec
CONSTANTS
  c1 = c1
  x = x
  base = base
  r1 = r1
  NoRunner = NoRunner
  NoSha = NoSha
  Caller = {c1}
  Commit = {x}
  Base = base
  Kits = 2
  MaxFailures = 2
  Runner = {r1}
  MaxTries = 1
CHECK_DEADLOCK FALSE
INVARIANTS
  TypeOK
  OnePullPerAssignment
  BranchCarriesStoredManifest
  HandledPushIsRecorded
PROPERTIES
  PublicationSettles
