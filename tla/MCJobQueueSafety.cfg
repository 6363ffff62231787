SPECIFICATION Spec
CONSTANTS
  push = push
  ci = ci
  ping = ping
  appeal = appeal
  w1 = w1
  w2 = w2
  NoWorker = NoWorker
  NoKey = NoKey
  Actionable = {push}
  Ignorable = {ping}
  Internal = {appeal}
  Worker = {w1, w2}
  MaxAttempts = 2
  Lease = 2
  Beat = 1
  Priority <- MCPriority
  RetryDelay <- MCRetryDelay
SYMMETRY MCSymmetry
INVARIANTS
  TypeOK
  TimelyHolderKeepsLease
  EventTellsOutcome
PROPERTIES
  SettledForever
  LeaseEndsByHolderOrExpiry
  ImplementsLedger
  ImplementsExecutions
