SPECIFICATION FairSpec
CONSTANTS
  push = push
  ci = ci
  ping = ping
  appeal = appeal
  w1 = w1
  w2 = w2
  NoWorker = NoWorker
  NoKey = NoKey
  Actionable = {push}
  Ignorable = {}
  Internal = {appeal}
  Worker = {w1, w2}
  MaxAttempts = 2
  Lease = 1
  Beat = 1
  Priority <- MCPriority
  RetryDelay <- MCRetryDelay
PROPERTIES
  FiledJobSettles
