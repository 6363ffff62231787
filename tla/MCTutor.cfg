SPECIFICATION PartsSpec
CONSTANTS
  h1 = h1
  a1 = a1
  r1 = r1
  NoRunner = NoRunner
  Hint = {h1}
  Appeal = {a1}
  Levels = 3
  Terminal = TRUE
  Runner = {r1}
  MaxTries = 2
  Formats = {"quiz", "written"}
  Contexts = {"caching"}
  NoContext = "none"
  Assignments = 2
  Evaluations = 3
  Findings = 2
  Base <- PlanBase
  Supported <- PlanSupported
  Blueprint <- PlanBlueprint
  Session <- PlanSession
  Mastery = {20, 70}
  Outcome = {"success", "failure"}
  MaxMade = 4
  Concepts = {"a", "b", "c"}
  Package <- StorePackage
  Request <- StoreRequest
  Matched <- StoreMatched
  NoCurriculum = "none"
  MaxGoals = 2
  MaxLoads = 3
  Tests = {"t1", "t2"}
  Invocation = {"i1", "i2"}
  Callers = 2
  Timeouts = {1, 2}
  Grace = 1
  MaxRestarts = 1
  Publisher = {"p1", "p2"}
  MaxRuns = 2
  MaxIOErrors = 2
CHECK_DEADLOCK FALSE
INVARIANTS
  PartsTypeOK
  HintsAreProgressive
  AppealDecidedOnce
  PromisedReviewIsQueued
  SuspicionIsFirstSighting
  ResolutionIsTransfer
  DifficultyIsAuthored
  EarlyAssignmentsVary
  UsedConceptsKeepTheirRows
  StoredGraphIsAcyclic
  GoalSupportIsReachable
  GoalHistoryIsLinear
  EvidenceIsJust
  SignaturesVerify
PROPERTIES
  AloneIsAnsweredInTime
