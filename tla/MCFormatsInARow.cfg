SPECIFICATION PlanSpec
CONSTANTS
  Base <- PlanBase
  Supported <- PlanSupported
  Blueprint <- PlanBlueprint
  Session <- PlanSession
  Mastery = {20, 70}
  Outcome = {"success", "failure"}
  MaxMade = 5
CHECK_DEADLOCK FALSE
INVARIANTS
  NoThirdFormatInARow
