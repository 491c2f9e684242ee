SPECIFICATION Spec
CONSTANTS
  None = None
  Runners <- MCRunners
  Outputs <- MCOutputs
  Openable = {"agent_enabled"}
  ReminderWindow <- MCReminderWindow
  NoteWords = 4
  Budget = 2
  FirstRemaining = {0, 2}
  MinDeployable = 1
  MaxSnapshotAge = 0
  ClockSkew = 0
  MaxRecommendationAge = 2
  MaxGatherAge = 0
  MaxQuoteAge = 0
  PriceTolerance = 5
  MonthEnd = 1
  MaxClock = 1
  MaxDisturbances = 1
INVARIANTS TypeOK CleanExitMeansUntouched BlameHasACause CashWasReadDuringTheRun CashIsNotForged PlansAreNotSplit LedgerIsHonest AlertReachesOwner
PROPERTIES PromotedAsAnnounced PromotedWithinMeans
CHECK_DEADLOCK FALSE
