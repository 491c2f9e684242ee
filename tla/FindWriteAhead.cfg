CONSTANTS
  Decisions = {d1}
  Shells = {w1}
  Amount <- MCAmount
  NoDecision = NoDecision
  Authorization = 3
  MaxApprovals = 1
  MaxTickets = 1
  MaxIntents = 2
  MaxRules = 0
  MaxLapses = 0
  MaxCrashes = 1
  SnapshotCarriesCash = TRUE
SPECIFICATION Spec
INVARIANTS CrashLeavesUncertain
