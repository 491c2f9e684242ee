CONSTANTS
  Decisions = {d1}
  Shells = {w1}
  Amount <- MCAmount
  NoDecision = NoDecision
  Authorization = 3
  MaxApprovals = 1
  MaxTickets = 1
  MaxIntents = 2
  MaxRules = 0
  MaxLapses = 0
  MaxCrashes = 0
  SnapshotCarriesCash = TRUE
SPECIFICATION FairSpec
PROPERTIES FilledIsCommitted
