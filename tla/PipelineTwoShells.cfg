CONSTANTS
  Decisions = {d1, d2}
  Shells = {w1, w2}
  Amount <- MCAmount
  NoDecision = NoDecision
  Authorization = 3
  MaxApprovals = 2
  MaxTickets = 1
  MaxIntents = 2
  MaxRules = 0
  MaxLapses = 0
  MaxCrashes = 0
  SnapshotCarriesCash = TRUE
SPECIFICATION Spec
SYMMETRY DecisionAndShellSymmetry
INVARIANTS OrdersAreApproved RecordsHaveEvidence LedgerIsBacked
