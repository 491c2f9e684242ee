CONSTANTS
  Decisions = {d1, d2}
  Shells = {w1}
  Amount <- MCAmount
  NoDecision = NoDecision
  Authorization = 3
  MaxApprovals = 2
  MaxTickets = 2
  MaxIntents = 2
  MaxRules = 0
  MaxLapses = 0
  MaxCrashes = 1
  SnapshotCarriesCash = TRUE
SPECIFICATION Spec
SYMMETRY DecisionSymmetry
INVARIANTS TypeOK OrdersAreApproved RecordsHaveEvidence LedgerIsBacked TicketUsedOnce ApprovalHasRecord
PROPERTIES DiskFollowsStateMachine HandoffIsCurrent LedgerFollowsRecords ImplementsLifecycle
