CONSTANTS
  Decisions = {d1}
  Shells = {w1}
  Amount <- MCAmount
  NoDecision = NoDecision
  Authorization = 3
  MaxApprovals = 2
  MaxTickets = 2
  MaxIntents = 2
  MaxRules = 1
  MaxLapses = 1
  MaxCrashes = 1
  SnapshotCarriesCash = TRUE
SPECIFICATION FairSpec
INVARIANTS TicketUsedOnce OrdersAreApproved
PROPERTIES HandoffIsCurrent ImplementsLifecycle UncertainSettles AuthorizedIsTicketed
