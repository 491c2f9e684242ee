SPECIFICATION Spec
CONSTANTS
  None = None
  Years = {2025, 2026}
  ProjectOffset = 6
  ExchangeOffset = 5
  Ids <- MCIds
  ByHandIds = {h1, h2}
  ByHandUsd = {1000, 700}
  Asset <- MCAsset
  Proposals <- MCProposals
  Moments <- MCMoments
  Budgets = {2000, 1500}
  FirstBudget = 2000
  Universe <- MCUniverse
  Faults <- MCFaults
  EventFaults <- MCEventFaults
  MinEquityOrder = 100
  MinHorizon = 24
  Allow = {"crypto"}
  EquityTickers = {"SNDK", "VTI", "MU", "VOO"}
  PairSymbols = {"BTC-USD", "ETH-USD", "DOGE-USD"}
  ThemeOf <- MCThemeOf
  Mandatory <- MCMandatory
  Waivable <- MCWaivable
  MinDeployable = 100
  MaxSnapshotAge = 24
  ClockSkew = 0
  MaxInputs = 2
INVARIANTS LegsAreApprovable
CHECK_DEADLOCK FALSE
