CONSTANTS
  Quantity = 3
  Prices <- MCPrices
  Budget = 6
  ConfirmAttempts = 2
  MaxChildren = 3
  Faults = {"down", "lost"}
SPECIFICATION FairSpec
INVARIANTS
  NeverOverfills
  ReportIsExact
  WithinEnvelope
PROPERTIES
  EndsWhenTold
  QuietAfterClose
  ImplementsParent
