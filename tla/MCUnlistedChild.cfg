CONSTANTS
  Quantity = 3
  Prices <- MCPrices
  Budget = 6
  ConfirmAttempts = 2
  MaxChildren = 3
  Faults = {"unlisted"}
SPECIFICATION Spec
INVARIANT NeverOverfills
