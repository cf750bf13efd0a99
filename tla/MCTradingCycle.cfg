CONSTANTS
  Callers = {session, gui}
  Session = session
  Values <- MCValues
  LossNum = 2
  LossDen = 100
  LastDay = 2
  Faults = {"capture", "halt"}
  Targets <- MCTargets
  Largest = 2
  Start = 1
  MaxOrders = 2
  MaxUnknown = 1
SPECIFICATION Spec
INVARIANTS
  OneBaselinePerDay
  PassedWithinLimit
  NeverBeyondTargets
PROPERTIES
  OrdersCompleteTheTarget
CHECK_DEADLOCK FALSE
