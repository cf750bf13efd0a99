CONSTANTS
  Manifests = {m1}
  RiskActors = {ann}
  OpsActors = {ann, bob}
  Intents = {i1}
  Days = {today}
  Notionals <- MCNotionals
  MaxOrderNotional = 2
  MaxDailyOrders = 2
  MaxDailyNotional = 3
  Faults = {}
SPECIFICATION Spec
INVARIANT ReleasedOnlyToTrade
CHECK_DEADLOCK FALSE
