CONSTANTS
  Manifests = {m1}
  RiskActors = {ann}
  OpsActors = {ann, bob}
  Intents = {i1, i2}
  Days = {today}
  Notionals <- MCNotionals
  MaxOrderNotional = 2
  MaxDailyOrders = 2
  MaxDailyNotional = 3
  Faults = {"write", "late", "unlisted", "crash"}
SPECIFICATION FairSpec
INVARIANTS
  DailyLimits
  TwoPeopleAgreed
  OneCycleUntilProven
  OnlyBoundTrades
  FailedStartIsRolledBack
PROPERTIES
  RunningIsProven
  StoppedForGood
  ActivationEnds
  StopEndsThread
CHECK_DEADLOCK FALSE
