CONSTANTS
  s1 = s1
  s2 = s2
  c1 = c1
  c2 = c2
  Submitters = {s1, s2}
  Watchers = {s1}
  Sync = sync
  Units <- UnitsOne
  Faults = {"late"}
  MaxCrashes = 0
  ReservationIds = {c1}
  OrderIds <- MCOrderIds
  Dimensions <- MCDimensions
  Scalars <- MCDimensions
  Capacity <- CapacityThree
  MaxUnits = 2
  Rates <- OneRate
  NoReservation = NoReservation
  NoIntent = NoIntent
SPECIFICATION FairSpec
INVARIANTS
  LossIsLoud
  BookNeverBehindLedger
PROPERTIES
  PlacementEnds
  EndReachesLedger
  StrayFillStopsTrading
  SwitchDrains
