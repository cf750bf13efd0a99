CONSTANTS
  s1 = s1
  s2 = s2
  c1 = c1
  c2 = c2
  Submitters = {s1, s2}
  Watchers = {s1}
  Sync = sync
  Units <- UnitsBoth
  Faults = {}
  MaxCrashes = 0
  ReservationIds = {c1, c2}
  OrderIds <- MCOrderIds
  Dimensions <- MCDimensions
  Scalars <- MCDimensions
  Capacity <- CapacityTwo
  MaxUnits = 2
  Rates <- OneRate
  NoReservation = NoReservation
  NoIntent = NoIntent
SPECIFICATION Spec
INVARIANT ExposureWithinCapacity
