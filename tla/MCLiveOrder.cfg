CONSTANTS
  s1 = s1
  s2 = s2
  c1 = c1
  c2 = c2
  Submitters = {s1, s2}
  Watchers = {}
  Sync = sync
  Units <- UnitsBoth
  Faults = {"crash", "audit"}
  MaxCrashes = 1
  ReservationIds = {c1, c2}
  OrderIds <- MCOrderIds
  Dimensions <- MCDimensions
  Scalars <- MCDimensions
  Capacity <- CapacityThree
  MaxUnits = 2
  Rates <- TwoRates
  NoReservation = NoReservation
  NoIntent = NoIntent
SYMMETRY Symmetry
SPECIFICATION Spec
INVARIANTS
  Covered
  OneOrderPerIntent
