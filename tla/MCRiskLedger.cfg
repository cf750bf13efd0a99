CONSTANTS
  r1 = r1
  r2 = r2
  o1 = o1
  o2 = o2
  ReservationIds <- MCReservationIds
  OrderIds <- MCOrderIds
  Dimensions <- MCDimensions
  Scalars <- MCScalars
  Capacity <- MCCapacity
  Rates <- MCRates
  Bases <- MCBases
  MaxUnits = 2
  NoReservation = NoReservation
  NoIntent = NoIntent
SPECIFICATION Spec
SYMMETRY Symmetry
INVARIANTS
  TypeOK
  ActiveWithinCapacity
  RemainingIsUnfilledShare
PROPERTIES
  ClosedForGood
  OrdersMoveForward
  ImplementsPool
