CONSTANTS
  Routes = {r1, r2}
  MaxToken = 2
  LastDay = 2
  FailureLimit = 1
  Faults = {"transport", "crash", "status", "audit", "calendar"}
SPECIFICATION Spec
INVARIANTS
  OneCurrentRow
  SessionIsCurrent
  CallsOwnTheToken
  ExpiredForCause
  EndsLoudly
  RunningIsTrue
PROPERTIES
  LivesOnce
SYMMETRY MCSymmetry
