CONSTANTS
  Quantity = 2
  EventIds = {e1, e2, e3}
  MaxSequence = 2
  MaxTime = 3
  TTL = 2
SPECIFICATION Spec
SYMMETRY IdSymmetry
INVARIANTS
  TypeOK
  StateAgreesWithFills
  NewestReportWins
  CancelledPreviewIsDead
CHECK_DEADLOCK FALSE
