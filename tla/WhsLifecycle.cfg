SPECIFICATION Spec
SYMMETRY MCSymmetry
CONSTANTS
  b1 = b1
  b2 = b2
  Builders <- MCBuilders
  Raw = TRUE
  MaxMade = 5
  MaxGiven = 2
CHECK_DEADLOCK FALSE
INVARIANTS
  DeletedOnce
  CompleteOnceStarted
  NothingLeft
