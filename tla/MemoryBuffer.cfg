SPECIFICATION Spec
CONSTANTS
  PageSize = 3
  Sizes <- MCSizes
  MaxBytes = 12
CHECK_DEADLOCK FALSE
INVARIANTS
  StoredIsUnread
  UndefinedOnlyWhenEmpty
  PoolIsTight
PROPERTIES
  ImplementsByteQueue
