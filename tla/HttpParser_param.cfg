SPECIFICATION Spec
CONSTANTS
  Names = {"n"}
  Fields = {"h"}
  MaxRequests = 2
  MaxBody = 0
  CanReset = FALSE
CHECK_DEADLOCK FALSE
INVARIANT ParamIsOwn
