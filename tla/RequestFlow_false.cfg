SPECIFICATION Spec
CONSTANTS
  Handlers <- MCReadmeHandlers
  Pipelines <- MCPlainPipelines
  NotFounds <- MCNotFounds
  Urls = {"file", "short"}
  ShortUrls = {"short"}
  FileSizes = {1, 3}
  NotFoundSize = 5
  ErrorSize = 4
  JunkStatuses = {0, 500}
  UIntRange = 8
CHECK_DEADLOCK FALSE
INVARIANT FalseStops
