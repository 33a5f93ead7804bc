SPECIFICATION Spec
CONSTANTS
  Handlers <- MCHandlers
  Pipelines <- MCPipelines
  NotFounds <- MCNotFounds
  Urls = {"file", "short"}
  ShortUrls = {"short"}
  FileSizes = {1, 11}
  NotFoundSize = 5
  ErrorSize = 4
  JunkStatuses = {0, 500}
  UIntRange = 8
CHECK_DEADLOCK FALSE
INVARIANTS
  LengthTrue
  LostOnlyIfReplaced
  NotFoundMeansNoAnswer
  NoStatusNeedsSilence
  NotModifiedIsEmpty
  DiesOnlyOfForeign
