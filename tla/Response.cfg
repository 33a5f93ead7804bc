SPECIFICATION ResponseSpec
CONSTANTS
  Statuses = {0, 511}
  BodySizes = {0, 12, 70123}
  BodySizeRange = 65536
  ValueLengths = {0, 7}
  TextRank <- MCTextRank
  NameLength <- MCNameLength
  CommonHeader <- MCCommonHeader
  StatusText <- MCStatusText
  MaxHeaders = 4
INVARIANTS
  OnceWhileOrdered
  FitsAllocation
