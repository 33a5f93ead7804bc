SPECIFICATION Spec
CONSTANTS
  Local <- MCLocal
  Prefix <- MCPrefix
  Places <- MCPlaces
  Sizes = {1, 2}
  UIntRange = 2
  MaxChanges = 2
  MaxStarts = 2
INVARIANTS
  QuietListingExact
  StayingFilesListed
CHECK_DEADLOCK FALSE
