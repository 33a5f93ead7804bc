SPECIFICATION FairSpec
CONSTANTS
  Objects = {o1, o2}
  MaxCodes = 3
  Subjects <- MCSubjects
  Queries <- MCQueries
  QueryLength = 7
CHECK_DEADLOCK FALSE
INVARIANTS
  MatchesAreSuccessive
  QueryParsed
  PatternsOwnedOnce
  NamesOfOwnPattern
PROPERTIES
  ExecuteEnds
