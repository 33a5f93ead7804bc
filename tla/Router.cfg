SPECIFICATION Spec
CONSTANTS
  Methods = {"GET", "POST"}
  Paths <- MCPaths
  Urls <- MCUrls
  URLPrefixes <- MCURLPrefixes
  ParamName <- MCParamName
  MatchCode <- MCMatchCode
  MaxRoutes = 3
CHECK_DEADLOCK FALSE
INVARIANTS
  RoutedSoundly
  RoutedByPrecedence
  ParamsOfTheRoute
PROPERTY RoutableStays
