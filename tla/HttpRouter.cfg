SPECIFICATION Spec
CONSTANTS
  Patterns <- MCPatterns
  Urls <- MCUrls
  MaxSegments = 2
  MaxRoutes = 3
  DefaultRoute = FALSE
INVARIANTS
  RoutesBest
  TreeSound
