SPECIFICATION Spec
CONSTANTS
  Scripts <- MCScripts
  PastTurns <- MCPastTurns
  PAGE = 1
  MountsLate = TRUE
  MaxRequests = 2
  MaxFaults = 1
INVARIANTS
  IndexIsExact
  ResolvedStaysResolved
  ArtifactOnce
  StreamEndsWithTurn
CHECK_DEADLOCK FALSE
