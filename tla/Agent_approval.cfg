SPECIFICATION Spec
CONSTANTS
  Scripts <- MCScripts
  PastTurns <- MCPastTurns
  PAGE = 1
  MountsLate = TRUE
  MaxRequests = 2
  MaxFaults = 0
INVARIANTS
  ApprovalIsShown
CHECK_DEADLOCK FALSE
