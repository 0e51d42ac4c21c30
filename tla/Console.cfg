SPECIFICATION Spec
CONSTANTS
  Initial <- MCInitial
  Spare <- MCSpare
  Views = {"team"}
  Sessions <- MCSessions
  HubKinds = {"result"}
  MaxEvents = 2
  MaxActs = 2
  MaxFaults = 1
INVARIANTS
  CurrentIsOpen
PROPERTIES
  TabAppearsInFront
  MarkStaysUntilSeen
CHECK_DEADLOCK FALSE
