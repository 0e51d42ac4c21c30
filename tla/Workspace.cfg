SPECIFICATION Spec
CONSTANTS
  Things = {x, y}
  Nodes = {"home", "file"}
  Home = "home"
  Files = {"file"}
  View = 2
  Attachments = {f}
  MaxAttachments = 1
  MaxChanges <- MCChanges
  MaxUnanswered <- MCUnanswered
  MaxActs <- MCActs
  MaxFaults = 1
SYMMETRY MCSymmetry
INVARIANTS
  SettledIsRead
  ShownIsAskedFor
  DraftIsKept
  NoLostUpdate
  BusyIsAsked
PROPERTIES
  HeardReaderStays
  TypedIsKept
CHECK_DEADLOCK FALSE
