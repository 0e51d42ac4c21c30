\* One message in two envelopes, one noise, one reply of two parts: two faults.
SPECIFICATION Spec
CONSTANTS
  e1 = e1  e2 = e2  e3 = e3  m1 = m1  r1 = r1  h1 = h1  h2 = h2
  Events = {e1, e2, e3}
  Messages = {m1}
  MessageOf <- MCMessageOf
  Noise = {e3}
  Single = {e1}
  Replies = {r1}
  Parts <- MCParts
  Handlers = {h1, h2}
  MaxFaults = 2
INVARIANTS MarkIsRecorded SentIsWhole
PROPERTIES RecordedPartIsKept WaitingIsTakenIn MarkIsLifted
CHECK_DEADLOCK FALSE
