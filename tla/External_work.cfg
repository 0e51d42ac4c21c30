\* One item with its reply, one operation, two workers: two faults, two commands, three of both.
SPECIFICATION Spec
CONSTANTS
  Items = {1}
  Sends = {}
  Reads = {r}
  Workers = {w1, w2}
  ProviderDedupes = TRUE
  MaxFaults = 2
  MaxCommands = 2
  MaxTogether = 3
INVARIANTS OneCommandInFlight HandledReplyWasSent AwaitingHasReply FinishedByItsAttempt
SYMMETRY WorkerSymmetry
