\* One item, one worker, one fault, one command, fairness.
SPECIFICATION FairSpec
CONSTANTS
  Items = {1}
  Sends = {}
  Reads = {r}
  Workers = {w1}
  ProviderDedupes = TRUE
  MaxFaults = 1
  MaxCommands = 1
  MaxTogether = 2
PROPERTIES HandlingEnds QueueMoves CommandsEnd
