\* One worker, one fault, fairness.
SPECIFICATION FairSpec
CONSTANTS
  asker = asker
  helper = helper
  m1 = m1
  m2 = m2
  Agents = {asker, helper}
  Msgs = {m1, m2}
  Scheduler = Scheduler
  None = None
  Workers = {w1}
  GoalAgents = {}
  Routes <- Telling
  MaxTurnId = 2
  MaxFaults = 1
  MaxStops = 0
  MaxRetries = 0
  MaxCommands = 0
  MaxTogether = 1
PROPERTIES QueueDrains HandlingEnds
\* The bounds may leave nothing to do.
CHECK_DEADLOCK FALSE
