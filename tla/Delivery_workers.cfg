\* Two workers, commands, steering; the asker's Goal reserves its Thread.
SPECIFICATION Spec
CONSTANTS
  asker = asker
  helper = helper
  m1 = m1
  m2 = m2
  Agents = {asker, helper}
  Msgs = {m1, m2}
  Scheduler = Scheduler
  None = None
  Workers = {w1, w2}
  GoalAgents = {asker}
  Routes <- Asking
  MaxTurnId = 2
  MaxFaults = 0
  MaxStops = 0
  MaxRetries = 0
  MaxCommands = 1
  MaxTogether = 1
SYMMETRY Symmetry
INVARIANTS DeliveringIsOwned SteerIsCausal
\* The bounds may leave nothing to do.
CHECK_DEADLOCK FALSE
