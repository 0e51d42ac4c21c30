\* One worker; a fault, a graceful restart, a retry.
SPECIFICATION Spec
CONSTANTS
  asker = asker
  helper = helper
  m1 = m1
  m2 = m2
  Agents = {asker, helper}
  Msgs = {m1, m2}
  Scheduler = Scheduler
  None = None
  Workers = {w1}
  GoalAgents = {}
  Routes <- Asking
  MaxTurnId = 2
  MaxFaults = 1
  MaxStops = 1
  MaxRetries = 1
  MaxCommands = 0
  MaxTogether = 2
SYMMETRY Symmetry
INVARIANT AnsweredByReply
PROPERTIES ImplementsLedger NoAutomaticRedelivery
\* The bounds may leave nothing to do.
CHECK_DEADLOCK FALSE
