\* One schedule and one trigger in one process: two faults, three commands, four of both.
SPECIFICATION FairSpec
CONSTANTS
  MaxTime = 3
  MaxFaults = 2
  MaxCommands = 3
  MaxTogether = 4
  Schedules = {s1}
  CronTimes = {2, 3}
  Triggers = {t1}
  Events = {merged, moved}
  NoEvent = NoEvent
INVARIANTS OccurrencesInOrder RecordedRunWasSent OneMessagePerTrigger
PROPERTIES NoneDueForever OnlyWaitingTriggersResume FactIsNoticed
\* The bounds may leave nothing to do.
CHECK_DEADLOCK FALSE
