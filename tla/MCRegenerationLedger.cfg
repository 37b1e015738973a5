SPECIFICATION RetryingSpec
CONSTANTS
  NoCommand = NoCommand
  NoJob = NoJob
  NoWorker = NoWorker
  c1 = c1
  c2 = c2
  seen = seen
  other = other
  Commands = {c1}
  TargetOf <- Targets
  PriorityOf <- Priorities
  Callers = {q1}
  Jobs = {j1}
  Workers = {w1}
  MaxSnapshot = 1
  Fingerprint <- Changed
  MaxAttempts = 2
  LedgerStatuses <- MigratedStatuses
  MaxFaults = 0
PROPERTIES QueuedJobsArePersisted
CHECK_DEADLOCK FALSE
