SPECIFICATION RetryingSpec
CONSTANTS
  NoCommand = NoCommand
  NoJob = NoJob
  NoWorker = NoWorker
  c1 = c1
  c2 = c2
  seen = seen
  other = other
  Commands = {c1, c2}
  TargetOf <- Targets
  PriorityOf <- Priorities
  Callers = {q1, q2}
  Jobs = {j1, j2}
  Workers = {w1, w2}
  MaxSnapshot = 2
  Fingerprint <- Changed
  MaxAttempts = 2
  LedgerStatuses <- ServiceStatuses
  MaxFaults = 1
INVARIANTS
  OneActiveJobPerTarget
  JobsAreAccounted
  NoTwoBuilders
PROPERTIES
  SuccessWasFresh
  EventuallySettledOrOrphaned
  
CHECK_DEADLOCK FALSE
