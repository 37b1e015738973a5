SPECIFICATION FairSpec
CONSTANTS
  NoCommand = NoCommand
  NoJob = NoJob
  NoWorker = NoWorker
  c1 = c1
  c2 = c2
  seen = seen
  other = other
  Commands = {c1}
  TargetOf <- Targets
  PriorityOf <- Priorities
  Callers = {q1}
  Jobs = {j1}
  Workers = {w1, w2}
  MaxSnapshot = 1
  Fingerprint <- Changed
  MaxAttempts = 2
  LedgerStatuses <- ServiceStatuses
  MaxFaults = 1
PROPERTIES EventuallySettled
CHECK_DEADLOCK FALSE
