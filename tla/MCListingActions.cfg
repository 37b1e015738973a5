SPECIFICATION Spec
CONSTANTS
  listing = listing
  type = type
  Intents <- SomeIntents
  Authorities <- SomeAuthorities
  RollbackAuthorities <- SomeRollbackAuthorities
  Adapters = {mls}
  Executors = {e1, e2}
  MaxClock = 1
  StaleAfter = 0
  MaxApprovals = 2
  MaxCalls = 3
  MaxHolds = 1
  IncidentTypes = {"OUTCOME_UNKNOWN", "OPEN_RECONCILIATION"}
  HoldScopes = {"ACTION", "LISTING", "ADAPTER"}
SYMMETRY Symmetry
INVARIANTS
  JournaledNeverRepeated
  WorkspaceIsTruthful
  RollbacksFollowMismatch
CHECK_DEADLOCK FALSE
