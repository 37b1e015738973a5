SPECIFICATION FairSpec
CONSTANTS
  c1 = c1
  c2 = c2
  agent = agent
  public = public
  Clients = {c1, c2}
  Variants = {agent, public}
  GovernedStates <- MCStates
  Requirements <- MCRequirements
  None = None
  MaxTokens = 2
  MaxFaults = 1
INVARIANTS TypeOK SequencesGapless SupersedesChain OneSnapshotPerFingerprint
PROPERTIES ReusedShowsCaptured EventuallyRepresented
CHECK_DEADLOCK FALSE
