SPECIFICATION MCSpec
CONSTANTS
  Builders = {b1, b2}
  Snapshots <- SomeSnapshots
  Policies <- SomePolicies
  SectionTypes <- SomeSections
  Media <- SomeMedia
  MediaClasses = {"PROPERTY_PHOTO"}
  Profiles = {"standard"}
  RenderTypes = {"WEB"}
  MaxVersions = 2
  Candidates <- SomeCandidates
  ReleasePolicy <- SomeReleasePolicy
  Scopes = {{1, 2}}
  ChunkSize = 1
  MaxFailed = 0
  MaxPercent = 0
  ImpactWorkers = {w1, w2}
  Changes <- SomeChanges
  Rule <- SomeRule
  ClaimLimit = 2
  ConsumerLists <- SomeConsumers
  Incidents <- SomeIncidents
  RecoveryKeys = {"k1"}
  MaxFreezes = 2
SYMMETRY Symmetry
INVARIANTS
  AnswersShowTheRequest
  
  CompleteItemsAgree
  FreezesAccounted
PROPERTIES
  VersionsAreALog
  
CHECK_DEADLOCK FALSE
