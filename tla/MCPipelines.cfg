SPECIFICATION MCSpec
CONSTANTS
  Fleet = {1, 2, 3}
  PilotCap = 1
  Stages <- SomeStages
  StageSize <- SomeSizes
  MinimumCycles = 1
  MaxCycles = 1
  SampleSize = 1
  Duration = 1
  MaxApprovals = 1
  MaxTime = 1
  MaxRuns = 3
  FixtureFacts <- SomeFacts
  FrozenFixtures = "good"
  MaxEdits = 3
  ChainOf <- SomeChains
  CandidateVersion <- SomeVersions
  Behaviours <- SomeBehaviours
  MaxChanges = 2
  Observations <- SomeObservations
  Artifacts <- SomeArtifacts
  PlanIds = {"P1", "P2"}
  Horizon = 3
  MaxEntries = 1
  RegimeOf <- SomeRegimes
  Readings <- SomeReadings
  Populations <- SomePopulations
  MinimumDiscovery = 2
  MinimumConfirmation = 2
  MinimumPeriods = 2
  EffectParts = 20
  DriftParts = 5
  MaxCandidates = 3
  MaxLedgerVersion = 1
  Contracts <- SomeContracts
  Baselines <- SomeBaselines
  Dimensions <- SomeDimensions
  Patterns <- SomePatterns
  Rules <- SomePatternRules
  History <- SomeHistory
  Queries <- SomeQueries
  SellerFacts = {"reference_price", "current_buyer_depth"}
  Systems = {"MARKET"}
  Offers <- SomeOffers
  RelevanceRules <- SomeRelevance
  FactSheets <- SomeSheets
  Offered <- SomeOffered
  SignificanceOf <- SomeSignificance
  Boundaries = {1, 2}
  MaxLedgers = 2
  Inputs <- SomeInputs
  PressureRules <- SomePressure
  StrategyDimensions <- SomeStrategyDimensions
  ReviewRules <- SomeReviewRules
  OutcomeOffers <- SomeOutcomes
  CandidateRules <- SomeCandidateRules
  MaxObserved = 3
  DecisionTimes = {2, 3}
  MaxDecisions = 2
  AcceptedRules <- SomeAccepted
  RuleChanges <- SomeRuleChanges
  ReplayFixtures <- SomeReplayFixtures
  AdvisoryTypes = {"REVIEW_CONDITION_CALIBRATION", "OUTCOME_COVERAGE_GAP"}
  MaxVersions = 3
  Episodes <- SomeEpisodes
  Domains <- SomeDomains
  PolicyFields = {"approval", "authority", "receipts"}
  ProtectedTrueFields = {"approval", "authority"}
  Fixtures <- SomeFixtures
  MaxPolicies = 3
INVARIANTS
  
  KnowledgeIsFounded
  IntelligenceIsCandid
  HumansStayInControl
CHECK_DEADLOCK FALSE
