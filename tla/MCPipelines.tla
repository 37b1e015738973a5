------------------------------ MODULE MCPipelines ------------------------------
(* Small instances of the certification and intelligence pipelines, one per *)
(* behaviour, for TLC.                                                       *)
EXTENDS CandidateRollout, RepositoryTransition, PresentationCertification, EvidenceReleases,
        TemporalRefresh, PatternEvidence, ScenarioPipeline, UnifiedIntelligence,
        SellerStrategy, SellerCalibration, PolicyCalibration, TLC

VARIABLE part

certifying == <<candidateVars, transitionVars, certificationVars, releaseVars>>
knowing    == <<temporalVars, patternVars, scenarioVars, unifiedVars>>
selling    == <<sellerVars, calibrationVars, policyVars>>

Parts == {"rollout", "transition", "presentation", "releases", "temporal", "patterns",
          "scenarios", "unified", "seller", "calibration", "policies"}

MCInit ==
  /\ part \in Parts
  /\ CandidateInit /\ TransitionInit /\ CertificationInit /\ ReleasesInit
  /\ TemporalInit /\ PatternInit /\ ScenarioInit /\ UnifiedInit
  /\ SellerInit /\ CalibrationInit /\ PolicyInit
  /\ part # "releases" => behaviour = Controls

MCNext ==
  /\ UNCHANGED part
  /\ \/ /\ UNCHANGED <<knowing, selling>>
        /\ \/ part = "rollout" /\ CandidateNext /\ UNCHANGED <<transitionVars, certificationVars, releaseVars>>
           \/ part = "transition" /\ TransitionNext /\ UNCHANGED <<candidateVars, certificationVars, releaseVars>>
           \/ part = "presentation" /\ CertificationNext /\ UNCHANGED <<candidateVars, transitionVars, releaseVars>>
           \/ part = "releases" /\ ReleasesNext /\ UNCHANGED <<candidateVars, transitionVars, certificationVars>>
     \/ /\ UNCHANGED <<certifying, selling>>
        /\ \/ part = "temporal" /\ TemporalNext /\ UNCHANGED <<patternVars, scenarioVars, unifiedVars>>
           \/ part = "patterns" /\ PatternNext /\ UNCHANGED <<temporalVars, scenarioVars, unifiedVars>>
           \/ part = "scenarios" /\ ScenarioNext /\ UNCHANGED <<temporalVars, patternVars, unifiedVars>>
           \/ part = "unified" /\ UnifiedNext /\ UNCHANGED <<temporalVars, patternVars, scenarioVars>>
     \/ /\ UNCHANGED <<certifying, knowing>>
        /\ \/ part = "seller" /\ SellerNext /\ UNCHANGED <<calibrationVars, policyVars>>
           \/ part = "calibration" /\ CalibrationNext /\ UNCHANGED <<sellerVars, policyVars>>
           \/ part = "policies" /\ PolicyNext /\ UNCHANGED <<sellerVars, calibrationVars>>

MCSpec == MCInit /\ [][MCNext]_<<part, certifying, knowing, selling>>

-----------------------------------------------------------------------------
SomeSizes == [s \in ToSet(Stages) |-> IF s = "REMAINING_FLEET" THEN 0 ELSE 1]
SomeStages == <<"COHORT_25", "COHORT_100", "REMAINING_FLEET">>

(* Two packages that could be certified and one that could not. *)
SomeFacts ==
  [good |-> FixtureNeeds, other |-> FixtureNeeds, thin |-> FixtureNeeds \ {"canaries", "viewports"}]

SomeChains ==
  ("M10-010" :> {"M10-009"}) @@ ("M11-009" :> {"M11-008"}) @@ ("M11-010" :> {"M11-008", "M11-009"})
  @@ ("M12-008" :> {"M12-007"}) @@ ("M12-009" :> {"M12-007", "M12-008"})

SomeVersions ==
  ("M10-010" :> 10) @@ ("M11-009" :> 11) @@ ("M11-010" :> 11) @@ ("M12-008" :> 11) @@ ("M12-009" :> 11)

SomeBehaviours ==
  {Controls, Controls \cup {"REVISED"}, Controls \ {"REGRESSION"}, Controls \ {"NONPUBLIC"},
   Controls \ {"FACTORY"}}

-----------------------------------------------------------------------------
Property(phase, exclusions) ==
  [identity |-> phase, phase |-> 0, spatial |-> 0, intelligence |-> 0, freshness |-> "CURRENT",
   exclusions |-> exclusions, conflicts |-> {}]

SourceEntry(id, effective, known) ==
  [kind |-> "source", id |-> id, effective |-> effective, known |-> known]

Observation(t, manifest, properties, exclusions, conflicts) ==
  [observed |-> t, cutoff |-> t, materialized |-> t, freshness |-> "CURRENT", manifest |-> manifest,
   properties |-> properties, exclusions |-> exclusions, conflicts |-> conflicts, drifted |-> FALSE]

Early  == SourceEntry("m", 1, 1)
Late   == SourceEntry("n", 1, 2)
Future == SourceEntry("n", 2, 2)

(* A source known later than it is effective, one from the future, an open conflict. *)
SomeObservations ==
  [s0 |-> Observation(1, {Future}, [p1 |-> Property(0, {})], {}, {}),
   s1 |-> Observation(1, {Early}, <<>>, {}, {}),
   s2 |-> Observation(2, {Early, Late}, [p1 |-> Property(0, {})], {}, {}),
   s3 |-> Observation(3, {Early, Late}, [p1 |-> Property(0, {})], {"y"}, {}),
   s4 |-> Observation(3, {}, [p1 |-> Property(0, {})], {}, {"open"})]

SomeArtifacts ==
  {[type |-> "SCARCITY", scope |-> "PROPERTY", object |-> "p1"],
   [type |-> "SELLER_INTELLIGENCE", scope |-> "PROPERTY", object |-> "p1"],
   [type |-> "RESALE_COMPETITION", scope |-> "COMMUNITY", object |-> "COMMUNITY"]}

SomeRegimes == [o \in 1..7 |-> IF o = 7 THEN "cold" ELSE "hot"]

(* Readings on a line; bent, so that a replication drifts away; of one period only. *)
Straight == [o \in 1..7 |-> [period |-> o % 2, x |-> o % 2, y |-> 2 * (o % 2)]]
Bent     == [Straight EXCEPT ![1].y = 0, ![3].y = -2, ![5].y = 0]
Flat     == [o \in 1..7 |-> [period |-> 0, x |-> 1, y |-> o]]
SomeReadings == {Straight, Bent, Flat}

Population(role, offered) == [role |-> role, regimes |-> {"hot"}, offered |-> offered]

SomePopulations ==
  {Population("DISCOVERY", {1, 2}),   Population("DISCOVERY", {5, 6, 7}),
   Population("VALIDATION", {3, 4}),  Population("VALIDATION", {2, 3}),
   Population("REPLICATION", {5, 6}), Population("REPLICATION", {1, 2})}

-----------------------------------------------------------------------------
SomeContracts ==
  <<[baseline |-> 1, facts |-> {"benchmark_price"}, assumptions |-> [candidate_list_price |-> 5]],
    [baseline |-> 2, facts |-> {},
     assumptions |-> [candidate_list_price |-> 5, candidate_buyer_depth |-> 3]]>>

SomeBaselines ==
  <<[benchmark_price |-> 5],
    [current_list_price |-> 6, benchmark_price |-> 5, current_buyer_depth |-> 3]>>

SomeDimensions ==
  [pricing_position  |-> [stage |-> "D", assumption |-> "candidate_list_price",
                          references |-> <<"current_list_price", "benchmark_price">>],
   buyer_depth       |-> [stage |-> "E", assumption |-> "candidate_buyer_depth",
                          references |-> <<"current_buyer_depth">>],
   builder_inventory |-> [stage |-> "F", assumption |-> "candidate_builder_inventory",
                          references |-> <<"current_builder_inventory">>]]

SomePatterns == {[id |-> "P", domain |-> "BUYER_DEPTH"], [id |-> "Q", domain |-> "SCARCITY"]}

SomePatternRules ==
  [BUYER_DEPTH |-> [facts |-> [benchmark_price |-> 5], assumptions |-> [candidate_buyer_depth |-> 3]]]

SomeHistory ==
  {[scope |-> "PROPERTY", subject |-> TRUE, key |-> "k", valid |-> 1, known |-> 2,
    truth |-> "ASSERTED", sources |-> {"s"}]}

Query(v, cutoff) ==
  [version |-> v, scopes |-> {"PROPERTY"}, keys |-> {"k"}, from |-> 1, to |-> 2, cutoff |-> cutoff,
   subjectHistory |-> TRUE, communityHistory |-> TRUE]

SomeQueries == <<Query(1, 1), Query(2, 1), Query(2, 2)>>

-----------------------------------------------------------------------------
Bound(t) == [status |-> "BOUND", asOf |-> t]

SomeOffers ==
  {[s \in {"MARKET"} |-> Bound(1)], [s \in {"MARKET"} |-> Bound(2)], [s \in {} |-> Bound(1)],
   [s \in {"MARKET"} |-> [Bound(1) EXCEPT !.status = "CONFLICTING"]]}

SomeRelevance == [PRICE |-> [systems |-> {"MARKET"}, facts |-> [phase |-> "resale"]]]

SomeSheets == {[phase |-> "resale"], [phase |-> "new"], [other |-> "x"]}

Evidenced(value, conflict) ==
  [value |-> value, source |-> "CERTIFIED_FACT", freshness |-> "CURRENT", conflict |-> conflict,
   limited |-> FALSE]

SomeOffered ==
  {Evidenced("low", "NO_CONFLICT"), Evidenced("high", "NO_CONFLICT"),
   Evidenced("low", "UNRESOLVED_CONFLICT")}

SomeSignificance ==
  [p \in {"PRICE", "phase"} \X {"NEW", "CHANGED", "UNCHANGED", "RESOLVED", "UNKNOWN"} |->
     CASE p[2] = "CHANGED" -> "REVIEW_REQUIRED"
       [] p[2] = "UNKNOWN" -> "INSUFFICIENT_INFORMATION"
       [] OTHER            -> "INFORMATIONAL"]

-----------------------------------------------------------------------------
Alternative(id, type, property) ==
  [id |-> id, type |-> type, property |-> property, eligible |-> TRUE, certified |-> TRUE]

BuyerDepth(id, state, current) ==
  [id |-> id, dimension |-> "BUYER_DEPTH", state |-> state, eligible |-> current, certified |-> TRUE]

CloseMarket ==
  {Alternative("A1", "CLOSE_SUBSTITUTE", "P1"), Alternative("A2", "STRICT_SUBSTITUTE", "P1"),
   Alternative("A3", "BUILDER_ALTERNATIVE", "P2")}

(* Little known, its depth suppressed; a close market with thin depth known. *)
SomeInputs ==
  {[alternatives |-> {}, findings |-> {BuyerDepth("F2", "THIN", FALSE)}, assumptions |-> {}],
   [alternatives |-> CloseMarket,
    findings     |-> {BuyerDepth("F1", "THIN", TRUE), BuyerDepth("F2", "DEEP", FALSE)},
    assumptions  |-> {[target |-> "BUYER_DEPTH", state |-> "DEEP"]}]}

SomePressure ==
  <<[level |-> "HIGH", available |-> 1, builder |-> 1], [level |-> "LOW", available |-> 0, builder |-> 0]>>

SomeStrategyDimensions == [BUYER_DEPTH |-> {"THIN", "DEEP"}]

SomeReviewRules ==
  [REVIEW_DAY_7  |-> {[on |-> "COMPETITIVE_PRESSURE", state |-> "HIGH", reason |-> "pressure"],
                      [on |-> "BUYER_DEPTH", state |-> "THIN", reason |-> "depth"]},
   REVIEW_DAY_14 |-> {[on |-> "always", state |-> "", reason |-> "checkpoint"]}]

SomeOutcomes == {[state |-> "WORSENED", at |-> 2]}

SomeCandidateRules ==
  {[states |-> {"IMPROVED", "WORSENED"}, afterReview |-> TRUE, type |-> "REVIEW_CONDITION_CALIBRATION"],
   [states |-> {"UNKNOWN"}, afterReview |-> FALSE, type |-> "OUTCOME_COVERAGE_GAP"]}

Pressed == "DAY_7_HIGH_PRESSURE_REVIEW_ENABLED"
Thin    == "DAY_7_THIN_BUYER_DEPTH_REVIEW_ENABLED"
Mixed   == "DAY_10_MIXED_RESPONSE_REVIEW_ENABLED"
Always  == "DAY_14_ALWAYS_REVIEW_ENABLED"

SomeAccepted == {Pressed, Thin, Always}
SomeRuleChanges == {{Pressed}, {Pressed, Mixed}, {Thin}, {Always}}

SomeReplayFixtures ==
  [HF1 |-> [conditions |-> {"HIGH_PRESSURE", "THIN_BUYER_DEPTH", "MIXED_RESPONSE"}, protected |-> TRUE],
   HF2 |-> [conditions |-> {"HIGH_PRESSURE", "MIXED_RESPONSE"}, protected |-> TRUE],
   HF3 |-> [conditions |-> {"THIN_BUYER_DEPTH"}, protected |-> FALSE]]

Episode(n, unknown, verification, status, rollback) ==
  [id |-> n, unknown |-> unknown, verification |-> verification, case |-> status, rollback |-> rollback]

SomeEpisodes ==
  {Episode(1, FALSE, "MATCH", "none", "none"), Episode(2, TRUE, "OUTCOME_UNKNOWN", "OPEN", "none"),
   Episode(3, FALSE, "MISMATCH", "RESOLVED", "OUTCOME_UNKNOWN")}

SomeDomains ==
  [EXECUTION |-> {"EXECUTION_RELIABILITY_REVIEW"}, ROLLBACK |-> {"ROLLBACK_RELIABILITY_REVIEW"}]

SomeFixtures == [f1 |-> {"approval"}, f2 |-> {"receipts"}]

-----------------------------------------------------------------------------
(* Certification: a candidate is exposed stage by stage, a GO and a release *)
(* stand on what was loaded, accepted and pinned (progressive.py,           *)
(* m8_033.py, final_adjudication.py, final_certification.py, finalizer.py). *)
CertificationsStand ==
  ExposureIsStaged /\ GoIsOfOneFixtureSet /\ ReleasesStandOnTheAccepted /\ TransitionNotRepeated

(* Derived knowledge: a record that a refresh preserves is current, and a   *)
(* promoted pattern was replicated on independent data (impact_refresh.py,  *)
(* history.py, patterns.py).                                                *)
KnowledgeIsFounded == PreservedRecordsAreCurrent /\ PromotedIsReplicated

(* Presented intelligence: nothing unknown is lost on the way to a summary, *)
(* and a brief tells exactly what changed (scenario_explainability.py,      *)
(* seller_decision_brief.py).                                               *)
IntelligenceIsCandid == NothingUnknownIsHidden /\ BriefTellsTheChange

(* Human control: reviews show the changes they were asked for, and no      *)
(* promoted rule or policy takes a protected review or control away         *)
(* (timeline.py, workspace.py, calibration.py, policy_calibration.py).      *)
HumansStayInControl == ReviewsTellTheChange /\ PromotedRulesKeepReviews /\ ProtectionsSurvivePromotion
================================================================================
