------------------------------ MODULE MCReporting ------------------------------
(* Small instances of the four reporting components, one per behaviour, for TLC. *)
EXTENDS ReportVersions, ReleaseRollout, ImpactBatches, OperationsRecovery, TLC

VARIABLE part

allVars == <<part, reportVars, releaseVars, impactVars, operationsVars>>

MCInit ==
  /\ part \in {"reports", "release", "impacts", "operations"}
  /\ ReportInit /\ ReleaseInit /\ ImpactInit /\ OperationsInit
  /\ part # "impacts" => consumers = <<>>

MCNext ==
  /\ UNCHANGED part
  /\ \/ part = "reports" /\ ReportNext /\ UNCHANGED <<releaseVars, impactVars, operationsVars>>
     \/ part = "release" /\ ReleaseNext /\ UNCHANGED <<reportVars, impactVars, operationsVars>>
     \/ part = "impacts" /\ ImpactNext /\ UNCHANGED <<reportVars, releaseVars, operationsVars>>
     \/ part = "operations" /\ OperationsNext /\ UNCHANGED <<reportVars, releaseVars, impactVars>>

MCSpec == MCInit /\ [][MCNext]_allVars

-----------------------------------------------------------------------------
Finding(id, scope, wording) ==
  [id |-> id, type |-> id, scope |-> scope, ready |-> TRUE, fingerprint |-> 1, passport |-> 1,
   wording |-> [SELLER |-> wording]]

(* The second differs in its texts and in a finding no seller sees, the third in a wording. *)
SomeSnapshots == {
  [id |-> "s1", texts |-> 1, config |-> 1, findings |-> {Finding("roof", "ALL", "plain")}],
  [id |-> "s2", texts |-> 2, config |-> 1,
   findings |-> {Finding("roof", "ALL", "plain"), Finding("price", "AGENT", "plain")}],
  [id |-> "s3", texts |-> 1, config |-> 1, findings |-> {Finding("roof", "ALL", "frank")}]}

SomePolicies ==
  [SELLER |-> [prohibited |-> {"rumour"}, scopes |-> {"ALL", "SELLER", "AGENT_SELLER"},
               classes |-> {"PUBLIC_DATA", "SELLER_DATA"}]]

SomeSections == [SELLER |-> {"roof", "price"}]

Photo(version, approve) ==
  [class |-> "PROPERTY_PHOTO", approved |-> approve, cleared |-> TRUE, own |-> TRUE, version |-> version]

SomeMedia == {Photo(1, TRUE), Photo(2, FALSE)}

-----------------------------------------------------------------------------
Candidate(n, channel, known) ==
  [ordinal |-> n, variant |-> "PUBLIC", channel |-> channel, report |-> known, render |-> known]

(* Two members; the second may be given twice, once without its targets. *)
SomeCandidates == {Candidate(1, "WEB", TRUE), Candidate(2, "none", TRUE), Candidate(2, "none", FALSE)}

SomeReleasePolicy == [variants |-> {"PUBLIC"}, channels |-> {"WEB"}, optional |-> TRUE]

-----------------------------------------------------------------------------
Changed(n, class, sourced) ==
  [n |-> n, new |-> "after", class |-> class, blocked |-> FALSE, sourced |-> sourced]

SomeChanges == {Changed(1, "CORRECTION", TRUE), Changed(2, "INVALIDATING_CORRECTION", TRUE),
                Changed(3, "CORRECTION", FALSE)}

SomeRule == [variants |-> {"AGENT"}, normal |-> "DIRTY", blocked |-> "BLOCKED",
             invalidating |-> "INVALIDATION_REQUIRED"]

Consumer(variant, fingerprint) == [variant |-> variant, fingerprint |-> fingerprint]

(* nobody; a snapshot; the snapshot and an older and a newer report; another variant *)
SomeConsumers == {
  <<>>, <<Consumer("AGENT", "before")>>,
  <<Consumer("AGENT", "before"), Consumer("AGENT", "after"), Consumer("PUBLIC", "before")>>}

-----------------------------------------------------------------------------
SomeIncidents == {
  [type |-> "PUBLICATION_POINTER_INTEGRITY", severity |-> "ERROR", target |-> TRUE, release |-> FALSE],
  [type |-> "RELEASE_INTEGRITY", severity |-> "ERROR", target |-> FALSE, release |-> TRUE]}

Symmetry == Permutations(Builders) \cup Permutations(ImpactWorkers)
================================================================================
