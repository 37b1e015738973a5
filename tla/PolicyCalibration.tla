-------------------------- MODULE PolicyCalibration --------------------------
(***************************************************************************)
(* Operational learning and policy calibration of the listing executor:    *)
(* episodes give advisory improvement candidates, these allow isolated     *)
(* candidate policies, and one that is replayed without a safety           *)
(* regression and approved gets a promotion package.                       *)
(***************************************************************************)
EXTENDS Integers, Sequences, FiniteSets

CONSTANTS
  Episodes,         \* [id, unknown, verification, case, rollback]
  Domains,          \* candidate_domains: domain -> allowed candidate types
  PolicyFields, ProtectedTrueFields,
  Fixtures,         \* fixture -> protected control expectations
  MaxPolicies       \* bound: policy versions

VARIABLES
  improvements,     \* advisory candidates [type, trigger, sources]
  policies,         \* versions [on, parent, source]; the first is the accepted baseline
  packages          \* versions with a promotion package

policyVars == <<improvements, policies, packages>>

PolicyInit ==
  /\ improvements = {} /\ packages = {}
  /\ policies = <<[on |-> PolicyFields, parent |-> 0, source |-> "accepted"]>>

-----------------------------------------------------------------------------
Triggering(trigger, e) ==
  CASE trigger = "EXECUTION_OUTCOME_UNKNOWN"    -> e.unknown
    [] trigger = "VERIFICATION_MISMATCH"        -> e.verification = "MISMATCH"
    [] trigger = "VERIFICATION_OUTCOME_UNKNOWN" -> e.verification = "OUTCOME_UNKNOWN"
    [] trigger = "OPEN_RECONCILIATION"          -> e.case = "OPEN"
    [] trigger = "ROLLBACK_OUTCOME_UNKNOWN"     -> e.rollback = "OUTCOME_UNKNOWN"

(* improvement_rules *)
ImprovementRules ==
  [EXECUTION_OUTCOME_UNKNOWN    |-> "EXECUTION_RELIABILITY_REVIEW",
   VERIFICATION_MISMATCH        |-> "VERIFICATION_POLICY_REVIEW",
   VERIFICATION_OUTCOME_UNKNOWN |-> "VERIFICATION_COVERAGE_REVIEW",
   OPEN_RECONCILIATION          |-> "RECONCILIATION_WORKFLOW_REVIEW",
   ROLLBACK_OUTCOME_UNKNOWN     |-> "ROLLBACK_RELIABILITY_REVIEW"]

(* make_operational_episode: reconciliation comes before rollback, on one chain. *)
Chained(e) == e.rollback # "none" => e.case # "none"

Improvements(seen) ==
  {[type |-> ImprovementRules[t], sources |-> {e.id : e \in {x \in seen : Triggering(t, x)}}] :
     t \in {u \in DOMAIN ImprovementRules : \E e \in seen : Triggering(u, e)}}

Learn(seen) ==
  /\ seen # {} /\ \A e \in seen : Chained(e)
  /\ improvements' = improvements \cup Improvements(seen)
  /\ UNCHANGED <<policies, packages>>

-----------------------------------------------------------------------------
(* Any field may change, whatever the domain; the baseline may itself be a candidate. *)
BuildCandidate(improvement, domain, baseline, changed) ==
  /\ improvement.type \in Domains[domain] /\ changed # {} /\ Len(policies) < MaxPolicies
  /\ policies' = Append(policies,
       [on     |-> (policies[baseline].on \ changed) \cup (changed \ policies[baseline].on),
        parent |-> baseline, source |-> improvement.type])
  /\ UNCHANGED <<improvements, packages>>

(* Variant: only what the fixture expects is protected. *)
RegressionsByFixture(baseline, candidate, fixture) ==
  (Fixtures[fixture] \cap policies[baseline].on) \ policies[candidate].on

Regressions(baseline, candidate, fixture) ==
  ((ProtectedTrueFields \cup Fixtures[fixture]) \cap policies[baseline].on) \ policies[candidate].on

Evaluate(candidate, replayed, approval) ==
  LET baseline == policies[candidate].parent
      safe == \A f \in replayed : Regressions(baseline, candidate, f) = {}
  IN /\ baseline # 0 /\ replayed # {}
     /\ packages' = IF approval = "APPROVED" /\ safe THEN packages \cup {candidate} ELSE packages
     /\ UNCHANGED <<improvements, policies>>

PolicyNext ==
  \/ \E seen \in SUBSET Episodes : Learn(seen)
  \/ \E i \in improvements, d \in DOMAIN Domains, b \in DOMAIN policies, changed \in SUBSET PolicyFields :
       BuildCandidate(i, d, b, changed)
  \/ \E c \in DOMAIN policies, replayed \in SUBSET DOMAIN Fixtures, a \in {"none", "PENDING", "APPROVED", "REJECTED"} :
       Evaluate(c, replayed, a)

PolicySpec == PolicyInit /\ [][PolicyNext]_policyVars

-----------------------------------------------------------------------------
(* A set of versions, each but the accepted one with a package and with its baseline. *)
PromotedChain(chain) == \A u \in chain : u # 1 => u \in packages /\ policies[u].parent \in chain

Rooted(v) == \E chain \in SUBSET DOMAIN policies : v \in chain /\ PromotedChain(chain)

(* evaluate_policy_candidate: along any chain of promoted policies no          *)
(* protected field that the accepted baseline sets is lost, however small the  *)
(* changes and whichever fixtures were replayed; and only a type of            *)
(* improvement that its episodes show can be the source of a candidate.        *)
ProtectionsSurvivePromotion ==
  \A v \in DOMAIN policies :
    /\ Rooted(v) => ProtectedTrueFields \cap policies[1].on \subseteq policies[v].on
    /\ v # 1 => \E i \in improvements : i.type = policies[v].source /\ i.sources # {}
================================================================================
