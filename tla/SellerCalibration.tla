--------------------------- MODULE SellerCalibration ---------------------------
(***************************************************************************)
(* Calibration of the seller review rules: isolated candidate versions of  *)
(* the accepted rules are replayed on historical fixtures, and one that    *)
(* shows no regression and is approved gets a promotion package.           *)
(***************************************************************************)
EXTENDS Integers, Sequences, FiniteSets

CONSTANTS
  AcceptedRules,     \* the rule flags that the accepted baseline enables
  RuleChanges,       \* sets of flags a candidate turns over
  ReplayFixtures,    \* fixture -> [conditions, protected]
  AdvisoryTypes,     \* candidate types that effectiveness learning may hand over
  MaxVersions        \* bound: rule versions

VARIABLES
  versions,          \* rule versions [on, parent]; the first is the accepted baseline
  promotions         \* promotion packages [version, replayed]

calibrationVars == <<versions, promotions>>

CalibrationInit ==
  /\ versions = <<[on |-> AcceptedRules, parent |-> 0]>>
  /\ promotions = {}

(* The day a rule asks for a review, and the market condition it asks on. *)
ReviewRule ==
  [DAY_7_HIGH_PRESSURE_REVIEW_ENABLED           |-> <<7, "HIGH_PRESSURE">>,
   DAY_7_THIN_BUYER_DEPTH_REVIEW_ENABLED        |-> <<7, "THIN_BUYER_DEPTH">>,
   DAY_7_WORSENING_DIRECTION_REVIEW_ENABLED     |-> <<7, "WORSENING_DIRECTION">>,
   DAY_10_WEAK_RESPONSE_REVIEW_ENABLED          |-> <<10, "WEAK_RESPONSE">>,
   DAY_10_HIGH_NEW_CONSTRUCTION_REVIEW_ENABLED  |-> <<10, "HIGH_NEW_CONSTRUCTION">>,
   DAY_10_LIMITED_DIFFERENTIATION_REVIEW_ENABLED |-> <<10, "LIMITED_DIFFERENTIATION">>,
   DAY_10_MIXED_RESPONSE_REVIEW_ENABLED         |-> <<10, "MIXED_RESPONSE">>,
   DAY_14_ALWAYS_REVIEW_ENABLED                 |-> <<14, "ALWAYS">>]

ASSUME CalibrationAssumption ==
  AcceptedRules \subseteq DOMAIN ReviewRule /\ \A changed \in RuleChanges : changed \subseteq DOMAIN ReviewRule

(* _triggered_days *)
TriggeredDays(version, fixture) ==
  {ReviewRule[r][1] : r \in {x \in versions[version].on :
     ReviewRule[x][2] \in ReplayFixtures[fixture].conditions \cup {"ALWAYS"}}}

(* build_candidate_version: the parent may itself be a candidate. *)
BuildVersion(advisory, parent, changed) ==
  /\ advisory = "REVIEW_CONDITION_CALIBRATION" /\ changed # {} /\ Len(versions) < MaxVersions
  /\ versions' = Append(versions,
       [on |-> (versions[parent].on \ changed) \cup (changed \ versions[parent].on), parent |-> parent])
  /\ UNCHANGED promotions

(* Variant: what regressed is what the communication effect calls removed. *)
RegressedByEffect(baseline, candidate, fixture) ==
  LET b == TriggeredDays(baseline, fixture) c == TriggeredDays(candidate, fixture)
  IN \/ ReplayFixtures[fixture].protected /\ c \subseteq b /\ c # b
     \/ 14 \notin c

(* _compare *)
Regressed(baseline, candidate, fixture) ==
  LET b == TriggeredDays(baseline, fixture) c == TriggeredDays(candidate, fixture)
  IN \/ ReplayFixtures[fixture].protected /\ ~(b \subseteq c)
     \/ 14 \notin c

(* evaluate_candidate *)
EvaluateVersion(candidate, replayed, approval) ==
  LET baseline == versions[candidate].parent
      regressions == {f \in replayed : Regressed(baseline, candidate, f)}
  IN /\ candidate # 1 /\ replayed # {}
     /\ promotions' = promotions \cup
          (IF regressions = {} /\ approval = "APPROVED"
             THEN {[version |-> candidate, replayed |-> replayed]} ELSE {})
     /\ UNCHANGED versions

CalibrationNext ==
  \/ \E advisory \in AdvisoryTypes, parent \in DOMAIN versions, changed \in RuleChanges :
       BuildVersion(advisory, parent, changed)
  \/ \E candidate \in DOMAIN versions, replayed \in SUBSET DOMAIN ReplayFixtures,
        approval \in {"none", "PENDING", "REJECTED", "APPROVED"} : EvaluateVersion(candidate, replayed, approval)

CalibrationSpec == CalibrationInit /\ [][CalibrationNext]_calibrationVars

-----------------------------------------------------------------------------
(* A set of versions, each but the accepted one with its parent and promoted on a replay of f. *)
ReplayedChain(chain, f) ==
  \A u \in chain : u # 1 =>
    versions[u].parent \in chain /\ \E p \in promotions : p.version = u /\ f \in p.replayed

ReplayedAlong(v, f) == \E chain \in SUBSET DOMAIN versions : v \in chain /\ ReplayedChain(chain, f)

(* evaluate_candidate: a promoted version, of whatever parent, keeps the      *)
(* checkpoint of day 14; and a protected market in which each promotion of a  *)
(* chain was replayed is still reviewed on every day that the accepted rules  *)
(* review it, however small steps take it away and other days come in return. *)
PromotedRulesKeepReviews ==
  /\ \A p \in promotions, f \in DOMAIN ReplayFixtures : 14 \in TriggeredDays(p.version, f)
  /\ \A v \in DOMAIN versions, f \in DOMAIN ReplayFixtures :
       (ReplayFixtures[f].protected /\ ReplayedAlong(v, f)) => TriggeredDays(1, f) \subseteq TriggeredDays(v, f)
=============================================================================
