--------------------------- MODULE EvidenceReleases ---------------------------
(***************************************************************************)
(* The milestone certifications that read the accepted-evidence files of   *)
(* the repository, replay the code and issue a decision: M10-010, M11-009, *)
(* M11-010, M12-008 and M12-009.  A hash is the value that was hashed; the *)
(* code is the set of the controls that its replays would show to work,    *)
(* and of what else tells one revision of it from another.                 *)
(***************************************************************************)
EXTENDS Integers, FiniteSets

CONSTANTS
  ChainOf,           \* release -> the tickets whose evidence it requires (its chain)
  CandidateVersion,  \* release -> release candidate version
  Behaviours,        \* the revisions of the code, as sets of Controls and other marks
  MaxChanges         \* bound: changes made to the repository

ASSUME ReleasesAssumption ==
  /\ DOMAIN ChainOf = {"M10-010", "M11-009", "M11-010", "M12-008", "M12-009"}
  /\ "M11-009" \in ChainOf["M11-010"] /\ "M12-008" \in ChainOf["M12-009"]

VARIABLES
  files,             \* ticket -> evidence file [state, root]
  version, contractLocked, behaviour,   \* the VERSION file, the contracts, the code
  pins,              \* release -> root that the registries expect, <<>> for none
  decision,          \* the latest positive decision [release, stands]
  acceptedOn,        \* history: release -> what its accepted decision stood on
  changesMade

repository == <<files, version, contractLocked, behaviour>>
releaseVars == <<repository, pins, decision, acceptedOn, changesMade>>

FactoryControls == {"FACTORY", "PORTFOLIO"}
ReplayControls  == {"PROMOTION", "BOUNDARIES"}
NegativeControls == {"UNCERTIFIED_INPUT", "PUBLIC_LEAKAGE", "REGRESSION"}
DrillControls   == {"FIXTURE", "SEPARATION", "GOLDEN_PATH", "NONPUBLIC", "DUPLICATE", "UNKNOWN",
                    "VERIFIED", "RECONCILED", "HOLD", "RECOVERY", "HUMAN_CONTROL", "NONCAUSAL",
                    "SAFE_PROMOTION", "UNSAFE_BLOCKED", "FAILS_CLOSED"}
Controls == FactoryControls \cup ReplayControls \cup NegativeControls \cup DrillControls

Releases == DOMAIN ChainOf
Tickets == Releases \cup UNION {ChainOf[r] : r \in Releases}

ReleasesInit ==
  /\ files = [t \in Tickets |-> [state |-> IF t \in Releases THEN "missing" ELSE "accepted", root |-> <<>>]]
  /\ version = CandidateVersion["M10-010"] /\ contractLocked = TRUE
  /\ behaviour \in {b \in Behaviours : Controls \subseteq b}
  /\ pins = [r \in Releases |-> <<>>] /\ acceptedOn = [r \in Releases |-> <<>>]
  /\ decision = [release |-> "none", stands |-> <<>>]
  /\ changesMade = 0

(* People change the checkout: evidence, code, contract and version.  A flawed file *)
(* is not ACCEPTED, a waived one is but has waivers or open defects, a mislabelled  *)
(* one only names another ticket or parent, and an invalid one is no JSON.          *)
ChangeRepository ==
  /\ changesMade < MaxChanges /\ changesMade' = changesMade + 1
  /\ \/ \E t \in Tickets, s \in {"missing", "invalid", "flawed", "waived", "mislabelled", "accepted"} :
          files' = [files EXCEPT ![t].state = s] /\ UNCHANGED <<version, contractLocked, behaviour>>
     \/ \E b \in Behaviours : behaviour' = b /\ UNCHANGED <<files, version, contractLocked>>
     \/ \E r \in Releases : version' = CandidateVersion[r] /\ UNCHANGED <<files, contractLocked, behaviour>>
     \/ contractLocked' = ~contractLocked /\ UNCHANGED <<files, version, behaviour>>
  /\ UNCHANGED <<pins, decision, acceptedOn>>

-----------------------------------------------------------------------------
(* What a root is computed over: the files of the chain, and the code or its replays. *)
Stands(release) == [chain |-> [t \in ChainOf[release] |-> files[t]], behaviour |-> behaviour]

PinHolds(release) == pins[release] = <<>> \/ pins[release] = Stands(release)

(* _verify_evidence_chain *)
ChainAccepted(release) == \A t \in ChainOf[release] : files[t].state = "accepted"

(* Once the release has evidence of its own, VERSION may move on; that evidence is *)
(* asked for its status, not for its waivers.                                      *)
VersionAdmits(release) ==
  /\ files[release].state = "missing" => version = CandidateVersion[release]
  /\ files[release].state \in {"missing", "accepted", "waived", "mislabelled"}

PlatformRelease ==
  VersionAdmits("M10-010") /\ ChainAccepted("M10-010") /\ FactoryControls \subseteq behaviour

EndToEnd == ReplayControls \subseteq behaviour

NegativesHold == NegativeControls \subseteq behaviour

(* execute_production_certification *)
ProductionCandidate ==
  /\ VersionAdmits("M11-009") /\ ChainAccepted("M11-009") /\ EndToEnd /\ NegativesHold
  /\ files["M11-009"].state # "missing" => files["M11-009"].root = pins["M11-009"]
  /\ PinHolds("M11-009")

(* Variant: the replay of the production candidate is asked for its status only. *)
SellerReleaseByStatus ==
  /\ VersionAdmits("M11-010") /\ contractLocked /\ ChainAccepted("M11-010")
  /\ EndToEnd /\ NegativesHold

(* execute_final_adjudication of M11-010: the accepted root is reproduced. *)
SellerRelease ==
  /\ VersionAdmits("M11-010") /\ contractLocked /\ ChainAccepted("M11-010")
  /\ files["M11-009"].root = pins["M11-009"]
  /\ ProductionCandidate /\ pins["M11-009"] = Stands("M11-009")

(* certify_operational_audit hashes the implementation, and replays nothing. *)
OperationalAudit == ChainAccepted("M12-008") /\ PinHolds("M12-008")

(* Without the fixture, or the receipt of its golden path, the later drills fail. *)
GoldenFixture == {"FIXTURE", "SEPARATION", "GOLDEN_PATH"} \subseteq behaviour
DrillDuplicates == {"FIXTURE", "DUPLICATE", "UNKNOWN"} \subseteq behaviour
DrillVerification == {"FIXTURE", "VERIFIED", "RECONCILED"} \subseteq behaviour
DrillIncident == {"FIXTURE", "HOLD", "RECOVERY"} \subseteq behaviour
DrillWorkspace == {"FIXTURE", "HUMAN_CONTROL", "NONCAUSAL"} \subseteq behaviour
DrillPolicies == {"SAFE_PROMOTION", "UNSAFE_BLOCKED"} \subseteq behaviour
DrillFailures == {"FIXTURE", "FAILS_CLOSED"} \subseteq behaviour

(* Stage A looks at the states of the files, not at their ticket names. *)
Preflight ==
  /\ version = CandidateVersion["M12-009"] /\ contractLocked
  /\ \A t \in ChainOf["M12-009"] : files[t].state \in {"accepted", "mislabelled"}
  /\ files["M12-008"].root = pins["M12-008"]

(* Stage H *)
AuditReproduced == OperationalAudit /\ pins["M12-008"] = Stands("M12-008")

(* Stage J: of the coverage, only the nonpublic receipt is no check of a stage before. *)
ExecutionRelease ==
  /\ Preflight /\ GoldenFixture /\ DrillDuplicates /\ DrillVerification /\ DrillIncident
  /\ DrillWorkspace /\ DrillPolicies /\ AuditReproduced /\ DrillFailures
  /\ "NONPUBLIC" \in behaviour

Issue(release, passes) ==
  /\ passes /\ PinHolds(release)
  /\ decision' = [release |-> release, stands |-> Stands(release)]
  /\ UNCHANGED <<repository, pins, acceptedOn, changesMade>>

(* A positive decision on the present checkout is accepted: it becomes evidence, *)
(* and its root is pinned in the registries.                                     *)
AcceptDecision ==
  LET r == decision.release
  IN /\ r # "none"
     /\ decision.stands = Stands(r)
     /\ files' = [files EXCEPT ![r] = [state |-> "accepted", root |-> decision.stands]]
     /\ pins' = [pins EXCEPT ![r] = decision.stands]
     /\ acceptedOn' = [acceptedOn EXCEPT ![r] = decision.stands]
     /\ UNCHANGED <<version, contractLocked, behaviour, decision, changesMade>>

ReleasesNext ==
  \/ ChangeRepository
  \/ Issue("M10-010", PlatformRelease)
  \/ Issue("M11-009", ProductionCandidate)
  \/ Issue("M11-010", SellerRelease)
  \/ Issue("M12-008", OperationalAudit)
  \/ Issue("M12-009", ExecutionRelease)
  \/ AcceptDecision

ReleasesSpec == ReleasesInit /\ [][ReleasesNext]_releaseVars

-----------------------------------------------------------------------------
SameGround(release, audit) ==
  LET before == acceptedOn[audit] now == decision.stands
  IN /\ before # <<>> /\ now.behaviour = before.behaviour
     /\ \A t \in ChainOf[release] \cap ChainOf[audit] : now.chain[t] = before.chain[t]

(* final_adjudication.py, final_certification.py: whatever was changed, removed *)
(* or put back in the checkout before it, a release of M11-010 or M12-009 is    *)
(* decided on the very code and evidence that its candidate certification or    *)
(* its operational audit was accepted on, and no release on evidence that is    *)
(* not accepted (the label of a file apart, which stage A of M12-009 ignores).  *)
ReleasesStandOnTheAccepted ==
  /\ decision.release = "M11-010" => SameGround("M11-010", "M11-009")
  /\ decision.release = "M12-009" => SameGround("M12-009", "M12-008")
  /\ decision.release # "none" =>
       \A t \in ChainOf[decision.release] : decision.stands.chain[t].state \in {"accepted", "mislabelled"}
=============================================================================
