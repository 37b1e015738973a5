--------------------------- MODULE ScenarioPipeline ---------------------------
(***************************************************************************)
(* What-if scenarios: a contract of assumptions on a certified baseline,   *)
(* the context assembled from it, the history retrieved for it, three      *)
(* derived states, a comparison, an explanation, what the agent and the    *)
(* seller are shown, and the package a person reviews.  Each is an         *)
(* immutable record made from records its caller holds; any of them may be *)
(* older than the others, and a fingerprint is the record itself.          *)
(***************************************************************************)
EXTENDS Integers, Sequences, FiniteSets

CONSTANTS
  Contracts,     \* version -> [baseline, facts, assumptions]
  Baselines,     \* baseline -> fact key -> value, the certified baselines in order
  Dimensions,    \* dimension -> [stage, assumption, references]
  Patterns,      \* the promoted patterns: [id, domain]
  Rules,         \* pattern domain -> [facts, assumptions]: what must hold, key -> value
  History,       \* ledger entries
  Queries,       \* evidence queries over the history, each for the context of a version
  SellerFacts    \* the fact keys a seller may see

ASSUME ScenarioAssumption == \A p, q \in Patterns : p.id = q.id => p = q

VARIABLES
  baseline,      \* the certified baseline in force
  contract,      \* [version, state]
  context, evidence, pricing, buyer, construction, member, explanation,
  summary        \* the comparison explained: [member, explanation, review]

stageVars == <<context, evidence, pricing, buyer, construction>>
outputVars == <<member, explanation, summary>>
scenarioVars == <<baseline, contract, stageVars, outputVars>>

NotMade == <<>>

ScenarioInit ==
  /\ baseline = 1 /\ contract = [version |-> 0, state |-> "NONE"]
  /\ context = NotMade /\ evidence = NotMade /\ pricing = NotMade /\ buyer = NotMade
  /\ construction = NotMade /\ member = NotMade /\ explanation = NotMade
  /\ summary = NotMade

Facts(c) == Baselines[c.baseline]
Assumptions(c) == Contracts[c.version].assumptions

-----------------------------------------------------------------------------
(* The contract and its baseline *)

Supersede ==
  /\ baseline < Len(Baselines) /\ baseline' = baseline + 1
  /\ UNCHANGED <<contract, stageVars, outputVars>>

(* A fact and an assumption never share a key, and there is an assumption. *)
WellFormed(x) == x.facts \cap DOMAIN x.assumptions = {} /\ DOMAIN x.assumptions # {}

BuildContract(version) ==
  /\ version = contract.version + 1 /\ WellFormed(Contracts[version])
  /\ contract' = [version |-> version, state |-> "DRAFT"]
  /\ UNCHANGED <<baseline, stageVars, outputVars>>

ReadyContract ==
  /\ contract.state = "DRAFT" /\ contract' = [contract EXCEPT !.state = "READY"]
  /\ UNCHANGED <<baseline, stageVars, outputVars>>

(* The contract was made on the baseline in force and claims only facts it holds. *)
Reconciled(version) ==
  /\ Contracts[version].baseline = baseline
  /\ Contracts[version].facts \subseteq DOMAIN Baselines[baseline]

Holds(required, given) == \A k \in DOMAIN required : given[k] = required[k]

Applicability(pattern, c) ==
  IF pattern.domain \notin DOMAIN Rules THEN "UNKNOWN"
  ELSE LET rule == Rules[pattern.domain]
           known == /\ DOMAIN rule.facts \subseteq DOMAIN Facts(c)
                    /\ DOMAIN rule.assumptions \subseteq DOMAIN Assumptions(c)
       IN IF ~ known THEN "UNKNOWN"
          ELSE IF Holds(rule.facts, Facts(c)) /\ Holds(rule.assumptions, Assumptions(c))
          THEN "APPLICABLE" ELSE "NOT_APPLICABLE"

ApplicableIn(c) == {p.id : p \in {q \in Patterns : Applicability(q, c) = "APPLICABLE"}}

(* A pattern whose applicability is not known is an unknown of the context. *)
ContextUnknowns(c) == {<<"PATTERN", p.id>> : p \in {q \in Patterns : Applicability(q, c) = "UNKNOWN"}}

AssembleContext ==
  /\ contract.state = "READY" /\ Reconciled(contract.version)
  /\ context' = [version |-> contract.version, baseline |-> baseline]
  /\ context' # context
  /\ UNCHANGED <<baseline, contract, evidence, pricing, buyer, construction, outputVars>>

-----------------------------------------------------------------------------
(* History *)

(* _entry_decision: what is asked for, inside the window, known by the cutoff, *)
(* of this subject, in an allowed truth state and with its sources             *)
Retrieved(query) ==
  {e \in History :
     /\ e.scope \in query.scopes /\ e.key \in query.keys
     /\ query.from <= e.valid /\ e.valid <= query.to
     /\ e.known <= query.cutoff
     /\ e.scope = "PROPERTY" => e.subject /\ query.subjectHistory
     /\ e.scope = "COMMUNITY" => query.communityHistory
     /\ e.truth \in {"ASSERTED", "CERTIFIED", "CORRECTED", "UNKNOWN"}
     /\ e.sources # {}}

EvidenceUnknowns(e) == IF Retrieved(Queries[e.query]) = {} THEN {<<"NO_HISTORICAL_EVIDENCE">>} ELSE {}

RetrieveEvidence(query) ==
  /\ context # NotMade /\ Queries[query].version = context.version
  /\ Queries[query].from <= Queries[query].to /\ Queries[query].from <= Queries[query].cutoff
  /\ evidence' = [context |-> context, query |-> query] /\ evidence' # evidence
  /\ UNCHANGED <<baseline, contract, context, pricing, buyer, construction, outputVars>>

-----------------------------------------------------------------------------
(* The derived states *)

StageDimensions(stage) == {d \in DOMAIN Dimensions : Dimensions[d].stage = stage}
Assumed(d, c) == Dimensions[d].assumption \in DOMAIN Assumptions(c)
Referenced(d, c) == {i \in DOMAIN Dimensions[d].references : Dimensions[d].references[i] \in DOMAIN Facts(c)}

(* _first_fact *)
Reference(d, c) ==
  Dimensions[d].references[CHOOSE i \in Referenced(d, c) : \A j \in Referenced(d, c) : i <= j]

(* Without an explicit assumption or a certified reference the position is unknown. *)
StageUnknowns(stage, c) ==
  {<<"EXPLICIT", d>> : d \in {x \in StageDimensions(stage) : ~ Assumed(x, c)}} \cup
  {<<"CERTIFIED", d>> : d \in {x \in StageDimensions(stage) : Assumed(x, c) /\ Referenced(x, c) = {}}}

Modeled(stage, c) == {d \in StageDimensions(stage) : Assumed(d, c) /\ Referenced(d, c) # {}}

Position(d, c) ==
  LET candidate == Assumptions(c)[Dimensions[d].assumption]
      reference == Facts(c)[Reference(d, c)]
  IN CASE candidate = reference -> "SAME"
       [] candidate > reference -> "ABOVE_REFERENCE"
       [] OTHER -> "BELOW_REFERENCE"

PricingUnknowns(d) ==
  ContextUnknowns(d.context) \cup EvidenceUnknowns(d.evidence) \cup StageUnknowns("D", d.context)

BuildPricing ==
  /\ context # NotMade /\ evidence # NotMade /\ evidence.context = context
  /\ pricing' = [context |-> context, evidence |-> evidence] /\ pricing' # pricing
  /\ UNCHANGED <<baseline, contract, context, evidence, buyer, construction, outputVars>>

BuyerUnknowns(e) ==
  ContextUnknowns(e.context) \cup EvidenceUnknowns(e.evidence) \cup PricingUnknowns(e.pricing)
    \cup StageUnknowns("E", e.context)

BuildBuyer ==
  /\ context # NotMade /\ evidence # NotMade /\ pricing # NotMade
  /\ evidence.context = context /\ pricing.context = context /\ pricing.evidence = evidence
  /\ buyer' = [context |-> context, evidence |-> evidence, pricing |-> pricing] /\ buyer' # buyer
  /\ UNCHANGED <<baseline, contract, context, evidence, pricing, construction, outputVars>>

ConstructionUnknowns(f) ==
  ContextUnknowns(f.context) \cup BuyerUnknowns(f.buyer) \cup StageUnknowns("F", f.context)

BuildConstruction ==
  /\ context # NotMade /\ buyer # NotMade /\ buyer.context = context
  /\ construction' = [context |-> context, buyer |-> buyer] /\ construction' # construction
  /\ UNCHANGED <<baseline, contract, context, evidence, pricing, buyer, outputVars>>

-----------------------------------------------------------------------------
(* Comparison, explanation, presentation and review *)

(* Variant: the records need only be of one scenario. *)
LinkedByScenario == \A x \in {evidence, pricing, buyer, construction} : x # NotMade

(* All of one context, and each derived from the one before; the evidence of the *)
(* derived states is not compared.                                              *)
Linked ==
  /\ \A x \in {evidence, pricing, buyer, construction} : x # NotMade
  /\ \A x \in {evidence, pricing, buyer, construction} : x.context = context
  /\ buyer.pricing = pricing /\ construction.buyer = buyer

BuildMember ==
  /\ context # NotMade /\ Linked
  /\ member' = [context |-> context, evidence |-> evidence, construction |-> construction]
  /\ member' # member
  /\ UNCHANGED <<baseline, contract, stageVars, explanation, summary>>

MemberUnknowns(m) ==
  ContextUnknowns(m.context) \cup EvidenceUnknowns(m.evidence) \cup ConstructionUnknowns(m.construction)

(* Every record explained is the one the member was made from. *)
Explain ==
  /\ member # NotMade
  /\ context = member.context /\ evidence = member.evidence /\ construction = member.construction
  /\ buyer = construction.buyer /\ pricing = buyer.pricing
  /\ explanation' = member /\ explanation' # explanation
  /\ UNCHANGED <<baseline, contract, stageVars, member, summary>>

Changed(x) ==
  {d \in UNION {Modeled(stage, x.context) : stage \in {"D", "E", "F"}} : Position(d, x.context) # "SAME"}

(* The comparison is of the member now held; its explanation asks for an explanation *)
(* of every scenario by its id only.                                                 *)
Compare ==
  /\ member # NotMade /\ explanation # NotMade
  /\ summary # NotMade => <<summary.member, summary.explanation>> # <<member, explanation>>
  /\ summary' = [member |-> member, explanation |-> explanation, review |-> "NONE"]
  /\ UNCHANGED <<baseline, contract, stageVars, member, explanation>>

SummaryUnknowns(s) == MemberUnknowns(s.member) \cup MemberUnknowns(s.explanation)

(* Suppressed evidence is replaced by a reason; the rest is shown to both tiers. *)
Shown(tier, x) ==
  [facts |-> IF tier = "AGENT" THEN DOMAIN Facts(x.context) ELSE DOMAIN Facts(x.context) \cap SellerFacts,
   changed |-> Changed(x),
   evidence |-> IF tier = "AGENT" THEN Retrieved(Queries[x.evidence.query]) ELSE {},
   patterns |-> ApplicableIn(x.construction.buyer.context),
   unknowns |-> MemberUnknowns(x)]

(* The package is of the explanations the comparison was explained with. *)
BuildPackage(blocked) ==
  /\ summary # NotMade /\ explanation = summary.explanation /\ summary.review = "NONE"
  /\ summary' = [summary EXCEPT !.review = IF blocked THEN "BLOCKED" ELSE "READY"]
  /\ UNCHANGED <<baseline, contract, stageVars, member, explanation>>

(* A stale package is a new record: the ready one is held still and can be reviewed. *)
MarkStale ==
  /\ summary # NotMade /\ summary.review = "READY"
  /\ summary' = [summary EXCEPT !.review = "STALE"]
  /\ UNCHANGED <<baseline, contract, stageVars, member, explanation>>

RecordReview ==
  /\ summary # NotMade /\ summary.review \in {"READY", "STALE"}
  /\ summary' = [summary EXCEPT !.review = "REVIEWED"]
  /\ UNCHANGED <<baseline, contract, stageVars, member, explanation>>

ScenarioNext ==
  \/ Supersede \/ ReadyContract \/ AssembleContext \/ BuildPricing \/ BuildBuyer \/ BuildConstruction
  \/ BuildMember \/ Explain \/ Compare \/ MarkStale \/ RecordReview
  \/ \E v \in DOMAIN Contracts : BuildContract(v)
  \/ \E q \in DOMAIN Queries : RetrieveEvidence(q)
  \/ \E blocked \in BOOLEAN : BuildPackage(blocked)

ScenarioSpec == ScenarioInit /\ [][ScenarioNext]_scenarioVars

-----------------------------------------------------------------------------
(* build_comparison_member, build_scenario_explanation and the presentation      *)
(* contracts: whichever records a caller still holds, an explanation is of one   *)
(* context on the baseline its contract names; everything that is unknown in any *)
(* of its stages is shown to the agent and to the seller, with every dimension   *)
(* that differs; the seller gets no evidence; and a package hides no unknown of  *)
(* what it was built from.                                                       *)
NothingUnknownIsHidden ==
  /\ explanation # NotMade =>
       LET c == explanation.context
           d == explanation.construction.buyer.pricing
           owed == (UNION {StageUnknowns(stage, c) : stage \in {"D", "E", "F"}})
                     \cup ContextUnknowns(c) \cup EvidenceUnknowns(d.evidence)
                     \cup EvidenceUnknowns(explanation.evidence)
           agent  == Shown("AGENT", explanation)
           seller == Shown("SELLER", explanation)
       IN /\ d.context = c /\ explanation.construction.buyer.context = c
          /\ d.evidence = explanation.construction.buyer.evidence
          /\ Contracts[c.version].baseline = c.baseline
          /\ seller.evidence = {} /\ seller.facts \subseteq agent.facts
          /\ \A shown \in {agent, seller} :
               /\ owed \subseteq shown.unknowns
               /\ \A p \in {q \in Patterns : q.id \in shown.patterns} :
                    Holds(Rules[p.domain].facts, Facts(c)) /\ Holds(Rules[p.domain].assumptions, Assumptions(c))
  /\ summary # NotMade =>
       StageUnknowns("F", summary.explanation.context) \cup StageUnknowns("D", summary.member.context)
         \subseteq SummaryUnknowns(summary)
================================================================================
