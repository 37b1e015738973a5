--------------------------- MODULE PipelinesProofs ---------------------------
(***************************************************************************)
(* What holds of the pipelines for any artifacts their callers may hold.   *)
(* Each part has an inductive invariant of its own, which says of every    *)
(* stored artifact what the step that made it had compared; MCPipelines    *)
(* runs one part at a time, so its behaviours are behaviours of each part. *)
(***************************************************************************)
EXTENDS MCPipelines, FiniteSetTheorems, SequenceTheorems, WellFoundedInduction, TLAPS

-----------------------------------------------------------------------------
(* Scenarios *)

ContextOK(c) == Contracts[c.version].baseline = c.baseline

PricingOK(d) == d.evidence.context = d.context

BuyerOK(e) == PricingOK(e.pricing) /\ e.pricing.context = e.context /\ e.pricing.evidence = e.evidence

ConstructionOK(f) == BuyerOK(f.buyer) /\ f.buyer.context = f.context

MemberOK(m) ==
  ContextOK(m.context) /\ ConstructionOK(m.construction) /\ m.construction.context = m.context

SummaryOK(s) ==
  /\ s = [member |-> s.member, explanation |-> s.explanation, review |-> s.review]
  /\ MemberOK(s.member) /\ MemberOK(s.explanation)

ScenarioInv ==
  /\ context # NotMade => ContextOK(context)
  /\ pricing # NotMade => PricingOK(pricing)
  /\ buyer # NotMade => BuyerOK(buyer)
  /\ construction # NotMade => ConstructionOK(construction)
  /\ member # NotMade => MemberOK(member)
  /\ explanation # NotMade => MemberOK(explanation)
  /\ summary # NotMade => SummaryOK(summary)

LEMMA ScenarioStarts == ScenarioInit => ScenarioInv
BY DEF ScenarioInit, ScenarioInv

LEMMA StagesKeep ==
  ASSUME ScenarioInv,
         AssembleContext \/ (\E q \in DOMAIN Queries : RetrieveEvidence(q))
           \/ BuildPricing \/ BuildBuyer \/ BuildConstruction
  PROVE  ScenarioInv'
<1>1. CASE AssembleContext
  BY <1>1 DEF ScenarioInv, AssembleContext, Reconciled, outputVars, ContextOK, PricingOK, BuyerOK,
              ConstructionOK, MemberOK, SummaryOK
<1>2. ASSUME NEW q \in DOMAIN Queries, RetrieveEvidence(q) PROVE ScenarioInv'
  BY <1>2 DEF ScenarioInv, RetrieveEvidence, outputVars
<1>3. CASE BuildPricing
  BY <1>3 DEF ScenarioInv, BuildPricing, PricingOK, outputVars
<1>4. CASE BuildBuyer
  BY <1>4 DEF ScenarioInv, BuildBuyer, PricingOK, BuyerOK, outputVars
<1>5. CASE BuildConstruction
  BY <1>5 DEF ScenarioInv, BuildConstruction, ConstructionOK, outputVars
<1>6. QED BY <1>1, <1>2, <1>3, <1>4, <1>5

LEMMA OutputsKeep ==
  ASSUME ScenarioInv,
         BuildMember \/ Explain \/ Compare \/ MarkStale \/ RecordReview
           \/ (\E held \in BOOLEAN : BuildPackage(held))
  PROVE  ScenarioInv'
<1>1. CASE BuildMember
  <2>1. MemberOK(member')
    BY <1>1 DEF ScenarioInv, BuildMember, Linked, MemberOK, NotMade
  <2>2. QED BY <1>1, <2>1 DEF ScenarioInv, BuildMember, stageVars
<1>2. CASE Explain
  BY <1>2 DEF ScenarioInv, Explain, stageVars
<1>3. CASE Compare
  BY <1>3 DEF ScenarioInv, Compare, SummaryOK, stageVars
<1>4. ASSUME NEW review, summary # NotMade, summary' = [summary EXCEPT !.review = review],
             UNCHANGED <<stageVars, member, explanation>>
      PROVE  ScenarioInv'
  <2>1. SummaryOK(summary')
    BY <1>4 DEF ScenarioInv, SummaryOK
  <2>2. QED BY <1>4, <2>1 DEF ScenarioInv, stageVars
<1>5. QED BY <1>1, <1>2, <1>3, <1>4 DEF MarkStale, RecordReview, BuildPackage

LEMMA ScenarioKeeps == ScenarioInv /\ [ScenarioNext]_scenarioVars => ScenarioInv'
<1> SUFFICES ASSUME ScenarioInv, [ScenarioNext]_scenarioVars PROVE ScenarioInv'
  OBVIOUS
<1>1. ASSUME UNCHANGED <<stageVars, outputVars>> PROVE ScenarioInv'
  BY <1>1 DEF ScenarioInv, stageVars, outputVars
<1>2. CASE Supersede \/ ReadyContract \/ \E v \in DOMAIN Contracts : BuildContract(v)
  BY <1>1, <1>2 DEF Supersede, ReadyContract, BuildContract
<1>3. CASE UNCHANGED scenarioVars
  BY <1>1, <1>3 DEF scenarioVars
<1>4. QED BY <1>2, <1>3, StagesKeep, OutputsKeep DEF ScenarioNext

(* What one stage did not know is among the unknowns of all later ones. *)
LEMMA UnknownsAreHanded ==
  ASSUME NEW m, MemberOK(m)
  PROVE  /\ StageUnknowns("D", m.context) \subseteq MemberUnknowns(m)
         /\ StageUnknowns("E", m.context) \subseteq MemberUnknowns(m)
         /\ StageUnknowns("F", m.context) \subseteq MemberUnknowns(m)
         /\ ContextUnknowns(m.context) \subseteq MemberUnknowns(m)
         /\ EvidenceUnknowns(m.construction.buyer.pricing.evidence) \subseteq MemberUnknowns(m)
         /\ EvidenceUnknowns(m.evidence) \subseteq MemberUnknowns(m)
         /\ m.construction.buyer.pricing.context = m.context
         /\ m.construction.buyer.context = m.context
         /\ m.construction.buyer.pricing.evidence = m.construction.buyer.evidence
<1> DEFINE f == m.construction
           e == f.buyer
           d == e.pricing
<1>1. f.context = m.context /\ e.context = m.context /\ d.context = m.context /\ d.evidence = e.evidence
  BY DEF MemberOK, ConstructionOK, BuyerOK
<1>2. PricingUnknowns(d) \subseteq BuyerUnknowns(e)
  BY DEF BuyerUnknowns
<1>3. BuyerUnknowns(e) \subseteq ConstructionUnknowns(f)
  BY DEF ConstructionUnknowns
<1>4. ConstructionUnknowns(f) \subseteq MemberUnknowns(m)
  BY DEF MemberUnknowns
<1>5. StageUnknowns("D", m.context) \cup EvidenceUnknowns(d.evidence) \subseteq PricingUnknowns(d)
  BY <1>1 DEF PricingUnknowns
<1>6. StageUnknowns("E", m.context) \subseteq BuyerUnknowns(e)
  BY <1>1 DEF BuyerUnknowns
<1>7. StageUnknowns("F", m.context) \subseteq ConstructionUnknowns(f)
  BY <1>1 DEF ConstructionUnknowns
<1>8. ContextUnknowns(m.context) \cup EvidenceUnknowns(m.evidence) \subseteq MemberUnknowns(m)
  BY DEF MemberUnknowns
<1> HIDE DEF d, e, f
<1>9. /\ StageUnknowns("D", m.context) \subseteq MemberUnknowns(m)
      /\ StageUnknowns("E", m.context) \subseteq MemberUnknowns(m)
      /\ StageUnknowns("F", m.context) \subseteq MemberUnknowns(m)
      /\ ContextUnknowns(m.context) \subseteq MemberUnknowns(m)
      /\ EvidenceUnknowns(d.evidence) \subseteq MemberUnknowns(m)
      /\ EvidenceUnknowns(m.evidence) \subseteq MemberUnknowns(m)
  BY <1>2, <1>3, <1>4, <1>5, <1>6, <1>7, <1>8
<1>10. QED BY <1>1, <1>9 DEF d, e, f

(* A pattern that is shown holds of the facts and assumptions it is shown with. *)
LEMMA ShownPatternsHold ==
  ASSUME NEW c, NEW p \in Patterns, p.id \in ApplicableIn(c)
  PROVE  Holds(Rules[p.domain].facts, Facts(c)) /\ Holds(Rules[p.domain].assumptions, Assumptions(c))
<1>1. PICK q \in Patterns : q.id = p.id /\ Applicability(q, c) = "APPLICABLE"
  BY DEF ApplicableIn
<1>2. q = p
  BY <1>1, ScenarioAssumption
<1>3. Applicability(p, c) = "APPLICABLE"
  BY <1>1, <1>2
<1>4. QED BY <1>3 DEF Applicability

LEMMA HidesNothing == ScenarioInv => NothingUnknownIsHidden
<1> SUFFICES ASSUME ScenarioInv PROVE NothingUnknownIsHidden
  OBVIOUS
<1>1. ASSUME explanation # NotMade
      PROVE  LET c == explanation.context
                 d == explanation.construction.buyer.pricing
                 owed == (UNION {StageUnknowns(stage, c) : stage \in {"D", "E", "F"}})
                           \cup ContextUnknowns(c) \cup EvidenceUnknowns(d.evidence)
                           \cup EvidenceUnknowns(explanation.evidence)
                 agent  == Shown("AGENT", explanation)
                 seller == Shown("SELLER", explanation)
             IN /\ d.context = c /\ explanation.construction.buyer.context = c
                /\ d.evidence = explanation.construction.buyer.evidence
                /\ Contracts[c.version].baseline = c.baseline
                /\ seller.evidence = {} /\ seller.facts \subseteq agent.facts
                /\ \A shown \in {agent, seller} :
                     /\ owed \subseteq shown.unknowns
                     /\ \A p \in {q \in Patterns : q.id \in shown.patterns} :
                          /\ Holds(Rules[p.domain].facts, Facts(c))
                          /\ Holds(Rules[p.domain].assumptions, Assumptions(c))
  <2> DEFINE c == explanation.context
             d == explanation.construction.buyer.pricing
             owed == (UNION {StageUnknowns(stage, c) : stage \in {"D", "E", "F"}})
                       \cup ContextUnknowns(c) \cup EvidenceUnknowns(d.evidence)
                       \cup EvidenceUnknowns(explanation.evidence)
             agent  == Shown("AGENT", explanation)
             seller == Shown("SELLER", explanation)
  <2>1. MemberOK(explanation)
    BY <1>1 DEF ScenarioInv
  <2>2. (UNION {StageUnknowns(stage, c) : stage \in {"D", "E", "F"}})
          = StageUnknowns("D", c) \cup StageUnknowns("E", c) \cup StageUnknowns("F", c)
    OBVIOUS
  <2>3. /\ d.context = c /\ explanation.construction.buyer.context = c
        /\ d.evidence = explanation.construction.buyer.evidence
        /\ owed \subseteq MemberUnknowns(explanation)
    <3>1. /\ StageUnknowns("D", c) \subseteq MemberUnknowns(explanation)
          /\ StageUnknowns("E", c) \subseteq MemberUnknowns(explanation)
          /\ StageUnknowns("F", c) \subseteq MemberUnknowns(explanation)
          /\ ContextUnknowns(c) \subseteq MemberUnknowns(explanation)
          /\ EvidenceUnknowns(d.evidence) \subseteq MemberUnknowns(explanation)
          /\ EvidenceUnknowns(explanation.evidence) \subseteq MemberUnknowns(explanation)
          /\ d.context = c /\ explanation.construction.buyer.context = c
          /\ d.evidence = explanation.construction.buyer.evidence
      BY <2>1, UnknownsAreHanded, Zenon
    <3> HIDE DEF c, d
    <3>2. QED BY <3>1, <2>2
  <2>4. Contracts[c.version].baseline = c.baseline
    BY <2>1 DEF MemberOK, ContextOK
  <2>5. /\ agent.unknowns = MemberUnknowns(explanation) /\ seller.unknowns = MemberUnknowns(explanation)
        /\ seller.evidence = {} /\ seller.facts \subseteq agent.facts
        /\ agent.patterns = ApplicableIn(explanation.construction.buyer.context)
        /\ seller.patterns = ApplicableIn(explanation.construction.buyer.context)
    BY DEF Shown
  <2> HIDE DEF c, d, owed, agent, seller
  <2>6. ASSUME NEW shown \in {agent, seller}, NEW p \in {q \in Patterns : q.id \in shown.patterns}
        PROVE  Holds(Rules[p.domain].facts, Facts(c)) /\ Holds(Rules[p.domain].assumptions, Assumptions(c))
    <3>1. p.id \in ApplicableIn(c)
      BY <2>3, <2>5
    <3>2. QED BY <3>1, ShownPatternsHold
  <2>7. \A shown \in {agent, seller} : owed \subseteq shown.unknowns
    BY <2>3, <2>5
  <2>8. QED BY <2>3, <2>4, <2>5, <2>6, <2>7 DEF c, d, owed, agent, seller
<1>2. ASSUME summary # NotMade
      PROVE  StageUnknowns("F", summary.explanation.context) \cup StageUnknowns("D", summary.member.context)
               \subseteq SummaryUnknowns(summary)
  BY <1>2, UnknownsAreHanded DEF ScenarioInv, SummaryOK, SummaryUnknowns
<1>3. QED BY <1>1, <1>2 DEF NothingUnknownIsHidden

-----------------------------------------------------------------------------
(* The seller's brief *)

(* Every item was offered by a caller. *)
Evident(s) == \A dim \in DOMAIN s.items : s.items[dim] \in Offered

FrameworkOK(framework) ==
  /\ framework.current = framework.ledger.current
  /\ framework.states = [dim \in Covered(framework.current) |-> Assessment(framework.ledger, dim)]

UnifiedInv ==
  /\ DOMAIN states = Boundaries
  /\ \A b \in Boundaries : states[b] # <<>> => Evident(states[b])
  /\ \A changeLog \in changes : Evident(changeLog.current)
  /\ \A framework \in frameworks : FrameworkOK(framework)
  /\ BriefTellsTheChange

LEMMA UnifiedStarts == UnifiedInit => UnifiedInv
BY DEF UnifiedInit, UnifiedInv, BriefTellsTheChange

(* A brief of a ledger and of the framework that assesses this ledger. *)
LEMMA BriefsTellTheChange ==
  ASSUME NEW changeLog, NEW framework, Evident(changeLog.current), FrameworkOK(framework),
         AssembleBrief(changeLog.current, changeLog, framework)
  PROVE  BriefTellsTheChange'
<1> DEFINE s == changeLog.current
           prior == changeLog.prior
           change(dim) == Classify(prior, s, dim)
           rows == [dim \in Covered(s) |->
                      [usability |-> framework.states[dim], change |-> Deltas(changeLog)[dim],
                       value |-> IF dim \in DOMAIN s.items THEN s.items[dim].value ELSE "none"]]
           review == {dim \in Covered(s) : framework.states[dim] # "USABLE"}
<1>1. brief' = [prior |-> prior, rows |-> rows, review |-> review]
  BY DEF AssembleBrief
<1>2. framework.ledger = changeLog /\ framework.current = s
  BY DEF AssembleBrief, Matching
<1> HIDE DEF rows, review
<1>3. ASSUME NEW dim \in Covered(s)
      PROVE  /\ rows[dim].change = "UNCHANGED" =>
                  dim \in DOMAIN prior.items /\ prior.items[dim].value = rows[dim].value
             /\ rows[dim].change = "NEW" => dim \notin Covered(prior)
             /\ rows[dim].change = "RESOLVED" => dim \in prior.unknowns /\ rows[dim].value # "none"
             /\ dim \notin review =>
                  /\ rows[dim].value # "none"
                  /\ SignificanceOf[<<dim, rows[dim].change>>]
                       \notin {"REVIEW_REQUIRED", "INSUFFICIENT_INFORMATION"}
  <2>1. Deltas(changeLog)[dim] = change(dim)
    BY DEF Deltas
  <2>2. /\ rows[dim].change = change(dim)
        /\ dim \in DOMAIN s.items => rows[dim].value = s.items[dim].value
    BY <2>1 DEF rows
  <2>3. dim \in DOMAIN s.items => rows[dim].value # "none"
    BY <2>2, UnifiedAssumption DEF Evident
  <2>4. dim \in s.unknowns \/ dim \in DOMAIN s.items
    BY DEF Covered
  <2>5. change(dim) = "UNCHANGED" =>
          /\ dim \in DOMAIN s.items
          /\ dim \in DOMAIN prior.items /\ prior.items[dim] = s.items[dim]
    BY <2>4 DEF Classify
  <2>6. change(dim) = "NEW" => dim \notin prior.unknowns /\ dim \notin DOMAIN prior.items
    BY DEF Classify
  <2>7. change(dim) = "RESOLVED" => dim \in prior.unknowns /\ dim \in DOMAIN s.items
    BY <2>4 DEF Classify
  <2>8. dim \notin review => Assessment(changeLog, dim) = "USABLE"
    BY <1>2 DEF review, FrameworkOK
  <2>9. Assessment(changeLog, dim) = "USABLE" =>
          /\ dim \notin s.unknowns
          /\ SignificanceOf[<<dim, change(dim)>>] \notin {"REVIEW_REQUIRED", "INSUFFICIENT_INFORMATION"}
    BY <2>1 DEF Assessment
  <2> HIDE DEF change, s, prior
  <2>10. QED
    BY <2>2, <2>3, <2>4, <2>5, <2>6, <2>7, <2>8, <2>9 DEF Covered
<1>4. DOMAIN rows = Covered(s)
  BY DEF rows
<1> HIDE DEF s, prior
<1>5. /\ brief'.prior = prior /\ brief'.rows = rows /\ brief'.review = review
  BY <1>1
<1>6. QED BY <1>3, <1>4, <1>5 DEF BriefTellsTheChange

LEMMA UnifiedKeeps == UnifiedInv /\ [UnifiedNext]_unifiedVars => UnifiedInv'
<1> SUFFICES ASSUME UnifiedInv, [UnifiedNext]_unifiedVars PROVE UnifiedInv'
  OBVIOUS
<1>1. CASE UNCHANGED <<states, changes, frameworks, brief>>
  BY <1>1 DEF UnifiedInv, BriefTellsTheChange
<1>2. ASSUME NEW b \in Boundaries, NEW deps \in Offers, ResolveBundle(b, deps) PROVE UnifiedInv'
  BY <1>1, <1>2 DEF ResolveBundle
<1>3. ASSUME NEW set, NEW given, NEW picks \in [given -> Offered], BuildState(set, picks)
      PROVE  UnifiedInv'
  <2> DEFINE new == [boundary |-> bundle.boundary,
                     items    |-> [dim \in InState(set, "APPLICABLE") |-> picks[dim]],
                     unknowns |-> InState(set, "UNKNOWN") \cup UNION {set[dim].unknowns : dim \in DOMAIN set},
                     excluded |-> InState(set, "NOT_APPLICABLE")]
  <2>1. states' = [states EXCEPT ![bundle.boundary] = new] /\ UNCHANGED <<changes, frameworks, brief>>
    BY <1>3 DEF BuildState
  <2>2. Evident(new)
    <3>1. InState(set, "APPLICABLE") \subseteq given
      BY <1>3 DEF BuildState
    <3>2. new.items = [dim \in InState(set, "APPLICABLE") |-> picks[dim]]
      OBVIOUS
    <3> HIDE DEF new
    <3>3. QED BY <1>3, <3>1, <3>2 DEF Evident
  <2> HIDE DEF new
  <2>3. /\ DOMAIN states' = Boundaries
        /\ \A b \in Boundaries : states'[b] # <<>> => Evident(states'[b])
    BY <2>1, <2>2 DEF UnifiedInv
  <2>4. QED BY <2>1, <2>3 DEF UnifiedInv, BriefTellsTheChange
<1>4. ASSUME NEW prior, NEW current \in BuiltStates, BuildLedger(prior, current) PROVE UnifiedInv'
  <2>1. /\ changes' = changes \cup {[prior |-> prior, current |-> current]}
        /\ UNCHANGED <<states, frameworks, brief>>
    BY <1>4 DEF BuildLedger
  <2>2. Evident(current)
    BY DEF BuiltStates, UnifiedInv
  <2>3. QED BY <2>1, <2>2 DEF UnifiedInv, BriefTellsTheChange
<1>5. ASSUME NEW s, NEW changeLog \in changes, Assess(s, changeLog) PROVE UnifiedInv'
  <2> DEFINE new == [current |-> s, ledger |-> changeLog,
                     states |-> [dim \in Covered(s) |-> Assessment(changeLog, dim)]]
  <2>1. frameworks' = frameworks \cup {new} /\ UNCHANGED <<states, changes, brief>>
    BY <1>5 DEF Assess
  <2>2. FrameworkOK(new)
    BY <1>5 DEF Assess, FrameworkOK
  <2> HIDE DEF new
  <2>3. QED BY <2>1, <2>2 DEF UnifiedInv, BriefTellsTheChange
<1>6. ASSUME NEW s, NEW changeLog \in changes, NEW framework \in frameworks, AssembleBrief(s, changeLog, framework)
      PROVE  UnifiedInv'
  <2>1. s = changeLog.current /\ UNCHANGED <<states, changes, frameworks>>
    BY <1>6 DEF AssembleBrief, Matching
  <2>2. BriefTellsTheChange'
    BY <1>6, <2>1, BriefsTellTheChange DEF UnifiedInv
  <2>3. QED BY <2>1, <2>2 DEF UnifiedInv
<1>7. CASE UNCHANGED unifiedVars
  BY <1>1, <1>7 DEF unifiedVars
<1>8. QED BY <1>2, <1>3, <1>4, <1>5, <1>6, <1>7, Zenon DEF UnifiedNext

-----------------------------------------------------------------------------
(* The transition of the repository *)

(* The manifest goes first, so that no text is raised while a run may still start. *)
TransitionInv ==
  /\ DOMAIN text = Files /\ DOMAIN staged = Files
  /\ \A f \in Files : text[f] \in {-1, 0, 1} /\ staged[f] \in {0, 1}
  /\ copied \in -1..6
  /\ copied >= 0 => staged["BUILD"] = 1
  /\ copied >= 1 => text["BUILD"] # 0
  /\ text["BUILD"] = 0 => \A f \in Files : text[f] <= 0

LEMMA TransitionStarts == TransitionInit => TransitionInv
BY DEF TransitionInit, TransitionInv, Files

LEMMA TransitionKeeps == TransitionInv /\ [TransitionNext]_transitionVars => TransitionInv'
<1> SUFFICES ASSUME TransitionInv, [TransitionNext]_transitionVars PROVE TransitionInv'
  OBVIOUS
<1> USE DEF Files
<1>1. ASSUME NEW given, Prepare(given) PROVE TransitionInv'
  <2>1. \A f \in Files : text[f] <= 0
    BY <1>1 DEF Prepare, Ready, TransitionInv
  <2>2. \A f \in Files :
          staged'[f] = IF f \in {"VERSION", "CHANGELOG", "DOC"} THEN text[f] + 1 ELSE 1
    BY <1>1 DEF Prepare
  <2>3. \A f \in Files : staged'[f] \in {0, 1}
    BY <2>1, <2>2 DEF TransitionInv
  <2>4. staged'["BUILD"] = 1 /\ DOMAIN staged' = Files /\ copied' = 0 /\ text' = text
    BY <1>1, <2>2 DEF Prepare
  <2>5. QED BY <2>3, <2>4 DEF TransitionInv
<1>2. CASE Copy
  <2>1. copied \in 0..6 /\ Len(Order) = 7
    BY <1>2 DEF Copy, Order
  <2>2. PICK f \in Files : /\ f = Order[copied + 1]
                           /\ text' = [text EXCEPT ![f] = staged[f]] \/ text' = [text EXCEPT ![f] = -1]
    BY <1>2, <2>1 DEF Copy, Order
  <2>3. copied = 0 => f = "BUILD"
    BY <2>2 DEF Order
  <2>4. copied' \in {-1, copied + 1} /\ copied' <= 6 /\ staged' = staged
    BY <1>2, <2>1 DEF Copy
  <2>5. DOMAIN text' = Files /\ \A g \in Files : text'[g] \in {-1, 0, 1}
    BY <2>2 DEF TransitionInv
  <2>6. text'["BUILD"] # 0
    <3>1. CASE f = "BUILD"
      BY <2>1, <2>2, <3>1 DEF TransitionInv
    <3>2. CASE f # "BUILD"
      BY <2>1, <2>2, <2>3, <3>2 DEF TransitionInv
    <3>3. QED BY <3>1, <3>2
  <2>7. QED BY <2>1, <2>4, <2>5, <2>6 DEF TransitionInv
<1>3. CASE Die
  BY <1>3 DEF Die, TransitionInv
<1>4. CASE UNCHANGED transitionVars
  BY <1>4 DEF transitionVars, TransitionInv
<1>5. QED BY <1>1, <1>2, <1>3, <1>4 DEF TransitionNext

LEMMA NotRepeated == TransitionInv => TransitionNotRepeated
BY DEF TransitionInv, TransitionNotRepeated

-----------------------------------------------------------------------------
(* The releases *)

(* What the registries expect of a release is what it was accepted on. *)
ReleasesInv ==
  /\ pins = acceptedOn /\ DOMAIN pins = Releases
  /\ ReleasesStandOnTheAccepted

LEMMA ReleasesStart == ReleasesInit => ReleasesInv
BY DEF ReleasesInit, ReleasesInv, ReleasesStandOnTheAccepted

(* A certification that names the root of its candidate or audit stands where that stood. *)
LEMMA ReproducedGround ==
  ASSUME NEW release \in Releases, NEW audit \in Releases, pins = acceptedOn,
         pins[audit] = Stands(audit),
         decision' = [release |-> release, stands |-> Stands(release)], UNCHANGED acceptedOn
  PROVE  SameGround(release, audit)'
<1>1. Stands(audit) # <<>> /\ Stands(audit).behaviour = behaviour
      /\ \A t \in ChainOf[audit] : Stands(audit).chain[t] = files[t]
  BY DEF Stands
<1>2. Stands(release).behaviour = behaviour
      /\ \A t \in ChainOf[release] : Stands(release).chain[t] = files[t]
  BY DEF Stands
<1>3. acceptedOn'[audit] = Stands(audit) /\ decision'.stands = Stands(release)
  OBVIOUS
<1>4. QED BY <1>1, <1>2, <1>3 DEF SameGround

(* A release is issued on accepted files only. *)
LEMMA IssuedOnAccepted ==
  ASSUME ReleasesInv, NEW release \in Releases, NEW passes \in BOOLEAN, Issue(release, passes),
         \A t \in ChainOf[release] : files[t].state \in {"accepted", "mislabelled"},
         release = "M11-010" => pins["M11-009"] = Stands("M11-009"),
         release = "M12-009" => pins["M12-008"] = Stands("M12-008")
  PROVE  ReleasesInv'
<1>1. /\ decision' = [release |-> release, stands |-> Stands(release)]
      /\ UNCHANGED <<repository, pins, acceptedOn>>
  BY DEF Issue
<1>2. decision'.release = release /\ decision'.stands = Stands(release)
  BY <1>1
<1>3. \A t \in ChainOf[release] : Stands(release).chain[t].state \in {"accepted", "mislabelled"}
  BY DEF Stands
<1>4. "M11-009" \in Releases /\ "M12-008" \in Releases
  BY ReleasesAssumption DEF Releases
<1>5. release = "M11-010" => SameGround("M11-010", "M11-009")'
  BY <1>1, <1>4, ReproducedGround DEF ReleasesInv
<1>6. release = "M12-009" => SameGround("M12-009", "M12-008")'
  BY <1>1, <1>4, ReproducedGround DEF ReleasesInv
<1>7. ReleasesStandOnTheAccepted'
  BY <1>2, <1>3, <1>5, <1>6 DEF ReleasesStandOnTheAccepted
<1>8. QED BY <1>1, <1>7 DEF ReleasesInv

LEMMA ReleasesKeep == ReleasesInv /\ [ReleasesNext]_releaseVars => ReleasesInv'
<1> SUFFICES ASSUME ReleasesInv, [ReleasesNext]_releaseVars PROVE ReleasesInv'
  OBVIOUS
<1>0. {"M10-010", "M11-009", "M11-010", "M12-008", "M12-009"} \subseteq Releases
  BY ReleasesAssumption DEF Releases
<1>1. CASE ChangeRepository \/ UNCHANGED releaseVars
  <2>1. UNCHANGED <<pins, decision, acceptedOn>>
    BY <1>1 DEF ChangeRepository, releaseVars
  <2>2. QED BY <2>1 DEF ReleasesInv, ReleasesStandOnTheAccepted, SameGround
<1>2. CASE Issue("M10-010", PlatformRelease)
  BY <1>0, <1>2, IssuedOnAccepted DEF Issue, PlatformRelease, ChainAccepted
<1>3. CASE Issue("M11-009", ProductionCandidate)
  BY <1>0, <1>3, IssuedOnAccepted DEF Issue, ProductionCandidate, ChainAccepted
<1>4. CASE Issue("M11-010", SellerRelease)
  BY <1>0, <1>4, IssuedOnAccepted DEF Issue, SellerRelease, ChainAccepted
<1>5. CASE Issue("M12-008", OperationalAudit)
  BY <1>0, <1>5, IssuedOnAccepted DEF Issue, OperationalAudit, ChainAccepted
<1>6. CASE Issue("M12-009", ExecutionRelease)
  BY <1>0, <1>6, IssuedOnAccepted DEF Issue, ExecutionRelease, Preflight, AuditReproduced
<1>7. CASE AcceptDecision
  <2> DEFINE r == decision.release
  <2>1. /\ pins' = [pins EXCEPT ![r] = decision.stands]
        /\ acceptedOn' = [acceptedOn EXCEPT ![r] = decision.stands]
        /\ decision' = decision
    BY <1>7 DEF AcceptDecision
  <2>2. pins' = acceptedOn' /\ DOMAIN pins' = Releases
    BY <2>1 DEF ReleasesInv
  <2>3. \A audit : audit # r => acceptedOn'[audit] = acceptedOn[audit]
    BY <2>1
  <2>4. r = "M11-010" => acceptedOn'["M11-009"] = acceptedOn["M11-009"]
    BY <2>1
  <2>5. r = "M12-009" => acceptedOn'["M12-008"] = acceptedOn["M12-008"]
    BY <2>1
  <2>6. QED BY <2>1, <2>2, <2>4, <2>5 DEF ReleasesInv, ReleasesStandOnTheAccepted, SameGround
<1>8. QED BY <1>1, <1>2, <1>3, <1>4, <1>5, <1>6, <1>7 DEF ReleasesNext

-----------------------------------------------------------------------------
(* The presentation certification *)

LayerKeys == {"A", "B", "C", "D", "E", "F", "G", "H", "I"}

(* The layers that were run before each phase of a run that has not failed early. *)
RunBefore ==
  [load |-> {}, A |-> {}, first |-> {"A"}, B |-> {"A"}, C |-> {"A", "B"}, D |-> {"A", "B", "C"},
   E |-> {"A", "B", "C", "D"}, F |-> {"A", "B", "C", "D", "E"}, G |-> {"A", "B", "C", "D", "E", "F"},
   H |-> {"A", "B", "C", "D", "E", "F", "G"}, I |-> {"A", "B", "C", "D", "E", "F", "G", "H"}]

(* What a layer's passing shows of the package that was loaded. *)
NeedOf(key) ==
  CASE key = "A" -> {"sixteen"}
    [] key \in {"C", "D", "E"} -> {"projections"}
    [] key = "F" -> {"canaries"}
    [] key = "G" -> {"replays"}
    [] key = "H" -> {"rendered"}
    [] key \in {"B", "I"} -> {}

(* Whether a layer passes in a checkout that nobody edits. *)
Passes(key) ==
  /\ NeedOf(key) \subseteq FixtureFacts[FrozenFixtures]
  /\ key = "A" => tree.records
  /\ key \in {"C", "D", "E"} => tree.policies # "withholding"
  /\ key = "F" => tree.policies # "leaking"
  /\ key = "H" => tree.surfaces

RunShape(r) ==
  r = [phase |-> r.phase, set |-> r.set, first |-> r.first, passed |-> r.passed,
       verdict |-> r.verdict, read |-> r.read, began |-> r.began, loaded |-> r.loaded]

TreeShape(t) ==
  t = [drifted |-> t.drifted, records |-> t.records, fixtures |-> t.fixtures,
       policies |-> t.policies, surfaces |-> t.surfaces, visual |-> t.visual]

RunTypes ==
  /\ RunShape(run) /\ TreeShape(tree) /\ {tree.records, tree.surfaces} \subseteq BOOLEAN
  /\ edits \in Nat /\ run.began \in Nat /\ run.began <= edits
  /\ run.phase \in DOMAIN RunBefore \cup {"idle", "J", "done"}
  /\ tree.policies \in {"isolating", "leaking", "withholding"}
  /\ run.phase \in DOMAIN RunBefore => run.passed \subseteq RunBefore[run.phase]

(* The packages that G and I looked at are the loaded one, where they passed. *)
ReadsAreOfTheSet ==
  /\ run.phase \in {"load", "A", "first", "B", "C", "D", "E", "F", "G"} => run.read = {}
  /\ run.phase \in {"H", "I"} => ("G" \in run.passed => run.read = {run.set})
  /\ run.phase = "J" => ({"G", "I"} \subseteq run.passed => run.read = {run.set})

PassedAreCovered ==
  run.phase # "idle" => \A key \in run.passed : NeedOf(key) \subseteq FixtureFacts[run.set]

LoadedInTime ==
  run.phase \notin {"idle", "load"} => (run.loaded = run.began => run.set = FrozenFixtures)

Undisturbed ==
  (run.phase # "idle" /\ run.began = edits) =>
    /\ tree.fixtures = FrozenFixtures /\ tree.visual = FrozenFixtures
    /\ run.phase # "load" => run.set = FrozenFixtures
    /\ run.phase = "B" => run.first = FrozenFixtures
    /\ run.phase \in DOMAIN RunBefore =>
         \A key \in RunBefore[run.phase] : key \in run.passed <=> Passes(key)
    /\ run.phase = "J" =>
         \/ \E key \in LayerKeys : key \notin run.passed /\ ~ Passes(key)
         \/ \A key \in LayerKeys : key \in run.passed <=> Passes(key)

CertificationInv ==
  /\ RunTypes /\ ReadsAreOfTheSet /\ PassedAreCovered /\ LoadedInTime /\ Undisturbed
  /\ GoIsOfOneFixtureSet

LEMMA CertificationStarts == CertificationInit => CertificationInv
BY DEF CertificationInit, CertificationInv, NoRun, Clean, RunTypes, RunShape, TreeShape, ReadsAreOfTheSet, PassedAreCovered,
       LoadedInTime, Undisturbed, GoIsOfOneFixtureSet, RunBefore

(* The next phase of a layer that does not end the run. *)
NextPhase ==
  [A |-> "first", B |-> "C", C |-> "D", D |-> "E", E |-> "F", F |-> "G", G |-> "H", H |-> "I", I |-> "J"]

LEMMA LayerKeeps ==
  ASSUME CertificationInv, NEW key \in LayerKeys, NEW next, NEW passes \in BOOLEAN, NEW loadedSets,
         Layer(key, next, passes, loadedSets),
         run.began = edits => (passes <=> Passes(key)),
         passes => NeedOf(key) \subseteq FixtureFacts[run.set],
         next = NextPhase[key] \/ (key \in {"A", "B"} /\ next = "J" /\ ~ passes),
         key \notin {"G", "I"} => loadedSets = {},
         passes /\ key \in {"G", "I"} => loadedSets = {run.set}
  PROVE  CertificationInv'
<1>1. /\ run.phase = key /\ run'.phase = next
      /\ run'.read = run.read \cup loadedSets
      /\ run'.passed = IF passes THEN run.passed \cup {key} ELSE run.passed
      /\ run'.set = run.set /\ run'.first = run.first
      /\ run'.began = run.began /\ run'.loaded = run.loaded
      /\ RunShape(run') /\ UNCHANGED <<tree, edits>>
  BY DEF Layer, CertificationInv, RunTypes, RunShape
<1>2. /\ key \in DOMAIN RunBefore /\ run.passed \subseteq RunBefore[key]
  BY <1>1 DEF CertificationInv, RunTypes, RunBefore, LayerKeys
<1>3. CASE key \in {"A", "B"} /\ next = "J" /\ ~ passes
  <2>1. RunTypes'
    BY <1>1, <1>3 DEF CertificationInv, RunTypes, RunBefore
  <2>2. ReadsAreOfTheSet'
    BY <1>1, <1>2, <1>3 DEF ReadsAreOfTheSet, RunBefore
  <2>3. PassedAreCovered' /\ LoadedInTime'
    BY <1>1, <1>3 DEF CertificationInv, PassedAreCovered, LoadedInTime
  <2>4. key \notin run'.passed
    BY <1>1, <1>2, <1>3 DEF RunBefore
  <2>5. Passes(key)' <=> Passes(key)
    BY <1>1 DEF Passes, NeedOf
  <2>6. Undisturbed'
    BY <1>1, <1>3, <2>4, <2>5 DEF CertificationInv, Undisturbed, RunBefore
  <2>7. GoIsOfOneFixtureSet'
    BY <1>1, <1>3 DEF GoIsOfOneFixtureSet
  <2>8. QED BY <2>1, <2>2, <2>3, <2>6, <2>7 DEF CertificationInv
<1>4. CASE next = NextPhase[key]
  <2>1. /\ next \in DOMAIN RunBefore => RunBefore[next] = RunBefore[key] \cup {key}
        /\ next \in DOMAIN RunBefore \cup {"J"} /\ next \notin {"idle", "load", "done"}
        /\ next # "B"
        /\ next = "J" => LayerKeys = RunBefore[key] \cup {key}
    BY <1>4 DEF NextPhase, RunBefore, LayerKeys
  <2>2. RunTypes'
    BY <1>1, <1>2, <2>1 DEF CertificationInv, RunTypes
  <2>3. ReadsAreOfTheSet'
    BY <1>1, <1>2, <1>4 DEF CertificationInv, ReadsAreOfTheSet, RunBefore, NextPhase, LayerKeys
  <2>4. PassedAreCovered' /\ LoadedInTime'
    BY <1>1, <1>2, <2>1 DEF CertificationInv, PassedAreCovered, LoadedInTime, LayerKeys
  <2>5. \A k \in LayerKeys : Passes(k)' <=> Passes(k)
    BY <1>1 DEF Passes, NeedOf
  <2>6. key \notin RunBefore[key]
    BY DEF RunBefore, LayerKeys
  <2>7. ASSUME run.began = edits, NEW k \in RunBefore[key] \cup {key}
        PROVE  k \in run'.passed <=> Passes(k)
    <3>1. key # "idle" /\ key # "load"
      BY DEF LayerKeys
    <3>2. CASE k = key
      BY <1>1, <1>2, <2>6, <2>7, <3>2
    <3>3. CASE k \in RunBefore[key]
      <4>1. k \in run.passed <=> Passes(k)
        BY <1>1, <1>2, <2>7, <3>1, <3>3 DEF CertificationInv, Undisturbed
      <4>2. QED BY <1>1, <2>6, <3>3, <4>1
    <3>4. QED BY <3>2, <3>3
  <2>8. RunBefore[key] \cup {key} \subseteq LayerKeys
    BY DEF RunBefore, LayerKeys
  <2>9. key # "idle" /\ key # "load" /\ next # "idle"
    BY <2>1 DEF LayerKeys
  <2>10. ASSUME run.began = edits
         PROVE  /\ tree.fixtures = FrozenFixtures /\ tree.visual = FrozenFixtures
                /\ run.set = FrozenFixtures
    BY <1>1, <2>9, <2>10 DEF CertificationInv, Undisturbed
  <2>11. Undisturbed'
    BY <1>1, <2>1, <2>5, <2>7, <2>8, <2>10 DEF Undisturbed
  <2>12. GoIsOfOneFixtureSet'
    BY <1>1, <2>1 DEF GoIsOfOneFixtureSet
  <2>13. QED BY <2>2, <2>3, <2>4, <2>11, <2>12 DEF CertificationInv
<1>5. QED BY <1>3, <1>4

(* What gates and criteria ask for, beyond the layers. *)
LEMMA GoNeeds ==
  (/\ LayerKeys \subseteq run.passed
   /\ \A g \in DOMAIN StageGates : StageGates[g]
   /\ \A c \in DOMAIN AcceptanceCriteria : AcceptanceCriteria[c])
    <=> (/\ LayerKeys \subseteq run.passed /\ tree.visual = run.set
         /\ {"viewports", "semantics", "rendered"} \subseteq FixtureFacts[run.set])
<1>1. (\A g \in DOMAIN StageGates : StageGates[g]) =>
        StageGates.I /\ StageGates.F /\ StageGates.G /\ StageGates.H
  BY DEF StageGates
<1>2. StageGates.I = (Passed({"I"}) /\ tree.visual = run.set)
  BY DEF StageGates
<1>3. StageGates.F = Covers("viewports")
  BY DEF StageGates
<1>4. StageGates.G = Covers("semantics")
  BY DEF StageGates
<1>5. StageGates.H = Covers("rendered")
  BY DEF StageGates
<1>6. ASSUME LayerKeys \subseteq run.passed, tree.visual = run.set,
             {"viewports", "semantics", "rendered"} \subseteq FixtureFacts[run.set]
      PROVE  (\A g \in DOMAIN StageGates : StageGates[g])
             /\ \A c \in DOMAIN AcceptanceCriteria : AcceptanceCriteria[c]
  <2>1. ASSUME NEW keys \in SUBSET LayerKeys PROVE Passed(keys)
    BY <1>6 DEF Passed
  <2>2. /\ Passed({"A"}) /\ Passed({"C", "D", "E"}) /\ Passed({"F"}) /\ Passed({"H"}) /\ Passed({"I"})
        /\ Passed({"G"}) /\ Passed({"G", "H"}) /\ Passed({"B", "H"}) /\ Passed(LayerKeys)
    BY <2>1 DEF LayerKeys
  <2>3. Covers("viewports") /\ Covers("semantics") /\ Covers("rendered")
    BY <1>6 DEF Covers
  <2>4. ASSUME NEW g \in DOMAIN StageGates PROVE StageGates[g]
    <3>1. /\ StageGates.A /\ StageGates.B /\ StageGates.C /\ StageGates.D /\ StageGates.E /\ StageGates.F
          /\ StageGates.G /\ StageGates.H /\ StageGates.I /\ StageGates.J /\ StageGates.K /\ StageGates.L
      BY <1>6, <2>2, <2>3 DEF StageGates, LayerKeys
    <3>2. g \in {"A", "B", "C", "D", "E", "F", "G", "H", "I", "J", "K", "L"}
      BY DEF StageGates
    <3> QED BY <3>1, <3>2
  <2>5. ASSUME NEW c \in DOMAIN AcceptanceCriteria PROVE AcceptanceCriteria[c]
    <3>1. (\A g \in DOMAIN StageGates : StageGates[g]) = TRUE
      BY <2>4
    <3>2. /\ StageGates.C /\ StageGates.E /\ StageGates.G /\ StageGates.H /\ StageGates.I
      BY <1>6, <2>2, <2>3 DEF StageGates
    <3>3. c \in 1..12
      BY DEF AcceptanceCriteria
    <3> DEFINE all == \A g \in DOMAIN StageGates : StageGates[g]
    <3>4. AcceptanceCriteria =
            <<Passed({"C", "D", "E"}), Passed({"F"}), StageGates.E, StageGates.C, Passed({"C", "D", "E"}),
              StageGates.H, Passed({"G"}), Passed({"H"}), StageGates.G, StageGates.I, Passed({"I"}), all>>
      BY DEF AcceptanceCriteria
    <3> HIDE DEF all
    <3>5. all
      BY <2>4 DEF all
    <3> DEFINE C == AcceptanceCriteria
    <3>6. /\ C[1] = Passed({"C", "D", "E"}) /\ C[2] = Passed({"F"}) /\ C[3] = StageGates.E
          /\ C[4] = StageGates.C /\ C[5] = Passed({"C", "D", "E"}) /\ C[6] = StageGates.H
          /\ C[7] = Passed({"G"}) /\ C[8] = Passed({"H"}) /\ C[9] = StageGates.G
          /\ C[10] = StageGates.I /\ C[11] = Passed({"I"}) /\ C[12] = all
      BY <3>4
    <3> HIDE DEF C
    <3>7. C[1] /\ C[2] /\ C[3] /\ C[4] /\ C[5] /\ C[6] /\ C[7] /\ C[8] /\ C[9] /\ C[10] /\ C[11] /\ C[12]
      BY <2>2, <3>2, <3>5, <3>6
    <3>8. C[c]
      BY <3>3, <3>7
    <3>9. QED BY <3>8 DEF C
  <2>6. QED BY <2>4, <2>5
<1>7. QED BY <1>1, <1>2, <1>3, <1>4, <1>5, <1>6 DEF Covers

LEMMA LayersKeep ==
  ASSUME CertificationInv,
         LayerA \/ LayerB \/ LayerC \/ LayerD \/ LayerE \/ LayerF \/ LayerG \/ LayerH \/ LayerI
  PROVE  CertificationInv'
<1>1. CASE run.phase \in LayerKeys
  <2>1. run.began = edits =>
          /\ tree.fixtures = FrozenFixtures /\ tree.visual = FrozenFixtures /\ run.set = FrozenFixtures
          /\ run.phase = "B" => run.first = FrozenFixtures
    BY <1>1 DEF CertificationInv, Undisturbed, LayerKeys
  <2>2. /\ {tree.records, tree.surfaces} \subseteq BOOLEAN
        /\ tree.policies \in {"isolating", "leaking", "withholding"}
    BY DEF CertificationInv, RunTypes
  <2> USE DEF Covers, NeedOf, Passes, NextPhase, LayerKeys
  <2>3. CASE LayerA
    <3> DEFINE passes == tree.records /\ Covers("sixteen")
    <3>1. passes \in BOOLEAN /\ (run.began = edits => (passes <=> Passes("A")))
          /\ (passes => NeedOf("A") \subseteq FixtureFacts[run.set])
      BY <2>1, <2>2
    <3>2. Layer("A", IF passes THEN "first" ELSE "J", passes, {})
      BY <2>3 DEF LayerA
    <3> HIDE DEF passes
    <3>3. QED BY <3>1, <3>2, LayerKeeps
  <2>4. CASE LayerB
    <3> DEFINE passes == tree.fixtures = run.first
    <3>1. run.phase = "B"
      BY <2>4 DEF LayerB, Layer
    <3>2. passes \in BOOLEAN /\ (run.began = edits => (passes <=> Passes("B")))
          /\ (passes => NeedOf("B") \subseteq FixtureFacts[run.set])
      BY <2>1, <2>2, <3>1
    <3>3. Layer("B", IF passes THEN "C" ELSE "J", passes, {})
      BY <2>4 DEF LayerB
    <3> HIDE DEF passes
    <3>4. QED BY <3>2, <3>3, LayerKeeps
  <2>5. ASSUME NEW key \in {"C", "D", "E"}, Layer(key, NextPhase[key], Allowed, {}) PROVE CertificationInv'
    <3>1. Allowed \in BOOLEAN /\ (run.began = edits => (Allowed <=> Passes(key)))
          /\ (Allowed => NeedOf(key) \subseteq FixtureFacts[run.set])
      BY <2>1, <2>2, <2>5 DEF Allowed
    <3>2. QED BY <2>5, <3>1, LayerKeeps
  <2>6. CASE LayerF
    <3> DEFINE passes == tree.policies # "leaking" /\ Covers("canaries")
    <3>1. passes \in BOOLEAN /\ (run.began = edits => (passes <=> Passes("F")))
          /\ (passes => NeedOf("F") \subseteq FixtureFacts[run.set])
      BY <2>1, <2>2
    <3>2. Layer("F", "G", passes, {})
      BY <2>6 DEF LayerF
    <3> HIDE DEF passes
    <3>3. QED BY <3>1, <3>2, LayerKeeps
  <2>7. CASE LayerG
    <3> DEFINE passes == Covers("replays") /\ tree.fixtures = run.set
    <3>1. passes \in BOOLEAN /\ (run.began = edits => (passes <=> Passes("G")))
          /\ (passes => NeedOf("G") \subseteq FixtureFacts[run.set])
          /\ (passes => {tree.fixtures} = {run.set})
      BY <2>1, <2>2
    <3>2. Layer("G", "H", passes, {tree.fixtures})
      BY <2>7 DEF LayerG
    <3> HIDE DEF passes
    <3>3. QED BY <3>1, <3>2, LayerKeeps
  <2>8. CASE LayerH
    <3> DEFINE passes == tree.surfaces /\ Covers("rendered")
    <3>1. passes \in BOOLEAN /\ (run.began = edits => (passes <=> Passes("H")))
          /\ (passes => NeedOf("H") \subseteq FixtureFacts[run.set])
      BY <2>1, <2>2
    <3>2. Layer("H", "I", passes, {})
      BY <2>8 DEF LayerH
    <3> HIDE DEF passes
    <3>3. QED BY <3>1, <3>2, LayerKeeps
  <2>9. CASE LayerI
    <3> DEFINE passes == tree.fixtures = run.set /\ tree.visual = run.set
    <3>1. passes \in BOOLEAN /\ (run.began = edits => (passes <=> Passes("I")))
          /\ (passes => NeedOf("I") \subseteq FixtureFacts[run.set])
          /\ (passes => {tree.fixtures, tree.visual} = {run.set})
      BY <2>1, <2>2
    <3>2. Layer("I", "J", passes, {tree.fixtures, tree.visual})
      BY <2>9 DEF LayerI
    <3> HIDE DEF passes
    <3>3. QED BY <3>1, <3>2, LayerKeeps
  <2>10. LayerC \/ LayerD \/ LayerE => CertificationInv'
    BY <2>5 DEF LayerC, LayerD, LayerE
  <2>11. QED BY <2>3, <2>4, <2>6, <2>7, <2>8, <2>9, <2>10
<1>2. QED
  BY <1>1 DEF LayerA, LayerB, LayerC, LayerD, LayerE, LayerF, LayerG, LayerH, LayerI, Layer, LayerKeys

LEMMA AdjudicateKeeps == CertificationInv /\ Adjudicate => CertificationInv'
<1> SUFFICES ASSUME CertificationInv, Adjudicate PROVE CertificationInv'
  OBVIOUS
<1> DEFINE go == /\ LayerKeys \subseteq run.passed /\ tree.visual = run.set
                 /\ {"viewports", "semantics", "rendered"} \subseteq FixtureFacts[run.set]
<1>1. /\ run.phase = "J" /\ run'.phase = "done"
      /\ run'.verdict = "PASS / GO" <=> go
      /\ run'.read = run.read \cup {tree.visual} /\ run'.passed = run.passed /\ run'.set = run.set
      /\ run'.began = run.began /\ run'.loaded = run.loaded
      /\ RunShape(run') /\ UNCHANGED <<tree, edits>>
  <2>1. go <=> (/\ Passed({"A", "B", "C", "D", "E", "F", "G", "H", "I"})
                /\ \A g \in DOMAIN StageGates : StageGates[g]
                /\ \A c \in DOMAIN AcceptanceCriteria : AcceptanceCriteria[c])
    BY GoNeeds DEF Passed, LayerKeys
  <2> DEFINE verdict0 == IF go THEN "PASS / GO" ELSE "FAIL / NO-GO"
  <2>2. run' = [run EXCEPT !.phase = "done", !.read = @ \cup {tree.visual}, !.verdict = verdict0]
    BY <2>1 DEF Adjudicate
  <2>3. verdict0 = "PASS / GO" <=> go
    OBVIOUS
  <2> HIDE DEF go, verdict0
  <2>4. QED BY <2>2, <2>3 DEF Adjudicate, CertificationInv, RunTypes, RunShape
<1>2. ASSUME go
      PROVE  /\ run'.read = {run'.set} /\ FixtureNeeds \subseteq FixtureFacts[run'.set]
             /\ run'.loaded = run'.began => run'.set = FrozenFixtures
  <2>1. run.read = {run.set}
    BY <1>1, <1>2 DEF CertificationInv, ReadsAreOfTheSet, LayerKeys
  <2>2. \A key \in LayerKeys : NeedOf(key) \subseteq FixtureFacts[run.set]
    BY <1>1, <1>2 DEF CertificationInv, PassedAreCovered
  <2>3. {"sixteen", "projections", "canaries", "replays"} \subseteq FixtureFacts[run.set]
    BY <2>2 DEF NeedOf, LayerKeys
  <2>4. QED BY <1>1, <1>2, <2>1, <2>3 DEF CertificationInv, LoadedInTime, FixtureNeeds
<1>3. ASSUME run.began = edits
      PROVE  go <=> Sound
  <2>1. /\ tree.fixtures = FrozenFixtures /\ tree.visual = FrozenFixtures /\ run.set = FrozenFixtures
        /\ \/ \E key \in LayerKeys : key \notin run.passed /\ ~ Passes(key)
           \/ \A key \in LayerKeys : key \in run.passed <=> Passes(key)
    BY <1>1, <1>3 DEF CertificationInv, Undisturbed
  <2>2. Sound <=> /\ \A key \in LayerKeys : Passes(key)
                  /\ {"viewports", "semantics"} \subseteq FixtureFacts[FrozenFixtures]
    <3>1. Sound => \A key \in LayerKeys : Passes(key)
      BY <2>1 DEF Sound, Passes, NeedOf, LayerKeys, FixtureNeeds
    <3>2. ASSUME \A key \in LayerKeys : Passes(key),
                 {"viewports", "semantics"} \subseteq FixtureFacts[FrozenFixtures]
          PROVE  Sound
      <4>1. Passes("A") /\ Passes("C") /\ Passes("F") /\ Passes("G") /\ Passes("H")
        BY <3>2 DEF LayerKeys
      <4>2. QED BY <2>1, <3>2, <4>1 DEF Sound, Passes, NeedOf, FixtureNeeds, CertificationInv, RunTypes
    <3>3. QED BY <2>1, <3>1, <3>2 DEF Sound, FixtureNeeds
  <2>3. (\A key \in LayerKeys : Passes(key)) => "rendered" \in FixtureFacts[FrozenFixtures]
    BY DEF Passes, NeedOf, LayerKeys
  <2>4. QED BY <2>1, <2>2, <2>3
<1>4. Sound' <=> Sound
  BY <1>1 DEF Sound
<1> HIDE DEF go
<1>5. GoIsOfOneFixtureSet'
  BY <1>1, <1>2, <1>3, <1>4 DEF GoIsOfOneFixtureSet
<1>6. QED
  BY <1>1, <1>5 DEF CertificationInv, RunTypes, ReadsAreOfTheSet, PassedAreCovered, LoadedInTime, Undisturbed,
                    RunBefore

LEMMA CertificationKeeps == CertificationInv /\ [CertificationNext]_certificationVars => CertificationInv'
<1> SUFFICES ASSUME CertificationInv, [CertificationNext]_certificationVars PROVE CertificationInv'
  OBVIOUS
<1>1. CASE EditTree
  <2>1. edits' = edits + 1 /\ run' = run /\ edits \in Nat /\ run.began <= edits /\ run.began \in Nat
    BY <1>1 DEF EditTree, CertificationInv, RunTypes
  <2>2. /\ TreeShape(tree') /\ {tree'.records, tree'.surfaces} \subseteq BOOLEAN
        /\ tree'.policies \in {"isolating", "leaking", "withholding"}
    BY <1>1 DEF EditTree, CertificationInv, RunTypes, TreeShape
  <2>3. RunTypes'
    BY <2>1, <2>2 DEF CertificationInv, RunTypes
  <2>4. run'.began # edits'
    BY <2>1
  <2>5. ReadsAreOfTheSet' /\ PassedAreCovered' /\ LoadedInTime' /\ Undisturbed'
    BY <2>1, <2>4 DEF CertificationInv, ReadsAreOfTheSet, PassedAreCovered, LoadedInTime, Undisturbed
  <2>6. GoIsOfOneFixtureSet'
    BY <2>1, <2>4 DEF CertificationInv, GoIsOfOneFixtureSet
  <2>7. QED BY <2>3, <2>5, <2>6 DEF CertificationInv
<1>2. CASE HashSources
  <2>1. /\ run'.phase = "load" /\ run'.passed = {} /\ run'.read = {} /\ run'.began = edits
        /\ RunShape(run') /\ UNCHANGED <<tree, edits>>
        /\ tree.fixtures = FrozenFixtures /\ tree.visual = FrozenFixtures
    BY <1>2 DEF HashSources, NoRun, RunShape
  <2>2. RunTypes'
    BY <2>1 DEF CertificationInv, RunTypes, RunBefore
  <2>3. ReadsAreOfTheSet' /\ PassedAreCovered' /\ LoadedInTime' /\ GoIsOfOneFixtureSet'
    BY <2>1 DEF ReadsAreOfTheSet, PassedAreCovered, LoadedInTime, GoIsOfOneFixtureSet
  <2>4. Undisturbed'
    BY <2>1 DEF Undisturbed, RunBefore
  <2>5. QED BY <2>2, <2>3, <2>4 DEF CertificationInv
<1>3. CASE LoadFixtures
  <2>1. /\ run.phase = "load" /\ run'.phase = "A" /\ run'.set = tree.fixtures /\ run'.loaded = edits
        /\ run'.read = run.read /\ run'.passed = run.passed /\ run'.began = run.began
        /\ RunShape(run') /\ UNCHANGED <<tree, edits>>
    BY <1>3 DEF LoadFixtures, CertificationInv, RunTypes, RunShape
  <2>2. run.passed = {}
    BY <2>1 DEF CertificationInv, RunTypes, RunBefore
  <2>3. RunTypes'
    BY <2>1, <2>2 DEF CertificationInv, RunTypes, RunBefore
  <2>4. ReadsAreOfTheSet' /\ PassedAreCovered' /\ GoIsOfOneFixtureSet'
    BY <2>1, <2>2 DEF CertificationInv, ReadsAreOfTheSet, PassedAreCovered, GoIsOfOneFixtureSet
  <2>5. run.began = edits => tree.fixtures = FrozenFixtures
    BY <2>1 DEF CertificationInv, Undisturbed
  <2>6. LoadedInTime'
    BY <2>1, <2>5 DEF LoadedInTime
  <2>7. Undisturbed'
    BY <2>1, <2>2 DEF CertificationInv, Undisturbed, RunBefore
  <2>8. QED BY <2>3, <2>4, <2>6, <2>7 DEF CertificationInv
<1>4. CASE LayerBFirst
  <2>1. /\ run.phase = "first" /\ run'.phase = "B" /\ run'.first = tree.fixtures /\ run'.set = run.set
        /\ run'.read = run.read /\ run'.passed = run.passed /\ run'.began = run.began
        /\ run'.loaded = run.loaded /\ RunShape(run') /\ UNCHANGED <<tree, edits>>
    BY <1>4 DEF LayerBFirst, CertificationInv, RunTypes, RunShape
  <2>2. RunBefore["first"] = RunBefore["B"] /\ {"first", "B"} \subseteq DOMAIN RunBefore
    BY DEF RunBefore
  <2>3. Passes("A")' <=> Passes("A")
    BY <2>1 DEF Passes, NeedOf
  <2>4. RunTypes' /\ ReadsAreOfTheSet' /\ PassedAreCovered' /\ LoadedInTime' /\ GoIsOfOneFixtureSet'
    BY <2>1, <2>2 DEF CertificationInv, RunTypes, ReadsAreOfTheSet, PassedAreCovered, LoadedInTime,
                      GoIsOfOneFixtureSet
  <2>5. Undisturbed'
    BY <2>1, <2>2, <2>3 DEF CertificationInv, Undisturbed, RunBefore
  <2>6. QED BY <2>4, <2>5 DEF CertificationInv
<1>5. CASE UNCHANGED certificationVars
  <2>1. UNCHANGED <<tree, edits, run>>
    BY <1>5 DEF certificationVars
  <2>2. (\A key : Passes(key)' <=> Passes(key)) /\ (Sound' <=> Sound)
    BY <2>1 DEF Passes, Sound
  <2>3. RunTypes' /\ ReadsAreOfTheSet' /\ PassedAreCovered' /\ LoadedInTime'
    BY <2>1 DEF CertificationInv, RunTypes, ReadsAreOfTheSet, PassedAreCovered, LoadedInTime
  <2>4. Undisturbed'
    BY <2>1, <2>2 DEF CertificationInv, Undisturbed
  <2>5. GoIsOfOneFixtureSet'
    BY <2>1, <2>2 DEF CertificationInv, GoIsOfOneFixtureSet
  <2>6. QED BY <2>3, <2>4, <2>5 DEF CertificationInv
<1>6. QED BY <1>1, <1>2, <1>3, <1>4, <1>5, LayersKeep, AdjudicateKeeps DEF CertificationNext

-----------------------------------------------------------------------------
(* The patterns *)

Directions == {"NULL", "POSITIVE", "NEGATIVE"}

LEMMA EstimateOfPopulation ==
  ASSUME NEW pop \in Populations, NEW readings
  PROVE  /\ Estimate(pop, readings).population = pop
         /\ Estimate(pop, readings).n \in Nat
         /\ Estimate(pop, readings).direction \in Directions
<1>1. Cardinality(Members(pop)) \in Nat
  BY PatternAssumption, FS_Subset, FS_CardinalityType DEF Members
<1>2. QED BY <1>1 DEF Estimate, Directions

EstimateOK(e, minimum) == e.n >= minimum /\ e.direction \in Directions \ {"NULL"}

Confirmed(c) ==
  /\ EstimateOK(c.validation, MinimumConfirmation) /\ c.validation.direction = c.found.direction
  /\ EstimateOK(c.replication, MinimumConfirmation) /\ c.replication.direction = c.found.direction
  /\ Independent(c.discovery, c.validation.population)
  /\ Independent(c.discovery, c.replication.population)
  /\ Independent(c.validation.population, c.replication.population)

(* What the state of a candidate says of its estimates. *)
CandidateOK(c) ==
  /\ c.state \in {"VALIDATION_REQUIRED", "REPLICATED", "PROMOTED"} => EstimateOK(c.found, MinimumDiscovery)
  /\ c.state \in {"REPLICATED", "PROMOTED"} => Confirmed(c)

CandidateShape(c) ==
  c = [discovery |-> c.discovery, found |-> c.found, validation |-> c.validation,
       replication |-> c.replication, state |-> c.state, ledger |-> c.ledger]

PatternInv == \A c \in candidates : CandidateShape(c) /\ CandidateOK(c)

LEMMA PatternStarts == PatternInit => PatternInv
BY DEF PatternInit, PatternInv

LEMMA PatternKeeps == PatternInv /\ [PatternNext]_patternVars => PatternInv'
<1> SUFFICES ASSUME PatternInv, [PatternNext]_patternVars PROVE PatternInv'
  OBVIOUS
<1>1. ASSUME NEW new, candidates' = candidates \cup {new}, CandidateShape(new), CandidateOK(new)
      PROVE  PatternInv'
  BY <1>1 DEF PatternInv
<1>2. ASSUME NEW pop \in Populations, NEW readings, Discover(pop, readings) PROVE PatternInv'
  <2> DEFINE e == Estimate(pop, readings)
             new == Pattern(pop, e, <<>>, <<>>, DiscoveryState(e))
  <2>1. e.n \in Nat /\ e.direction \in Directions
    BY EstimateOfPopulation
  <2>2. candidates' = candidates \cup {new}
    BY <1>2 DEF Discover
  <2> HIDE DEF e
  <2>3. /\ DiscoveryState(e) \in {"NULL_RESULT", "NOT_ELIGIBLE", "VALIDATION_REQUIRED"}
        /\ DiscoveryState(e) = "VALIDATION_REQUIRED" => EstimateOK(e, MinimumDiscovery)
    BY <2>1, PatternAssumption DEF DiscoveryState, EstimateOK
  <2>4. CandidateShape(new) /\ CandidateOK(new)
    BY <2>3 DEF CandidateShape, CandidateOK, Pattern
  <2> HIDE DEF new
  <2>5. QED BY <2>2, <2>4, <1>1
<1>3. ASSUME NEW c \in candidates, NEW readings, NEW discovery \in Populations,
             NEW validation \in Populations, NEW replication \in Populations,
             Replicate(c, discovery, validation, replication, readings)
      PROVE  PatternInv'
  <2> DEFINE v == Estimate(validation, readings)
             r == Estimate(replication, readings)
             state == IF ReplicationReasons(c.found, v, r) = {} THEN "REPLICATED" ELSE "REPLICATION_FAILED"
             new == Pattern(discovery, c.found, v, r, state)
  <2>1. /\ v.population = validation /\ v.n \in Nat /\ v.direction \in Directions
        /\ r.population = replication /\ r.n \in Nat /\ r.direction \in Directions
    BY EstimateOfPopulation
  <2>2. /\ candidates' = candidates \cup {new}
        /\ c.state = "VALIDATION_REQUIRED"
        /\ Independent(discovery, validation) /\ Independent(discovery, replication)
        /\ Independent(validation, replication)
    BY <1>3 DEF Replicate
  <2>3. EstimateOK(c.found, MinimumDiscovery)
    BY <2>2 DEF PatternInv, CandidateOK
  <2> HIDE DEF v, r
  <2>4. ASSUME ReplicationReasons(c.found, v, r) = {}
        PROVE  /\ EstimateOK(v, MinimumConfirmation) /\ v.direction = c.found.direction
               /\ EstimateOK(r, MinimumConfirmation) /\ r.direction = c.found.direction
    <3>1. ~ (v.n < MinimumConfirmation \/ r.n < MinimumConfirmation)
      BY <2>4 DEF ReplicationReasons
    <3>2. {v.direction, r.direction} = {c.found.direction}
      BY <2>4 DEF ReplicationReasons
    <3>3. v.direction = c.found.direction /\ r.direction = c.found.direction
      BY <3>2
    <3>4. QED BY <2>1, <2>3, <3>1, <3>3, PatternAssumption DEF EstimateOK
  <2>5. state \in {"REPLICATED", "REPLICATION_FAILED"}
        /\ (state = "REPLICATED" => ReplicationReasons(c.found, v, r) = {})
    OBVIOUS
  <2> HIDE DEF state
  <2>6. /\ CandidateShape(new) /\ new.found = c.found /\ new.state = state /\ new.discovery = discovery
        /\ new.validation = v /\ new.replication = r
    BY DEF CandidateShape, Pattern
  <2> HIDE DEF new
  <2>7. state = "REPLICATED" => Confirmed(new)
    BY <2>1, <2>2, <2>4, <2>5, <2>6 DEF Confirmed
  <2>8. CandidateOK(new)
    BY <2>3, <2>5, <2>6, <2>7 DEF CandidateOK
  <2>9. QED BY <2>2, <2>6, <2>8, <1>1
<1>4. ASSUME NEW c \in candidates, Promote(c) PROVE PatternInv'
  <2> DEFINE new == [c EXCEPT !.state = "PROMOTED"]
  <2>1. candidates' = candidates \cup {new} /\ c.state = "REPLICATED"
    BY <1>4 DEF Promote
  <2>2. CandidateShape(c) /\ Confirmed(c) /\ EstimateOK(c.found, MinimumDiscovery)
    BY <2>1 DEF PatternInv, CandidateOK
  <2>3. /\ CandidateShape(new) /\ new.found = c.found /\ new.discovery = c.discovery
        /\ new.validation = c.validation /\ new.replication = c.replication
    BY <2>2 DEF CandidateShape
  <2> HIDE DEF new
  <2>4. CandidateOK(new)
    BY <2>2, <2>3 DEF CandidateOK, Confirmed
  <2>5. QED BY <2>1, <2>3, <2>4, <1>1
<1>5. CASE LedgerGrows \/ UNCHANGED patternVars
  BY <1>5 DEF LedgerGrows, patternVars, PatternInv
<1>6. QED BY <1>2, <1>3, <1>4, <1>5, Zenon DEF PatternNext

LEMMA PromotedReplicated == PatternInv => PromotedIsReplicated
<1> SUFFICES ASSUME PatternInv, NEW c \in candidates, c.state = "PROMOTED", c.found.population = c.discovery
             PROVE  LET used == <<c.found, c.validation, c.replication>> IN
                      /\ {used[i].direction : i \in 1..3} \in {{"POSITIVE"}, {"NEGATIVE"}}
                      /\ \A i, j \in 1..3 : i < j =>
                           Members(used[i].population) \cap Members(used[j].population) = {}
                      /\ used[1].n >= MinimumDiscovery /\ used[2].n >= MinimumConfirmation
                      /\ used[3].n >= MinimumConfirmation
  BY DEF PromotedIsReplicated
<1> DEFINE used == <<c.found, c.validation, c.replication>>
<1>1. Confirmed(c) /\ EstimateOK(c.found, MinimumDiscovery)
  BY DEF PatternInv, CandidateOK
<1>2. used[1] = c.found /\ used[2] = c.validation /\ used[3] = c.replication
  OBVIOUS
<1> HIDE DEF used
<1>3. \A i \in 1..3 : used[i].direction = c.found.direction
  BY <1>1, <1>2 DEF Confirmed
<1>4. {used[i].direction : i \in 1..3} = {c.found.direction}
  BY <1>3
<1>5. c.found.direction \in {"POSITIVE", "NEGATIVE"}
  BY <1>1 DEF EstimateOK, Directions
<1>6. ASSUME NEW i \in 1..3, NEW j \in 1..3, i < j
      PROVE  Members(used[i].population) \cap Members(used[j].population) = {}
  <2>1. <<i, j>> \in {<<1, 2>>, <<1, 3>>, <<2, 3>>}
    BY <1>6
  <2>2. QED BY <1>1, <1>2, <2>1 DEF Confirmed, Independent
<1>7. used[1].n >= MinimumDiscovery /\ used[2].n >= MinimumConfirmation /\ used[3].n >= MinimumConfirmation
  BY <1>1, <1>2 DEF Confirmed, EstimateOK
<1>8. QED BY <1>4, <1>5, <1>6, <1>7 DEF used

-----------------------------------------------------------------------------
(* The temporal refresh *)

LEMMA SameInputsReflexive == ASSUME NEW x, NEW o PROVE SameInputs(x, o, o)
BY DEF SameInputs

LEMMA SameInputsTransitive ==
  ASSUME NEW x, NEW o1, NEW o2, NEW o3, SameInputs(x, o1, o2), SameInputs(x, o2, o3)
  PROVE  SameInputs(x, o1, o3)
<1> DEFINE Governs(domain) == x.type \in DependencyRules(domain)
           Own(o) == {p \in DOMAIN Observations[o].properties : x.scope = "PROPERTY" /\ p = x.object}
           Entries(o) == {e \in Observations[o].manifest : Governs(ManifestDomain[e.kind])}
<1>1. \A f \in DOMAIN CommunityFields : Governs(CommunityFields[f]) => Observations[o1][f] = Observations[o3][f]
  BY DEF SameInputs
<1>2. Own(o1) = Own(o2) /\ Own(o2) = Own(o3)
  BY DEF SameInputs
<1>3. Entries(o1) = Entries(o2) /\ Entries(o2) = Entries(o3)
  BY DEF SameInputs
<1>4. \A p \in Own(o1) \cap Own(o2), f \in DOMAIN PropertyFields :
        Governs(PropertyFields[f]) => Observations[o1].properties[p][f] = Observations[o2].properties[p][f]
  BY DEF SameInputs
<1>5. \A p \in Own(o2) \cap Own(o3), f \in DOMAIN PropertyFields :
        Governs(PropertyFields[f]) => Observations[o2].properties[p][f] = Observations[o3].properties[p][f]
  BY DEF SameInputs
<1> HIDE DEF Governs, Own, Entries
<1>6. \A p \in Own(o1) \cap Own(o3), f \in DOMAIN PropertyFields :
        Governs(PropertyFields[f]) => Observations[o1].properties[p][f] = Observations[o3].properties[p][f]
  BY <1>2, <1>4, <1>5
<1>7. Own(o1) = Own(o3) /\ Entries(o1) = Entries(o3)
  BY <1>2, <1>3
<1>8. QED BY <1>1, <1>6, <1>7 DEF SameInputs, Governs, Own, Entries

(* A record that no change of a delta targets is made from the same inputs before and after. *)
LEMMA UntargetedSame ==
  ASSUME NEW x \in Artifacts, NEW before, NEW after,
         ~ \E c \in Changes(before, after) : Targets(c, x)
  PROVE  SameInputs(x, before, after)
<1> DEFINE b == Observations[before]
           a == Observations[after]
           Governs(domain) == x.type \in DependencyRules(domain)
           Own(o) == {p \in DOMAIN Observations[o].properties : x.scope = "PROPERTY" /\ p = x.object}
           Entries(o) == {e \in Observations[o].manifest : Governs(ManifestDomain[e.kind])}
<1>1. ASSUME NEW c \in CommunityChanges(b, a) \cup PropertyChanges(b, a) \cup ManifestChanges(b, a),
             c.class # "UNCHANGED"
      PROVE  ~ Targets(c, x)
  BY <1>1 DEF Changes
<1>2. ASSUME NEW f, NEW v, NEW w, v # w PROVE Classified(f, v, w) # "UNCHANGED"
  BY <1>2 DEF Classified
<1>3. ASSUME NEW f \in DOMAIN CommunityFields, Governs(CommunityFields[f]) PROVE b[f] = a[f]
  <2> DEFINE c == Change("COMMUNITY", "COMMUNITY", CommunityFields[f], f, Classified(f, b[f], a[f]))
  <2>1. c \in CommunityChanges(b, a)
    BY DEF CommunityChanges
  <2>2. Targets(c, x)
    BY <1>3 DEF Targets, Change
  <2>3. c.class = Classified(f, b[f], a[f])
    BY DEF Change
  <2> HIDE DEF c
  <2>4. QED BY <1>1, <1>2, <2>1, <2>2, <2>3
<1>4. Governs("PROPERTY")
  BY TemporalAssumption DEF DependencyRules
<1>5. ASSUME NEW p, p = x.object, x.scope = "PROPERTY"
      PROVE  p \in DOMAIN b.properties <=> p \in DOMAIN a.properties
  <2> DEFINE c(class) == Change("PROPERTY", p, "PROPERTY", "property", class)
  <2>1. ASSUME p \in DOMAIN b.properties, p \notin DOMAIN a.properties PROVE FALSE
    <3>1. c("REMOVED") \in PropertyChanges(b, a)
      BY <2>1 DEF PropertyChanges
    <3>2. Targets(c("REMOVED"), x) /\ c("REMOVED").class # "UNCHANGED"
      BY <1>4, <1>5 DEF Targets, Change
    <3> HIDE DEF c
    <3>3. QED BY <1>1, <3>1, <3>2
  <2>2. ASSUME p \in DOMAIN a.properties, p \notin DOMAIN b.properties PROVE FALSE
    <3>1. c("ADDED") \in PropertyChanges(b, a)
      BY <2>2 DEF PropertyChanges
    <3>2. Targets(c("ADDED"), x) /\ c("ADDED").class # "UNCHANGED"
      BY <1>4, <1>5 DEF Targets, Change
    <3> HIDE DEF c
    <3>3. QED BY <1>1, <3>1, <3>2
  <2>3. QED BY <2>1, <2>2
<1>6. Own(before) = Own(after)
  BY <1>5
<1>7. ASSUME NEW e, e \in b.manifest \cup a.manifest, Governs(ManifestDomain[e.kind])
      PROVE  e \in b.manifest <=> e \in a.manifest
  <2> DEFINE class == ManifestClass(b, a, e.kind, e.id)
             c == Change("MANIFEST", e.id, ManifestDomain[e.kind], "manifest_entry", class)
  <2>1. c \in ManifestChanges(b, a)
    BY <1>7 DEF ManifestChanges
  <2>2. Targets(c, x) /\ c.class = class
    BY <1>7 DEF Targets, Change
  <2> HIDE DEF c
  <2>3. class = "UNCHANGED"
    BY <1>1, <2>1, <2>2
  <2> DEFINE be == {y \in b.manifest : y.kind = e.kind /\ y.id = e.id}
             ae == {y \in a.manifest : y.kind = e.kind /\ y.id = e.id}
  <2>4. be = ae
    BY <2>3, <1>7 DEF ManifestClass
  <2>5. QED BY <2>4
<1>8. Entries(before) = Entries(after)
  BY <1>7
<1>9. ASSUME NEW p \in Own(before) \cap Own(after), NEW f \in DOMAIN PropertyFields, Governs(PropertyFields[f])
      PROVE  b.properties[p][f] = a.properties[p][f]
  <2> DEFINE class == Classified(f, b.properties[p][f], a.properties[p][f])
             c == Change("PROPERTY", p, PropertyFields[f], f, class)
  <2>1. c \in PropertyChanges(b, a)
    BY <1>9 DEF PropertyChanges
  <2>2. Targets(c, x) /\ c.class = class
    BY <1>9 DEF Targets, Change
  <2> HIDE DEF c
  <2>3. class = "UNCHANGED"
    BY <1>1, <2>1, <2>2
  <2>4. QED BY <1>2, <2>3
<1> HIDE DEF Own, Entries, Governs
<1>10. QED BY <1>3, <1>6, <1>8, <1>9 DEF SameInputs, Own, Entries, Governs

(* A delta is of two snapshots that were both known when it was detected. *)
DeltaOK(d) ==
  /\ d = [before |-> d.before, after |-> d.after, detected |-> d.detected, state |-> d.state]
  /\ d.detected \in Int
  /\ \A o \in {d.before, d.after} : o \in DOMAIN Observations /\ Observations[o].cutoff <= d.detected

PlanOK(plan) ==
  /\ plan.current # <<>>
  /\ plan.refresh =
       {x \in Artifacts : \E c \in Changes(plan.delta.before, plan.delta.after) : Targets(c, x)}

EntryOK(e) ==
  e.type = "DELTA" =>
    /\ e.known \in Int
    /\ \A o \in {e.id[2], e.id[3]} : o \in DOMAIN Observations /\ Observations[o].cutoff <= e.known

SnapshotsInTime ==
  /\ DOMAIN snapshots = DOMAIN Observations
  /\ \A o \in DOMAIN Observations : snapshots[o] # "none" => Temporal(Observations[o])

RecordsAreCurrent ==
  (~ gap /\ records # <<>>) => \A x \in Artifacts : SameInputs(x, records[x].source, at)

TemporalInv ==
  /\ SnapshotsInTime
  /\ \A d \in deltas : DeltaOK(d)
  /\ \A plan \in plans : PlanOK(plan)
  /\ \A e \in ledger : EntryOK(e) /\ e.previous \subseteq ledger
  /\ gap \in BOOLEAN /\ RecordsAreCurrent

LEMMA TemporalStarts == TemporalInit => TemporalInv
BY DEF TemporalInit, TemporalInv, SnapshotsInTime, RecordsAreCurrent

LEMMA RecordsKeep ==
  ASSUME TemporalInv,
         (\E o \in DOMAIN Observations : Derive(o)) \/ (\E plan \in plans : Apply(plan))
  PROVE  TemporalInv'
<1>1. ASSUME NEW o \in DOMAIN Observations, Derive(o) PROVE TemporalInv'
  <2>1. /\ records' = [x \in Artifacts |-> [source |-> o, lineage |-> {}]] /\ at' = o
        /\ UNCHANGED <<snapshots, deltas, plans, ledger, gap>>
    BY <1>1 DEF Derive
  <2>2. RecordsAreCurrent'
    BY <2>1, SameInputsReflexive DEF RecordsAreCurrent
  <2>3. QED BY <2>1, <2>2 DEF TemporalInv, SnapshotsInTime
<1>2. ASSUME NEW plan \in plans, Apply(plan) PROVE TemporalInv'
  <2> DEFINE before == plan.delta.before
             after == plan.delta.after
  <2>1. /\ records = plan.current
        /\ records' = [x \in Artifacts |-> IF x \in plan.refresh
                                           THEN [source |-> after, lineage |-> {before, after}]
                                           ELSE records[x]]
        /\ gap' = (gap \/ before # at) /\ at' = after
        /\ UNCHANGED <<snapshots, deltas, plans, ledger>>
    BY <1>2 DEF Apply, Undrifted
  <2>2. /\ records # <<>>
        /\ plan.refresh = {x \in Artifacts : \E c \in Changes(before, after) : Targets(c, x)}
    BY <2>1 DEF TemporalInv, PlanOK
  <2> HIDE DEF before, after
  <2>3. ASSUME ~ gap', NEW x \in Artifacts PROVE SameInputs(x, records'[x].source, at')
    <3>1. ~ gap /\ before = at
      BY <2>1, <2>3
    <3>2. CASE x \in plan.refresh
      BY <2>1, <3>2, SameInputsReflexive
    <3>3. CASE x \notin plan.refresh
      <4>1. records'[x] = records[x]
        BY <2>1, <3>3
      <4>2. SameInputs(x, records[x].source, at)
        BY <2>2, <3>1 DEF TemporalInv, RecordsAreCurrent
      <4>3. SameInputs(x, before, after)
        BY <2>2, <3>3, UntargetedSame
      <4>4. QED BY <2>1, <3>1, <4>1, <4>2, <4>3, SameInputsTransitive
    <3>4. QED BY <3>2, <3>3
  <2>4. RecordsAreCurrent'
    BY <2>3 DEF RecordsAreCurrent
  <2>5. gap' \in BOOLEAN
    BY <2>1 DEF TemporalInv
  <2>6. QED BY <2>1, <2>4, <2>5 DEF TemporalInv, SnapshotsInTime
<1>3. QED BY <1>1, <1>2

LEMMA OtherEntries ==
  ASSUME NEW type, NEW name, NEW valid, NEW known, NEW previous, type # "DELTA"
  PROVE  EntryOK(Entry(type, name, valid, known, previous))
<1>1. Entry(type, name, valid, known, previous).type = type
  BY DEF Entry
<1>2. QED BY <1>1 DEF EntryOK

LEMMA DeltaEntriesInTime ==
  ASSUME NEW d, DeltaOK(d), NEW e \in DeltaEntries(d)
  PROVE  EntryOK(e)
<1>1. PICK c \in Changes(d.before, d.after) :
        e = Entry("DELTA", <<d.before, d.after, c>>, Observations[d.after].observed, d.detected, {})
  BY DEF DeltaEntries
<1>2. e.id = <<"DELTA">> \o <<d.before, d.after, c>> /\ e.known = d.detected
  BY <1>1 DEF Entry
<1>3. e.id[2] = d.before /\ e.id[3] = d.after
  BY <1>2
<1>4. QED BY <1>2, <1>3 DEF DeltaOK, EntryOK

LEMMA LedgerKeeps ==
  ASSUME TemporalInv, NEW entries, AppendEntries(entries), \A e \in entries : EntryOK(e)
  PROVE  TemporalInv'
<1>1. /\ ledger' = ledger \cup entries /\ \A e \in entries : e.previous \subseteq ledger
      /\ UNCHANGED <<snapshots, deltas, records, plans, results, at, gap>>
  BY DEF AppendEntries, Appendable
<1>2. \A e \in ledger' : EntryOK(e) /\ e.previous \subseteq ledger'
  BY <1>1 DEF TemporalInv
<1>3. QED BY <1>1, <1>2 DEF TemporalInv, SnapshotsInTime, RecordsAreCurrent

LEMMA TemporalKeeps == TemporalInv /\ [TemporalNext]_temporalVars => TemporalInv'
<1> SUFFICES ASSUME TemporalInv, [TemporalNext]_temporalVars PROVE TemporalInv'
  OBVIOUS
<1>1. ASSUME NEW o \in DOMAIN Observations, BuildSnapshot(o) \/ CertifySnapshot(o) PROVE TemporalInv'
  <2>1. SnapshotsInTime'
    BY <1>1 DEF BuildSnapshot, CertifySnapshot, TemporalInv, SnapshotsInTime
  <2>2. UNCHANGED <<deltas, records, plans, results, ledger, at, gap>>
    BY <1>1 DEF BuildSnapshot, CertifySnapshot
  <2>3. QED BY <2>1, <2>2 DEF TemporalInv, RecordsAreCurrent
<1>2. ASSUME NEW b \in DOMAIN Observations, NEW a \in DOMAIN Observations, NEW t \in Int,
             BuildDelta(b, a, t)
      PROVE  TemporalInv'
  <2> DEFINE d == [before |-> b, after |-> a, detected |-> t, state |-> "DRAFT"]
  <2>1. deltas' = deltas \cup {d} /\ UNCHANGED <<snapshots, records, plans, results, ledger, at, gap>>
    BY <1>2 DEF BuildDelta
  <2>2. Temporal(Observations[b]) /\ Temporal(Observations[a])
    BY <1>2 DEF BuildDelta, Comparable, TemporalInv, SnapshotsInTime
  <2>3. /\ Observations[b].cutoff <= Observations[b].observed
        /\ Observations[a].cutoff <= Observations[a].observed
        /\ Observations[b].observed < Observations[a].observed /\ Observations[a].observed <= t
    BY <1>2, <2>2 DEF BuildDelta, Temporal
  <2>4. /\ {Observations[b].observed, Observations[b].cutoff} \subseteq Int
        /\ {Observations[a].observed, Observations[a].cutoff} \subseteq Int
    BY TemporalAssumption
  <2>5. Observations[b].cutoff <= t /\ Observations[a].cutoff <= t
    BY <2>3, <2>4
  <2>6. DeltaOK(d)
    BY <2>5 DEF DeltaOK
  <2> HIDE DEF d
  <2>7. QED BY <2>1, <2>6 DEF TemporalInv, SnapshotsInTime, RecordsAreCurrent
<1>3. ASSUME NEW d \in deltas, CertifyDelta(d) PROVE TemporalInv'
  <2> DEFINE new == [d EXCEPT !.state = "CERTIFIED"]
  <2>1. /\ deltas' = (deltas \ {d}) \cup {new}
        /\ UNCHANGED <<snapshots, records, plans, results, ledger, at, gap>>
    BY <1>3 DEF CertifyDelta
  <2>2. DeltaOK(new)
    <3>1. DeltaOK(d)
      BY DEF TemporalInv
    <3>2. /\ new.before = d.before /\ new.after = d.after /\ new.detected = d.detected
          /\ new = [before |-> d.before, after |-> d.after, detected |-> d.detected, state |-> "CERTIFIED"]
      BY <3>1 DEF DeltaOK
    <3> HIDE DEF new
    <3>3. new.state = "CERTIFIED"
      BY <3>2
    <3>4. QED BY <3>1, <3>2, <3>3 DEF DeltaOK
  <2> HIDE DEF new
  <2>3. QED BY <2>1, <2>2 DEF TemporalInv, SnapshotsInTime, RecordsAreCurrent
<1>4. ASSUME NEW d \in deltas, NEW id, BuildPlan(id, d) PROVE TemporalInv'
  <2> DEFINE new == [id |-> id, delta |-> d, current |-> records,
                     refresh |-> {x \in Artifacts : \E c \in Changes(d.before, d.after) : Targets(c, x)}]
  <2>1. /\ plans' = plans \cup {new} /\ records # <<>>
        /\ UNCHANGED <<snapshots, deltas, records, results, ledger, at, gap>>
    BY <1>4 DEF BuildPlan
  <2>2. PlanOK(new)
    BY <2>1 DEF PlanOK
  <2> HIDE DEF new
  <2>3. QED BY <2>1, <2>2 DEF TemporalInv, SnapshotsInTime, RecordsAreCurrent
<1>5. ASSUME NEW o \in DOMAIN Observations, AppendEntries(SnapshotEntries(o)) PROVE TemporalInv'
  <2>1. ASSUME NEW e \in SnapshotEntries(o) PROVE EntryOK(e)
    <3>1. PICK object : e = Entry("SNAPSHOT", <<o, object>>, Observations[o].observed, Observations[o].cutoff, {})
      BY <2>1 DEF SnapshotEntries
    <3>2. QED BY <3>1, OtherEntries, Zenon
  <2>2. QED BY <1>5, <2>1, LedgerKeeps
<1>6. ASSUME NEW d \in deltas, AppendEntries(DeltaEntries(d)) PROVE TemporalInv'
  <2>1. \A e \in DeltaEntries(d) : EntryOK(e)
    BY DeltaEntriesInTime DEF TemporalInv
  <2>2. QED BY <1>6, <2>1, LedgerKeeps
<1>7. ASSUME NEW plan, NEW t, AppendEntries(RefreshEntries(plan, t)) PROVE TemporalInv'
  <2>1. ASSUME NEW e \in RefreshEntries(plan, t) PROVE EntryOK(e)
    <3>1. PICK x : e = Entry("REFRESH_RESULT", <<plan.id, x>>, t, t, {})
      BY <2>1 DEF RefreshEntries
    <3>2. QED BY <3>1, OtherEntries, Zenon
  <2>2. QED BY <1>7, <2>1, LedgerKeeps
<1>8. ASSUME NEW e0 \in ledger, NEW t, AppendEntries(Correction(e0, "corrected", t)) PROVE TemporalInv'
  <2>1. \A e \in Correction(e0, "corrected", t) : EntryOK(e)
    BY DEF Correction, Entry, EntryOK
  <2>2. QED BY <1>8, <2>1, LedgerKeeps
<1>9. CASE UNCHANGED temporalVars
  BY <1>9 DEF temporalVars, TemporalInv, SnapshotsInTime, RecordsAreCurrent
<1>10. ASSUME NEW b \in {o \in DOMAIN Observations : Comparable(o)},
              NEW a \in {o \in DOMAIN Observations : Comparable(o)}, NEW t \in 1..Horizon, BuildDelta(b, a, t)
       PROVE  TemporalInv'
  BY <1>2, <1>10
<1>11. QED
  BY <1>1, <1>3, <1>4, <1>5, <1>6, <1>7, <1>8, <1>9, <1>10, RecordsKeep, Zenon DEF TemporalNext

LEMMA PreservedCurrent == TemporalInv => PreservedRecordsAreCurrent
<1> SUFFICES ASSUME TemporalInv PROVE PreservedRecordsAreCurrent
  OBVIOUS
<1>1. ASSUME NEW e \in View("TRUE_NOW", 0, 0), e.type = "DELTA", NEW o \in {e.id[2], e.id[3]},
             NEW k \in 1..Horizon, e \in View("KNOWN_THEN", e.valid, k)
      PROVE  Observations[o].cutoff <= k
  <2>1. e \in ledger /\ e.known <= k
    BY <1>1 DEF View
  <2>2. e.known \in Int /\ Observations[o].cutoff <= e.known /\ o \in DOMAIN Observations
    BY <1>1, <2>1 DEF TemporalInv, EntryOK
  <2>3. Observations[o].cutoff \in Int
    BY <2>2, TemporalAssumption
  <2>4. QED BY <2>1, <2>2, <2>3
<1>2. QED BY <1>1 DEF PreservedRecordsAreCurrent, TemporalInv, RecordsAreCurrent

-----------------------------------------------------------------------------
(* The least of some numbers. *)

Less == {ss \in Nat \X Nat : ss[1] < ss[2]}

LEMMA NumbersAreWellFounded == IsWellFoundedOn(Less, Nat)
BY NatLessThanWellFounded, Zenon DEF OpToRel, Less

LEMMA LeastNumber ==
  ASSUME NEW T \in SUBSET Nat, T # {}
  PROVE  \E x \in T : \A y \in T : x <= y
<1>1. PICK x \in T : \A y \in T : ~ (<<y, x>> \in Less)
  BY WFMin, NumbersAreWellFounded
<1>2. \A y \in T : ~ (y < x)
  BY <1>1 DEF Less
<1>3. QED BY <1>2

-----------------------------------------------------------------------------
(* The execution policies *)

PolicySources  == {"accepted"} \cup {ImprovementRules[t] : t \in DOMAIN ImprovementRules}
PolicyVersions == [on : SUBSET PolicyFields, parent : Nat, source : PolicySources]

(* No protected field of its baseline is off in a version with a package. *)
PolicyInv ==
  /\ policies \in Seq(PolicyVersions) /\ Len(policies) >= 1
  /\ \A v \in DOMAIN policies : v # 1 =>
       /\ policies[v].parent \in 1..v - 1
       /\ \E i \in improvements : i.type = policies[v].source
  /\ policies[1].parent = 0
  /\ \A i \in improvements : i.type \in PolicySources /\ i.sources # {}
  /\ \A v \in packages : v \in DOMAIN policies /\ v # 1
       /\ ProtectedTrueFields \cap policies[policies[v].parent].on \subseteq policies[v].on

LEMMA PolicyStarts == PolicyInit => PolicyInv
<1> SUFFICES ASSUME PolicyInit PROVE PolicyInv
  OBVIOUS
<1> DEFINE accepted0 == [on |-> PolicyFields, parent |-> 0, source |-> "accepted"]
<1>1. accepted0 \in PolicyVersions
  BY DEF PolicyVersions, PolicySources
<1>2. policies = <<accepted0>> /\ improvements = {} /\ packages = {}
  BY DEF PolicyInit
<1>3. accepted0.parent = 0
  OBVIOUS
<1> HIDE DEF accepted0
<1>4. policies \in Seq(PolicyVersions) /\ Len(policies) = 1 /\ DOMAIN policies = {1} /\ policies[1] = accepted0
  BY <1>1, <1>2
<1>5. QED BY <1>2, <1>3, <1>4 DEF PolicyInv

LEMMA PolicyKeeps == PolicyInv /\ [PolicyNext]_policyVars => PolicyInv'
<1> SUFFICES ASSUME PolicyInv, [PolicyNext]_policyVars PROVE PolicyInv'
  OBVIOUS
<1>1. ASSUME NEW seen, Learn(seen) PROVE PolicyInv'
  <2>1. improvements' = improvements \cup Improvements(seen) /\ UNCHANGED <<policies, packages>>
    BY <1>1 DEF Learn
  <2>2. ASSUME NEW i \in Improvements(seen) PROVE i.type \in PolicySources /\ i.sources # {}
    <3>1. PICK t \in DOMAIN ImprovementRules :
            /\ \E e \in seen : Triggering(t, e)
            /\ i = [type |-> ImprovementRules[t], sources |-> {e.id : e \in {x \in seen : Triggering(t, x)}}]
      BY DEF Improvements
    <3>2. ImprovementRules[t] \in PolicySources
      BY DEF PolicySources
    <3>3. {e.id : e \in {x \in seen : Triggering(t, x)}} # {}
      BY <3>1
    <3>4. QED BY <3>1, <3>2, <3>3
  <2>3. QED BY <2>1, <2>2 DEF PolicyInv
<1>2. ASSUME NEW i \in improvements, NEW domain, NEW baseline0 \in DOMAIN policies,
             NEW changed \in SUBSET PolicyFields, BuildCandidate(i, domain, baseline0, changed)
      PROVE  PolicyInv'
  <2> DEFINE on == (policies[baseline0].on \ changed) \cup (changed \ policies[baseline0].on)
             new == [on |-> on, parent |-> baseline0, source |-> i.type]
  <2>1. policies' = Append(policies, new) /\ UNCHANGED <<improvements, packages>>
    BY <1>2 DEF BuildCandidate
  <2>2. /\ policies \in Seq(PolicyVersions) /\ Len(policies) \in Nat /\ DOMAIN policies = 1..Len(policies)
        /\ baseline0 \in 1..Len(policies)
    BY DEF PolicyInv
  <2>3. new \in PolicyVersions /\ new.parent = baseline0 /\ new.source = i.type
    <3>1. policies[baseline0] \in PolicyVersions
      BY <2>2
    <3>2. on \in SUBSET PolicyFields
      BY <3>1 DEF PolicyVersions
    <3> HIDE DEF on
    <3>3. QED BY <2>2, <3>2 DEF PolicyVersions, PolicyInv
  <2> HIDE DEF new
  <2>4. /\ policies' \in Seq(PolicyVersions) /\ DOMAIN policies' = 1..Len(policies) + 1
        /\ Len(policies') = Len(policies) + 1
        /\ policies'[Len(policies) + 1] = new
        /\ \A v \in 1..Len(policies) : policies'[v] = policies[v]
    BY <2>1, <2>2, <2>3
  <2>5. ASSUME NEW v \in DOMAIN policies', v # 1
        PROVE  policies'[v].parent \in 1..v - 1 /\ \E j \in improvements' : j.type = policies'[v].source
    <3>1. CASE v = Len(policies) + 1
      BY <2>1, <2>2, <2>3, <2>4, <3>1
    <3>2. CASE v \in 1..Len(policies)
      BY <2>1, <2>2, <2>4, <2>5, <3>2 DEF PolicyInv
    <3>3. QED BY <2>2, <2>4, <3>1, <3>2
  <2>6. ASSUME NEW v \in packages'
        PROVE  v \in DOMAIN policies' /\ v # 1
               /\ ProtectedTrueFields \cap policies'[policies'[v].parent].on \subseteq policies'[v].on
    <3>1. v \in 1..Len(policies) /\ v # 1
      BY <2>1, <2>2 DEF PolicyInv
    <3>2. policies[v].parent \in 1..Len(policies)
      BY <2>2, <3>1 DEF PolicyInv
    <3>3. QED BY <2>1, <2>2, <2>4, <3>1, <3>2 DEF PolicyInv
  <2>7. policies'[1].parent = 0 /\ Len(policies') >= 1
    BY <2>2, <2>4 DEF PolicyInv
  <2>8. QED BY <2>1, <2>4, <2>5, <2>6, <2>7 DEF PolicyInv
<1>3. ASSUME NEW c \in DOMAIN policies, NEW replayed \in SUBSET DOMAIN Fixtures, NEW approval,
             Evaluate(c, replayed, approval)
      PROVE  PolicyInv'
  <2>1. /\ policies[c].parent # 0 /\ replayed # {} /\ UNCHANGED <<improvements, policies>>
        /\ \/ packages' = packages
           \/ /\ packages' = packages \cup {c}
              /\ \A f \in replayed : Regressions(policies[c].parent, c, f) = {}
    BY <1>3 DEF Evaluate
  <2>2. c # 1
    BY <2>1 DEF PolicyInv
  <2>3. (\A f \in replayed : Regressions(policies[c].parent, c, f) = {})
          => ProtectedTrueFields \cap policies[policies[c].parent].on \subseteq policies[c].on
    BY <2>1 DEF Regressions
  <2>4. QED BY <2>1, <2>2, <2>3 DEF PolicyInv
<1>4. CASE UNCHANGED policyVars
  BY <1>4 DEF policyVars, PolicyInv
<1>5. QED BY <1>1, <1>2, <1>3, <1>4, Zenon DEF PolicyNext

(* Along a chain of packages: the first version that lost a protected field has a *)
(* baseline that had not.                                                         *)
LEMMA ProtectionsSurvive == PolicyInv => ProtectionsSurvivePromotion
<1> SUFFICES ASSUME PolicyInv, NEW v \in DOMAIN policies
             PROVE  /\ Rooted(v) => ProtectedTrueFields \cap policies[1].on \subseteq policies[v].on
                    /\ v # 1 => \E i \in improvements : i.type = policies[v].source /\ i.sources # {}
  BY DEF ProtectionsSurvivePromotion
<1>1. ASSUME NEW chain \in SUBSET DOMAIN policies, v \in chain, PromotedChain(chain)
      PROVE  ProtectedTrueFields \cap policies[1].on \subseteq policies[v].on
  <2> DEFINE lost == {u \in chain : ~ (ProtectedTrueFields \cap policies[1].on \subseteq policies[u].on)}
  <2>1. SUFFICES ASSUME lost # {} PROVE FALSE
    BY <1>1
  <2>2. lost \in SUBSET Nat
    BY DEF PolicyInv
  <2>3. PICK u \in lost : \A w \in lost : u <= w
    <3> HIDE DEF lost
    <3>1. QED BY <2>1, <2>2, LeastNumber
  <2>4. u # 1
    BY <2>3
  <2>5. u \in packages /\ policies[u].parent \in chain
    BY <1>1, <2>3, <2>4 DEF PromotedChain
  <2>6. policies[u].parent \in 1..u - 1
    BY <2>4, <2>5 DEF PolicyInv
  <2>7. policies[u].parent \notin lost
    <3>1. u \in Nat
      BY <2>2, <2>3
    <3> HIDE DEF lost
    <3>2. QED BY <2>3, <2>6, <3>1
  <2>8. QED BY <2>3, <2>5, <2>7 DEF PolicyInv
<1>2. QED BY <1>1 DEF Rooted, PolicyInv

-----------------------------------------------------------------------------
(* The versions of the review rules *)

RuleVersions == [on : SUBSET DOMAIN ReviewRule, parent : Nat]

(* A promotion is of a candidate that showed no regression on what was replayed. *)
CalibrationInv ==
  /\ versions \in Seq(RuleVersions) /\ Len(versions) >= 1
  /\ \A v \in DOMAIN versions : v # 1 => versions[v].parent \in 1..v - 1
  /\ \A p \in promotions :
       /\ p.version \in DOMAIN versions /\ p.version # 1
       /\ p.replayed # {} /\ p.replayed \subseteq DOMAIN ReplayFixtures
       /\ \A f \in p.replayed : ~ Regressed(versions[p.version].parent, p.version, f)

LEMMA CalibrationStarts == CalibrationInit => CalibrationInv
<1> SUFFICES ASSUME CalibrationInit PROVE CalibrationInv
  OBVIOUS
<1> DEFINE accepted0 == [on |-> AcceptedRules, parent |-> 0]
<1>1. accepted0 \in RuleVersions
  <2>1. AcceptedRules \subseteq DOMAIN ReviewRule
    BY CalibrationAssumption
  <2> QED BY <2>1 DEF RuleVersions
<1>2. versions = <<accepted0>> /\ promotions = {}
  BY DEF CalibrationInit
<1> HIDE DEF accepted0
<1>3. versions \in Seq(RuleVersions) /\ Len(versions) = 1 /\ DOMAIN versions = {1}
  BY <1>1, <1>2
<1>4. QED BY <1>2, <1>3 DEF CalibrationInv

LEMMA CalibrationKeeps == CalibrationInv /\ [CalibrationNext]_calibrationVars => CalibrationInv'
<1> SUFFICES ASSUME CalibrationInv, [CalibrationNext]_calibrationVars PROVE CalibrationInv'
  OBVIOUS
<1>1. ASSUME NEW type, NEW parent0 \in DOMAIN versions, NEW changed \in RuleChanges,
             BuildVersion(type, parent0, changed)
      PROVE  CalibrationInv'
  <2> DEFINE on == (versions[parent0].on \ changed) \cup (changed \ versions[parent0].on)
             new == [on |-> on, parent |-> parent0]
  <2>1. versions' = Append(versions, new) /\ UNCHANGED promotions
    BY <1>1 DEF BuildVersion
  <2>2. /\ versions \in Seq(RuleVersions) /\ Len(versions) \in Nat /\ DOMAIN versions = 1..Len(versions)
        /\ parent0 \in 1..Len(versions)
    BY DEF CalibrationInv
  <2>3. new \in RuleVersions /\ new.parent = parent0
    <3>1. versions[parent0] \in RuleVersions /\ changed \subseteq DOMAIN ReviewRule
      BY <2>2, CalibrationAssumption
    <3>2. on \in SUBSET DOMAIN ReviewRule
      BY <3>1 DEF RuleVersions
    <3> HIDE DEF on
    <3>3. QED BY <2>2, <3>2 DEF RuleVersions
  <2> HIDE DEF new
  <2>4. /\ versions' \in Seq(RuleVersions) /\ DOMAIN versions' = 1..Len(versions) + 1
        /\ Len(versions') = Len(versions) + 1
        /\ versions'[Len(versions) + 1] = new
        /\ \A v \in 1..Len(versions) : versions'[v] = versions[v]
    BY <2>1, <2>2, <2>3
  <2>5. ASSUME NEW v \in DOMAIN versions', v # 1
        PROVE  versions'[v].parent \in 1..v - 1
    <3>1. CASE v = Len(versions) + 1
      BY <2>2, <2>3, <2>4, <3>1
    <3>2. CASE v \in 1..Len(versions)
      BY <2>2, <2>4, <2>5, <3>2 DEF CalibrationInv
    <3>3. QED BY <2>2, <2>4, <3>1, <3>2
  <2>6. ASSUME NEW p \in promotions
        PROVE  /\ p.version \in DOMAIN versions' /\ p.version # 1
               /\ p.replayed # {} /\ p.replayed \subseteq DOMAIN ReplayFixtures
               /\ \A f \in p.replayed : ~ Regressed(versions[p.version].parent, p.version, f)'
    <3>1. /\ p.version \in 1..Len(versions) /\ p.version # 1
          /\ p.replayed # {} /\ p.replayed \subseteq DOMAIN ReplayFixtures
          /\ \A f \in p.replayed : ~ Regressed(versions[p.version].parent, p.version, f)
      BY <2>2 DEF CalibrationInv
    <3>2. versions[p.version].parent \in 1..Len(versions)
      BY <2>2, <3>1 DEF CalibrationInv
    <3>3. versions'[p.version] = versions[p.version]
          /\ versions'[versions[p.version].parent] = versions[versions[p.version].parent]
      BY <2>4, <3>1, <3>2
    <3>4. ASSUME NEW f \in p.replayed
          PROVE  ~ Regressed(versions[p.version].parent, p.version, f)'
      <4>1. PICK u \in 1..Len(versions) : u = versions[p.version].parent
        BY <3>2
      <4>2. /\ versions'[p.version].parent = u
            /\ versions'[u].on = versions[u].on /\ versions'[p.version].on = versions[p.version].on
        BY <3>3, <4>1
      <4>3. Regressed(u, p.version, f)' <=> Regressed(u, p.version, f)
        BY <4>2 DEF Regressed, TriggeredDays
      <4>4. ~ Regressed(u, p.version, f)
        BY <3>1, <4>1
      <4>5. versions[p.version].parent' = u
        BY <4>2
      <4>6. QED BY <4>3, <4>4, <4>5 DEF Regressed, TriggeredDays
    <3>5. QED BY <2>2, <2>4, <3>1, <3>4
  <2>7. QED BY <2>1, <2>2, <2>4, <2>5, <2>6 DEF CalibrationInv
<1>2. ASSUME NEW c \in DOMAIN versions, NEW replayed \in SUBSET DOMAIN ReplayFixtures, NEW approval,
             EvaluateVersion(c, replayed, approval)
      PROVE  CalibrationInv'
  <2>1. /\ c # 1 /\ replayed # {} /\ UNCHANGED versions
        /\ \/ promotions' = promotions
           \/ /\ promotions' = promotions \cup {[version |-> c, replayed |-> replayed]}
              /\ \A f \in replayed : ~ Regressed(versions[c].parent, c, f)
    BY <1>2 DEF EvaluateVersion
  <2>2. \A f : Regressed(versions[c].parent, c, f)' <=> Regressed(versions[c].parent, c, f)
    BY <2>1 DEF Regressed, TriggeredDays
  <2>3. ASSUME NEW p \in promotions'
        PROVE  /\ p.version \in DOMAIN versions /\ p.version # 1
               /\ p.replayed # {} /\ p.replayed \subseteq DOMAIN ReplayFixtures
               /\ \A f \in p.replayed : ~ Regressed(versions[p.version].parent, p.version, f)
    BY <2>1 DEF CalibrationInv
  <2>4. \A p \in promotions' : \A f \in p.replayed : ~ Regressed(versions[p.version].parent, p.version, f)'
    BY <2>1, <2>3 DEF Regressed, TriggeredDays
  <2>5. QED BY <2>1, <2>3, <2>4 DEF CalibrationInv
<1>3. CASE UNCHANGED calibrationVars
  <2>1. UNCHANGED <<versions, promotions>>
    BY <1>3 DEF calibrationVars
  <2>2. \A u, v, f : Regressed(u, v, f)' <=> Regressed(u, v, f)
    BY <2>1 DEF Regressed, TriggeredDays
  <2>3. QED BY <2>1, <2>2 DEF CalibrationInv
<1>4. QED BY <1>1, <1>2, <1>3, Zenon DEF CalibrationNext

(* The checkpoint of day 14 does not depend on the market; and along a chain of   *)
(* promotions the first version that lost a day of review has a parent that had   *)
(* not.                                                                           *)
LEMMA PromotionsKeepReviews == CalibrationInv => PromotedRulesKeepReviews
<1> SUFFICES ASSUME CalibrationInv PROVE PromotedRulesKeepReviews
  OBVIOUS
<1>1. ASSUME NEW p \in promotions, NEW f \in DOMAIN ReplayFixtures
      PROVE  14 \in TriggeredDays(p.version, f)
  <2>1. PICK g \in p.replayed : ~ Regressed(versions[p.version].parent, p.version, g)
    BY DEF CalibrationInv
  <2>2. 14 \in TriggeredDays(p.version, g)
    BY <2>1 DEF Regressed
  <2>3. PICK r \in versions[p.version].on : ReviewRule[r][1] = 14
    BY <2>2 DEF TriggeredDays
  <2>4. r \in DOMAIN ReviewRule
    <3>1. versions[p.version] \in RuleVersions
      BY DEF CalibrationInv
    <3>2. QED BY <2>3, <3>1 DEF RuleVersions
  <2>5. ReviewRule[r][2] = "ALWAYS"
    BY <2>3, <2>4 DEF ReviewRule
  <2>6. QED BY <2>3, <2>5 DEF TriggeredDays
<1>2. ASSUME NEW f \in DOMAIN ReplayFixtures, ReplayFixtures[f].protected,
             NEW chain \in SUBSET DOMAIN versions, ReplayedChain(chain, f), NEW v \in chain
      PROVE  TriggeredDays(1, f) \subseteq TriggeredDays(v, f)
  <2> DEFINE lost == {u \in chain : ~ (TriggeredDays(1, f) \subseteq TriggeredDays(u, f))}
  <2>1. SUFFICES ASSUME lost # {} PROVE FALSE
    BY <1>2
  <2>2. lost \in SUBSET Nat
    BY DEF CalibrationInv
  <2>3. PICK u \in lost : \A w \in lost : u <= w
    <3> HIDE DEF lost
    <3>1. QED BY <2>1, <2>2, LeastNumber
  <2>4. u # 1
    BY <2>3
  <2>5. versions[u].parent \in chain /\ \E p \in promotions : p.version = u /\ f \in p.replayed
    BY <1>2, <2>3, <2>4 DEF ReplayedChain
  <2>6. versions[u].parent \in 1..u - 1
    BY <2>3, <2>4 DEF CalibrationInv
  <2>7. versions[u].parent \notin lost
    <3>1. u \in Nat
      BY <2>2, <2>3
    <3> HIDE DEF lost
    <3>2. QED BY <2>3, <2>6, <3>1
  <2>8. TriggeredDays(versions[u].parent, f) \subseteq TriggeredDays(u, f)
    BY <1>2, <2>5 DEF CalibrationInv, Regressed
  <2>9. QED BY <2>3, <2>5, <2>7, <2>8
<1>3. QED BY <1>1, <1>2 DEF PromotedRulesKeepReviews, ReplayedAlong

-----------------------------------------------------------------------------
(* The production certification run *)

Codes     == ToSet(Stages)
LaterOnes == ToSet(Tail(Stages))
Approval  == [pilot : Seq(Fleet), issued : Nat, expires : Nat]
Cohort    == [members : Seq(Fleet), approval : Nat]

RolloutTypes ==
  /\ eligible \in SUBSET Fleet /\ pilot \in Seq(Fleet) /\ now \in Nat
  /\ approvals \in Seq(Approval)
  /\ cohorts \in [Codes -> Cohort]
  /\ items \in [Codes -> Seq({"PASS", "FAIL"})]
  /\ running \in Codes \cup {"none"}
  /\ certs \in [Codes -> {"none", "PASS", "FAIL"}]

AllPass(s) == \A i \in DOMAIN items[s] : items[s][i] = "PASS"

(* A deployment is of a frozen cohort and is not yet done. *)
Underway ==
  /\ running # "none" =>
       Len(items[running]) < Len(cohorts[running].members) /\ AllPass(running)
  /\ \A s \in Codes : items[s] # <<>> => cohorts[s].members # <<>>

(* What a certification says of its cohort stays so. *)
CertifiedComplete ==
  \A s \in Codes : certs[s] = "PASS" =>
    running # s /\ items[s] # <<>> /\ Len(items[s]) = Len(cohorts[s].members) /\ AllPass(s)

(* A cohort after the first was frozen on the certification of the one before. *)
FrozenInTurn ==
  /\ \A s \in LaterOnes : cohorts[s].members # <<>> =>
       /\ certs[Prior(s)] = "PASS"
       /\ ToSet(cohorts[s].members) \cap ToSet(cohorts[Prior(s)].members) = {}
  /\ cohorts[Stages[1]].members # <<>> =>
       /\ cohorts[Stages[1]].approval \in DOMAIN approvals
       /\ ToSet(cohorts[Stages[1]].members) \subseteq
            ToSet(approvals[cohorts[Stages[1]].approval].pilot)

LiveAreMembers == live \subseteq UNION {ToSet(cohorts[s].members) : s \in Codes}

VerdictEarned == verdict \in {"GO", "BLOCKED"} => \A s \in Codes : certs[s] = "PASS"

RolloutInv ==
  RolloutTypes /\ Underway /\ CertifiedComplete /\ FrozenInTurn /\ LiveAreMembers /\ VerdictEarned

LEMMA StagesInOrder ==
  /\ Len(Stages) \in Nat \ {0} /\ DOMAIN Stages = 1..Len(Stages) /\ Stages[1] \in Codes
  /\ "none" \notin Codes
  /\ LaterOnes \subseteq Codes /\ Stages[1] \notin LaterOnes
  /\ \A s \in LaterOnes : Prior(s) \in Codes
<1>1. /\ Len(Stages) \in Nat \ {0} /\ DOMAIN Stages = 1..Len(Stages)
      /\ \A i \in 1..Len(Stages) : Stages[i] # "none"
      /\ \A i, j \in 1..Len(Stages) : Stages[i] = Stages[j] => i = j
  BY CandidateAssumption
<1>2. /\ DOMAIN Tail(Stages) = 1..(Len(Stages) - 1)
      /\ \A i \in 1..(Len(Stages) - 1) : Tail(Stages)[i] = Stages[i + 1]
  BY <1>1, CandidateAssumption
<1>3. Codes = {Stages[i] : i \in 1..Len(Stages)}
  BY <1>1 DEF Codes, ToSet
<1>4. LaterOnes = {Stages[i + 1] : i \in 1..(Len(Stages) - 1)}
  BY <1>2 DEF LaterOnes, ToSet
<1>5. ASSUME NEW s \in LaterOnes PROVE Prior(s) \in Codes
  <2>1. \E i \in 1..(Len(Stages) - 1) : Stages[i + 1] = s
    BY <1>4
  <2>2. PICK i \in 1..(Len(Stages) - 1) : Prior(s) = Stages[i]
    BY <2>1 DEF Prior
  <2>3. QED BY <1>1, <1>3, <2>2
<1>6. ASSUME Stages[1] \in LaterOnes PROVE FALSE
  <2>1. PICK i \in 1..(Len(Stages) - 1) : Stages[1] = Stages[i + 1]
    BY <1>4, <1>6
  <2>2. i + 1 \in 1..Len(Stages) /\ 1 \in 1..Len(Stages) /\ i + 1 # 1
    BY <1>1
  <2>3. QED BY <1>1, <2>1, <2>2
<1>7. Stages[1] \in Codes /\ "none" \notin Codes /\ LaterOnes \subseteq Codes
  BY <1>1, <1>3, <1>4
<1>8. QED BY <1>1, <1>5, <1>6, <1>7

(* The first properties of an order are a sequence of properties of the set. *)
LEMMA PrefixOfOrder ==
  ASSUME NEW set \in SUBSET Fleet, NEW ordered \in InOrder(set), NEW n \in Nat
  PROVE  /\ ordered \in Seq(Fleet) /\ ToSet(ordered) \subseteq set
         /\ Prefix(ordered, n) \in Seq(Fleet) /\ ToSet(Prefix(ordered, n)) \subseteq set
<1>1. Cardinality(set) \in Nat
  <2>1. IsFiniteSet(set)
    BY CandidateAssumption, FS_Subset
  <2>2. QED BY <2>1, FS_CardinalityType
<1>2. ordered \in [1..Cardinality(set) -> set]
  BY DEF InOrder
<1>3. ordered \in Seq(set)
  BY <1>1, <1>2
<1>4. Prefix(ordered, n) \in Seq(set)
  BY <1>3 DEF Prefix
<1>5. QED BY <1>3, <1>4 DEF ToSet

LEMMA PrefixOfPilot ==
  ASSUME NEW seq \in Seq(Fleet), NEW n \in Nat
  PROVE  Prefix(seq, n) \in Seq(Fleet) /\ ToSet(Prefix(seq, n)) \subseteq ToSet(seq)
<1>1. seq \in Seq(ToSet(seq))
  BY DEF ToSet
<1>2. Prefix(seq, n) \in Seq(ToSet(seq)) /\ Prefix(seq, n) \in Seq(Fleet)
  BY <1>1 DEF Prefix
<1>3. QED BY <1>2 DEF ToSet

LEMMA RolloutStarts == CandidateInit => RolloutInv
<1> SUFFICES ASSUME CandidateInit PROVE RolloutInv
  OBVIOUS
<1> USE StagesInOrder DEF CandidateInit
<1>1. RolloutTypes
  <2>1. cohorts \in [Codes -> Cohort]
    BY DEF Codes, Cohort
  <2>2. items \in [Codes -> Seq({"PASS", "FAIL"})] /\ certs \in [Codes -> {"none", "PASS", "FAIL"}]
    BY DEF Codes
  <2>3. QED BY <2>1, <2>2, CandidateAssumption DEF RolloutTypes
<1>2. Underway /\ CertifiedComplete
  BY DEF Underway, CertifiedComplete, Codes
<1>3. FrozenInTurn
  BY DEF FrozenInTurn, Codes
<1>4. QED BY <1>1, <1>2, <1>3 DEF RolloutInv, LiveAreMembers, VerdictEarned

(* The pilot, its audits and its approvals move no cohort. *)
LEMMA RolloutWithoutCohorts ==
  ASSUME RolloutInv, UNCHANGED <<cohortVars, verdict>>,
         eligible' \in SUBSET Fleet, pilot' \in Seq(Fleet), now' \in Nat,
         \/ UNCHANGED approvals
         \/ \E a \in Approval : approvals' = Append(approvals, a)
  PROVE  RolloutInv'
<1>1. UNCHANGED <<cohorts, items, running, certs, live, verdict>>
  BY DEF cohortVars
<1>2. /\ approvals' \in Seq(Approval) /\ DOMAIN approvals \subseteq DOMAIN approvals'
      /\ \A a \in DOMAIN approvals : approvals'[a] = approvals[a]
  <2>1. approvals \in Seq(Approval)
    BY DEF RolloutInv, RolloutTypes
  <2>2. ASSUME NEW a \in Approval, approvals' = Append(approvals, a)
        PROVE  /\ approvals' \in Seq(Approval) /\ DOMAIN approvals \subseteq DOMAIN approvals'
               /\ \A b \in DOMAIN approvals : approvals'[b] = approvals[b]
    BY <2>1, <2>2
  <2>3. QED BY <2>1, <2>2
<1>3. RolloutTypes'
  BY <1>1, <1>2 DEF RolloutInv, RolloutTypes
<1>4. (Underway /\ CertifiedComplete /\ LiveAreMembers /\ VerdictEarned)'
  BY <1>1 DEF RolloutInv, Underway, CertifiedComplete, LiveAreMembers, VerdictEarned, AllPass
<1>5. FrozenInTurn'
  BY <1>1, <1>2 DEF RolloutInv, FrozenInTurn
<1>6. QED BY <1>3, <1>4, <1>5 DEF RolloutInv

(* A cohort without members gets some. *)
LEMMA RolloutFreezes ==
  ASSUME RolloutInv,
         UNCHANGED <<eligible, pilot, now, approvals, items, running, certs, live, verdict>>,
         NEW s \in Codes, cohorts[s].members = <<>>,
         NEW c \in Cohort, cohorts' = [cohorts EXCEPT ![s] = c],
         s \in LaterOnes => /\ certs[Prior(s)] = "PASS"
                            /\ ToSet(c.members) \cap ToSet(cohorts[Prior(s)].members) = {},
         s = Stages[1] => c.approval \in DOMAIN approvals
                          /\ ToSet(c.members) \subseteq ToSet(approvals[c.approval].pilot)
  PROVE  RolloutInv'
<1>1. cohorts \in [Codes -> Cohort] /\ items \in [Codes -> Seq({"PASS", "FAIL"})]
  BY DEF RolloutInv, RolloutTypes
<1>2. /\ cohorts' \in [Codes -> Cohort] /\ cohorts'[s] = c
      /\ \A t \in Codes \ {s} : cohorts'[t] = cohorts[t]
  BY <1>1
<1>3. items[s] = <<>> /\ running # s /\ certs[s] # "PASS"
  <2>1. items[s] = <<>>
    BY DEF RolloutInv, Underway
  <2>2. certs[s] # "PASS"
    BY <2>1 DEF RolloutInv, CertifiedComplete
  <2>3. running # s
    <3>1. SUFFICES ASSUME running = s PROVE FALSE
      OBVIOUS
    <3>2. Len(items[s]) < Len(cohorts[s].members)
      BY <3>1, StagesInOrder DEF RolloutInv, Underway
    <3>3. QED BY <2>1, <3>2
  <2>4. QED BY <2>1, <2>2, <2>3
<1>4. RolloutTypes'
  BY <1>2 DEF RolloutInv, RolloutTypes
<1>5. Underway'
  <2>1. ASSUME running # "none"
        PROVE  (Len(items[running]) < Len(cohorts[running].members) /\ AllPass(running))'
    <3>1. running \in Codes \ {s}
      BY <1>3, <2>1 DEF RolloutInv, RolloutTypes
    <3>2. Len(items[running]) < Len(cohorts[running].members) /\ AllPass(running)
      BY <2>1 DEF RolloutInv, Underway
    <3>3. QED BY <1>2, <3>1, <3>2 DEF AllPass
  <2>2. ASSUME NEW t \in Codes, items[t] # <<>> PROVE cohorts'[t].members # <<>>
    BY <1>2, <1>3, <2>2 DEF RolloutInv, Underway
  <2>3. QED BY <2>1, <2>2 DEF Underway
<1>6. CertifiedComplete'
  BY <1>2, <1>3 DEF RolloutInv, CertifiedComplete, AllPass
<1>7. FrozenInTurn'
  <2>1. ASSUME NEW t \in LaterOnes, cohorts'[t].members # <<>>
        PROVE  certs[Prior(t)] = "PASS"
               /\ ToSet(cohorts'[t].members) \cap ToSet(cohorts'[Prior(t)].members) = {}
    <3>1. certs[Prior(t)] = "PASS"
          /\ ToSet(cohorts'[t].members) \cap ToSet(cohorts[Prior(t)].members) = {}
      BY <1>2, <2>1, StagesInOrder DEF RolloutInv, FrozenInTurn
    <3>2. Prior(t) \in Codes \ {s}
      BY <1>3, <3>1, StagesInOrder
    <3>3. QED BY <1>2, <3>1, <3>2
  <2>2. ASSUME cohorts'[Stages[1]].members # <<>>
        PROVE  cohorts'[Stages[1]].approval \in DOMAIN approvals
               /\ ToSet(cohorts'[Stages[1]].members)
                    \subseteq ToSet(approvals[cohorts'[Stages[1]].approval].pilot)
    BY <1>2, <2>2, StagesInOrder DEF RolloutInv, FrozenInTurn
  <2>3. \A t : Prior(t)' = Prior(t)
    BY DEF Prior
  <2>4. QED BY <2>1, <2>2, <2>3 DEF FrozenInTurn
<1>8. LiveAreMembers'
  <2>1. ASSUME NEW p \in live PROVE \E t \in Codes : p \in ToSet(cohorts'[t].members)
    <3>1. PICK t \in Codes : p \in ToSet(cohorts[t].members)
      BY DEF RolloutInv, LiveAreMembers
    <3>2. t # s
      BY <3>1 DEF ToSet
    <3>3. QED BY <1>2, <3>1, <3>2
  <2>2. QED BY <2>1 DEF LiveAreMembers
<1>9. VerdictEarned'
  BY DEF RolloutInv, VerdictEarned
<1>10. QED BY <1>4, <1>5, <1>6, <1>7, <1>8, <1>9 DEF RolloutInv

LEMMA RolloutDeploys ==
  ASSUME RolloutInv, NEW ok \in BOOLEAN, DeployProperty(ok)
  PROVE  RolloutInv'
<1>1. PICK s : s = running
  OBVIOUS
<1> DEFINE status == IF ok THEN "PASS" ELSE "FAIL"
           p == cohorts[s].members[Len(items[s]) + 1]
<1>2. /\ s # "none" /\ s \in Codes
      /\ items \in [Codes -> Seq({"PASS", "FAIL"})] /\ cohorts \in [Codes -> Cohort]
      /\ items[s] \in Seq({"PASS", "FAIL"}) /\ cohorts[s].members \in Seq(Fleet)
      /\ Len(items[s]) \in Nat /\ Len(cohorts[s].members) \in Nat
      /\ Len(items[s]) < Len(cohorts[s].members) /\ AllPass(s) /\ certs[s] # "PASS"
  BY <1>1, StagesInOrder
     DEF RolloutInv, RolloutTypes, Underway, CertifiedComplete, DeployProperty, Cohort
<1>3. /\ items' = [items EXCEPT ![s] = Append(items[s], status)]
      /\ live' = IF ok THEN live \cup {p} ELSE live
      /\ running' = (IF ~ ok \/ Len(items[s]) + 1 = Len(cohorts[s].members) THEN "none" ELSE s)
      /\ UNCHANGED <<eligible, pilot, now, approvals, cohorts, certs, verdict>>
  BY <1>1 DEF DeployProperty, pilotVars
<1>4. status \in {"PASS", "FAIL"} /\ (ok => status = "PASS")
  OBVIOUS
<1> HIDE DEF status
<1>5. /\ Append(items[s], status) \in Seq({"PASS", "FAIL"})
      /\ Len(Append(items[s], status)) = Len(items[s]) + 1
      /\ Append(items[s], status) # <<>>
      /\ ok => \A i \in DOMAIN Append(items[s], status) : Append(items[s], status)[i] = "PASS"
  <2> DEFINE before == items[s]
  <2>1. before \in Seq({"PASS", "FAIL"}) /\ \A i \in DOMAIN before : before[i] = "PASS"
    BY <1>2 DEF AllPass
  <2> HIDE DEF before
  <2>2. /\ Append(before, status) \in Seq({"PASS", "FAIL"})
        /\ Len(Append(before, status)) = Len(before) + 1
        /\ DOMAIN Append(before, status) = 1..Len(before) + 1
        /\ Append(before, status)[Len(before) + 1] = status
        /\ \A i \in 1..Len(before) : Append(before, status)[i] = before[i]
    BY <2>1, <1>4
  <2>3. Len(before) \in Nat /\ DOMAIN before = 1..Len(before)
    BY <2>1
  <2>4. Append(before, status) # <<>>
    BY <2>2, <2>3
  <2>5. ok => \A i \in DOMAIN Append(before, status) : Append(before, status)[i] = "PASS"
    BY <1>4, <2>1, <2>2, <2>3
  <2>6. QED BY <2>2, <2>4, <2>5 DEF before
<1>6. /\ items' \in [Codes -> Seq({"PASS", "FAIL"})] /\ items'[s] = Append(items[s], status)
      /\ \A t \in Codes \ {s} : items'[t] = items[t]
  BY <1>2, <1>3, <1>5
<1>7. RolloutTypes'
  BY <1>2, <1>3, <1>6 DEF RolloutInv, RolloutTypes
<1>8. Underway'
  <2>1. ASSUME running' # "none"
        PROVE  Len(items'[running']) < Len(cohorts'[running'].members)
               /\ \A i \in DOMAIN items'[running'] : items'[running'][i] = "PASS"
    <3>1. ok /\ running' = s /\ Len(items[s]) + 1 # Len(cohorts[s].members)
      BY <1>3, <2>1
    <3>2. Len(items[s]) + 1 < Len(cohorts[s].members)
      BY <1>2, <3>1
    <3>3. QED BY <1>3, <1>5, <1>6, <3>1, <3>2
  <2>2. ASSUME NEW t \in Codes, items'[t] # <<>> PROVE cohorts'[t].members # <<>>
    <3>1. CASE t = s
      BY <1>2, <1>3, <3>1
    <3>2. CASE t # s
      BY <1>3, <1>6, <2>2, <3>2 DEF RolloutInv, Underway
    <3>3. QED BY <3>1, <3>2
  <2>3. QED BY <2>1, <2>2 DEF Underway, AllPass
<1>9. CertifiedComplete'
  <2>1. ASSUME NEW t \in Codes, certs'[t] = "PASS"
        PROVE  /\ running' # t /\ items'[t] # <<>> /\ Len(items'[t]) = Len(cohorts'[t].members)
               /\ \A i \in DOMAIN items'[t] : items'[t][i] = "PASS"
    <3>1. t # s /\ items'[t] = items[t] /\ certs[t] = "PASS" /\ t # "none"
      BY <1>2, <1>3, <1>6, <2>1, StagesInOrder
    <3>2. running' # t
      BY <1>3, <3>1
    <3>3. QED BY <1>3, <3>1, <3>2 DEF RolloutInv, CertifiedComplete, AllPass
  <2>2. QED BY <2>1 DEF CertifiedComplete, AllPass
<1>10. FrozenInTurn'
  BY <1>3 DEF RolloutInv, FrozenInTurn
<1>11. LiveAreMembers'
  <2>1. p \in ToSet(cohorts[s].members)
    BY <1>2 DEF ToSet
  <2>2. QED BY <1>2, <1>3, <2>1 DEF RolloutInv, LiveAreMembers
<1>12. VerdictEarned'
  BY <1>3 DEF RolloutInv, VerdictEarned
<1>13. QED BY <1>7, <1>8, <1>9, <1>10, <1>11, <1>12 DEF RolloutInv

LEMMA RolloutCertifies ==
  ASSUME RolloutInv, NEW s \in Codes, Certify(s)
  PROVE  RolloutInv'
<1> DEFINE mark == IF CertifyReasons(s) = {} THEN "PASS" ELSE "FAIL"
<1>1. /\ running # s /\ items[s] # <<>> /\ certs[s] = "none"
      /\ certs' = [certs EXCEPT ![s] = mark]
      /\ UNCHANGED <<eligible, pilot, now, approvals, cohorts, items, running, live, verdict>>
  BY DEF Certify, pilotVars
<1>2. mark = "PASS" => Len(items[s]) = Len(cohorts[s].members) /\ AllPass(s)
  BY DEF CertifyReasons, AllPass
<1>3. mark \in {"PASS", "FAIL"}
  OBVIOUS
<1> HIDE DEF mark
<1>4. /\ certs \in [Codes -> {"none", "PASS", "FAIL"}]
      /\ certs' \in [Codes -> {"none", "PASS", "FAIL"}] /\ certs'[s] = mark
      /\ \A t \in Codes \ {s} : certs'[t] = certs[t]
  BY <1>1, <1>3 DEF RolloutInv, RolloutTypes
<1>5. RolloutTypes' /\ Underway' /\ LiveAreMembers'
  BY <1>1, <1>4 DEF RolloutInv, RolloutTypes, Underway, AllPass, LiveAreMembers
<1>6. CertifiedComplete'
  BY <1>1, <1>2, <1>4 DEF RolloutInv, CertifiedComplete, AllPass
<1>7. \A t \in Codes : certs[t] = "PASS" => certs'[t] = "PASS"
  BY <1>1, <1>4
<1>8. FrozenInTurn' /\ VerdictEarned'
  <2>1. FrozenInTurn'
    BY <1>1, <1>7, StagesInOrder DEF RolloutInv, FrozenInTurn, Prior
  <2>2. VerdictEarned'
    BY <1>1, <1>7 DEF RolloutInv, VerdictEarned
  <2>3. QED BY <2>1, <2>2
<1>9. QED BY <1>5, <1>6, <1>8 DEF RolloutInv

LEMMA RolloutKeeps == RolloutInv /\ [CandidateNext]_candidateVars => RolloutInv'
<1> SUFFICES ASSUME RolloutInv, [CandidateNext]_candidateVars PROVE RolloutInv'
  OBVIOUS
<1> USE StagesInOrder
<1>0. /\ eligible \in SUBSET Fleet /\ pilot \in Seq(Fleet) /\ now \in Nat /\ approvals \in Seq(Approval)
      /\ cohorts \in [Codes -> Cohort]
      /\ items \in [Codes -> Seq({"PASS", "FAIL"})]
  BY DEF RolloutInv, RolloutTypes
<1>1. CASE WorldChanges \/ Tick
  <2>1. /\ UNCHANGED <<cohortVars, verdict, approvals, pilot>>
        /\ eligible' \in SUBSET Fleet /\ now' \in Nat
    BY <1>0, <1>1 DEF WorldChanges, Tick, pilotVars
  <2>2. QED BY <1>0, <2>1, RolloutWithoutCohorts
<1>2. CASE ResolvePilot
  <2>1. PICK ordered \in InOrder(eligible) : pilot' = Prefix(ordered, PilotCap)
    BY <1>2 DEF ResolvePilot
  <2>2. PilotCap \in Nat
    BY CandidateAssumption
  <2>3. pilot' \in Seq(Fleet)
    BY <1>0, <2>1, <2>2, PrefixOfOrder
  <2>4. UNCHANGED <<eligible, approvals, cohortVars, verdict, now>>
    BY <1>2 DEF ResolvePilot
  <2>5. QED BY <1>0, <2>3, <2>4, RolloutWithoutCohorts
<1>3. ASSUME \/ EvaluateAcceptance \/ EvaluateStop
             \/ \E failed : RunShadow(failed)
             \/ \E n, chosen : BuildSample(n, chosen)
             \/ \E p, status : CaptureAudit(p, status)
             \/ UNCHANGED candidateVars
      PROVE  RolloutInv'
  <2>1. UNCHANGED <<eligible, pilot, approvals, cohortVars, verdict, now>>
    BY <1>3 DEF EvaluateAcceptance, EvaluateStop, RunShadow, BuildSample, CaptureAudit,
                candidateVars, pilotVars
  <2>2. QED BY <1>0, <2>1, RolloutWithoutCohorts
<1>4. CASE IssueApproval
  <2>1. /\ approvals' = Append(approvals, [pilot |-> pilot, issued |-> now, expires |-> now + Duration])
        /\ UNCHANGED <<eligible, pilot, cohortVars, verdict, now>>
    BY <1>4 DEF IssueApproval, pilotVars
  <2>2. [pilot |-> pilot, issued |-> now, expires |-> now + Duration] \in Approval
    BY <1>0, CandidateAssumption DEF Approval
  <2>3. QED BY <1>0, <2>1, <2>2, RolloutWithoutCohorts
<1>5. ASSUME NEW a \in DOMAIN approvals, FreezeFirst(a) PROVE RolloutInv'
  <2> DEFINE s == Stages[1]
             c == [members |-> Prefix(pilot, StageSize[s]), approval |-> a]
  <2>1. /\ cohorts[s].members = <<>> /\ approvals[a].pilot = pilot
        /\ cohorts' = [cohorts EXCEPT ![s] = c]
        /\ UNCHANGED <<eligible, pilot, now, approvals, items, running, certs, live, verdict>>
    BY <1>5 DEF FreezeFirst, pilotVars
  <2>2. StageSize[s] \in Nat
    BY CandidateAssumption DEF Codes
  <2>3. a \in Nat
    BY <1>0
  <2>4. Prefix(pilot, StageSize[s]) \in Seq(Fleet) /\ ToSet(Prefix(pilot, StageSize[s])) \subseteq ToSet(pilot)
    BY <1>0, <2>2, PrefixOfPilot
  <2>5. c \in Cohort /\ c.approval = a /\ ToSet(c.members) \subseteq ToSet(approvals[a].pilot)
    BY <2>1, <2>3, <2>4 DEF Cohort
  <2>6. s \in Codes /\ s \notin LaterOnes
    OBVIOUS
  <2> HIDE DEF c
  <2>7. QED BY <2>1, <2>5, <2>6, RolloutFreezes
<1>6. ASSUME NEW s \in LaterOnes, NEW priors \in SUBSET Codes, FreezeNext(s, priors) PROVE RolloutInv'
  <2> DEFINE excluded == UNION {ToSet(cohorts[t].members) : t \in priors}
             chosen(left) == IF StageSize[s] = 0 THEN left ELSE Prefix(left, StageSize[s])
  <2>1. PICK left \in InOrder(eligible \ excluded) :
          cohorts' = [cohorts EXCEPT ![s].members = chosen(left)]
    BY <1>6 DEF FreezeNext
  <2>2. /\ Prior(s) \in priors /\ certs[Prior(s)] = "PASS" /\ cohorts[s].members = <<>>
        /\ UNCHANGED <<eligible, pilot, now, approvals, items, running, certs, live, verdict>>
    BY <1>6 DEF FreezeNext, Certified, pilotVars
  <2>3. StageSize[s] \in Nat /\ s \in Codes /\ s # Stages[1]
    BY CandidateAssumption DEF Codes
  <2>4. eligible \ excluded \in SUBSET Fleet
    BY <1>0
  <2> DEFINE c == [members |-> chosen(left), approval |-> cohorts[s].approval]
  <2>5. chosen(left) \in Seq(Fleet) /\ ToSet(chosen(left)) \subseteq eligible \ excluded
    <3> HIDE DEF excluded
    <3>1. QED BY <2>3, <2>4, PrefixOfOrder
  <2>6. ToSet(cohorts[Prior(s)].members) \subseteq excluded
    BY <2>2
  <2>7. ToSet(chosen(left)) \cap ToSet(cohorts[Prior(s)].members) = {}
    BY <2>5, <2>6
  <2>8. cohorts[s] \in Cohort
    BY <1>0, <2>3
  <2> HIDE DEF chosen, excluded
  <2>9. c \in Cohort /\ c.members = chosen(left)
    BY <2>5, <2>8 DEF Cohort
  <2>10. cohorts' = [cohorts EXCEPT ![s] = c]
    <3>1. [cohorts[s] EXCEPT !.members = chosen(left)] = c
      BY <2>8 DEF Cohort, c
    <3>2. cohorts' = [cohorts EXCEPT ![s] = [cohorts[s] EXCEPT !.members = chosen(left)]]
      BY <2>1
    <3>3. QED BY <3>1, <3>2
  <2>11. ToSet(c.members) \cap ToSet(cohorts[Prior(s)].members) = {}
    BY <2>7, <2>9
  <2> HIDE DEF c
  <2>12. QED BY <2>2, <2>3, <2>9, <2>10, <2>11, RolloutFreezes
<1>7. ASSUME NEW s \in Codes, StartDeployment(s) PROVE RolloutInv'
  <2>1. /\ running = "none" /\ items[s] = <<>> /\ cohorts[s].members # <<>> /\ running' = s
        /\ UNCHANGED <<eligible, pilot, now, approvals, cohorts, items, certs, live, verdict>>
    BY <1>7 DEF StartDeployment, pilotVars
  <2>2. cohorts[s].members \in Seq(Fleet)
    BY <1>0 DEF Cohort
  <2>3. 0 < Len(cohorts[s].members) /\ Len(items[s]) = 0 /\ DOMAIN items[s] = {}
    BY <2>1, <2>2
  <2>4. certs[s] # "PASS"
    BY <2>1 DEF RolloutInv, CertifiedComplete
  <2>5. Underway'
    BY <2>1, <2>3 DEF RolloutInv, Underway, AllPass
  <2>6. CertifiedComplete'
    BY <2>1, <2>4 DEF RolloutInv, CertifiedComplete, AllPass
  <2>7. RolloutTypes' /\ LiveAreMembers' /\ VerdictEarned'
    BY <2>1 DEF RolloutInv, RolloutTypes, LiveAreMembers, VerdictEarned
  <2>8. FrozenInTurn'
    BY <2>1 DEF RolloutInv, FrozenInTurn, Prior
  <2>9. QED BY <2>5, <2>6, <2>7, <2>8 DEF RolloutInv
<1>8. ASSUME NEW s \in Codes, CaptureBaseline(s) PROVE RolloutInv'
  <2>1. UNCHANGED <<eligible, pilot, now, approvals, cohorts, items, running, certs, live, verdict>>
    BY <1>8 DEF CaptureBaseline, pilotVars
  <2>2. RolloutTypes' /\ LiveAreMembers' /\ VerdictEarned'
    BY <2>1 DEF RolloutInv, RolloutTypes, LiveAreMembers, VerdictEarned
  <2>3. Underway' /\ CertifiedComplete' /\ FrozenInTurn'
    BY <2>1 DEF RolloutInv, Underway, CertifiedComplete, FrozenInTurn, AllPass, Prior
  <2>4. QED BY <2>2, <2>3 DEF RolloutInv
<1>9. ASSUME NEW s \in Codes, RollBack(s) PROVE RolloutInv'
  <2>1. /\ UNCHANGED <<eligible, pilot, now, approvals, cohorts, items, running, certs, verdict>>
        /\ live' \subseteq live
    BY <1>9 DEF RollBack, pilotVars
  <2>2. RolloutTypes' /\ LiveAreMembers' /\ VerdictEarned'
    BY <2>1 DEF RolloutInv, RolloutTypes, LiveAreMembers, VerdictEarned
  <2>3. Underway' /\ CertifiedComplete' /\ FrozenInTurn'
    BY <2>1 DEF RolloutInv, Underway, CertifiedComplete, FrozenInTurn, AllPass, Prior
  <2>4. QED BY <2>2, <2>3 DEF RolloutInv
<1>10. CASE LoseDeployment
  <2>1. PICK s : s = running
    OBVIOUS
  <2>2. /\ s \in Codes /\ items' = [items EXCEPT ![s] = <<>>] /\ running' = "none"
        /\ UNCHANGED <<eligible, pilot, now, approvals, cohorts, certs, live, verdict>>
    BY <1>10, <2>1 DEF LoseDeployment, pilotVars, RolloutInv, RolloutTypes
  <2>3. /\ items' \in [Codes -> Seq({"PASS", "FAIL"})] /\ items'[s] = <<>>
        /\ \A t \in Codes \ {s} : items'[t] = items[t]
    BY <1>0, <2>2
  <2>4. RolloutTypes' /\ LiveAreMembers' /\ VerdictEarned'
    BY <2>2, <2>3 DEF RolloutInv, RolloutTypes, LiveAreMembers, VerdictEarned
  <2>5. Underway' /\ FrozenInTurn'
    BY <2>2, <2>3 DEF RolloutInv, Underway, FrozenInTurn, Prior
  <2>6. CertifiedComplete'
    <3>1. certs[s] # "PASS"
      BY <2>1, <2>2 DEF RolloutInv, CertifiedComplete
    <3>2. QED BY <2>2, <2>3, <3>1 DEF RolloutInv, CertifiedComplete, AllPass
  <2>7. QED BY <2>4, <2>5, <2>6 DEF RolloutInv
<1>11. ASSUME NEW revoked, NEW database, Conclude(revoked, database) PROVE RolloutInv'
  <2>1. /\ UNCHANGED <<eligible, pilot, now, approvals, cohorts, items, running, certs, live>>
        /\ verdict' \in {"GO", "BLOCKED"} => \A s \in Codes : certs[s] = "PASS"
    <3>1. UNCHANGED <<eligible, pilot, now, approvals, cohorts, items, running, certs, live>>
      BY <1>11 DEF Conclude, pilotVars, cohortVars
    <3>2. ASSUME ~ (\A s \in Codes : certs[s] = "PASS") PROVE verdict' = "FAIL"
      <4> DEFINE approved == (\A s \in Codes : certs[s] = "PASS") /\ stop = "CLEAR" /\ ~ revoked
      <4>1. verdict' = CASE ~ approved \/ database = "FAIL" -> "FAIL"
                         [] approved /\ database \notin {"PASS", "FAIL"} -> "BLOCKED"
                         [] approved /\ database = "PASS"   -> "GO"
        BY <1>11, Zenon DEF Conclude, Codes
      <4>2. ~ approved
        BY <3>2
      <4> HIDE DEF approved
      <4>3. QED BY <4>1, <4>2
    <3>3. QED BY <3>1, <3>2
  <2>2. RolloutTypes' /\ LiveAreMembers' /\ VerdictEarned'
    BY <2>1 DEF RolloutInv, RolloutTypes, LiveAreMembers, VerdictEarned
  <2>3. Underway' /\ CertifiedComplete' /\ FrozenInTurn'
    BY <2>1 DEF RolloutInv, Underway, CertifiedComplete, FrozenInTurn, AllPass, Prior
  <2>4. QED BY <2>2, <2>3 DEF RolloutInv
<1>12. ASSUME NEW s \in Codes, Certify(s) PROVE RolloutInv'
  BY <1>12, RolloutCertifies
<1>13. ASSUME NEW ok \in BOOLEAN, DeployProperty(ok) PROVE RolloutInv'
  BY <1>13, RolloutDeploys
<1>14. ASSUME CandidateNext PROVE RolloutInv'
  BY <1>1, <1>2, <1>3, <1>4, <1>5, <1>6, <1>7, <1>8, <1>9, <1>10, <1>11, <1>12, <1>13, <1>14, Zenon
     DEF CandidateNext, Codes, LaterOnes
<1>15. QED BY <1>3, <1>14

(* Whoever has a deployment was frozen on a complete one. *)
LEMMA RolloutIsStaged == RolloutInv => ExposureIsStaged
<1> SUFFICES ASSUME RolloutInv PROVE ExposureIsStaged
  OBVIOUS
<1> USE StagesInOrder
<1>1. live \subseteq UNION {ToSet(cohorts[s].members) : s \in ToSet(Stages)}
  BY DEF RolloutInv, LiveAreMembers, Codes
<1>2. ASSUME NEW s \in ToSet(Tail(Stages)), items[s] # <<>>
      PROVE  /\ Len(items[Prior(s)]) = Len(cohorts[Prior(s)].members)
             /\ \A i \in DOMAIN items[Prior(s)] : items[Prior(s)][i] = "PASS"
             /\ ToSet(cohorts[s].members) \cap ToSet(cohorts[Prior(s)].members) = {}
  <2>1. s \in LaterOnes /\ s \in Codes /\ Prior(s) \in Codes
    BY DEF LaterOnes
  <2>2. cohorts[s].members # <<>>
    BY <1>2, <2>1 DEF RolloutInv, Underway
  <2>3. /\ certs[Prior(s)] = "PASS"
        /\ ToSet(cohorts[s].members) \cap ToSet(cohorts[Prior(s)].members) = {}
    BY <2>1, <2>2 DEF RolloutInv, FrozenInTurn
  <2>4. QED BY <2>1, <2>3 DEF RolloutInv, CertifiedComplete, AllPass
<1>3. ASSUME verdict \in {"GO", "BLOCKED"}, NEW s \in ToSet(Stages)
      PROVE  /\ Len(items[s]) = Len(cohorts[s].members) /\ items[s] # <<>>
             /\ ToSet(items[s]) = {"PASS"}
  <2>1. /\ s \in Codes /\ items[s] # <<>>
        /\ Len(items[s]) = Len(cohorts[s].members) /\ AllPass(s)
    BY <1>3 DEF RolloutInv, VerdictEarned, CertifiedComplete, Codes
  <2>2. items[s] \in Seq({"PASS", "FAIL"})
    BY <2>1 DEF RolloutInv, RolloutTypes
  <2>3. 1 \in DOMAIN items[s]
    BY <2>1, <2>2
  <2>4. ToSet(items[s]) = {"PASS"}
    BY <2>1, <2>3 DEF AllPass, ToSet
  <2>5. QED BY <2>1, <2>4
<1>4. ASSUME verdict \in {"GO", "BLOCKED"}
      PROVE  ToSet(cohorts[Stages[1]].members) \subseteq
               ToSet(approvals[cohorts[Stages[1]].approval].pilot)
  <2>1. items[Stages[1]] # <<>>
    BY <1>3, <1>4 DEF Codes
  <2>2. cohorts[Stages[1]].members # <<>>
    BY <2>1 DEF RolloutInv, Underway
  <2>3. QED BY <2>2 DEF RolloutInv, FrozenInTurn
<1>5. QED BY <1>1, <1>2, <1>3, <1>4, Zenon DEF ExposureIsStaged

-----------------------------------------------------------------------------
(* Seller intelligence *)

ShownTargets == DOMAIN StrategyDimensions \cup {"COMPETITIVE_PRESSURE"}

(* A strategy's reviews follow from what it shows. *)
IsStrategy(s) ==
  /\ s = [shown |-> s.shown, alternatives |-> s.alternatives,
          reviews |-> [d \in ReviewDays |-> Reasons(d, s.shown)]]
  /\ s.shown = [t \in ShownTargets |-> s.shown[t]]
  /\ \A t \in ShownTargets : s.shown[t] = [status |-> s.shown[t].status, state |-> s.shown[t].state]

ObservedWell ==
  /\ observed \in Seq(ToSet(observed))
  /\ \A i \in DOMAIN observed : observed[i].at \in Int /\ IsStrategy(observed[i].strategy)
  /\ \A i, j \in DOMAIN observed : observed[i].at = observed[j].at => i = j

DecidedWell ==
  /\ decisions \in Seq(ToSet(decisions))
  /\ \A d \in DOMAIN decisions :
       /\ decisions[d].at \in Int
       /\ decisions[d].type \in {"ACKNOWLEDGE_REVIEW", "RESOLVE_REVIEW", "DEFER_REVIEW"}

(* What the review of the i-th observation is about, when observations come in order. *)
Due(i) == EventReasons(observed[i - 1].strategy, observed[i].strategy)

SawWhatWasDue ==
  InTimeOrder(Len(observed)) => \A d \in DOMAIN decisions :
    \E i \in 2..Len(observed) : decisions[d].review = observed[i].at /\ decisions[d].saw = Due(i)

(* A case was built on the first n observations and the decisions before it. *)
CaseOf(n) ==
  /\ Known = 1..n /\ case.timeline.current \in 1..n /\ case.decided \in 0..Len(decisions)
  /\ \A i, j \in 1..n : Neighbours(i, j) =>
       ((\E x \in case.items : x.at = observed[j].at) <=> observed[i].strategy # observed[j].strategy)
  /\ case.next = "NO_OPEN_REVIEW" =>
       \A i \in 1..n : (Neighbours(i, case.timeline.current)
           /\ observed[i].strategy # observed[case.timeline.current].strategy) =>
         \E d \in 1..case.decided :
           /\ decisions[d].type = "RESOLVE_REVIEW"
           /\ decisions[d].review = observed[case.timeline.current].at
           /\ \A e \in (d + 1)..case.decided :
                decisions[e].review = decisions[d].review
                  => decisions[e].at < decisions[d].at \/ decisions[e].type = "RESOLVE_REVIEW"
  /\ InTimeOrder(n) => \A x \in case.items :
       /\ \E i \in 2..n : x.at = observed[i].at /\ x.reasons = Due(i)
       /\ x.status = "RESOLVED" =>
            \E d \in 1..case.decided : decisions[d].review = x.at /\ decisions[d].saw = x.reasons

SellerInv ==
  /\ ObservedWell /\ DecidedWell /\ SawWhatWasDue
  /\ case # <<>> => \E n \in 1..Len(observed) : CaseOf(n)

(* A sequence of anything stays one when something is appended. *)
LEMMA AppendedSequence ==
  ASSUME NEW seq, seq \in Seq(ToSet(seq)), NEW e
  PROVE  /\ Append(seq, e) \in Seq(ToSet(Append(seq, e)))
         /\ Len(seq) \in Nat /\ DOMAIN seq = 1..Len(seq)
         /\ Len(Append(seq, e)) = Len(seq) + 1 /\ DOMAIN Append(seq, e) = 1..Len(seq) + 1
         /\ Append(seq, e)[Len(seq) + 1] = e
         /\ \A i \in 1..Len(seq) : Append(seq, e)[i] = seq[i]
<1> DEFINE T == ToSet(seq) \cup {e}
           new == Append(seq, e)
<1>1. seq \in Seq(T)
  BY DEF ToSet
<1>2. e \in T
  OBVIOUS
<1> HIDE DEF T
<1>3. /\ new \in Seq(T) /\ Len(seq) \in Nat /\ DOMAIN seq = 1..Len(seq)
      /\ Len(new) = Len(seq) + 1 /\ DOMAIN new = 1..Len(seq) + 1
      /\ new[Len(seq) + 1] = e /\ \A i \in 1..Len(seq) : new[i] = seq[i]
  BY <1>1, <1>2
<1> HIDE DEF new
<1>4. new \in Seq(ToSet(new))
  BY <1>3 DEF ToSet
<1>5. QED BY <1>3, <1>4 DEF new

(* Of some indices, one is the last by value and then by index. *)
LEMMA LastByValue ==
  ASSUME NEW n \in Nat, NEW f, \A i \in 1..n : f[i] \in Int
  PROVE  \A T \in SUBSET (1..n) : T # {} =>
           \E d \in T : \A e \in T : f[e] < f[d] \/ (f[e] = f[d] /\ e <= d)
<1> DEFINE IsLast(T, d) == d \in T /\ \A e \in T : f[e] < f[d] \/ (f[e] = f[d] /\ e <= d)
           bad == {k \in 0..n : \E T \in SUBSET (1..k) : T # {} /\ \A d \in T : ~ IsLast(T, d)}
<1>1. SUFFICES ASSUME bad # {} PROVE FALSE
  <2>1. n \notin bad => \A T \in SUBSET (1..n) : T # {} => \E d \in T : IsLast(T, d)
    OBVIOUS
  <2>2. QED BY <2>1
<1>2. bad \in SUBSET Nat
  OBVIOUS
<1>3. PICK k \in bad : \A m \in bad : k <= m
  <2> HIDE DEF bad
  <2>1. QED BY <1>1, <1>2, LeastNumber
<1>4. PICK T \in SUBSET (1..k) : T # {} /\ \A d \in T : ~ IsLast(T, d)
  BY <1>3
<1>5. k \in 1..n
  <2>1. PICK d \in T : d \in 1..k
    BY <1>4
  <2>2. k \in 0..n
    BY <1>3
  <2>3. QED BY <2>1, <2>2
<1>6. k - 1 \notin bad
  <2> HIDE DEF bad
  <2>1. QED BY <1>2, <1>3, <1>5
<1>7. \A S \in SUBSET (1..k - 1) : S # {} => \E d \in S : IsLast(S, d)
  BY <1>5, <1>6
<1> HIDE DEF bad
<1>8. k \in T
  BY <1>4, <1>5, <1>7
<1> DEFINE S == T \ {k}
<1>9. S \in SUBSET (1..k - 1)
  BY <1>4, <1>5
<1>10. CASE S = {}
  <2>1. IsLast(T, k)
    BY <1>5, <1>8, <1>10
  <2>2. QED BY <1>4, <1>8, <2>1
<1>11. CASE S # {}
  <2>1. PICK d \in S : IsLast(S, d)
    BY <1>7, <1>9, <1>11
  <2>2. d \in 1..k - 1 /\ d \in T /\ f[d] \in Int /\ f[k] \in Int
    BY <1>5, <1>9, <2>1
  <2>3. CASE f[k] < f[d]
    <3>1. IsLast(T, d)
      BY <2>1, <2>2, <2>3
    <3>2. QED BY <1>4, <2>2, <3>1
  <2>4. CASE ~ (f[k] < f[d])
    <3>1. ASSUME NEW e \in T PROVE f[e] < f[k] \/ (f[e] = f[k] /\ e <= k)
      <4>1. e \in 1..k /\ f[e] \in Int
        BY <1>4, <1>5
      <4>2. e # k => f[e] < f[d] \/ f[e] = f[d]
        BY <2>1
      <4>3. QED BY <1>5, <2>2, <2>4, <4>1, <4>2
    <3>2. IsLast(T, k)
      BY <1>8, <3>1
    <3>3. QED BY <1>4, <1>8, <3>2
  <2>5. QED BY <2>3, <2>4
<1>12. QED BY <1>10, <1>11

(* Two strategies give no reason for a review exactly if they are the same. *)
LEMMA NoReasonIfSame ==
  ASSUME NEW p, NEW c, IsStrategy(p), IsStrategy(c)
  PROVE  EventReasons(p, c) = {} <=> p = c
<1>1. DOMAIN c.shown = ShownTargets /\ DOMAIN p.shown = ShownTargets
  BY DEF IsStrategy
<1>2. ASSUME NEW t \in ShownTargets
      PROVE  Transition(p.shown[t], c.shown[t]) = "UNCHANGED" <=> p.shown[t] = c.shown[t]
  <2> DEFINE a == p.shown[t]
             b == c.shown[t]
  <2>1. a = [status |-> a.status, state |-> a.state] /\ b = [status |-> b.status, state |-> b.state]
    BY <1>2 DEF IsStrategy
  <2> HIDE DEF a, b
  <2>2. a = b <=> a.status = b.status /\ a.state = b.state
    BY <2>1
  <2>3. ASSUME a = b PROVE Transition(a, b) = "UNCHANGED"
    BY <2>3 DEF Transition
  <2>4. ASSUME a # b PROVE Transition(a, b) # "UNCHANGED"
    BY <2>2, <2>4 DEF Transition
  <2>5. QED BY <2>3, <2>4 DEF a, b
<1>3. ASSUME EventReasons(p, c) = {} PROVE p = c
  <2>1. \A t \in ShownTargets : p.shown[t] = c.shown[t]
    BY <1>1, <1>2, <1>3 DEF EventReasons
  <2>2. p.shown = c.shown
    BY <2>1 DEF IsStrategy
  <2>3. p.alternatives = c.alternatives
    BY <1>3 DEF EventReasons
  <2>4. p = [shown |-> p.shown, alternatives |-> p.alternatives,
             reviews |-> [d \in ReviewDays |-> Reasons(d, p.shown)]]
    BY DEF IsStrategy
  <2>5. c = [shown |-> c.shown, alternatives |-> c.alternatives,
             reviews |-> [d \in ReviewDays |-> Reasons(d, c.shown)]]
    BY DEF IsStrategy
  <2>6. [shown |-> p.shown, alternatives |-> p.alternatives,
         reviews |-> [d \in ReviewDays |-> Reasons(d, p.shown)]]
        = [shown |-> c.shown, alternatives |-> c.alternatives,
           reviews |-> [d \in ReviewDays |-> Reasons(d, c.shown)]]
    BY <2>2, <2>3
  <2>7. QED BY <2>4, <2>5, <2>6
<1>4. ASSUME p = c PROVE EventReasons(p, c) = {}
  BY <1>1, <1>2, <1>4 DEF EventReasons
<1>5. QED BY <1>3, <1>4

LEMMA BuiltIsStrategy ==
  ASSUME NEW alternatives, NEW findings
  PROVE  IsStrategy(Strategy(Opportunity(alternatives), findings))
<1> DEFINE opportunity == Opportunity(alternatives)
           shown == [t \in ShownTargets |-> IF t = "COMPETITIVE_PRESSURE" THEN Stated(opportunity.pressure)
                                       ELSE Dimension(t, findings)]
           built == [shown |-> shown, alternatives |-> opportunity.alternatives,
                     reviews |-> [d \in ReviewDays |-> Reasons(d, shown)]]
<1>1. Strategy(opportunity, findings) = built
  BY DEF Strategy, ShownTargets
<1>2. \A t : Dimension(t, findings) =
               [status |-> Dimension(t, findings).status, state |-> Dimension(t, findings).state]
  BY DEF Dimension, Stated
<1>3. \A t \in ShownTargets : shown[t] = [status |-> shown[t].status, state |-> shown[t].state]
  <2>1. ASSUME NEW t \in ShownTargets
        PROVE  shown[t] = [status |-> shown[t].status, state |-> shown[t].state]
    <3>1. CASE t = "COMPETITIVE_PRESSURE"
      BY <3>1 DEF Stated
    <3>2. CASE t # "COMPETITIVE_PRESSURE"
      BY <1>2, <3>2
    <3>3. QED BY <3>1, <3>2
  <2>2. QED BY <2>1
<1>4. shown = [t \in ShownTargets |-> shown[t]]
  OBVIOUS
<1> HIDE DEF shown, opportunity
<1>5. built.shown = shown /\ built.alternatives = opportunity.alternatives
  OBVIOUS
<1>6. IsStrategy(built)
  BY <1>3, <1>4, <1>5 DEF IsStrategy
<1>7. QED BY <1>1, <1>6 DEF opportunity

-----------------------------------------------------------------------------
(* What a timeline of the observations tells *)

Adjacent(i, j) ==
  /\ observed[i].at < observed[j].at
  /\ ~ \E k \in DOMAIN observed : observed[i].at < observed[k].at /\ observed[k].at < observed[j].at

Newest(i) == \A j \in DOMAIN observed : observed[j].at <= observed[i].at

(* Among the observations that meet a condition, if any, there is a newest. *)
LEMMA NewestExists ==
  ASSUME ObservedWell, NEW T \in SUBSET DOMAIN observed, T # {}
  PROVE  \E i \in T : \A j \in T : observed[j].at <= observed[i].at
<1> DEFINE f == [i \in DOMAIN observed |-> observed[i].at]
<1>1. Len(observed) \in Nat /\ DOMAIN observed = 1..Len(observed)
  BY DEF ObservedWell
<1>2. \A i \in 1..Len(observed) : f[i] = observed[i].at /\ f[i] \in Int
  BY <1>1 DEF ObservedWell
<1> HIDE DEF f
<1>3. PICK i \in T : \A j \in T : f[j] < f[i] \/ (f[j] = f[i] /\ j <= i)
  BY <1>1, <1>2, LastByValue
<1>4. \A j \in T : observed[j].at <= observed[i].at
  BY <1>1, <1>2, <1>3
<1>5. QED BY <1>4

LEMMA PriorIsAdjacent ==
  ASSUME ObservedWell, NEW j \in DOMAIN observed
  PROVE  /\ \A i \in DOMAIN observed : Adjacent(i, j) => PriorEntry(observed, j) = i
         /\ \/ PriorEntry(observed, j) = 0 /\ \A i \in DOMAIN observed : ~ (observed[i].at < observed[j].at)
            \/ PriorEntry(observed, j) \in DOMAIN observed /\ Adjacent(PriorEntry(observed, j), j)
<1> DEFINE before == {k \in DOMAIN observed : observed[k].at < observed[j].at}
<1>1. \A k \in DOMAIN observed : observed[k].at \in Int
  BY DEF ObservedWell
<1>2. CASE before = {}
  <2>1. PriorEntry(observed, j) = 0
    BY <1>2 DEF PriorEntry
  <2>2. \A i \in DOMAIN observed : ~ (observed[i].at < observed[j].at)
    BY <1>2
  <2>3. QED BY <2>1, <2>2 DEF Adjacent
<1>3. CASE before # {}
  <2> DEFINE prior == PriorEntry(observed, j)
  <2>1. \E i \in before : \A k \in before : observed[k].at <= observed[i].at
    BY <1>3, NewestExists
  <2>2. prior = CHOOSE i \in before : \A k \in before : observed[k].at <= observed[i].at
    BY <1>3 DEF PriorEntry
  <2>3. prior \in before /\ \A k \in before : observed[k].at <= observed[prior].at
    BY <2>1, <2>2
  <2> HIDE DEF prior
  <2>4. prior \in DOMAIN observed /\ Adjacent(prior, j)
    BY <1>1, <2>3 DEF Adjacent
  <2>5. ASSUME NEW i \in DOMAIN observed, Adjacent(i, j) PROVE i = prior
    <3>1. i \in before
      BY <2>5 DEF Adjacent
    <3>2. observed[i].at <= observed[prior].at /\ ~ (observed[i].at < observed[prior].at)
      BY <2>3, <2>5, <3>1 DEF Adjacent
    <3>3. observed[i].at = observed[prior].at
      BY <1>1, <2>4, <3>2
    <3>4. QED BY <2>4, <3>3 DEF ObservedWell
  <2>6. QED BY <2>4, <2>5 DEF prior
<1>4. QED BY <1>2, <1>3

(* The reasons in a timeline are those of the changes between neighbours. *)
LEMMA TimelineTells ==
  ASSUME ObservedWell, NEW T, T = Timeline(observed)
  PROVE  /\ DOMAIN T.entries = DOMAIN observed
         /\ \A j \in DOMAIN observed : T.entries[j].at = observed[j].at
         /\ \A i, j \in DOMAIN observed : Adjacent(i, j) =>
              T.entries[j].reasons = EventReasons(observed[i].strategy, observed[j].strategy)
         /\ \A j \in DOMAIN observed : T.entries[j].reasons # {} =>
              \E i \in DOMAIN observed : Adjacent(i, j)
         /\ DOMAIN observed # {} => T.current \in DOMAIN observed /\ Newest(T.current)
<1> DEFINE entries == [i \in DOMAIN observed |->
             [at      |-> observed[i].at,
              reasons |-> IF PriorEntry(observed, i) = 0 THEN {}
                          ELSE EventReasons(observed[PriorEntry(observed, i)].strategy, observed[i].strategy)]]
<1>1. T.entries = entries
      /\ T.current = CHOOSE i \in DOMAIN observed : \A j \in DOMAIN observed : observed[j].at <= observed[i].at
  BY DEF Timeline
<1>2. \A j \in DOMAIN observed :
        /\ entries[j].at = observed[j].at
        /\ PriorEntry(observed, j) = 0 => entries[j].reasons = {}
        /\ PriorEntry(observed, j) # 0 =>
             entries[j].reasons = EventReasons(observed[PriorEntry(observed, j)].strategy, observed[j].strategy)
  OBVIOUS
<1>3. DOMAIN entries = DOMAIN observed
  OBVIOUS
<1> HIDE DEF entries
<1>4. DOMAIN observed = 1..Len(observed) /\ Len(observed) \in Nat
  BY DEF ObservedWell
<1>5. ASSUME NEW i \in DOMAIN observed, NEW j \in DOMAIN observed, Adjacent(i, j)
      PROVE  T.entries[j].reasons = EventReasons(observed[i].strategy, observed[j].strategy)
  <2>1. PriorEntry(observed, j) = i
    BY <1>5, PriorIsAdjacent
  <2>2. i # 0
    BY <1>4
  <2>3. QED BY <1>1, <1>2, <2>1, <2>2
<1>6. ASSUME NEW j \in DOMAIN observed, T.entries[j].reasons # {}
      PROVE  \E i \in DOMAIN observed : Adjacent(i, j)
  <2>1. PriorEntry(observed, j) # 0
    BY <1>1, <1>2, <1>6
  <2>2. QED BY <2>1, PriorIsAdjacent
<1>7. ASSUME DOMAIN observed # {} PROVE T.current \in DOMAIN observed /\ Newest(T.current)
  <2>1. \E i \in DOMAIN observed : \A j \in DOMAIN observed : observed[j].at <= observed[i].at
    BY <1>7, NewestExists
  <2>2. QED BY <1>1, <2>1 DEF Newest
<1>8. QED BY <1>1, <1>2, <1>3, <1>5, <1>6, <1>7

(* The reviews of a case are of the observations that changed something. *)
LEMMA ItemsTell ==
  ASSUME ObservedWell, NEW T, T = Timeline(observed)
  PROVE  /\ \A x \in ReviewItems(T) : \E j \in DOMAIN observed :
              /\ x.at = observed[j].at /\ x.reasons = T.entries[j].reasons /\ x.reasons # {}
              /\ x.status = ReviewStatus(T.entries[j], j = T.current)
         /\ \A j \in DOMAIN observed : T.entries[j].reasons # {} =>
              \E x \in ReviewItems(T) :
                /\ x.at = observed[j].at /\ x.reasons = T.entries[j].reasons
                /\ x.status = ReviewStatus(T.entries[j], j = T.current)
<1>1. DOMAIN T.entries = DOMAIN observed /\ \A j \in DOMAIN observed : T.entries[j].at = observed[j].at
  BY TimelineTells
<1> DEFINE item(i) == [at |-> T.entries[i].at, reasons |-> T.entries[i].reasons,
                       status |-> ReviewStatus(T.entries[i], i = T.current)]
<1>2. ReviewItems(T) = {item(i) : i \in {j \in DOMAIN T.entries : T.entries[j].reasons # {}}}
  BY DEF ReviewItems
<1>3. \A i : /\ item(i).at = T.entries[i].at /\ item(i).reasons = T.entries[i].reasons
             /\ item(i).status = ReviewStatus(T.entries[i], i = T.current)
  OBVIOUS
<1> HIDE DEF item
<1>4. QED BY <1>1, <1>2, <1>3

(* A review is resolved by a decision; of the newest one, by the last word on it. *)
LEMMA StatusTells ==
  ASSUME DecidedWell, NEW entry, NEW newest \in BOOLEAN
  PROVE  LET status == ReviewStatus(entry, newest) IN
         /\ status = "RESOLVED" => \E d \in DOMAIN decisions : decisions[d].review = entry.at
         /\ (newest /\ status \notin {"PENDING", "ACKNOWLEDGED"}) =>
              \E d \in DOMAIN decisions :
                /\ decisions[d].type = "RESOLVE_REVIEW" /\ decisions[d].review = entry.at
                /\ \A e \in (d + 1)..Len(decisions) :
                     decisions[e].review = decisions[d].review => decisions[e].at < decisions[d].at
<1> DEFINE related == {d \in DOMAIN decisions : decisions[d].review = entry.at}
           IsLast(d) == \A e \in related :
             decisions[e].at < decisions[d].at \/ (decisions[e].at = decisions[d].at /\ e <= d)
           last == CHOOSE d \in related : IsLast(d)
           replayed == CASE related = {} -> "PENDING"
                         [] related # {} /\ decisions[last].type = "ACKNOWLEDGE_REVIEW" -> "ACKNOWLEDGED"
                         [] related # {} /\ decisions[last].type = "RESOLVE_REVIEW"     -> "RESOLVED"
                         [] related # {} /\ decisions[last].type = "DEFER_REVIEW"       -> "PENDING"
           f == [d \in DOMAIN decisions |-> decisions[d].at]
<1>1. ReviewStatus(entry, newest) = IF replayed # "RESOLVED" /\ ~ newest THEN "SUPERSEDED" ELSE replayed
  BY Zenon DEF ReviewStatus
<1>2. Len(decisions) \in Nat /\ DOMAIN decisions = 1..Len(decisions)
  BY DEF DecidedWell
<1>3. \A d \in 1..Len(decisions) : f[d] = decisions[d].at /\ f[d] \in Int
  BY <1>2 DEF DecidedWell
<1> HIDE DEF f
<1>4. related # {} => last \in related /\ IsLast(last)
  <2>1. SUFFICES ASSUME related # {} PROVE \E d \in related : IsLast(d)
    OBVIOUS
  <2>2. related \in SUBSET (1..Len(decisions))
    BY <1>2
  <2>3. PICK d \in related : \A e \in related : f[e] < f[d] \/ (f[e] = f[d] /\ e <= d)
    <3> HIDE DEF related
    <3>1. QED BY <1>2, <1>3, <2>1, <2>2, LastByValue
  <2>4. IsLast(d)
    BY <1>2, <1>3, <2>3
  <2>5. QED BY <2>4
<1>5. \A d \in DOMAIN decisions : decisions[d].type \in {"ACKNOWLEDGE_REVIEW", "RESOLVE_REVIEW", "DEFER_REVIEW"}
  BY DEF DecidedWell
<1> HIDE DEF last
<1>6. /\ related = {} => replayed = "PENDING"
      /\ related # {} =>
           \/ decisions[last].type = "ACKNOWLEDGE_REVIEW" /\ replayed = "ACKNOWLEDGED"
           \/ decisions[last].type = "RESOLVE_REVIEW" /\ replayed = "RESOLVED"
           \/ decisions[last].type = "DEFER_REVIEW" /\ replayed = "PENDING"
  <2>1. related # {} => last \in DOMAIN decisions
    BY <1>4
  <2> DEFINE type == decisions[last].type
             some == related # {}
  <2>2. some => type \in {"ACKNOWLEDGE_REVIEW", "RESOLVE_REVIEW", "DEFER_REVIEW"}
    BY <1>5, <2>1
  <2>3. replayed = CASE ~ some -> "PENDING"
                     [] some /\ type = "ACKNOWLEDGE_REVIEW" -> "ACKNOWLEDGED"
                     [] some /\ type = "RESOLVE_REVIEW"     -> "RESOLVED"
                     [] some /\ type = "DEFER_REVIEW"       -> "PENDING"
    OBVIOUS
  <2> HIDE DEF type, some, replayed
  <2>4. /\ ~ some => replayed = "PENDING"
        /\ some =>
           \/ type = "ACKNOWLEDGE_REVIEW" /\ replayed = "ACKNOWLEDGED"
           \/ type = "RESOLVE_REVIEW" /\ replayed = "RESOLVED"
           \/ type = "DEFER_REVIEW" /\ replayed = "PENDING"
    BY <2>2, <2>3
  <2>5. QED BY <2>4 DEF type, some
<1> HIDE DEF replayed
<1>7. ReviewStatus(entry, newest) = "RESOLVED" => related # {}
  BY <1>1, <1>6
<1>8. ASSUME newest, ReviewStatus(entry, newest) \notin {"PENDING", "ACKNOWLEDGED"}
      PROVE  related # {} /\ decisions[last].type = "RESOLVE_REVIEW"
  BY <1>1, <1>6, <1>8
<1>9. ASSUME related # {}, NEW e \in (last + 1)..Len(decisions), decisions[e].review = decisions[last].review
      PROVE  decisions[e].at < decisions[last].at
  <2>1. last \in 1..Len(decisions) /\ decisions[last].review = entry.at
    BY <1>2, <1>4, <1>9
  <2>2. e \in 1..Len(decisions) /\ e > last
    BY <1>2, <2>1
  <2>3. e \in related
    BY <1>2, <1>9, <2>1, <2>2
  <2>4. decisions[e].at < decisions[last].at \/ e <= last
    BY <1>4, <2>3
  <2>5. QED BY <2>1, <2>2, <2>4
<1>10. QED BY <1>4, <1>7, <1>8, <1>9

-----------------------------------------------------------------------------
(* A case, when it is built and afterwards *)

LEMMA SellerStarts == SellerInit => SellerInv
<1> SUFFICES ASSUME SellerInit PROVE SellerInv
  OBVIOUS
<1>1. observed = <<>> /\ decisions = <<>> /\ case = <<>>
  BY DEF SellerInit
<1>2. ObservedWell /\ DecidedWell /\ SawWhatWasDue
  BY <1>1 DEF ObservedWell, DecidedWell, SawWhatWasDue
<1>3. QED BY <1>1, <1>2 DEF SellerInv

(* A case stays true of what it was built on. *)
LEMMA CaseStays ==
  ASSUME NEW n \in Nat, CaseOf(n), UNCHANGED case,
         n <= Len(observed), Len(observed) \in Nat, Len(decisions) \in Nat,
         Len(decisions') \in Nat, Len(decisions) <= Len(decisions'),
         \A i \in 1..Len(observed) : observed'[i] = observed[i],
         \A d \in 1..Len(decisions) : decisions'[d] = decisions[d]
  PROVE  CaseOf(n)'
<1>1. /\ Known = 1..n /\ Known' = 1..n /\ case.timeline.current \in 1..n
      /\ case.decided \in 0..Len(decisions) /\ case.decided \in 0..Len(decisions')
  BY DEF CaseOf, Known
<1>2. \A i \in 1..n : observed'[i] = observed[i]
  OBVIOUS
<1>3. \A d \in 1..case.decided : decisions'[d] = decisions[d]
  BY <1>1
<1>4. ASSUME NEW i \in 1..n, NEW j \in 1..n PROVE Neighbours(i, j)' <=> Neighbours(i, j)
  BY <1>1, <1>2 DEF Neighbours
<1>5. InTimeOrder(n)' <=> InTimeOrder(n)
  BY <1>2 DEF InTimeOrder
<1>6. \A i \in 2..n : Due(i)' = Due(i)
  BY <1>2 DEF Due
<1>7. \A i, j \in 1..n : Neighbours(i, j)' =>
        ((\E x \in case'.items : x.at = observed'[j].at) <=> observed'[i].strategy # observed'[j].strategy)
  BY <1>2, <1>4 DEF CaseOf
<1>8. ASSUME case'.next = "NO_OPEN_REVIEW", NEW i \in 1..n, Neighbours(i, case.timeline.current)',
             observed'[i].strategy # observed'[case'.timeline.current].strategy
      PROVE  \E d \in 1..case'.decided :
               /\ decisions'[d].type = "RESOLVE_REVIEW"
               /\ decisions'[d].review = observed'[case'.timeline.current].at
               /\ \A e \in (d + 1)..case'.decided :
                    decisions'[e].review = decisions'[d].review
                      => decisions'[e].at < decisions'[d].at \/ decisions'[e].type = "RESOLVE_REVIEW"
  <2>1. PICK c \in 1..n : c = case.timeline.current
    BY <1>1
  <2>2. Neighbours(i, c)' /\ observed'[i].strategy # observed'[c].strategy
    BY <1>8, <2>1 DEF Neighbours
  <2>3. Neighbours(i, case.timeline.current)
        /\ observed[i].strategy # observed[case.timeline.current].strategy
    BY <1>2, <1>4, <2>1, <2>2
  <2>4. PICK d \in 1..case.decided :
           /\ decisions[d].type = "RESOLVE_REVIEW"
           /\ decisions[d].review = observed[case.timeline.current].at
           /\ \A e \in (d + 1)..case.decided :
                decisions[e].review = decisions[d].review
                  => decisions[e].at < decisions[d].at \/ decisions[e].type = "RESOLVE_REVIEW"
    BY <1>8, <2>3 DEF CaseOf
  <2>5. decisions'[d] = decisions[d] /\ observed'[case'.timeline.current].at = observed[case.timeline.current].at
    BY <1>1, <1>2, <1>3
  <2>6. ASSUME NEW e \in (d + 1)..case.decided PROVE decisions'[e] = decisions[e]
    <3>1. e \in 1..case.decided
      BY <1>1
    <3>2. QED BY <1>3, <3>1
  <2>7. QED BY <2>4, <2>5, <2>6
<1>9. ASSUME InTimeOrder(n)', NEW x \in case.items
      PROVE  /\ \E i \in 2..n : x.at = observed'[i].at /\ x.reasons = Due(i)'
             /\ x.status = "RESOLVED" =>
                  \E d \in 1..case.decided : decisions'[d].review = x.at /\ decisions'[d].saw = x.reasons
  <2>1. PICK i \in 2..n : x.at = observed[i].at /\ x.reasons = Due(i)
    BY <1>5, <1>9 DEF CaseOf
  <2>2. i \in 1..n
    OBVIOUS
  <2>3. \E k \in 2..n : x.at = observed'[k].at /\ x.reasons = Due(k)'
    BY <1>2, <1>6, <2>1, <2>2
  <2>4. ASSUME x.status = "RESOLVED"
        PROVE  \E d \in 1..case.decided : decisions'[d].review = x.at /\ decisions'[d].saw = x.reasons
    <3>1. PICK d \in 1..case.decided : decisions[d].review = x.at /\ decisions[d].saw = x.reasons
      BY <1>5, <1>9, <2>4, Zenon DEF CaseOf
    <3>2. decisions'[d] = decisions[d]
      BY <1>3
    <3>3. QED BY <3>1, <3>2
  <2>5. QED BY <2>3, <2>4
<1>10. QED BY <1>1, <1>7, <1>8, <1>9 DEF CaseOf

LEMMA ObservedStays ==
  ASSUME ObservedWell, UNCHANGED observed
  PROVE  ObservedWell'
<1>1. \A i \in DOMAIN observed : IsStrategy(observed[i].strategy) => IsStrategy(observed[i].strategy)'
  BY DEF IsStrategy, Reasons, ReviewDays, ShownTargets, Stated
<1>2. ToSet(observed)' = ToSet(observed)
  BY DEF ToSet
<1>3. QED BY <1>1, <1>2 DEF ObservedWell

LEMMA Observes ==
  ASSUME SellerInv, NEW alternatives, NEW findings, NEW assumptions, NEW moment \in Int,
         Observe(alternatives, findings, assumptions, moment)
  PROVE  SellerInv'
<1> DEFINE strategy == Strategy(Opportunity(alternatives), findings)
           new == [at |-> moment, strategy |-> strategy, scenario |-> Comparisons(strategy, assumptions)]
<1>1. /\ \A i \in DOMAIN observed : observed[i].at # moment
      /\ observed' = Append(observed, new) /\ UNCHANGED <<decisions, case>>
  BY DEF Observe
<1>2. IsStrategy(strategy)
  BY BuiltIsStrategy
<1>3. new.at = moment /\ new.strategy = strategy
  OBVIOUS
<1> HIDE DEF new, strategy
<1>4. ObservedWell
  BY DEF SellerInv
<1>5. observed \in Seq(ToSet(observed))
  BY <1>4 DEF ObservedWell
<1>6. /\ observed' \in Seq(ToSet(observed)') /\ Len(observed) \in Nat /\ DOMAIN observed = 1..Len(observed)
      /\ Len(observed') = Len(observed) + 1 /\ DOMAIN observed' = 1..Len(observed) + 1
      /\ observed'[Len(observed) + 1] = new
      /\ \A i \in 1..Len(observed) : observed'[i] = observed[i]
  <2>1. ToSet(observed)' = ToSet(Append(observed, new))
    BY <1>1 DEF ToSet
  <2>2. QED BY <1>1, <1>5, <2>1, AppendedSequence
<1>7. ObservedWell'
  <2>1. \A i \in DOMAIN observed' : observed'[i].at \in Int /\ IsStrategy(observed'[i].strategy)
    BY <1>2, <1>3, <1>4, <1>6 DEF ObservedWell
  <2>2. ASSUME NEW i \in DOMAIN observed', NEW j \in DOMAIN observed', observed'[i].at = observed'[j].at
        PROVE  i = j
    <3>1. CASE i \in 1..Len(observed) /\ j \in 1..Len(observed)
      BY <1>4, <1>6, <2>2, <3>1 DEF ObservedWell
    <3>2. CASE i = Len(observed) + 1 \/ j = Len(observed) + 1
      BY <1>1, <1>3, <1>6, <2>2, <3>2
    <3>3. QED BY <1>6, <3>1, <3>2
  <2>3. \A i \in DOMAIN observed' : IsStrategy(observed'[i].strategy) => IsStrategy(observed[i].strategy)'
    BY DEF IsStrategy, Reasons, ReviewDays, ShownTargets, Stated
  <2>4. QED BY <1>6, <2>1, <2>2, <2>3 DEF ObservedWell
<1>8. DecidedWell'
  BY <1>1 DEF SellerInv, DecidedWell, ToSet
<1>9. SawWhatWasDue'
  <2>1. ASSUME InTimeOrder(Len(observed)) , NEW d \in DOMAIN decisions
        PROVE  \E i \in 2..Len(observed') : decisions[d].review = observed'[i].at /\ decisions[d].saw = Due(i)'
    <3>1. PICK i \in 2..Len(observed) : decisions[d].review = observed[i].at /\ decisions[d].saw = Due(i)
      BY <2>1 DEF SellerInv, SawWhatWasDue
    <3>2. i \in 1..Len(observed) /\ i - 1 \in 1..Len(observed) /\ i \in 2..Len(observed')
      BY <1>6
    <3>3. Due(i)' = Due(i)
      BY <1>6, <3>2 DEF Due
    <3>4. QED BY <1>6, <3>1, <3>2, <3>3
  <2>2. InTimeOrder(Len(observed))' => InTimeOrder(Len(observed))
    BY <1>6 DEF InTimeOrder
  <2>3. QED BY <1>1, <2>1, <2>2 DEF SawWhatWasDue
<1>10. ASSUME case # <<>> PROVE \E n \in 1..Len(observed') : CaseOf(n)'
  <2>1. PICK n \in 1..Len(observed) : CaseOf(n)
    BY <1>10 DEF SellerInv
  <2>2. Len(decisions) \in Nat
    BY DEF SellerInv, DecidedWell
  <2>3. CaseOf(n)'
    BY <1>1, <1>6, <2>1, <2>2, CaseStays
  <2>4. QED BY <1>6, <2>1, <2>3
<1>11. QED BY <1>1, <1>7, <1>8, <1>9, <1>10 DEF SellerInv

LEMMA Decides ==
  ASSUME SellerInv, case # <<>>, NEW item \in case.items,
         NEW type \in {"ACKNOWLEDGE_REVIEW", "RESOLVE_REVIEW", "DEFER_REVIEW"}, NEW moment \in Int,
         Decide(item, type, moment)
  PROVE  SellerInv'
<1> DEFINE new == [review |-> item.at, type |-> type, at |-> moment, saw |-> item.reasons]
<1>1. decisions' = Append(decisions, new) /\ UNCHANGED <<observed, case>>
  BY DEF Decide
<1>2. new.review = item.at /\ new.type = type /\ new.at = moment /\ new.saw = item.reasons
  OBVIOUS
<1> HIDE DEF new
<1>3. /\ decisions' \in Seq(ToSet(decisions)') /\ Len(decisions) \in Nat /\ DOMAIN decisions = 1..Len(decisions)
      /\ Len(decisions') = Len(decisions) + 1 /\ DOMAIN decisions' = 1..Len(decisions) + 1
      /\ decisions'[Len(decisions) + 1] = new
      /\ \A d \in 1..Len(decisions) : decisions'[d] = decisions[d]
  <2>1. ToSet(decisions)' = ToSet(Append(decisions, new)) /\ decisions \in Seq(ToSet(decisions))
    BY <1>1 DEF ToSet, SellerInv, DecidedWell
  <2>2. QED BY <1>1, <2>1, AppendedSequence
<1>4. Len(observed) \in Nat
  BY DEF SellerInv, ObservedWell
<1>5. PICK n \in 1..Len(observed) : CaseOf(n)
  BY DEF SellerInv
<1>6. CaseOf(n)'
  BY <1>1, <1>3, <1>4, <1>5, CaseStays
<1>7. ObservedWell'
  BY <1>1, ObservedStays DEF SellerInv
<1>8. DecidedWell'
  BY <1>2, <1>3 DEF SellerInv, DecidedWell
<1>9. SawWhatWasDue'
  <2>1. ASSUME InTimeOrder(Len(observed)), NEW d \in DOMAIN decisions'
        PROVE  \E i \in 2..Len(observed) : decisions'[d].review = observed[i].at /\ decisions'[d].saw = Due(i)
    <3>1. CASE d \in 1..Len(decisions)
      BY <1>3, <2>1, <3>1 DEF SellerInv, SawWhatWasDue
    <3>2. CASE d = Len(decisions) + 1
      <4>1. InTimeOrder(n)
        BY <1>4, <2>1 DEF InTimeOrder
      <4>2. PICK i \in 2..n : item.at = observed[i].at /\ item.reasons = Due(i)
        BY <1>5, <4>1 DEF CaseOf
      <4>3. i \in 2..Len(observed)
        BY <1>4
      <4>4. QED BY <1>2, <1>3, <3>2, <4>2, <4>3
    <3>3. QED BY <1>3, <3>1, <3>2
  <2>2. InTimeOrder(Len(observed))' <=> InTimeOrder(Len(observed))
    BY <1>1 DEF InTimeOrder
  <2>3. \A i \in 2..Len(observed) : Due(i)' = Due(i)
    BY <1>1 DEF Due
  <2>4. QED BY <1>1, <2>1, <2>2, <2>3 DEF SawWhatWasDue
<1>10. QED BY <1>1, <1>5, <1>6, <1>7, <1>8, <1>9 DEF SellerInv

LEMMA Builds ==
  ASSUME SellerInv, DOMAIN observed # {}, NEW strategy, NEW communicated, BuildCase(strategy, communicated)
  PROVE  SellerInv'
<1> DEFINE n == Len(observed)
<1>1. PICK T : T = Timeline(observed)
  OBVIOUS
<1>2. PICK items0 : items0 = ReviewItems(T)
  OBVIOUS
<1>3. /\ case'.timeline = T /\ case'.decided = Len(decisions) /\ case'.items = items0
      /\ case'.next = IF \E x \in items0 : x.status \in {"PENDING", "ACKNOWLEDGED"}
                      THEN "OPEN_REVIEW" ELSE "NO_OPEN_REVIEW"
      /\ UNCHANGED <<observed, decisions>>
  BY <1>1, <1>2 DEF BuildCase
<1>4. ObservedWell /\ DecidedWell /\ SawWhatWasDue
  BY DEF SellerInv
<1>5. /\ n \in Nat /\ DOMAIN observed = 1..n /\ n \in 1..n
      /\ Len(decisions) \in Nat /\ DOMAIN decisions = 1..Len(decisions)
  BY <1>4 DEF ObservedWell, DecidedWell
<1>6. /\ DOMAIN T.entries = 1..n /\ \A j \in 1..n : T.entries[j].at = observed[j].at
      /\ \A i, j \in 1..n : Adjacent(i, j) =>
           T.entries[j].reasons = EventReasons(observed[i].strategy, observed[j].strategy)
      /\ \A j \in 1..n : T.entries[j].reasons # {} => \E i \in 1..n : Adjacent(i, j)
      /\ T.current \in 1..n /\ Newest(T.current)
  <2>1. /\ DOMAIN T.entries = DOMAIN observed
        /\ \A j \in DOMAIN observed : T.entries[j].at = observed[j].at
        /\ \A i, j \in DOMAIN observed : Adjacent(i, j) =>
             T.entries[j].reasons = EventReasons(observed[i].strategy, observed[j].strategy)
        /\ \A j \in DOMAIN observed : T.entries[j].reasons # {} =>
             \E i \in DOMAIN observed : Adjacent(i, j)
        /\ T.current \in DOMAIN observed /\ Newest(T.current)
    BY <1>1, <1>4, TimelineTells, Zenon
  <2>2. QED BY <1>5, <2>1, Zenon
<1>7. /\ \A x \in items0 : \E j \in DOMAIN observed :
           /\ x.at = observed[j].at /\ x.reasons = T.entries[j].reasons /\ x.reasons # {}
           /\ x.status = ReviewStatus(T.entries[j], j = T.current)
      /\ \A j \in DOMAIN observed : T.entries[j].reasons # {} =>
           \E x \in items0 :
             /\ x.at = observed[j].at /\ x.reasons = T.entries[j].reasons
             /\ x.status = ReviewStatus(T.entries[j], j = T.current)
  BY <1>1, <1>2, <1>4, ItemsTell
<1>8. Known' = 1..n /\ case'.timeline.current \in 1..n /\ case'.decided \in 0..Len(decisions')
  BY <1>3, <1>5, <1>6 DEF Known
<1>9. ASSUME NEW i \in 1..n, NEW j \in 1..n PROVE Neighbours(i, j)' <=> Adjacent(i, j)
  BY <1>3, <1>5, <1>8 DEF Neighbours, Adjacent
<1>10. ASSUME NEW i \in 1..n, NEW j \in 1..n, Adjacent(i, j)
       PROVE  (\E x \in items0 : x.at = observed[j].at) <=> observed[i].strategy # observed[j].strategy
  <2>1. T.entries[j].reasons = EventReasons(observed[i].strategy, observed[j].strategy)
    BY <1>6, <1>10
  <2>2. T.entries[j].reasons = {} <=> observed[i].strategy = observed[j].strategy
    BY <1>4, <1>5, <2>1, NoReasonIfSame DEF ObservedWell
  <2>3. ASSUME NEW x \in items0, x.at = observed[j].at PROVE T.entries[j].reasons # {}
    <3>1. PICK k \in 1..n : x.at = observed[k].at /\ x.reasons = T.entries[k].reasons /\ x.reasons # {}
      BY <1>5, <1>7
    <3>2. k = j
      BY <1>4, <1>5, <2>3, <3>1 DEF ObservedWell
    <3>3. QED BY <3>1, <3>2
  <2>4. QED BY <1>5, <1>7, <2>2, <2>3
<1>11. ASSUME case'.next = "NO_OPEN_REVIEW", NEW i \in 1..n, Adjacent(i, T.current),
              observed[i].strategy # observed[T.current].strategy
       PROVE  \E d \in 1..Len(decisions) :
                /\ decisions[d].type = "RESOLVE_REVIEW"
                /\ decisions[d].review = observed[T.current].at
                /\ \A e \in (d + 1)..Len(decisions) :
                     decisions[e].review = decisions[d].review
                       => decisions[e].at < decisions[d].at \/ decisions[e].type = "RESOLVE_REVIEW"
  <2>1. T.entries[T.current].reasons # {}
    <3>1. T.entries[T.current].reasons = EventReasons(observed[i].strategy, observed[T.current].strategy)
      BY <1>6, <1>11
    <3>2. QED BY <1>4, <1>5, <1>6, <1>11, <3>1, NoReasonIfSame DEF ObservedWell
  <2>2. PICK x \in items0 : x.status = ReviewStatus(T.entries[T.current], TRUE)
    <3>1. (T.current = T.current) = TRUE
      OBVIOUS
    <3>2. QED BY <1>6, <1>5, <1>7, <2>1, <3>1
  <2>3. x.status \notin {"PENDING", "ACKNOWLEDGED"}
    BY <1>3, <1>11
  <2>4. PICK d \in DOMAIN decisions :
          /\ decisions[d].type = "RESOLVE_REVIEW" /\ decisions[d].review = T.entries[T.current].at
          /\ \A e \in (d + 1)..Len(decisions) :
               decisions[e].review = decisions[d].review => decisions[e].at < decisions[d].at
    BY <1>4, <2>2, <2>3, StatusTells
  <2>5. QED BY <1>5, <1>6, <2>4
<1>12. ASSUME InTimeOrder(n), NEW x \in items0
       PROVE  /\ \E i \in 2..n : x.at = observed[i].at /\ x.reasons = Due(i)
              /\ x.status = "RESOLVED" =>
                   \E d \in 1..Len(decisions) : decisions[d].review = x.at /\ decisions[d].saw = x.reasons
  <2>1. PICK j \in 1..n :
          /\ x.at = observed[j].at /\ x.reasons = T.entries[j].reasons /\ x.reasons # {}
          /\ x.status = ReviewStatus(T.entries[j], j = T.current)
    BY <1>5, <1>7
  <2>2. PICK i \in 1..n : Adjacent(i, j)
    BY <1>6, <2>1
  <2>3. \A k, l \in 1..n : k < l <=> observed[k].at < observed[l].at
    <3>1. \A k, l \in 1..n : k < l => observed[k].at < observed[l].at
      BY <1>12 DEF InTimeOrder
    <3>2. \A k \in 1..n : observed[k].at \in Int
      BY <1>4, <1>5 DEF ObservedWell
    <3>3. \A k, l \in 1..n : ~ (k < l) => k = l \/ l < k
      OBVIOUS
    <3>4. QED BY <3>1, <3>2, <3>3
  <2>4. j \in 2..n /\ i = j - 1
    <3>1. i < j
      BY <2>2, <2>3 DEF Adjacent
    <3>2. j - 1 \in 1..n
      BY <3>1
    <3>3. ~ (i < j - 1)
      <4>1. j - 1 < j
        OBVIOUS
      <4>2. observed[j - 1].at < observed[j].at
        BY <2>3, <3>2, <4>1
      <4>3. ~ (observed[i].at < observed[j - 1].at)
        BY <1>5, <2>2, <3>2, <4>2 DEF Adjacent
      <4>4. QED BY <2>3, <3>2, <4>3
    <3>4. QED BY <3>1, <3>3
  <2>5. x.reasons = Due(j)
    BY <1>6, <2>1, <2>2, <2>4 DEF Due
  <2>6. ASSUME x.status = "RESOLVED"
        PROVE  \E d \in 1..Len(decisions) : decisions[d].review = x.at /\ decisions[d].saw = x.reasons
    <3>1. PICK d \in DOMAIN decisions : decisions[d].review = T.entries[j].at
      <4>1. (j = T.current) \in BOOLEAN
        OBVIOUS
      <4>2. ReviewStatus(T.entries[j], j = T.current) = "RESOLVED"
        BY <2>1, <2>6
      <4>3. QED BY <1>4, <4>1, <4>2, StatusTells
    <3>2. PICK k \in 2..n : decisions[d].review = observed[k].at /\ decisions[d].saw = Due(k)
      BY <1>4, <1>12 DEF SawWhatWasDue
    <3>3. k = j
      <4>1. k \in DOMAIN observed /\ j \in DOMAIN observed
        BY <1>5
      <4>2. observed[k].at = observed[j].at
        BY <1>6, <3>1, <3>2
      <4>3. QED BY <1>4, <4>1, <4>2 DEF ObservedWell
    <3>4. QED BY <1>5, <1>6, <2>1, <2>5, <3>1, <3>2, <3>3
  <2>7. QED BY <2>1, <2>4, <2>5, <2>6
<1>13. CaseOf(n)'
  <2>1. PICK m : m = n
    OBVIOUS
  <2>2. InTimeOrder(m)' <=> InTimeOrder(n)
    BY <1>3, <2>1 DEF InTimeOrder
  <2>3. \A i \in 2..m : Due(i)' = Due(i)
    BY <1>3 DEF Due
  <2>4. \A i, j \in 1..m : Neighbours(i, j)' =>
          ((\E x \in case'.items : x.at = observed'[j].at) <=> observed'[i].strategy # observed'[j].strategy)
    BY <1>3, <1>9, <1>10, <2>1
  <2>5. PICK c \in 1..n : c = T.current
    BY <1>6
  <2>6. \A i \in 1..m : Neighbours(i, case.timeline.current)' <=> Adjacent(i, T.current)
    <3>1. case'.timeline.current = c
      BY <1>3, <2>5
    <3>2. ASSUME NEW i \in 1..m PROVE Neighbours(i, case.timeline.current)' <=> Neighbours(i, c)'
      BY <3>1 DEF Neighbours
    <3>3. QED BY <1>9, <2>1, <2>5, <3>2
  <2>7. case'.next = "NO_OPEN_REVIEW" =>
          \A i \in 1..m : (Neighbours(i, case.timeline.current)'
              /\ observed'[i].strategy # observed'[case'.timeline.current].strategy) =>
            \E d \in 1..case'.decided :
              /\ decisions'[d].type = "RESOLVE_REVIEW"
              /\ decisions'[d].review = observed'[case'.timeline.current].at
              /\ \A e \in (d + 1)..case'.decided :
                   decisions'[e].review = decisions'[d].review
                     => decisions'[e].at < decisions'[d].at \/ decisions'[e].type = "RESOLVE_REVIEW"
    BY <1>3, <1>11, <2>1, <2>6
  <2>8. InTimeOrder(m)' => \A x \in case'.items :
          /\ \E i \in 2..m : x.at = observed'[i].at /\ x.reasons = Due(i)'
          /\ x.status = "RESOLVED" =>
               \E d \in 1..case'.decided : decisions'[d].review = x.at /\ decisions'[d].saw = x.reasons
    BY <1>3, <1>12, <2>1, <2>2, <2>3
  <2>9. CaseOf(m)'
    BY <1>8, <2>1, <2>4, <2>7, <2>8 DEF CaseOf
  <2>10. n' = m
    BY <1>3, <2>1
  <2>11. QED BY <2>9, <2>10
<1>14. ObservedWell' /\ DecidedWell' /\ SawWhatWasDue'
  <2>1. ObservedWell'
    BY <1>3, <1>4, ObservedStays
  <2>2. DecidedWell'
    BY <1>3, <1>4 DEF DecidedWell, ToSet
  <2>3. SawWhatWasDue'
    BY <1>3, <1>4 DEF SawWhatWasDue, InTimeOrder, Due
  <2>4. QED BY <2>1, <2>2, <2>3
<1>15. QED BY <1>3, <1>5, <1>13, <1>14 DEF SellerInv

LEMMA SellerKeeps == SellerInv /\ [SellerNext]_sellerVars => SellerInv'
<1> SUFFICES ASSUME SellerInv, [SellerNext]_sellerVars PROVE SellerInv'
  OBVIOUS
<1>1. ASSUME NEW input \in Inputs, NEW moment \in 1..MaxObserved,
             Observe(input.alternatives, input.findings, input.assumptions, moment)
      PROVE  SellerInv'
  <2>1. moment \in Int
    BY SellerAssumption
  <2>2. QED BY <1>1, <2>1, Observes
<1>2. ASSUME case # <<>>, NEW item \in case.items, NEW moment \in DecisionTimes,
             NEW type \in {"ACKNOWLEDGE_REVIEW", "RESOLVE_REVIEW", "DEFER_REVIEW"}, Decide(item, type, moment)
      PROVE  SellerInv'
  <2>1. moment \in Int
    BY SellerAssumption
  <2>2. QED BY <1>2, <2>1, Decides
<1>3. ASSUME NEW strategy \in Observed, NEW communicated \in Observed, BuildCase(strategy, communicated)
      PROVE  SellerInv'
  <2>1. DOMAIN observed # {}
    BY <1>3 DEF Observed
  <2>2. QED BY <1>3, <2>1, Builds
<1>4. ASSUME UNCHANGED <<observed, decisions, case>> PROVE SellerInv'
  <2>1. ObservedWell'
    BY <1>4, ObservedStays DEF SellerInv
  <2>2. DecidedWell' /\ SawWhatWasDue'
    BY <1>4 DEF SellerInv, DecidedWell, ToSet, SawWhatWasDue, InTimeOrder, Due
  <2>3. ASSUME case # <<>> PROVE \E n \in 1..Len(observed) : CaseOf(n)'
    <3>1. PICK n \in 1..Len(observed) : CaseOf(n)
      BY <2>3 DEF SellerInv
    <3>2. Len(observed) \in Nat /\ Len(decisions) \in Nat
      BY DEF SellerInv, ObservedWell, DecidedWell
    <3>3. CaseOf(n)'
      BY <1>4, <3>1, <3>2, CaseStays
    <3>4. QED BY <3>3
  <2>4. QED BY <1>4, <2>1, <2>2, <2>3 DEF SellerInv
<1>5. ASSUME NEW outcome, LearnOutcome(outcome) PROVE SellerInv'
  BY <1>4, <1>5 DEF LearnOutcome
<1>6. CASE UNCHANGED sellerVars
  BY <1>4, <1>6 DEF sellerVars
<1>7. QED BY <1>1, <1>2, <1>3, <1>5, <1>6, Zenon DEF SellerNext

LEMMA ReviewsTell == SellerInv => ReviewsTellTheChange
<1> SUFFICES ASSUME SellerInv, case # <<>> PROVE ReviewsTellTheChange
  BY DEF ReviewsTellTheChange
<1>1. PICK n \in 1..Len(observed) : CaseOf(n)
  BY DEF SellerInv
<1>2. n \in Nat /\ Known = 1..n
  BY <1>1 DEF CaseOf
<1>3. Cardinality(Known) = n
  BY <1>2, FS_Interval
<1>4. QED BY <1>1, <1>2, <1>3 DEF ReviewsTellTheChange, CaseOf

-----------------------------------------------------------------------------
(* One part runs at a time, and the others stand still. *)
LEMMA PartsAreAlone ==
  ASSUME [MCNext]_<<part, certifying, knowing, selling>>
  PROVE  /\ [CandidateNext]_candidateVars /\ [TransitionNext]_transitionVars
         /\ [CertificationNext]_certificationVars /\ [ReleasesNext]_releaseVars
         /\ [TemporalNext]_temporalVars /\ [PatternNext]_patternVars
         /\ [ScenarioNext]_scenarioVars /\ [UnifiedNext]_unifiedVars
         /\ [SellerNext]_sellerVars /\ [CalibrationNext]_calibrationVars
         /\ [PolicyNext]_policyVars
<1>1. CASE UNCHANGED <<certifying, knowing, selling>>
  BY <1>1 DEF certifying, knowing, selling
<1>2. CASE /\ UNCHANGED <<knowing, selling>>
           /\ \/ part = "rollout" /\ CandidateNext /\ UNCHANGED <<transitionVars, certificationVars, releaseVars>>
              \/ part = "transition" /\ TransitionNext /\ UNCHANGED <<candidateVars, certificationVars, releaseVars>>
              \/ part = "presentation" /\ CertificationNext /\ UNCHANGED <<candidateVars, transitionVars, releaseVars>>
              \/ part = "releases" /\ ReleasesNext /\ UNCHANGED <<candidateVars, transitionVars, certificationVars>>
  BY <1>2 DEF knowing, selling
<1>3. CASE /\ UNCHANGED <<certifying, selling>>
           /\ \/ part = "temporal" /\ TemporalNext /\ UNCHANGED <<patternVars, scenarioVars, unifiedVars>>
              \/ part = "patterns" /\ PatternNext /\ UNCHANGED <<temporalVars, scenarioVars, unifiedVars>>
              \/ part = "scenarios" /\ ScenarioNext /\ UNCHANGED <<temporalVars, patternVars, unifiedVars>>
              \/ part = "unified" /\ UnifiedNext /\ UNCHANGED <<temporalVars, patternVars, scenarioVars>>
  BY <1>3 DEF certifying, selling
<1>4. CASE /\ UNCHANGED <<certifying, knowing>>
           /\ \/ part = "seller" /\ SellerNext /\ UNCHANGED <<calibrationVars, policyVars>>
              \/ part = "calibration" /\ CalibrationNext /\ UNCHANGED <<sellerVars, policyVars>>
              \/ part = "policies" /\ PolicyNext /\ UNCHANGED <<sellerVars, calibrationVars>>
  BY <1>4 DEF certifying, knowing
<1>5. QED BY <1>1, <1>2, <1>3, <1>4, Zenon DEF MCNext

(* Certification: in every behaviour of the rollout, the repository           *)
(* transition, the presentation certification and the evidence releases,      *)
(* however the world changes between the steps, a candidate is exposed stage  *)
(* by stage and a GO and a release stand on what was loaded, accepted and     *)
(* pinned (progressive.py, m8_033.py, final_adjudication.py, finalizer.py).   *)
THEOREM CertificationsAlwaysStand == MCSpec => []CertificationsStand
<1>1. MCInit => CandidateInit /\ TransitionInit /\ CertificationInit /\ ReleasesInit
  BY DEF MCInit
<1>2. [MCNext]_<<part, certifying, knowing, selling>> =>
        /\ [CandidateNext]_candidateVars /\ [TransitionNext]_transitionVars
        /\ [CertificationNext]_certificationVars /\ [ReleasesNext]_releaseVars
  BY PartsAreAlone
<1>3. RolloutInv /\ TransitionInv /\ CertificationInv /\ ReleasesInv => CertificationsStand
  BY RolloutIsStaged, NotRepeated DEF CertificationInv, ReleasesInv, CertificationsStand
<1>4. QED
  BY <1>1, <1>2, <1>3, RolloutStarts, RolloutKeeps, TransitionStarts, TransitionKeeps,
     CertificationStarts, CertificationKeeps, ReleasesStart, ReleasesKeep, PTL DEF MCSpec

(* Presented intelligence: in every behaviour of the scenario pipeline and of  *)
(* the brief, whatever contracts, baselines, patterns, history and candidates  *)
(* there are and whichever records the callers mix, an explanation shows all   *)
(* that is unknown in any of its stages and a brief tells exactly what changed *)
(* (scenario_explainability.py, seller_decision_brief.py).                     *)
THEOREM IntelligenceCandid == MCSpec => []IntelligenceIsCandid
<1>1. MCInit => ScenarioInit /\ UnifiedInit
  BY DEF MCInit
<1>2. [MCNext]_<<part, certifying, knowing, selling>> =>
        [ScenarioNext]_scenarioVars /\ [UnifiedNext]_unifiedVars
  BY PartsAreAlone
<1>3. ScenarioInv /\ UnifiedInv => IntelligenceIsCandid
  BY HidesNothing DEF UnifiedInv, IntelligenceIsCandid
<1>4. QED
  BY <1>1, <1>2, <1>3, ScenarioStarts, ScenarioKeeps, UnifiedStarts, UnifiedKeeps, PTL DEF MCSpec

(* Derived knowledge: in every behaviour of the temporal state and of the      *)
(* pattern evidence, whatever is observed and in whatever order it is known, a *)
(* record that a refresh preserves is current and a promoted pattern was       *)
(* replicated on independent data (impact_refresh.py, history.py, patterns.py). *)
THEOREM KnowledgeFounded == MCSpec => []KnowledgeIsFounded
<1>1. MCInit => TemporalInit /\ PatternInit
  BY DEF MCInit
<1>2. [MCNext]_<<part, certifying, knowing, selling>> =>
        [TemporalNext]_temporalVars /\ [PatternNext]_patternVars
  BY PartsAreAlone
<1>3. TemporalInv /\ PatternInv => KnowledgeIsFounded
  BY PreservedCurrent, PromotedReplicated DEF KnowledgeIsFounded
<1>4. QED
  BY <1>1, <1>2, <1>3, TemporalStarts, TemporalKeeps, PatternStarts, PatternKeeps, PTL DEF MCSpec

(* Human control: in every behaviour of the seller workspace and of the two    *)
(* calibrations, whatever is observed, decided and promoted, and in whatever   *)
(* order it is handed over, reviews show the changes they were asked for, and  *)
(* no promoted rule or policy takes a protected review or control away         *)
(* (timeline.py, workspace.py, calibration.py, policy_calibration.py).         *)
THEOREM HumansAlwaysInControl == MCSpec => []HumansStayInControl
<1>1. MCInit => SellerInit /\ CalibrationInit /\ PolicyInit
  BY DEF MCInit
<1>2. [MCNext]_<<part, certifying, knowing, selling>> =>
        [SellerNext]_sellerVars /\ [CalibrationNext]_calibrationVars /\ [PolicyNext]_policyVars
  BY PartsAreAlone
<1>3. SellerInv /\ CalibrationInv /\ PolicyInv => HumansStayInControl
  BY ReviewsTell, PromotionsKeepReviews, ProtectionsSurvive DEF HumansStayInControl
<1>4. QED
  BY <1>1, <1>2, <1>3, SellerStarts, SellerKeeps, CalibrationStarts, CalibrationKeeps,
     PolicyStarts, PolicyKeeps, PTL DEF MCSpec

=============================================================================
