------------------------- MODULE UnifiedIntelligence -------------------------
(***************************************************************************)
(* The seller's brief: certified artifacts are bound to a temporal         *)
(* boundary, dimensions are decided and given values, two states are       *)
(* compared, each dimension's usability is assessed and the brief put      *)
(* together.  The artifacts are the callers': any of them, old ones too,   *)
(* may be handed to the next step.                                         *)
(***************************************************************************)
EXTENDS Integers, FiniteSets

CONSTANTS
  Systems,         \* required_systems
  Offers,          \* what a bundle is resolved from: functions system -> [status, asOf]
  RelevanceRules,  \* dimension -> [systems, facts]; facts: fact -> the value required
  FactSheets,      \* property facts a caller knows: fact -> value
  Offered,         \* candidates: [value, source, freshness, conflict, limited]
  SignificanceOf,  \* <<dimension, change>> -> significance; a pair without a rule is missing
  Boundaries,      \* temporal boundaries
  MaxLedgers       \* bound: change ledgers kept

(* "none" is what a brief shows for a dimension without an item. *)
ASSUME UnifiedAssumption == \A c \in Offered : c.value # "none"

VARIABLES
  bundle,      \* the last resolved, <<>> before
  states,      \* boundary -> the last state built for it, <<>> before
  changes,     \* change ledgers [prior, current]
  frameworks,  \* usability frameworks [current, ledger, states]
  brief        \* the last brief, <<>> before

unifiedVars == <<bundle, states, changes, frameworks, brief>>

UnifiedInit ==
  /\ bundle = <<>> /\ states = [b \in Boundaries |-> <<>>]
  /\ changes = {} /\ frameworks = {} /\ brief = <<>>

-----------------------------------------------------------------------------
BundleStatus(deps) ==
  CASE \E s \in DOMAIN deps : deps[s].status \in {"CONFLICTING", "INCOMPATIBLE"} -> "BLOCKED"
    [] OTHER -> IF DOMAIN deps # Systems \/ \E s \in DOMAIN deps : deps[s].status = "STALE"
                THEN "INCOMPLETE" ELSE "READY"

ResolveBundle(b, deps) ==
  /\ \A s \in DOMAIN deps : deps[s].asOf <= b
  /\ bundle' = [boundary |-> b, status |-> BundleStatus(deps)]
  /\ UNCHANGED <<states, changes, frameworks, brief>>

UsableBundle == bundle # <<>> /\ bundle.status = "READY"

UnknownFacts(rule, facts) == DOMAIN rule.facts \ DOMAIN facts

(* Every required system is there and bound in a READY bundle: its blocked and *)
(* missing outcomes cannot be reached.                                         *)
Relevance(rule, facts) ==
  CASE UnknownFacts(rule, facts) # {} -> "UNKNOWN"
    [] OTHER -> IF \E f \in DOMAIN rule.facts : facts[f] # rule.facts[f]
                THEN "NOT_APPLICABLE" ELSE "APPLICABLE"

(* A decision depends on the facts its caller knows only: which READY bundle it *)
(* was made from is not compared with the bundle of the set.                   *)
Decision(dim, facts) ==
  [state |-> Relevance(RelevanceRules[dim], facts), unknowns |-> UnknownFacts(RelevanceRules[dim], facts)]

-----------------------------------------------------------------------------
(* make_intelligence_item for an UNCHANGED and INFORMATIONAL item *)
Itemizable(c) ==
  /\ c.source = "UNKNOWN" => c.value = "UNKNOWN"
  /\ c.conflict # "UNRESOLVED_CONFLICT" /\ c.freshness # "STALE"

InState(set, state) == {dim \in DOMAIN set : set[dim].state = state}

(* The unknown facts are listed among the unknown dimensions.  Candidates of a *)
(* dimension that is not applicable are dropped.                               *)
BuildState(set, candidates) ==
  /\ UsableBundle
  /\ DOMAIN candidates \subseteq DOMAIN set
  /\ InState(set, "APPLICABLE") \subseteq DOMAIN candidates
  /\ \A dim \in InState(set, "APPLICABLE") : Itemizable(candidates[dim])
  /\ states' = [states EXCEPT ![bundle.boundary] =
       [boundary |-> bundle.boundary,
        items    |-> [dim \in InState(set, "APPLICABLE") |-> candidates[dim]],
        unknowns |-> InState(set, "UNKNOWN") \cup UNION {set[dim].unknowns : dim \in DOMAIN set},
        excluded |-> InState(set, "NOT_APPLICABLE")]]
  /\ UNCHANGED <<bundle, changes, frameworks, brief>>

Covered(s) == DOMAIN s.items \cup s.unknowns

-----------------------------------------------------------------------------
Classify(prior, current, dim) ==
  CASE dim \in current.unknowns -> "UNKNOWN"
    [] dim \notin current.unknowns /\ dim \notin DOMAIN current.items ->
         IF dim \in DOMAIN prior.items THEN "NO_LONGER_APPLICABLE" ELSE "UNKNOWN"
    [] OTHER ->
         CASE dim \in prior.unknowns -> "RESOLVED"
           [] dim \notin prior.unknowns /\ dim \notin DOMAIN prior.items -> "NEW"
           [] OTHER -> IF current.items[dim].freshness = "STALE" THEN "STALE"
                       ELSE IF prior.items[dim] = current.items[dim] THEN "UNCHANGED" ELSE "CHANGED"

Deltas(ledger) ==
  [dim \in Covered(ledger.prior) \cup Covered(ledger.current) |->
     Classify(ledger.prior, ledger.current, dim)]

(* Every change needs a rule of its own, a listed fact too. *)
BuildLedger(prior, current) ==
  /\ prior.boundary < current.boundary /\ Cardinality(changes) < MaxLedgers
  /\ LET ledger == [prior |-> prior, current |-> current] IN
       /\ \A dim \in DOMAIN Deltas(ledger) : <<dim, Deltas(ledger)[dim]>> \in DOMAIN SignificanceOf
       /\ changes' = changes \cup {ledger}
  /\ UNCHANGED <<bundle, states, frameworks, brief>>

Assessment(ledger, dim) ==
  LET s == ledger.current
      change == Deltas(ledger)[dim]
      significance == SignificanceOf[<<dim, change>>]
  IN CASE dim \in s.unknowns -> "UNKNOWN"
       [] OTHER ->
            CASE s.items[dim].conflict = "UNRESOLVED_CONFLICT" -> "BLOCKED"
              [] /\ s.items[dim].conflict # "UNRESOLVED_CONFLICT"
                 /\ s.items[dim].freshness = "STALE" \/ change = "STALE" -> "REVIEW_REQUIRED"
              [] OTHER -> IF significance = "REVIEW_REQUIRED" THEN "REVIEW_REQUIRED"
                          ELSE IF s.items[dim].limited \/ significance = "INSUFFICIENT_INFORMATION"
                          THEN "USABLE_WITH_LIMITATION" ELSE "USABLE"

(* A dimension that was dropped since the prior state is in the ledger but not *)
(* in the current state: such a ledger cannot be assessed.                     *)
Assess(s, ledger) ==
  /\ ledger.current = s /\ DOMAIN Deltas(ledger) = Covered(s)
  /\ frameworks' = frameworks \cup
       {[current |-> s, ledger |-> ledger, states |-> [dim \in Covered(s) |-> Assessment(ledger, dim)]]}
  /\ UNCHANGED <<bundle, states, changes, brief>>

(* Variant: ledger and framework need only be about the state. *)
MatchingByState(s, ledger, framework) == ledger.current = s /\ framework.current = s

Matching(s, ledger, framework) ==
  ledger.current = s /\ framework.current = s /\ framework.ledger = ledger

AssembleBrief(s, ledger, framework) ==
  /\ Matching(s, ledger, framework)
  /\ DOMAIN Deltas(ledger) = Covered(s) /\ DOMAIN framework.states = Covered(s)
  /\ brief' = [prior |-> ledger.prior,
               rows  |-> [dim \in Covered(s) |->
                  [usability |-> framework.states[dim], change |-> Deltas(ledger)[dim],
                   value |-> IF dim \in DOMAIN s.items THEN s.items[dim].value ELSE "none"]],
               review |-> {dim \in Covered(s) : framework.states[dim] # "USABLE"}]
  /\ UNCHANGED <<bundle, states, changes, frameworks>>

BuiltStates == {states[b] : b \in Boundaries} \ {<<>>}

UnifiedNext ==
  \/ \E b \in Boundaries, deps \in Offers : ResolveBundle(b, deps)
  \/ \E decided, given \in SUBSET DOMAIN RelevanceRules :
       \E known \in [decided -> FactSheets], candidates \in [given -> Offered] :
         BuildState([dim \in DOMAIN known |-> Decision(dim, known[dim])], candidates)
  \/ \E prior, current \in BuiltStates : BuildLedger(prior, current)
  \/ \E s \in BuiltStates, ledger \in changes :
       \/ Assess(s, ledger)
       \/ \E framework \in frameworks : AssembleBrief(s, ledger, framework)

UnifiedSpec == UnifiedInit /\ [][UnifiedNext]_unifiedVars

-----------------------------------------------------------------------------
(* build_current_unified_state to assemble_seller_decision_brief: whatever     *)
(* artifacts the callers mix, a brief says UNCHANGED only of a value its prior *)
(* state had, NEW only of a dimension that state neither had nor missed, and   *)
(* RESOLVED only of one it missed; a value that is usable without review is    *)
(* one whose change, as the brief shows it, needs no review either.            *)
BriefTellsTheChange ==
  brief # <<>> => \A dim \in DOMAIN brief.rows :
    LET row == brief.rows[dim] IN
      /\ row.change = "UNCHANGED" =>
           dim \in DOMAIN brief.prior.items /\ brief.prior.items[dim].value = row.value
      /\ row.change = "NEW" => dim \notin Covered(brief.prior)
      /\ row.change = "RESOLVED" => dim \in brief.prior.unknowns /\ row.value # "none"
      /\ dim \notin brief.review =>
           /\ row.value # "none"
           /\ SignificanceOf[<<dim, row.change>>] \notin {"REVIEW_REQUIRED", "INSUFFICIENT_INFORMATION"}
================================================================================
