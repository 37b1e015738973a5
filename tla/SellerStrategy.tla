---------------------------- MODULE SellerStrategy ----------------------------
(***************************************************************************)
(* Seller intelligence of one property: an opportunity and the governed    *)
(* findings make a strategy; certified strategies are observed as timeline *)
(* snapshots; a workspace case shows the reviews the timeline asks for     *)
(* with the human decisions on them; observed outcomes give advisory       *)
(* calibration candidates.  Snapshots are named by their observation time. *)
(***************************************************************************)
EXTENDS Integers, Sequences, FiniteSets

CONSTANTS
  Inputs,              \* what strategies are built from: [alternatives, findings, assumptions], with
                       \*   alternatives [id, type, property, eligible, certified], findings
                       \*   [id, dimension, state, eligible, certified], assumptions [target, state]
  PressureRules,       \* precedence of levels: <<[level, available, builder], ...>>
  StrategyDimensions,  \* dimension -> allowed states
  ReviewRules,         \* review-day target -> rules [on, state, reason]; on = "always" fires always
  OutcomeOffers,       \* observed outcomes [state, at]
  CandidateRules,      \* calibration_candidate_rules: [states, afterReview, type]
  MaxObserved, DecisionTimes, MaxDecisions   \* bounds: observation times, human decisions

ASSUME SellerAssumption == MaxObserved \in Nat /\ DecisionTimes \subseteq Int

VARIABLES
  observed,           \* in the order they are handed over: [at, strategy, scenario]
  decisions,           \* human decisions, in order of their ids; `saw` is a history variable
  case,                \* the latest workspace case, <<>> before there is one
  advisory             \* advisory calibration candidates learned so far

sellerVars == <<observed, decisions, case, advisory>>

SellerInit == observed = <<>> /\ decisions = <<>> /\ case = <<>> /\ advisory = {}

-----------------------------------------------------------------------------
Certain(inputs) ==
  /\ \A x \in inputs : x.certified
  /\ \A x, y \in inputs : x.id = y.id => x = y

(* Close and strict substitutes count once per property, builder rows each. *)
Opportunity(alternatives) ==
  LET eligible == {x \in alternatives : x.eligible}
      of(kinds) == {x \in eligible : x.type \in kinds}
      available == Cardinality({x.property : x \in of({"CLOSE_SUBSTITUTE", "STRICT_SUBSTITUTE"})})
      builder   == Cardinality(of({"BUILDER_ALTERNATIVE"}))
      covers(i) == available >= PressureRules[i].available /\ builder >= PressureRules[i].builder
      first     == CHOOSE i \in DOMAIN PressureRules : covers(i) /\ \A j \in 1..(i - 1) : ~covers(j)
  IN [alternatives |-> [eligible |-> eligible, suppressed |-> alternatives \ eligible],
      pressure     |-> PressureRules[first].level]

Stated(state) == [status |-> "CURRENT", state |-> state]

(* _build_dimension *)
Dimension(dimension, findings) ==
  LET rows == {f \in findings : f.dimension = dimension}
      current == {f \in rows : f.eligible}
  IN CASE current # {} -> Stated((CHOOSE f \in current : TRUE).state)
       [] current = {} /\ rows # {} -> [status |-> "SUPPRESSED", state |-> "NONE"]
       [] rows = {} -> [status |-> "MISSING", state |-> "NONE"]

Governed(findings) ==
  /\ Certain(findings)
  /\ \A f \in findings : f.state \in StrategyDimensions[f.dimension]
  /\ \A f, g \in findings : f.eligible /\ g.eligible /\ f.dimension = g.dimension => f = g

ReviewDays == DOMAIN ReviewRules

(* _reasons_for_day *)
Reasons(day, shown) ==
  {r.reason : r \in {x \in ReviewRules[day] :
     x.on = "always" \/ (x.on # "always" => shown[x.on] = Stated(x.state))}}

(* A strategy is what it shows of each target: the surface that scenarios and *)
(* timelines read, plus the reasons of each day's review.                     *)
Strategy(opportunity, findings) ==
  LET shown == [t \in DOMAIN StrategyDimensions \cup {"COMPETITIVE_PRESSURE"} |->
                  IF t = "COMPETITIVE_PRESSURE" THEN Stated(opportunity.pressure)
                  ELSE Dimension(t, findings)]
  IN [shown        |-> shown,
      alternatives |-> opportunity.alternatives,
      reviews      |-> [d \in ReviewDays |-> Reasons(d, shown)]]

Triggered(strategy, day) == strategy.reviews[day] # {}

Limitations(strategy) == {t \in DOMAIN strategy.shown : strategy.shown[t].status # "CURRENT"}

(* evaluate_seller_scenario *)
Comparisons(strategy, assumptions) ==
  {[target |-> a.target, change |->
      CASE strategy.shown[a.target].state = "NONE"  -> "HYPOTHETICAL_ONLY"
        [] strategy.shown[a.target].state = a.state -> "UNCHANGED"
        [] OTHER                                    -> "CHANGED"] : a \in assumptions}

(* A certified strategy, with or without a certified scenario on it, is observed. *)
Observe(alternatives, findings, assumptions, at) ==
  LET strategy == Strategy(Opportunity(alternatives), findings)
  IN /\ Certain(alternatives) /\ Governed(findings)
     /\ \A a, b \in assumptions : a.target = b.target => a = b
     /\ \A i \in DOMAIN observed : observed[i].at # at
     /\ observed' = Append(observed,
          [at |-> at, strategy |-> strategy, scenario |-> Comparisons(strategy, assumptions)])
     /\ UNCHANGED <<decisions, case, advisory>>

-----------------------------------------------------------------------------
(* Variant: snapshots are compared in the order they were handed over. *)
PriorAsGiven(rows, i) == i - 1

(* build_seller_decision_timeline sorts by observation time; 0 for the first. *)
PriorEntry(rows, i) ==
  LET before == {j \in DOMAIN rows : rows[j].at < rows[i].at}
  IN IF before = {} THEN 0
     ELSE CHOOSE j \in before : \A k \in before : rows[k].at <= rows[j].at

(* _transition: REMAINED_MISSING and REMAINED_SUPPRESSED ask for nothing. *)
Transition(prior, current) ==
  CASE prior = current -> "UNCHANGED"
    [] prior.status # current.status /\ current.status = "CURRENT" -> "NEWLY_CURRENT"
    [] prior.status # current.status /\ current.status # "CURRENT" -> "BECAME_MISSING_OR_SUPPRESSED"
    [] prior.status = current.status /\ prior.state # current.state -> "CHANGED"

(* _changes, _event_reasons *)
EventReasons(prior, current) ==
  {t \in DOMAIN current.shown : Transition(prior.shown[t], current.shown[t]) # "UNCHANGED"}
  \cup {d \in ReviewDays : Triggered(prior, d) # Triggered(current, d)}
  \cup (IF prior.alternatives = current.alternatives THEN {} ELSE {"BUYER_ALTERNATIVE_SET"})

(* An entry with reasons carries a HUMAN_REVIEW_REQUIRED event. *)
Timeline(rows) ==
  [entries |-> [i \in DOMAIN rows |->
     [at      |-> rows[i].at,
      reasons |-> IF PriorEntry(rows, i) = 0 THEN {}
                  ELSE EventReasons(rows[PriorEntry(rows, i)].strategy, rows[i].strategy)]],
   current |-> CHOOSE i \in DOMAIN rows : \A j \in DOMAIN rows : rows[j].at <= rows[i].at]

-----------------------------------------------------------------------------
(* make_human_decision, on a review that the latest case shows; a RECORD_NOTE changes nothing. *)
Decide(item, type, at) ==
  /\ Len(decisions) < MaxDecisions
  /\ decisions' = Append(decisions, [review |-> item.at, type |-> type, at |-> at, saw |-> item.reasons])
  /\ UNCHANGED <<observed, case, advisory>>

(* _review_items replays the decisions on a review by decided_at, then id. *)
ReviewStatus(entry, newest) ==
  LET related == {d \in DOMAIN decisions : decisions[d].review = entry.at}
      last == CHOOSE d \in related : \A e \in related :
        decisions[e].at < decisions[d].at \/ (decisions[e].at = decisions[d].at /\ e <= d)
      replayed == CASE related = {} -> "PENDING"
                    [] related # {} /\ decisions[last].type = "ACKNOWLEDGE_REVIEW" -> "ACKNOWLEDGED"
                    [] related # {} /\ decisions[last].type = "RESOLVE_REVIEW"     -> "RESOLVED"
                    [] related # {} /\ decisions[last].type = "DEFER_REVIEW"       -> "PENDING"
  IN IF replayed # "RESOLVED" /\ ~newest THEN "SUPERSEDED" ELSE replayed

ReviewItems(timeline) ==
  {[at |-> timeline.entries[i].at, reasons |-> timeline.entries[i].reasons,
    status |-> ReviewStatus(timeline.entries[i], i = timeline.current)] :
     i \in {j \in DOMAIN timeline.entries : timeline.entries[j].reasons # {}}}

(* translate_seller_intelligence: what the seller is told of a strategy and a timeline. *)
Communication(strategy, timeline) ==
  [facts       |-> strategy.shown,
   limitations |-> Limitations(strategy),
   monitoring  |-> timeline.entries[timeline.current].reasons]

(* build_seller_intelligence_case compares properties only: the communication *)
(* may be of another strategy; of it, only the limitations enter the case.    *)
BuildCase(strategy, communicated) ==
  LET timeline == Timeline(observed)
      communication == Communication(communicated, timeline)
      items == ReviewItems(timeline)
  IN /\ case' = [timeline    |-> timeline,
                 decided     |-> Len(decisions),
                 items       |-> items,
                 limitations |-> Limitations(strategy) \cup communication.limitations,
                 next        |-> IF \E x \in items : x.status \in {"PENDING", "ACKNOWLEDGED"}
                                 THEN "OPEN_REVIEW" ELSE "NO_OPEN_REVIEW"]
     /\ UNCHANGED <<observed, decisions, advisory>>

(* evaluate_effectiveness, given the timeline that the case references. *)
LearnOutcome(outcome) ==
  LET reviewed == \E x \in case.items : x.at <= outcome.at
      matching == {r \in CandidateRules : outcome.state \in r.states /\ (r.afterReview => reviewed)}
  IN /\ advisory' = advisory \cup {r.type : r \in matching}
     /\ UNCHANGED <<observed, decisions, case>>

Observed == {observed[i].strategy : i \in DOMAIN observed}

SellerNext ==
  \/ \E input \in Inputs, at \in 1..MaxObserved :
        Observe(input.alternatives, input.findings, input.assumptions, at)
  \/ /\ case # <<>>
     /\ \E item \in case.items, at \in DecisionTimes,
          type \in {"ACKNOWLEDGE_REVIEW", "RESOLVE_REVIEW", "DEFER_REVIEW"} : Decide(item, type, at)
  \/ \E strategy, communicated \in Observed : BuildCase(strategy, communicated)
  \/ case # <<>> /\ \E outcome \in OutcomeOffers : LearnOutcome(outcome)

SellerSpec == SellerInit /\ [][SellerNext]_sellerVars

-----------------------------------------------------------------------------
Known == DOMAIN case.timeline.entries
Neighbours(i, j) ==
  /\ observed[i].at < observed[j].at
  /\ ~\E k \in Known : observed[i].at < observed[k].at /\ observed[k].at < observed[j].at
InTimeOrder(n) == \A i, j \in 1..n : i < j => observed[i].at < observed[j].at

(* timeline.py, workspace.py: in every case, whatever the order in which       *)
(* snapshots and decisions were handed over, exactly the changes between two   *)
(* neighbouring observations have a review; the case says that nothing is open *)
(* only if the newest observation changed nothing or the last word on it was a *)
(* resolution; and while observations came in order, whoever resolved a review *)
(* had seen the very reasons it is shown with (a back-dated snapshot gives the *)
(* review new reasons under its old id).                                       *)
ReviewsTellTheChange ==
  case # <<>> =>
    /\ \A i, j \in Known : Neighbours(i, j) =>
         ((\E x \in case.items : x.at = observed[j].at) <=> observed[i].strategy # observed[j].strategy)
    /\ case.next = "NO_OPEN_REVIEW" =>
         \A i \in Known : (Neighbours(i, case.timeline.current)
             /\ observed[i].strategy # observed[case.timeline.current].strategy) =>
           \E d \in 1..case.decided :
             /\ decisions[d].type = "RESOLVE_REVIEW"
             /\ decisions[d].review = observed[case.timeline.current].at
             /\ \A e \in (d + 1)..case.decided :
                  decisions[e].review = decisions[d].review
                    => decisions[e].at < decisions[d].at \/ decisions[e].type = "RESOLVE_REVIEW"
    /\ InTimeOrder(Cardinality(Known)) =>
         \A x \in case.items : x.status = "RESOLVED" =>
           \E d \in 1..case.decided : decisions[d].review = x.at /\ decisions[d].saw = x.reasons
=============================================================================
