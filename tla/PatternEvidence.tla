--------------------------- MODULE PatternEvidence ---------------------------
(***************************************************************************)
(* Evolution patterns: one is discovered on one population, validated on a *)
(* second, replicated on a third and promoted, on the ledger its candidate *)
(* was last bound to.  The populations are arguments of each step.         *)
(***************************************************************************)
EXTENDS Integers, FiniteSets, FiniteSetsExt

CONSTANTS
  RegimeOf,          \* observation -> its regime
  Readings,          \* observation lists: observation -> [period, x, y]
  Populations,       \* [role, regimes, offered]: a population's arguments
  MinimumDiscovery, MinimumConfirmation, MinimumPeriods,
  EffectParts,       \* minimum_effect_magnitude = 1 / EffectParts
  DriftParts,        \* maximum_absolute_replication_drift = 1 / DriftParts
  MaxCandidates,     \* bound: candidates kept
  MaxLedgerVersion   \* bound: how often the temporal ledger grows

ASSUME PatternAssumption ==
  /\ MinimumDiscovery \in Nat /\ MinimumConfirmation \in Nat
  /\ \A pop \in Populations : IsFiniteSet(pop.offered)

VARIABLES
  candidates,   \* pattern candidates; <<>> stands for a population or estimate not there yet
  temporal      \* the version of the temporal ledger

patternVars == <<candidates, temporal>>

PatternInit == candidates = {} /\ temporal = 0

-----------------------------------------------------------------------------
(* Only the regimes are filtered; the inclusion rule is text. *)
Members(pop) == {o \in pop.offered : RegimeOf[o] \in pop.regimes}

Magnitude(n) == IF n < 0 THEN -n ELSE n

(* n times the sums of products of deviations from the means *)
Deviations(rows, readings) ==
  LET n == Cardinality(rows)
      X(o) == readings[o].x
      Y(o) == readings[o].y
      Cross(o) == n * X(o) * Y(o)
      Square(o) == n * X(o) * X(o)
  IN [cov |-> MapThenSumSet(Cross, rows) - MapThenSumSet(X, rows) * MapThenSumSet(Y, rows),
      var |-> MapThenSumSet(Square, rows) - MapThenSumSet(X, rows) * MapThenSumSet(X, rows)]

(* The least squares slope of outcome on exposure is cov / var. *)
Estimate(pop, readings) ==
  LET rows == Members(pop)
      cov == Deviations(rows, readings).cov
      var == Deviations(rows, readings).var
      effect == IF var = 0 \/ Magnitude(cov) * EffectParts < var THEN "NULL"
                ELSE IF cov > 0 THEN "POSITIVE" ELSE "NEGATIVE"
  IN [population |-> pop, n |-> Cardinality(rows), periods |-> Cardinality({readings[o].period : o \in rows}),
      direction |-> effect, cov |-> IF var = 0 THEN 0 ELSE Magnitude(cov), var |-> IF var = 0 THEN 1 ELSE var]

(* Variant: populations of two roles are taken to be independent. *)
IndependentByRole(a, b) == a.role # b.role

Independent(a, b) == Members(a) \cap Members(b) = {}

Pattern(discovery, found, validation, replication, state) ==
  [discovery |-> discovery, found |-> found, validation |-> validation,
   replication |-> replication, state |-> state, ledger |-> temporal]

DiscoveryState(e) ==
  CASE e.direction = "NULL" -> "NULL_RESULT"
    [] OTHER -> IF e.n < MinimumDiscovery \/ e.periods < MinimumPeriods THEN "NOT_ELIGIBLE"
                ELSE "VALIDATION_REQUIRED"

Discover(pop, readings) ==
  /\ pop.role = "DISCOVERY" /\ Members(pop) # {}
  /\ LET e == Estimate(pop, readings) IN
       candidates' = candidates \cup {Pattern(pop, e, <<>>, <<>>, DiscoveryState(e))}
  /\ UNCHANGED temporal

ReplicationReasons(found, v, r) ==
  {reason \in {"SAMPLE", "PERIODS", "DIRECTION", "DRIFT", "NULL"} :
     CASE reason = "SAMPLE"    -> v.n < MinimumConfirmation \/ r.n < MinimumConfirmation
       [] reason = "PERIODS"   -> v.periods < MinimumPeriods \/ r.periods < MinimumPeriods
       [] reason = "DIRECTION" -> {v.direction, r.direction} # {found.direction}
       [] reason = "DRIFT"     -> Magnitude(r.cov * v.var - v.cov * r.var) * DriftParts > v.var * r.var
       [] reason = "NULL"      -> "NULL" \in {found.direction, v.direction, r.direction}}

(* The discovery population is the caller's: it is not compared with the candidate's. *)
Replicate(c, discovery, validation, replication, readings) ==
  /\ c.state = "VALIDATION_REQUIRED"
  /\ validation.role = "VALIDATION" /\ replication.role = "REPLICATION"
  /\ Independent(discovery, validation) /\ Independent(discovery, replication)
  /\ Independent(validation, replication)
  /\ Members(validation) # {} /\ Members(replication) # {}
  /\ LET v == Estimate(validation, readings)
         r == Estimate(replication, readings)
     IN candidates' = candidates \cup
          {Pattern(discovery, c.found, v, r,
                   IF ReplicationReasons(c.found, v, r) = {} THEN "REPLICATED" ELSE "REPLICATION_FAILED")}
  /\ UNCHANGED temporal

Promote(c) ==
  /\ c.state = "REPLICATED" /\ c.ledger = temporal
  /\ candidates' = candidates \cup {[c EXCEPT !.state = "PROMOTED"]}
  /\ UNCHANGED temporal

LedgerGrows ==
  /\ temporal < MaxLedgerVersion /\ temporal' = temporal + 1 /\ UNCHANGED candidates

PatternNext ==
  \/ /\ Cardinality(candidates) < MaxCandidates
     /\ \/ \E pop \in Populations, readings \in Readings : Discover(pop, readings)
        \/ \E c \in candidates, readings \in Readings :
             \E discovery, validation, replication \in Populations :
               Replicate(c, discovery, validation, replication, readings)
        \/ \E c \in candidates : Promote(c)
  \/ LedgerGrows

PatternSpec == PatternInit /\ [][PatternNext]_patternVars

-----------------------------------------------------------------------------
(* discover_pattern, validate_and_replicate_pattern and promote_pattern: a     *)
(* promoted pattern whose validation was handed the population it was          *)
(* discovered on rests on three estimates that agree in direction, on enough   *)
(* observations each, and no observation confirms what it suggested.           *)
PromotedIsReplicated ==
  \A c \in candidates : (c.state = "PROMOTED" /\ c.found.population = c.discovery) =>
    LET used == <<c.found, c.validation, c.replication>> IN
      /\ {used[i].direction : i \in 1..3} \in {{"POSITIVE"}, {"NEGATIVE"}}
      /\ \A i, j \in 1..3 : i < j =>
           Members(used[i].population) \cap Members(used[j].population) = {}
      /\ used[1].n >= MinimumDiscovery /\ used[2].n >= MinimumConfirmation /\ used[3].n >= MinimumConfirmation
================================================================================
