--------------------------- MODULE TemporalRefresh ---------------------------
(***************************************************************************)
(* Community snapshots, the deltas between them, the selective refresh of  *)
(* derived records, and the ledger of what was known when.  Every step is  *)
(* a function of records its caller holds, and several callers may hold    *)
(* plans made from the same records.                                       *)
(***************************************************************************)
EXTENDS Integers, Sequences, FiniteSets

CONSTANTS
  Observations,   \* name -> the arguments of a snapshot
  Artifacts,      \* the derived records: [type, scope, object]
  PlanIds,        \* bound: refresh plans
  Horizon,        \* bound: the times at which deltas are detected and entries known
  MaxEntries      \* bound: a ledger longer than this is not appended to

VARIABLES
  snapshots,   \* observation -> "none", "DRAFT" or "CERTIFIED"
  deltas,      \* [before, after, detected, state]
  records,     \* artifact -> [source, lineage]; <<>> until they are first derived
  plans,       \* [id, delta, refresh, current]
  results,     \* plans that were applied
  ledger,      \* entries
  at,          \* history: the observation the applied deltas lead to
  gap          \* history: a delta was applied that does not start there

temporalVars == <<snapshots, deltas, records, plans, results, ledger, at, gap>>

TemporalInit ==
  /\ snapshots = [o \in DOMAIN Observations |-> "none"]
  /\ deltas = {} /\ records = <<>> /\ plans = {} /\ results = {} /\ ledger = {}
  /\ at = "none" /\ gap = FALSE

-----------------------------------------------------------------------------
(* Snapshots *)

(* What is not yet effective or was not yet known cannot enter. *)
Temporal(x) ==
  /\ x.cutoff <= x.observed /\ x.cutoff <= x.materialized
  /\ \A e \in x.manifest : e.effective <= x.observed /\ e.known <= x.cutoff

Unambiguous(x) == \A e, f \in x.manifest : (e.kind = f.kind /\ e.id = f.id) => e = f

(* make_property_projection, make_manifest_entry and build_community_state_snapshot *)
BuildSnapshot(o) ==
  /\ snapshots[o] = "none"
  /\ Temporal(Observations[o]) /\ Unambiguous(Observations[o])
  /\ snapshots' = [snapshots EXCEPT ![o] = "DRAFT"]
  /\ UNCHANGED <<deltas, records, plans, results, ledger, at, gap>>

(* Drifted sources, policies or runtimes, or open conflicts *)
Blocked(x) == x.drifted \/ x.conflicts # {}

CertifySnapshot(o) ==
  /\ snapshots[o] = "DRAFT" /\ ~ Blocked(Observations[o])
  /\ snapshots' = [snapshots EXCEPT ![o] = "CERTIFIED"]
  /\ UNCHANGED <<deltas, records, plans, results, ledger, at, gap>>

Comparable(o) == snapshots[o] = "CERTIFIED" /\ Observations[o].freshness = "CURRENT"

-----------------------------------------------------------------------------
(* Deltas *)

CommunityFields == [freshness |-> "COMMUNITY", exclusions |-> "GOVERNANCE", conflicts |-> "GOVERNANCE"]

PropertyFields ==
  [identity |-> "IDENTITY", phase |-> "PHASE", spatial |-> "LOCATION_DNA",
   intelligence |-> "INTELLIGENCE", freshness |-> "INTELLIGENCE",
   exclusions |-> "GOVERNANCE", conflicts |-> "GOVERNANCE"]

ManifestDomain == [source |-> "SOURCE", policy |-> "POLICY", runtime |-> "RUNTIME"]

Classified(field, b, a) ==
  CASE b = a -> "UNCHANGED"
    [] b # a /\ field = "freshness" /\ b = "UNKNOWN" -> "BECAME_KNOWN"
    [] b # a /\ field = "freshness" /\ a = "UNKNOWN" -> "BECAME_UNKNOWN"
    [] b # a /\ field = "conflicts" /\ b = {} -> "CONFLICT_INTRODUCED"
    [] b # a /\ field = "conflicts" /\ a = {} -> "CONFLICT_RESOLVED"
    [] b # a /\ field = "exclusions" /\ b \subseteq a -> "SUPPRESSED"
    [] b # a /\ field = "exclusions" /\ a \subseteq b -> "REACTIVATED"
    [] OTHER -> "MODIFIED"

Change(scope, object, domain, field, class) ==
  [scope |-> scope, object |-> object, domain |-> domain, field |-> field, class |-> class]

CommunityChanges(b, a) ==
  {Change("COMMUNITY", "COMMUNITY", CommunityFields[f], f, Classified(f, b[f], a[f])) :
     f \in DOMAIN CommunityFields}

PropertyChanges(b, a) ==
  LET Whole(set, class) == {Change("PROPERTY", p, "PROPERTY", "property", class) : p \in set}
      before == DOMAIN b.properties
      after == DOMAIN a.properties
  IN Whole(after \ before, "ADDED") \cup Whole(before \ after, "REMOVED") \cup
     {Change("PROPERTY", p, PropertyFields[f], f,
             Classified(f, b.properties[p][f], a.properties[p][f])) :
        p \in before \cap after, f \in DOMAIN PropertyFields}

(* A source entry that was effective before but not known then became known. *)
ManifestClass(b, a, kind, id) ==
  LET be == {e \in b.manifest : e.kind = kind /\ e.id = id}
      ae == {e \in a.manifest : e.kind = kind /\ e.id = id}
      late == \E e \in ae : kind = "source" /\ e.known > b.cutoff /\ e.effective <= b.observed
  IN CASE be = {} -> IF late THEN "BECAME_KNOWN" ELSE "ADDED"
       [] ae = {} -> "REMOVED"
       [] OTHER   -> IF be = ae THEN "UNCHANGED" ELSE "MODIFIED"

ManifestChanges(b, a) ==
  {Change("MANIFEST", e.id, ManifestDomain[e.kind], "manifest_entry", ManifestClass(b, a, e.kind, e.id)) :
     e \in b.manifest \cup a.manifest}

Changes(before, after) ==
  LET b == Observations[before]
      a == Observations[after]
  IN {c \in CommunityChanges(b, a) \cup PropertyChanges(b, a) \cup ManifestChanges(b, a) :
        c.class # "UNCHANGED"}

BuildDelta(before, after, detected) ==
  /\ Comparable(before) /\ Comparable(after)
  /\ Observations[before].observed < Observations[after].observed
  /\ Observations[after].observed <= detected
  /\ \A d \in deltas : d.before # before \/ d.after # after
  /\ deltas' = deltas \cup {[before |-> before, after |-> after, detected |-> detected, state |-> "DRAFT"]}
  /\ UNCHANGED <<snapshots, records, plans, results, ledger, at, gap>>

CertifyDelta(d) ==
  /\ d.state = "DRAFT"
  /\ deltas' = (deltas \ {d}) \cup {[d EXCEPT !.state = "CERTIFIED"]}
  /\ UNCHANGED <<snapshots, records, plans, results, ledger, at, gap>>

-----------------------------------------------------------------------------
(* Selective refresh *)

AllTypes == {"COMPARABLE_STRENGTH", "BUYER_DEPTH", "SCARCITY", "RESALE_COMPETITION",
             "NEW_CONSTRUCTION_COMPETITION", "SELLER_INTELLIGENCE"}

ASSUME TemporalAssumption ==
  /\ \A x \in Artifacts : x.type \in AllTypes
  /\ \A o \in DOMAIN Observations : {Observations[o].observed, Observations[o].cutoff} \subseteq Int

(* dependency_rules; a changed intelligence fingerprint refreshes nothing. *)
DependencyRules(domain) ==
  CASE domain \in {"IDENTITY", "PROPERTY", "SOURCE", "POLICY", "RUNTIME"} -> AllTypes
    [] domain = "PHASE" -> AllTypes \ {"RESALE_COMPETITION", "NEW_CONSTRUCTION_COMPETITION"}
    [] domain = "LOCATION_DNA" -> {"COMPARABLE_STRENGTH", "SCARCITY", "SELLER_INTELLIGENCE"}
    [] domain = "COMMUNITY" -> {"RESALE_COMPETITION", "NEW_CONSTRUCTION_COMPETITION", "SELLER_INTELLIGENCE"}
    [] domain = "GOVERNANCE" -> {"SELLER_INTELLIGENCE"}
    [] domain = "INTELLIGENCE" -> {}

(* Variant: a change of the community or of a manifest reaches community records only. *)
TargetsByScope(change, artifact) ==
  /\ artifact.type \in DependencyRules(change.domain)
  /\ IF change.scope = "PROPERTY"
     THEN artifact.scope = "PROPERTY" /\ artifact.object = change.object
     ELSE artifact.scope = "COMMUNITY"

Targets(change, artifact) ==
  /\ artifact.type \in DependencyRules(change.domain)
  /\ change.scope = "PROPERTY" => artifact.scope = "PROPERTY" /\ artifact.object = change.object

(* The authoritative engines make every record from one certified snapshot. *)
Derive(o) ==
  /\ records = <<>> /\ snapshots[o] = "CERTIFIED"
  /\ records' = [x \in Artifacts |-> [source |-> o, lineage |-> {}]]
  /\ at' = o
  /\ UNCHANGED <<snapshots, deltas, plans, results, ledger, gap>>

(* The source of the current records is not compared with the delta's before. *)
BuildPlan(id, d) ==
  /\ d.state = "CERTIFIED" /\ records # <<>>
  /\ \A p \in plans : p.id # id
  /\ plans' = plans \cup
       {[id |-> id, delta |-> d, current |-> records,
         refresh |-> {x \in Artifacts : \E c \in Changes(d.before, d.after) : Targets(c, x)}]}
  /\ UNCHANGED <<snapshots, deltas, records, results, ledger, at, gap>>

(* Every record still has the fingerprint it was planned with. *)
Undrifted(plan) == records = plan.current

(* Exactly the planned records are replaced, each bound to the after-snapshot, *)
(* with the delta and the decision in its lineage.                             *)
Apply(plan) ==
  /\ Undrifted(plan)
  /\ records' = [x \in Artifacts |->
       IF x \in plan.refresh
       THEN [source |-> plan.delta.after, lineage |-> {plan.delta.before, plan.delta.after}]
       ELSE records[x]]
  /\ results' = results \cup {plan}
  /\ gap' = (gap \/ plan.delta.before # at)
  /\ at' = plan.delta.after
  /\ UNCHANGED <<snapshots, deltas, plans, ledger>>

-----------------------------------------------------------------------------
(* The ledger *)

Entry(type, name, valid, known, previous) ==
  [type |-> type, id |-> <<type>> \o name, valid |-> valid, known |-> known, previous |-> previous]

SnapshotEntries(o) ==
  LET x == Observations[o]
  IN {Entry("SNAPSHOT", <<o, object>>, x.observed, x.cutoff, {}) :
        object \in DOMAIN x.properties \cup {"COMMUNITY"}}

(* Without an effective time of its own a change is valid from its first observation. *)
DeltaEntries(d) ==
  {Entry("DELTA", <<d.before, d.after, c>>, Observations[d.after].observed, d.detected, {}) :
     c \in Changes(d.before, d.after)}

RefreshEntries(plan, known) ==
  {Entry("REFRESH_RESULT", <<plan.id, x>>, known, known, {}) : x \in Artifacts}

(* The id names the corrected entry and the value; valid and known are the caller's. *)
Correction(target, value, known) ==
  {Entry("CORRECTION", <<target.id, value>>, target.valid, known, {target})}

(* Ids are unique, and what an entry refers to is in the ledger already. *)
Appendable(entries) ==
  /\ \A e \in entries, f \in ledger : e.id # f.id
  /\ \A e \in entries : e.previous \subseteq ledger

AppendEntries(entries) ==
  /\ Cardinality(ledger) <= MaxEntries
  /\ Appendable(entries) /\ ledger' = ledger \cup entries
  /\ UNCHANGED <<snapshots, deltas, records, plans, results, at, gap>>

(* historical_view: TRUE_NOW and KNOWN_NOW show every entry. *)
View(mode, valid, known) ==
  {e \in ledger : /\ mode \in {"TRUE_THEN", "KNOWN_THEN"} => e.valid <= valid
                  /\ mode = "KNOWN_THEN" => e.known <= known}

TemporalNext ==
  \/ \E o \in DOMAIN Observations : BuildSnapshot(o) \/ CertifySnapshot(o) \/ Derive(o)
  \/ \E b, a \in {o \in DOMAIN Observations : Comparable(o)}, t \in 1..Horizon : BuildDelta(b, a, t)
  \/ \E d \in deltas : CertifyDelta(d) \/ \E id \in PlanIds : BuildPlan(id, d)
  \/ \E plan \in plans : Apply(plan)
  \/ \E o \in DOMAIN Observations : snapshots[o] = "CERTIFIED" /\ AppendEntries(SnapshotEntries(o))
  \/ \E d \in deltas : d.state = "CERTIFIED" /\ AppendEntries(DeltaEntries(d))
  \/ \E plan \in results, t \in 1..Horizon : AppendEntries(RefreshEntries(plan, t))
  \/ \E e \in ledger, t \in 1..Horizon : AppendEntries(Correction(e, "corrected", t))

TemporalSpec == TemporalInit /\ [][TemporalNext]_temporalVars

-----------------------------------------------------------------------------
(* The two observations agree on all that the record is made from. *)
SameInputs(x, o1, o2) ==
  LET a == Observations[o1]
      b == Observations[o2]
      Governs(domain) == x.type \in DependencyRules(domain)
      Own(o) == {p \in DOMAIN Observations[o].properties : x.scope = "PROPERTY" /\ p = x.object}
      Entries(o) == {e \in Observations[o].manifest : Governs(ManifestDomain[e.kind])}
  IN /\ \A f \in DOMAIN CommunityFields : Governs(CommunityFields[f]) => a[f] = b[f]
     /\ Own(o1) = Own(o2) /\ Entries(o1) = Entries(o2)
     /\ \A p \in Own(o1) \cap Own(o2), f \in DOMAIN PropertyFields :
          Governs(PropertyFields[f]) => a.properties[p][f] = b.properties[p][f]

(* build_selective_refresh_plan, apply_selective_refresh and the ledger: as     *)
(* long as every delta starts where the last one ended, the records that were   *)
(* not refreshed are what a full refresh would make of them; and the ledger     *)
(* shows no change as known before both snapshots that show it were, and no     *)
(* correction of what it does not hold.                                         *)
PreservedRecordsAreCurrent ==
  /\ (~ gap /\ records # <<>>) => \A x \in Artifacts : SameInputs(x, records[x].source, at)
  /\ \A e \in View("TRUE_NOW", 0, 0) : e.type = "DELTA" =>
       \A o \in {e.id[2], e.id[3]} :
         \A k \in 1..Horizon : e \in View("KNOWN_THEN", e.valid, k) => Observations[o].cutoff <= k
  /\ \A e \in ledger : e.previous \subseteq ledger
================================================================================
