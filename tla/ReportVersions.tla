--------------------------- MODULE ReportVersions ---------------------------
(***************************************************************************)
(* Report and render versions.  A builder selects a snapshot's findings    *)
(* for a variant, resolves their wording, hashes what it consumed and      *)
(* persists a version, or is answered with an equivalent one; renders of a *)
(* report are versioned the same way, without the advisory lock.  A hash   *)
(* is the record of what it covers.  Builders are transactions; a lost     *)
(* connection rolls one back.                                              *)
(***************************************************************************)
EXTENDS Integers, Sequences, FiniteSets

CONSTANTS
  Builders,        \* concurrent transactions
  Snapshots,       \* governed snapshots of one property
  Policies,        \* variant -> its policy
  SectionTypes,    \* variant -> finding types some section of it takes
  Media,           \* media assets of the property
  MediaClasses,    \* classes the one required media slot allows
  Profiles,        \* presentation profiles: template and brand versions
  RenderTypes,
  MaxVersions      \* bounds the versions of a key

Variants == DOMAIN Policies

VARIABLES
  versions,        \* key -> its committed versions, by version number
  tx,              \* builder -> its transaction
  answers,         \* the answers given (history)
  refused          \* requests the unique key refused (history)

reportVars == <<versions, tx, answers, refused>>

-----------------------------------------------------------------------------
(* Content of a report: pure functions of a snapshot and a variant *)

Classification(scope) ==
  CASE scope \in {"PUBLIC", "ALL"} -> "PUBLIC_DATA"
    [] scope \in {"SELLER", "AGENT_SELLER"} -> "SELLER_DATA"
    [] scope = "AGENT" -> "AGENT_INTERNAL"
    [] scope = "NONE" -> "RESTRICTED"

Selected(snapshot, variant) ==
  {f \in snapshot.findings :
     /\ f.ready                                    \* PRODUCTION_READY and PASS
     /\ f.type \notin Policies[variant].prohibited
     /\ f.scope \in Policies[variant].scopes
     /\ Classification(f.scope) \in Policies[variant].classes
     /\ f.type \in SectionTypes[variant]}

(* A selected finding without approved wording for the variant stops the build. *)
Worded(snapshot, variant) == \A f \in Selected(snapshot, variant) : f.wording[variant] # "none"

Manifest(snapshot, variant) ==
  {<<f.id, f.fingerprint, f.passport, f.wording[variant]>> : f \in Selected(snapshot, variant)}
    \cup {<<"config", snapshot.config>>}

(* Variant: the wording is left out of the hash. *)
InputHashUnworded(snapshot, variant) ==
  [variant |-> variant,
   findings |-> {<<f.id, f.type, f.fingerprint>> : f \in Selected(snapshot, variant)},
   manifest |-> {<<"config", snapshot.config>>}]

(* Summary, titles, disclaimers and branding stay out of the hash. *)
InputHash(snapshot, variant) ==
  [variant |-> variant,
   findings |-> {<<f.id, f.type, f.fingerprint, f.wording[variant]>> : f \in Selected(snapshot, variant)},
   manifest |-> Manifest(snapshot, variant)]

Payload(snapshot, variant) ==
  [variant |-> variant, snapshot |-> snapshot.id,
   findings |-> {<<f.id, f.wording[variant]>> : f \in Selected(snapshot, variant)},
   texts |-> snapshot.texts,
   manifest |-> Manifest(snapshot, variant)]

(* ReportSemanticDiff: lineage is ignored. *)
Diff(old, new) ==
  {c \in {"FINDING", "SUMMARY", "CONTRACT"} :
     \/ c = "FINDING" /\ old.findings # new.findings
     \/ c = "SUMMARY" /\ old.texts # new.texts
     \/ c = "CONTRACT" /\ old.variant # new.variant}

-----------------------------------------------------------------------------
(* Presentation of a report *)

EligibleMedia ==
  {a \in Media : a.class \in MediaClasses /\ a.approved /\ a.cleared
                 /\ (a.class = "COMMUNITY_CONTEXT" \/ a.own)}

(* The highest version is bound; two of that version are ambiguous. *)
Bound == {a \in EligibleMedia : \A b \in EligibleMedia \ {a} : b.version < a.version}

PresentationHash(report, type, profile) ==
  [report |-> report.payload, type |-> type, profile |-> profile, media |-> Bound]

-----------------------------------------------------------------------------
(* Versions *)

ReportKeys == {[kind |-> "report", variant |-> v] : v \in Variants}

RenderKeys == {[kind |-> "render", variant |-> v, number |-> n, type |-> type] :
                 v \in Variants, n \in 1..MaxVersions, type \in RenderTypes}

Keys == ReportKeys \cup RenderKeys

Idle == [step |-> "idle"]

ReportInit ==
  /\ versions = [key \in Keys |-> <<>>]
  /\ tx = [b \in Builders |-> Idle]
  /\ answers = {} /\ refused = {}

Retired == {"FAILED", "STALE", "INVALIDATED", "ARCHIVED"}

(* FIND_EQUIVALENT, of reports and of renders *)
Equivalent(key, input) ==
  {n \in DOMAIN versions[key] : versions[key][n].input = input /\ versions[key][n].state \notin Retired}

Newest(numbers) == CHOOSE n \in numbers : \A m \in numbers : m <= n

(* pg_advisory_xact_lock of the target; renders take none. *)
Unlocked(key) ==
  key.kind = "report" => \A b \in Builders : tx[b].step # "idle" => tx[b].key # key

(* Deduplication decides between an answer and a new version. *)
Decide(b, key, input, content) ==
  /\ tx[b].step = "idle" /\ Unlocked(key)
  /\ LET same == Equivalent(key, input) IN
       IF same # {}
       THEN /\ answers' = answers \cup {[key |-> key, content |-> content, number |-> Newest(same)]}
            /\ UNCHANGED tx
       ELSE /\ tx' = [tx EXCEPT ![b] =
                  [step |-> "new", key |-> key, input |-> input, content |-> content]]
            /\ UNCHANGED answers
  /\ UNCHANGED <<versions, refused>>

(* build, select, resolve, hash and persist up to the version number *)
Build(b, snapshot, variant) ==
  /\ Worded(snapshot, variant)
  /\ Decide(b, [kind |-> "report", variant |-> variant], InputHash(snapshot, variant),
            Payload(snapshot, variant))

(* A render of a report version, with its required media slot bound. *)
Render(b, key, profile) ==
  LET report == [kind |-> "report", variant |-> key.variant] IN
    /\ key \in RenderKeys /\ key.number \in DOMAIN versions[report]
    /\ Cardinality(Bound) = 1
    /\ LET hash == PresentationHash(versions[report][key.number], key.type, profile) IN
         Decide(b, key, hash, hash)

(* The counter's row lock is held from here to the end of the transaction. *)
Allocate(b) ==
  /\ tx[b].step = "new" /\ Len(versions[tx[b].key]) < MaxVersions
  /\ \A c \in Builders : tx[c].step = "numbered" => tx[c].key # tx[b].key
  /\ tx' = [tx EXCEPT ![b] =
       [step |-> "numbered", key |-> tx[b].key, input |-> tx[b].input, content |-> tx[b].content,
        number |-> Len(versions[tx[b].key]) + 1]]
  /\ UNCHANGED <<versions, answers, refused>>

(* Variant: the key is unique among versions that may still be used. *)
UniqueLive(key, input) == Equivalent(key, input) = {}

(* UNIQUE(property_id, report_variant, report_input_hash) and its render twin *)
Unique(key, input) == \A n \in DOMAIN versions[key] : versions[key][n].input # input

Insert(b) ==
  LET t == tx[b] IN
    /\ t.step = "numbered"
    /\ IF Unique(t.key, t.input)
       THEN /\ versions' = [versions EXCEPT ![t.key] =
                 Append(@, [input |-> t.input, payload |-> t.content, state |-> "BUILDING"])]
            /\ answers' = answers \cup {[key |-> t.key, content |-> t.content, number |-> t.number]}
            /\ UNCHANGED refused
       ELSE /\ refused' = refused \cup {[key |-> t.key, input |-> t.input]}
            /\ UNCHANGED <<versions, answers>>
    /\ tx' = [tx EXCEPT ![b] = Idle]

Lose(b) ==
  /\ tx[b].step # "idle"
  /\ tx' = [tx EXCEPT ![b] = Idle]
  /\ UNCHANGED <<versions, answers, refused>>

Mark(key, n, from, to) ==
  /\ n \in DOMAIN versions[key] /\ versions[key][n].state \in from
  /\ versions' = [versions EXCEPT ![key][n] =
       [input |-> versions[key][n].input, payload |-> versions[key][n].payload, state |-> to]]
  /\ UNCHANGED <<tx, answers, refused>>

(* ReportValidationEngine of a stored version against its own manifest *)
Valid(key, n) ==
  LET row == versions[key][n] IN
    /\ row.payload.variant = key.variant
    /\ row.input.manifest = row.payload.manifest

MarkValidating(key, n) == key.kind = "report" /\ Mark(key, n, {"BUILDING"}, "VALIDATING")

(* mark_ready accepts a version that was never marked VALIDATING. *)
MarkReady(key, n) ==
  /\ key.kind = "report" => n \in DOMAIN versions[key] /\ Valid(key, n)
  /\ Mark(key, n, {"BUILDING", "VALIDATING"}, "READY")

(* Publication and regeneration retire versions. *)
Retire(key, n) == Mark(key, n, {"READY"}, "STALE")

ReportNext ==
  \/ \E b \in Builders :
       \/ \E snapshot \in Snapshots, variant \in Variants : Build(b, snapshot, variant)
       \/ \E key \in RenderKeys, profile \in Profiles : Render(b, key, profile)
       \/ Allocate(b) \/ Insert(b) \/ Lose(b)
  \/ \E key \in Keys, n \in 1..MaxVersions :
       MarkValidating(key, n) \/ MarkReady(key, n) \/ Retire(key, n)

ReportSpec == ReportInit /\ [][ReportNext]_reportVars

-----------------------------------------------------------------------------
AllInputs ==
  {InputHash(s, v) : s \in Snapshots, v \in Variants} \cup
  {PresentationHash([payload |-> Payload(s, v)], type, profile) :
     s \in Snapshots, v \in Variants, type \in RenderTypes, profile \in Profiles}

Log == INSTANCE VersionLog WITH
         Inputs <- AllInputs,
         log <- [key \in Keys |-> [n \in DOMAIN versions[key] |-> versions[key][n].input]]

(* persist, allocate and insert: whatever builders run at once and whichever    *)
(* of them are lost, the versions of a target and of a render are an            *)
(* append-only log without gaps in which no input is stored twice.              *)
VersionsAreALog == Log!Spec

(* ReportDeduplicationEngine: a builder is never answered with a version that   *)
(* shows other findings or other wording than those it selected, and a report   *)
(* is refused only if a version with its input was retired before.              *)
AnswersShowTheRequest ==
  /\ \A a \in answers :
       a.key.kind = "report" =>
         "FINDING" \notin Diff(versions[a.key][a.number].payload, a.content)
  /\ \A r \in refused :
       r.key.kind = "report" =>
         \E n \in DOMAIN versions[r.key] :
           versions[r.key][n].input = r.input /\ versions[r.key][n].state \in Retired
=============================================================================
