---------------------------- MODULE ImpactBatches ----------------------------
(***************************************************************************)
(* Bulk evaluation of dependency changes.  Workers claim pending items of  *)
(* a batch, decide for every consumer of the changed dependency what the   *)
(* change means, persist the decisions and settle the items, all in one    *)
(* transaction; snapshots and reports keep appearing meanwhile.            *)
(***************************************************************************)
EXTENDS Integers, Sequences, FiniteSets

CONSTANTS
  ImpactWorkers,
  Changes,         \* items of the batch, in claim order: [n, new, class, blocked, sourced]
  Rule,            \* impact rule of the dependency: [variants, normal, blocked, invalidating]
  ClaimLimit,      \* chunk_size
  ConsumerLists    \* consumers of the dependency, each list in lookup order

ASSUME ImpactAssumption ==
  \A list \in ConsumerLists : list \in Seq({list[k] : k \in DOMAIN list})

NormalClasses == {"NORMAL_UPDATE", "SOURCE_REFRESH", "GOVERNANCE_CHANGE", "CORRECTION",
                  "MATERIAL_CORRECTION", "IDENTITY_CORRECTION"}

VARIABLES
  consumers,       \* who consumes the dependency: snapshots and report versions
  change,          \* item -> "absent" or its committed state
  impacts,         \* item -> variant -> its committed decision row
  batch,           \* batch_state
  chunk,           \* worker -> its transaction
  evaluatedFor     \* item -> the consumers its evaluation saw (history)

impactVars == <<consumers, change, impacts, batch, chunk, evaluatedFor>>

-----------------------------------------------------------------------------
(* ImpactEvaluator: a decision and its reason *)
Impact(c, consumer) ==
  IF consumer.fingerprint = c.new THEN <<"NO_IMPACT", "SEMANTICS_UNCHANGED">>
  ELSE IF consumer.variant \notin Rule.variants THEN <<"NO_IMPACT", "VARIANT_NOT_AFFECTED">>
  ELSE IF c.class = "INVALIDATING_CORRECTION" THEN <<Rule.invalidating, "INVALIDATING_CORRECTION">>
  ELSE IF c.blocked THEN <<Rule.blocked, "REQUIRED_DEPENDENCY_BLOCKED">>
  ELSE IF c.class \in NormalClasses THEN <<Rule.normal, "SEMANTIC_CHANGE">>
  ELSE <<"REVIEW_REQUIRED", "CHANGE_CLASS">>

(* Variant: a row that exists is taken for a duplicate without comparing it. *)
ConflictsIgnored(c, list, k) == FALSE

(* The unique key of a row names the variant and not the report. *)
Conflicts(c, list, k) ==
  \E j \in 1..k - 1 : list[j].variant = list[k].variant /\ Impact(c, list[j]) # Impact(c, list[k])

(* The consumers persisted before the first conflict; all of them if there is none. *)
Persisted(c, list) == {k \in DOMAIN list : \A j \in 1..k : ~ Conflicts(c, list, j)}

NoRows == [v \in {} |-> ""]

RowsOf(c, list) ==
  [v \in {list[k].variant : k \in Persisted(c, list)} |->
     LET first == CHOOSE k \in Persisted(c, list) :
                    list[k].variant = v /\ \A j \in Persisted(c, list) : list[j].variant = v => k <= j
     IN Impact(c, list[first])]

-----------------------------------------------------------------------------
NoChunk == [claimed |-> {}, done |-> [c \in {} |-> ""]]

ImpactInit ==
  /\ consumers \in ConsumerLists
  /\ change = [c \in Changes |-> "absent"]
  /\ impacts = [c \in Changes |-> NoRows]
  /\ batch = "DISCOVERING"
  /\ chunk = [w \in ImpactWorkers |-> NoChunk]
  /\ evaluatedFor = [c \in Changes |-> <<>>]

(* add_item, also to a batch that was reconciled before *)
AddItem(c) ==
  /\ change[c] = "absent"
  /\ change' = [change EXCEPT ![c] = "PENDING"]
  /\ UNCHANGED <<consumers, impacts, batch, chunk, evaluatedFor>>

(* Reports are built and snapshots replaced while a batch runs. *)
Consume(list) ==
  /\ list # consumers
  /\ consumers' = list
  /\ UNCHANGED <<change, impacts, batch, chunk, evaluatedFor>>

Locked == UNION {chunk[w].claimed : w \in ImpactWorkers}

(* FOR UPDATE SKIP LOCKED LIMIT *)
Claimable ==
  LET free == {c \in Changes : change[c] = "PENDING" /\ c \notin Locked} IN
    {c \in free : Cardinality({d \in free : d.n < c.n}) < ClaimLimit}

Claim(w) ==
  /\ chunk[w] = NoChunk /\ Claimable # {}
  /\ chunk' = [chunk EXCEPT ![w] = [claimed |-> Claimable, done |-> NoChunk.done]]
  /\ UNCHANGED <<consumers, change, impacts, batch, evaluatedFor>>

NextItem(w) ==
  CHOOSE c \in chunk[w].claimed \ DOMAIN chunk[w].done :
    \A d \in chunk[w].claimed \ DOMAIN chunk[w].done : c.n <= d.n

(* One item against the consumers of this moment.  Its rows refer to an event   *)
(* derived from the item; if nobody recorded that event, the foreign key        *)
(* refuses the first row and the whole chunk is rolled back.                    *)
EvaluateItem(w) ==
  /\ chunk[w].claimed \ DOMAIN chunk[w].done # {}
  /\ LET c == NextItem(w) IN
       IF c.sourced \/ consumers = <<>>
       THEN chunk' = [chunk EXCEPT ![w] =
              [claimed |-> chunk[w].claimed,
               done |-> [d \in DOMAIN chunk[w].done \cup {c} |->
                           IF d = c THEN consumers ELSE chunk[w].done[d]]]]
       ELSE chunk' = [chunk EXCEPT ![w] = NoChunk]
  /\ UNCHANGED <<consumers, change, impacts, batch, evaluatedFor>>

Settled(c, list) == IF Persisted(c, list) = DOMAIN list THEN "COMPLETE" ELSE "FAILED"

CommitChunk(w) ==
  LET done == chunk[w].done IN
    /\ chunk[w].claimed # {} /\ DOMAIN done = chunk[w].claimed
    /\ change' = [c \in Changes |-> IF c \in DOMAIN done THEN Settled(c, done[c]) ELSE change[c]]
    /\ impacts' = [c \in Changes |-> IF c \in DOMAIN done THEN RowsOf(c, done[c]) ELSE impacts[c]]
    /\ evaluatedFor' = [c \in Changes |-> IF c \in DOMAIN done THEN done[c] ELSE evaluatedFor[c]]
    /\ chunk' = [chunk EXCEPT ![w] = NoChunk]
    /\ UNCHANGED <<consumers, batch>>

CrashChunk(w) ==
  /\ chunk[w] # NoChunk
  /\ chunk' = [chunk EXCEPT ![w] = NoChunk]
  /\ UNCHANGED <<consumers, change, impacts, batch, evaluatedFor>>

InState(s) == {c \in Changes : change[c] = s}

ReconcileBatch ==
  /\ batch' = CASE InState("FAILED") # {}  -> "PARTIAL_FAILURE"
                [] InState("FAILED") = {} /\ InState("PENDING") # {} -> "EVALUATING"
                [] OTHER -> "COMPLETE"
  /\ UNCHANGED <<consumers, change, impacts, chunk, evaluatedFor>>

ImpactNext ==
  \/ \E c \in Changes : AddItem(c)
  \/ \E list \in ConsumerLists : Consume(list)
  \/ \E w \in ImpactWorkers : Claim(w) \/ EvaluateItem(w) \/ CommitChunk(w) \/ CrashChunk(w)
  \/ ReconcileBatch

ImpactSpec == ImpactInit /\ [][ImpactNext]_impactVars

-----------------------------------------------------------------------------
(* BulkImpactEvaluator: what a complete item decided for a variant is the        *)
(* decision of every one of its consumers, a failed item decided nothing that    *)
(* contradicts its first ones, and no two workers evaluate an item at once.      *)
CompleteItemsAgree ==
  /\ \A c \in InState("COMPLETE") : \A k \in DOMAIN evaluatedFor[c] :
       LET consumer == evaluatedFor[c][k] IN
         /\ consumer.variant \in DOMAIN impacts[c]
         /\ impacts[c][consumer.variant] = Impact(c, consumer)
  /\ \A c \in InState("PENDING") : impacts[c] = NoRows
  /\ \A v, w \in ImpactWorkers : v # w => chunk[v].claimed \cap chunk[w].claimed = {}
=============================================================================
