--------------------------- MODULE ReleaseRollout ---------------------------
(***************************************************************************)
(* One release: membership is resolved and frozen, reports are queued,     *)
(* items are validated, staged, approved, published in chunks, rolled back *)
(* or cancelled.  Each service call is one transaction on a list of items  *)
(* read earlier; every item it changes is compared with that list, and one *)
(* that changed in between rolls the whole call back.                      *)
(***************************************************************************)
EXTENDS Integers, Sequences, FiniteSets

CONSTANTS
  Candidates,      \* records [ordinal, variant, channel, report, render]: the
                   \* ordinal stands for (property, variant, channel) in sort order,
                   \* report and render say that the target and its fingerprint exist
  ReleasePolicy,   \* [variants, channels, optional]
  Scopes,          \* sets of ordinals a release may be limited to
  ChunkSize,
  MaxFailed,       \* max_failed_count
  MaxPercent       \* max_failed_ratio

ASSUME RolloutAssumption ==
  /\ ChunkSize \in Nat \ {0} /\ MaxFailed \in Nat /\ MaxPercent \in 0..100
  /\ IsFiniteSet(Candidates) /\ \A c \in Candidates : c.ordinal \in Nat

VARIABLES
  frozen,          \* a manifest exists
  members,         \* its members
  item,            \* member -> its state
  read,            \* a list of item states some caller still holds
  logged,          \* member -> the state of its last history row
  requested,       \* members whose report was queued
  approved,        \* members an approval covered (history)
  live             \* members whose channel delivers the release's target

releaseVars == <<frozen, members, item, read, logged, requested, approved, live>>

-----------------------------------------------------------------------------
(* Membership *)

Admissible(c) ==
  /\ c.variant \in ReleasePolicy.variants
  /\ IF c.channel = "none" THEN ReleasePolicy.optional ELSE c.channel \in ReleasePolicy.channels

Conflicting(cs) == \E c, d \in cs : c.ordinal = d.ordinal /\ c # d

(* resolve: every candidate must be admissible, even one out of scope. *)
Resolvable(cs, scope) ==
  /\ \A c \in cs : Admissible(c)
  /\ ~ Conflicting({c \in cs : c.ordinal \in scope})

(* A manifest frozen before is kept; freezing another one raises. *)
Freeze(cs, scope) ==
  /\ ~ frozen /\ Resolvable(cs, scope)
  /\ LET chosen == {c \in cs : c.ordinal \in scope} IN
       /\ members' = chosen /\ frozen' = TRUE
       /\ item' = [c \in chosen |-> "PENDING"]
       /\ logged' = [c \in chosen |-> "PENDING"]
       /\ read' = [c \in chosen |-> "PENDING"]
  /\ UNCHANGED <<requested, approved, live>>

-----------------------------------------------------------------------------
(* Items *)

Transitions ==
  [PENDING           |-> {"GENERATION_QUEUED", "BLOCKED", "CANCELLED"},
   GENERATION_QUEUED |-> {"GENERATING", "BLOCKED", "FAILED", "CANCELLED"},
   GENERATING        |-> {"GENERATED", "BLOCKED", "FAILED", "CANCELLED"},
   GENERATED         |-> {"VALIDATED", "BLOCKED", "FAILED", "CANCELLED"},
   VALIDATED         |-> {"STAGED", "BLOCKED", "CANCELLED"},
   STAGED            |-> {"APPROVED", "BLOCKED", "CANCELLED"},
   APPROVED          |-> {"PUBLISHING", "BLOCKED", "CANCELLED"},
   PUBLISHING        |-> {"PUBLISHED", "FAILED", "BLOCKED"},
   PUBLISHED         |-> {"ROLLED_BACK"},
   BLOCKED           |-> {"GENERATION_QUEUED", "VALIDATED", "STAGED", "APPROVED", "CANCELLED"},
   FAILED            |-> {"GENERATION_QUEUED", "CANCELLED"},
   ROLLED_BACK       |-> {}, CANCELLED |-> {}]

ReleaseInit ==
  /\ frozen = FALSE /\ members = {} /\ item = <<>> /\ read = <<>> /\ logged = <<>>
  /\ requested = {} /\ approved = {} /\ live = {}

(* LIST_ITEMS: the list stays with its caller. *)
List ==
  /\ frozen /\ read # item
  /\ read' = item
  /\ UNCHANGED <<frozen, members, item, logged, requested, approved, live>>

Legal(seen, changed, to) == \A c \in changed : to \in Transitions[seen[c]]

(* Variant: the update does not compare with the state that was read. *)
CurrentUnchecked(seen, changed) == changed \subseteq members

(* UPDATE ... AND item_state=%s: nobody changed these items since they were read. *)
Current(seen, changed) == \A c \in changed : item[c] = seen[c]

(* One call moves these items, each with a history row, or none of them. *)
MoveTo(seen, changed, to) ==
  /\ Legal(seen, changed, to) /\ Current(seen, changed)
  /\ item' = [c \in members |-> IF c \in changed THEN to ELSE item[c]]
  /\ logged' = [c \in members |-> IF c \in changed THEN to ELSE logged[c]]

In(seen, states) == {c \in members : seen[c] \in states}

(* coordinate: an exception is swallowed, so an item whose state had changed    *)
(* counts as blocked although its report was queued.                            *)
Coordinate(seen) ==
  LET asked == In(seen, {"PENDING", "FAILED", "BLOCKED"}) IN
    /\ asked # {}
    /\ requested' = requested \cup asked
    /\ LET moved == {c \in asked : item[c] = seen[c]} IN MoveTo(seen, moved, "GENERATION_QUEUED")
    /\ UNCHANGED <<frozen, members, read, approved, live>>

ValidationPasses(c) == c.report /\ (c.channel # "none" => c.render)

(* Workers and operators report what became of one item. *)
Report(seen, c, to) ==
  /\ to = "VALIDATED" => ValidationPasses(c)
  /\ MoveTo(seen, {c}, to)
  /\ UNCHANGED <<frozen, members, read, requested, approved, live>>

Stage(seen) ==
  /\ members # {} /\ In(seen, {"VALIDATED"}) = members
  /\ MoveTo(seen, members, "STAGED")
  /\ UNCHANGED <<frozen, members, read, requested, approved, live>>

Approve(seen) ==
  /\ members # {} /\ In(seen, {"STAGED"}) = members
  /\ MoveTo(seen, members, "APPROVED")
  /\ approved' = members
  /\ UNCHANGED <<frozen, members, read, requested, live>>

-----------------------------------------------------------------------------
(* Publication *)

Chunk(set, c) == (Cardinality({d \in set : d.ordinal < c.ordinal})) \div ChunkSize

TooMany(failed, total) == failed > MaxFailed \/ failed * 100 > MaxPercent * total

(* Variant: failures are judged only after the last chunk. *)
AttemptedThroughout(eligible, good) == eligible

(* A chunk is attempted if no earlier prefix of chunks halted the rollout. *)
Attempted(eligible, good) ==
  {c \in eligible :
     \A n \in 0..Chunk(eligible, c) - 1 :
       LET done == {d \in eligible : Chunk(eligible, d) <= n} IN
         ~ TooMany(Cardinality(done \ good), Cardinality(done))}

(* APPROVED to PUBLISHING to PUBLISHED or FAILED, with the publisher in between *)
Publish(seen, good) ==
  LET eligible  == In(seen, {"APPROVED"})
      attempted == Attempted(eligible, good)
      outcome(c) == IF c \in good THEN "PUBLISHED" ELSE "FAILED"
  IN /\ attempted # {} /\ good \subseteq eligible
     /\ Current(seen, attempted)
     /\ item' = [c \in members |-> IF c \in attempted THEN outcome(c) ELSE item[c]]
     /\ logged' = [c \in members |-> IF c \in attempted THEN outcome(c) ELSE logged[c]]
     /\ live' = live \cup (attempted \cap good)
     /\ UNCHANGED <<frozen, members, read, requested, approved>>

Rollback(seen) ==
  LET published == In(seen, {"PUBLISHED"}) IN
    /\ published # {}
    /\ MoveTo(seen, published, "ROLLED_BACK")
    /\ live' = live \ published
    /\ UNCHANGED <<frozen, members, read, requested, approved>>

Cancel(seen) ==
  /\ members # {}
  /\ In(seen, {"PUBLISHING", "PUBLISHED", "ROLLED_BACK"}) = {}
  /\ MoveTo(seen, In(seen, DOMAIN Transitions \ {"CANCELLED"}), "CANCELLED")
  /\ UNCHANGED <<frozen, members, read, requested, approved, live>>

(* RETRY_RELEASE_ITEM writes the state itself: no history row, nothing queued. *)
RetryItem(c) ==
  /\ item[c] \in {"FAILED", "BLOCKED"}
  /\ item' = [item EXCEPT ![c] = "GENERATION_QUEUED"]
  /\ UNCHANGED <<frozen, members, read, logged, requested, approved, live>>

Reconciled ==
  CASE In(item, {"FAILED", "BLOCKED"}) # {}                    -> "PARTIAL_FAILURE"
    [] members # {} /\ In(item, {"PUBLISHED"}) = members       -> "PUBLISHED"
    [] OTHER                                                   -> "IN_PROGRESS"

ReleaseNext ==
  \/ \E cs \in SUBSET Candidates, scope \in Scopes : Freeze(cs, scope)
  \/ List
  \/ frozen /\ \E seen \in {item, read} :
       \/ Coordinate(seen) \/ Stage(seen) \/ Approve(seen) \/ Rollback(seen) \/ Cancel(seen)
       \/ \E c \in members, to \in {"GENERATING", "GENERATED", "VALIDATED", "BLOCKED", "FAILED"} :
            Report(seen, c, to)
       \/ \E good \in SUBSET members : Publish(seen, good)
  \/ frozen /\ \E c \in members : RetryItem(c)

ReleaseSpec == ReleaseInit /\ [][ReleaseNext]_releaseVars

-----------------------------------------------------------------------------
(* ChunkedPublicationService, ReleaseRollbackService, ReleaseCancellationService: *)
(* however stale the lists they work from, what is live is exactly what the      *)
(* items say is published, it was approved, a release that reconciles as         *)
(* PUBLISHED is live as a whole, and the history explains every state but those  *)
(* an operator's retry wrote.                                                    *)
LiveItemsAccounted ==
  frozen =>
    /\ live = In(item, {"PUBLISHED"}) /\ live \subseteq approved
    /\ Reconciled = "PUBLISHED" => live = members
    /\ \A c \in members :
         item[c] # logged[c] => item[c] = "GENERATION_QUEUED" /\ logged[c] \in {"FAILED", "BLOCKED"}

(* PartialFailurePolicyEngine, ReleaseApprovalService: items are approved all    *)
(* together or not at all, and one publication call fails at most one chunk more *)
(* than the policy tolerates.                                                    *)
CallsStayBounded ==
  [][frozen =>
       /\ (\E c \in members : item'[c] = "APPROVED" /\ item[c] # "APPROVED") =>
            \A c \in members : item[c] = "STAGED"
       /\ Cardinality({c \in members : item[c] = "APPROVED" /\ item'[c] = "FAILED"})
            <= MaxFailed + ChunkSize]_releaseVars
=============================================================================
