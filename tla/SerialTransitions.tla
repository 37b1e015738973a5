-------------------------- MODULE SerialTransitions --------------------------
(***************************************************************************)
(* What the transition kernel promises its callers: commands take effect   *)
(* one at a time, in some order, each one against the entity row as the    *)
(* commands before it left it, and a command key is executed at most once. *)
(* KernelTransitions describes the transactions that implement this.       *)
(***************************************************************************)
EXTENDS Naturals, Sequences, FiniteSets

CONSTANTS
  Keys,        \* idempotency keys of one service
  Entities,    \* governed entities
  States,      \* values of the governed state dimension
  Callers,     \* caller ids
  Registry,    \* transition id -> [from, to, callers, guards]
  UnknownIds,  \* transition ids a caller may send that no registry entry has
  NoRow,       \* the entity has no row
  NoCommand    \* the key has no processed command

Transitions == DOMAIN Registry

GuardIds == {"ENTITY_EXISTS", "EXPECTED_STATE_MATCHES", "CALLER_AUTHORIZED"}

ASSUME RegistryAssumption ==
  /\ \A t \in Transitions :
       /\ Registry[t].from \in States
       /\ Registry[t].to \in States
       /\ Registry[t].callers \subseteq Callers
       /\ Registry[t].guards \in Seq(GuardIds)
       /\ \E i \in DOMAIN Registry[t].guards : Registry[t].guards[i] = "ENTITY_EXISTS"
  /\ Transitions \cap UnknownIds = {}

(* A command: its key, and the payload its request hash covers. *)
Requests == [key : Keys, transition : Transitions \cup UnknownIds,
             entity : Entities, caller : Callers]

Rows == [state : States, version : Nat \ {0}]
EntityRows == Rows \cup {NoRow}

ASSUME NoRowAssumption == NoRow \notin Rows

Statuses == {"APPLIED", "REJECTED", "CONFLICT"}
Reasons == {"NONE", "TRANSITION_NOT_ALLOWED", "CALLER_NOT_AUTHORIZED", "ENTITY_NOT_FOUND",
            "EXPECTED_STATE_MISMATCH", "TRANSITION_CONFLICT"}
Results == [status : Statuses, reason : Reasons, version : Nat]

Rejected(reason, version) ==
  [status |-> "REJECTED", reason |-> reason, version |-> version]

VersionOf(row) == IF row = NoRow THEN 0 ELSE row.version

(***************************************************************************)
(* The guards are pure functions of the request and the row; the runner    *)
(* evaluates them in registry order and stops at the first failure.        *)
(***************************************************************************)
GuardFails(g, r, row) ==
  \/ g = "ENTITY_EXISTS" /\ row = NoRow
  \/ /\ g = "EXPECTED_STATE_MATCHES"
     /\ row = NoRow \/ row.state # Registry[r.transition].from
  \/ g = "CALLER_AUTHORIZED" /\ r.caller \notin Registry[r.transition].callers

GuardReason(g) == CASE g = "ENTITY_EXISTS" -> "ENTITY_NOT_FOUND"
                    [] g = "EXPECTED_STATE_MATCHES" -> "EXPECTED_STATE_MISMATCH"
                    [] OTHER -> "CALLER_NOT_AUTHORIZED"

FailedGuards(r, row) ==
  {i \in DOMAIN Registry[r.transition].guards :
     GuardFails(Registry[r.transition].guards[i], r, row)}

GuardRejection(r, row) ==
  LET first == CHOOSE i \in FailedGuards(r, row) :
                 \A j \in FailedGuards(r, row) : i <= j
  IN  Rejected(GuardReason(Registry[r.transition].guards[first]), VersionOf(row))

Known(r) == r.transition \in Transitions
Authorized(r) == r.caller \in Registry[r.transition].callers

(* Variant: the update resets the version. *)
AdvanceResettingVersion(r, row) ==
  [state |-> Registry[r.transition].to, version |-> 0]

(* The row a transition leaves behind. *)
Advance(r, row) ==
  [state |-> Registry[r.transition].to, version |-> row.version + 1]

Applied(r, row) ==
  [status |-> "APPLIED", reason |-> "NONE", version |-> row.version + 1]
Conflict(row) ==
  [status |-> "CONFLICT", reason |-> "TRANSITION_CONFLICT", version |-> VersionOf(row)]

(* The one answer a command has when it runs alone against row. *)
Outcome(r, row) ==
  CASE ~Known(r) -> Rejected("TRANSITION_NOT_ALLOWED", 0)
    [] Known(r) /\ ~Authorized(r) -> Rejected("CALLER_NOT_AUTHORIZED", 0)
    [] Known(r) /\ Authorized(r) /\ FailedGuards(r, row) # {} -> GuardRejection(r, row)
    [] Known(r) /\ Authorized(r) /\ FailedGuards(r, row) = {}
         /\ row.state # Registry[r.transition].from -> Conflict(row)
    [] OTHER -> Applied(r, row)

VARIABLES
  entity,   \* entity -> its row
  ledger,   \* key -> the processed command and its result
  audit,    \* the state transition rows, in commit order
  replies   \* the answers callers have received

serialVars == <<entity, ledger, audit, replies>>

AuditRow(r, res) == [request |-> r, result |-> res]

(* An unknown transition leaves a processed command but no audit row. *)
AuditRowsOf(r, res) == IF Known(r) THEN <<AuditRow(r, res)>> ELSE <<>>

RowAfter(r, res, row) == IF res.status = "APPLIED" THEN Advance(r, row) ELSE row

SerialInit ==
  /\ entity \in [Entities -> {[state |-> x, version |-> 1] : x \in States} \cup {NoRow}]
  /\ ledger = [k \in Keys |-> NoCommand]
  /\ audit = <<>>
  /\ replies = {}

(* A command that runs for the first time. *)
Process(r) ==
  LET res == Outcome(r, entity[r.entity]) IN
    /\ ledger[r.key] = NoCommand
    /\ entity' = [entity EXCEPT ![r.entity] = RowAfter(r, res, @)]
    /\ ledger' = [ledger EXCEPT ![r.key] = AuditRow(r, res)]
    /\ audit' = audit \o AuditRowsOf(r, res)
    /\ replies' = replies \cup {AuditRow(r, res)}

(* Variant: a repeated command is evaluated again. *)
ReplayReevaluated(r) ==
  /\ ledger[r.key] # NoCommand
  /\ ledger[r.key].request = r
  /\ replies' = replies \cup {AuditRow(r, Outcome(r, entity[r.entity]))}
  /\ UNCHANGED <<entity, ledger, audit>>

(* A repeated command is answered with what was recorded. *)
Replay(r) ==
  /\ ledger[r.key] # NoCommand
  /\ ledger[r.key].request = r
  /\ replies' = replies \cup {ledger[r.key]}
  /\ UNCHANGED <<entity, ledger, audit>>

SerialNext == \E r \in Requests : Process(r) \/ Replay(r)

SerialSpec == SerialInit /\ [][SerialNext]_serialVars
=============================================================================
