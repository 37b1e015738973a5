---------------------------- MODULE ListingActions ----------------------------
(***************************************************************************)
(* Governed listing actions (M12-001 to M12-003, M12-006, M12-007): an     *)
(* intent becomes a proposal, people approve it, an executor calls the     *)
(* platform's adapter under an authority, an independent observation       *)
(* verifies the receipt, mismatches open a reconciliation case, and a case *)
(* may be rolled back.  The code computes each artifact from the artifacts *)
(* the caller hands in and stores nothing: journal, holds and approvals    *)
(* are the caller's, who reads the journal before a call and appends the   *)
(* receipt after it.  An artifact is its fingerprint: a record here, equal *)
(* exactly when everything the code hashes is equal.                       *)
(***************************************************************************)
EXTENDS Integers, Sequences, FiniteSets

CONSTANTS
  Intents,             \* requests for an action, with the context they come in
  Authorities,         \* execution authorities a caller can present
  RollbackAuthorities,
  Adapters,
  Executors,           \* concurrent callers of the execution functions
  MaxClock,
  StaleAfter,          \* approval_stale_after_minutes, in ticks of the clock
  MaxApprovals,        \* bounds the approvals given, of either kind
  MaxCalls,            \* bounds the attempts to execute or roll back
  IncidentTypes,       \* incident_types of the registry
  HoldScopes,          \* hold_scopes of the registry
  MaxHolds             \* bounds the holds active at once

(* make_execution_authority, make_rollback_authority *)
WellFormed(authority) == authority.from < authority.until /\ authority.types # {}

ASSUME ListingAssumption ==
  /\ \A authority \in Authorities \cup RollbackAuthorities :
       WellFormed(authority) /\ authority.from \in Int /\ authority.until \in Int
  /\ MaxClock \in Nat /\ StaleAfter \in Nat
  /\ MaxApprovals \in Nat /\ MaxCalls \in Nat /\ MaxHolds \in Nat

VARIABLES
  clock,
  proposals,
  approvals,       \* human decisions about proposals and about cases
  actions,         \* authorized actions
  calls,           \* adapter calls begun, oldest first (history)
  running,         \* executor -> its adapter call in progress, 0 if none
  receipts,        \* journal of execution and rollback receipts
  applied,         \* proposals whose effect the platform shows
  everApplied,     \* proposals whose effect it has shown (history)
  verifications,   \* receipt number -> its verification
  cases,           \* reconciliation cases
  resolved,        \* the cases people settled
  requests,        \* rollback requests built
  holds            \* active holds, each with its incident

vars == <<clock, proposals, approvals, actions, calls, running, receipts, applied,
          everApplied, verifications, cases, resolved, requests, holds>>

planned == <<clock, proposals, approvals, actions>>
executed == <<calls, running, receipts, applied, everApplied>>
reviewed == <<verifications, cases, resolved, requests>>

Init ==
  /\ clock = 0
  /\ proposals = {} /\ approvals = {} /\ actions = {}
  /\ calls = <<>> /\ running = [e \in Executors |-> 0] /\ receipts = <<>>
  /\ applied = {} /\ everApplied = {}
  /\ verifications = {} /\ cases = {} /\ resolved = {} /\ requests = {}
  /\ holds = {}

Tick ==
  /\ clock < MaxClock
  /\ clock' = clock + 1
  /\ UNCHANGED <<proposals, approvals, actions, executed, reviewed, holds>>

-----------------------------------------------------------------------------
(* Proposals *)

ContextCurrent(i) ==
  /\ i.status \in {"ACTIVE", "COMING_SOON", "PENDING", "TEMPORARILY_OFF_MARKET"}
  /\ i.freshness = "CURRENT"

(* The seller case is internal and certified; the intent names the policy in force. *)
IntentAllowed(i) ==
  /\ i.case = "INTERNAL" /\ i.policy = "current"
  /\ i.origin \in {"SYSTEM_SIGNAL", "AGENT_REQUEST"}

(* A target review item resolves exactly once; a closed one is not reviewable. *)
Grounded(i) ==
  \/ i.origin = "SYSTEM_SIGNAL" /\ i.target = "reviewable" /\ i.judgment = "none"
  \/ i.origin = "AGENT_REQUEST" /\ i.target \in {"none", "reviewable"} /\ i.judgment = "own"

Propose(i) ==
  /\ ContextCurrent(i) /\ IntentAllowed(i) /\ Grounded(i)
  /\ proposals' = proposals \cup {i}
  /\ UNCHANGED <<clock, approvals, actions, executed, reviewed, holds>>

(* A decision about a proposal or, for a rollback, about a case. *)
Decide(subject, decision) ==
  /\ Cardinality(approvals) < MaxApprovals
  /\ approvals' = approvals \cup {[of |-> subject, decision |-> decision, at |-> clock]}
  /\ UNCHANGED <<clock, proposals, actions, executed, reviewed, holds>>

-----------------------------------------------------------------------------
(* Authorization and execution *)

InWindow(authority) ==
  authority.status = "VALID" /\ clock \in authority.from..authority.until

Scoped(authority, p) == authority.listing = p.listing /\ p.type \in authority.types

Authorized(p, approval, authority) ==
  /\ approval.of = p /\ approval.decision = "APPROVED"
  /\ Scoped(authority, p) /\ InWindow(authority)

Authorize(p, approval, authority) ==
  /\ Authorized(p, approval, authority)
  /\ actions' = actions \cup {[proposal |-> p, approval |-> approval, authority |-> authority]}
  /\ UNCHANGED <<clock, proposals, approvals, executed, reviewed, holds>>

(* idempotency_key: request ids and times stay out of it. *)
ExecutionKey(action, adapter) ==
  [kind |-> "execute", subject |-> action, adapter |-> adapter]

IsExecution(n) == receipts[n].key.kind = "execute"

ProposalOf(n) == receipts[n].key.subject.proposal

Journaled(key) == {n \in DOMAIN receipts : receipts[n].key = key}

Attempted(n) == receipts[n].outcome \in {"SUCCEEDED", "FAILED", "OUTCOME_UNKNOWN"}

Unknown(outcome) == outcome \in {"OUTCOME_UNKNOWN", "BLOCKED_OUTCOME_UNKNOWN"}

(* Any earlier receipt of the key stops the adapter call, an unknown one for good. *)
Suppressed(key) ==
  IF \E n \in Journaled(key) : Unknown(receipts[n].outcome)
  THEN "BLOCKED_OUTCOME_UNKNOWN" ELSE "DUPLICATE_SUPPRESSED"

(* Variant: only a receipt of a success stops the next call. *)
AttemptRetrying(e, key) ==
  /\ running[e] = 0 /\ Len(calls) + Len(receipts) < MaxCalls
  /\ \A n \in Journaled(key) : receipts[n].outcome # "SUCCEEDED"
  /\ calls' = Append(calls, [key |-> key, seen |-> Len(receipts), receipt |-> 0])
  /\ running' = [running EXCEPT ![e] = Len(calls')]
  /\ UNCHANGED receipts

(* What execute_authorized_action and execute_rollback share: the prior       *)
(* receipts the caller read decide between a suppressed receipt and a call.   *)
Attempt(e, key) ==
  /\ running[e] = 0 /\ Len(calls) + Len(receipts) < MaxCalls
  /\ IF Journaled(key) = {}
     THEN /\ calls' = Append(calls, [key |-> key, seen |-> Len(receipts), receipt |-> 0])
          /\ running' = [running EXCEPT ![e] = Len(calls')]
          /\ UNCHANGED receipts
     ELSE /\ receipts' = Append(receipts, [key |-> key, outcome |-> Suppressed(key)])
          /\ UNCHANGED <<calls, running>>

Matches(hold, p, adapter) ==
  CASE hold.scope = "ACTION" -> hold.target = p
    [] hold.scope = "LISTING" -> hold.target = p.listing
    [] hold.scope = "ADAPTER" -> hold.target = adapter

(* execute_with_incident_guard: no active hold, the authority holds right now. *)
Execute(e, action, adapter) ==
  /\ ~ \E hold \in holds : Matches(hold, action.proposal, adapter)
  /\ Authorized(action.proposal, action.approval, action.authority)
  /\ Attempt(e, ExecutionKey(action, adapter))
  /\ UNCHANGED <<planned, applied, everApplied, reviewed, holds>>

(* What the receipt says of the adapter's reply: an exception, a reply bound to *)
(* another request and a success without an external id are all unknown.       *)
OutcomeOf(reply) ==
  IF reply \in {"SUCCEEDED", "FAILED"} THEN reply ELSE "OUTCOME_UNKNOWN"

Replies == {"SUCCEEDED", "FAILED", "OUTCOME_UNKNOWN", "RAISED", "MISBOUND", "NO_EXTERNAL_ID"}

(* The platform did or did not do it, whatever its adapter replies. *)
Effect(key, done) ==
  IF ~done THEN UNCHANGED <<applied, everApplied>>
  ELSE IF key.kind = "execute"
       THEN /\ applied' = applied \cup {key.subject.proposal}
            /\ everApplied' = everApplied \cup {key.subject.proposal}
       ELSE /\ applied' = applied \ {ProposalOf(key.subject.case.receipt)}
            /\ UNCHANGED everApplied

Finish(e, reply, done) ==
  LET call == calls[running[e]] IN
    /\ running[e] # 0
    /\ Effect(call.key, done)
    /\ receipts' = Append(receipts, [key |-> call.key, outcome |-> OutcomeOf(reply)])
    /\ calls' = [calls EXCEPT ![running[e]] =
                   [key |-> call.key, seen |-> call.seen, receipt |-> Len(receipts')]]
    /\ running' = [running EXCEPT ![e] = 0]
    /\ UNCHANGED <<planned, reviewed, holds>>

(* The caller dies after the adapter was called: the receipt is never journaled. *)
Crash(e, done) ==
  /\ running[e] # 0
  /\ Effect(calls[running[e]].key, done)
  /\ running' = [running EXCEPT ![e] = 0]
  /\ UNCHANGED <<planned, calls, receipts, reviewed, holds>>

-----------------------------------------------------------------------------
(* Verification and reconciliation of execution receipts *)

(* Variant: the receipt's own claim is taken when no observation is given. *)
StateOnClaim(n, observed) ==
  IF receipts[n].outcome = "SUCCEEDED" THEN "VERIFIED"
  ELSE IF observed /\ ProposalOf(n) \in applied THEN "VERIFIED" ELSE "MISMATCH"

(* The expected state is that the action took effect; observed says whether an *)
(* independent observation of that listing and action was handed in.           *)
StateOf(n, observed) ==
  LET outcome == receipts[n].outcome IN
    CASE outcome = "DUPLICATE_SUPPRESSED" -> "NOT_APPLICABLE"
      [] outcome # "DUPLICATE_SUPPRESSED" /\ (Unknown(outcome) \/ (Attempted(n) /\ ~observed)) ->
           "OUTCOME_UNKNOWN"
      [] OTHER -> IF ProposalOf(n) \in applied THEN "VERIFIED" ELSE "MISMATCH"

Verify(n, observed) ==
  /\ \A v \in verifications : v.receipt # n
  /\ verifications' = verifications \cup {[receipt |-> n, state |-> StateOf(n, observed)]}
  /\ UNCHANGED <<planned, executed, cases, resolved, requests, holds>>

(* Variant: an attempted call of unknown effect is rolled back like a mismatch. *)
EligibleUnknown(v) == v.state \in {"MISMATCH", "OUTCOME_UNKNOWN"} /\ Attempted(v.receipt)

(* rollback_eligibility *)
Eligible(v) == v.state = "MISMATCH" /\ Attempted(v.receipt)

OpenCase(v) ==
  /\ v.state \in {"MISMATCH", "OUTCOME_UNKNOWN"}
  /\ cases' = cases \cup {[receipt |-> v.receipt, eligible |-> Eligible(v)]}
  /\ UNCHANGED <<planned, executed, verifications, resolved, requests, holds>>

(* People settle a case outside this code; its fingerprint stays. *)
Resolve(c) ==
  /\ resolved' = resolved \cup {c}
  /\ UNCHANGED <<planned, executed, verifications, cases, requests, holds>>

(* build_rollback_request: the action handed in is compared with the authority, *)
(* not with the receipt, so any action of the same listing and type will do.    *)
RequestRollback(c, action, approval, authority, adapter) ==
  /\ c.eligible /\ c \notin resolved
  /\ approval.of = c /\ approval.decision = "APPROVED"
  /\ Scoped(authority, action.proposal) /\ InWindow(authority)
  /\ requests' = requests \cup
       {[kind |-> "rollback", adapter |-> adapter,
         subject |-> [case |-> c, action |-> action, approval |-> approval,
                      authority |-> authority]]}
  /\ UNCHANGED <<planned, executed, verifications, cases, resolved, holds>>

(* execute_rollback looks at neither the holds nor the state of the case. *)
Rollback(e, request) ==
  /\ InWindow(request.subject.authority)
  /\ Attempt(e, request)
  /\ UNCHANGED <<planned, applied, everApplied, reviewed, holds>>

-----------------------------------------------------------------------------
(* The workspace: what people are shown of a proposal *)

StateFor(n) == {v.state : v \in {x \in verifications : x.receipt = n}}

CaseFor(n) == {c \in cases : c.receipt = n}

(* Variant: a receipt of a success is complete without its verification. *)
ShownUnverified(n) ==
  IF receipts[n].outcome = "SUCCEEDED" THEN "COMPLETE"
  ELSE "VERIFICATION_RECONCILIATION_REQUIRED"

(* operational_state of an item that ends in execution receipt n, not rolled back. *)
ShownReceipt(n) ==
  IF CaseFor(n) # {} \/ StateFor(n) \cap {"MISMATCH", "OUTCOME_UNKNOWN"} # {}
  THEN "VERIFICATION_RECONCILIATION_REQUIRED"
  ELSE IF receipts[n].outcome = "SUCCEEDED" /\ StateFor(n) = {"VERIFIED"} THEN "COMPLETE"
  ELSE IF Unknown(receipts[n].outcome) THEN "BLOCKED"
  ELSE "VERIFICATION_RECONCILIATION_REQUIRED"

Expired(authority) == clock > authority.until

Stale(approval) == clock - approval.at > StaleAfter

(* ... and of one nothing was executed for; a stale approval is only shown.    *)
ShownPending(approval, authority, adapterUp) ==
  IF approval.decision # "APPROVED" THEN "NEEDS_HUMAN_DECISION"
  ELSE IF Stale(approval) \/ authority.status # "VALID" \/ Expired(authority) \/ ~adapterUp
       THEN "BLOCKED" ELSE "APPROVED_NOT_EXECUTED"

Items == {n \in DOMAIN receipts : IsExecution(n)}

(* build_workspace_item: blocking_reasons of the item that ends in receipt n.  *)
Blocking(n) ==
  {r \in {"OUTCOME_UNKNOWN", "OPEN_RECONCILIATION", "AUTHORITY_EXPIRED"} :
     \/ r = "OUTCOME_UNKNOWN" /\ (Unknown(receipts[n].outcome) \/ "OUTCOME_UNKNOWN" \in StateFor(n))
     \/ r = "OPEN_RECONCILIATION" /\ CaseFor(n) \ resolved # {}
     \/ r = "AUTHORITY_EXPIRED" /\ Expired(receipts[n].key.subject.authority)}

(* build_execution_workspace: outcome_unknown_item_ids *)
UnknownItems == {n \in Items : "OUTCOME_UNKNOWN" \in Blocking(n)}

(* detect_incidents: adapter health is an observation anyone may bring.        *)
Conditions(n) ==
  {k \in IncidentTypes :
     \/ k \in Blocking(n)
     \/ k = "AUTHORITY_ANOMALY" /\ "AUTHORITY_EXPIRED" \in Blocking(n)
     \/ k = "REPEATED_OUTCOME_UNKNOWN" /\ n \in UnknownItems /\ UnknownItems # {n}
     \/ k \in {"ADAPTER_DEGRADED", "ADAPTER_UNAVAILABLE"}}

-----------------------------------------------------------------------------
(* Incidents and holds *)

(* The incident of repeated unknown outcomes reaches listings only.            *)
BlastRadius(n, kind) ==
  {<<"LISTING", ProposalOf(n).listing>>} \cup
    (IF kind = "REPEATED_OUTCOME_UNKNOWN" THEN {}
     ELSE {<<"ACTION", ProposalOf(n)>>, <<"ADAPTER", receipts[n].key.adapter>>})

Incident(n, kind) == [receipt |-> n, kind |-> kind]

Hold(n, kind, scope, target) ==
  /\ kind \in Conditions(n)
  /\ scope \in HoldScopes /\ <<scope, target>> \in BlastRadius(n, kind)
  /\ Cardinality(holds) < MaxHolds
  /\ holds' = holds \cup {[incident |-> Incident(n, kind), scope |-> scope, target |-> target]}
  /\ UNCHANGED <<planned, executed, reviewed>>

(* close_incident_with_recovery: a RELEASE decision and a fresh validation are given; *)
(* an unknown outcome also needs a resolved case, of whichever receipt.               *)
RecoveryAllowed(kind, reconciled, case) ==
  kind \in {"OUTCOME_UNKNOWN", "REPEATED_OUTCOME_UNKNOWN"} => reconciled /\ case \cap resolved # {}

(* The caller drops the hold with the recovery evidence of its incident. *)
Recover(hold, reconciled, case) ==
  /\ RecoveryAllowed(hold.incident.kind, reconciled, case)
  /\ holds' = holds \ {hold}
  /\ UNCHANGED <<planned, executed, reviewed>>

-----------------------------------------------------------------------------
Deciding ==
  \E subject \in proposals \cup {c \in cases : c.eligible} :
    \E decision \in {"APPROVED", "REJECTED"} : Decide(subject, decision)

Executing ==
  \E e \in Executors, adapter \in Adapters :
    \/ \E action \in actions : Execute(e, action, adapter)
    \/ \E request \in requests : request.adapter = adapter /\ Rollback(e, request)

Ending ==
  \E e \in Executors, done \in BOOLEAN :
    Crash(e, done) \/ \E reply \in Replies : Finish(e, reply, done)

Containing ==
  \/ \E n \in Items : \E kind \in Conditions(n) : \E target \in BlastRadius(n, kind) :
       Hold(n, kind, target[1], target[2])
  \/ \E hold \in holds, reconciled \in BOOLEAN :
       \E case \in {{}} \cup {{c} : c \in cases} : Recover(hold, reconciled, case)

Next ==
  \/ Tick
  \/ \E i \in Intents : Propose(i)
  \/ Deciding
  \/ \E p \in proposals, approval \in approvals, authority \in Authorities :
       Authorize(p, approval, authority)
  \/ Executing
  \/ Ending
  \/ \E n \in Items, observed \in BOOLEAN : Verify(n, observed)
  \/ \E v \in verifications : OpenCase(v)
  \/ \E c \in cases : Resolve(c)
  \/ \E c \in cases, action \in actions, approval \in approvals,
        authority \in RollbackAuthorities, adapter \in Adapters :
       RequestRollback(c, action, approval, authority, adapter)
  \/ Containing

Spec == Init /\ [][Next]_vars

-----------------------------------------------------------------------------
(* execute_authorized_action and execute_rollback: a key's adapter call is   *)
(* never begun again once a receipt of that key was in the journal, whatever *)
(* its outcome and however many callers there are.                           *)
JournaledNeverRepeated ==
  \A i, j \in DOMAIN calls :
    (i # j /\ calls[i].key = calls[j].key /\ calls[i].receipt # 0)
      => calls[j].seen < calls[i].receipt

(* verify_execution and build_workspace_item: what the workspace shows as    *)
(* complete without a rollback took effect, though the adapter may claim     *)
(* success for what never happened and lose what did; and an action that may *)
(* be executed now is not shown as blocked, unless its approval is stale.    *)
WorkspaceIsTruthful ==
  /\ \A n \in Items : ShownReceipt(n) = "COMPLETE" => ProposalOf(n) \in everApplied
  /\ \A action \in actions :
       (Authorized(action.proposal, action.approval, action.authority) /\ ~Stale(action.approval))
         => ShownPending(action.approval, action.authority, TRUE) = "APPROVED_NOT_EXECUTED"

(* build_rollback_request: what is rolled back was attempted and observed to *)
(* be missing or different; an unknown outcome is never rolled back.         *)
RollbacksFollowMismatch ==
  \A i \in DOMAIN calls :
    calls[i].key.kind = "rollback" =>
      LET n == calls[i].key.subject.case.receipt IN
        /\ IsExecution(n) /\ Attempted(n) /\ ~Unknown(receipts[n].outcome)
        /\ StateFor(n) = {"MISMATCH"}
=============================================================================
