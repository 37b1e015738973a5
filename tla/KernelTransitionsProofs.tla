----------------------- MODULE KernelTransitionsProofs -----------------------
(***************************************************************************)
(* Proofs about KernelTransitions, for every registry, every set of keys,  *)
(* entities, callers and sessions, and any number of faults.               *)
(***************************************************************************)
EXTENDS KernelTransitions, TLAPS

USE DEF serialVars, sessionVars, vars

-----------------------------------------------------------------------------
(* Every answer the kernel computes has the shape of a TransitionResult. *)
LEMMA VersionOfType ==
  ASSUME NEW row \in EntityRows
  PROVE  VersionOf(row) \in Nat
  BY NoRowAssumption DEF EntityRows, Rows, VersionOf

LEMMA GuardRejectionType ==
  ASSUME NEW r, NEW row \in EntityRows
  PROVE  GuardRejection(r, row) \in Results
<1>1. ASSUME NEW g PROVE GuardReason(g) \in Reasons
  <2>1. CASE g = "ENTITY_EXISTS" BY <2>1 DEF GuardReason, Reasons
  <2>2. CASE g = "EXPECTED_STATE_MATCHES" BY <2>2 DEF GuardReason, Reasons
  <2>3. CASE g # "ENTITY_EXISTS" /\ g # "EXPECTED_STATE_MATCHES"
    BY <2>3 DEF GuardReason, Reasons
  <2>4. QED BY <2>1, <2>2, <2>3
<1>2. ASSUME NEW reason \in Reasons, NEW v \in Nat
      PROVE  Rejected(reason, v) \in Results
  BY DEF Rejected, Results, Statuses, Reasons
<1>3. QED BY <1>1, <1>2, VersionOfType DEF GuardRejection

(* Guards that all pass have seen a row: ENTITY_EXISTS is among them. *)
LEMMA PassingGuardsSeeRow ==
  ASSUME NEW r \in Requests, NEW row, Known(r), FailedGuards(r, row) = {}
  PROVE  row # NoRow
<1>1. PICK i \in DOMAIN Registry[r.transition].guards :
        Registry[r.transition].guards[i] = "ENTITY_EXISTS"
  BY RegistryAssumption DEF Known
<1>2. QED BY <1>1 DEF FailedGuards, GuardFails

LEMMA AdvanceType ==
  ASSUME NEW r \in Requests, Known(r), NEW row \in Rows
  PROVE  /\ Advance(r, row) \in Rows
         /\ Applied(r, row) \in Results
  BY RegistryAssumption DEF Known, Advance, Applied, Rows, Results, Statuses, Reasons

LEMMA OutcomeType ==
  ASSUME NEW r \in Requests, NEW row \in EntityRows
  PROVE  Outcome(r, row) \in Results
<1>1. Rejected("TRANSITION_NOT_ALLOWED", 0) \in Results
  BY DEF Rejected, Results, Statuses, Reasons
<1>2. Rejected("CALLER_NOT_AUTHORIZED", 0) \in Results
  BY DEF Rejected, Results, Statuses, Reasons
<1>3. Conflict(row) \in Results
  BY VersionOfType DEF Conflict, Results, Statuses, Reasons
<1>4. CASE Known(r) /\ Authorized(r) /\ FailedGuards(r, row) = {}
  <2>1. row \in Rows
    BY <1>4, PassingGuardsSeeRow DEF EntityRows
  <2>2. Applied(r, row) \in Results
    BY <1>4, <2>1, AdvanceType
  <2>3. QED BY <1>3, <1>4, <2>2 DEF Outcome
<1>5. QED BY <1>1, <1>2, <1>4, GuardRejectionType DEF Outcome

(* A command that is applied was registered, authorised, and found a row in *)
(* the state its transition leaves from.                                    *)
LEMMA AppliedOutcome ==
  ASSUME NEW r \in Requests, NEW row \in EntityRows,
         Outcome(r, row).status = "APPLIED"
  PROVE  /\ Known(r) /\ Authorized(r)
         /\ row \in Rows
         /\ row.state = Registry[r.transition].from
         /\ Outcome(r, row) = Applied(r, row)
<1>1. \A reason, v : Rejected(reason, v).status = "REJECTED"
  BY DEF Rejected
<1>2. GuardRejection(r, row).status = "REJECTED"
  BY <1>1 DEF GuardRejection
<1>3. Conflict(row).status = "CONFLICT"
  BY DEF Conflict
<1>4. /\ Known(r) /\ Authorized(r) /\ FailedGuards(r, row) = {}
      /\ row.state = Registry[r.transition].from
  BY <1>1, <1>2, <1>3 DEF Outcome
<1>5. Outcome(r, row) = Applied(r, row)
  BY <1>4 DEF Outcome
<1>6. row \in Rows
  BY <1>4, PassingGuardsSeeRow DEF EntityRows
<1>7. QED BY <1>4, <1>5, <1>6

-----------------------------------------------------------------------------
(* TypeOK: the tables and the sessions' state keep their types. *)
LEMMA EndTransactionType ==
  ASSUME TypeOK, NEW s \in Sessions, EndTransaction(s)
  PROVE  /\ pc' \in [Sessions -> PCs]
         /\ cmd' \in [Sessions -> Requests \cup {NoRequest}]
         /\ seen' \in [Sessions -> EntityRows]
         /\ result' \in [Sessions -> Results \cup {NoResult}]
         /\ rowLock' \in [Entities -> Sessions \cup {NoSession}]
         /\ keyLock' \in [Keys -> Sessions \cup {NoSession}]
  BY DEF TypeOK, EndTransaction, PCs, EntityRows

LEMMA RequestParts ==
  ASSUME NEW r \in Requests
  PROVE  r.key \in Keys /\ r.entity \in Entities
  BY DEF Requests

(* TypeOK and Isolation hold together: a decided result has its type        *)
(* because it is the outcome of the command against the current row.        *)
IInv == TypeOK /\ Isolation

LEMMA InitIInv == Init => IInv
<1> SUFFICES ASSUME Init PROVE IInv
  OBVIOUS
<1>1. \A x \in States : [state |-> x, version |-> 1] \in EntityRows
  BY DEF EntityRows, Rows
<1>2. entity \in [Entities -> EntityRows]
  BY <1>1 DEF Init, SerialInit, EntityRows
<1>3. TypeOK
  BY <1>2, SessionAssumption DEF Init, SerialInit, TypeOK, PCs, EntityRows, Records
<1>4. Isolation
  BY DEF Init, Isolation, Isolated
<1>5. QED BY <1>3, <1>4 DEF IInv

LEMMA BeginIInv ==
  ASSUME IInv, NEW s \in Sessions, NEW r \in Requests, Begin(s, r)
  PROVE  IInv'
<1> USE DEF Begin
<1>1. TypeOK'
  BY DEF IInv, TypeOK, PCs
<1>2. Isolation'
  BY DEF IInv, TypeOK, PCs, Isolation, Isolated, SeenIsCurrent
<1>3. QED BY <1>1, <1>2 DEF IInv

LEMMA ReplayIInv ==
  ASSUME IInv, NEW s \in Sessions, NEW r \in Requests, ReplayPrior(s, r)
  PROVE  IInv'
<1>1. ledger[r.key] \in Records
  BY RequestParts DEF ReplayPrior, Replay, IInv, TypeOK
<1>2. TypeOK'
  BY <1>1 DEF ReplayPrior, Replay, IInv, TypeOK
<1>3. Isolation'
  BY DEF ReplayPrior, Replay, IInv, Isolation, Isolated, SeenIsCurrent
<1>4. QED BY <1>2, <1>3 DEF IInv

(* A session that decides leaves the others alone. *)
LEMMA DecideIInv ==
  ASSUME IInv, NEW s \in Sessions, pc[s] \in {"checked", "locked"},
         Decide(s, Outcome(cmd[s], entity[cmd[s].entity])),
         Known(cmd[s]) /\ Authorized(cmd[s]) => SeenIsCurrent(s),
         UNCHANGED <<serialVars, cmd, seen, rowLock, keyLock, faults>>
  PROVE  IInv'
<1>1. cmd[s] \in Requests
  BY DEF IInv, Isolation, Isolated
<1>2. entity[cmd[s].entity] \in EntityRows
  BY <1>1, RequestParts DEF IInv, TypeOK
<1>3. Outcome(cmd[s], entity[cmd[s].entity]) \in Results
  BY <1>1, <1>2, OutcomeType
<1>4. TypeOK'
  BY <1>3 DEF Decide, IInv, TypeOK, PCs
<1>5. Isolation'
  <2> SUFFICES ASSUME NEW t \in Sessions
               PROVE  Isolated(t)'
    BY DEF Isolation
  <2>1. CASE t = s
    BY <1>1, <2>1 DEF Decide, IInv, TypeOK, Isolation, Isolated, SeenIsCurrent
  <2>2. CASE t # s
    BY <2>2 DEF Decide, IInv, TypeOK, Isolation, Isolated, SeenIsCurrent
  <2>3. QED BY <2>1, <2>2
<1>6. QED BY <1>4, <1>5 DEF IInv

LEMMA RejectUnknownIInv ==
  ASSUME IInv, NEW s \in Sessions, RejectUnknown(s)
  PROVE  IInv'
<1>1. Outcome(cmd[s], entity[cmd[s].entity]) = Rejected("TRANSITION_NOT_ALLOWED", 0)
  BY DEF RejectUnknown, Outcome
<1>2. QED BY <1>1, DecideIInv DEF RejectUnknown

LEMMA RejectCallerIInv ==
  ASSUME IInv, NEW s \in Sessions, RejectCaller(s)
  PROVE  IInv'
<1>1. Outcome(cmd[s], entity[cmd[s].entity]) = Rejected("CALLER_NOT_AUTHORIZED", 0)
  BY DEF RejectCaller, Outcome
<1>2. QED BY <1>1, DecideIInv DEF RejectCaller

LEMMA LockRowIInv ==
  ASSUME IInv, NEW s \in Sessions, LockRow(s)
  PROVE  IInv'
<1> USE DEF LockRow
<1>1. cmd[s] \in Requests /\ cmd[s].entity \in Entities
  BY RequestParts DEF IInv, Isolation, Isolated
<1>2. TypeOK'
  BY <1>1 DEF IInv, TypeOK, PCs
<1>3. Isolation'
  <2> SUFFICES ASSUME NEW t \in Sessions
               PROVE  Isolated(t)'
    BY DEF Isolation
  <2>1. CASE t = s
    BY <1>1, <2>1 DEF IInv, TypeOK, Isolation, Isolated, SeenIsCurrent
  <2>2. CASE t # s
    BY <1>1, <2>2, SessionAssumption DEF IInv, TypeOK, Isolation, Isolated, SeenIsCurrent
  <2>3. QED BY <2>1, <2>2
<1>4. QED BY <1>2, <1>3 DEF IInv

LEMMA RejectByGuardIInv ==
  ASSUME IInv, NEW s \in Sessions, RejectByGuard(s)
  PROVE  IInv'
<1>1. Known(cmd[s]) /\ Authorized(cmd[s]) /\ SeenIsCurrent(s)
  BY DEF RejectByGuard, IInv, Isolation, Isolated
<1>2. Outcome(cmd[s], entity[cmd[s].entity]) = GuardRejection(cmd[s], seen[s])
  BY <1>1 DEF RejectByGuard, Outcome, SeenIsCurrent
<1>3. QED BY <1>1, <1>2, DecideIInv DEF RejectByGuard

LEMMA RecordConflictIInv ==
  ASSUME IInv, NEW s \in Sessions, RecordConflict(s)
  PROVE  IInv'
<1>1. Known(cmd[s]) /\ Authorized(cmd[s]) /\ SeenIsCurrent(s) /\ cmd[s] \in Requests
  BY DEF RecordConflict, IInv, Isolation, Isolated
<1>2. seen[s] # NoRow
  BY <1>1, PassingGuardsSeeRow DEF RecordConflict
<1>3. Outcome(cmd[s], entity[cmd[s].entity]) = Conflict(seen[s])
  BY <1>1, <1>2 DEF RecordConflict, CasMatches, Outcome, SeenIsCurrent
<1>4. QED BY <1>1, <1>3, DecideIInv DEF RecordConflict

LEMMA ApplyTransitionIInv ==
  ASSUME IInv, NEW s \in Sessions, ApplyTransition(s)
  PROVE  IInv'
<1>1. Known(cmd[s]) /\ Authorized(cmd[s]) /\ SeenIsCurrent(s) /\ cmd[s] \in Requests
  BY DEF ApplyTransition, IInv, Isolation, Isolated
<1>2. seen[s] # NoRow
  BY <1>1, PassingGuardsSeeRow DEF ApplyTransition
<1>3. Outcome(cmd[s], entity[cmd[s].entity]) = Applied(cmd[s], seen[s])
  BY <1>1 DEF ApplyTransition, CasMatches, Outcome, SeenIsCurrent
<1>4. UNCHANGED rowLock
  BY <1>1, <1>2 DEF ApplyTransition, SeenIsCurrent, IInv, TypeOK
<1>5. QED BY <1>1, <1>3, <1>4, DecideIInv DEF ApplyTransition

LEMMA RecordCommandIInv ==
  ASSUME IInv, NEW s \in Sessions, RecordCommand(s)
  PROVE  IInv'
<1> USE DEF RecordCommand
<1>1. cmd[s] \in Requests /\ cmd[s].key \in Keys
  BY RequestParts DEF IInv, Isolation, Isolated
<1>2. TypeOK'
  BY <1>1 DEF IInv, TypeOK, PCs
<1>3. Isolation'
  <2> SUFFICES ASSUME NEW t \in Sessions
               PROVE  Isolated(t)'
    BY DEF Isolation
  <2>1. CASE t = s
    BY <1>1, <2>1 DEF IInv, TypeOK, Isolation, Isolated, SeenIsCurrent
  <2>2. CASE t # s
    BY <1>1, <2>2, SessionAssumption DEF IInv, TypeOK, Isolation, Isolated, SeenIsCurrent
  <2>3. QED BY <2>1, <2>2
<1>4. QED BY <1>2, <1>3 DEF IInv

(* Ending a transaction without a commit: the others keep their locks. *)
LEMMA AbortIInv ==
  ASSUME IInv, NEW s \in Sessions, EndTransaction(s), UNCHANGED serialVars,
         faults' \in 0..MaxFaults
  PROVE  IInv'
<1>1. TypeOK'
  BY EndTransactionType DEF IInv, TypeOK
<1>2. Isolation'
  <2> SUFFICES ASSUME NEW t \in Sessions
               PROVE  Isolated(t)'
    BY DEF Isolation
  <2>1. CASE t = s
    BY <2>1 DEF EndTransaction, IInv, TypeOK, Isolated
  <2>2. CASE t # s
    BY <2>2, RequestParts DEF EndTransaction, IInv, TypeOK, Isolation, Isolated, SeenIsCurrent
  <2>3. QED BY <2>1, <2>2
<1>3. QED BY <1>1, <1>2 DEF IInv

(* What a commit installs for an applied command is a row. *)
LEMMA CommitFacts ==
  ASSUME IInv, NEW s \in Sessions, Commit(s)
  PROVE  /\ cmd[s] \in Requests
         /\ result[s] = Outcome(cmd[s], entity[cmd[s].entity])
         /\ result[s] \in Results
         /\ result[s].status = "APPLIED" =>
              /\ seen[s] = entity[cmd[s].entity]
              /\ rowLock[cmd[s].entity] = s
              /\ Advance(cmd[s], seen[s]) \in Rows
<1>1. cmd[s] \in Requests /\ result[s] = Outcome(cmd[s], entity[cmd[s].entity])
  BY DEF Commit, IInv, Isolation, Isolated
<1>2. entity[cmd[s].entity] \in EntityRows
  BY <1>1, RequestParts DEF IInv, TypeOK
<1>3. result[s] \in Results
  BY <1>1, <1>2, OutcomeType
<1>4. ASSUME result[s].status = "APPLIED"
      PROVE  /\ seen[s] = entity[cmd[s].entity]
             /\ rowLock[cmd[s].entity] = s
             /\ Advance(cmd[s], seen[s]) \in Rows
  <2>1. Known(cmd[s]) /\ Authorized(cmd[s]) /\ entity[cmd[s].entity] \in Rows
    BY <1>1, <1>2, <1>4, AppliedOutcome
  <2>2. SeenIsCurrent(s)
    BY <2>1 DEF Commit, IInv, Isolation, Isolated
  <2>3. QED BY <1>1, <2>1, <2>2, AdvanceType, NoRowAssumption DEF SeenIsCurrent
<1>5. QED BY <1>1, <1>3, <1>4

LEMMA AuditRowsType ==
  ASSUME NEW r \in Requests, NEW res \in Results, NEW a \in Seq(Records)
  PROVE  /\ AuditRow(r, res) \in Records
         /\ a \o AuditRowsOf(r, res) \in Seq(Records)
<1>1. AuditRow(r, res) \in Records
  BY DEF AuditRow, Records
<1>2. AuditRowsOf(r, res) \in Seq(Records)
  BY <1>1 DEF AuditRowsOf
<1>3. QED BY <1>1, <1>2

LEMMA CommitIInv ==
  ASSUME IInv, NEW s \in Sessions, Commit(s)
  PROVE  IInv'
<1> DEFINE r == cmd[s]
           e == r.entity
<1>0. r.key \in Keys /\ e \in Entities
  BY CommitFacts, RequestParts
<1>1. AuditRow(r, result[s]) \in Records /\ audit' \in Seq(Records)
  BY CommitFacts, AuditRowsType DEF Commit, IInv, TypeOK
<1>2. entity' \in [Entities -> EntityRows]
  BY CommitFacts DEF Commit, IInv, TypeOK, EntityRows
<1>3. EndTransaction(s) /\ UNCHANGED faults
  BY DEF Commit
<1>4. ledger' \in [Keys -> Records \cup {NoCommand}] /\ replies' \subseteq Records
  BY <1>1 DEF Commit, IInv, TypeOK
<1>5. TypeOK'
  BY <1>1, <1>2, <1>3, <1>4, EndTransactionType DEF IInv, TypeOK
<1>6. ASSUME NEW t \in Sessions, t # s, pc[t] # "idle"
      PROVE  SeenIsCurrent(t) => SeenIsCurrent(t)' /\ entity'[cmd[t].entity] = entity[cmd[t].entity]
  <2>1. cmd[t] \in Requests /\ cmd[t].entity \in Entities
    BY <1>6, RequestParts DEF IInv, Isolation, Isolated
  <2>2. entity'[cmd[t].entity] # entity[cmd[t].entity] =>
          cmd[t].entity = e /\ rowLock[e] = s /\ entity[e] # NoRow
    <3>1. CASE result[s].status = "APPLIED"
      <4>1. entity[e] # NoRow
        BY <3>1, <1>0, CommitFacts, AppliedOutcome, NoRowAssumption DEF IInv, TypeOK
      <4>2. QED BY <2>1, <3>1, <4>1, CommitFacts DEF Commit, IInv, TypeOK
    <3>2. CASE result[s].status # "APPLIED"
      BY <3>2 DEF Commit
    <3>3. QED BY <3>1, <3>2
  <2>3. SeenIsCurrent(t) => entity'[cmd[t].entity] = entity[cmd[t].entity]
    BY <1>6, <2>2 DEF SeenIsCurrent
  <2>4. QED BY <1>3, <1>6, <2>1, <2>3 DEF SeenIsCurrent, EndTransaction, IInv, TypeOK
<1>7. ASSUME NEW t \in Sessions, t # s
      PROVE  Isolated(t)'
  <2>1. Isolated(t)
    BY DEF IInv, Isolation
  <2>2. /\ pc'[t] = pc[t] /\ cmd'[t] = cmd[t] /\ result'[t] = result[t] /\ seen'[t] = seen[t]
        /\ \A k \in Keys : keyLock[k] = t => keyLock'[k] = t
    BY <1>3, <1>7 DEF EndTransaction, IInv, TypeOK
  <2>3. CASE pc[t] = "idle"
    BY <2>2, <2>3 DEF Isolated
  <2>4. CASE pc[t] = "checked"
    BY <2>1, <2>2, <2>4 DEF Isolated
  <2>5. CASE pc[t] = "locked"
    BY <1>6, <1>7, <2>1, <2>2, <2>5 DEF Isolated
  <2>6. CASE pc[t] \in {"decided", "recorded"}
    <3>1. result[t] = Outcome(cmd[t], entity'[cmd[t].entity])
      <4>1. CASE Known(cmd[t]) /\ Authorized(cmd[t])
        BY <1>6, <1>7, <2>1, <2>6, <4>1 DEF Isolated
      <4>2. CASE ~(Known(cmd[t]) /\ Authorized(cmd[t]))
        BY <2>1, <2>6, <4>2 DEF Isolated, Outcome
      <4>3. QED BY <4>1, <4>2
    <3>2. Known(cmd[t]) /\ Authorized(cmd[t]) => SeenIsCurrent(t)'
      BY <1>6, <1>7, <2>1, <2>6 DEF Isolated
    <3>3. pc[t] = "recorded" => keyLock'[cmd[t].key] = t /\ ledger'[cmd[t].key] = NoCommand
      <4>1. pc[t] = "recorded" => cmd[t].key # r.key /\ cmd[t].key \in Keys
        BY <1>7, <2>1, RequestParts DEF Isolated, Commit, IInv, Isolation
      <4>2. QED BY <2>1, <2>2, <4>1 DEF Isolated, Commit, IInv, TypeOK
    <3>4. QED BY <2>1, <2>2, <2>6, <3>1, <3>2, <3>3 DEF Isolated
  <2>7. QED BY <2>3, <2>4, <2>5, <2>6 DEF IInv, TypeOK, PCs
<1>8. Isolated(s)'
  BY <1>3 DEF EndTransaction, IInv, TypeOK, Isolated
<1>9. QED BY <1>5, <1>7, <1>8 DEF IInv, Isolation

LEMMA NextIInv == IInv /\ [Next]_vars => IInv'
<1> SUFFICES ASSUME IInv, [Next]_vars PROVE IInv'
  OBVIOUS
<1>1. ASSUME NEW s \in Sessions, NEW r \in Requests, Begin(s, r) \/ ReplayPrior(s, r)
      PROVE  IInv'
  BY <1>1, BeginIInv, ReplayIInv
<1>2. ASSUME NEW s \in Sessions, Execute(s)
      PROVE  IInv'
  <2>1. CASE DuplicateCommand(s)
    BY <2>1, AbortIInv DEF DuplicateCommand, IInv, TypeOK
  <2>2. QED
    BY <1>2, <2>1, RejectUnknownIInv, RejectCallerIInv, LockRowIInv, RejectByGuardIInv,
       ApplyTransitionIInv, RecordConflictIInv, RecordCommandIInv, CommitIInv DEF Execute
<1>3. ASSUME NEW s \in Sessions, Rollback(s)
      PROVE  IInv'
  <2>1. faults' \in 0..MaxFaults
    BY <1>3, SessionAssumption DEF Rollback, IInv, TypeOK
  <2>2. QED BY <1>3, <2>1, AbortIInv DEF Rollback
<1>4. CASE UNCHANGED vars
  BY <1>4 DEF IInv, TypeOK, Isolation, Isolated, SeenIsCurrent
<1>5. QED BY <1>1, <1>2, <1>3, <1>4 DEF Next

(* Type correctness of the kernel. *)
THEOREM TypeCorrect == Spec => []TypeOK
<1>1. IInv => TypeOK
  BY DEF IInv
<1>2. QED BY InitIInv, NextIInv, <1>1, PTL DEF Spec

(* Isolation: whatever a session has decided is still what its command      *)
(* would answer alone, until the session ends.                              *)
THEOREM DecisionsStayCurrent == Spec => []Isolation
<1>1. IInv => Isolation
  BY DEF IInv
<1>2. QED BY InitIInv, NextIInv, <1>1, PTL DEF Spec

-----------------------------------------------------------------------------
(* Refinement: the commit of a first execution is Process, a replay is      *)
(* Replay, and every other step changes nothing a caller can see.           *)
LEMMA StepRefines == IInv /\ [Next]_vars => [SerialNext]_serialVars
<1> SUFFICES ASSUME IInv, [Next]_vars PROVE [SerialNext]_serialVars
  OBVIOUS
<1>1. ASSUME NEW s \in Sessions, Commit(s)
      PROVE  SerialNext
  <2> DEFINE r == cmd[s]
             res == result[s]
  <2>1. r \in Requests /\ r.entity \in Entities /\ res = Outcome(r, entity[r.entity])
    BY <1>1, CommitFacts, RequestParts
  <2>2. ledger[r.key] = NoCommand
    BY <1>1 DEF Commit, IInv, Isolation, Isolated
  <2>3. entity' = [entity EXCEPT ![r.entity] = RowAfter(r, res, @)]
    <3>1. CASE res.status = "APPLIED"
      BY <1>1, <3>1, CommitFacts DEF Commit, RowAfter
    <3>2. CASE res.status # "APPLIED"
      BY <1>1, <2>1, <3>2 DEF Commit, RowAfter, IInv, TypeOK
    <3>3. QED BY <3>1, <3>2
  <2>4. Process(r)
    BY <1>1, <2>1, <2>2, <2>3 DEF Process, Commit
  <2>5. QED BY <2>1, <2>4 DEF SerialNext
<1>2. ASSUME NEW s \in Sessions, NEW r \in Requests, ReplayPrior(s, r)
      PROVE  SerialNext
  BY <1>2 DEF ReplayPrior, SerialNext
<1>3. ASSUME NEW s \in Sessions, Execute(s), ~Commit(s)
      PROVE  UNCHANGED serialVars
  BY <1>3 DEF Execute, RejectUnknown, RejectCaller, LockRow, RejectByGuard,
     ApplyTransition, RecordConflict, RecordCommand, DuplicateCommand
<1>4. ASSUME NEW s \in Sessions, NEW r \in Requests, Begin(s, r)
      PROVE  UNCHANGED serialVars
  BY <1>4 DEF Begin
<1>5. ASSUME NEW s \in Sessions, Rollback(s)
      PROVE  UNCHANGED serialVars
  BY <1>5 DEF Rollback
<1>6. CASE UNCHANGED vars
  BY <1>6
<1>7. QED BY <1>1, <1>2, <1>3, <1>4, <1>5, <1>6 DEF Next

(* The engine's concurrent transactions implement the serial kernel: every  *)
(* behaviour is one of commands executed one at a time.                     *)
THEOREM KernelIsSerializable == Spec => Serializable
<1>1. Init => SerialInit
  BY DEF Init
<1>2. QED BY InitIInv, NextIInv, StepRefines, <1>1, PTL DEF Spec, Serializable, SerialSpec

-----------------------------------------------------------------------------
(* Facts of the serial kernel, which the concurrent one inherits.           *)
SerialTypeOK ==
  /\ entity \in [Entities -> EntityRows]
  /\ ledger \in [Keys -> Records \cup {NoCommand}]
  /\ audit \in Seq(Records)
  /\ replies \subseteq Records

(* The ledger row of a key is the only audit row and the only answer of it. *)
LedgerGoverns ==
  /\ \A i \in DOMAIN audit : ledger[audit[i].request.key] = audit[i]
  /\ \A a \in replies : ledger[a.request.key] = a

SInv == SerialTypeOK /\ LedgerGoverns /\ AuditedOncePerKey

LEMMA SerialInitSInv == SerialInit => SInv
<1> SUFFICES ASSUME SerialInit PROVE SInv
  OBVIOUS
<1>1. \A x \in States : [state |-> x, version |-> 1] \in EntityRows
  BY DEF EntityRows, Rows
<1>2. SerialTypeOK
  BY <1>1 DEF SerialInit, SerialTypeOK, EntityRows
<1>3. LedgerGoverns /\ AuditedOncePerKey
  BY DEF SerialInit, LedgerGoverns, AuditedOncePerKey
<1>4. QED BY <1>2, <1>3 DEF SInv

LEMMA ProcessSInv ==
  ASSUME SInv, NEW r \in Requests, Process(r)
  PROVE  SInv'
<1> DEFINE res == Outcome(r, entity[r.entity])
<1>1. r.key \in Keys /\ r.entity \in Entities /\ entity[r.entity] \in EntityRows
  BY RequestParts DEF SInv, SerialTypeOK
<1>2. res \in Results
  BY <1>1, OutcomeType
<1>3. AuditRow(r, res) \in Records /\ audit \o AuditRowsOf(r, res) \in Seq(Records)
  BY <1>2, AuditRowsType DEF SInv, SerialTypeOK
<1>4. RowAfter(r, res, entity[r.entity]) \in EntityRows
  BY <1>1, AppliedOutcome, AdvanceType DEF RowAfter, EntityRows
<1>5. SerialTypeOK'
  BY <1>1, <1>3, <1>4 DEF Process, SInv, SerialTypeOK
<1>6. AuditRow(r, res).request = r
  BY DEF AuditRow
<1>7. LedgerGoverns' /\ AuditedOncePerKey'
  <2>1. \A i \in DOMAIN audit : audit[i] \in Records /\ audit[i].request.key # r.key
    BY <1>1, SessionAssumption DEF Process, SInv, SerialTypeOK, LedgerGoverns
  <2>2. \A a \in replies : a.request.key # r.key
    BY <1>1, SessionAssumption DEF Process, SInv, SerialTypeOK, LedgerGoverns
  <2>3. CASE Known(r)
    <3>1. audit' = Append(audit, AuditRow(r, res))
      BY <1>3, <2>3 DEF Process, AuditRowsOf, SInv, SerialTypeOK
    <3>2. QED BY <1>1, <1>3, <1>6, <2>1, <2>2, <3>1
              DEF Process, SInv, SerialTypeOK, LedgerGoverns, AuditedOncePerKey
  <2>4. CASE ~Known(r)
    <3>1. audit' = audit
      BY <2>4 DEF Process, AuditRowsOf, SInv, SerialTypeOK
    <3>2. QED BY <1>1, <1>6, <2>1, <2>2, <3>1
              DEF Process, SInv, SerialTypeOK, LedgerGoverns, AuditedOncePerKey
  <2>5. QED BY <2>3, <2>4
<1>8. QED BY <1>5, <1>7 DEF SInv

LEMMA SerialNextSInv == SInv /\ [SerialNext]_serialVars => SInv'
<1> SUFFICES ASSUME SInv, [SerialNext]_serialVars PROVE SInv'
  OBVIOUS
<1>1. ASSUME NEW r \in Requests, Replay(r)
      PROVE  SInv'
  <2>1. ledger[r.key] \in Records
    BY <1>1, RequestParts DEF Replay, SInv, SerialTypeOK
  <2>2. QED BY <1>1, <2>1 DEF Replay, SInv, SerialTypeOK, LedgerGoverns, AuditedOncePerKey
<1>2. CASE UNCHANGED serialVars
  BY <1>2 DEF SInv, SerialTypeOK, LedgerGoverns, AuditedOncePerKey
<1>3. QED BY <1>1, <1>2, ProcessSInv DEF SerialNext

(* A command key is executed, and audited, at most once, however its        *)
(* duplicates race.                                                         *)
THEOREM ExactlyOnce == Spec => []AuditedOncePerKey
<1>1. SerialSpec => []SInv
  BY SerialInitSInv, SerialNextSInv, PTL DEF SerialSpec
<1>2. SInv => AuditedOncePerKey
  BY DEF SInv
<1>3. QED BY <1>1, <1>2, KernelIsSerializable, PTL DEF Serializable

(* The first answer to a command and every replay of it are the same. *)
THEOREM ReplaysAgree == Spec => []AnswersAgree
<1>1. SerialSpec => []SInv
  BY SerialInitSInv, SerialNextSInv, PTL DEF SerialSpec
<1>2. SInv => AnswersAgree
  BY DEF SInv, LedgerGoverns, AnswersAgree
<1>3. QED BY <1>1, <1>2, KernelIsSerializable, PTL DEF Serializable

-----------------------------------------------------------------------------
(* The audit trail of an entity grows by one applied row exactly when the   *)
(* entity's version does.                                                   *)
LEMMA InitExplains == SerialInit => AuditExplainsEntity
  BY DEF SerialInit, AuditExplainsEntity, AuditExplains, AppliedTo

LEMMA AppliedStepExplains ==
  ASSUME SInv, AuditExplainsEntity, NEW r \in Requests, Process(r),
         Outcome(r, entity[r.entity]).status = "APPLIED", NEW e \in Entities
  PROVE  AuditExplains(e)'
<1> DEFINE row == entity[r.entity]
           new == AuditRow(r, Applied(r, row))
           n == Len(audit)
<1>1. row \in EntityRows
  BY RequestParts DEF SInv, SerialTypeOK
<1>2. /\ Known(r) /\ row \in Rows /\ row # NoRow
      /\ row.state = Registry[r.transition].from
      /\ Outcome(r, row) = Applied(r, row)
  BY <1>1, AppliedOutcome, NoRowAssumption
<1>3. Advance(r, row) \in Rows /\ new \in Records
  BY <1>2, AdvanceType DEF AuditRow, Records
<1>4. audit' = Append(audit, new)
  BY <1>2, <1>3 DEF Process, AuditRowsOf, SInv, SerialTypeOK
<1>5. /\ DOMAIN audit = 1..n /\ DOMAIN audit' = 1..(n + 1) /\ n \in Nat
      /\ \A i \in 1..n : audit'[i] = audit[i]
      /\ audit'[n + 1] = new
  BY <1>3, <1>4 DEF SInv, SerialTypeOK
<1>6. new.request = r /\ new.result.status = "APPLIED" /\ new.result.version = row.version + 1
  BY DEF AuditRow, Applied
<1>7. AppliedTo(e)' = IF e = r.entity THEN AppliedTo(e) \cup {n + 1} ELSE AppliedTo(e)
  BY <1>5, <1>6 DEF AppliedTo
<1>8. \A i \in AppliedTo(e) : i \in 1..n /\ audit'[i] = audit[i]
  BY <1>5 DEF AppliedTo
<1>9. CASE e # r.entity
  <2>1. entity'[e] = entity[e]
    BY <1>9 DEF Process, SInv, SerialTypeOK
  <2>2. AppliedTo(e)' = AppliedTo(e)
    BY <1>7, <1>9
  <2>3. AuditExplains(e)
    BY DEF AuditExplainsEntity
  <2>4. QED BY <1>8, <2>1, <2>2, <2>3 DEF AuditExplains
<1>10. CASE e = r.entity
  <2>1. entity'[e] = Advance(r, row)
    BY <1>2, <1>10 DEF Process, RowAfter, SInv, SerialTypeOK, Applied
  <2>2. entity'[e] # NoRow /\ entity'[e].version = row.version + 1
        /\ entity'[e].state = Registry[r.transition].to
    BY <1>3, <2>1, NoRowAssumption DEF Advance
  <2>3. row.version \in Nat \ {0}
    BY <1>2 DEF Rows
  <2>4. /\ {audit[i].result.version : i \in AppliedTo(e)} = 2..row.version
        /\ \A i, j \in AppliedTo(e) :
             /\ audit[i].result.version = audit[j].result.version => i = j
             /\ audit[j].result.version = audit[i].result.version + 1 =>
                  Registry[audit[i].request.transition].to
                    = Registry[audit[j].request.transition].from
        /\ \A i \in AppliedTo(e) : audit[i].result.version = row.version =>
             Registry[audit[i].request.transition].to = row.state
    BY <1>2, <1>10 DEF AuditExplainsEntity, AuditExplains
  <2>5. \A i \in AppliedTo(e) : audit[i].result.version \in 2..row.version
    BY <2>4
  <2>6. AppliedTo(e)' = AppliedTo(e) \cup {n + 1} /\ n + 1 \notin AppliedTo(e)
    BY <1>5, <1>7, <1>8, <1>10
  <2>7. {audit'[i].result.version : i \in AppliedTo(e)'}
          = {audit[i].result.version : i \in AppliedTo(e)} \cup {row.version + 1}
    BY <1>5, <1>6, <1>8, <2>6
  <2>8. {audit'[i].result.version : i \in AppliedTo(e)'} = 2..(row.version + 1)
    BY <2>3, <2>4, <2>7
  <2>9. ASSUME NEW i \in AppliedTo(e)', NEW j \in AppliedTo(e)'
        PROVE  /\ audit'[i].result.version = audit'[j].result.version => i = j
               /\ audit'[j].result.version = audit'[i].result.version + 1 =>
                    Registry[audit'[i].request.transition].to
                      = Registry[audit'[j].request.transition].from
               /\ audit'[i].result.version = row.version + 1 =>
                    Registry[audit'[i].request.transition].to = Registry[r.transition].to
    <3>1. CASE i \in AppliedTo(e) /\ j \in AppliedTo(e)
      <4>1. audit'[i] = audit[i] /\ audit'[j] = audit[j]
        BY <1>8, <3>1
      <4>2. audit[i].result.version # row.version + 1
        BY <2>3, <2>5, <3>1
      <4>3. /\ audit[i].result.version = audit[j].result.version => i = j
            /\ audit[j].result.version = audit[i].result.version + 1 =>
                 Registry[audit[i].request.transition].to
                   = Registry[audit[j].request.transition].from
        BY <2>4, <3>1
      <4>4. QED BY <4>1, <4>2, <4>3
    <3>2. CASE i = n + 1 /\ j \in AppliedTo(e)
      <4>1. audit'[i].result.version = row.version + 1 /\ audit'[i].request = r
        BY <1>5, <1>6, <3>2
      <4>2. audit'[j].result.version \in 2..row.version
        BY <1>8, <2>5, <3>2
      <4>3. QED BY <2>3, <4>1, <4>2
    <3>3. CASE i \in AppliedTo(e) /\ j = n + 1
      <4>1. audit'[j].result.version = row.version + 1 /\ audit'[j].request = r
        BY <1>5, <1>6, <3>3
      <4>2. audit'[i] = audit[i] /\ audit[i].result.version \in 2..row.version
        BY <1>8, <2>5, <3>3
      <4>3. audit[i].result.version = row.version => Registry[audit[i].request.transition].to = row.state
        BY <2>4, <3>3
      <4>4. QED BY <1>2, <2>3, <4>1, <4>2, <4>3
    <3>4. CASE i = n + 1 /\ j = n + 1
      BY <1>5, <1>6, <2>3, <3>4
    <3>5. QED BY <2>6, <3>1, <3>2, <3>3, <3>4
  <2>10. QED BY <2>2, <2>8, <2>9 DEF AuditExplains
<1>11. QED BY <1>9, <1>10

LEMMA RefusedStepExplains ==
  ASSUME SInv, AuditExplainsEntity, NEW r \in Requests, Process(r),
         Outcome(r, entity[r.entity]).status # "APPLIED", NEW e \in Entities
  PROVE  AuditExplains(e)'
<1> DEFINE res == Outcome(r, entity[r.entity])
           new == AuditRow(r, res)
           n == Len(audit)
<1>1. entity[r.entity] \in EntityRows
  BY RequestParts DEF SInv, SerialTypeOK
<1>2. res \in Results /\ new \in Records
  BY <1>1, OutcomeType DEF AuditRow, Records
<1>3. entity'[e] = entity[e]
  BY DEF Process, RowAfter, SInv, SerialTypeOK
<1>4. /\ AppliedTo(e)' = AppliedTo(e)
      /\ \A i \in AppliedTo(e) : audit'[i] = audit[i]
  <2>1. CASE Known(r)
    <3>1. audit' = Append(audit, new)
      BY <1>2, <2>1 DEF Process, AuditRowsOf, SInv, SerialTypeOK
    <3>2. /\ DOMAIN audit = 1..n /\ DOMAIN audit' = 1..(n + 1) /\ n \in Nat
          /\ \A i \in 1..n : audit'[i] = audit[i]
          /\ audit'[n + 1] = new
      BY <1>2, <3>1 DEF SInv, SerialTypeOK
    <3>3. new.result.status # "APPLIED"
      BY DEF AuditRow
    <3>4. QED BY <3>2, <3>3 DEF AppliedTo
  <2>2. CASE ~Known(r)
    <3>1. audit' = audit
      BY <2>2 DEF Process, AuditRowsOf, SInv, SerialTypeOK
    <3>2. QED BY <3>1 DEF AppliedTo
  <2>3. QED BY <2>1, <2>2
<1>5. AuditExplains(e)
  BY DEF AuditExplainsEntity
<1>6. QED BY <1>3, <1>4, <1>5 DEF AuditExplains

LEMMA SerialNextExplains ==
  SInv /\ AuditExplainsEntity /\ [SerialNext]_serialVars => AuditExplainsEntity'
<1> SUFFICES ASSUME SInv, AuditExplainsEntity, [SerialNext]_serialVars, NEW e \in Entities
             PROVE  AuditExplains(e)'
  BY DEF AuditExplainsEntity
<1>1. ASSUME NEW r \in Requests, Process(r)
      PROVE  AuditExplains(e)'
  BY <1>1, AppliedStepExplains, RefusedStepExplains
<1>2. CASE UNCHANGED <<entity, audit>>
  BY <1>2 DEF AuditExplainsEntity, AuditExplains, AppliedTo
<1>3. ASSUME NEW r \in Requests, Replay(r)
      PROVE  AuditExplains(e)'
  BY <1>2, <1>3 DEF Replay
<1>4. QED BY <1>1, <1>2, <1>3 DEF SerialNext

(* No update of an entity is lost and none is unaudited: its applied audit  *)
(* rows spell out every version it has had, each from the state before it.  *)
THEOREM AuditIsComplete == Spec => []AuditExplainsEntity
<1>1. SInv /\ [SerialNext]_serialVars => SInv'
  BY SerialNextSInv
<1>2. SerialSpec => []AuditExplainsEntity
  BY SerialInitSInv, <1>1, InitExplains, SerialNextExplains, PTL DEF SerialSpec
<1>3. QED BY <1>2, KernelIsSerializable, PTL DEF Serializable
=============================================================================
