-------------------------- MODULE KernelTransitions --------------------------
(***************************************************************************)
(* TransitionEngine.execute run by concurrent database sessions at READ    *)
(* COMMITTED.  A session looks its key up in the processed command ledger, *)
(* authorises the caller, takes the entity's row lock, runs the guards,    *)
(* applies a compare-and-set update, writes its events, audit rows and     *)
(* ledger row, and commits; any exception rolls the whole transaction      *)
(* back.  Writes are invisible to others until the commit, so they are     *)
(* kept in the session (result) and take effect in Commit.                 *)
(***************************************************************************)
EXTENDS SerialTransitions

CONSTANTS
  Sessions,   \* concurrent database sessions
  NoSession,  \* the lock is free
  NoRequest,  \* the session runs no command
  NoResult,   \* the session's command has no result yet
  MaxFaults   \* bound on rollbacks forced by a crash or an infrastructure error

Records == [request : Requests, result : Results]

ASSUME SessionAssumption ==
  /\ NoCommand \notin Records
  /\ NoSession \notin Sessions
  /\ NoRequest \notin Requests
  /\ NoResult \notin Results
  /\ MaxFaults \in Nat

VARIABLES
  pc,       \* where each session is in execute()
  cmd,      \* the request each session executes
  seen,     \* the row SELECT ... FOR UPDATE returned
  result,   \* the TransitionResult the session is about to record
  rowLock,  \* entity -> session holding its row lock
  keyLock,  \* key -> session with an uncommitted ledger row for it
  faults    \* rollbacks forced so far

sessionVars == <<pc, cmd, seen, result, rowLock, keyLock, faults>>
vars == <<entity, ledger, audit, replies, sessionVars>>

Init ==
  /\ SerialInit
  /\ pc = [s \in Sessions |-> "idle"]
  /\ cmd = [s \in Sessions |-> NoRequest]
  /\ seen = [s \in Sessions |-> NoRow]
  /\ result = [s \in Sessions |-> NoResult]
  /\ rowLock = [e \in Entities |-> NoSession]
  /\ keyLock = [k \in Keys |-> NoSession]
  /\ faults = 0

-----------------------------------------------------------------------------
(* idempotency.check: no prior command for the key. *)
Begin(s, r) ==
  /\ pc[s] = "idle"
  /\ ledger[r.key] = NoCommand
  /\ pc' = [pc EXCEPT ![s] = "checked"]
  /\ cmd' = [cmd EXCEPT ![s] = r]
  /\ UNCHANGED <<serialVars, seen, result, rowLock, keyLock, faults>>

(* idempotency.check: REPLAY.  A prior command with another request hash    *)
(* raises IdempotencyConflict and changes nothing, so it is no step here.   *)
ReplayPrior(s, r) ==
  /\ pc[s] = "idle"
  /\ Replay(r)
  /\ UNCHANGED sessionVars

Decide(s, res) ==
  /\ result' = [result EXCEPT ![s] = res]
  /\ pc' = [pc EXCEPT ![s] = "decided"]

(* The registry has no such transition. *)
RejectUnknown(s) ==
  /\ pc[s] = "checked"
  /\ ~Known(cmd[s])
  /\ Decide(s, Rejected("TRANSITION_NOT_ALLOWED", 0))
  /\ UNCHANGED <<serialVars, cmd, seen, rowLock, keyLock, faults>>

(* The authorizer refuses the caller before the row is read. *)
RejectCaller(s) ==
  /\ pc[s] = "checked"
  /\ Known(cmd[s]) /\ ~Authorized(cmd[s])
  /\ Decide(s, Rejected("CALLER_NOT_AUTHORIZED", 0))
  /\ UNCHANGED <<serialVars, cmd, seen, rowLock, keyLock, faults>>

(* Variant: the row is read without FOR UPDATE. *)
LockRowWithoutLock(s) ==
  /\ pc[s] = "checked"
  /\ Known(cmd[s]) /\ Authorized(cmd[s])
  /\ seen' = [seen EXCEPT ![s] = entity[cmd[s].entity]]
  /\ pc' = [pc EXCEPT ![s] = "locked"]
  /\ UNCHANGED <<serialVars, cmd, result, rowLock, keyLock, faults>>

(* SELECT ... FOR UPDATE: waits for the row lock and returns the committed *)
(* row; a missing row is not locked.                                       *)
LockRow(s) ==
  LET e == cmd[s].entity IN
    /\ pc[s] = "checked"
    /\ Known(cmd[s]) /\ Authorized(cmd[s])
    /\ rowLock[e] = NoSession
    /\ rowLock' = IF entity[e] = NoRow THEN rowLock
                                       ELSE [rowLock EXCEPT ![e] = s]
    /\ seen' = [seen EXCEPT ![s] = entity[e]]
    /\ pc' = [pc EXCEPT ![s] = "locked"]
    /\ UNCHANGED <<serialVars, cmd, result, keyLock, faults>>

RejectByGuard(s) ==
  /\ pc[s] = "locked"
  /\ FailedGuards(cmd[s], seen[s]) # {}
  /\ Decide(s, GuardRejection(cmd[s], seen[s]))
  /\ UNCHANGED <<serialVars, cmd, seen, rowLock, keyLock, faults>>

(* The WHERE clause of the compare-and-set UPDATE against the row as it is. *)
CasMatches(s) ==
  LET row == entity[cmd[s].entity] IN
    /\ row # NoRow
    /\ row.state = Registry[cmd[s].transition].from
    /\ row.version = seen[s].version

(* The UPDATE itself waits for the row lock and takes it. *)
ApplyTransition(s) ==
  LET e == cmd[s].entity IN
    /\ pc[s] = "locked"
    /\ FailedGuards(cmd[s], seen[s]) = {}
    /\ rowLock[e] \in {NoSession, s}
    /\ CasMatches(s)
    /\ rowLock' = [rowLock EXCEPT ![e] = s]
    /\ Decide(s, Applied(cmd[s], seen[s]))
    /\ UNCHANGED <<serialVars, cmd, seen, keyLock, faults>>

RecordConflict(s) ==
  /\ pc[s] = "locked"
  /\ FailedGuards(cmd[s], seen[s]) = {}
  /\ rowLock[cmd[s].entity] \in {NoSession, s}
  /\ ~CasMatches(s)
  /\ Decide(s, Conflict(seen[s]))
  /\ UNCHANGED <<serialVars, cmd, seen, rowLock, keyLock, faults>>

(* Variant: ON CONFLICT DO NOTHING in place of the unique constraint. *)
RecordCommandUnconstrained(s) ==
  /\ pc[s] = "decided"
  /\ pc' = [pc EXCEPT ![s] = "recorded"]
  /\ UNCHANGED <<serialVars, cmd, seen, result, rowLock, keyLock, faults>>

(* INSERT into the ledger waits for a concurrent insert of the same key. *)
RecordCommand(s) ==
  LET k == cmd[s].key IN
    /\ pc[s] = "decided"
    /\ ledger[k] = NoCommand
    /\ keyLock[k] = NoSession
    /\ keyLock' = [keyLock EXCEPT ![k] = s]
    /\ pc' = [pc EXCEPT ![s] = "recorded"]
    /\ UNCHANGED <<serialVars, cmd, seen, result, rowLock, faults>>

-----------------------------------------------------------------------------
(* The end of a transaction: the session's locks go with it. *)
EndTransaction(s) ==
  /\ pc' = [pc EXCEPT ![s] = "idle"]
  /\ cmd' = [cmd EXCEPT ![s] = NoRequest]
  /\ seen' = [seen EXCEPT ![s] = NoRow]
  /\ result' = [result EXCEPT ![s] = NoResult]
  /\ rowLock' = [e \in Entities |-> IF rowLock[e] = s THEN NoSession ELSE rowLock[e]]
  /\ keyLock' = [k \in Keys |-> IF keyLock[k] = s THEN NoSession ELSE keyLock[k]]

(* Variant: the violation is swallowed and the insert tried again. *)
DuplicateCommandRetried(s) ==
  /\ pc[s] = "decided"
  /\ ledger[cmd[s].key] # NoCommand
  /\ UNCHANGED vars

(* The ledger's unique constraint rejects a key another transaction has     *)
(* committed meanwhile; the engine asks for a rollback.                     *)
DuplicateCommand(s) ==
  /\ pc[s] = "decided"
  /\ ledger[cmd[s].key] # NoCommand
  /\ EndTransaction(s)
  /\ UNCHANGED <<serialVars, faults>>

(* Variant: the state adapter's update survives the rollback. *)
RollbackKeepingUpdate(s) ==
  /\ pc[s] # "idle"
  /\ faults < MaxFaults
  /\ faults' = faults + 1
  /\ entity' = IF result[s] # NoResult /\ result[s].status = "APPLIED"
                 THEN [entity EXCEPT ![cmd[s].entity] = Advance(cmd[s], seen[s])]
                 ELSE entity
  /\ EndTransaction(s)
  /\ UNCHANGED <<ledger, audit, replies>>

(* A crash, or an exception that becomes TransitionEngineInfrastructureError. *)
Rollback(s) ==
  /\ pc[s] # "idle"
  /\ faults < MaxFaults
  /\ faults' = faults + 1
  /\ EndTransaction(s)
  /\ UNCHANGED serialVars

Commit(s) ==
  LET r == cmd[s]
      res == result[s]
  IN
    /\ pc[s] = "recorded"
    /\ entity' = IF res.status = "APPLIED"
                   THEN [entity EXCEPT ![r.entity] = Advance(r, seen[s])]
                   ELSE entity
    /\ ledger' = [ledger EXCEPT ![r.key] = AuditRow(r, res)]
    /\ audit' = audit \o AuditRowsOf(r, res)
    /\ replies' = replies \cup {AuditRow(r, res)}
    /\ EndTransaction(s)
    /\ UNCHANGED faults

-----------------------------------------------------------------------------
Execute(s) ==
  \/ RejectUnknown(s)
  \/ RejectCaller(s)
  \/ LockRow(s)
  \/ RejectByGuard(s)
  \/ ApplyTransition(s)
  \/ RecordConflict(s)
  \/ RecordCommand(s)
  \/ DuplicateCommand(s)
  \/ Commit(s)

Next ==
  \E s \in Sessions :
    \/ \E r \in Requests : Begin(s, r) \/ ReplayPrior(s, r)
    \/ Execute(s)
    \/ Rollback(s)

(***************************************************************************)
(* A session that has begun is never abandoned while it can proceed, and   *)
(* the database grants a contended row lock or index entry to a waiter     *)
(* that keeps waiting (its lock queue is first in, first out).             *)
(***************************************************************************)
Fairness == \A s \in Sessions : SF_vars(Execute(s))

Spec == Init /\ [][Next]_vars
FairSpec == Spec /\ Fairness

-----------------------------------------------------------------------------
PCs == {"idle", "checked", "locked", "decided", "recorded"}

(* The types of the committed tables and of the sessions' private state. *)
TypeOK ==
  /\ entity \in [Entities -> EntityRows]
  /\ ledger \in [Keys -> Records \cup {NoCommand}]
  /\ audit \in Seq(Records)
  /\ replies \subseteq Records
  /\ pc \in [Sessions -> PCs]
  /\ cmd \in [Sessions -> Requests \cup {NoRequest}]
  /\ seen \in [Sessions -> EntityRows]
  /\ result \in [Sessions -> Results \cup {NoResult}]
  /\ rowLock \in [Entities -> Sessions \cup {NoSession}]
  /\ keyLock \in [Keys -> Sessions \cup {NoSession}]
  /\ faults \in 0..MaxFaults

(* A session past SELECT ... FOR UPDATE on an existing row holds that row's *)
(* lock, so what it has seen is still the committed row.                    *)
SeenIsCurrent(s) ==
  LET e == cmd[s].entity IN
    /\ seen[s] = entity[e]
    /\ entity[e] # NoRow => rowLock[e] = s

(* What a session has decided is what the command would answer if it ran    *)
(* alone now; only a session holding the key's index entry is about to      *)
(* commit.  (The inductive invariant of the proofs.)                        *)
Isolated(s) ==
  /\ pc[s] # "idle" => cmd[s] \in Requests
  /\ pc[s] = "locked" =>
       Known(cmd[s]) /\ Authorized(cmd[s]) /\ SeenIsCurrent(s)
  /\ pc[s] \in {"decided", "recorded"} =>
       /\ result[s] = Outcome(cmd[s], entity[cmd[s].entity])
       /\ Known(cmd[s]) /\ Authorized(cmd[s]) => SeenIsCurrent(s)
  /\ pc[s] = "recorded" =>
       keyLock[cmd[s].key] = s /\ ledger[cmd[s].key] = NoCommand

Isolation == \A s \in Sessions : Isolated(s)

(* However duplicates of a command race, one key leaves at most one state  *)
(* transition row, hence at most one applied transition.                   *)
AuditedOncePerKey ==
  \A i, j \in DOMAIN audit : audit[i].request.key = audit[j].request.key => i = j

AppliedTo(e) ==
  {i \in DOMAIN audit : audit[i].request.entity = e /\ audit[i].result.status = "APPLIED"}

(* The audit trail explains each entity's row: its applied rows carry the   *)
(* versions 2..version without gap or repetition, each leaves from the      *)
(* state the one before it reached, and the last one reached the row's      *)
(* state.  No update is lost and none is unaudited.                         *)
AuditExplains(e) ==
    LET row == entity[e]
        to(i) == Registry[audit[i].request.transition].to
        from(i) == Registry[audit[i].request.transition].from
    IN  IF row = NoRow THEN AppliedTo(e) = {}
        ELSE /\ {audit[i].result.version : i \in AppliedTo(e)} = 2..row.version
             /\ \A i, j \in AppliedTo(e) :
                  /\ audit[i].result.version = audit[j].result.version => i = j
                  /\ audit[j].result.version = audit[i].result.version + 1 => to(i) = from(j)
             /\ \A i \in AppliedTo(e) :
                  audit[i].result.version = row.version => to(i) = row.state

AuditExplainsEntity == \A e \in Entities : AuditExplains(e)

(* Every answer given for a key, first answer or replay, is the same. *)
AnswersAgree ==
  \A a, b \in replies : a.request.key = b.request.key => a = b

(* Every session that has begun a command ends its transaction: row locks  *)
(* and ledger index waits never leave two sessions waiting on each other.   *)
SessionsFinish ==
  \A s \in Sessions : pc[s] # "idle" ~> pc[s] = "idle"

(* The concurrent transactions are indistinguishable, in what they commit   *)
(* and answer, from commands executed one at a time at their commit.        *)
Serializable == SerialSpec
=============================================================================
