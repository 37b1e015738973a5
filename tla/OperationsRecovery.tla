------------------------- MODULE OperationsRecovery -------------------------
(***************************************************************************)
(* Incidents, their automatic containment, the recovery commands operators *)
(* give, and the publication freezes all of these set and lift.  A caller  *)
(* passes the incident as it read it; each call is one transaction.        *)
(***************************************************************************)
EXTENDS Integers, Sequences, FiniteSets

CONSTANTS
  Incidents,       \* records [type, severity, target, release]: target and release
                   \* say that the incident names one
  RecoveryKeys,    \* idempotency keys
  MaxFreezes       \* bounds the freezes ever made

VARIABLES
  incident,        \* incident -> "none" or its state
  held,            \* incident -> the state in a copy some caller holds
  contained,       \* incident -> its containment actions
  commands,        \* recovery commands, by incident and key
  freezes,         \* freezes ever made: [global, active]
  lifted           \* freezes a command lifted, with what it was shown (history)

operationsVars == <<incident, held, contained, commands, freezes, lifted>>

Active(n) == n \in DOMAIN freezes /\ freezes[n].active

ActiveFreezes(global) == {n \in DOMAIN freezes : Active(n) /\ freezes[n].global = global}

OperationsInit ==
  /\ incident = [i \in Incidents |-> "none"]
  /\ held = [i \in Incidents |-> "none"]
  /\ contained = [i \in Incidents |-> {}]
  /\ commands = {} /\ freezes = <<>> /\ lifted = {}

-----------------------------------------------------------------------------
(* Incidents *)

OpenIncident(i) ==
  /\ incident[i] = "none"
  /\ incident' = [incident EXCEPT ![i] = "OPEN"]
  /\ held' = [held EXCEPT ![i] = "OPEN"]
  /\ UNCHANGED <<contained, commands, freezes, lifted>>

ReadIncident(i) ==
  /\ held[i] # incident[i]
  /\ held' = [held EXCEPT ![i] = incident[i]]
  /\ UNCHANGED <<incident, contained, commands, freezes, lifted>>

IncidentMoves ==
  [none |-> {}, OPEN |-> {"CONTAINED", "RECOVERING", "RESOLVED"},
   CONTAINED |-> {"RECOVERING", "RESOLVED"}, RECOVERING |-> {"CONTAINED", "RESOLVED"},
   RESOLVED |-> {"CLOSED", "OPEN"}, CLOSED |-> {}]

(* The update compares the stored state with the caller's copy. *)
MoveIncident(i, to) ==
  /\ to \in IncidentMoves[held[i]] /\ incident[i] = held[i]
  /\ incident' = [incident EXCEPT ![i] = to]
  /\ UNCHANGED <<held, contained, commands, freezes, lifted>>

Ranks == [INFO |-> 0, WARNING |-> 1, ERROR |-> 2, CRITICAL |-> 3]

Least(type) == IF type = "STUCK_REGENERATION_JOB" THEN "CRITICAL" ELSE "ERROR"

Containment(i) ==
  CASE Ranks[i.severity] < Ranks[Least(i.type)] -> "NO_ACTION"
    [] Ranks[i.severity] >= Ranks[Least(i.type)] /\ i.type = "RELEASE_INTEGRITY" -> "BLOCK_RELEASE"
    [] Ranks[i.severity] >= Ranks[Least(i.type)] /\ i.type = "STUCK_REGENERATION_JOB" -> "HOLD_REGENERATION_TARGET"
    [] OTHER -> "FREEZE_PUBLICATION_TARGET"

(* Only a freeze does anything; it is refused while the target has one, and     *)
(* the refusal undoes the call.  The first outcome of an action is kept.        *)
Contain(i) ==
  LET action == Containment(i)
      status == IF (IF action = "BLOCK_RELEASE" THEN i.release ELSE i.target) THEN "APPLIED" ELSE "FAILED"
  IN /\ incident[i] # "none" /\ action # "NO_ACTION"
     /\ contained' = [contained EXCEPT ![i] =
          IF \E c \in @ : c.action = action THEN @ ELSE @ \cup {[action |-> action, status |-> status]}]
     /\ IF action = "FREEZE_PUBLICATION_TARGET" /\ i.target
        THEN /\ ActiveFreezes(FALSE) = {} /\ Len(freezes) < MaxFreezes
             /\ freezes' = Append(freezes, [global |-> FALSE, active |-> TRUE])
        ELSE UNCHANGED freezes
     /\ UNCHANGED <<incident, held, commands, lifted>>

(* A verified restore freezes everything, unless such a freeze is active. *)
PostRestore(verified) ==
  /\ verified /\ ActiveFreezes(TRUE) = {} /\ Len(freezes) < MaxFreezes
  /\ freezes' = Append(freezes, [global |-> TRUE, active |-> TRUE])
  /\ UNCHANGED <<incident, held, contained, commands, lifted>>

RestoreVerified(backup, manifestsAgree, integrity, rows, schema) ==
  backup = "VERIFIED" /\ manifestsAgree /\ integrity = "PASS" /\ rows = "PASS" /\ schema

BackupVerified(type, hashesAgree, sizesAgree, fingerprint) ==
  IF type \in {"FULL", "LOGICAL", "PHYSICAL"} /\ hashesAgree /\ sizesAgree /\ fingerprint
  THEN "VERIFIED" ELSE "FAILED"

Restore ==
  \E type \in {"FULL", "OTHER"}, agree, integrity, schema \in BOOLEAN :
    PostRestore(RestoreVerified(BackupVerified(type, agree, agree, TRUE), agree,
                                IF integrity THEN "PASS" ELSE "FAIL", "PASS", schema))

-----------------------------------------------------------------------------
(* Recovery commands *)

CommandTypes == {"RELEASE_PUBLICATION_FREEZE", "REQUEUE_REGENERATION_JOB", "RETRY_RELEASE_ITEM",
                 "REVALIDATE_PUBLICATION_TARGET", "RESOLVE_INCIDENT"}

(* Variant: the incident's state is not looked at. *)
AllowedAlways(type, state) == type \in CommandTypes /\ state # "none"

Allowed(type, state) ==
  state \in {"CONTAINED", "RECOVERING"} \cup (IF type = "RESOLVE_INCIDENT" THEN {"OPEN"} ELSE {})

Given(i, key) == {c \in commands : c.incident = i /\ c.key = key}

Record(i, key, type, n, status) ==
  commands' = commands \cup {[incident |-> i, key |-> key, type |-> type, freeze |-> n, status |-> status]}

(* A key that was used answers with its row; the same request changes nothing,   *)
(* another one raises.  A new one runs its action: the freeze named need not be  *)
(* the incident's own, and the repository given lifts one kind of freeze only.   *)
LiftFreeze(i, key, n, global) ==
  /\ Allowed("RELEASE_PUBLICATION_FREEZE", held[i]) /\ Given(i, key) = {}
  /\ LET found == n \in ActiveFreezes(global) IN
       /\ Record(i, key, "RELEASE_PUBLICATION_FREEZE", n, IF found THEN "SUCCEEDED" ELSE "NO_OP")
       /\ freezes' = IF found THEN [freezes EXCEPT ![n] = [global |-> @.global, active |-> FALSE]]
                     ELSE freezes
       /\ lifted' = IF found THEN lifted \cup {[freeze |-> n, incident |-> i, shown |-> held[i]]} ELSE lifted
  /\ UNCHANGED <<incident, held, contained>>

(* Requeueing a job and retrying an item act on other components. *)
ActElsewhere(i, key, type, status) ==
  /\ type \in CommandTypes \ {"RELEASE_PUBLICATION_FREEZE", "RESOLVE_INCIDENT"}
  /\ type = "REVALIDATE_PUBLICATION_TARGET" => status = "SUCCEEDED"
  /\ Allowed(type, held[i]) /\ Given(i, key) = {}
  /\ Record(i, key, type, 0, status)
  /\ UNCHANGED <<incident, held, contained, freezes, lifted>>

(* A stale copy makes the transition raise: the caller commits the FAILED row or *)
(* rolls it back with everything else.                                           *)
ResolveIncident(i, key) ==
  /\ Allowed("RESOLVE_INCIDENT", held[i]) /\ Given(i, key) = {}
  /\ IF incident[i] = held[i]
     THEN /\ Record(i, key, "RESOLVE_INCIDENT", 0, "SUCCEEDED")
          /\ incident' = [incident EXCEPT ![i] = "RESOLVED"]
     ELSE /\ Record(i, key, "RESOLVE_INCIDENT", 0, "FAILED")
          /\ UNCHANGED incident
  /\ UNCHANGED <<held, contained, freezes, lifted>>

OperationsNext ==
  \/ \E i \in Incidents :
       \/ OpenIncident(i) \/ ReadIncident(i) \/ Contain(i)
       \/ \E to \in {"CONTAINED", "RECOVERING", "RESOLVED", "CLOSED", "OPEN"} : MoveIncident(i, to)
       \/ \E key \in RecoveryKeys :
            \/ \E n \in 1..MaxFreezes, global \in BOOLEAN : LiftFreeze(i, key, n, global)
            \/ \E type \in CommandTypes, status \in {"SUCCEEDED", "NO_OP"} : ActElsewhere(i, key, type, status)
            \/ ResolveIncident(i, key)
  \/ Restore

OperationsSpec == OperationsInit /\ [][OperationsNext]_operationsVars

-----------------------------------------------------------------------------
(* RecoveryCommandFramework, GlobalPublicationFreezeRepository: freezes are      *)
(* lifted by commands alone, each by one that succeeded and whose caller had     *)
(* seen the incident contained or recovering, a key was used for one command,    *)
(* and at most one freeze of a kind is active.                                   *)
FreezesAccounted ==
  /\ \A n \in DOMAIN freezes :
       freezes[n].active \/ \E l \in lifted : l.freeze = n /\ l.shown \in {"CONTAINED", "RECOVERING"}
  /\ \A l \in lifted :
       Cardinality({c \in commands : c.incident = l.incident /\ c.freeze = l.freeze
                                     /\ c.status = "SUCCEEDED"}) = 1
  /\ \A i \in Incidents, key \in RecoveryKeys : Cardinality(Given(i, key)) <= 1
  /\ \A global \in BOOLEAN : Cardinality(ActiveFreezes(global)) <= 1
=============================================================================
