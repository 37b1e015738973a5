--------------------------- MODULE SnapshotCreation ---------------------------
(***************************************************************************)
(* SnapshotCreationService.create for one property: transactions (READ     *)
(* COMMITTED) that read the governed state, evaluate its requirements,     *)
(* freeze its findings, read it again, look for an equivalent snapshot,    *)
(* take the next sequence number under a row lock and insert the snapshot. *)
(* The governed state belongs to another system and changes at any time.   *)
(***************************************************************************)
EXTENDS Naturals, FiniteSets

CONSTANTS
  Clients,         \* concurrent transactions
  Variants,
  GovernedStates,  \* governed states the property may take
  Requirements,    \* the snapshot requirement registry
  None,            \* no governed state
  MaxTokens,       \* bound on changes of the governed state
  MaxFaults        \* bound on lost transactions

ASSUME SnapshotAssumption ==
  /\ \A g \in GovernedStates :
       /\ g.invalid \in BOOLEAN
       /\ \A f \in g.findings : f.ready \in BOOLEAN /\ f.audience \subseteq Variants
       /\ \A d \in g.dependencies : d.audience \subseteq Variants
  /\ \A r \in Requirements : r.required \in BOOLEAN
  /\ None \notin GovernedStates
  /\ MaxTokens \in Nat
  /\ MaxFaults \in Nat

VARIABLES
  governed,  \* the governed state
  token,     \* its source_read_token
  rows,      \* intelligence_snapshots, as committed
  counter,   \* next_sequence of snapshot_sequence_counters, as committed
  txn,       \* client -> its transaction
  faults     \* transactions lost so far

vars == <<governed, token, rows, counter, txn, faults>>

Free == [at |-> "free", state |-> None, token |-> 0, sequence |-> 0, supersedes |-> 0]

Init ==
  /\ governed \in GovernedStates
  /\ token = 0
  /\ rows = {}
  /\ counter = 1
  /\ txn = [c \in Clients |-> Free]
  /\ faults = 0

-----------------------------------------------------------------------------
(* SnapshotRequirementEngine: a requirement is met by a finding that is     *)
(* production ready and passed its QA, or by a dependency.                  *)
Satisfied(r, g) ==
  \/ \E f \in g.findings : f.id = r.subject /\ f.ready /\ f.flaw # "qa"
  \/ \E d \in g.dependencies : d.id = r.subject

Completeness(g) ==
  IF g.invalid THEN "INVALID"
  ELSE IF \E r \in Requirements : r.required /\ ~Satisfied(r, g) THEN "BLOCKED"
  ELSE IF \A r \in Requirements : Satisfied(r, g) THEN "COMPLETE" ELSE "PARTIAL_VALID"

(* FindingFreezer keeps what is production ready, and raises if QA, the     *)
(* passport or the upstream fingerprint do not bear it out.                 *)
Frozen(g) == {f \in g.findings : f.ready}

(* Variant: the evaluation's result is not looked at. *)
CapturableUnevaluated(g) == \A f \in Frozen(g) : f.flaw = "none"

Capturable(g) ==
  /\ Completeness(g) \in {"COMPLETE", "PARTIAL_VALID"}
  /\ \A f \in Frozen(g) : f.flaw = "none"

(* Variant: a finding's fingerprint does not cover its publication scope. *)
FindingEntryUnscoped(f) == [id |-> f.id, value |-> f.value, audience |-> {}]

(* What the entries of a fingerprint identify.  A finding's fingerprint     *)
(* covers its publication scope, a dependency's comes from upstream and     *)
(* does not.                                                                *)
FindingEntry(f) == [id |-> f.id, value |-> f.value, audience |-> f.audience]

DependencyEntry(d) == [id |-> d.id, value |-> d.value]

(* Variant: dependencies are left out. *)
FingerprintOfFindings(g) ==
  [findings |-> {FindingEntry(f) : f \in Frozen(g)}, dependencies |-> {}]

(* SnapshotFingerprintEngine: the semantic fingerprint of a governed state. *)
Fingerprint(g) ==
  [findings |-> {FindingEntry(f) : f \in Frozen(g)},
   dependencies |-> {DependencyEntry(d) : d \in g.dependencies}]

-----------------------------------------------------------------------------
(* The governed state changes, possibly back to what it was. *)
Govern(g) ==
  /\ token < MaxTokens
  /\ g # governed
  /\ governed' = g
  /\ token' = token + 1
  /\ UNCHANGED <<rows, counter, txn, faults>>

At(c, place) == txn[c].at = place

(* The first read; a state that is blocked, invalid or inconsistent ends    *)
(* the call without a write.                                                *)
Capture(c) ==
  /\ At(c, "free")
  /\ Capturable(governed)
  /\ txn' = [txn EXCEPT ![c] = [at |-> "captured", state |-> governed, token |-> token,
                                sequence |-> 0, supersedes |-> 0]]
  /\ UNCHANGED <<governed, token, rows, counter, faults>>

(* The second read: SOURCE_STATE_CHANGED_DURING_CAPTURE if the token moved. *)
Recheck(c) ==
  /\ At(c, "captured")
  /\ txn' = [txn EXCEPT ![c] = IF token = txn[c].token THEN [@ EXCEPT !.at = "checked"]
                               ELSE Free]
  /\ UNCHANGED <<governed, token, rows, counter, faults>>

Equivalent(g) == {r \in rows : Fingerprint(r.state) = Fingerprint(g)}

(* SnapshotDeduplicator: EXISTING_EQUIVALENT ends the call. *)
Deduplicate(c) ==
  /\ At(c, "checked")
  /\ txn' = [txn EXCEPT ![c] = IF Equivalent(txn[c].state) # {} THEN Free
                               ELSE [@ EXCEPT !.at = "new"]]
  /\ UNCHANGED <<governed, token, rows, counter, faults>>

(* Whether another transaction has written, hence locked, the counter row.  *)
CounterIsFree(c) == \A d \in Clients \ {c} : txn[d].at \notin {"allocated", "linked"}

(* allocate_sequence *)
Allocate(c) ==
  /\ At(c, "new")
  /\ CounterIsFree(c)
  /\ txn' = [txn EXCEPT ![c].at = "allocated", ![c].sequence = counter]
  /\ UNCHANGED <<governed, token, rows, counter, faults>>

(* Variant: the newest snapshot is the one of the newest governed state. *)
LatestByToken == {r \in rows : \A s \in rows : s.token <= r.token}

(* The ORDER BY of CURRENT_ACCEPTED, and of current_snapshot_view. *)
Latest == {r \in rows : \A s \in rows : s.sequence <= r.sequence}

(* current_accepted, read after the sequence number was taken. *)
ReadCurrent(c) ==
  /\ At(c, "allocated")
  /\ \E n \in IF Latest = {} THEN {0} ELSE {r.sequence : r \in Latest} :
       txn' = [txn EXCEPT ![c].at = "linked", ![c].supersedes = n]
  /\ UNCHANGED <<governed, token, rows, counter, faults>>

Snapshot(t) ==
  [sequence |-> t.sequence, state |-> t.state, token |-> t.token,
   supersedes |-> t.supersedes, completeness |-> Completeness(t.state)]

(* Variant: the fingerprint has no unique index. *)
UniqueSequence(t) == \A r \in rows : r.sequence # t.sequence

(* The unique keys of intelligence_snapshots. *)
Unique(t) ==
  \A r \in rows : r.sequence # t.sequence /\ Fingerprint(r.state) # Fingerprint(t.state)

(* Variant: the counter's increment is committed by itself. *)
PersistLeavingGap(c) ==
  /\ At(c, "linked")
  /\ rows' = IF Unique(txn[c]) THEN rows \cup {Snapshot(txn[c])} ELSE rows
  /\ counter' = txn[c].sequence + 1
  /\ txn' = [txn EXCEPT ![c] = Free]
  /\ UNCHANGED <<governed, token, faults>>

(* The inserts of the snapshot and its children, and the commit; a unique   *)
(* key that is taken rolls the transaction back, its counter included.      *)
Persist(c) ==
  /\ At(c, "linked")
  /\ IF Unique(txn[c])
     THEN rows' = rows \cup {Snapshot(txn[c])} /\ counter' = txn[c].sequence + 1
     ELSE UNCHANGED <<rows, counter>>
  /\ txn' = [txn EXCEPT ![c] = Free]
  /\ UNCHANGED <<governed, token, faults>>

(* The connection is lost and the transaction rolled back. *)
Abort(c) ==
  /\ ~At(c, "free")
  /\ faults < MaxFaults
  /\ faults' = faults + 1
  /\ txn' = [txn EXCEPT ![c] = Free]
  /\ UNCHANGED <<governed, token, rows, counter>>

-----------------------------------------------------------------------------
Create(c) ==
  \/ Capture(c) \/ Recheck(c) \/ Deduplicate(c)
  \/ Allocate(c) \/ ReadCurrent(c) \/ Persist(c)

Next ==
  \/ \E g \in GovernedStates : Govern(g)
  \/ \E c \in Clients : Create(c) \/ Abort(c)

Spec == Init /\ [][Next]_vars

(***************************************************************************)
(* Callers call create again and again, a call runs to its end, and the    *)
(* counter's row lock is granted to those that keep waiting for it.        *)
(***************************************************************************)
FairSpec == Spec /\ \A c \in Clients : SF_vars(Create(c))

-----------------------------------------------------------------------------
Snapshots ==
  [sequence : Nat \ {0}, state : GovernedStates, token : Nat, supersedes : Nat,
   completeness : {"COMPLETE", "PARTIAL_VALID"}]

Places == {"free", "captured", "checked", "new", "allocated", "linked"}

(* Only complete or partially valid states become snapshots. *)
TypeOK ==
  /\ governed \in GovernedStates
  /\ token \in 0..MaxTokens
  /\ rows \subseteq Snapshots
  /\ counter \in Nat \ {0}
  /\ txn \in [Clients -> [at : Places, state : GovernedStates \cup {None}, token : Nat,
                          sequence : Nat, supersedes : Nat]]
  /\ faults \in 0..MaxFaults

(* Sequence numbers have no gap and no repetition, whatever calls fail      *)
(* between taking one and committing.                                       *)
SequencesGapless ==
  /\ {r.sequence : r \in rows} = 1..(counter - 1)
  /\ \A r, s \in rows : r.sequence = s.sequence => r = s

(* The snapshots form one chain: each supersedes the one before it, two     *)
(* never supersede the same one.                                            *)
SupersedesChain == \A r \in rows : r.supersedes = r.sequence - 1

(* Calls that capture the same meaning at once leave one snapshot of it.    *)
OneSnapshotPerFingerprint ==
  \A r, s \in rows : Fingerprint(r.state) = Fingerprint(s.state) => r = s

(* What variant v shows, and what it rests on: the fingerprint's purpose,   *)
(* stated without it.                                                       *)
ShownTo(g, v) == {<<f.id, f.value>> : f \in {x \in g.findings : x.ready /\ v \in x.audience}}
Sources(g) == {<<d.id, d.value>> : d \in g.dependencies}

SameMeaning(g, h) == Sources(g) = Sources(h) /\ \A v \in Variants : ShownTo(g, v) = ShownTo(h, v)

(* A call that is answered with an existing snapshot gets one that shows    *)
(* every variant what the captured state shows it.                          *)
ReusedShowsCaptured ==
  [][\A c \in Clients :
       At(c, "checked") /\ Deduplicate(c) =>
         \A r \in Equivalent(txn[c].state) : SameMeaning(r.state, txn[c].state)]_vars

(* A governed state that stays and can be captured is eventually            *)
(* represented by a snapshot, whatever calls race and fail.                 *)
EventuallyRepresented ==
  \A g \in {x \in GovernedStates : Capturable(x)} :
    <>[](governed = g) => <>(\E r \in rows : SameMeaning(r.state, g))
=============================================================================
