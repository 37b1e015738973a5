----------------------- MODULE SnapshotCreationProofs -----------------------
(***************************************************************************)
(* The snapshots of a property form one gapless chain with one snapshot    *)
(* per fingerprint, for any callers, governed states and requirements.     *)
(* The argument: the lock on the counter row makes a transaction that has  *)
(* taken a sequence number the only one, so the number stays the next one  *)
(* and the predecessor it reads stays the newest until it commits.         *)
(***************************************************************************)
EXTENDS SnapshotCreation, TLAPS

Txns == [at : Places, state : GovernedStates \cup {None}, token : Nat,
         sequence : Nat, supersedes : Nat]

HoldsCounter(c) == txn[c].at \in {"allocated", "linked"}

(* What a call has read is a state that can become a snapshot. *)
CapturedIsCapturable ==
  \A c \in Clients :
    txn[c].at # "free" => txn[c].state \in GovernedStates /\ Capturable(txn[c].state)

(* A sequence number that is taken is the next one, and taken once. *)
CounterIsExclusive ==
  \A c \in Clients :
    HoldsCounter(c) =>
      /\ txn[c].sequence = counter
      /\ \A d \in Clients : HoldsCounter(d) => d = c

(* The predecessor a call has read is still the newest snapshot. *)
PredecessorIsNewest ==
  \A c \in Clients : txn[c].at = "linked" => txn[c].supersedes = counter - 1

IInv ==
  /\ TypeOK
  /\ CapturedIsCapturable
  /\ CounterIsExclusive
  /\ PredecessorIsNewest
  /\ SequencesGapless
  /\ SupersedesChain
  /\ OneSnapshotPerFingerprint
-----------------------------------------------------------------------------
LEMMA InitIInv == Init => IInv
<1> SUFFICES ASSUME Init PROVE IInv
  OBVIOUS
<1>1. TypeOK
  BY SnapshotAssumption DEF Init, Free, TypeOK, Places
<1>2. CapturedIsCapturable /\ CounterIsExclusive /\ PredecessorIsNewest
  BY DEF Init, Free, CapturedIsCapturable, CounterIsExclusive, PredecessorIsNewest, HoldsCounter
<1>3. SequencesGapless /\ SupersedesChain /\ OneSnapshotPerFingerprint
  BY DEF Init, SequencesGapless, SupersedesChain, OneSnapshotPerFingerprint
<1>4. QED BY <1>1, <1>2, <1>3 DEF IInv

(* A transaction that ends or moves on without the counter disturbs nothing. *)
LEMMA TransactionMoves ==
  ASSUME IInv, NEW c \in Clients, NEW t \in Txns,
         txn' = [txn EXCEPT ![c] = t],
         t.at # "free" => t.state \in GovernedStates /\ Capturable(t.state),
         t.at \notin {"allocated", "linked"},
         governed' \in GovernedStates, token' \in 0..MaxTokens, faults' \in 0..MaxFaults,
         UNCHANGED <<rows, counter>>
  PROVE  IInv'
<1>1. TypeOK'
  BY DEF IInv, TypeOK, Txns
<1>2. CapturedIsCapturable'
  BY DEF IInv, TypeOK, CapturedIsCapturable, Capturable, Completeness
<1>3. CounterIsExclusive' /\ PredecessorIsNewest'
  BY DEF IInv, TypeOK, CounterIsExclusive, PredecessorIsNewest, HoldsCounter
<1>4. SequencesGapless' /\ SupersedesChain' /\ OneSnapshotPerFingerprint'
  BY DEF IInv, SequencesGapless, SupersedesChain, OneSnapshotPerFingerprint
<1>5. QED BY <1>1, <1>2, <1>3, <1>4 DEF IInv

LEMMA FreeType == Free \in Txns /\ Free.at = "free"
  BY DEF Free, Txns, Places

LEMMA GovernIInv ==
  ASSUME IInv, NEW g \in GovernedStates, Govern(g)
  PROVE  IInv'
<1>1. TypeOK'
  BY SnapshotAssumption DEF IInv, TypeOK, Govern
<1>2. CapturedIsCapturable' /\ CounterIsExclusive' /\ PredecessorIsNewest'
  BY DEF Govern, IInv, CapturedIsCapturable, CounterIsExclusive, PredecessorIsNewest, HoldsCounter
<1>3. SequencesGapless' /\ SupersedesChain' /\ OneSnapshotPerFingerprint'
  BY DEF Govern, IInv, SequencesGapless, SupersedesChain, OneSnapshotPerFingerprint
<1>4. QED BY <1>1, <1>2, <1>3 DEF IInv

LEMMA CaptureIInv ==
  ASSUME IInv, NEW c \in Clients, Capture(c)
  PROVE  IInv'
<1> DEFINE t == [at |-> "captured", state |-> governed, token |-> token,
                 sequence |-> 0, supersedes |-> 0]
<1>1. txn' = [txn EXCEPT ![c] = t]
  BY DEF Capture
<1>2. governed \in GovernedStates /\ token \in Nat
  BY DEF IInv, TypeOK
<1>3. t \in Txns
  BY <1>2 DEF Txns, Places
<1>4. QED BY <1>1, <1>3, TransactionMoves DEF Capture, IInv, TypeOK

LEMMA RecheckIInv ==
  ASSUME IInv, NEW c \in Clients, Recheck(c)
  PROVE  IInv'
<1> DEFINE t == IF token = txn[c].token THEN [txn[c] EXCEPT !.at = "checked"] ELSE Free
<1>1. txn[c] \in Txns /\ txn[c].state \in GovernedStates /\ Capturable(txn[c].state)
  BY DEF IInv, TypeOK, Txns, Recheck, At, CapturedIsCapturable
<1>2. /\ t \in Txns
      /\ t.at \in {"free", "checked"}
      /\ t.at # "free" => t.state = txn[c].state
  BY <1>1, FreeType DEF Txns, Places
<1>3. txn' = [txn EXCEPT ![c] = t]
  BY DEF Recheck
<1>4. QED BY <1>1, <1>2, <1>3, TransactionMoves DEF Recheck, IInv, TypeOK

LEMMA DeduplicateIInv ==
  ASSUME IInv, NEW c \in Clients, Deduplicate(c)
  PROVE  IInv'
<1> DEFINE t == IF Equivalent(txn[c].state) # {} THEN Free ELSE [txn[c] EXCEPT !.at = "new"]
<1>1. txn[c] \in Txns /\ txn[c].state \in GovernedStates /\ Capturable(txn[c].state)
  BY DEF IInv, TypeOK, Txns, Deduplicate, At, CapturedIsCapturable
<1>2. /\ t \in Txns
      /\ t.at \in {"free", "new"}
      /\ t.at # "free" => t.state = txn[c].state
  BY <1>1, FreeType DEF Txns, Places
<1>3. txn' = [txn EXCEPT ![c] = t]
  BY DEF Deduplicate
<1>4. QED BY <1>1, <1>2, <1>3, TransactionMoves DEF Deduplicate, IInv, TypeOK

LEMMA AbortIInv ==
  ASSUME IInv, NEW c \in Clients, Abort(c)
  PROVE  IInv'
<1>1. faults' \in 0..MaxFaults
  BY SnapshotAssumption DEF Abort, IInv, TypeOK
<1>2. QED BY <1>1, FreeType, TransactionMoves DEF Abort, IInv, TypeOK

-----------------------------------------------------------------------------
(* The steps of the transaction that holds the counter. *)

LEMMA AllocateIInv ==
  ASSUME IInv, NEW c \in Clients, Allocate(c)
  PROVE  IInv'
<1>1. /\ \A d \in Clients : d # c => txn'[d] = txn[d]
      /\ txn'[c] \in Txns
      /\ txn'[c].at = "allocated" /\ txn'[c].sequence = counter
      /\ txn'[c].state = txn[c].state /\ txn[c].at = "new"
  BY DEF Allocate, At, IInv, TypeOK, Txns, Places
<1>2. TypeOK'
  BY <1>1 DEF Allocate, IInv, TypeOK, Txns
<1>3. CapturedIsCapturable'
  BY <1>1 DEF IInv, CapturedIsCapturable, Capturable, Completeness
<1>4. CounterIsExclusive' /\ PredecessorIsNewest'
  BY <1>1 DEF Allocate, CounterIsFree, IInv, CounterIsExclusive, PredecessorIsNewest, HoldsCounter
<1>5. SequencesGapless' /\ SupersedesChain' /\ OneSnapshotPerFingerprint'
  BY DEF Allocate, IInv, SequencesGapless, SupersedesChain, OneSnapshotPerFingerprint
<1>6. QED BY <1>2, <1>3, <1>4, <1>5 DEF IInv

(* The newest snapshot has the number before the counter. *)
LEMMA LatestSequence ==
  ASSUME TypeOK, SequencesGapless
  PROVE  /\ \A r \in Latest : r.sequence = counter - 1
         /\ Latest = {} => counter - 1 = 0
<1>1. counter \in Nat /\ counter > 0 /\ \A r \in rows : r.sequence \in 1..(counter - 1)
  BY DEF TypeOK, SequencesGapless
<1>2. CASE counter = 1
  BY <1>1, <1>2 DEF Latest
<1>3. CASE counter > 1
  <2>1. PICK s \in rows : s.sequence = counter - 1
    <3>1. counter - 1 \in 1..(counter - 1)
      BY <1>1, <1>3
    <3>2. QED BY <3>1 DEF SequencesGapless
  <2>2. s \in Latest
    BY <1>1, <2>1 DEF Latest
  <2>3. ASSUME NEW r \in Latest PROVE r.sequence = counter - 1
    <3>1. r \in rows /\ s.sequence <= r.sequence
      BY <2>1, <2>3 DEF Latest
    <3>2. QED BY <1>1, <2>1, <3>1
  <2>4. QED BY <2>2, <2>3
<1>4. QED BY <1>1, <1>2, <1>3

LEMMA ReadCurrentIInv ==
  ASSUME IInv, NEW c \in Clients, ReadCurrent(c)
  PROVE  IInv'
<1>1. PICK n \in IF Latest = {} THEN {0} ELSE {r.sequence : r \in Latest} :
        txn' = [txn EXCEPT ![c].at = "linked", ![c].supersedes = n]
  BY DEF ReadCurrent
<1>2. n = counter - 1 /\ n \in Nat
  <2>1. counter - 1 \in Nat
    BY DEF IInv, TypeOK
  <2>2. QED BY <1>1, <2>1, LatestSequence DEF IInv
<1>3. /\ \A d \in Clients : d # c => txn'[d] = txn[d]
      /\ txn'[c] \in Txns
      /\ txn'[c].at = "linked" /\ txn'[c].supersedes = counter - 1
      /\ txn'[c].state = txn[c].state /\ txn'[c].sequence = txn[c].sequence
      /\ txn[c].at = "allocated"
  BY <1>1, <1>2 DEF ReadCurrent, At, IInv, TypeOK, Txns, Places
<1>4. TypeOK'
  BY <1>1, <1>3 DEF ReadCurrent, IInv, TypeOK, Txns
<1>5. CapturedIsCapturable'
  BY <1>3 DEF IInv, CapturedIsCapturable, Capturable, Completeness
<1>6. CounterIsExclusive' /\ PredecessorIsNewest'
  BY <1>3 DEF ReadCurrent, IInv, CounterIsExclusive, PredecessorIsNewest, HoldsCounter
<1>7. SequencesGapless' /\ SupersedesChain' /\ OneSnapshotPerFingerprint'
  BY DEF ReadCurrent, IInv, SequencesGapless, SupersedesChain, OneSnapshotPerFingerprint
<1>8. QED BY <1>4, <1>5, <1>6, <1>7 DEF IInv

LEMMA PersistIInv ==
  ASSUME IInv, NEW c \in Clients, Persist(c)
  PROVE  IInv'
<1> DEFINE t == txn[c]
           s == Snapshot(t)
<1>1. CASE ~Unique(t)
  BY <1>1, FreeType, TransactionMoves DEF Persist, IInv, TypeOK
<1>2. CASE Unique(t)
  <2>1. /\ rows' = rows \cup {s} /\ counter' = counter + 1
        /\ t.sequence = counter /\ t.supersedes = counter - 1
        /\ counter \in Nat \ {0}
    BY <1>2 DEF Persist, At, IInv, TypeOK, CounterIsExclusive, PredecessorIsNewest, HoldsCounter
  <2>2. /\ s.sequence = counter /\ s.supersedes = counter - 1
        /\ s.state = t.state /\ s \in Snapshots
    <3>1. t \in Txns /\ t.state \in GovernedStates /\ Capturable(t.state)
      BY DEF Persist, At, IInv, TypeOK, Txns, CapturedIsCapturable
    <3>2. QED BY <2>1, <3>1 DEF Snapshot, Snapshots, Capturable, Txns
  <2>3. \A d \in Clients : txn'[d] = (IF d = c THEN Free ELSE txn[d]) /\ ~HoldsCounter(d)'
    BY FreeType DEF Persist, At, IInv, TypeOK, CounterIsExclusive, HoldsCounter
  <2>4. TypeOK'
    BY <2>1, <2>2, FreeType DEF Persist, IInv, TypeOK, Txns
  <2>5. CapturedIsCapturable'
    BY <2>3, FreeType DEF IInv, CapturedIsCapturable, Capturable, Completeness
  <2>6. CounterIsExclusive' /\ PredecessorIsNewest'
    BY <2>3 DEF CounterIsExclusive, PredecessorIsNewest, HoldsCounter
  <2>7. SequencesGapless'
    <3>1. \A r \in rows : r.sequence \in 1..(counter - 1)
      BY DEF IInv, SequencesGapless
    <3>2. {r.sequence : r \in rows'} = 1..(counter' - 1)
      <4>1. {r.sequence : r \in rows'} = {r.sequence : r \in rows} \cup {counter}
        BY <2>1, <2>2
      <4>2. (1..(counter - 1)) \cup {counter} = 1..(counter' - 1)
        BY <2>1
      <4>3. QED BY <4>1, <4>2 DEF IInv, SequencesGapless
    <3>3. \A q, r \in rows' : q.sequence = r.sequence => q = r
      BY <2>1, <2>2, <3>1 DEF IInv, SequencesGapless
    <3>4. QED BY <3>2, <3>3 DEF SequencesGapless
  <2>8. SupersedesChain'
    BY <2>1, <2>2 DEF IInv, SupersedesChain
  <2>9. OneSnapshotPerFingerprint'
    <3>1. \A r \in rows : Fingerprint(r.state) # Fingerprint(s.state)
      BY <1>2, <2>2 DEF Unique
    <3>2. \A q, r \in rows' : Fingerprint(q.state) = Fingerprint(r.state) => q = r
      BY <2>1, <3>1 DEF IInv, OneSnapshotPerFingerprint
    <3>3. QED BY <3>2 DEF OneSnapshotPerFingerprint, Fingerprint, Frozen
  <2>10. QED BY <2>4, <2>5, <2>6, <2>7, <2>8, <2>9 DEF IInv
<1>3. QED BY <1>1, <1>2

-----------------------------------------------------------------------------
LEMMA NextIInv == IInv /\ [Next]_vars => IInv'
<1> SUFFICES ASSUME IInv, [Next]_vars PROVE IInv'
  OBVIOUS
<1>1. ASSUME NEW g \in GovernedStates, Govern(g) PROVE IInv'
  BY <1>1, GovernIInv
<1>2. ASSUME NEW c \in Clients, Create(c) PROVE IInv'
  BY <1>2, CaptureIInv, RecheckIInv, DeduplicateIInv, AllocateIInv, ReadCurrentIInv, PersistIInv
     DEF Create
<1>3. ASSUME NEW c \in Clients, Abort(c) PROVE IInv'
  BY <1>3, AbortIInv
<1>4. CASE UNCHANGED vars
  <2>1. TypeOK'
    BY <1>4 DEF vars, IInv, TypeOK
  <2>2. CapturedIsCapturable' /\ CounterIsExclusive' /\ PredecessorIsNewest'
    BY <1>4 DEF vars, IInv, CapturedIsCapturable, CounterIsExclusive, PredecessorIsNewest,
                HoldsCounter
  <2>3. SequencesGapless' /\ SupersedesChain' /\ OneSnapshotPerFingerprint'
    BY <1>4 DEF vars, IInv, SequencesGapless, SupersedesChain, OneSnapshotPerFingerprint
  <2>4. QED BY <2>1, <2>2, <2>3 DEF IInv
<1>5. QED BY <1>1, <1>2, <1>3, <1>4 DEF Next

LEMMA InductiveInvariant == Spec => []IInv
  BY InitIInv, NextIInv, PTL DEF Spec

(* Only complete or partially valid states are ever stored as snapshots, in *)
(* rows of the types the tables declare.                                    *)
THEOREM SnapshotTypeCorrect == Spec => []TypeOK
<1>1. IInv => TypeOK
  BY DEF IInv
<1>2. QED BY <1>1, InductiveInvariant, PTL

(* Sequence numbers are never skipped or given twice, however calls race    *)
(* and fail between allocate_sequence and the commit.                       *)
THEOREM SequencesHaveNoGaps == Spec => []SequencesGapless
<1>1. IInv => SequencesGapless
  BY DEF IInv
<1>2. QED BY <1>1, InductiveInvariant, PTL

(* current_accepted returns the immediate predecessor to every call that    *)
(* commits: the snapshots form one chain.                                   *)
THEOREM SnapshotsFormOneChain == Spec => []SupersedesChain
<1>1. IInv => SupersedesChain
  BY DEF IInv
<1>2. QED BY <1>1, InductiveInvariant, PTL

(* Concurrent captures of one meaning leave one snapshot: the check that    *)
(* SnapshotDeduplicator makes too early is made good by the unique key.     *)
THEOREM MeaningsAreStoredOnce == Spec => []OneSnapshotPerFingerprint
<1>1. IInv => OneSnapshotPerFingerprint
  BY DEF IInv
<1>2. QED BY <1>1, InductiveInvariant, PTL

-----------------------------------------------------------------------------
(* The semantic fingerprint leaves out nothing that a variant shows or that *)
(* it rests on.                                                             *)
LEMMA FingerprintCoversMeaning ==
  ASSUME NEW g, NEW h, Fingerprint(g) = Fingerprint(h)
  PROVE  SameMeaning(g, h)
<1>1. /\ {FindingEntry(f) : f \in Frozen(g)} = {FindingEntry(f) : f \in Frozen(h)}
      /\ {DependencyEntry(d) : d \in g.dependencies} = {DependencyEntry(d) : d \in h.dependencies}
  BY DEF Fingerprint
<1>2. ASSUME NEW a, NEW b, {DependencyEntry(d) : d \in a.dependencies}
                             \subseteq {DependencyEntry(d) : d \in b.dependencies}
      PROVE  Sources(a) \subseteq Sources(b)
  <2> SUFFICES ASSUME NEW d \in a.dependencies
               PROVE  \E e \in b.dependencies : e.id = d.id /\ e.value = d.value
    BY DEF Sources
  <2>1. PICK e \in b.dependencies : DependencyEntry(e) = DependencyEntry(d)
    BY <1>2
  <2>2. QED BY <2>1 DEF DependencyEntry
<1>3. ASSUME NEW a, NEW b, NEW v, {FindingEntry(f) : f \in Frozen(a)}
                                    \subseteq {FindingEntry(f) : f \in Frozen(b)}
      PROVE  ShownTo(a, v) \subseteq ShownTo(b, v)
  <2> SUFFICES ASSUME NEW f \in a.findings, f.ready, v \in f.audience
               PROVE  \E e \in b.findings : e.ready /\ v \in e.audience /\ e.id = f.id /\ e.value = f.value
    BY DEF ShownTo
  <2>1. PICK e \in Frozen(b) : FindingEntry(e) = FindingEntry(f)
    BY <1>3 DEF Frozen
  <2>2. e.id = f.id /\ e.value = f.value /\ e.audience = f.audience
    BY <2>1 DEF FindingEntry
  <2>3. QED BY <2>2 DEF Frozen
<1>4. Sources(g) = Sources(h) /\ \A v \in Variants : ShownTo(g, v) = ShownTo(h, v)
  <2>1. Sources(g) \subseteq Sources(h) /\ Sources(h) \subseteq Sources(g)
    BY <1>1, <1>2
  <2>2. ASSUME NEW v \in Variants PROVE ShownTo(g, v) = ShownTo(h, v)
    <3>1. ShownTo(g, v) \subseteq ShownTo(h, v)
      BY <1>1, <1>3
    <3>2. ShownTo(h, v) \subseteq ShownTo(g, v)
      BY <1>1, <1>3
    <3>3. QED BY <3>1, <3>2
  <2>3. QED BY <2>1, <2>2
<1>5. QED BY <1>4 DEF SameMeaning

(* A call that the deduplicator answers with a stored snapshot gets one     *)
(* that shows every variant the findings of the captured state and rests on *)
(* the same sources (SnapshotFingerprintEngine, FindingFingerprint).        *)
THEOREM ReuseIsFaithful == Spec => ReusedShowsCaptured
<1>1. [Next]_vars =>
        [\A c \in Clients :
           At(c, "checked") /\ Deduplicate(c) =>
             \A r \in Equivalent(txn[c].state) : SameMeaning(r.state, txn[c].state)]_vars
  BY FingerprintCoversMeaning DEF Equivalent
<1>2. QED BY <1>1, PTL DEF Spec, ReusedShowsCaptured
=============================================================================
