-------------------------- MODULE EventOutboxProofs --------------------------
(***************************************************************************)
(* The outbox keeps its accounts for any messages, workers, batch sizes,   *)
(* attempts and faults.  The argument: a worker claims only when it has no *)
(* claim left to handle, so each claim is published at most once and a row *)
(* that a worker holds is held by its latest claim; and a row that an open *)
(* transaction has written is locked, so a rollback finds the counts as    *)
(* the claim left them.                                                    *)
(***************************************************************************)
EXTENDS EventOutbox, FiniteSetTheorems, TLAPS

Entries == [message : Messages, claim : Nat]

Results == [message : Messages, claim : Nat, outcome : {"ok", "error"}]

Types ==
  /\ perBatch \in BOOLEAN
  /\ row \in [Messages -> OutboxRows]
  /\ batch \in [Workers -> SUBSET Entries]
  /\ inflight \in [Workers -> Results \cup {Idle}]
  /\ DOMAIN undo = Workers
  /\ claims \in [Messages -> Nat]
  /\ reclaims \in [Messages -> Nat]
  /\ publishes \in [Messages -> Nat]
  /\ faults \in 0..MaxFaults

(* Only a dead letter has used all its attempts. *)
AttemptsLeft(r) ==
  /\ r.state # "DEAD_LETTER" => r.attempts < MaxAttempts
  /\ r.state = "absent" => r.attempts = 0

RowsHaveAttempts == \A m \in Messages : AttemptsLeft(row[m])

(* What a rollback restores, of a row whose claim is then a lost one. *)
Restorable(r, m) ==
  /\ r \in OutboxRows
  /\ r.state \in {"PENDING", "RETRY"}
  /\ AttemptsLeft(r)
  /\ claims[m] = r.attempts + reclaims[m] + 1

UndoRestores ==
  \A w \in Workers : \A m \in DOMAIN undo[w] : m \in Messages /\ Restorable(undo[w][m], m)

(* A row is locked by one transaction. *)
LocksApart == \A v, w \in Workers : \A m \in DOMAIN undo[v] : m \in DOMAIN undo[w] => v = w

OneEntryEach == \A w \in Workers : \A c, d \in batch[w] : c.message = d.message => c = d

(* What a worker still handles of a row it holds is the row's latest claim. *)
ClaimsCurrent ==
  \A w \in Workers : \A m \in Messages : Holds(w, m) =>
    /\ \A c \in batch[w] : c.message = m => c.claim = claims[m]
    /\ inflight[w] # Idle /\ inflight[w].message = m => inflight[w].claim = claims[m]

ResultsWerePublished ==
  \A w \in Workers : inflight[w].outcome = "ok" => publishes[inflight[w].message] > 0

(* The workers that have a claim of m they have not published yet. *)
Holders(m) == {w \in Workers : \E c \in batch[w] : c.message = m}

(* Each publish uses up a claim. *)
PublishesCounted ==
  \A m \in Messages :
    IsFiniteSet(Holders(m)) /\ publishes[m] + Cardinality(Holders(m)) <= claims[m]

IInv ==
  /\ Types
  /\ RowsHaveAttempts
  /\ UndoRestores
  /\ LocksApart
  /\ OneEntryEach
  /\ ClaimsCurrent
  /\ ResultsWerePublished
  /\ DeliveredWasPublished
  /\ ClaimsAccounted
  /\ PublishesCounted

-----------------------------------------------------------------------------
LEMMA InitIInv == Init => IInv
<1> SUFFICES ASSUME Init PROVE IInv
  OBVIOUS
<1>1. NewRow("absent") \in OutboxRows /\ AttemptsLeft(NewRow("absent"))
  BY OutboxAssumption DEF NewRow, OutboxRows, DeliveryStates, AttemptsLeft
<1>2. Types
  BY <1>1, OutboxAssumption DEF Init, Types
<1>3. RowsHaveAttempts
  BY <1>1 DEF Init, RowsHaveAttempts
<1>4. UndoRestores /\ LocksApart
  BY DEF Init, UndoRestores, LocksApart
<1>5. OneEntryEach /\ ResultsWerePublished
  BY DEF Init, OneEntryEach, ResultsWerePublished, Idle
<1>6. ClaimsCurrent /\ DeliveredWasPublished /\ ClaimsAccounted
  BY DEF Init, ClaimsCurrent, Holds, DeliveredWasPublished, ClaimsAccounted, NewRow
<1>7. PublishesCounted
  <2> SUFFICES ASSUME NEW m \in Messages
               PROVE  IsFiniteSet(Holders(m)) /\ publishes[m] + Cardinality(Holders(m)) <= claims[m]
    BY DEF PublishesCounted
  <2>1. Holders(m) = {}
    BY DEF Init, Holders
  <2>2. QED BY <2>1, FS_EmptySet DEF Init
<1>8. QED BY <1>2, <1>3, <1>4, <1>5, <1>6, <1>7 DEF IInv

-----------------------------------------------------------------------------
(* Time and new messages *)

(* A row rewritten under its attempts, its claim and its settlement. *)
LEMMA RowTouched ==
  ASSUME IInv, NEW m \in Messages, NEW r \in OutboxRows,
         row' = [row EXCEPT ![m] = r], r.attempts = row[m].attempts, AttemptsLeft(r),
         r.state = row[m].state \/ (r.state = "PENDING" /\ row[m].state = "absent"),
         r.state = "CLAIMED" => r.by = row[m].by,
         faults' \in 0..MaxFaults,
         UNCHANGED <<perBatch, batch, inflight, undo, claims, reclaims, publishes>>
  PROVE  IInv'
<1>1. \A n \in Messages : row'[n] = IF n = m THEN r ELSE row[n]
  BY DEF IInv, Types
<1>2. Types'
  BY DEF IInv, Types
<1>3. RowsHaveAttempts'
  BY <1>1 DEF IInv, RowsHaveAttempts
<1>4. UndoRestores' /\ LocksApart' /\ OneEntryEach' /\ ResultsWerePublished'
  BY DEF IInv, UndoRestores, Restorable, LocksApart, OneEntryEach, ResultsWerePublished
<1>5. PublishesCounted'
  BY DEF IInv, PublishesCounted, Holders
<1>6. ClaimsCurrent'
  BY <1>1 DEF IInv, ClaimsCurrent, Holds
<1>7. DeliveredWasPublished'
  BY <1>1 DEF IInv, DeliveredWasPublished
<1>8. ClaimsAccounted'
  BY <1>1 DEF IInv, ClaimsAccounted
<1>9. QED BY <1>2, <1>3, <1>4, <1>5, <1>6, <1>7, <1>8 DEF IInv

LEMMA EnqueueKeeps ==
  ASSUME IInv, NEW m \in Messages, Enqueue(m)
  PROVE  IInv'
<1> DEFINE r == NewRow("PENDING")
<1>1. r \in OutboxRows /\ AttemptsLeft(r) /\ r.attempts = 0 /\ r.state = "PENDING"
  BY OutboxAssumption DEF NewRow, OutboxRows, DeliveryStates, AttemptsLeft
<1>2. row[m].attempts = 0
  BY DEF Enqueue, IInv, RowsHaveAttempts, AttemptsLeft
<1>3. row' = [row EXCEPT ![m] = r] /\ row[m].state = "absent" /\ faults' \in 0..MaxFaults
      /\ UNCHANGED <<perBatch, batch, inflight, undo, claims, reclaims, publishes>>
  BY DEF Enqueue, IInv, Types
<1> HIDE DEF r
<1>4. QED BY <1>1, <1>2, <1>3, RowTouched

LEMMA ClockKeeps ==
  ASSUME IInv, NEW m \in Messages, RetryDelayPasses(m) \/ LeaseExpires(m)
  PROVE  IInv'
<1>1. row[m] \in OutboxRows /\ AttemptsLeft(row[m])
  BY DEF IInv, Types, RowsHaveAttempts
<1>2. CASE RetryDelayPasses(m)
  <2> DEFINE r == [row[m] EXCEPT !.due = TRUE]
  <2>1. r \in OutboxRows /\ r.attempts = row[m].attempts /\ r.state = row[m].state /\ r.by = row[m].by
    BY <1>1 DEF OutboxRows
  <2>2. row' = [row EXCEPT ![m] = r] /\ faults' \in 0..MaxFaults
        /\ UNCHANGED <<perBatch, batch, inflight, undo, claims, reclaims, publishes>>
    BY <1>2 DEF RetryDelayPasses, IInv, Types
  <2>3. AttemptsLeft(r)
    BY <1>1, <2>1 DEF AttemptsLeft
  <2> HIDE DEF r
  <2>4. QED BY <2>1, <2>2, <2>3, RowTouched
<1>3. CASE LeaseExpires(m)
  <2> DEFINE r == [row[m] EXCEPT !.lease = "expired"]
  <2>1. r \in OutboxRows /\ r.attempts = row[m].attempts /\ r.state = row[m].state /\ r.by = row[m].by
    BY <1>1 DEF OutboxRows
  <2>2. row' = [row EXCEPT ![m] = r] /\ faults' \in 0..MaxFaults
        /\ UNCHANGED <<perBatch, batch, inflight, undo, claims, reclaims, publishes>>
    BY <1>3, OutboxAssumption DEF LeaseExpires, IInv, Types
  <2>3. AttemptsLeft(r)
    BY <1>1, <2>1 DEF AttemptsLeft
  <2> HIDE DEF r
  <2>4. QED BY <2>1, <2>2, <2>3, RowTouched
<1>4. QED BY <1>2, <1>3

LEMMA ReclaimExpiredKeeps ==
  ASSUME IInv, ReclaimExpired
  PROVE  IInv'
<1> DEFINE ms == {m \in Messages : row[m].state = "CLAIMED" /\ row[m].lease = "expired" /\ ~Locked(m)}
           free(m) == [row[m] EXCEPT !.state = "RETRY", !.by = NoWorker, !.lease = "none", !.due = TRUE]
<1>1. /\ row' = [m \in Messages |-> IF m \in ms THEN free(m) ELSE row[m]]
      /\ reclaims' = [m \in Messages |-> IF m \in ms THEN reclaims[m] + 1 ELSE reclaims[m]]
      /\ UNCHANGED <<perBatch, batch, inflight, undo, claims, publishes, faults>>
  BY DEF ReclaimExpired
<1>2. \A m \in Messages :
        /\ free(m) \in OutboxRows /\ free(m).state = "RETRY" /\ free(m).attempts = row[m].attempts
        /\ free(m).by = NoWorker
  BY DEF IInv, Types, OutboxRows, DeliveryStates
<1>3. \A m \in Messages : m \in ms => row[m].state = "CLAIMED" /\ ~Locked(m)
  OBVIOUS
<1> HIDE DEF free, ms
<1>4. Types'
  BY <1>1, <1>2 DEF IInv, Types
<1>5. RowsHaveAttempts'
  BY <1>1, <1>2, <1>3 DEF IInv, RowsHaveAttempts, AttemptsLeft
<1>6. UndoRestores'
  BY <1>1, <1>3 DEF IInv, UndoRestores, Restorable, Locked
<1>7. LocksApart' /\ OneEntryEach' /\ ResultsWerePublished' /\ PublishesCounted'
  BY <1>1 DEF IInv, LocksApart, OneEntryEach, ResultsWerePublished, PublishesCounted, Holders
<1>8. ClaimsCurrent'
  BY <1>1, <1>2, <1>3 DEF IInv, ClaimsCurrent, Holds
<1>9. DeliveredWasPublished'
  BY <1>1, <1>2 DEF IInv, DeliveredWasPublished
<1>10. ClaimsAccounted'
  <2> SUFFICES ASSUME NEW m \in Messages
               PROVE  claims'[m] = row'[m].attempts + reclaims'[m]
                        + (IF row'[m].state \in {"CLAIMED", "DELIVERED"} THEN 1 ELSE 0)
    BY DEF ClaimsAccounted
  <2>1. claims[m] = row[m].attempts + reclaims[m]
                      + (IF row[m].state \in {"CLAIMED", "DELIVERED"} THEN 1 ELSE 0)
    BY DEF IInv, ClaimsAccounted
  <2>2. row[m].attempts \in Nat /\ reclaims[m] \in Nat /\ claims[m] \in Nat
    BY OutboxAssumption DEF IInv, Types, OutboxRows
  <2>3. CASE m \in ms
    BY <1>1, <1>2, <1>3, <2>1, <2>2, <2>3
  <2>4. CASE m \notin ms
    BY <1>1, <2>1, <2>4
  <2>5. QED BY <2>3, <2>4
<1>11. QED BY <1>4, <1>5, <1>6, <1>7, <1>8, <1>9, <1>10 DEF IInv

-----------------------------------------------------------------------------
(* Dispatching *)

LEMMA ClaimKeeps ==
  ASSUME IInv, NEW w \in Workers, Claim(w)
  PROVE  IInv'
<1>1. PICK ms \in SUBSET Claimable :
        /\ row' = [m \in Messages |->
                     IF m \in ms
                     THEN [row[m] EXCEPT !.state = "CLAIMED", !.by = w, !.lease = "live"]
                     ELSE row[m]]
        /\ batch' = [batch EXCEPT ![w] = {[message |-> m, claim |-> claims[m] + 1] : m \in ms}]
        /\ claims' = [m \in Messages |-> IF m \in ms THEN claims[m] + 1 ELSE claims[m]]
        /\ undo' = IF perBatch THEN [undo EXCEPT ![w] = [m \in ms |-> row[m]]] ELSE undo
  BY DEF Claim
<1> DEFINE mine(m) == [row[m] EXCEPT !.state = "CLAIMED", !.by = w, !.lease = "live"]
           entry(m) == [message |-> m, claim |-> claims[m] + 1]
<1>2. batch[w] = {} /\ inflight[w] = Idle /\ UNCHANGED <<perBatch, inflight, reclaims, publishes, faults>>
  BY DEF Claim, Running
<1>3. \A m \in ms : m \in Messages /\ row[m].state \in {"PENDING", "RETRY"} /\ ~Locked(m)
  BY DEF Claimable, Ready
<1>4. \A m \in Messages :
        /\ mine(m) \in OutboxRows /\ mine(m).state = "CLAIMED" /\ mine(m).attempts = row[m].attempts
        /\ mine(m).by = w
  BY DEF IInv, Types, OutboxRows, DeliveryStates
<1>5. \A m \in Messages : row'[m] = IF m \in ms THEN mine(m) ELSE row[m]
  BY <1>1
<1>6. \A m \in Messages : entry(m) \in Entries /\ entry(m).message = m /\ entry(m).claim = claims[m] + 1
  BY DEF IInv, Types, Entries
<1>7. /\ \A v \in Workers : v # w => batch'[v] = batch[v]
      /\ \A c \in batch'[w] : c.message \in ms /\ c = entry(c.message)
      /\ \A m \in ms : entry(m) \in batch'[w]
  <2>1. batch'[w] = {entry(m) : m \in ms} /\ \A v \in Workers : v # w => batch'[v] = batch[v]
    BY <1>1 DEF IInv, Types
  <2> HIDE DEF entry
  <2>2. ASSUME NEW c \in batch'[w] PROVE c.message \in ms /\ c = entry(c.message)
    <3>1. PICK m \in ms : c = entry(m)
      BY <2>1
    <3>2. QED BY <1>3, <1>6, <3>1
  <2>3. QED BY <2>1, <2>2
<1>8. \A m \in Messages : claims'[m] = IF m \in ms THEN claims[m] + 1 ELSE claims[m]
  BY <1>1
<1>9. row' \in [Messages -> OutboxRows] /\ claims' \in [Messages -> Nat]
  <2>1. row' \in [Messages -> OutboxRows]
    BY <1>1, <1>4, <1>5 DEF IInv, Types
  <2>2. claims' = [m \in Messages |-> IF m \in ms THEN claims[m] + 1 ELSE claims[m]]
    BY <1>1
  <2>3. claims' \in [Messages -> Nat]
    BY <2>2 DEF IInv, Types
  <2>4. QED BY <2>1, <2>3
<1>10. batch' \in [Workers -> SUBSET Entries]
  <2>1. {entry(m) : m \in ms} \in SUBSET Entries
    BY <1>3, <1>6
  <2>2. QED BY <1>1, <2>1 DEF IInv, Types
<1> HIDE DEF mine, entry
<1>11. Types'
  BY <1>1, <1>2, <1>9, <1>10 DEF IInv, Types
<1>12. RowsHaveAttempts'
  BY <1>3, <1>4, <1>5 DEF IInv, RowsHaveAttempts, AttemptsLeft
<1>13. \A v \in Workers : \A m \in DOMAIN undo'[v] :
         \/ v = w /\ m \in ms /\ undo'[v][m] = row[m]
         \/ m \notin ms /\ m \in DOMAIN undo[v] /\ undo'[v][m] = undo[v][m]
  BY <1>1, <1>3 DEF IInv, Types, Locked
<1>14. UndoRestores'
  <2> SUFFICES ASSUME NEW v \in Workers, NEW m \in DOMAIN undo'[v]
               PROVE  m \in Messages /\ Restorable(undo[v][m], m)'
    BY DEF UndoRestores
  <2>1. CASE v = w /\ m \in ms /\ undo'[v][m] = row[m]
    <3>1. m \in Messages /\ row[m] \in OutboxRows /\ row[m].state \in {"PENDING", "RETRY"}
          /\ AttemptsLeft(row[m])
      BY <1>3, <2>1 DEF IInv, Types, RowsHaveAttempts
    <3>2. claims[m] = row[m].attempts + reclaims[m] /\ row[m].attempts \in Nat /\ reclaims[m] \in Nat
      BY <3>1, OutboxAssumption DEF IInv, Types, ClaimsAccounted, OutboxRows
    <3>3. claims'[m] = row[m].attempts + reclaims'[m] + 1
      BY <1>2, <1>8, <2>1, <3>1, <3>2
    <3>4. QED BY <2>1, <3>1, <3>3 DEF Restorable, AttemptsLeft
  <2>2. CASE m \notin ms /\ m \in DOMAIN undo[v] /\ undo'[v][m] = undo[v][m]
    BY <1>2, <1>8, <2>2 DEF IInv, UndoRestores, Restorable, AttemptsLeft
  <2>3. QED BY <1>13, <2>1, <2>2
<1>15. LocksApart'
  BY <1>13 DEF IInv, LocksApart
<1>16. OneEntryEach'
  BY <1>3, <1>6, <1>7 DEF IInv, OneEntryEach
<1>17. ResultsWerePublished'
  BY <1>2 DEF IInv, ResultsWerePublished
<1>18. DeliveredWasPublished'
  BY <1>2, <1>4, <1>5 DEF IInv, DeliveredWasPublished
<1>19. ClaimsCurrent'
  <2> SUFFICES ASSUME NEW v \in Workers, NEW m \in Messages, Holds(v, m)'
               PROVE  /\ \A c \in batch'[v] : c.message = m => c.claim = claims'[m]
                      /\ inflight'[v] # Idle /\ inflight'[v].message = m => inflight'[v].claim = claims'[m]
    BY DEF ClaimsCurrent
  <2>1. CASE m \in ms
    <3>1. v = w
      BY <1>4, <1>5, <2>1 DEF Holds
    <3>2. QED BY <1>2, <1>3, <1>6, <1>7, <1>8, <2>1, <3>1
  <2>2. CASE m \notin ms
    <3>1. Holds(v, m)
      BY <1>5, <2>2 DEF Holds
    <3>2. \A c \in batch'[v] : c.message = m => c \in batch[v]
      BY <1>3, <1>6, <1>7, <2>2
    <3>3. QED BY <1>2, <1>8, <2>2, <3>1, <3>2 DEF IInv, ClaimsCurrent
  <2>3. QED BY <2>1, <2>2
<1>20. ClaimsAccounted'
  <2> SUFFICES ASSUME NEW m \in Messages
               PROVE  claims'[m] = row'[m].attempts + reclaims'[m]
                        + (IF row'[m].state \in {"CLAIMED", "DELIVERED"} THEN 1 ELSE 0)
    BY DEF ClaimsAccounted
  <2>1. claims[m] = row[m].attempts + reclaims[m]
                      + (IF row[m].state \in {"CLAIMED", "DELIVERED"} THEN 1 ELSE 0)
    BY DEF IInv, ClaimsAccounted
  <2>2. row[m].attempts \in Nat /\ reclaims[m] \in Nat /\ claims[m] \in Nat
    BY OutboxAssumption DEF IInv, Types, OutboxRows
  <2>3. CASE m \in ms
    BY <1>2, <1>3, <1>4, <1>5, <1>8, <2>1, <2>2, <2>3
  <2>4. CASE m \notin ms
    BY <1>2, <1>5, <1>8, <2>1, <2>4
  <2>5. QED BY <2>3, <2>4
<1>21. PublishesCounted'
  <2> SUFFICES ASSUME NEW m \in Messages
               PROVE  /\ IsFiniteSet(Holders(m)')
                      /\ publishes'[m] + Cardinality(Holders(m)') <= claims'[m]
    BY DEF PublishesCounted
  <2>1. /\ IsFiniteSet(Holders(m)) /\ publishes[m] + Cardinality(Holders(m)) <= claims[m]
        /\ publishes[m] \in Nat /\ claims[m] \in Nat
    BY DEF IInv, Types, PublishesCounted
  <2>2. w \notin Holders(m)
    BY <1>2 DEF Holders
  <2>3. CASE m \in ms
    <3>1. Holders(m)' = Holders(m) \cup {w}
      BY <1>3, <1>6, <1>7, <2>3 DEF Holders
    <3>2. IsFiniteSet(Holders(m)') /\ Cardinality(Holders(m)') = Cardinality(Holders(m)) + 1
      BY <2>1, <2>2, <3>1, FS_AddElement
    <3>3. Cardinality(Holders(m)) \in Nat
      BY <2>1, FS_CardinalityType
    <3>4. QED BY <1>2, <1>8, <2>1, <2>3, <3>2, <3>3
  <2>4. CASE m \notin ms
    <3>1. Holders(m)' = Holders(m)
      BY <1>2, <1>3, <1>6, <1>7, <2>4 DEF Holders
    <3>2. QED BY <1>2, <1>8, <2>1, <2>4, <3>1
  <2>5. QED BY <2>3, <2>4
<1>22. QED BY <1>11, <1>12, <1>14, <1>15, <1>16, <1>17, <1>18, <1>19, <1>20, <1>21 DEF IInv

LEMMA PublishKeeps ==
  ASSUME IInv, NEW w \in Workers, Publish(w)
  PROVE  IInv'
<1>1. PICK c \in batch[w], outcome \in {"ok", "error"}, sent \in {0, 1} :
        /\ batch' = [batch EXCEPT ![w] = batch[w] \ {c}]
        /\ inflight' = [inflight EXCEPT ![w] =
                          [message |-> c.message, claim |-> c.claim, outcome |-> outcome]]
        /\ outcome = "ok" => sent = 1
        /\ publishes' = [publishes EXCEPT ![c.message] = publishes[c.message] + sent]
  <2>1. PICK c \in batch[w] :
          /\ batch' = [batch EXCEPT ![w] = batch[w] \ {c}]
          /\ \E outcome \in {"ok", "error"} :
               inflight' = [inflight EXCEPT ![w] =
                              [message |-> c.message, claim |-> c.claim, outcome |-> outcome]]
          /\ \E sent \in {0, 1} :
               /\ inflight'[w].outcome = "ok" => sent = 1
               /\ publishes' = [publishes EXCEPT ![c.message] = publishes[c.message] + sent]
    BY DEF Publish
  <2>2. PICK outcome \in {"ok", "error"} :
          inflight' = [inflight EXCEPT ![w] =
                         [message |-> c.message, claim |-> c.claim, outcome |-> outcome]]
    BY <2>1
  <2>3. inflight'[w].outcome = outcome
    BY <2>2 DEF IInv, Types
  <2>4. PICK sent \in {0, 1} :
          /\ outcome = "ok" => sent = 1
          /\ publishes' = [publishes EXCEPT ![c.message] = publishes[c.message] + sent]
    BY <2>1, <2>3
  <2>5. QED BY <2>1, <2>2, <2>4
<1> DEFINE m == c.message
           result == [message |-> m, claim |-> c.claim, outcome |-> outcome]
<1>2. UNCHANGED <<perBatch, row, undo, claims, reclaims, faults>>
  BY DEF Publish
<1>3. c \in Entries /\ m \in Messages /\ c.claim \in Nat
  BY DEF IInv, Types, Entries
<1>4. result \in Results /\ result.message = m /\ result.claim = c.claim /\ result.outcome = outcome
  BY <1>3 DEF Results
<1> HIDE DEF result
<1>5. \A v \in Workers : /\ batch'[v] = IF v = w THEN batch[w] \ {c} ELSE batch[v]
                         /\ inflight'[v] = IF v = w THEN result ELSE inflight[v]
  BY <1>1 DEF IInv, Types, result
<1>6. publishes[m] \in Nat /\ \A n \in Messages : publishes[n] \in Nat /\
        publishes'[n] = IF n = m THEN publishes[m] + sent ELSE publishes[n]
  BY <1>1, <1>3 DEF IInv, Types
<1>7. Types'
  <2>1. batch' \in [Workers -> SUBSET Entries]
    BY <1>1 DEF IInv, Types
  <2>2. inflight' \in [Workers -> Results \cup {Idle}]
    BY <1>1, <1>4 DEF IInv, Types, result
  <2>3. publishes' \in [Messages -> Nat]
    BY <1>1, <1>3 DEF IInv, Types
  <2>4. QED BY <1>2, <2>1, <2>2, <2>3 DEF IInv, Types
<1>8. RowsHaveAttempts' /\ UndoRestores' /\ LocksApart' /\ ClaimsAccounted'
  BY <1>2 DEF IInv, RowsHaveAttempts, UndoRestores, Restorable, LocksApart, ClaimsAccounted
<1>9. OneEntryEach'
  BY <1>5 DEF IInv, OneEntryEach
<1>10. ClaimsCurrent'
  <2> SUFFICES ASSUME NEW v \in Workers, NEW n \in Messages, Holds(v, n)
               PROVE  /\ \A d \in batch'[v] : d.message = n => d.claim = claims[n]
                      /\ inflight'[v] # Idle /\ inflight'[v].message = n => inflight'[v].claim = claims[n]
    BY <1>2 DEF ClaimsCurrent, Holds
  <2>1. /\ \A d \in batch[v] : d.message = n => d.claim = claims[n]
        /\ inflight[v] # Idle /\ inflight[v].message = n => inflight[v].claim = claims[n]
    BY DEF IInv, ClaimsCurrent
  <2>2. QED BY <1>4, <1>5, <2>1
<1>11. ResultsWerePublished'
  <2> SUFFICES ASSUME NEW v \in Workers, inflight'[v].outcome = "ok"
               PROVE  publishes'[inflight'[v].message] > 0
    BY DEF ResultsWerePublished
  <2>1. CASE v = w
    BY <1>1, <1>3, <1>4, <1>5, <1>6, <2>1
  <2>2. CASE v # w
    <3>1. inflight[v].outcome = "ok" /\ inflight'[v] = inflight[v]
      BY <1>5, <2>2
    <3>2. inflight[v].message \in Messages /\ publishes[inflight[v].message] > 0
      BY <3>1 DEF IInv, Types, ResultsWerePublished, Results, Idle
    <3>3. QED BY <1>6, <3>1, <3>2
  <2>3. QED BY <2>1, <2>2
<1>12. DeliveredWasPublished'
  BY <1>2, <1>6 DEF IInv, DeliveredWasPublished
<1>13. PublishesCounted'
  <2> SUFFICES ASSUME NEW n \in Messages
               PROVE  /\ IsFiniteSet(Holders(n)')
                      /\ publishes'[n] + Cardinality(Holders(n)') <= claims'[n]
    BY DEF PublishesCounted
  <2>1. /\ IsFiniteSet(Holders(n)) /\ publishes[n] + Cardinality(Holders(n)) <= claims[n]
        /\ claims[n] \in Nat /\ Cardinality(Holders(n)) \in Nat
    BY FS_CardinalityType DEF IInv, Types, PublishesCounted
  <2>2. CASE n = m
    <3>1. w \in Holders(n) /\ Holders(n)' = Holders(n) \ {w}
      BY <1>5, <2>2 DEF IInv, OneEntryEach, Holders
    <3>2. IsFiniteSet(Holders(n)') /\ Cardinality(Holders(n)') = Cardinality(Holders(n)) - 1
      BY <2>1, <3>1, FS_RemoveElement
    <3>3. QED BY <1>2, <1>6, <2>1, <2>2, <3>2
  <2>3. CASE n # m
    <3>1. Holders(n)' = Holders(n)
      BY <1>5, <2>3 DEF Holders
    <3>2. QED BY <1>2, <1>6, <2>1, <2>3, <3>1
  <2>4. QED BY <2>2, <2>3
<1>14. QED BY <1>7, <1>8, <1>9, <1>10, <1>11, <1>12, <1>13 DEF IInv

(* A mark settles or frees the row its worker holds, and ends the batch with its last message. *)
LEMMA MarkKeeps ==
  ASSUME IInv, NEW w \in Workers, inflight[w] # Idle, NEW r,
         row' = IF Holds(w, inflight[w].message)
                THEN [row EXCEPT ![inflight[w].message] = r] ELSE row,
         Holds(w, inflight[w].message) =>
           /\ r \in OutboxRows /\ AttemptsLeft(r) /\ r.state \in {"DELIVERED", "RETRY", "DEAD_LETTER"}
           /\ r.state = "DELIVERED" =>
                publishes[inflight[w].message] > 0 /\ r.attempts = row[inflight[w].message].attempts
           /\ r.state # "DELIVERED" => r.attempts = row[inflight[w].message].attempts + 1,
         FinishMessage(w),
         UNCHANGED <<perBatch, batch, claims, reclaims, publishes, faults>>
  PROVE  IInv'
<1> DEFINE m == inflight[w].message
<1>1. m \in Messages
  BY DEF IInv, Types, Results
<1>2. \A v \in Workers : inflight'[v] = IF v = w THEN Idle ELSE inflight[v]
  BY DEF IInv, Types, FinishMessage
<1>3. \A v \in Workers : \A n \in DOMAIN undo'[v] : n \in DOMAIN undo[v] /\ undo'[v][n] = undo[v][n]
  BY DEF IInv, Types, FinishMessage
<1>4. \A n \in Messages : row'[n] = row[n] \/ (n = m /\ row'[n] = r /\ Holds(w, m))
  BY <1>1 DEF IInv, Types
<1>5. Types'
  BY <1>1 DEF IInv, Types, FinishMessage
<1>6. RowsHaveAttempts'
  BY <1>4 DEF IInv, RowsHaveAttempts
<1>7. UndoRestores' /\ LocksApart'
  BY <1>3 DEF IInv, UndoRestores, Restorable, LocksApart
<1>8. OneEntryEach' /\ PublishesCounted'
  BY DEF IInv, OneEntryEach, PublishesCounted, Holders
<1>9. ClaimsCurrent'
  BY <1>2, <1>4 DEF IInv, ClaimsCurrent, Holds
<1>10. ResultsWerePublished'
  BY <1>2 DEF IInv, ResultsWerePublished, Idle
<1>11. DeliveredWasPublished'
  BY <1>4 DEF IInv, DeliveredWasPublished
<1>12. ClaimsAccounted'
  <2> SUFFICES ASSUME NEW n \in Messages
               PROVE  claims[n] = row'[n].attempts + reclaims[n]
                        + (IF row'[n].state \in {"CLAIMED", "DELIVERED"} THEN 1 ELSE 0)
    BY DEF ClaimsAccounted
  <2>1. claims[n] = row[n].attempts + reclaims[n]
                      + (IF row[n].state \in {"CLAIMED", "DELIVERED"} THEN 1 ELSE 0)
    BY DEF IInv, ClaimsAccounted
  <2>2. row[n].attempts \in Nat /\ reclaims[n] \in Nat /\ claims[n] \in Nat
    BY OutboxAssumption DEF IInv, Types, OutboxRows
  <2>3. CASE row'[n] = row[n]
    BY <2>1, <2>3
  <2>4. CASE n = m /\ row'[n] = r /\ Holds(w, m)
    <3>1. row[n].state = "CLAIMED" /\ r.state \in {"DELIVERED", "RETRY", "DEAD_LETTER"}
      BY <2>4 DEF Holds
    <3>2. CASE r.state = "DELIVERED"
      BY <2>1, <2>2, <2>4, <3>1, <3>2
    <3>3. CASE r.state # "DELIVERED"
      BY <2>1, <2>2, <2>4, <3>1, <3>3
    <3>4. QED BY <3>2, <3>3
  <2>5. QED BY <1>4, <2>3, <2>4
<1>13. QED BY <1>5, <1>6, <1>7, <1>8, <1>9, <1>10, <1>11, <1>12 DEF IInv

LEMMA MarkDeliveredKeeps ==
  ASSUME IInv, NEW w \in Workers, MarkDelivered(w)
  PROVE  IInv'
<1> DEFINE m == inflight[w].message
           r == [row[m] EXCEPT !.state = "DELIVERED", !.lease = "none"]
<1>1. inflight[w] # Idle /\ inflight[w].outcome = "ok" /\ FinishMessage(w)
      /\ UNCHANGED <<perBatch, batch, claims, reclaims, publishes, faults>>
  BY DEF MarkDelivered, Idle
<1>2. m \in Messages /\ row[m] \in OutboxRows /\ AttemptsLeft(row[m]) /\ publishes[m] > 0
  BY <1>1 DEF IInv, Types, Results, RowsHaveAttempts, ResultsWerePublished
<1>3. row' = IF Holds(w, m) THEN [row EXCEPT ![m] = r] ELSE row
  BY <1>2 DEF MarkDelivered, IInv, Types
<1>4. r \in OutboxRows /\ r.state = "DELIVERED" /\ r.attempts = row[m].attempts
  BY <1>2 DEF OutboxRows, DeliveryStates
<1>5. Holds(w, m) => AttemptsLeft(r)
  BY <1>2, <1>4 DEF Holds, AttemptsLeft
<1> HIDE DEF r
<1>6. QED BY <1>1, <1>2, <1>3, <1>4, <1>5, MarkKeeps

LEMMA MarkRetryKeeps ==
  ASSUME IInv, NEW w \in Workers, MarkRetry(w)
  PROVE  IInv'
<1> DEFINE m == inflight[w].message
           r == RetriedRow(row[m])
<1>1. inflight[w] # Idle /\ FinishMessage(w)
      /\ UNCHANGED <<perBatch, batch, claims, reclaims, publishes, faults>>
  BY DEF MarkRetry, Idle
<1>2. m \in Messages /\ row[m] \in OutboxRows /\ AttemptsLeft(row[m])
  BY <1>1 DEF IInv, Types, Results, RowsHaveAttempts
<1>3. row' = IF Holds(w, m) THEN [row EXCEPT ![m] = r] ELSE row
  BY DEF MarkRetry
<1>4. r.attempts = row[m].attempts + 1
      /\ r.state = IF row[m].attempts + 1 >= MaxAttempts THEN "DEAD_LETTER" ELSE "RETRY"
  BY DEF RetriedRow
<1>5. Holds(w, m) => r \in OutboxRows /\ AttemptsLeft(r)
  <2> SUFFICES ASSUME Holds(w, m) PROVE r \in OutboxRows /\ AttemptsLeft(r)
    OBVIOUS
  <2>1. row[m].attempts \in Nat /\ row[m].attempts < MaxAttempts /\ MaxAttempts \in Nat
    BY <1>2, OutboxAssumption DEF Holds, AttemptsLeft, OutboxRows
  <2>2. r \in OutboxRows
    BY <2>1 DEF RetriedRow, OutboxRows, DeliveryStates
  <2>3. QED BY <1>4, <2>1, <2>2 DEF AttemptsLeft
<1> HIDE DEF r
<1>6. QED BY <1>1, <1>2, <1>3, <1>4, <1>5, MarkKeeps

-----------------------------------------------------------------------------
(* A crash takes the claims of a worker with it; a rollback counts them as lost. *)
LEMMA CrashKeeps ==
  ASSUME IInv, NEW w \in Workers, Crash(w)
  PROVE  IInv'
<1> DEFINE back == DOMAIN undo[w]
<1>1. /\ row' = [m \in Messages |-> IF m \in back THEN undo[w][m] ELSE row[m]]
      /\ reclaims' = [m \in Messages |-> IF m \in back THEN reclaims[m] + 1 ELSE reclaims[m]]
      /\ batch' = [batch EXCEPT ![w] = {}]
      /\ inflight' = [inflight EXCEPT ![w] = Idle]
      /\ undo' = [undo EXCEPT ![w] = <<>>]
      /\ faults < MaxFaults /\ faults' = faults + 1
      /\ UNCHANGED <<perBatch, claims, publishes>>
  BY DEF Crash
<1>2. \A m \in back : m \in Messages /\ Restorable(undo[w][m], m)
  BY DEF IInv, UndoRestores
<1>3. /\ \A v \in Workers : /\ batch'[v] = IF v = w THEN {} ELSE batch[v]
                            /\ inflight'[v] = IF v = w THEN Idle ELSE inflight[v]
      /\ \A v \in Workers : v # w => undo'[v] = undo[v]
      /\ undo'[w] = <<>>
  BY <1>1 DEF IInv, Types
<1>4. \A m \in Messages : row'[m] = IF m \in back THEN undo[w][m] ELSE row[m]
  BY <1>1
<1>5. \A m \in Messages : reclaims'[m] = IF m \in back THEN reclaims[m] + 1 ELSE reclaims[m]
  BY <1>1
<1>6. Types'
  <2>1. row' \in [Messages -> OutboxRows]
    BY <1>1, <1>2 DEF IInv, Types, Restorable
  <2>2. reclaims' \in [Messages -> Nat]
    BY <1>1 DEF IInv, Types
  <2>3. batch' \in [Workers -> SUBSET Entries] /\ inflight' \in [Workers -> Results \cup {Idle}]
        /\ DOMAIN undo' = Workers
    BY <1>1 DEF IInv, Types
  <2>4. faults' \in 0..MaxFaults
    BY <1>1, OutboxAssumption DEF IInv, Types
  <2>5. QED BY <1>1, <2>1, <2>2, <2>3, <2>4 DEF IInv, Types
<1>7. RowsHaveAttempts'
  BY <1>2, <1>4 DEF IInv, RowsHaveAttempts, Restorable
<1>8. \A v \in Workers : \A m \in DOMAIN undo'[v] : v # w /\ m \in DOMAIN undo[v] /\ m \notin back
  BY <1>3 DEF IInv, LocksApart
<1>9. UndoRestores'
  <2> SUFFICES ASSUME NEW v \in Workers, NEW m \in DOMAIN undo'[v]
               PROVE  m \in Messages /\ Restorable(undo[v][m], m)'
    BY DEF UndoRestores
  <2>1. v # w /\ m \in DOMAIN undo[v] /\ m \notin back
    BY <1>8
  <2>2. m \in Messages /\ Restorable(undo[v][m], m)
    BY <2>1 DEF IInv, UndoRestores
  <2>3. undo'[v] = undo[v] /\ claims' = claims /\ reclaims'[m] = reclaims[m]
    BY <1>1, <1>3, <1>5, <2>1, <2>2
  <2>4. QED BY <2>2, <2>3 DEF Restorable
<1>10. LocksApart'
  BY <1>3 DEF IInv, LocksApart
<1>11. OneEntryEach'
  BY <1>3 DEF IInv, OneEntryEach
<1>12. ClaimsCurrent'
  BY <1>1, <1>2, <1>3, <1>4 DEF IInv, ClaimsCurrent, Holds, Restorable
<1>13. ResultsWerePublished'
  BY <1>1, <1>3 DEF IInv, ResultsWerePublished, Idle
<1>14. DeliveredWasPublished'
  BY <1>1, <1>2, <1>4 DEF IInv, DeliveredWasPublished, Restorable
<1>15. ClaimsAccounted'
  <2> SUFFICES ASSUME NEW m \in Messages
               PROVE  claims'[m] = row'[m].attempts + reclaims'[m]
                        + (IF row'[m].state \in {"CLAIMED", "DELIVERED"} THEN 1 ELSE 0)
    BY DEF ClaimsAccounted
  <2>1. CASE m \in back
    <3>1. claims[m] = row'[m].attempts + reclaims[m] + 1 /\ row'[m].state \in {"PENDING", "RETRY"}
      BY <1>2, <1>4, <2>1 DEF Restorable
    <3>2. row'[m].attempts \in Nat /\ reclaims[m] \in Nat
      BY <1>6, OutboxAssumption DEF IInv, Types, OutboxRows
    <3>3. QED BY <1>1, <1>5, <2>1, <3>1, <3>2
  <2>2. CASE m \notin back
    BY <1>1, <1>4, <1>5, <2>2 DEF IInv, ClaimsAccounted
  <2>3. QED BY <2>1, <2>2
<1>16. PublishesCounted'
  <2> SUFFICES ASSUME NEW m \in Messages
               PROVE  /\ IsFiniteSet(Holders(m)')
                      /\ publishes'[m] + Cardinality(Holders(m)') <= claims'[m]
    BY DEF PublishesCounted
  <2>1. /\ IsFiniteSet(Holders(m)) /\ publishes[m] + Cardinality(Holders(m)) <= claims[m]
        /\ claims[m] \in Nat /\ publishes[m] \in Nat
    BY DEF IInv, Types, PublishesCounted
  <2>2. Holders(m)' \subseteq Holders(m)
    BY <1>3 DEF Holders
  <2>3. IsFiniteSet(Holders(m)') /\ Cardinality(Holders(m)') <= Cardinality(Holders(m))
    BY <2>1, <2>2, FS_Subset
  <2>4. Cardinality(Holders(m)') \in Nat /\ Cardinality(Holders(m)) \in Nat
    BY <2>1, <2>3, FS_CardinalityType
  <2>5. QED BY <1>1, <2>1, <2>3, <2>4
<1>17. QED BY <1>6, <1>7, <1>9, <1>10, <1>11, <1>12, <1>13, <1>14, <1>15, <1>16 DEF IInv

LEMMA NextKeeps == IInv /\ [Next]_vars => IInv'
<1> SUFFICES ASSUME IInv, [Next]_vars PROVE IInv'
  OBVIOUS
<1>1. ASSUME NEW m \in Messages, Enqueue(m) \/ RetryDelayPasses(m) \/ LeaseExpires(m) PROVE IInv'
  BY <1>1, EnqueueKeeps, ClockKeeps
<1>2. ASSUME NEW w \in Workers, Dispatch(w) \/ Crash(w) PROVE IInv'
  BY <1>2, ClaimKeeps, PublishKeeps, MarkDeliveredKeeps, MarkRetryKeeps, CrashKeeps DEF Dispatch
<1>3. CASE ReclaimExpired
  BY <1>3, ReclaimExpiredKeeps
<1>4. CASE UNCHANGED vars
  <2>1. Types' /\ RowsHaveAttempts' /\ UndoRestores' /\ LocksApart' /\ OneEntryEach'
    BY <1>4 DEF vars, IInv, Types, RowsHaveAttempts, UndoRestores, Restorable, LocksApart, OneEntryEach
  <2>2. ClaimsCurrent' /\ ResultsWerePublished' /\ DeliveredWasPublished' /\ ClaimsAccounted'
    BY <1>4 DEF vars, IInv, ClaimsCurrent, Holds, ResultsWerePublished, DeliveredWasPublished,
                ClaimsAccounted
  <2>3. PublishesCounted'
    BY <1>4 DEF vars, IInv, PublishesCounted, Holders
  <2>4. QED BY <2>1, <2>2, <2>3 DEF IInv
<1>5. QED BY <1>1, <1>2, <1>3, <1>4 DEF Next

(* The inductive invariant holds in every behaviour. *)
LEMMA Inductive == Spec => []IInv
<1>1. Init => IInv
  BY InitIInv
<1>2. IInv /\ [Next]_vars => IInv'
  BY NextKeeps
<1>3. QED BY <1>1, <1>2, PTL DEF Spec

-----------------------------------------------------------------------------
LEMMA PublishesStayBounded == IInv => PublishesBounded
<1> SUFFICES ASSUME IInv, NEW m \in Messages PROVE publishes[m] <= MaxAttempts + reclaims[m]
  BY DEF PublishesBounded
<1>1. /\ publishes[m] \in Nat /\ claims[m] \in Nat /\ reclaims[m] \in Nat
      /\ row[m].attempts \in 0..MaxAttempts /\ MaxAttempts \in Nat
  BY OutboxAssumption DEF IInv, Types, OutboxRows
<1>2. publishes[m] <= claims[m]
  <2>1. IsFiniteSet(Holders(m)) /\ publishes[m] + Cardinality(Holders(m)) <= claims[m]
    BY DEF IInv, PublishesCounted
  <2>2. Cardinality(Holders(m)) \in Nat
    BY <2>1, FS_CardinalityType
  <2>3. QED BY <1>1, <2>1, <2>2
<1>3. row[m].state # "DEAD_LETTER" => row[m].attempts < MaxAttempts
  BY DEF IInv, RowsHaveAttempts, AttemptsLeft
<1>4. claims[m] = row[m].attempts + reclaims[m]
                    + (IF row[m].state \in {"CLAIMED", "DELIVERED"} THEN 1 ELSE 0)
  BY DEF IInv, ClaimsAccounted
<1>5. CASE row[m].state \in {"CLAIMED", "DELIVERED"}
  BY <1>1, <1>2, <1>3, <1>4, <1>5
<1>6. CASE row[m].state \notin {"CLAIMED", "DELIVERED"}
  BY <1>1, <1>2, <1>4, <1>6
<1>7. QED BY <1>5, <1>6

LEMMA Accounted == IInv => RowsAreAccounted
<1> SUFFICES ASSUME IInv PROVE RowsAreAccounted
  OBVIOUS
<1>1. TypeOK
  BY DEF IInv, Types, TypeOK, Entries
<1>2. QED BY <1>1, PublishesStayBounded DEF IInv, RowsAreAccounted

(* Settled(m): a step takes the claimed row m to a final state. *)
Settled(m) == row[m].state = "CLAIMED" /\ row'[m].state \in {"DELIVERED", "DEAD_LETTER"}

LEMMA SettledByHolder ==
  ASSUME IInv, Next, NEW m \in Messages, Settled(m)
  PROVE  \E w \in Workers : /\ inflight[w].message = m
                            /\ inflight[w].claim = claims[m]
                            /\ inflight'[w] = Idle
<1>1. row'[m] # row[m] /\ row[m] \in OutboxRows
  BY DEF Settled, IInv, Types
<1>2. ASSUME NEW n \in Messages, Enqueue(n) \/ RetryDelayPasses(n) \/ LeaseExpires(n) PROVE FALSE
  <2>1. CASE Enqueue(n)
    BY <2>1 DEF Enqueue, NewRow, Settled, IInv, Types
  <2>2. CASE RetryDelayPasses(n)
    BY <1>1, <2>2 DEF RetryDelayPasses, Settled, IInv, Types, OutboxRows
  <2>3. CASE LeaseExpires(n)
    BY <1>1, <2>3 DEF LeaseExpires, Settled, IInv, Types, OutboxRows
  <2>4. QED BY <1>2, <2>1, <2>2, <2>3
<1>3. ~ReclaimExpired
  <2> SUFFICES ASSUME ReclaimExpired PROVE FALSE
    OBVIOUS
  <2>1. row'[m] = row[m] \/ row'[m] = [row[m] EXCEPT !.state = "RETRY", !.by = NoWorker,
                                                    !.lease = "none", !.due = TRUE]
    BY DEF ReclaimExpired
  <2>2. QED BY <1>1, <2>1 DEF Settled, OutboxRows
<1>4. ASSUME NEW w \in Workers, Dispatch(w) \/ Crash(w)
      PROVE  /\ inflight[w].message = m
             /\ inflight[w].claim = claims[m]
             /\ inflight'[w] = Idle
  <2>1. ~Claim(w)
    <3> SUFFICES ASSUME Claim(w) PROVE FALSE
      OBVIOUS
    <3>1. row'[m] = row[m] \/ row'[m] = [row[m] EXCEPT !.state = "CLAIMED", !.by = w, !.lease = "live"]
      BY DEF Claim
    <3>2. QED BY <1>1, <3>1 DEF Settled, OutboxRows
  <2>2. ~Publish(w)
    BY <1>1 DEF Publish
  <2>3. ~Crash(w)
    <3> SUFFICES ASSUME Crash(w) PROVE FALSE
      OBVIOUS
    <3>1. row'[m] = IF m \in DOMAIN undo[w] THEN undo[w][m] ELSE row[m]
      BY DEF Crash
    <3>2. QED BY <1>1, <3>1 DEF Settled, IInv, UndoRestores, Restorable
  <2>4. MarkDelivered(w) \/ MarkRetry(w)
    BY <1>4, <2>1, <2>2, <2>3 DEF Dispatch
  <2>5. inflight[w] # Idle /\ inflight'[w] = Idle
    BY <2>4 DEF MarkDelivered, MarkRetry, FinishMessage, Idle, IInv, Types
  <2>6. Holds(w, inflight[w].message) /\ inflight[w].message = m
    BY <1>1, <2>4 DEF MarkDelivered, MarkRetry, IInv, Types
  <2>7. QED BY <2>5, <2>6 DEF IInv, ClaimsCurrent
<1>5. QED BY <1>2, <1>3, <1>4 DEF Next

-----------------------------------------------------------------------------
(* The counts of a row tell its history, whichever workers wrote it and      *)
(* whatever leases and transactions were lost: DELIVERED rows were accepted  *)
(* by the publisher, claims are attempts, losses or the current one, and     *)
(* publishes end with the attempts (mark_retry, reclaim_expired, rollback).  *)
THEOREM RowsStayAccounted == Spec => []RowsAreAccounted
BY Inductive, Accounted, PTL

(* The WHERE clauses of the two marks name the worker, not the claim; that   *)
(* is enough, because a worker never claims with an older claim in hand.     *)
THEOREM OnlyTheCurrentClaimSettles == Spec => SettledByCurrentClaim
<1>1. IInv /\ [Next]_vars =>
        [\A m \in Messages :
           row[m].state = "CLAIMED" /\ row'[m].state \in {"DELIVERED", "DEAD_LETTER"} =>
             \E w \in Workers :
               /\ inflight[w].message = m
               /\ inflight[w].claim = claims[m]
               /\ inflight'[w] = Idle]_vars
  BY SettledByHolder DEF Settled
<1>2. QED BY <1>1, Inductive, PTL DEF Spec, SettledByCurrentClaim
=============================================================================
