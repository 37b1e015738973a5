----------------------------- MODULE EventOutbox -----------------------------
(***************************************************************************)
(* The transactional outbox (OutboxRepository) and the workers that drain  *)
(* it (OutboxDispatcher.dispatch_once): claim a batch under a lease,       *)
(* publish each message, mark it delivered or to be retried, reclaim what  *)
(* an expired lease left behind.  Workers crash and stall between any two  *)
(* statements, and a publisher may fail after the message got out.         *)
(***************************************************************************)
EXTENDS Naturals, FiniteSets

CONSTANTS
  Messages,        \* outbox rows, one per event and topic
  Workers,         \* dispatcher worker ids
  NoWorker,        \* claimed_by IS NULL
  MaxAttempts,     \* max_attempts of the dispatcher
  BatchSize,       \* batch_size of the dispatcher
  MaxFaults        \* bound on worker crashes and lease expiries

ASSUME OutboxAssumption ==
  /\ NoWorker \notin Workers
  /\ MaxAttempts \in Nat \ {0}
  /\ BatchSize \in Nat \ {0}
  /\ MaxFaults \in Nat

VARIABLES
  perBatch,   \* the caller commits once per dispatch_once, else per statement
  row,        \* message -> its outbox row
  batch,      \* worker -> the claims dispatch_once has still to handle
  inflight,   \* worker -> the message being published and how it went
  undo,       \* worker -> the committed rows its open transaction replaced
  claims,     \* message -> number of claims so far (history)
  reclaims,   \* message -> claims lost to an expired lease or a rollback (history)
  publishes,  \* message -> times the publisher accepted it (history)
  faults      \* crashes and lease expiries so far

vars == <<perBatch, row, batch, inflight, undo, claims, reclaims, publishes, faults>>

DeliveryStates == {"PENDING", "CLAIMED", "RETRY", "DELIVERED", "DEAD_LETTER"}

(* Leases and retry delays are kept as whether they have run out. *)
OutboxRows == [state : DeliveryStates \cup {"absent"}, attempts : 0..MaxAttempts,
               by : Workers \cup {NoWorker}, lease : {"none", "live", "expired"},
               due : BOOLEAN]

NewRow(state) ==
  [state |-> state, attempts |-> 0, by |-> NoWorker, lease |-> "none", due |-> TRUE]

Idle == [message |-> "none", outcome |-> "none"]

Init ==
  /\ perBatch \in BOOLEAN
  /\ row = [m \in Messages |-> NewRow("absent")]
  /\ batch = [w \in Workers |-> {}]
  /\ inflight = [w \in Workers |-> Idle]
  /\ undo = [w \in Workers |-> <<>>]
  /\ claims = [m \in Messages |-> 0]
  /\ reclaims = [m \in Messages |-> 0]
  /\ publishes = [m \in Messages |-> 0]
  /\ faults = 0

-----------------------------------------------------------------------------
(* Rows an open transaction has written are locked. *)
Locked(m) == \E w \in Workers : m \in DOMAIN undo[w]

Running(w) == batch[w] # {} \/ inflight[w] # Idle

(* An event's transaction commits and its outbox row with it. *)
Enqueue(m) ==
  /\ row[m].state = "absent"
  /\ row' = [row EXCEPT ![m] = NewRow("PENDING")]
  /\ UNCHANGED <<perBatch, batch, inflight, undo, claims, reclaims, publishes, faults>>

(* Variant: a claim whose lease ran out is ready as it is. *)
ReadyOrExpired(m) ==
  \/ row[m].state \in {"PENDING", "RETRY"} /\ row[m].due
  \/ row[m].state = "CLAIMED" /\ row[m].lease = "expired"

Ready(m) == row[m].state \in {"PENDING", "RETRY"} /\ row[m].due

Claimable == {m \in Messages : Ready(m) /\ ~Locked(m)}

(* CLAIM_SQL: skips locked rows and leases what it takes. *)
Claim(w) ==
  /\ ~Running(w)
  /\ \E ms \in SUBSET Claimable :
       /\ ms # {}
       /\ Cardinality(ms) <= BatchSize
       /\ Cardinality(ms) = BatchSize \/ ms = Claimable
       /\ row' = [m \in Messages |->
                    IF m \in ms
                    THEN [row[m] EXCEPT !.state = "CLAIMED", !.by = w, !.lease = "live"]
                    ELSE row[m]]
       /\ batch' = [batch EXCEPT ![w] = {[message |-> m, claim |-> claims[m] + 1] : m \in ms}]
       /\ claims' = [m \in Messages |-> IF m \in ms THEN claims[m] + 1 ELSE claims[m]]
       /\ undo' = IF perBatch
                  THEN [undo EXCEPT ![w] = [m \in ms |-> row[m]]]
                  ELSE undo
  /\ UNCHANGED <<perBatch, inflight, reclaims, publishes, faults>>

(* publisher.publish: a failure may come after the message has gone out. *)
Publish(w) ==
  /\ inflight[w] = Idle
  /\ \E c \in batch[w] :
       /\ batch' = [batch EXCEPT ![w] = @ \ {c}]
       /\ \E outcome \in {"ok", "error"} :
            inflight' = [inflight EXCEPT ![w] =
                           [message |-> c.message, claim |-> c.claim, outcome |-> outcome]]
       /\ \E sent \in {0, 1} :
            /\ inflight'[w].outcome = "ok" => sent = 1
            /\ publishes' = [publishes EXCEPT ![c.message] = @ + sent]
  /\ UNCHANGED <<perBatch, row, undo, claims, reclaims, faults>>

(* The WHERE clause of MARK_DELIVERED_SQL and MARK_RETRY_SQL. *)
Holds(w, m) == row[m].state = "CLAIMED" /\ row[m].by = w

(* The last message of the batch is marked: dispatch_once returns, and a    *)
(* caller that commits per batch commits.                                   *)
FinishMessage(w) ==
  /\ inflight' = [inflight EXCEPT ![w] = Idle]
  /\ undo' = IF batch[w] = {} THEN [undo EXCEPT ![w] = <<>>] ELSE undo

(* Variant: the mark is not limited to the claiming worker. *)
MarkDeliveredByAnyone(w) ==
  LET m == inflight[w].message IN
    /\ inflight[w].outcome = "ok"
    /\ row' = IF row[m].state = "CLAIMED"
              THEN [row EXCEPT ![m].state = "DELIVERED", ![m].lease = "none"]
              ELSE row
    /\ FinishMessage(w)
    /\ UNCHANGED <<perBatch, batch, claims, reclaims, publishes, faults>>

(* Variant: the message is marked however publishing went. *)
MarkDeliveredRegardless(w) ==
  LET m == inflight[w].message IN
    /\ inflight[w] # Idle
    /\ row' = IF Holds(w, m)
              THEN [row EXCEPT ![m].state = "DELIVERED", ![m].lease = "none"]
              ELSE row
    /\ FinishMessage(w)
    /\ UNCHANGED <<perBatch, batch, claims, reclaims, publishes, faults>>

MarkDelivered(w) ==
  LET m == inflight[w].message IN
    /\ inflight[w].outcome = "ok"
    /\ row' = IF Holds(w, m)
              THEN [row EXCEPT ![m].state = "DELIVERED", ![m].lease = "none"]
              ELSE row
    /\ FinishMessage(w)
    /\ UNCHANGED <<perBatch, batch, claims, reclaims, publishes, faults>>

(* Variant: the attempt limit is off by one. *)
RetriedRowOffByOne(r) ==
  LET exhausted == r.attempts + 1 > MaxAttempts IN
    [state |-> IF exhausted THEN "DEAD_LETTER" ELSE "RETRY",
     attempts |-> r.attempts + 1, by |-> NoWorker, lease |-> "none", due |-> exhausted]

(* What MARK_RETRY_SQL makes of a row: one more attempt, and the dead       *)
(* letter state when that was the last one allowed.                         *)
RetriedRow(r) ==
  LET exhausted == r.attempts + 1 >= MaxAttempts IN
    [state |-> IF exhausted THEN "DEAD_LETTER" ELSE "RETRY",
     attempts |-> r.attempts + 1, by |-> NoWorker, lease |-> "none", due |-> exhausted]

MarkRetry(w) ==
  LET m == inflight[w].message IN
    /\ inflight[w].outcome = "error"
    /\ row' = IF Holds(w, m) THEN [row EXCEPT ![m] = RetriedRow(@)] ELSE row
    /\ FinishMessage(w)
    /\ UNCHANGED <<perBatch, batch, claims, reclaims, publishes, faults>>

(* Variant: the reclaim forgets to make the row ready again. *)
ReclaimExpiredStuck ==
  LET ms == {m \in Messages : row[m].state = "CLAIMED" /\ row[m].lease = "expired" /\ ~Locked(m)} IN
    /\ ms # {}
    /\ row' = [m \in Messages |->
                 IF m \in ms THEN [row[m] EXCEPT !.by = NoWorker, !.lease = "none"] ELSE row[m]]
    /\ reclaims' = [m \in Messages |-> IF m \in ms THEN reclaims[m] + 1 ELSE reclaims[m]]
    /\ UNCHANGED <<perBatch, batch, inflight, undo, claims, publishes, faults>>

(* RECLAIM_EXPIRED_SQL: expired claims are ready at once; the attempt is    *)
(* not counted.                                                             *)
ReclaimExpired ==
  LET ms == {m \in Messages : row[m].state = "CLAIMED" /\ row[m].lease = "expired" /\ ~Locked(m)} IN
    /\ ms # {}
    /\ row' = [m \in Messages |->
                 IF m \in ms
                 THEN [row[m] EXCEPT !.state = "RETRY", !.by = NoWorker,
                                     !.lease = "none", !.due = TRUE]
                 ELSE row[m]]
    /\ reclaims' = [m \in Messages |-> IF m \in ms THEN reclaims[m] + 1 ELSE reclaims[m]]
    /\ UNCHANGED <<perBatch, batch, inflight, undo, claims, publishes, faults>>

-----------------------------------------------------------------------------
(* The clock. *)
RetryDelayPasses(m) ==
  /\ ~row[m].due
  /\ row' = [row EXCEPT ![m].due = TRUE]
  /\ UNCHANGED <<perBatch, batch, inflight, undo, claims, reclaims, publishes, faults>>

(* A lease runs out because its worker is gone, or is slow (a fault). *)
LeaseExpires(m) ==
  /\ row[m].lease = "live"
  /\ row' = [row EXCEPT ![m].lease = "expired"]
  /\ \/ /\ \E w \in Workers :
             /\ [message |-> m, claim |-> claims[m]] \in batch[w] \/ inflight[w].message = m
        /\ faults < MaxFaults
        /\ faults' = faults + 1
     \/ /\ \A w \in Workers :
             /\ [message |-> m, claim |-> claims[m]] \notin batch[w]
             /\ inflight[w].message # m
        /\ UNCHANGED faults
  /\ UNCHANGED <<perBatch, batch, inflight, undo, claims, reclaims, publishes>>

(* A worker dies; an open transaction is rolled back. *)
Crash(w) ==
  /\ Running(w)
  /\ faults < MaxFaults
  /\ faults' = faults + 1
  /\ row' = [m \in Messages |-> IF m \in DOMAIN undo[w] THEN undo[w][m] ELSE row[m]]
  /\ reclaims' = [m \in Messages |->
                    IF m \in DOMAIN undo[w] THEN reclaims[m] + 1 ELSE reclaims[m]]
  /\ batch' = [batch EXCEPT ![w] = {}]
  /\ inflight' = [inflight EXCEPT ![w] = Idle]
  /\ undo' = [undo EXCEPT ![w] = <<>>]
  /\ UNCHANGED <<perBatch, claims, publishes>>

-----------------------------------------------------------------------------
Dispatch(w) == Claim(w) \/ Publish(w) \/ MarkDelivered(w) \/ MarkRetry(w)

Next ==
  \/ \E m \in Messages : Enqueue(m) \/ RetryDelayPasses(m) \/ LeaseExpires(m)
  \/ \E w \in Workers : Dispatch(w) \/ Crash(w)
  \/ ReclaimExpired

(***************************************************************************)
(* Workers keep polling, time passes, and a scheduler calls                *)
(* reclaim_expired (nothing under src/ does, an operator has to).          *)
(***************************************************************************)
Fairness ==
  /\ \A w \in Workers : WF_vars(Dispatch(w))
  /\ WF_vars(ReclaimExpired)
  /\ \A m \in Messages : WF_vars(RetryDelayPasses(m)) /\ WF_vars(LeaseExpires(m))

Spec == Init /\ [][Next]_vars
FairSpec == Spec /\ Fairness

-----------------------------------------------------------------------------
(* The rows are the table's, CHECK constraints included. *)
TypeOK ==
  /\ perBatch \in BOOLEAN
  /\ row \in [Messages -> OutboxRows]
  /\ \A w \in Workers : \A c \in batch[w] : c.message \in Messages /\ c.claim \in Nat
  /\ claims \in [Messages -> Nat]
  /\ reclaims \in [Messages -> Nat]
  /\ publishes \in [Messages -> Nat]
  /\ faults \in 0..MaxFaults

(* At least once: a row that says DELIVERED was accepted by the publisher. *)
DeliveredWasPublished ==
  \A m \in Messages : row[m].state = "DELIVERED" => publishes[m] > 0

(* Every claim is accounted for: it failed and counts as an attempt, it was *)
(* lost to a lease or a crash, or it is the one that holds or settled the   *)
(* row.                                                                     *)
ClaimsAccounted ==
  \A m \in Messages :
    claims[m] = row[m].attempts + reclaims[m]
                + (IF row[m].state \in {"CLAIMED", "DELIVERED"} THEN 1 ELSE 0)

(* A message is never published more often than attempts and lost claims    *)
(* allow: retries end, in DEAD_LETTER if need be.                           *)
PublishesBounded ==
  \A m \in Messages : publishes[m] <= MaxAttempts + reclaims[m]

(* The counts of a row tell its whole history, whichever workers wrote it   *)
(* and whatever was lost between two of their statements.                   *)
RowsAreAccounted ==
  /\ TypeOK
  /\ DeliveredWasPublished
  /\ ClaimsAccounted
  /\ PublishesBounded

(* A row is settled only on the result of the claim that holds it: a worker *)
(* whose lease was reclaimed cannot settle the next worker's claim.         *)
SettledByCurrentClaim ==
  [][\A m \in Messages :
       row[m].state = "CLAIMED" /\ row'[m].state \in {"DELIVERED", "DEAD_LETTER"} =>
         \E w \in Workers :
           /\ inflight[w].message = m
           /\ inflight[w].claim = claims[m]
           /\ inflight'[w] = Idle]_vars

(* Every committed event is eventually delivered or dead-lettered, whatever *)
(* crashes and stalls (boundedly many) happen on the way.                   *)
EventuallySettled ==
  \A m \in Messages :
    row[m].state # "absent" ~> row[m].state \in {"DELIVERED", "DEAD_LETTER"}
=============================================================================
