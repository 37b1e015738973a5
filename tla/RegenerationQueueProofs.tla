----------------------- MODULE RegenerationQueueProofs -----------------------
(***************************************************************************)
(* The regeneration queue keeps its promises for any callers, workers,     *)
(* jobs, snapshots, attempts and faults.  The argument: from the claim on  *)
(* a worker's row stays CLAIMED or RUNNING under its name, because nothing *)
(* but its own closing update takes it out of these states, so a closing   *)
(* update always finds its row; and a job is orphaned only after a fault   *)
(* that has doomed it.                                                     *)
(***************************************************************************)
EXTENDS RegenerationQueue, FiniteSetTheorems, TLAPS

Places == {"claimed", "started", "building", "stale", "SUCCEEDED", "NO_OP", "RETRY", "BLOCK", "FAIL"}

Runs == [at : Places, job : Jobs, attempt : Nat, since : 0..MaxSnapshot]

Requests == [at : {"decided"}, command : Commands, answer : Answers]

Types ==
  /\ current \in 0..MaxSnapshot
  /\ job \in [Jobs -> JobRows]
  /\ ledger \in [Commands -> Answers]
  /\ caller \in [Callers -> Requests \cup {AtRest}]
  /\ worker \in [Workers -> Runs \cup {Polling}]
  /\ faults \in 0..MaxFaults

(* What a row says of its own history, while n is the current snapshot. *)
RowOK(r, n) ==
  /\ r.state \in {"CLAIMED", "RUNNING"} <=> r.by # NoWorker
  /\ r.state = "absent" => r = Absent
  /\ r.state # "absent" => r.target \in 1..n
  /\ r.attempts <= MaxAttempts
  /\ r.state = "QUEUED" => r.attempts = 0
  /\ r.state = "RETRY_WAIT" => r.attempts < MaxAttempts

RowsOK == \A j \in Jobs : RowOK(job[j], current)

(* A caller writes a job only if it found its target to be the current snapshot. *)
RequestOK(x, n) ==
  x # AtRest =>
    /\ x.answer.status # "NEW"
    /\ x.answer.status = "QUEUED" => x.answer.job \in Jobs /\ x.answer.target \in 1..n

RequestsOK == \A q \in Callers : RequestOK(caller[q], current)

(* A worker past the freshness check saw its target fresh after its claim. *)
WasFresh(x, target, n) ==
  \E s \in x.since..n : s \in Snapshots /\ Fingerprint[s] = Fingerprint[target]

(* The row of a worker that is past the claim. *)
HoldsRow(w, x, r, n) ==
  /\ r.by = w
  /\ r.state = (IF x.at = "claimed" THEN "CLAIMED" ELSE "RUNNING")
  /\ x.attempt = r.attempts
  /\ x.since <= n
  /\ x.at \notin {"claimed", "started", "stale"} => WasFresh(x, r.target, n)

WorkersHoldRows ==
  \A w \in Workers : worker[w] # Polling => HoldsRow(w, worker[w], job[worker[w].job], current)

ActiveAlone ==
  \A j, k \in Jobs :
    (/\ job[j].state \in ActiveStates /\ job[k].state \in ActiveStates
     /\ job[j].target = job[k].target) => j = k

(* A claimed job whose lease has run out is lost as soon as its worker looks at *)
(* the lease; one without a worker is lost already.                             *)
Doomed(j) ==
  /\ job[j].state \in {"CLAIMED", "RUNNING"}
  /\ ~job[j].leased \/ \A w \in Workers : worker[w].job # j

DoomedJobs == {j \in Jobs : Doomed(j)}

DoomNeedsFaults == IsFiniteSet(DoomedJobs) /\ Cardinality(DoomedJobs) <= faults

IInv ==
  /\ Types
  /\ RowsOK
  /\ RequestsOK
  /\ WorkersHoldRows
  /\ ActiveAlone
  /\ JobsMatchLedger
  /\ DoomNeedsFaults

-----------------------------------------------------------------------------
(* What an invariant says does not depend on snapshots that come later. *)
LEMMA LaterSnapshotsKeep ==
  ASSUME NEW n \in Nat, NEW m \in Nat, n <= m
  PROVE  /\ \A r : RowOK(r, n) => RowOK(r, m)
         /\ \A x : RequestOK(x, n) => RequestOK(x, m)
         /\ \A w, r : \A x \in Runs : HoldsRow(w, x, r, n) => HoldsRow(w, x, r, m)
<1>1. 1..n \subseteq 1..m
  OBVIOUS
<1>2. \A r : RowOK(r, n) => RowOK(r, m)
  BY <1>1 DEF RowOK
<1>3. \A x : RequestOK(x, n) => RequestOK(x, m)
  BY <1>1 DEF RequestOK
<1>4. ASSUME NEW w, NEW r, NEW x \in Runs, HoldsRow(w, x, r, n)
      PROVE  HoldsRow(w, x, r, m)
  <2>1. x.since \in Nat /\ x.since..n \subseteq x.since..m
    BY RegenerationAssumption DEF Runs
  <2>2. WasFresh(x, r.target, n) => WasFresh(x, r.target, m)
    BY <2>1 DEF WasFresh
  <2>3. x.since <= n => x.since <= m
    BY <2>1
  <2>4. QED BY <1>4, <2>2, <2>3 DEF HoldsRow
<1>5. QED BY <1>2, <1>3, <1>4

(* A set with a bound may gain an element when the bound grows by one. *)
LEMMA BoundGrows ==
  ASSUME NEW S, NEW T, NEW x, NEW n \in Nat,
         IsFiniteSet(S), Cardinality(S) <= n, T \subseteq S \cup {x}
  PROVE  IsFiniteSet(T) /\ Cardinality(T) <= n + 1
<1> DEFINE U == S \cup {x}
<1>0. IsFiniteSet(U) /\ Cardinality(U) = (IF x \in S THEN Cardinality(S) ELSE Cardinality(S) + 1)
  BY FS_AddElement
<1>. Cardinality(S) \in Nat
  BY FS_CardinalityType
<1>1. IsFiniteSet(U) /\ Cardinality(U) <= n + 1
  BY <1>0
<1>2. IsFiniteSet(T) /\ Cardinality(T) <= Cardinality(U)
  BY <1>1, FS_Subset
<1>3. Cardinality(T) \in Nat /\ Cardinality(U) \in Nat
  BY <1>1, <1>2, FS_CardinalityType
<1>4. QED BY <1>1, <1>2, <1>3

LEMMA DoomShrinks ==
  ASSUME DoomNeedsFaults, DoomedJobs' \subseteq DoomedJobs, faults' = faults, faults \in Nat
  PROVE  DoomNeedsFaults'
<1>1. IsFiniteSet(DoomedJobs') /\ Cardinality(DoomedJobs') <= Cardinality(DoomedJobs)
  BY FS_Subset DEF DoomNeedsFaults
<1>2. Cardinality(DoomedJobs') \in Nat /\ Cardinality(DoomedJobs) \in Nat
  BY <1>1, FS_CardinalityType DEF DoomNeedsFaults
<1>3. QED BY <1>1, <1>2 DEF DoomNeedsFaults

LEMMA DoomGrows ==
  ASSUME DoomNeedsFaults, NEW j, DoomedJobs' \subseteq DoomedJobs \cup {j},
         faults' = faults + 1, faults \in Nat
  PROVE  DoomNeedsFaults'
BY BoundGrows DEF DoomNeedsFaults

LEMMA InitIInv == Init => IInv
<1> SUFFICES ASSUME Init PROVE IInv
  OBVIOUS
<1>1. Types
  BY RegenerationAssumption
     DEF Init, Types, Absent, JobRows, NewAnswer, Answers, ActiveStates, FinalStates
<1>2. RowsOK
  BY RegenerationAssumption DEF Init, RowsOK, RowOK, Absent
<1>3. RequestsOK /\ WorkersHoldRows
  BY DEF Init, RequestsOK, RequestOK, WorkersHoldRows
<1>4. ActiveAlone
  BY DEF Init, ActiveAlone, Absent, ActiveStates
<1>5. JobsMatchLedger
  BY RegenerationAssumption DEF Init, JobsMatchLedger, Absent, NewAnswer
<1>6. DoomNeedsFaults
  <2>1. DoomedJobs = {}
    BY DEF Init, DoomedJobs, Doomed, Absent
  <2>2. QED BY <2>1, FS_EmptySet DEF Init, DoomNeedsFaults
<1>7. QED BY <1>1, <1>2, <1>3, <1>4, <1>5, <1>6 DEF IInv

-----------------------------------------------------------------------------
(* Callers *)

LEMMA CallerMoves ==
  ASSUME IInv, NEW q \in Callers, NEW x \in Requests \cup {AtRest}, RequestOK(x, current),
         caller' = [caller EXCEPT ![q] = x],
         UNCHANGED <<current, job, ledger, worker, faults>>
  PROVE  IInv'
<1>1. Types'
  BY DEF IInv, Types
<1>2. RequestsOK'
  BY DEF IInv, Types, RequestsOK
<1>3. RowsOK' /\ WorkersHoldRows' /\ ActiveAlone' /\ JobsMatchLedger'
  BY DEF IInv, RowsOK, WorkersHoldRows, ActiveAlone, JobsMatchLedger
<1>4. DoomNeedsFaults'
  BY DEF IInv, DoomNeedsFaults, DoomedJobs, Doomed
<1>5. QED BY <1>1, <1>2, <1>3, <1>4 DEF IInv

LEMMA DecideKeeps ==
  ASSUME IInv, NEW q \in Callers, Decide(q)
  PROVE  IInv'
<1>1. PICK c \in Commands : \E a \in Answer(c) :
        caller' = [caller EXCEPT ![q] = [at |-> "decided", command |-> c, answer |-> a]]
  BY DEF Decide
<1>2. PICK a \in Answer(c) :
        caller' = [caller EXCEPT ![q] = [at |-> "decided", command |-> c, answer |-> a]]
  BY <1>1
<1> DEFINE target == IF TargetOf[c] = 0 THEN current ELSE TargetOf[c]
           x == [at |-> "decided", command |-> c, answer |-> a]
<1>3. current \in 0..MaxSnapshot /\ target \in 0..MaxSnapshot /\ MaxSnapshot \in Nat
  BY RegenerationAssumption DEF IInv, Types
<1>4. /\ a \in Answers /\ a.status # "NEW"
      /\ a.status = "QUEUED" => a.job \in Jobs /\ a.target = target /\ target # 0 /\ target = current
  <2>1. CASE target = 0 \/ target # current
    <3>1. a = [status |-> "BLOCKED", target |-> target, job |-> NoJob]
      BY <1>2, <2>1 DEF Answer
    <3>2. QED BY <1>3, <3>1 DEF Answers
  <2>2. CASE ~(target = 0 \/ target # current) /\ ActiveFor(target) # {}
    <3>1. PICK j \in ActiveFor(target) : a = [status |-> "EXISTING_ACTIVE_JOB", target |-> target, job |-> j]
      BY <1>2, <2>2 DEF Answer
    <3>2. QED BY <1>3, <3>1 DEF Answers, ActiveFor
  <2>3. CASE ~(target = 0 \/ target # current) /\ ActiveFor(target) = {}
    <3>1. PICK j \in Jobs : a = [status |-> "QUEUED", target |-> target, job |-> j]
      BY <1>2, <2>3 DEF Answer
    <3>2. QED BY <1>3, <2>3, <3>1 DEF Answers
  <2>4. QED BY <2>1, <2>2, <2>3
<1>5. x \in Requests
  BY <1>4 DEF Requests
<1>6. RequestOK(x, current)
  BY <1>3, <1>4 DEF RequestOK
<1>7. UNCHANGED <<current, job, ledger, worker, faults>>
  BY DEF Decide
<1> HIDE DEF x
<1>8. QED BY <1>2, <1>5, <1>6, <1>7, CallerMoves DEF x

LEMMA AbortQueueKeeps ==
  ASSUME IInv, NEW q \in Callers, AbortQueue(q)
  PROVE  IInv'
BY CallerMoves DEF AbortQueue, RequestOK

LEMMA CommitQueueKeeps ==
  ASSUME IInv, NEW q \in Callers, CommitQueue(q)
  PROVE  IInv'
<1> DEFINE c == caller[q].command
           a == caller[q].answer
           new == [Absent EXCEPT !.state = "QUEUED", !.command = c, !.target = a.target]
<1>1. caller[q] \in Requests /\ c \in Commands /\ a \in Answers /\ a.status # "NEW"
  BY DEF IInv, Types, CommitQueue, AtRest, Requests, RequestsOK, RequestOK
<1>2. a.status = "QUEUED" => a.job \in Jobs /\ a.target \in 1..current
  BY <1>1 DEF IInv, Types, RequestsOK, RequestOK, CommitQueue, AtRest
<1>3. /\ caller' = [caller EXCEPT ![q] = AtRest] /\ ledger' = [ledger EXCEPT ![c] = a]
      /\ UNCHANGED <<current, worker, faults>> /\ ledger[c].status = "NEW"
  BY DEF CommitQueue, LedgerTakes
<1>4. a.status = "QUEUED" =>
        job' = [job EXCEPT ![a.job] = new] /\ job[a.job].state = "absent" /\ ActiveFor(a.target) = {}
  BY DEF CommitQueue, KeyIsFree
<1>5. a.status # "QUEUED" => job' = job
  BY DEF CommitQueue
<1>6. a.status = "QUEUED" =>
        /\ new \in JobRows /\ new.state = "QUEUED" /\ new.command = c /\ new.target = a.target
        /\ RowOK(new, current)
  <2>1. a.target \in 0..MaxSnapshot
    BY <1>1 DEF Answers
  <2>2. /\ new.state = "QUEUED" /\ new.command = c /\ new.target = a.target /\ new.attempts = 0
        /\ new.by = NoWorker
    BY DEF Absent
  <2>3. new \in JobRows
    BY <1>1, <2>1 DEF Absent, JobRows, ActiveStates
  <2> HIDE DEF new, c, a
  <2>4. a.status = "QUEUED" => RowOK(new, current)
    <3>1. 0 <= MaxAttempts
      BY RegenerationAssumption
    <3>2. QED BY <1>2, <2>2, <3>1 DEF RowOK
  <2>5. QED BY <2>2, <2>3, <2>4
<1> HIDE DEF new
<1>7. Types'
  BY <1>1, <1>2, <1>3, <1>4, <1>5, <1>6 DEF IInv, Types
<1>8. RowsOK'
  BY <1>2, <1>3, <1>4, <1>5, <1>6 DEF IInv, Types, RowsOK
<1>9. RequestsOK'
  BY <1>3 DEF IInv, Types, RequestsOK, RequestOK
<1>10. \A w \in Workers : worker[w] # Polling => worker[w] \in Runs /\ job'[worker[w].job] = job[worker[w].job]
  <2> SUFFICES ASSUME NEW w \in Workers, worker[w] # Polling
               PROVE  worker[w] \in Runs /\ job'[worker[w].job] = job[worker[w].job]
    OBVIOUS
  <2>1. worker[w] \in Runs /\ worker[w].job \in Jobs
    BY DEF IInv, Types, Runs
  <2>2. job[worker[w].job].state # "absent"
    BY <2>1 DEF IInv, WorkersHoldRows, HoldsRow
  <2>3. QED BY <1>2, <1>4, <1>5, <2>1, <2>2 DEF IInv, Types
<1>11. WorkersHoldRows'
  BY <1>3, <1>10 DEF IInv, WorkersHoldRows
<1>12. ActiveAlone'
  <2>1. CASE a.status # "QUEUED"
    BY <1>5, <2>1 DEF IInv, ActiveAlone
  <2>2. CASE a.status = "QUEUED"
    BY <1>2, <1>4, <1>6, <2>2 DEF IInv, Types, ActiveAlone, ActiveFor
  <2>3. QED BY <2>1, <2>2
<1>13. JobsMatchLedger'
  <2> SUFFICES ASSUME NEW d \in Commands
               PROVE  {j \in Jobs : job'[j].command = d} =
                        (IF ledger'[d].status = "QUEUED" THEN {ledger'[d].job} ELSE {})
    BY DEF JobsMatchLedger
  <2>1. {j \in Jobs : job[j].command = d} = (IF ledger[d].status = "QUEUED" THEN {ledger[d].job} ELSE {})
    BY DEF IInv, JobsMatchLedger
  <2>2. CASE a.status # "QUEUED"
    <3>1. CASE d = c
      BY <1>1, <1>3, <1>5, <2>1, <2>2, <3>1 DEF IInv, Types
    <3>2. CASE d # c
      BY <1>1, <1>3, <1>5, <2>1, <2>2, <3>2 DEF IInv, Types
    <3>3. QED BY <3>1, <3>2
  <2>3. CASE a.status = "QUEUED"
    <3>1. job[a.job].command = NoCommand
      BY <1>2, <1>4, <2>3 DEF IInv, RowsOK, RowOK, Absent
    <3>2. \A j \in Jobs : job'[j].command = (IF j = a.job THEN c ELSE job[j].command)
      BY <1>2, <1>4, <1>6, <2>3 DEF IInv, Types
    <3>3. CASE d = c
      <4>1. {j \in Jobs : job[j].command = c} = {}
        BY <1>3, <2>1, <3>3
      <4>2. ledger'[d] = a
        BY <1>1, <1>3, <3>3 DEF IInv, Types
      <4>3. QED BY <1>2, <2>3, <3>2, <3>3, <4>1, <4>2
    <3>4. CASE d # c
      <4>1. ledger'[d] = ledger[d]
        BY <1>3, <3>4 DEF IInv, Types
      <4>2. {j \in Jobs : job'[j].command = d} = {j \in Jobs : job[j].command = d}
        BY <3>1, <3>2, <3>4, RegenerationAssumption
      <4>3. QED BY <2>1, <4>1, <4>2
    <3>5. QED BY <3>3, <3>4
  <2>4. QED BY <2>2, <2>3
<1>14. DoomNeedsFaults'
  <2>1. DoomedJobs' \subseteq DoomedJobs
    BY <1>2, <1>3, <1>4, <1>5, <1>6 DEF IInv, Types, DoomedJobs, Doomed
  <2>2. QED BY <1>3, <2>1, DoomShrinks, RegenerationAssumption DEF IInv, Types
<1>15. QED BY <1>7, <1>8, <1>9, <1>11, <1>12, <1>13, <1>14 DEF IInv

LEMMA NewSnapshotKeeps ==
  ASSUME IInv, NewSnapshot
  PROVE  IInv'
<1>1. current \in Nat /\ current' \in Nat /\ current' = current + 1 /\ current' \in 0..MaxSnapshot
  BY RegenerationAssumption DEF IInv, Types, NewSnapshot
<1>2. UNCHANGED <<job, ledger, caller, worker, faults>>
  BY DEF NewSnapshot
<1>3. Types'
  BY <1>1, <1>2 DEF IInv, Types
<1>4. RowsOK' /\ RequestsOK'
  BY <1>1, <1>2, LaterSnapshotsKeep DEF IInv, RowsOK, RequestsOK
<1>5. WorkersHoldRows'
  <2> SUFFICES ASSUME NEW w \in Workers, worker[w] # Polling
               PROVE  HoldsRow(w, worker[w], job[worker[w].job], current')
    BY <1>2 DEF WorkersHoldRows
  <2>1. worker[w] \in Runs /\ HoldsRow(w, worker[w], job[worker[w].job], current)
    BY DEF IInv, Types, WorkersHoldRows
  <2>2. QED BY <1>1, <2>1, LaterSnapshotsKeep
<1>6. ActiveAlone' /\ JobsMatchLedger'
  BY <1>2 DEF IInv, ActiveAlone, JobsMatchLedger
<1>7. DoomNeedsFaults'
  BY <1>2 DEF IInv, DoomNeedsFaults, DoomedJobs, Doomed
<1>8. QED BY <1>3, <1>4, <1>5, <1>6, <1>7 DEF IInv

-----------------------------------------------------------------------------
(* Workers *)

(* A worker that is not polling has a claimed or running row to itself. *)
LEMMA WorkersWork ==
  ASSUME IInv, NEW w \in Workers, worker[w] # Polling
  PROVE  /\ worker[w] \in Runs /\ worker[w].job \in Jobs
         /\ job[worker[w].job] \in JobRows /\ RowOK(job[worker[w].job], current)
         /\ HoldsRow(w, worker[w], job[worker[w].job], current)
         /\ \A v \in Workers : worker[v].job = worker[w].job => v = w
<1>1. worker[w] \in Runs /\ worker[w].job \in Jobs
  BY DEF IInv, Types, Runs
<1>2. job[worker[w].job] \in JobRows /\ RowOK(job[worker[w].job], current)
  BY <1>1 DEF IInv, Types, RowsOK
<1>3. HoldsRow(w, worker[w], job[worker[w].job], current)
  BY DEF IInv, WorkersHoldRows
<1>4. ASSUME NEW v \in Workers, worker[v].job = worker[w].job PROVE v = w
  <2>1. worker[v] # Polling
    BY <1>1, <1>4, RegenerationAssumption DEF Polling
  <2>2. HoldsRow(v, worker[v], job[worker[v].job], current)
    BY <2>1 DEF IInv, WorkersHoldRows
  <2>3. QED BY <1>3, <1>4, <2>2 DEF HoldsRow
<1>5. QED BY <1>1, <1>2, <1>3, <1>4

(* A worker that changes its place alone keeps its row. *)
LEMMA WorkerMoves ==
  ASSUME IInv, NEW w \in Workers, worker[w] # Polling, NEW x \in Runs, x.job = worker[w].job,
         HoldsRow(w, x, job[x.job], current),
         worker' = [worker EXCEPT ![w] = x],
         UNCHANGED <<current, job, ledger, caller, faults>>
  PROVE  IInv'
<1>1. worker'[w] = x /\ \A v \in Workers : v # w => worker'[v] = worker[v]
  BY DEF IInv, Types
<1>2. Types'
  BY DEF IInv, Types
<1>3. WorkersHoldRows'
  BY <1>1 DEF IInv, WorkersHoldRows
<1>4. RowsOK' /\ RequestsOK' /\ ActiveAlone' /\ JobsMatchLedger'
  BY DEF IInv, RowsOK, RequestsOK, ActiveAlone, JobsMatchLedger
<1>5. DoomedJobs' = DoomedJobs
  BY <1>1 DEF DoomedJobs, Doomed
<1>6. DoomNeedsFaults'
  BY <1>5, DoomShrinks, RegenerationAssumption DEF IInv, Types
<1>7. QED BY <1>2, <1>3, <1>4, <1>6 DEF IInv

(* A row that is rewritten under its command, target and claims. *)
LEMMA RowChanges ==
  ASSUME IInv, NEW j \in Jobs, NEW r \in JobRows, RowOK(r, current),
         job' = [job EXCEPT ![j] = r], r.command = job[j].command, r.target = job[j].target,
         r.state \in ActiveStates => job[j].state \in ActiveStates,
         worker' \in [Workers -> Runs \cup {Polling}],
         \A w \in Workers : worker'[w] # Polling =>
           IF worker'[w].job = j THEN HoldsRow(w, worker'[w], r, current) ELSE worker'[w] = worker[w],
         faults' \in 0..MaxFaults, DoomNeedsFaults',
         UNCHANGED <<current, ledger, caller>>
  PROVE  IInv'
<1>1. job'[j] = r /\ \A k \in Jobs : k # j => job'[k] = job[k]
  BY DEF IInv, Types
<1>2. Types'
  BY DEF IInv, Types
<1>3. RowsOK'
  BY <1>1 DEF IInv, RowsOK
<1>4. WorkersHoldRows'
  <2> SUFFICES ASSUME NEW w \in Workers, worker'[w] # Polling
               PROVE  HoldsRow(w, worker'[w], job'[worker'[w].job], current)
    BY DEF WorkersHoldRows
  <2>1. worker'[w].job \in Jobs
    BY DEF Runs
  <2>2. CASE worker'[w].job = j
    BY <1>1, <2>2
  <2>3. CASE worker'[w].job # j
    BY <1>1, <2>1, <2>3 DEF IInv, WorkersHoldRows
  <2>4. QED BY <2>2, <2>3
<1>5. ActiveAlone'
  BY <1>1 DEF IInv, ActiveAlone
<1>6. JobsMatchLedger'
  <2>1. \A k \in Jobs : job'[k].command = job[k].command
    BY <1>1
  <2>2. \A c : {k \in Jobs : job'[k].command = c} = {k \in Jobs : job[k].command = c}
    BY <2>1
  <2>3. QED BY <2>2 DEF IInv, JobsMatchLedger
<1>7. RequestsOK'
  BY DEF IInv, RequestsOK
<1>8. QED BY <1>2, <1>3, <1>4, <1>5, <1>6, <1>7 DEF IInv

LEMMA ClaimKeeps ==
  ASSUME IInv, NEW w \in Workers, Claim(w)
  PROVE  IInv'
<1>1. PICK j \in Claimable :
        /\ job' = [job EXCEPT ![j] = ClaimedRow(j, w)]
        /\ worker' = [worker EXCEPT ![w] =
                        [at |-> "claimed", job |-> j, attempt |-> job'[j].attempts, since |-> current]]
  BY DEF Claim
<1> DEFINE r == ClaimedRow(j, w)
           x == [at |-> "claimed", job |-> j, attempt |-> r.attempts, since |-> current]
<1>2. /\ j \in Jobs /\ job[j] \in JobRows /\ RowOK(job[j], current)
      /\ job[j].state \in {"QUEUED", "RETRY_WAIT"}
  BY DEF Claimable, IInv, Types, RowsOK
<1>3. current \in 0..MaxSnapshot /\ worker[w] = Polling /\ UNCHANGED <<current, ledger, caller, faults>>
  BY DEF IInv, Types, Claim
<1>4. /\ r.state = "CLAIMED" /\ r.by = w /\ r.leased = TRUE /\ r.attempts = job[j].attempts + 1
      /\ r.command = job[j].command /\ r.target = job[j].target
  BY <1>2 DEF ClaimedRow, JobRows
<1>5. r \in JobRows
  <2>1. job[j].attempts + 1 \in Nat
    BY <1>2 DEF JobRows
  <2>2. r = [job[j] EXCEPT !.state = "CLAIMED", !.by = w, !.leased = TRUE, !.attempts = job[j].attempts + 1]
    BY DEF ClaimedRow
  <2>3. QED BY <1>2, <2>1, <2>2 DEF JobRows, ActiveStates
<1>6. RowOK(r, current)
  BY <1>2, <1>4, RegenerationAssumption DEF RowOK, JobRows
<1>7. job'[j] = r /\ job' = [job EXCEPT ![j] = r]
  BY <1>1, <1>2 DEF IInv, Types
<1>8. worker' = [worker EXCEPT ![w] = x]
  BY <1>1, <1>7
<1>9. x \in Runs /\ x.job = j /\ HoldsRow(w, x, r, current)
  BY <1>2, <1>3, <1>4, <1>5, RegenerationAssumption DEF Runs, Places, HoldsRow, JobRows
<1> HIDE DEF r, x
<1>10. \A v \in Workers : v # w /\ worker[v] # Polling => worker[v].job # j
  BY <1>2, WorkersWork DEF HoldsRow
<1>11. worker' \in [Workers -> Runs \cup {Polling}]
  BY <1>8, <1>9 DEF IInv, Types
<1>12. \A v \in Workers : worker'[v] # Polling =>
         IF worker'[v].job = j THEN HoldsRow(v, worker'[v], r, current) ELSE worker'[v] = worker[v]
  BY <1>8, <1>9, <1>10 DEF IInv, Types
<1>13. DoomNeedsFaults'
  <2>1. DoomedJobs' \subseteq DoomedJobs
    <3> SUFFICES ASSUME NEW k \in Jobs, Doomed(k)' PROVE Doomed(k)
      BY DEF DoomedJobs
    <3>1. k # j
      BY <1>2, <1>4, <1>7, <1>8, <1>9 DEF Doomed, IInv, Types
    <3>2. job'[k] = job[k]
      BY <1>7, <3>1 DEF IInv, Types
    <3>3. (\A v \in Workers : worker'[v].job # k) => \A v \in Workers : worker[v].job # k
      BY <1>3, <1>8, RegenerationAssumption DEF IInv, Types, Polling
    <3>4. QED BY <3>2, <3>3 DEF Doomed
  <2>2. QED BY <1>3, <2>1, DoomShrinks, RegenerationAssumption DEF IInv, Types
<1>14. r.state \in ActiveStates => job[j].state \in ActiveStates
  BY <1>2 DEF ActiveStates
<1>15. faults' \in 0..MaxFaults
  BY <1>3 DEF IInv, Types
<1>16. QED BY <1>2, <1>3, <1>4, <1>5, <1>6, <1>7, <1>11, <1>12, <1>13, <1>14, <1>15, RowChanges

(* A worker that stops without writing its row; if the row was lost, a fault did it. *)
LEMMA WorkerStops ==
  ASSUME IInv, NEW w \in Workers, worker[w] # Polling, Done(w),
         UNCHANGED <<current, job, ledger, caller>>,
         \/ faults' = faults /\ ~job[worker[w].job].leased
         \/ faults' = faults + 1 /\ faults < MaxFaults
  PROVE  IInv'
<1> DEFINE j == worker[w].job
<1>1. worker' = [worker EXCEPT ![w] = Polling] /\ faults \in 0..MaxFaults /\ MaxFaults \in Nat
  BY RegenerationAssumption DEF Done, IInv, Types
<1>2. Types'
  BY <1>1 DEF IInv, Types
<1>3. WorkersHoldRows'
  BY <1>1 DEF IInv, Types, WorkersHoldRows
<1>4. RowsOK' /\ RequestsOK' /\ ActiveAlone' /\ JobsMatchLedger'
  BY DEF IInv, RowsOK, RequestsOK, ActiveAlone, JobsMatchLedger
<1>5. j \in Jobs /\ job[j].state \in {"CLAIMED", "RUNNING"}
  BY WorkersWork DEF HoldsRow
<1>6. DoomedJobs' \subseteq DoomedJobs \cup {j}
  <2> SUFFICES ASSUME NEW k \in Jobs, Doomed(k)', k # j PROVE Doomed(k)
    BY DEF DoomedJobs
  <2>1. (\A v \in Workers : worker'[v].job # k) => \A v \in Workers : worker[v].job # k
    BY <1>1 DEF IInv, Types
  <2>2. QED BY <2>1 DEF Doomed
<1>7. CASE faults' = faults /\ ~job[j].leased
  <2>1. j \in DoomedJobs
    BY <1>5, <1>7 DEF DoomedJobs, Doomed
  <2>2. DoomNeedsFaults'
    BY <1>1, <1>6, <1>7, <2>1, DoomShrinks DEF IInv
  <2>3. QED BY <1>2, <1>3, <1>4, <2>2 DEF IInv
<1>8. CASE faults' = faults + 1
  <2>1. DoomNeedsFaults'
    BY <1>1, <1>6, <1>8, DoomGrows DEF IInv
  <2>2. QED BY <1>2, <1>3, <1>4, <2>1 DEF IInv
<1>9. QED BY <1>7, <1>8

LEMMA StartKeeps ==
  ASSUME IInv, NEW w \in Workers, Start(w)
  PROVE  IInv'
<1> DEFINE j == worker[w].job
           r == [job[j] EXCEPT !.state = "RUNNING"]
           x == [worker[w] EXCEPT !.at = "started"]
<1>1. worker[w].at = "claimed" /\ worker[w] # Polling /\ UNCHANGED <<current, ledger, caller, faults>>
  BY DEF Start, At, Polling
<1>2. /\ worker[w] \in Runs /\ j \in Jobs /\ job[j] \in JobRows /\ RowOK(job[j], current)
      /\ HoldsRow(w, worker[w], job[j], current)
      /\ \A v \in Workers : worker[v].job = j => v = w
  BY <1>1, WorkersWork
<1>3. job[j].state = "CLAIMED" /\ job[j].by = w
  BY <1>1, <1>2 DEF HoldsRow
<1>4. CASE ~Startable(w, job[j])
  <2>1. ~job[j].leased
    BY <1>3, <1>4 DEF Startable
  <2>2. Done(w) /\ UNCHANGED job
    BY <1>4 DEF Start
  <2>3. QED BY <1>1, <2>1, <2>2, WorkerStops
<1>5. CASE Startable(w, job[j])
  <2>1. job' = [job EXCEPT ![j] = r] /\ worker' = [worker EXCEPT ![w] = x]
    BY <1>2, <1>5 DEF Start, Goto
  <2>2. /\ r.state = "RUNNING" /\ r.by = w /\ r.leased = job[j].leased /\ r.attempts = job[j].attempts
        /\ r.command = job[j].command /\ r.target = job[j].target
    BY <1>2, <1>3 DEF JobRows
  <2>3. r \in JobRows
    BY <1>2 DEF JobRows, ActiveStates
  <2>4. RowOK(r, current)
    BY <1>2, <1>3, <2>2 DEF RowOK
  <2>5. x \in Runs /\ x.at = "started" /\ x.job = j /\ x.attempt = worker[w].attempt /\ x.since = worker[w].since
    BY <1>2 DEF Runs, Places
  <2>6. HoldsRow(w, x, r, current)
    BY <1>1, <1>2, <2>2, <2>5 DEF HoldsRow
  <2> HIDE DEF r, x
  <2>7. worker' \in [Workers -> Runs \cup {Polling}]
    BY <2>1, <2>5 DEF IInv, Types
  <2>8. \A v \in Workers : worker'[v] # Polling =>
          IF worker'[v].job = j THEN HoldsRow(v, worker'[v], r, current) ELSE worker'[v] = worker[v]
    BY <1>2, <2>1, <2>5, <2>6 DEF IInv, Types
  <2>9. DoomNeedsFaults'
    <3>1. \A v \in Workers : worker'[v].job = worker[v].job
      BY <2>1, <2>5 DEF IInv, Types
    <3>2. DoomedJobs' \subseteq DoomedJobs
      BY <1>2, <1>3, <2>1, <2>2, <3>1 DEF DoomedJobs, Doomed, IInv, Types
    <3>3. QED BY <1>1, <3>2, DoomShrinks, RegenerationAssumption DEF IInv, Types
  <2>10. r.state \in ActiveStates => job[j].state \in ActiveStates
    BY <1>3 DEF ActiveStates
  <2>11. faults' \in 0..MaxFaults
    BY <1>1 DEF IInv, Types
  <2>12. QED BY <1>1, <1>2, <2>1, <2>2, <2>3, <2>4, <2>7, <2>8, <2>9, <2>10, <2>11, RowChanges
<1>6. QED BY <1>4, <1>5

LEMMA CheckFreshnessKeeps ==
  ASSUME IInv, NEW w \in Workers, CheckFreshness(w)
  PROVE  IInv'
<1> DEFINE j == worker[w].job
           place == IF Fresh(job[j].target) THEN "building" ELSE "stale"
           x == [worker[w] EXCEPT !.at = place]
<1>1. worker[w].at = "started" /\ worker[w] # Polling /\ UNCHANGED <<current, job, ledger, caller, faults>>
  BY DEF CheckFreshness, At, Polling
<1>2. /\ worker[w] \in Runs /\ j \in Jobs /\ RowOK(job[j], current)
      /\ HoldsRow(w, worker[w], job[j], current)
  BY <1>1, WorkersWork
<1>3. worker' = [worker EXCEPT ![w] = x]
  BY DEF CheckFreshness, Goto
<1>4. x \in Runs /\ x.at = place /\ x.job = j /\ x.attempt = worker[w].attempt /\ x.since = worker[w].since
  BY <1>2 DEF Runs, Places
<1>5. place # "stale" => WasFresh(x, job[j].target, current)
  <2> SUFFICES ASSUME place # "stale" PROVE WasFresh(x, job[j].target, current)
    OBVIOUS
  <2>1. Fingerprint[current] = Fingerprint[job[j].target]
    BY DEF Fresh
  <2>2. x.since \in Nat /\ x.since <= current /\ current \in Nat
    BY <1>2, <1>4, RegenerationAssumption DEF Runs, HoldsRow, IInv, Types
  <2>3. current \in Snapshots
    BY <1>1, <1>2, RegenerationAssumption DEF RowOK, HoldsRow, Snapshots, IInv, Types
  <2>4. QED BY <2>1, <2>2, <2>3 DEF WasFresh
<1>6. HoldsRow(w, x, job[j], current)
  BY <1>1, <1>2, <1>4, <1>5 DEF HoldsRow
<1> HIDE DEF x
<1>7. QED BY <1>1, <1>3, <1>4, <1>6, WorkerMoves

LEMMA BuildKeeps ==
  ASSUME IInv, NEW w \in Workers, Build(w)
  PROVE  IInv'
<1>1. PICK outcome \in {"SUCCEEDED", "NO_OP", "RETRY", "BLOCK", "FAIL"} : Goto(w, outcome)
  BY DEF Build
<1> DEFINE j == worker[w].job
           x == [worker[w] EXCEPT !.at = outcome]
<1>2. worker[w].at = "building" /\ worker[w] # Polling /\ UNCHANGED <<current, job, ledger, caller, faults>>
  BY DEF Build, At, Polling
<1>3. worker[w] \in Runs /\ HoldsRow(w, worker[w], job[j], current)
  BY <1>2, WorkersWork
<1>4. worker' = [worker EXCEPT ![w] = x]
  BY <1>1 DEF Goto
<1>5. x \in Runs /\ x.at = outcome /\ x.job = j /\ x.attempt = worker[w].attempt /\ x.since = worker[w].since
  BY <1>3 DEF Runs, Places
<1>6. HoldsRow(w, x, job[j], current)
  BY <1>2, <1>3, <1>5 DEF HoldsRow, WasFresh
<1> HIDE DEF x
<1>7. QED BY <1>2, <1>4, <1>5, <1>6, WorkerMoves

(* A closing update finds its row, takes it from the worker and may leave it to others. *)
LEMMA SettleKeeps ==
  ASSUME IInv, NEW w \in Workers, worker[w] # Polling, NEW from,
         job[worker[w].job].state \in from,
         NEW state \in FinalStates \cup {"RETRY_WAIT"}, NEW due \in BOOLEAN,
         state = "RETRY_WAIT" => job[worker[w].job].attempts < MaxAttempts,
         Settle(w, from, state, due)
  PROVE  IInv'
<1> DEFINE j == worker[w].job
           r == Released(j, state, due)
<1>1. /\ worker[w] \in Runs /\ j \in Jobs /\ job[j] \in JobRows /\ RowOK(job[j], current)
      /\ HoldsRow(w, worker[w], job[j], current)
      /\ \A v \in Workers : worker[v].job = j => v = w
  BY WorkersWork
<1>2. job[j].by = w /\ job[j].state \in {"CLAIMED", "RUNNING"}
  BY <1>1 DEF HoldsRow
<1>3. /\ job' = [job EXCEPT ![j] = r] /\ worker' = [worker EXCEPT ![w] = Polling]
      /\ UNCHANGED <<current, ledger, caller, faults>>
  BY <1>2 DEF Settle, Settles, Done
<1>4. /\ r.state = state /\ r.by = NoWorker /\ r.attempts = job[j].attempts
      /\ r.command = job[j].command /\ r.target = job[j].target
  BY <1>1 DEF Released, JobRows
<1>5. r \in JobRows
  BY <1>1 DEF Released, JobRows, ActiveStates
<1>6. state \notin {"absent", "QUEUED", "CLAIMED", "RUNNING"}
  BY DEF FinalStates
<1>7. RowOK(r, current)
  BY <1>1, <1>2, <1>4, <1>6 DEF RowOK
<1> HIDE DEF r
<1>8. worker' \in [Workers -> Runs \cup {Polling}]
  BY <1>3 DEF IInv, Types
<1>9. \A v \in Workers : worker'[v] # Polling =>
        IF worker'[v].job = j THEN HoldsRow(v, worker'[v], r, current) ELSE worker'[v] = worker[v]
  BY <1>1, <1>3 DEF IInv, Types
<1>10. DoomNeedsFaults'
  <2>1. DoomedJobs' \subseteq DoomedJobs
    <3> SUFFICES ASSUME NEW k \in Jobs, Doomed(k)' PROVE Doomed(k)
      BY DEF DoomedJobs
    <3>1. k # j
      BY <1>1, <1>3, <1>4, <1>6 DEF Doomed, IInv, Types
    <3>2. job'[k] = job[k]
      BY <1>3, <3>1 DEF IInv, Types
    <3>3. (\A v \in Workers : worker'[v].job # k) => \A v \in Workers : worker[v].job # k
      BY <1>3, <3>1 DEF IInv, Types
    <3>4. QED BY <3>2, <3>3 DEF Doomed
  <2>2. QED BY <1>3, <2>1, DoomShrinks, RegenerationAssumption DEF IInv, Types
<1>11. r.state \in ActiveStates => job[j].state \in ActiveStates
  BY <1>2 DEF ActiveStates
<1>12. faults' \in 0..MaxFaults
  BY <1>3 DEF IInv, Types
<1>13. QED BY <1>1, <1>3, <1>4, <1>5, <1>7, <1>8, <1>9, <1>10, <1>11, <1>12, RowChanges

LEMMA ClosingKeeps ==
  ASSUME IInv, NEW w \in Workers, MarkStale(w) \/ CompleteSuccess(w) \/ HandleFailure(w)
  PROVE  IInv'
<1> DEFINE j == worker[w].job
<1>1. worker[w] # Polling /\ worker[w].at \notin {"claimed"}
  <2>1. CASE MarkStale(w)
    BY <2>1 DEF MarkStale, At, Polling
  <2>2. CASE CompleteSuccess(w)
    BY <2>2 DEF CompleteSuccess, At, Polling
  <2>3. CASE HandleFailure(w)
    BY <2>3 DEF HandleFailure, At, Polling
  <2>4. QED BY <2>1, <2>2, <2>3
<1>2. job[j].state = "RUNNING" /\ worker[w].attempt = job[j].attempts
      /\ job[j].attempts \in Nat /\ MaxAttempts \in Nat
  BY <1>1, WorkersWork, RegenerationAssumption DEF HoldsRow, JobRows
<1>3. CASE MarkStale(w)
  BY <1>1, <1>2, <1>3, SettleKeeps DEF MarkStale, FinalStates
<1>4. CASE CompleteSuccess(w)
  BY <1>1, <1>2, <1>4, SettleKeeps DEF CompleteSuccess, FinalStates
<1>5. CASE HandleFailure(w)
  <2>1. PICK action \in {"RETRY", "BLOCK", "FAIL"} :
          LET verdict == Classified(action, worker[w].attempt) IN
            \/ verdict = "RETRY" /\ Settle(w, {"CLAIMED", "RUNNING"}, "RETRY_WAIT", FALSE)
            \/ verdict = "BLOCK" /\ Settle(w, {"CLAIMED", "RUNNING", "RETRY_WAIT"}, "BLOCKED", TRUE)
            \/ verdict = "FAIL" /\ Settle(w, {"CLAIMED", "RUNNING", "RETRY_WAIT"}, "FAILED", TRUE)
    BY <1>5 DEF HandleFailure
  <2>2. Classified(action, worker[w].attempt) = "RETRY" => job[j].attempts < MaxAttempts
    BY <1>2 DEF Classified
  <2>3. CASE /\ Classified(action, worker[w].attempt) = "RETRY"
             /\ Settle(w, {"CLAIMED", "RUNNING"}, "RETRY_WAIT", FALSE)
    BY <1>1, <1>2, <2>2, <2>3, SettleKeeps
  <2>4. CASE Settle(w, {"CLAIMED", "RUNNING", "RETRY_WAIT"}, "BLOCKED", TRUE)
    BY <1>1, <1>2, <2>4, SettleKeeps DEF FinalStates
  <2>5. CASE Settle(w, {"CLAIMED", "RUNNING", "RETRY_WAIT"}, "FAILED", TRUE)
    BY <1>1, <1>2, <2>5, SettleKeeps DEF FinalStates
  <2>6. QED BY <2>1, <2>3, <2>4, <2>5
<1>6. QED BY <1>3, <1>4, <1>5

-----------------------------------------------------------------------------
(* Time and faults *)

LEMMA RetryDelayPassesKeeps ==
  ASSUME IInv, NEW j \in Jobs, RetryDelayPasses(j)
  PROVE  IInv'
<1> DEFINE r == [job[j] EXCEPT !.due = TRUE]
<1>1. job[j] \in JobRows /\ RowOK(job[j], current)
  BY DEF IInv, Types, RowsOK
<1>2. job' = [job EXCEPT ![j] = r] /\ UNCHANGED <<current, ledger, caller, worker, faults>>
  BY DEF RetryDelayPasses
<1>3. /\ r.state = job[j].state /\ r.by = job[j].by /\ r.leased = job[j].leased
      /\ r.attempts = job[j].attempts /\ r.command = job[j].command /\ r.target = job[j].target
  BY <1>1 DEF JobRows
<1>4. r \in JobRows
  BY <1>1 DEF JobRows
<1>5. job[j].state # "absent"
  BY <1>1 DEF RetryDelayPasses, RowOK, Absent
<1>6. RowOK(r, current)
  BY <1>1, <1>3, <1>5 DEF RowOK
<1> HIDE DEF r
<1>7. \A v \in Workers : worker'[v] # Polling =>
        IF worker'[v].job = j THEN HoldsRow(v, worker'[v], r, current) ELSE worker'[v] = worker[v]
  BY <1>2, <1>3, WorkersWork DEF HoldsRow
<1>8. DoomNeedsFaults'
  <2>1. DoomedJobs' \subseteq DoomedJobs
    BY <1>2, <1>3 DEF DoomedJobs, Doomed, IInv, Types
  <2>2. QED BY <1>2, <2>1, DoomShrinks, RegenerationAssumption DEF IInv, Types
<1>9. worker' \in [Workers -> Runs \cup {Polling}] /\ faults' \in 0..MaxFaults
  BY <1>2 DEF IInv, Types
<1>10. QED BY <1>2, <1>3, <1>4, <1>6, <1>7, <1>8, <1>9, RowChanges

LEMMA LeaseExpiresKeeps ==
  ASSUME IInv, NEW j \in Jobs, LeaseExpires(j)
  PROVE  IInv'
<1> DEFINE r == [job[j] EXCEPT !.leased = FALSE]
<1>1. job[j] \in JobRows /\ RowOK(job[j], current) /\ faults \in 0..MaxFaults /\ MaxFaults \in Nat
  BY RegenerationAssumption DEF IInv, Types, RowsOK
<1>2. /\ job' = [job EXCEPT ![j] = r] /\ UNCHANGED <<current, ledger, caller, worker>>
      /\ faults < MaxFaults /\ faults' = faults + 1
  BY DEF LeaseExpires
<1>3. /\ r.state = job[j].state /\ r.by = job[j].by
      /\ r.attempts = job[j].attempts /\ r.command = job[j].command /\ r.target = job[j].target
  BY <1>1 DEF JobRows
<1>4. r \in JobRows
  BY <1>1 DEF JobRows
<1>5. job[j].state # "absent"
  BY <1>1 DEF LeaseExpires, RowOK, Absent
<1>6. RowOK(r, current)
  BY <1>1, <1>3, <1>5 DEF RowOK
<1> HIDE DEF r
<1>7. \A v \in Workers : worker'[v] # Polling =>
        IF worker'[v].job = j THEN HoldsRow(v, worker'[v], r, current) ELSE worker'[v] = worker[v]
  BY <1>2, <1>3, WorkersWork DEF HoldsRow
<1>8. DoomNeedsFaults'
  <2>1. DoomedJobs' \subseteq DoomedJobs \cup {j}
    <3> SUFFICES ASSUME NEW k \in Jobs, Doomed(k)', k # j PROVE Doomed(k)
      BY DEF DoomedJobs
    <3>1. QED BY <1>2 DEF Doomed, IInv, Types
  <2>2. QED BY <1>1, <1>2, <2>1, DoomGrows DEF IInv
<1>9. worker' \in [Workers -> Runs \cup {Polling}] /\ faults' \in 0..MaxFaults
  BY <1>1, <1>2 DEF IInv, Types
<1>10. QED BY <1>2, <1>3, <1>4, <1>6, <1>7, <1>8, <1>9, RowChanges

LEMMA NextKeeps == IInv /\ [Next]_vars => IInv'
<1> SUFFICES ASSUME IInv, [Next]_vars PROVE IInv'
  OBVIOUS
<1>1. CASE NewSnapshot
  BY <1>1, NewSnapshotKeeps
<1>2. ASSUME NEW q \in Callers, Decide(q) \/ Queue(q) PROVE IInv'
  BY <1>2, DecideKeeps, CommitQueueKeeps, AbortQueueKeeps DEF Queue
<1>3. ASSUME NEW w \in Workers, Claim(w) \/ Process(w) \/ Crash(w) PROVE IInv'
  <2>1. CASE Claim(w)
    BY <2>1, ClaimKeeps
  <2>2. CASE Process(w)
    BY <2>2, StartKeeps, CheckFreshnessKeeps, BuildKeeps, ClosingKeeps DEF Process
  <2>3. CASE Crash(w)
    BY <2>3, WorkerStops DEF Crash
  <2>4. QED BY <1>3, <2>1, <2>2, <2>3
<1>4. ASSUME NEW j \in Jobs, RetryDelayPasses(j) \/ LeaseExpires(j) PROVE IInv'
  BY <1>4, RetryDelayPassesKeeps, LeaseExpiresKeeps
<1>5. CASE UNCHANGED vars
  <2>1. Types' /\ RowsOK' /\ RequestsOK' /\ WorkersHoldRows' /\ ActiveAlone' /\ JobsMatchLedger'
    BY <1>5 DEF vars, IInv, Types, RowsOK, RequestsOK, WorkersHoldRows, ActiveAlone, JobsMatchLedger
  <2>2. DoomNeedsFaults'
    BY <1>5 DEF vars, IInv, DoomNeedsFaults, DoomedJobs, Doomed
  <2>3. QED BY <2>1, <2>2 DEF IInv
<1>6. QED BY <1>1, <1>2, <1>3, <1>4, <1>5 DEF Next

(* The inductive invariant holds in every behaviour. *)
LEMMA Inductive == Spec => []IInv
<1>1. Init => IInv
  BY InitIInv
<1>2. IInv /\ [Next]_vars => IInv'
  BY NextKeeps
<1>3. QED BY <1>1, <1>2, PTL DEF Spec

-----------------------------------------------------------------------------
(* What the invariant says of the properties. *)

LEMMA OneActiveJob == IInv => OneActiveJobPerTarget
<1> SUFFICES ASSUME IInv, NEW s \in Snapshots PROVE Cardinality(ActiveFor(s)) <= 1
  BY DEF OneActiveJobPerTarget
<1>1. CASE ActiveFor(s) = {}
  BY <1>1, FS_EmptySet
<1>2. CASE ActiveFor(s) # {}
  <2>1. PICK j \in ActiveFor(s) : TRUE
    BY <1>2
  <2>2. ActiveFor(s) = {j}
    BY <2>1 DEF ActiveFor, IInv, ActiveAlone
  <2>3. QED BY <2>2, FS_Singleton
<1>3. QED BY <1>1, <1>2

LEMMA BuildersApart == IInv => NoTwoBuilders
<1> SUFFICES ASSUME IInv, NEW v \in Workers, NEW w \in Workers,
                    worker[v].job = worker[w].job, worker[v].job # NoJob
             PROVE  v = w
  BY DEF NoTwoBuilders
<1>1. worker[w] # Polling
  BY DEF Polling
<1>2. QED BY <1>1, WorkersWork

LEMMA OrphansFew == IInv => OrphansNeedFaults
<1> SUFFICES ASSUME IInv PROVE OrphansNeedFaults
  OBVIOUS
<1> DEFINE orphans == {j \in Jobs : Orphaned(j)}
<1>1. orphans \subseteq DoomedJobs
  BY DEF Orphaned, DoomedJobs, Doomed
<1>2. IsFiniteSet(DoomedJobs) /\ Cardinality(DoomedJobs) <= faults /\ faults \in Nat
  BY RegenerationAssumption DEF IInv, DoomNeedsFaults, Types
<1>3. IsFiniteSet(orphans) /\ Cardinality(orphans) <= Cardinality(DoomedJobs)
  BY <1>1, <1>2, FS_Subset
<1>4. Cardinality(orphans) \in Nat /\ Cardinality(DoomedJobs) \in Nat
  BY <1>2, <1>3, FS_CardinalityType
<1>5. Cardinality(orphans) <= faults
  BY <1>2, <1>3, <1>4
<1>6. QED BY <1>5 DEF OrphansNeedFaults

LEMMA Accounted == IInv => JobsAreAccounted
<1> SUFFICES ASSUME IInv PROVE JobsAreAccounted
  OBVIOUS
<1>1. TypeOK
  <2>1. \A q \in Callers : caller[q].answer \in Answers
    <3>1. AtRest.answer \in Answers
      BY RegenerationAssumption DEF AtRest, NewAnswer, Answers
    <3>2. QED BY <3>1 DEF IInv, Types, Requests
  <2>2. \A j \in Jobs : (job[j].state \in {"CLAIMED", "RUNNING"}) <=> (job[j].by # NoWorker)
    BY DEF IInv, RowsOK, RowOK
  <2>3. QED BY <2>1, <2>2 DEF IInv, Types, TypeOK
<1>2. AttemptsBounded
  BY DEF IInv, RowsOK, RowOK, AttemptsBounded
<1>3. QED BY <1>1, <1>2, OrphansFew DEF IInv, JobsAreAccounted

-----------------------------------------------------------------------------
(* The step that closes a job as a success *)

Success(j) == job[j].state = "RUNNING" /\ job'[j].state \in {"SUCCEEDED", "NO_OP"}

(* A closing update writes its state to the row of its worker only. *)
LEMMA SettleWrites ==
  ASSUME IInv, NEW w \in Workers, worker[w] # Polling, NEW from, NEW state, NEW due,
         Settle(w, from, state, due), NEW j \in Jobs, Success(j)
  PROVE  j = worker[w].job /\ state \in {"SUCCEEDED", "NO_OP"}
<1> DEFINE k == worker[w].job
<1>1. k \in Jobs /\ job[k] \in JobRows
  BY WorkersWork
<1>2. job' = job \/ job' = [job EXCEPT ![k] = Released(k, state, due)]
  BY DEF Settle
<1>3. job' # job
  BY DEF Success
<1>4. Released(k, state, due).state = state
  BY <1>1 DEF Released, JobRows
<1>5. \A i \in Jobs : job'[i] = IF i = k THEN Released(k, state, due) ELSE job[i]
  BY <1>2, <1>3 DEF IInv, Types
<1>6. QED BY <1>4, <1>5 DEF Success

LEMMA OnlyCompletionSucceeds ==
  ASSUME IInv, Next, NEW j \in Jobs, Success(j)
  PROVE  \E w \in Workers : worker[w].job = j /\ CompleteSuccess(w)
<1>1. job' # job
  BY DEF Success
<1>2. CASE NewSnapshot
  BY <1>1, <1>2 DEF NewSnapshot
<1>3. ASSUME NEW q \in Callers, Decide(q) \/ Queue(q) PROVE FALSE
  <2>1. CommitQueue(q)
    BY <1>1, <1>3 DEF Decide, Queue, AbortQueue
  <2> DEFINE a == caller[q].answer
             new == [Absent EXCEPT !.state = "QUEUED", !.command = caller[q].command, !.target = a.target]
  <2>2. job' = [job EXCEPT ![a.job] = new] /\ job[a.job].state = "absent"
    BY <1>1, <2>1 DEF CommitQueue
  <2>3. j # a.job
    BY <2>2 DEF Success
  <2>4. job'[j] = job[j]
    BY <2>2, <2>3 DEF IInv, Types
  <2>5. QED BY <2>4 DEF Success
<1>4. ASSUME NEW k \in Jobs, RetryDelayPasses(k) \/ LeaseExpires(k) PROVE FALSE
  <2>1. job[k] \in JobRows /\ job[j] \in JobRows
    BY DEF IInv, Types
  <2>2. job' = [job EXCEPT ![k].due = TRUE] \/ job' = [job EXCEPT ![k].leased = FALSE]
    BY <1>4 DEF RetryDelayPasses, LeaseExpires
  <2>3. job'[j].state = job[j].state
    BY <2>1, <2>2 DEF IInv, Types, JobRows
  <2>4. QED BY <2>3 DEF Success
<1>5. ASSUME NEW w \in Workers, Claim(w) \/ Process(w) \/ Crash(w)
      PROVE  worker[w].job = j /\ CompleteSuccess(w)
  <2>1. ~Claim(w)
    <3> SUFFICES ASSUME Claim(w) PROVE FALSE
      OBVIOUS
    <3>1. PICK k \in Jobs : job' = [job EXCEPT ![k] = ClaimedRow(k, w)]
      BY DEF Claim, Claimable
    <3>2. ClaimedRow(k, w).state = "CLAIMED"
      BY DEF IInv, Types, JobRows, ClaimedRow
    <3>3. QED BY <3>1, <3>2 DEF Success, IInv, Types
  <2>2. ~(CheckFreshness(w) \/ Build(w) \/ Crash(w))
    BY <1>1 DEF CheckFreshness, Build, Crash
  <2>3. ~Start(w)
    <3> SUFFICES ASSUME Start(w) PROVE FALSE
      OBVIOUS
    <3>1. job' = [job EXCEPT ![worker[w].job].state = "RUNNING"]
      BY <1>1 DEF Start
    <3>2. QED BY <3>1 DEF Success, IInv, Types, JobRows
  <2>4. ~MarkStale(w)
    <3> SUFFICES ASSUME MarkStale(w) PROVE FALSE
      OBVIOUS
    <3>1. worker[w] # Polling
      BY DEF MarkStale, At, Polling
    <3>2. "STALE" \in {"SUCCEEDED", "NO_OP"}
      BY <3>1, SettleWrites, Zenon DEF MarkStale
    <3>3. QED BY <3>2
  <2>5. ~HandleFailure(w)
    <3> SUFFICES ASSUME HandleFailure(w) PROVE FALSE
      OBVIOUS
    <3>1. worker[w] # Polling
      BY DEF HandleFailure, At, Polling
    <3>2. \/ Settle(w, {"CLAIMED", "RUNNING"}, "RETRY_WAIT", FALSE)
          \/ Settle(w, {"CLAIMED", "RUNNING", "RETRY_WAIT"}, "BLOCKED", TRUE)
          \/ Settle(w, {"CLAIMED", "RUNNING", "RETRY_WAIT"}, "FAILED", TRUE)
      BY DEF HandleFailure
    <3>3. \E state \in {"RETRY_WAIT", "BLOCKED", "FAILED"} : state \in {"SUCCEEDED", "NO_OP"}
      BY <3>1, <3>2, SettleWrites, Zenon
    <3>4. QED BY <3>3
  <2>6. CompleteSuccess(w)
    BY <1>5, <2>1, <2>2, <2>3, <2>4, <2>5 DEF Process
  <2>7. worker[w] # Polling
    BY <2>6 DEF CompleteSuccess, At, Polling
  <2>8. QED BY <2>6, <2>7, SettleWrites DEF CompleteSuccess
<1>6. QED BY <1>2, <1>3, <1>4, <1>5 DEF Next

LEMMA SuccessIsFresh ==
  ASSUME IInv, Next, NEW j \in Jobs, Success(j)
  PROVE  \E s \in worker[job[j].by].since..current :
           s \in Snapshots /\ Fingerprint[s] = Fingerprint[job[j].target]
<1>1. PICK w \in Workers : worker[w].job = j /\ CompleteSuccess(w)
  BY OnlyCompletionSucceeds
<1>2. worker[w] # Polling /\ worker[w].at \in {"SUCCEEDED", "NO_OP"}
  BY <1>1 DEF CompleteSuccess, At, Polling
<1>3. HoldsRow(w, worker[w], job[j], current)
  BY <1>1, <1>2, WorkersWork
<1>4. QED BY <1>2, <1>3 DEF HoldsRow, WasFresh

-----------------------------------------------------------------------------
(* Active work is unique per target, whatever callers race: the partial      *)
(* unique index stops the second of two decisions for one target.            *)
THEOREM OneJobPerTarget == Spec => []OneActiveJobPerTarget
BY Inductive, OneActiveJob, PTL

(* Ledger, jobs and workers agree at every commit: a QUEUED answer has its   *)
(* job, no job is claimed beyond its attempts, and no more jobs are orphaned *)
(* than crashes and expired leases explain.                                  *)
THEOREM JobsStayAccounted == Spec => []JobsAreAccounted
BY Inductive, Accounted, PTL

(* Two workers never work on one job, stalled workers and expired leases     *)
(* included: a claim takes only rows that no worker is on.                   *)
THEOREM BuildersNeverShareAJob == Spec => []NoTwoBuilders
BY Inductive, BuildersApart, PTL

(* complete_success closes a job only after the freshness check found its    *)
(* target fresh at a snapshot that was current since the claim.              *)
THEOREM SuccessesWereFresh == Spec => SuccessWasFresh
<1>1. IInv /\ [Next]_vars =>
        [\A j \in Jobs :
           job[j].state = "RUNNING" /\ job'[j].state \in {"SUCCEEDED", "NO_OP"} =>
             \E s \in worker[job[j].by].since..current :
               s \in Snapshots /\ Fingerprint[s] = Fingerprint[job[j].target]]_vars
  BY SuccessIsFresh DEF Success
<1>2. QED BY <1>1, Inductive, PTL DEF Spec, SuccessWasFresh
=============================================================================
