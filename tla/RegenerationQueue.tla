-------------------------- MODULE RegenerationQueue --------------------------
(***************************************************************************)
(* The regeneration queue of one property and one report variant:          *)
(* RegenerationQueueService.queue turns rebuild requests into jobs, and    *)
(* RegenerationWorker claims a job under a lease, starts it, checks that   *)
(* its target snapshot is still fresh, builds the report, and records how  *)
(* it went.  Callers queue concurrently, snapshots arrive at any time, and *)
(* workers stall and crash between any two statements; each statement of a *)
(* worker is committed by itself.                                          *)
(***************************************************************************)
EXTENDS Naturals, FiniteSets

CONSTANTS
  Commands,        \* queue commands, one per idempotency key
  TargetOf,        \* command -> the target snapshot it names, 0 for the current one
  PriorityOf,      \* command -> priority score
  Callers,         \* concurrent transactions of the queue service
  NoCommand,
  Jobs,            \* job ids
  NoJob,
  Workers,
  NoWorker,
  MaxSnapshot,     \* bound on the snapshots of the property
  Fingerprint,     \* snapshot -> its fingerprint for this variant
  MaxAttempts,     \* max_attempts
  LedgerStatuses,  \* result_status values the command ledger accepts
  MaxFaults        \* bound on crashes and on leases that expire under a worker

Snapshots == 1..MaxSnapshot

ASSUME RegenerationAssumption ==
  /\ MaxSnapshot \in Nat
  /\ MaxAttempts \in Nat \ {0}
  /\ MaxFaults \in Nat
  /\ TargetOf \in [Commands -> 0..MaxSnapshot]
  /\ PriorityOf \in [Commands -> Nat]
  /\ NoCommand \notin Commands
  /\ NoJob \notin Jobs
  /\ NoWorker \notin Workers

VARIABLES
  current,   \* sequence of the current snapshot, 0 if there is none
  job,       \* job id -> its row of regeneration_jobs
  ledger,    \* command -> its row of processed_commands
  caller,    \* caller -> what queue() has decided but not yet written
  worker,    \* worker -> where process() is
  faults     \* crashes and expired leases so far

vars == <<current, job, ledger, caller, worker, faults>>

ActiveStates == {"QUEUED", "CLAIMED", "RUNNING", "RETRY_WAIT"}
FinalStates == {"SUCCEEDED", "NO_OP", "STALE", "BLOCKED", "FAILED"}

JobRows == [state : {"absent"} \cup ActiveStates \cup FinalStates,
            command : Commands \cup {NoCommand}, target : 0..MaxSnapshot,
            attempts : Nat, by : Workers \cup {NoWorker},
            leased : BOOLEAN, due : BOOLEAN]

Answers == [status : {"NEW", "QUEUED", "EXISTING_ACTIVE_JOB", "BLOCKED"},
            target : 0..MaxSnapshot, job : Jobs \cup {NoJob}]

NewAnswer == [status |-> "NEW", target |-> 0, job |-> NoJob]

AtRest == [at |-> "rest", command |-> NoCommand, answer |-> NewAnswer]

(* since: the snapshot that was current when the job was claimed (history). *)
Polling == [at |-> "polling", job |-> NoJob, attempt |-> 0, since |-> 0]

Absent == [state |-> "absent", command |-> NoCommand, target |-> 0, attempts |-> 0,
           by |-> NoWorker, leased |-> FALSE, due |-> TRUE]

Init ==
  /\ current = 0
  /\ job = [j \in Jobs |-> Absent]
  /\ ledger = [c \in Commands |-> NewAnswer]
  /\ caller = [q \in Callers |-> AtRest]
  /\ worker = [w \in Workers |-> Polling]
  /\ faults = 0

-----------------------------------------------------------------------------
(* Another part of the system accepts a snapshot. *)
NewSnapshot ==
  /\ current < MaxSnapshot
  /\ current' = current + 1
  /\ UNCHANGED <<job, ledger, caller, worker, faults>>

(* job_target_key: of one property and variant, with the versions fixed,    *)
(* only the target snapshot tells keys apart.                               *)
ActiveFor(target) == {j \in Jobs : job[j].state \in ActiveStates /\ job[j].target = target}

(* The reads of queue(): the target, and the oldest active job for it.      *)
Answer(c) ==
  LET target == IF TargetOf[c] = 0 THEN current ELSE TargetOf[c] IN
    IF target = 0 \/ target # current
    THEN {[status |-> "BLOCKED", target |-> target, job |-> NoJob]}
    ELSE IF ActiveFor(target) # {}
         THEN {[status |-> "EXISTING_ACTIVE_JOB", target |-> target, job |-> j] :
                 j \in ActiveFor(target)}
         ELSE {[status |-> "QUEUED", target |-> target, job |-> j] :
                 j \in {k \in Jobs : job[k].state = "absent"
                                       /\ \A q \in Callers : caller[q].answer.job # k}}

(* queue() up to its writes; a command the ledger has is answered from it.  *)
Decide(q) ==
  /\ caller[q] = AtRest
  /\ \E c \in Commands :
       /\ ledger[c].status = "NEW"
       /\ \E a \in Answer(c) :
            caller' = [caller EXCEPT ![q] = [at |-> "decided", command |-> c, answer |-> a]]
  /\ UNCHANGED <<current, job, ledger, worker, faults>>

(* Variant: the partial unique index is missing. *)
KeyIsFreeUnchecked(target) == target \in Snapshots

(* regeneration_jobs_one_active_target_uq *)
KeyIsFree(target) == ActiveFor(target) = {}

(* Variant: the CHECK lists the statuses of transition commands only (0073). *)
LedgerTakesTransitions(c, status) ==
  ledger[c].status = "NEW"
    /\ status \in {"APPLIED", "REJECTED", "BLOCKED", "NO_OP", "CONFLICT", "FAILED"}

(* Variant: the ledger has no unique key, the later row wins. *)
LedgerTakesAgain(c, status) == status \in LedgerStatuses

(* The unique key of processed_commands, and the CHECK on result_status.    *)
LedgerTakes(c, status) == ledger[c].status = "NEW" /\ status \in LedgerStatuses

(* The writes of queue() and the commit: job, event and ledger row together. *)
CommitQueue(q) ==
  LET c == caller[q].command
      a == caller[q].answer
  IN
    /\ caller[q].at = "decided"
    /\ LedgerTakes(c, a.status)
    /\ a.status = "QUEUED" => job[a.job].state = "absent" /\ KeyIsFree(a.target)
    /\ job' = IF a.status = "QUEUED"
              THEN [job EXCEPT ![a.job] = [Absent EXCEPT !.state = "QUEUED", !.command = c,
                                                         !.target = a.target]]
              ELSE job
    /\ ledger' = [ledger EXCEPT ![c] = a]
    /\ caller' = [caller EXCEPT ![q] = AtRest]
    /\ UNCHANGED <<current, worker, faults>>

(* A constraint stops the writes and the transaction is rolled back.        *)
AbortQueue(q) ==
  LET c == caller[q].command
      a == caller[q].answer
  IN
    /\ caller[q].at = "decided"
    /\ ~LedgerTakes(c, a.status) \/ (a.status = "QUEUED" /\ ~KeyIsFree(a.target))
    /\ caller' = [caller EXCEPT ![q] = AtRest]
    /\ UNCHANGED <<current, job, ledger, worker, faults>>

-----------------------------------------------------------------------------
(* Variant: a claim whose lease has expired may be claimed again as it is. *)
ClaimableOrExpired ==
  {j \in Jobs : \/ job[j].state \in {"QUEUED", "RETRY_WAIT"} /\ job[j].due
                \/ job[j].state \in {"CLAIMED", "RUNNING"} /\ ~job[j].leased}

Claimable == {j \in Jobs : job[j].state \in {"QUEUED", "RETRY_WAIT"} /\ job[j].due}

(* Variant: a claim does not count as an attempt. *)
ClaimedRowUncounted(j, w) ==
  [job[j] EXCEPT !.state = "CLAIMED", !.by = w, !.leased = TRUE]

(* What CLAIM_NEXT makes of a row. *)
ClaimedRow(j, w) ==
  [job[j] EXCEPT !.state = "CLAIMED", !.by = w, !.leased = TRUE, !.attempts = @ + 1]

(* claim_next: a claimable job of the highest priority. *)
Claim(w) ==
  /\ worker[w] = Polling
  /\ \E j \in Claimable :
       /\ \A k \in Claimable : PriorityOf[job[k].command] <= PriorityOf[job[j].command]
       /\ job' = [job EXCEPT ![j] = ClaimedRow(j, w)]
       /\ worker' = [worker EXCEPT ![w] =
                       [at |-> "claimed", job |-> j, attempt |-> job'[j].attempts,
                        since |-> current]]
  /\ UNCHANGED <<current, ledger, caller, faults>>

At(w, place) == worker[w].at = place

Goto(w, place) == worker' = [worker EXCEPT ![w].at = place]

Done(w) == worker' = [worker EXCEPT ![w] = Polling]

Startable(w, r) == r.state = "CLAIMED" /\ r.by = w /\ r.leased

(* START_RUNNING; process() returns LEASE_LOST when it updates no row.      *)
Start(w) ==
  LET j == worker[w].job IN
    /\ At(w, "claimed")
    /\ IF Startable(w, job[j])
       THEN job' = [job EXCEPT ![j].state = "RUNNING"] /\ Goto(w, "started")
       ELSE Done(w) /\ UNCHANGED job
    /\ UNCHANGED <<current, ledger, caller, faults>>

(* Variant: every target passes. *)
FreshUnchecked(target) == target \in Snapshots

(* VariantFreshnessChecker: same fingerprint for this variant as the current *)
(* snapshot's.  The BLOCKED result needs a target or current row missing,    *)
(* which the foreign key and append-only snapshots rule out.                 *)
Fresh(target) == Fingerprint[target] = Fingerprint[current]

CheckFreshness(w) ==
  /\ At(w, "started")
  /\ Goto(w, IF Fresh(job[worker[w].job].target) THEN "building" ELSE "stale")
  /\ UNCHANGED <<current, job, ledger, caller, faults>>

(* The build service returns a new or reused report, or fails for a reason   *)
(* the retry policy lists as RETRY, BLOCK or FAIL.                           *)
Build(w) ==
  /\ At(w, "building")
  /\ \E outcome \in {"SUCCEEDED", "NO_OP", "RETRY", "BLOCK", "FAIL"} : Goto(w, outcome)
  /\ UNCHANGED <<current, job, ledger, caller, faults>>

(* Variant: one attempt too many. *)
ClassifiedOffByOne(action, attempt) ==
  IF action = "RETRY" /\ attempt > MaxAttempts THEN "FAIL" ELSE action

(* RetryPolicy.classify *)
Classified(action, attempt) ==
  IF action = "RETRY" /\ attempt >= MaxAttempts THEN "FAIL" ELSE action

(* The WHERE clause of the closing updates. *)
Settles(w, j, from) == job[j].by = w /\ job[j].state \in from

(* Variant: the worker stays on the row. *)
ReleasedKeepsWorker(j, state, due) ==
  [job[j] EXCEPT !.state = state, !.leased = FALSE, !.due = due]

Released(j, state, due) ==
  [job[j] EXCEPT !.state = state, !.by = NoWorker, !.leased = FALSE, !.due = due]

(* A closing update that matches no row is ignored by its callers.          *)
Settle(w, from, state, due) ==
  LET j == worker[w].job IN
    /\ job' = IF Settles(w, j, from) THEN [job EXCEPT ![j] = Released(j, state, due)] ELSE job
    /\ Done(w)
    /\ UNCHANGED <<current, ledger, caller, faults>>

(* Variant: the stale mark expects the job as it was claimed. *)
MarkStaleIfClaimed(w) == At(w, "stale") /\ Settle(w, {"CLAIMED"}, "STALE", TRUE)

MarkStale(w) == At(w, "stale") /\ Settle(w, {"CLAIMED", "RUNNING"}, "STALE", TRUE)

CompleteSuccess(w) ==
  \E state \in {"SUCCEEDED", "NO_OP"} : At(w, state) /\ Settle(w, {"RUNNING"}, state, TRUE)

(* RegenerationRetryService.handle_failure *)
HandleFailure(w) ==
  \E action \in {"RETRY", "BLOCK", "FAIL"} :
    /\ At(w, action)
    /\ LET verdict == Classified(action, worker[w].attempt) IN
         \/ verdict = "RETRY" /\ Settle(w, {"CLAIMED", "RUNNING"}, "RETRY_WAIT", FALSE)
         \/ verdict = "BLOCK" /\ Settle(w, {"CLAIMED", "RUNNING", "RETRY_WAIT"}, "BLOCKED", TRUE)
         \/ verdict = "FAIL" /\ Settle(w, {"CLAIMED", "RUNNING", "RETRY_WAIT"}, "FAILED", TRUE)

RetryDelayPasses(j) ==
  /\ ~job[j].due
  /\ job' = [job EXCEPT ![j].due = TRUE]
  /\ UNCHANGED <<current, ledger, caller, worker, faults>>

(* The worker does not get to heartbeat in time. *)
LeaseExpires(j) ==
  /\ job[j].leased
  /\ faults < MaxFaults
  /\ faults' = faults + 1
  /\ job' = [job EXCEPT ![j].leased = FALSE]
  /\ UNCHANGED <<current, ledger, caller, worker>>

Crash(w) ==
  /\ worker[w] # Polling
  /\ faults < MaxFaults
  /\ faults' = faults + 1
  /\ Done(w)
  /\ UNCHANGED <<current, job, ledger, caller>>

-----------------------------------------------------------------------------
Process(w) ==
  Start(w) \/ CheckFreshness(w) \/ Build(w) \/ MarkStale(w) \/ CompleteSuccess(w) \/ HandleFailure(w)

Queue(q) == CommitQueue(q) \/ AbortQueue(q)

Next ==
  \/ NewSnapshot
  \/ \E q \in Callers : Decide(q) \/ Queue(q)
  \/ \E w \in Workers : Claim(w) \/ Process(w) \/ Crash(w)
  \/ \E j \in Jobs : RetryDelayPasses(j) \/ LeaseExpires(j)

(***************************************************************************)
(* Queue transactions and process() run on, workers poll, and time passes. *)
(* Nothing obliges a caller to queue or a snapshot to arrive.              *)
(***************************************************************************)
Fairness ==
  /\ \A q \in Callers : WF_vars(Queue(q))
  /\ \A w \in Workers : WF_vars(Claim(w)) /\ WF_vars(Process(w))
  /\ \A j \in Jobs : WF_vars(RetryDelayPasses(j))

(* Callers repeat a command until it is answered. *)
CallersRetry == \A q \in Callers : SF_vars(Decide(q))

Spec == Init /\ [][Next]_vars
FairSpec == Spec /\ Fairness
RetryingSpec == FairSpec /\ CallersRetry

-----------------------------------------------------------------------------
(* The rows are the tables', state shape constraints included (0062).       *)
TypeOK ==
  /\ current \in 0..MaxSnapshot
  /\ job \in [Jobs -> JobRows]
  /\ \A j \in Jobs :
       (job[j].state \in {"CLAIMED", "RUNNING"}) <=> (job[j].by # NoWorker)
  /\ ledger \in [Commands -> Answers]
  /\ \A q \in Callers : caller[q].answer \in Answers
  /\ faults \in 0..MaxFaults

(* Active work is unique per target (M3-001), whatever callers race.        *)
OneActiveJobPerTarget == \A s \in Snapshots : Cardinality(ActiveFor(s)) <= 1

(* A command the ledger answers QUEUED has exactly the job of that answer,  *)
(* for that target, and no other command has a job: queueing again after a  *)
(* failure neither loses a job nor makes a second one.                      *)
JobsMatchLedger ==
  \A c \in Commands :
    {j \in Jobs : job[j].command = c} =
      (IF ledger[c].status = "QUEUED" THEN {ledger[c].job} ELSE {})

(* Retries are bounded: no job is claimed more than MaxAttempts times, and  *)
(* one that waits for a retry has an attempt left.                          *)
AttemptsBounded ==
  \A j \in Jobs :
    /\ job[j].attempts <= MaxAttempts
    /\ job[j].state = "RETRY_WAIT" => job[j].attempts < MaxAttempts

(* Two workers never work on one job at the same time, stalled ones and     *)
(* expired leases included.                                                 *)
NoTwoBuilders ==
  \A v, w \in Workers :
    worker[v].job = worker[w].job /\ worker[v].job # NoJob => v = w

(* A job succeeds only if its target was fresh for the variant at some time *)
(* since it was claimed; a snapshot may still arrive during the build.      *)
SuccessWasFresh ==
  [][\A j \in Jobs :
       job[j].state = "RUNNING" /\ job'[j].state \in {"SUCCEEDED", "NO_OP"} =>
         \E s \in worker[job[j].by].since..current :
           s \in Snapshots /\ Fingerprint[s] = Fingerprint[job[j].target]]_vars

(* CLAIMED or RUNNING, with no worker left that works on it. *)
Orphaned(j) ==
  job[j].state \in {"CLAIMED", "RUNNING"} /\ \A w \in Workers : worker[w].job # j

(* Only a crash or an expired lease orphans a job, and each one orphans no  *)
(* more than one: no error path of process() leaves its row claimed.        *)
OrphansNeedFaults == Cardinality({j \in Jobs : Orphaned(j)}) <= faults

(* Ledger, jobs and workers agree with each other at every commit: no       *)
(* answer without its job, no job without an attempt left or a worker.      *)
JobsAreAccounted ==
  /\ TypeOK
  /\ JobsMatchLedger
  /\ AttemptsBounded
  /\ OrphansNeedFaults

(* Every queued job that is not orphaned is eventually settled: a transient *)
(* failure is retried until it succeeds or the attempts are used up.        *)
EventuallySettledOrOrphaned ==
  \A j \in Jobs :
    job[j].state \in ActiveStates ~> (job[j].state \in FinalStates \/ Orphaned(j))

(* Every queued job is eventually settled: transient worker failures are    *)
(* retried.                                                                 *)
EventuallySettled ==
  \A j \in Jobs : job[j].state \in ActiveStates ~> job[j].state \in FinalStates

(* A caller that repeats its command is eventually answered, whichever      *)
(* other callers it races.                                                  *)
EventuallyAnswered == \A c \in Commands : <>(ledger[c].status # "NEW")

(* A caller that repeats a command found to need a job gets one for its     *)
(* target, its own or another caller's.                                     *)
QueuedJobsArePersisted ==
  \A s \in Snapshots :
    (\E q \in Callers : caller[q].answer.status = "QUEUED" /\ caller[q].answer.target = s)
      ~> (\E j \in Jobs : job[j].target = s)
=============================================================================
