-------------------------- MODULE CandidateRollout --------------------------
(***************************************************************************)
(* One production certification run: a pilot is resolved and run in the    *)
(* shadow, a sample is audited by hand, a limited approval is issued,      *)
(* cohorts are frozen, deployed property by property and certified, each   *)
(* on the evidence of the one before, and the final suite says GO or       *)
(* NO_GO.  Every result is a record its callers hold: it is not taken back *)
(* when the world changes.                                                 *)
(***************************************************************************)
EXTENDS Integers, Sequences, FiniteSets, SequencesExt

CONSTANTS
  Fleet,           \* the properties, numbered in the order of their ids
  PilotCap,        \* max_pilot_properties
  Stages,          \* the cohort codes in order
  StageSize,       \* code -> property_count, 0 for ALL_REMAINING
  MinimumCycles,   \* minimum_consecutive_cycles
  MaxCycles,       \* bound: shadow cycles
  SampleSize,
  Duration,        \* max_duration_hours of a limited approval
  MaxApprovals,    \* bound: limited approvals
  MaxTime          \* bound: the clock

ASSUME CandidateAssumption ==
  /\ IsFiniteSet(Fleet) /\ PilotCap \in Nat /\ Duration \in Nat
  /\ Stages \in Seq(STRING \ {"none"}) /\ Stages # <<>>
  /\ \A i, j \in DOMAIN Stages : Stages[i] = Stages[j] => i = j
  /\ StageSize \in [ToSet(Stages) -> Nat]

VARIABLES
  eligible,        \* properties that meet the pilot policy now
  blocked,         \* some stop condition other than shadow acceptance holds now
  stop,            \* the last stop result: "none", "CLEAR" or "STOP"
  pilot,           \* the selected properties, in order
  cycles,          \* recorded shadow cycles [pilot, failed]
  sample,          \* [cycle, properties]
  audits,          \* sampled property -> audit status
  accepted,        \* the last acceptance: "none", "PASS" or "FAIL"
  approvals,       \* limited approvals [pilot, issued, expires]
  cohorts,         \* code -> [members, approval], members <<>> before the freeze
  items,           \* code -> the statuses of its deployment
  running,         \* the code being deployed, or "none"
  certs,           \* code -> "none", "PASS" or "FAIL"
  baselines,       \* code -> properties whose pointers were captured
  live,            \* properties the candidate is published for
  verdict,
  now

pilotVars == <<pilot, cycles, sample, audits, accepted>>
cohortVars == <<cohorts, items, running, certs, baselines, live>>
candidateVars == <<eligible, blocked, stop, pilotVars, approvals, cohortVars, verdict, now>>

NoSample == [cycle |-> 0, properties |-> {}]

CandidateInit ==
  /\ eligible = Fleet /\ blocked = FALSE /\ stop = "none"
  /\ pilot = <<>> /\ cycles = <<>> /\ sample = NoSample /\ audits = <<>> /\ accepted = "none"
  /\ approvals = <<>>
  /\ cohorts = [s \in ToSet(Stages) |-> [members |-> <<>>, approval |-> 0]]
  /\ items = [s \in ToSet(Stages) |-> <<>>] /\ running = "none"
  /\ certs = [s \in ToSet(Stages) |-> "none"]
  /\ baselines = [s \in ToSet(Stages) |-> {}] /\ live = {}
  /\ verdict = "none" /\ now = 0

(* A set of properties in the order of their ids: the one member of this set. *)
InOrder(set) ==
  {seq \in [1..Cardinality(set) -> set] : \A i, j \in DOMAIN seq : i < j => seq[i] < seq[j]}
Prefix(seq, n) == SubSeq(seq, 1, IF n < Len(seq) THEN n ELSE Len(seq))
Prior(s) == Stages[CHOOSE i \in 1..(Len(Stages) - 1) : Stages[i + 1] = s]

-----------------------------------------------------------------------------
(* The pilot *)

(* Incidents open, freezes come and go, snapshots fail their QA.  Nothing reads *)
(* the world once a verdict stands.                                            *)
WorldChanges ==
  /\ \/ blocked' = ~ blocked /\ UNCHANGED eligible
     \/ \E p \in eligible : eligible' = eligible \ {p} /\ UNCHANGED blocked
  /\ verdict = "none"
  /\ UNCHANGED <<stop, pilotVars, approvals, cohortVars, verdict, now>>

Tick ==
  /\ now < MaxTime /\ now' = now + 1
  /\ UNCHANGED <<eligible, blocked, stop, pilotVars, approvals, cohortVars, verdict>>

(* The eligible properties up to the cap; the rest get PILOT_CAP_EXCEEDED. *)
ResolvePilot ==
  /\ \E ordered \in InOrder(eligible) : pilot' = Prefix(ordered, PilotCap)
  /\ pilot' # pilot
  /\ UNCHANGED <<eligible, blocked, stop, cycles, sample, audits, accepted, approvals, cohortVars, verdict, now>>

(* ShadowModeOrchestrator.run and ShadowCycleTracker.capture *)
RunShadow(failed) ==
  /\ pilot # <<>> /\ Len(cycles) < MaxCycles
  /\ cycles' = Append(cycles, [pilot |-> pilot, failed |-> failed])
  /\ UNCHANGED <<eligible, blocked, stop, pilot, sample, audits, accepted, approvals, cohortVars, verdict, now>>

(* The failed properties first, then the others by a hash of their ids. *)
Sampled(n, chosen) ==
  LET failed == cycles[n].failed
      size == IF SampleSize < Len(pilot) THEN SampleSize ELSE Len(pilot)
  IN /\ chosen \subseteq ToSet(pilot) /\ Cardinality(chosen) = size
     /\ failed \subseteq chosen \/ chosen \subseteq failed

BuildSample(n, chosen) ==
  /\ pilot # <<>> /\ ToSet(cycles[n].pilot) \subseteq ToSet(pilot)
  /\ Sampled(n, chosen)
  /\ sample' = [cycle |-> n, properties |-> chosen] /\ sample' # sample
  /\ audits' = <<>>
  /\ UNCHANGED <<eligible, blocked, stop, pilot, cycles, accepted, approvals, cohortVars, verdict, now>>

CaptureAudit(p, status) ==
  /\ p \in sample.properties \ DOMAIN audits
  /\ audits' = [q \in DOMAIN audits \cup {p} |-> IF q = p THEN status ELSE audits[q]]
  /\ UNCHANGED <<eligible, blocked, stop, pilot, cycles, sample, accepted, approvals, cohortVars, verdict, now>>

(* The newest cycles without a failed target, counted back from the last one *)
Passing ==
  LET n == Len(cycles)
      failing == {i \in 1..n : cycles[i].failed # {}}
  IN IF failing = {} THEN n ELSE n - CHOOSE i \in failing : \A j \in failing : j <= i

AcceptanceReasons ==
  {r \in {"DRIFT", "CYCLES", "LATEST", "INCOMPLETE", "NOT_ALL_PASS"} :
     CASE r = "DRIFT"        -> \E i \in DOMAIN cycles : cycles[i].pilot # pilot
       [] r = "CYCLES"       -> Passing < MinimumCycles
       [] r = "LATEST"       -> sample.cycle = 0 \/ sample.cycle # Len(cycles)
       [] r = "INCOMPLETE"   -> DOMAIN audits # sample.properties
       [] r = "NOT_ALL_PASS" -> \E p \in DOMAIN audits : audits[p] # "PASS"}

EvaluateAcceptance ==
  /\ accepted' = IF AcceptanceReasons = {} THEN "PASS" ELSE "FAIL"
  /\ UNCHANGED <<eligible, blocked, stop, pilot, cycles, sample, audits, approvals, cohortVars, verdict, now>>

-----------------------------------------------------------------------------
(* Go-live control *)

EvaluateStop ==
  /\ stop' = IF blocked \/ accepted # "PASS" THEN "STOP" ELSE "CLEAR"
  /\ UNCHANGED <<eligible, blocked, pilotVars, approvals, cohortVars, verdict, now>>

IssueApproval ==
  /\ accepted = "PASS" /\ stop = "CLEAR" /\ Len(approvals) < MaxApprovals
  /\ approvals' = Append(approvals, [pilot |-> pilot, issued |-> now, expires |-> now + Duration])
  /\ UNCHANGED <<eligible, blocked, stop, pilotVars, cohortVars, verdict, now>>

Active(approval) == approval.issued <= now /\ now < approval.expires

FreezeFirst(a) ==
  LET s == Stages[1] IN
    /\ cohorts[s].members = <<>>
    /\ approvals[a].pilot = pilot /\ Active(approvals[a])
    /\ Len(pilot) >= StageSize[s]
    /\ cohorts' = [cohorts EXCEPT ![s] = [members |-> Prefix(pilot, StageSize[s]), approval |-> a]]
    /\ UNCHANGED <<eligible, blocked, stop, pilotVars, approvals, items, running, certs, baselines, live, verdict, now>>

(* Variant: a prior cohort needs no certification. *)
CertifiedAnyhow(s) == cohorts[s].members # <<>>

Certified(s) == certs[s] = "PASS"

(* The caller names the prior cohorts; only the immediate one must be among them. *)
FreezeNext(s, priors) ==
  LET excluded == UNION {ToSet(cohorts[t].members) : t \in priors}
  IN /\ Prior(s) \in priors /\ Certified(Prior(s)) /\ stop = "CLEAR"
     /\ cohorts[s].members = <<>>
     /\ \E left \in InOrder(eligible \ excluded) :
          LET chosen == IF StageSize[s] = 0 THEN left ELSE Prefix(left, StageSize[s])
          IN /\ chosen # <<>> /\ (StageSize[s] = 0 \/ Len(chosen) = StageSize[s])
             /\ cohorts' = [cohorts EXCEPT ![s].members = chosen]
     /\ UNCHANGED <<eligible, blocked, stop, pilotVars, approvals, items, running, certs, baselines, live, verdict, now>>

(* The approval and the stop result are looked at before the first property only. *)
StartDeployment(s) ==
  /\ running = "none" /\ items[s] = <<>> /\ cohorts[s].members # <<>> /\ stop = "CLEAR"
  /\ IF s = Stages[1] THEN Active(approvals[cohorts[s].approval]) ELSE Certified(Prior(s))
  /\ running' = s
  /\ UNCHANGED <<eligible, blocked, stop, pilotVars, approvals, cohorts, items, certs, baselines, live, verdict, now>>

(* The first failure ends the deployment. *)
DeployProperty(ok) ==
  /\ running # "none"
  /\ LET s == running
         p == cohorts[s].members[Len(items[s]) + 1]
         done == ~ ok \/ Len(items[s]) + 1 = Len(cohorts[s].members)
     IN /\ items' = [items EXCEPT ![s] = Append(@, IF ok THEN "PASS" ELSE "FAIL")]
        /\ live' = IF ok THEN live \cup {p} ELSE live
        /\ running' = IF done THEN "none" ELSE s
  /\ UNCHANGED <<eligible, blocked, stop, pilotVars, approvals, cohorts, certs, baselines, verdict, now>>

(* A deployment that ends without its record, as when its process dies, is made again. *)
LoseDeployment ==
  /\ running # "none"
  /\ items' = [items EXCEPT ![running] = <<>>] /\ running' = "none"
  /\ UNCHANGED <<eligible, blocked, stop, pilotVars, approvals, cohorts, certs, baselines, live, verdict, now>>

CertifyReasons(s) ==
  {r \in {"COUNT", "ITEM"} :
     IF r = "COUNT" THEN Len(items[s]) # Len(cohorts[s].members)
     ELSE \E i \in DOMAIN items[s] : items[s][i] # "PASS"}

Certify(s) ==
  /\ running # s /\ items[s] # <<>> /\ certs[s] = "none"
  /\ certs' = [certs EXCEPT ![s] = IF CertifyReasons(s) = {} THEN "PASS" ELSE "FAIL"]
  /\ UNCHANGED <<eligible, blocked, stop, pilotVars, approvals, cohorts, items, running, baselines, live, verdict, now>>

(* A hand-off to automation, then the pointers of every property of the cohort *)
CaptureBaseline(s) ==
  /\ s # Stages[1] /\ Certified(Prior(s)) /\ stop = "CLEAR"
  /\ cohorts[s].members # <<>> /\ baselines[s] = {}
  /\ baselines' = [baselines EXCEPT ![s] = ToSet(cohorts[s].members)]
  /\ UNCHANGED <<eligible, blocked, stop, pilotVars, approvals, cohorts, items, running, certs, live, verdict, now>>

(* A pointer that cannot be restored is contained; certifications stay as they are. *)
RollBack(s) ==
  /\ baselines[s] # {} /\ running # s /\ live \cap baselines[s] # {}
  /\ live' = live \ baselines[s]
  /\ UNCHANGED <<eligible, blocked, stop, pilotVars, approvals, cohorts, items, running, certs, baselines, verdict, now>>

(* The evidence bundle, the full approval and the final suite, on live PostgreSQL evidence *)
Conclude(revoked, database) ==
  LET complete == \A s \in ToSet(Stages) : certs[s] = "PASS"
      approved == complete /\ stop = "CLEAR" /\ ~ revoked
  IN /\ verdict \in {"none", "BLOCKED"}
     /\ verdict' = CASE ~ approved \/ database = "FAIL" -> "FAIL"
                     [] approved /\ database \notin {"PASS", "FAIL"} -> "BLOCKED"
                     [] approved /\ database = "PASS"   -> "GO"
     /\ UNCHANGED <<eligible, blocked, stop, pilotVars, approvals, cohortVars, now>>

CandidateNext ==
  \/ WorldChanges \/ Tick \/ ResolvePilot \/ EvaluateAcceptance \/ EvaluateStop \/ IssueApproval
  \/ \E failed \in SUBSET ToSet(pilot) : RunShadow(failed)
  \/ \E n \in DOMAIN cycles, chosen \in SUBSET ToSet(pilot) : BuildSample(n, chosen)
  \/ \E p \in sample.properties, status \in {"PASS", "REVIEW_REQUIRED"} : CaptureAudit(p, status)
  \/ \E a \in DOMAIN approvals : FreezeFirst(a)
  \/ \E s \in ToSet(Tail(Stages)), priors \in SUBSET ToSet(Stages) : FreezeNext(s, priors)
  \/ \E s \in ToSet(Stages) : StartDeployment(s) \/ Certify(s) \/ CaptureBaseline(s) \/ RollBack(s)
  \/ \E ok \in BOOLEAN : DeployProperty(ok)
  \/ LoseDeployment
  \/ \E revoked \in BOOLEAN, database \in {"PASS", "FAIL", "NOT_RUN"} : Conclude(revoked, database)

CandidateSpec == CandidateInit /\ [][CandidateNext]_candidateVars

-----------------------------------------------------------------------------
(* CohortMembershipFreezer, Cohort25DeploymentService, the progressive services *)
(* and Milestone7FinalCertificationSuite: whatever changes between the steps,   *)
(* only members of frozen cohorts are ever live; a stage that touched any       *)
(* property did so after every property of the stage before it was deployed,    *)
(* with none of those in it again; and GO is said only of a rollout whose every *)
(* cohort was deployed to its last property from an approved pilot.             *)
ExposureIsStaged ==
  /\ live \subseteq UNION {ToSet(cohorts[s].members) : s \in ToSet(Stages)}
  /\ \A s \in ToSet(Tail(Stages)) : items[s] # <<>> =>
       /\ Len(items[Prior(s)]) = Len(cohorts[Prior(s)].members)
       /\ \A i \in DOMAIN items[Prior(s)] : items[Prior(s)][i] = "PASS"
       /\ ToSet(cohorts[s].members) \cap ToSet(cohorts[Prior(s)].members) = {}
  /\ verdict \in {"GO", "BLOCKED"} => \A s \in ToSet(Stages) :
       /\ Len(items[s]) = Len(cohorts[s].members) /\ items[s] # <<>>
       /\ ToSet(items[s]) = {"PASS"}
       /\ ToSet(cohorts[Stages[1]].members) \subseteq
            ToSet(approvals[cohorts[Stages[1]].approval].pilot)
================================================================================
