------------------------- MODULE ListingActionsProofs -------------------------
(***************************************************************************)
(* Listing actions keep their promises for any intents, authorities,       *)
(* adapters and callers.  The argument: the journal only grows, a call is  *)
(* begun only by a caller that found no receipt of its key among those it  *)
(* read, and everything downstream of a receipt (verification, case,       *)
(* rollback request) stands on a receipt that will not change.             *)
(***************************************************************************)
EXTENDS ListingActions, TLAPS

Cases == [receipt : Nat, eligible : BOOLEAN]

Approvals == [of : Intents \cup Cases, decision : {"APPROVED", "REJECTED"}, at : Nat]

Actions == [proposal : Intents, approval : Approvals, authority : Authorities]

ExecutionKeys == [kind : {"execute"}, subject : Actions, adapter : Adapters]

RollbackKeys ==
  [kind : {"rollback"},
   subject : [case : Cases, action : Actions, approval : Approvals,
              authority : RollbackAuthorities],
   adapter : Adapters]

Keys == ExecutionKeys \cup RollbackKeys

Outcomes ==
  {"SUCCEEDED", "FAILED", "OUTCOME_UNKNOWN", "DUPLICATE_SUPPRESSED", "BLOCKED_OUTCOME_UNKNOWN"}

Receipts == [key : Keys, outcome : Outcomes]

Calls == [key : Keys, seen : Nat, receipt : Nat]

States == {"VERIFIED", "MISMATCH", "OUTCOME_UNKNOWN", "NOT_APPLICABLE"}

Types ==
  /\ clock \in Nat
  /\ proposals \subseteq Intents
  /\ approvals \subseteq Approvals
  /\ actions \subseteq Actions
  /\ calls \in Seq(Calls)
  /\ running \in [Executors -> Nat]
  /\ receipts \in Seq(Receipts)
  /\ verifications \subseteq [receipt : Nat, state : States]
  /\ cases \subseteq Cases
  /\ requests \subseteq RollbackKeys

RunningCalls == \A e \in Executors : running[e] <= Len(calls)

(* A call found no receipt of its key when it began, and its own one bears the key. *)
CallOK(call) ==
  /\ call.seen <= Len(receipts)
  /\ \A n \in 1..call.seen : receipts[n].key # call.key
  /\ call.receipt # 0 => /\ call.receipt \in DOMAIN receipts
                         /\ receipts[call.receipt].key = call.key
  /\ call.key.kind = "rollback" => call.key \in requests

CallsOK == \A i \in DOMAIN calls : CallOK(calls[i])

(* A verification is of an execution receipt, and says what was observed. *)
VerificationOK(v) ==
  /\ v.receipt \in DOMAIN receipts /\ IsExecution(v.receipt)
  /\ v.state = "VERIFIED" => ProposalOf(v.receipt) \in everApplied
  /\ v.state = "MISMATCH" => ~Unknown(receipts[v.receipt].outcome)

VerificationsOK == \A v \in verifications : VerificationOK(v)

VerifiedOnce == \A v, x \in verifications : v.receipt = x.receipt => v = x

(* A case that may be rolled back has a mismatch of an attempted call. *)
CasesOK ==
  \A c \in cases :
    c.eligible => /\ [receipt |-> c.receipt, state |-> "MISMATCH"] \in verifications
                  /\ Attempted(c.receipt)

RequestsOK == \A k \in requests : k.subject.case \in cases /\ k.subject.case.eligible

IInv ==
  /\ Types
  /\ RunningCalls
  /\ CallsOK
  /\ applied \subseteq everApplied
  /\ VerificationsOK
  /\ VerifiedOnce
  /\ CasesOK
  /\ RequestsOK

-----------------------------------------------------------------------------
LEMMA InitIInv == Init => IInv
BY DEF Init, IInv, Types, RunningCalls, CallsOK, VerificationsOK, VerifiedOnce, CasesOK, RequestsOK

(* Steps that touch neither calls nor receipts nor what stands on them. *)
LEMMA PlanningKeeps ==
  ASSUME IInv, clock' \in Nat, proposals' \subseteq Intents, approvals' \subseteq Approvals,
         actions' \subseteq Actions, UNCHANGED <<executed, reviewed>>
  PROVE  IInv'
<1>1. UNCHANGED <<calls, running, receipts, applied, everApplied>>
  BY DEF executed
<1>2. UNCHANGED <<verifications, cases, resolved, requests>>
  BY DEF reviewed
<1>3. Types' /\ RunningCalls' /\ (applied \subseteq everApplied)'
  BY <1>1, <1>2 DEF IInv, Types, RunningCalls
<1>4. CallsOK'
  BY <1>1, <1>2 DEF IInv, CallsOK, CallOK
<1>5. VerificationsOK' /\ VerifiedOnce' /\ CasesOK' /\ RequestsOK'
  BY <1>1, <1>2 DEF IInv, VerificationsOK, VerificationOK, IsExecution, ProposalOf, VerifiedOnce,
                    CasesOK, Attempted, RequestsOK
<1>6. QED BY <1>3, <1>4, <1>5 DEF IInv

LEMMA DecidingKeeps ==
  ASSUME IInv, Deciding
  PROVE  IInv'
<1>1. PICK subject \in proposals \cup {c \in cases : c.eligible}, decision \in {"APPROVED", "REJECTED"} :
        Decide(subject, decision)
  BY DEF Deciding
<1> DEFINE a == [of |-> subject, decision |-> decision, at |-> clock]
<1>2. a \in Approvals
  BY DEF IInv, Types, Approvals
<1>3. approvals' = approvals \cup {a} /\ UNCHANGED <<clock, proposals, actions, executed, reviewed>>
  BY <1>1 DEF Decide
<1> HIDE DEF a
<1>4. QED BY <1>2, <1>3, PlanningKeeps DEF IInv, Types

LEMMA AuthorizeKeeps ==
  ASSUME IInv, NEW p \in proposals, NEW approval \in approvals, NEW authority \in Authorities,
         Authorize(p, approval, authority)
  PROVE  IInv'
<1> DEFINE a == [proposal |-> p, approval |-> approval, authority |-> authority]
<1>1. a \in Actions
  BY DEF IInv, Types, Actions
<1>2. actions' = actions \cup {a} /\ UNCHANGED <<clock, proposals, approvals, executed, reviewed>>
  BY DEF Authorize
<1> HIDE DEF a
<1>3. QED BY <1>1, <1>2, PlanningKeeps DEF IInv, Types

-----------------------------------------------------------------------------
(* What stands on the receipts of the journal stands when it grows. *)
LEMMA JournalGrows ==
  ASSUME IInv, NEW r \in Receipts, receipts' = Append(receipts, r),
         everApplied \subseteq everApplied', UNCHANGED reviewed
  PROVE  /\ receipts' \in Seq(Receipts) /\ Len(receipts') = Len(receipts) + 1
         /\ receipts'[Len(receipts')] = r
         /\ \A n \in DOMAIN receipts : n \in DOMAIN receipts' /\ receipts'[n] = receipts[n]
         /\ VerificationsOK' /\ VerifiedOnce' /\ CasesOK' /\ RequestsOK'
<1>1. receipts \in Seq(Receipts) /\ UNCHANGED <<verifications, cases, resolved, requests>>
  BY DEF IInv, Types, reviewed
<1>2. /\ receipts' \in Seq(Receipts) /\ Len(receipts') = Len(receipts) + 1
      /\ receipts'[Len(receipts')] = r
      /\ \A n \in DOMAIN receipts : n \in DOMAIN receipts' /\ receipts'[n] = receipts[n]
  BY <1>1
<1>3. VerificationsOK'
  BY <1>1, <1>2 DEF IInv, VerificationsOK, VerificationOK, IsExecution, ProposalOf
<1>4. CasesOK'
  <2> SUFFICES ASSUME NEW c \in cases, c.eligible
               PROVE  /\ [receipt |-> c.receipt, state |-> "MISMATCH"] \in verifications
                      /\ receipts'[c.receipt].outcome \in {"SUCCEEDED", "FAILED", "OUTCOME_UNKNOWN"}
    BY <1>1 DEF CasesOK, Attempted
  <2>1. [receipt |-> c.receipt, state |-> "MISMATCH"] \in verifications /\ Attempted(c.receipt)
    BY DEF IInv, CasesOK
  <2>2. c.receipt \in DOMAIN receipts
    BY <2>1 DEF IInv, VerificationsOK, VerificationOK
  <2>3. QED BY <1>2, <2>1, <2>2 DEF Attempted
<1>5. VerifiedOnce' /\ RequestsOK'
  BY <1>1 DEF IInv, VerifiedOnce, RequestsOK
<1>6. QED BY <1>2, <1>3, <1>4, <1>5

(* So do the calls begun before. *)
LEMMA CallsStand ==
  ASSUME IInv, NEW r \in Receipts, receipts' = Append(receipts, r), UNCHANGED requests,
         NEW call \in Calls, CallOK(call)
  PROVE  CallOK(call)'
<1>1. receipts \in Seq(Receipts) /\ call.seen \in Nat
  BY DEF IInv, Types, Calls
<1>2. /\ Len(receipts') = Len(receipts) + 1
      /\ \A n \in 1..Len(receipts) : n \in DOMAIN receipts' /\ receipts'[n] = receipts[n]
  BY <1>1
<1>3. QED BY <1>1, <1>2 DEF CallOK

LEMMA AttemptKeeps ==
  ASSUME IInv, NEW e \in Executors, NEW key \in Keys, key.kind = "rollback" => key \in requests,
         Attempt(e, key), UNCHANGED <<planned, applied, everApplied, reviewed>>
  PROVE  IInv'
<1>1. /\ UNCHANGED <<clock, proposals, approvals, actions>>
      /\ UNCHANGED <<verifications, cases, resolved, requests>>
  BY DEF planned, reviewed
<1>2. calls \in Seq(Calls) /\ receipts \in Seq(Receipts) /\ running \in [Executors -> Nat]
  BY DEF IInv, Types
<1>3. CASE Journaled(key) = {}
  <2> DEFINE call == [key |-> key, seen |-> Len(receipts), receipt |-> 0]
  <2>1. calls' = Append(calls, call) /\ running' = [running EXCEPT ![e] = Len(calls')]
        /\ receipts' = receipts
    BY <1>3 DEF Attempt
  <2>2. call \in Calls /\ call.key = key /\ call.seen = Len(receipts) /\ call.receipt = 0
    BY <1>2 DEF Calls
  <2>3. CallOK(call)
    BY <1>2, <1>3, <2>2 DEF CallOK, Journaled
  <2> HIDE DEF call
  <2>4. /\ calls' \in Seq(Calls) /\ Len(calls') = Len(calls) + 1
        /\ \A i \in DOMAIN calls' : calls'[i] = call \/ (i \in DOMAIN calls /\ calls'[i] = calls[i])
    BY <1>2, <2>1, <2>2
  <2>5. Types' /\ RunningCalls' /\ (applied \subseteq everApplied)'
    BY <1>1, <1>2, <2>1, <2>4 DEF IInv, Types, RunningCalls
  <2>6. CallsOK'
    BY <1>1, <2>1, <2>3, <2>4 DEF IInv, CallsOK, CallOK
  <2>7. VerificationsOK' /\ VerifiedOnce' /\ CasesOK' /\ RequestsOK'
    BY <1>1, <2>1 DEF IInv, VerificationsOK, VerificationOK, IsExecution, ProposalOf, VerifiedOnce,
                      CasesOK, Attempted, RequestsOK
  <2>8. QED BY <2>5, <2>6, <2>7 DEF IInv
<1>4. CASE Journaled(key) # {}
  <2> DEFINE r == [key |-> key, outcome |-> Suppressed(key)]
  <2>1. receipts' = Append(receipts, r) /\ UNCHANGED <<calls, running>>
    BY <1>4 DEF Attempt
  <2>2. r \in Receipts
    BY DEF Receipts, Outcomes, Suppressed
  <2> HIDE DEF r
  <2>3. receipts' \in Seq(Receipts) /\ VerificationsOK' /\ VerifiedOnce' /\ CasesOK' /\ RequestsOK'
    BY <2>1, <2>2, JournalGrows
  <2>4. Types' /\ RunningCalls' /\ (applied \subseteq everApplied)'
    BY <1>1, <2>1, <2>3 DEF IInv, Types, RunningCalls
  <2>5. CallsOK'
    BY <1>1, <1>2, <2>1, <2>2, CallsStand DEF IInv, CallsOK
  <2>6. QED BY <2>3, <2>4, <2>5 DEF IInv
<1>5. QED BY <1>3, <1>4

LEMMA ExecutingKeeps ==
  ASSUME IInv, Executing
  PROVE  IInv'
<1>1. PICK e \in Executors, adapter \in Adapters :
        \/ \E action \in actions : Execute(e, action, adapter)
        \/ \E request \in requests : request.adapter = adapter /\ Rollback(e, request)
  BY DEF Executing
<1>2. ASSUME NEW action \in actions, Execute(e, action, adapter) PROVE IInv'
  <2> DEFINE key == ExecutionKey(action, adapter)
  <2>1. key \in Keys /\ key.kind = "execute"
    BY DEF IInv, Types, Keys, ExecutionKeys, ExecutionKey
  <2>2. Attempt(e, key) /\ UNCHANGED <<planned, applied, everApplied, reviewed>>
    BY <1>2 DEF Execute
  <2> HIDE DEF key
  <2>3. QED BY <2>1, <2>2, AttemptKeeps
<1>3. ASSUME NEW request \in requests, Rollback(e, request) PROVE IInv'
  <2>1. request \in Keys
    BY DEF IInv, Types, Keys
  <2>2. QED BY <1>3, <2>1, AttemptKeeps DEF Rollback
<1>4. QED BY <1>1, <1>2, <1>3

(* A platform effect that shows was shown at some time. *)
LEMMA EffectRecorded ==
  ASSUME IInv, NEW key, NEW done, Effect(key, done)
  PROVE  everApplied \subseteq everApplied' /\ applied' \subseteq everApplied'
BY DEF IInv, Effect

LEMMA FinishKeeps ==
  ASSUME IInv, NEW e \in Executors, NEW done \in BOOLEAN, NEW reply \in Replies, Finish(e, reply, done)
  PROVE  IInv'
<1> DEFINE k == running[e]
           r == [key |-> calls[k].key, outcome |-> OutcomeOf(reply)]
<1>1. /\ calls \in Seq(Calls) /\ receipts \in Seq(Receipts) /\ running \in [Executors -> Nat]
      /\ k \in Nat /\ k <= Len(calls)
  BY DEF IInv, Types, RunningCalls
<1>2. /\ k # 0 /\ Effect(calls[k].key, done) /\ receipts' = Append(receipts, r)
      /\ calls' = [calls EXCEPT ![k] = [key |-> calls[k].key, seen |-> calls[k].seen,
                                        receipt |-> Len(receipts')]]
      /\ running' = [running EXCEPT ![e] = 0]
      /\ UNCHANGED <<planned, reviewed, holds>>
  BY DEF Finish
<1>3. k \in DOMAIN calls /\ calls[k] \in Calls /\ CallOK(calls[k])
  BY <1>1, <1>2 DEF IInv, CallsOK
<1>4. UNCHANGED <<clock, proposals, approvals, actions, verifications, cases, resolved, requests>>
  BY <1>2 DEF planned, reviewed
<1>5. r \in Receipts /\ r.key = calls[k].key
  BY <1>3 DEF Receipts, Calls, Outcomes, OutcomeOf
<1> HIDE DEF r
<1>6. everApplied \subseteq everApplied' /\ applied' \subseteq everApplied'
  BY <1>2, EffectRecorded
<1>7. /\ receipts' \in Seq(Receipts) /\ Len(receipts') = Len(receipts) + 1
      /\ receipts'[Len(receipts')] = r
      /\ VerificationsOK' /\ VerifiedOnce' /\ CasesOK' /\ RequestsOK'
  BY <1>2, <1>5, <1>6, JournalGrows
<1>8. PICK call \in Calls :
        /\ calls' = [calls EXCEPT ![k] = call]
        /\ call.key = calls[k].key /\ call.seen = calls[k].seen /\ call.receipt = Len(receipts')
  <2> DEFINE new == [key |-> calls[k].key, seen |-> calls[k].seen, receipt |-> Len(receipts')]
  <2>1. Len(receipts') \in Nat /\ calls[k].key \in Keys /\ calls[k].seen \in Nat
    BY <1>1, <1>3, <1>7 DEF Calls
  <2>2. new \in Calls
    BY <2>1 DEF Calls
  <2>3. /\ calls' = [calls EXCEPT ![k] = new]
        /\ new.key = calls[k].key /\ new.seen = calls[k].seen /\ new.receipt = Len(receipts')
    BY <1>2
  <2> HIDE DEF new
  <2>4. QED BY <2>2, <2>3
<1>9. CallOK(call)'
  <2>1. call.seen <= Len(receipts') /\ \A n \in 1..call.seen : receipts'[n].key # call.key
    BY <1>1, <1>2, <1>3, <1>5, <1>8 DEF CallOK, Calls
  <2>2. call.receipt \in DOMAIN receipts' /\ receipts'[call.receipt].key = call.key
    BY <1>5, <1>7, <1>8
  <2>3. QED BY <1>3, <1>4, <1>8, <2>1, <2>2 DEF CallOK
<1>10. /\ calls' \in Seq(Calls) /\ Len(calls') = Len(calls)
       /\ \A i \in DOMAIN calls' : i \in DOMAIN calls /\ calls'[i] = IF i = k THEN call ELSE calls[i]
  BY <1>1, <1>3, <1>8
<1>11. Types' /\ RunningCalls' /\ (applied \subseteq everApplied)'
  BY <1>1, <1>2, <1>4, <1>6, <1>7, <1>10 DEF IInv, Types, RunningCalls
<1>12. CallsOK'
  <2>1. \A x \in Calls : CallOK(x) => CallOK(x)'
    BY <1>2, <1>4, <1>5, CallsStand
  <2>2. \A i \in DOMAIN calls : calls[i] \in Calls /\ CallOK(calls[i])
    BY <1>1 DEF IInv, CallsOK
  <2>3. \A x : x \in Calls /\ (CallOK(x) \/ x = call) => CallOK(x)'
    BY <1>9, <2>1
  <2>4. \A i \in DOMAIN calls' : \E x \in Calls : calls'[i] = x /\ (CallOK(x) \/ x = call)
    BY <1>10, <2>2
  <2>5. QED BY <2>3, <2>4 DEF CallsOK, CallOK
<1>13. QED BY <1>7, <1>11, <1>12 DEF IInv

LEMMA CrashKeeps ==
  ASSUME IInv, NEW e \in Executors, NEW done \in BOOLEAN, Crash(e, done)
  PROVE  IInv'
<1>1. /\ running' = [running EXCEPT ![e] = 0]
      /\ UNCHANGED <<clock, proposals, approvals, actions, calls, receipts, verifications, cases,
                     resolved, requests>>
  BY DEF Crash, planned, reviewed
<1>2. everApplied \subseteq everApplied' /\ applied' \subseteq everApplied'
  BY EffectRecorded DEF Crash
<1>3. Types' /\ RunningCalls'
  BY <1>1 DEF IInv, Types, RunningCalls
<1>4. CallsOK'
  BY <1>1 DEF IInv, CallsOK, CallOK
<1>5. VerificationsOK' /\ VerifiedOnce' /\ CasesOK' /\ RequestsOK'
  BY <1>1, <1>2 DEF IInv, VerificationsOK, VerificationOK, IsExecution, ProposalOf, VerifiedOnce,
                    CasesOK, Attempted, RequestsOK
<1>6. QED BY <1>2, <1>3, <1>4, <1>5 DEF IInv

-----------------------------------------------------------------------------
(* Review of receipts: nothing is called, journaled or taken back. *)
LEMMA ReviewKeeps ==
  ASSUME IInv, UNCHANGED <<planned, executed>>,
         verifications' \subseteq [receipt : Nat, state : States], verifications \subseteq verifications',
         cases' \subseteq Cases, cases \subseteq cases',
         requests' \subseteq RollbackKeys, requests \subseteq requests',
         \A v \in verifications' \ verifications : VerificationOK(v), VerifiedOnce',
         \A c \in cases' \ cases : c.eligible =>
           [receipt |-> c.receipt, state |-> "MISMATCH"] \in verifications /\ Attempted(c.receipt),
         \A k \in requests' \ requests : k.subject.case \in cases /\ k.subject.case.eligible
  PROVE  IInv'
<1>1. /\ UNCHANGED <<clock, proposals, approvals, actions>>
      /\ UNCHANGED <<calls, running, receipts, applied, everApplied>>
  BY DEF planned, executed
<1>2. Types' /\ RunningCalls' /\ (applied \subseteq everApplied)'
  BY <1>1 DEF IInv, Types, RunningCalls
<1>3. CallsOK'
  BY <1>1 DEF IInv, CallsOK, CallOK
<1>4. VerificationsOK'
  BY <1>1 DEF IInv, VerificationsOK, VerificationOK, IsExecution, ProposalOf
<1>5. CasesOK'
  BY <1>1 DEF IInv, CasesOK, Attempted
<1>6. RequestsOK'
  BY DEF IInv, RequestsOK
<1>7. QED BY <1>2, <1>3, <1>4, <1>5, <1>6 DEF IInv

LEMMA VerifyKeeps ==
  ASSUME IInv, NEW n \in Items, NEW observed \in BOOLEAN, Verify(n, observed)
  PROVE  IInv'
<1> DEFINE v == [receipt |-> n, state |-> StateOf(n, observed)]
<1>1. /\ \A x \in verifications : x.receipt # n
      /\ verifications' = verifications \cup {v}
      /\ UNCHANGED <<planned, executed, cases, resolved, requests>>
  BY DEF Verify
<1>2. n \in DOMAIN receipts /\ IsExecution(n) /\ n \in Nat /\ receipts[n].outcome \in Outcomes
  <2>1. n \in DOMAIN receipts /\ IsExecution(n) /\ receipts \in Seq(Receipts)
    BY DEF Items, IInv, Types
  <2>2. n \in Nat /\ receipts[n] \in Receipts
    BY <2>1
  <2>3. QED BY <2>1, <2>2 DEF Receipts
<1>3. /\ StateOf(n, observed) \in States
      /\ StateOf(n, observed) = "VERIFIED" => ProposalOf(n) \in applied
      /\ StateOf(n, observed) = "MISMATCH" => ~Unknown(receipts[n].outcome)
  <2>1. CASE receipts[n].outcome = "DUPLICATE_SUPPRESSED"
    BY <2>1 DEF StateOf, States
  <2>2. CASE /\ receipts[n].outcome # "DUPLICATE_SUPPRESSED"
             /\ Unknown(receipts[n].outcome) \/ (Attempted(n) /\ ~observed)
    BY <2>2 DEF StateOf, States
  <2>3. CASE /\ receipts[n].outcome # "DUPLICATE_SUPPRESSED"
             /\ ~(Unknown(receipts[n].outcome) \/ (Attempted(n) /\ ~observed))
    BY <2>3 DEF StateOf, States
  <2>4. QED BY <2>1, <2>2, <2>3
<1>4. v \in [receipt : Nat, state : States] /\ v.receipt = n /\ v.state = StateOf(n, observed)
  BY <1>2, <1>3
<1>5. VerificationOK(v)
  BY <1>2, <1>3, <1>4 DEF VerificationOK, IInv
<1> HIDE DEF v
<1>6. VerifiedOnce'
  BY <1>1, <1>4 DEF IInv, VerifiedOnce
<1>7. QED BY <1>1, <1>4, <1>5, <1>6, ReviewKeeps DEF IInv, Types

LEMMA OpenCaseKeeps ==
  ASSUME IInv, NEW v \in verifications, OpenCase(v)
  PROVE  IInv'
<1> DEFINE c == [receipt |-> v.receipt, eligible |-> Eligible(v)]
<1>1. cases' = cases \cup {c} /\ UNCHANGED <<planned, executed, verifications, resolved, requests>>
  BY DEF OpenCase
<1>2. v \in [receipt : Nat, state : States]
  BY DEF IInv, Types
<1>3. c \in Cases /\ c.receipt = v.receipt /\ c.eligible = Eligible(v)
  BY <1>2 DEF Cases, Eligible
<1>4. c.eligible => [receipt |-> c.receipt, state |-> "MISMATCH"] \in verifications /\ Attempted(c.receipt)
  BY <1>2, <1>3 DEF Eligible
<1> HIDE DEF c
<1>5. VerifiedOnce'
  BY <1>1 DEF IInv, VerifiedOnce
<1>6. QED BY <1>1, <1>3, <1>4, <1>5, ReviewKeeps DEF IInv, Types

LEMMA ResolveKeeps ==
  ASSUME IInv, NEW c \in cases, Resolve(c)
  PROVE  IInv'
BY ReviewKeeps DEF Resolve, IInv, Types, VerifiedOnce

LEMMA RequestRollbackKeeps ==
  ASSUME IInv, NEW c \in cases, NEW action \in actions, NEW approval \in approvals,
         NEW authority \in RollbackAuthorities, NEW adapter \in Adapters,
         RequestRollback(c, action, approval, authority, adapter)
  PROVE  IInv'
<1> DEFINE k == [kind |-> "rollback", adapter |-> adapter,
                 subject |-> [case |-> c, action |-> action, approval |-> approval,
                              authority |-> authority]]
<1>1. requests' = requests \cup {k} /\ c.eligible
      /\ UNCHANGED <<planned, executed, verifications, cases, resolved>>
  BY DEF RequestRollback
<1>2. k \in RollbackKeys /\ k.subject.case = c
  BY DEF IInv, Types, RollbackKeys
<1> HIDE DEF k
<1>3. VerifiedOnce'
  BY <1>1 DEF IInv, VerifiedOnce
<1>4. QED BY <1>1, <1>2, <1>3, ReviewKeeps DEF IInv, Types

LEMMA NextKeeps == IInv /\ [Next]_vars => IInv'
<1> SUFFICES ASSUME IInv, [Next]_vars PROVE IInv'
  OBVIOUS
<1>1. CASE Tick
  BY <1>1, PlanningKeeps DEF Tick, IInv, Types
<1>2. ASSUME NEW i \in Intents, Propose(i) PROVE IInv'
  BY <1>2, PlanningKeeps DEF Propose, IInv, Types
<1>3. CASE Deciding
  BY <1>3, DecidingKeeps
<1>4. ASSUME NEW p \in proposals, NEW approval \in approvals, NEW authority \in Authorities,
             Authorize(p, approval, authority)
      PROVE  IInv'
  BY <1>4, AuthorizeKeeps
<1>5. CASE Executing
  BY <1>5, ExecutingKeeps
<1>6. CASE Ending
  BY <1>6, FinishKeeps, CrashKeeps DEF Ending
<1>7. ASSUME NEW n \in Items, NEW observed \in BOOLEAN, Verify(n, observed) PROVE IInv'
  BY <1>7, VerifyKeeps
<1>8. ASSUME NEW v \in verifications, OpenCase(v) PROVE IInv'
  BY <1>8, OpenCaseKeeps
<1>9. ASSUME NEW c \in cases, Resolve(c) PROVE IInv'
  BY <1>9, ResolveKeeps
<1>10. ASSUME NEW c \in cases, NEW action \in actions, NEW approval \in approvals,
              NEW authority \in RollbackAuthorities, NEW adapter \in Adapters,
              RequestRollback(c, action, approval, authority, adapter)
       PROVE  IInv'
  BY <1>10, RequestRollbackKeeps
<1>11. CASE Containing
  <2>1. UNCHANGED <<planned, executed, reviewed>>
    BY <1>11 DEF Containing, Hold, Recover
  <2>2. QED BY <2>1, PlanningKeeps DEF planned, IInv, Types
<1>12. CASE UNCHANGED vars
  BY <1>12, PlanningKeeps DEF vars, executed, reviewed, IInv, Types
<1>13. QED
  BY <1>1, <1>2, <1>3, <1>4, <1>5, <1>6, <1>7, <1>8, <1>9, <1>10, <1>11, <1>12 DEF Next

(* The inductive invariant holds in every behaviour. *)
LEMMA Inductive == Spec => []IInv
<1>1. Init => IInv
  BY InitIInv
<1>2. IInv /\ [Next]_vars => IInv'
  BY NextKeeps
<1>3. QED BY <1>1, <1>2, PTL DEF Spec

-----------------------------------------------------------------------------
LEMMA NeverRepeated == IInv => JournaledNeverRepeated
<1> SUFFICES ASSUME IInv, NEW i \in DOMAIN calls, NEW j \in DOMAIN calls,
                    i # j, calls[i].key = calls[j].key, calls[i].receipt # 0
             PROVE  calls[j].seen < calls[i].receipt
  BY DEF JournaledNeverRepeated
<1>1. calls[i] \in Calls /\ calls[j] \in Calls /\ CallOK(calls[i]) /\ CallOK(calls[j])
  BY DEF IInv, Types, CallsOK
<1>2. receipts \in Seq(Receipts) /\ calls[j].seen \in Nat /\ calls[i].receipt \in 1..Len(receipts)
  BY <1>1 DEF IInv, Types, Calls, CallOK
<1>3. calls[i].receipt \notin 1..calls[j].seen
  BY <1>1 DEF CallOK
<1>4. QED BY <1>2, <1>3

LEMMA Truthful == IInv => WorkspaceIsTruthful
<1> SUFFICES ASSUME IInv PROVE WorkspaceIsTruthful
  OBVIOUS
<1>1. ASSUME NEW n \in Items, ShownReceipt(n) = "COMPLETE"
      PROVE  ProposalOf(n) \in everApplied
  <2>1. StateFor(n) = {"VERIFIED"}
    BY <1>1 DEF ShownReceipt
  <2>2. PICK v \in verifications : v.receipt = n /\ v.state = "VERIFIED"
    BY <2>1 DEF StateFor
  <2>3. QED BY <2>2 DEF IInv, VerificationsOK, VerificationOK
<1>2. ASSUME NEW action \in actions,
             Authorized(action.proposal, action.approval, action.authority), ~Stale(action.approval)
      PROVE  ShownPending(action.approval, action.authority, TRUE) = "APPROVED_NOT_EXECUTED"
  <2>1. action.authority \in Authorities /\ clock \in Nat
    BY DEF IInv, Types, Actions
  <2>2. action.authority.from \in Int /\ action.authority.until \in Int
    BY <2>1, ListingAssumption
  <2>3. ~Expired(action.authority)
    BY <1>2, <2>1, <2>2 DEF Authorized, InWindow, Expired
  <2>4. QED BY <1>2, <2>3 DEF Authorized, InWindow, ShownPending
<1>3. QED BY <1>1, <1>2 DEF WorkspaceIsTruthful

LEMMA MismatchesOnly == IInv => RollbacksFollowMismatch
<1> SUFFICES ASSUME IInv, NEW i \in DOMAIN calls, calls[i].key.kind = "rollback"
             PROVE  LET n == calls[i].key.subject.case.receipt IN
                      /\ IsExecution(n) /\ Attempted(n) /\ ~Unknown(receipts[n].outcome)
                      /\ StateFor(n) = {"MISMATCH"}
  BY DEF RollbacksFollowMismatch
<1> DEFINE c == calls[i].key.subject.case
           v == [receipt |-> c.receipt, state |-> "MISMATCH"]
<1>1. c \in cases /\ c.eligible
  BY DEF IInv, CallsOK, CallOK, RequestsOK
<1>2. v \in verifications /\ Attempted(c.receipt) /\ v.receipt = c.receipt /\ v.state = "MISMATCH"
  BY <1>1 DEF IInv, CasesOK
<1> HIDE DEF v, c
<1>3. IsExecution(c.receipt) /\ ~Unknown(receipts[c.receipt].outcome)
  BY <1>2 DEF IInv, VerificationsOK, VerificationOK
<1>4. StateFor(c.receipt) = {"MISMATCH"}
  BY <1>2 DEF IInv, VerifiedOnce, StateFor
<1>5. QED BY <1>2, <1>3, <1>4 DEF c

-----------------------------------------------------------------------------
(* execute_authorized_action and execute_rollback never begin the adapter    *)
(* call of a key whose receipt the caller could read, for any number of      *)
(* callers: two calls of one key began before either was journaled.          *)
THEOREM JournaledCallsStayUnique == Spec => []JournaledNeverRepeated
BY Inductive, NeverRepeated, PTL

(* What build_workspace_item shows as complete took effect at some time, and *)
(* what may be executed now is not shown as blocked.                         *)
THEOREM WorkspaceStaysTruthful == Spec => []WorkspaceIsTruthful
BY Inductive, Truthful, PTL

(* Every rollback call is of an attempted execution whose one verification   *)
(* observed a mismatch: rollback_eligibility holds until the call.           *)
THEOREM RollbacksStayGrounded == Spec => []RollbacksFollowMismatch
BY Inductive, MismatchesOnly, PTL
=============================================================================
