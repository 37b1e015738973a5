--------------------------- MODULE ReportingProofs ---------------------------
(***************************************************************************)
(* What holds of report and render versions, of releases, of bulk impact   *)
(* evaluation and of operations for any builders, members, changes,        *)
(* consumers, incidents and bounds.  Each part has an inductive invariant  *)
(* of its own.  That of versions follows the hash which a transaction      *)
(* carries from its decision to its insert; a release's says where live    *)
(* targets and approvals come from, a batch's what a settled item was      *)
(* evaluated for, that of operations which command lifted which freeze.    *)
(***************************************************************************)
EXTENDS ReportVersions, ReleaseRollout, ImpactBatches, OperationsRecovery,
        FiniteSetTheorems, SequenceTheorems, WellFoundedInduction, TLAPS

-----------------------------------------------------------------------------
(* The least of some numbers, for the operators that choose one. *)

Less == {ss \in Nat \X Nat : ss[1] < ss[2]}

LEMMA NumbersAreWellFounded == IsWellFoundedOn(Less, Nat)
BY NatLessThanWellFounded, Zenon DEF OpToRel, Less

LEMMA LeastNumber ==
  ASSUME NEW T \in SUBSET Nat, T # {}
  PROVE  \E x \in T : \A y \in T : x <= y
<1>1. PICK x \in T : \A y \in T : ~(<<y, x>> \in Less)
  BY WFMin, NumbersAreWellFounded
<1>2. \A y \in T : ~(y < x)
  BY <1>1 DEF Less
<1>3. QED BY <1>2

-----------------------------------------------------------------------------
(* Report and render versions.  The argument: the unique key lets an insert *)
(* add a hash to the log of its key only if it is not there, and every      *)
(* other step leaves keys, numbers and hashes alone.                        *)

Payloads == {Payload(s, v) : s \in Snapshots, v \in Variants}

VersionRows == [input : AllInputs, payload : Payloads \cup AllInputs,
                state : {"BUILDING", "VALIDATING", "READY", "STALE"}]

(* What a transaction will store, of the kind of its key. *)
Carries(t) ==
  /\ t.key \in Keys /\ t.input \in AllInputs
  /\ t.content \in Payloads \cup AllInputs
  /\ t.key.kind = "report" => t.content \in Payloads

VersionsHoldHashes == versions \in [Keys -> Seq(VersionRows)]

(* A render hashes the payload of its report, so that must be one. *)
ReportsHoldPayloads ==
  \A key \in Keys : key.kind = "report" =>
    \A n \in DOMAIN versions[key] : versions[key][n].payload \in Payloads

BuildersCarryHashes ==
  /\ DOMAIN tx = Builders
  /\ \A b \in Builders : tx[b].step # "idle" => Carries(tx[b])

LogInv == VersionsHoldHashes /\ ReportsHoldPayloads /\ BuildersCarryHashes

-----------------------------------------------------------------------------
LEMMA InitHoldsHashes == ReportInit => LogInv
<1> SUFFICES ASSUME ReportInit PROVE LogInv
  OBVIOUS
<1>1. VersionsHoldHashes
  BY DEF ReportInit, VersionsHoldHashes
<1>2. ReportsHoldPayloads
  BY DEF ReportInit, ReportsHoldPayloads
<1>3. BuildersCarryHashes
  BY DEF ReportInit, BuildersCarryHashes, Idle
<1>4. QED BY <1>1, <1>2, <1>3 DEF LogInv

(* A transaction that begins with, keeps or drops a hash disturbs nothing. *)
LEMMA TransactionsCarry ==
  ASSUME LogInv, NEW b \in Builders, NEW t,
         t.step # "idle" => Carries(t),
         tx' = [tx EXCEPT ![b] = t], versions' = versions
  PROVE  LogInv'
<1>1. Keys' = Keys /\ AllInputs' = AllInputs /\ Payloads' = Payloads
  OBVIOUS
<1>2. VersionsHoldHashes' /\ ReportsHoldPayloads'
  BY DEF LogInv, VersionsHoldHashes, ReportsHoldPayloads
<1>3. BuildersCarryHashes'
  BY DEF LogInv, BuildersCarryHashes, Carries
<1>4. QED BY <1>2, <1>3 DEF LogInv

(* Deduplication stores nothing and passes its hash on. *)
LEMMA DecideCarries ==
  ASSUME LogInv, NEW b \in Builders, NEW key \in Keys, NEW input \in AllInputs,
         NEW content \in Payloads \cup AllInputs,
         key.kind = "report" => content \in Payloads,
         Decide(b, key, input, content)
  PROVE  LogInv' /\ versions' = versions
<1>1. versions' = versions
  BY DEF Decide
<1>2. CASE Equivalent(key, input) # {}
  <2>1. tx' = tx
    BY <1>2 DEF Decide
  <2>2. QED BY <1>1, <2>1 DEF LogInv, VersionsHoldHashes, ReportsHoldPayloads, BuildersCarryHashes, Carries
<1>3. CASE Equivalent(key, input) = {}
  <2> DEFINE t == [step |-> "new", key |-> key, input |-> input, content |-> content]
  <2>1. tx' = [tx EXCEPT ![b] = t]
    BY <1>3 DEF Decide
  <2>2. Carries(t)
    BY DEF Carries
  <2> HIDE DEF t
  <2>3. QED BY <1>1, <2>1, <2>2, TransactionsCarry
<1>4. QED BY <1>1, <1>2, <1>3

LEMMA BuildCarries ==
  ASSUME LogInv, NEW b \in Builders, NEW s \in Snapshots, NEW v \in Variants, Build(b, s, v)
  PROVE  LogInv' /\ versions' = versions
<1> DEFINE key == [kind |-> "report", variant |-> v]
<1>1. key \in Keys /\ key.kind = "report"
  BY DEF Keys, ReportKeys
<1>2. InputHash(s, v) \in AllInputs /\ Payload(s, v) \in Payloads
  BY DEF AllInputs, Payloads
<1>3. Decide(b, key, InputHash(s, v), Payload(s, v))
  BY DEF Build
<1> HIDE DEF key
<1>4. QED BY <1>1, <1>2, <1>3, DecideCarries

(* A render's hash is one of a payload that its report version holds. *)
LEMMA RenderCarries ==
  ASSUME LogInv, NEW b \in Builders, NEW key \in RenderKeys, NEW profile \in Profiles,
         Render(b, key, profile)
  PROVE  LogInv' /\ versions' = versions
<1> DEFINE report == [kind |-> "report", variant |-> key.variant]
           row    == versions[report][key.number]
           hash   == PresentationHash(row, key.type, profile)
<1>1. key \in Keys /\ key.kind # "report" /\ key.type \in RenderTypes /\ key.variant \in Variants
  BY DEF Keys, RenderKeys
<1>2. report \in Keys /\ report.kind = "report"
  BY <1>1 DEF Keys, ReportKeys
<1>3. row.payload \in Payloads
  BY <1>2 DEF LogInv, ReportsHoldPayloads, Render
<1>4. PICK s \in Snapshots, v \in Variants : row.payload = Payload(s, v)
  BY <1>3 DEF Payloads
<1>5. hash = PresentationHash([payload |-> Payload(s, v)], key.type, profile)
  BY <1>4 DEF PresentationHash
<1>6. hash \in AllInputs
  BY <1>1, <1>5 DEF AllInputs
<1>7. Decide(b, key, hash, hash)
  BY DEF Render
<1> HIDE DEF hash
<1>8. QED BY <1>1, <1>6, <1>7, DecideCarries

-----------------------------------------------------------------------------
(* The log of a table of versions. *)
LogOf(table) == [key \in Keys |-> [n \in DOMAIN table[key] |-> table[key][n].input]]

InputsOf(rows) == [n \in DOMAIN rows |-> rows[n].input]

LEMMA FunctionsAreSequences ==
  ASSUME NEW S, NEW n \in Nat, NEW f \in [1..n -> S]
  PROVE  f \in Seq(S) /\ Len(f) = n
OBVIOUS

LEMMA InputsAreSequences ==
  ASSUME NEW rows \in Seq(VersionRows)
  PROVE  InputsOf(rows) \in Seq(AllInputs) /\ Len(InputsOf(rows)) = Len(rows)
<1>1. Len(rows) \in Nat /\ DOMAIN rows = 1..Len(rows) /\ rows \in [1..Len(rows) -> VersionRows]
  BY LenProperties
<1>2. InputsOf(rows) \in [1..Len(rows) -> AllInputs]
  BY <1>1 DEF InputsOf, VersionRows
<1>3. QED BY <1>1, <1>2, FunctionsAreSequences

(* The inputs of a longer table are the inputs of the shorter one and one more. *)
LEMMA InputsOfAppend ==
  ASSUME NEW rows \in Seq(VersionRows), NEW row \in VersionRows
  PROVE  InputsOf(Append(rows, row)) = Append(InputsOf(rows), row.input)
<1> DEFINE long == InputsOf(Append(rows, row))
           tail == Append(InputsOf(rows), row.input)
<1>1. Append(rows, row) \in Seq(VersionRows) /\ Len(Append(rows, row)) = Len(rows) + 1 /\ Len(rows) \in Nat
  OBVIOUS
<1>2. InputsOf(rows) \in Seq(AllInputs) /\ Len(InputsOf(rows)) = Len(rows) /\ row.input \in AllInputs
  BY InputsAreSequences DEF VersionRows
<1>3. long \in Seq(AllInputs) /\ Len(long) = Len(rows) + 1
  BY <1>1, InputsAreSequences
<1>4. tail \in Seq(AllInputs) /\ Len(tail) = Len(rows) + 1
  BY <1>2
<1>5. ASSUME NEW n \in 1..Len(long) PROVE long[n] = tail[n]
  <2>1. long[n] = Append(rows, row)[n].input
    BY <1>1, <1>3 DEF InputsOf
  <2>2. CASE n = Len(rows) + 1
    BY <1>1, <1>2, <2>1, <2>2
  <2>3. CASE n # Len(rows) + 1
    <3>1. n \in 1..Len(rows)
      BY <1>1, <1>3, <2>3
    <3>2. long[n] = rows[n].input
      BY <2>1, <3>1
    <3>3. tail[n] = InputsOf(rows)[n]
      BY <1>2, <3>1
    <3>4. QED BY <3>1, <3>2, <3>3 DEF InputsOf
  <2>4. QED BY <2>2, <2>3
<1> HIDE DEF long, tail
<1>6. long = tail
  BY <1>3, <1>4, <1>5, SeqEqual
<1>7. QED BY <1>6 DEF long, tail

LEMMA LogOfInit == ReportInit => Log!Init
<1> SUFFICES ASSUME ReportInit PROVE LogOf(versions) = [key \in Keys |-> <<>>]
  BY DEF Log!Init, LogOf
<1>1. \A key \in Keys : [n \in DOMAIN versions[key] |-> versions[key][n].input] = <<>>
  BY DEF ReportInit
<1>2. QED BY <1>1 DEF LogOf

(* What a step of the log is, in terms of the versions. *)
LEMMA AddIsNext ==
  ASSUME NEW key \in Keys, NEW input \in AllInputs,
         ~ \E n \in DOMAIN LogOf(versions)[key] : LogOf(versions)[key][n] = input,
         LogOf(versions') = [LogOf(versions) EXCEPT ![key] = Append(@, input)]
  PROVE  Log!Next
BY DEF Log!Next, Log!Add, Log!Holds, LogOf

(* Inserting under the unique key is adding to the log. *)
LEMMA InsertAdds ==
  ASSUME LogInv, NEW b \in Builders, Insert(b)
  PROVE  LogInv' /\ (Log!Next \/ versions' = versions)
<1> DEFINE t   == tx[b]
           row == [input |-> t.input, payload |-> t.content, state |-> "BUILDING"]
<1>1. t.step = "numbered" /\ Carries(t)
  BY DEF Insert, LogInv, BuildersCarryHashes
<1>2. tx' = [tx EXCEPT ![b] = Idle] /\ Idle.step = "idle"
  BY DEF Insert, Idle
<1>3. CASE ~Unique(t.key, t.input)
  <2>1. versions' = versions
    BY <1>3 DEF Insert
  <2>2. QED BY <1>2, <2>1, TransactionsCarry
<1>4. CASE Unique(t.key, t.input)
  <2>1. versions' = [versions EXCEPT ![t.key] = Append(@, row)]
    BY <1>4 DEF Insert
  <2>2. row \in VersionRows /\ row.input = t.input /\ row.payload = t.content
    BY <1>1 DEF Carries, VersionRows
  <2>3. t.key \in Keys /\ versions \in [Keys -> Seq(VersionRows)]
    BY <1>1 DEF Carries, LogInv, VersionsHoldHashes
  <2> DEFINE old == versions[t.key]
             new == versions'[t.key]
  <2>4. old \in Seq(VersionRows) /\ new = Append(old, row)
    BY <2>1, <2>3
  <2>5. \A key \in Keys : key # t.key => versions'[key] = versions[key]
    BY <2>1, <2>3
  <2>6. versions' \in [Keys -> Seq(VersionRows)]
    <3>1. Append(old, row) \in Seq(VersionRows)
      BY <2>2, <2>4
    <3>2. QED BY <2>1, <2>3, <3>1
  <2>7. DOMAIN new = 1..(Len(old) + 1) /\ DOMAIN old = 1..Len(old) /\ Len(old) \in Nat
    BY <2>2, <2>4
  <2>8. \A n \in DOMAIN old : new[n] = old[n]
    BY <2>2, <2>4
  <2>9. new[Len(old) + 1] = row
    BY <2>2, <2>4
  <2>10. LogInv'
    <3>1. ReportsHoldPayloads'
      <4> SUFFICES ASSUME NEW key \in Keys, key.kind = "report", NEW n \in DOMAIN versions'[key]
                   PROVE  versions'[key][n].payload \in Payloads
        BY DEF ReportsHoldPayloads
      <4>1. CASE key # t.key
        BY <2>5, <4>1 DEF LogInv, ReportsHoldPayloads
      <4>2. CASE key = t.key /\ n = Len(old) + 1
        BY <1>1, <2>2, <2>9, <4>2 DEF Carries
      <4>3. CASE key = t.key /\ n # Len(old) + 1
        <5>1. n \in DOMAIN old
          BY <2>7, <4>3
        <5>2. QED BY <2>8, <4>3, <5>1 DEF LogInv, ReportsHoldPayloads
      <4>4. QED BY <4>1, <4>2, <4>3
    <3>2. BuildersCarryHashes'
      BY <1>2 DEF LogInv, BuildersCarryHashes, Carries
    <3>3. QED BY <2>6, <3>1, <3>2 DEF LogInv, VersionsHoldHashes
  <2>11. Log!Next
    <3> DEFINE before == LogOf(versions)
               after  == LogOf(versions')
    <3>1. before[t.key] = InputsOf(old) /\ after[t.key] = InputsOf(new)
      BY <2>3 DEF LogOf, InputsOf
    <3>4. after[t.key] = Append(before[t.key], t.input)
      BY <2>2, <2>4, <3>1, InputsOfAppend
    <3>5. \A key \in Keys : key # t.key => after[key] = before[key]
      BY <2>5 DEF LogOf
    <3>6. after = [before EXCEPT ![t.key] = Append(@, t.input)]
      <4>1. DOMAIN after = Keys /\ DOMAIN before = Keys
        BY DEF LogOf
      <4>2. after = [key \in Keys |-> after[key]] /\ before = [key \in Keys |-> before[key]]
        BY DEF LogOf
      <4> HIDE DEF after, before
      <4>3. QED BY <2>3, <3>4, <3>5, <4>1, <4>2
    <3>7. ~\E n \in DOMAIN before[t.key] : before[t.key][n] = t.input
      BY <1>4, <3>1 DEF Unique, InputsOf
    <3>8. t.key \in Keys /\ t.input \in AllInputs
      BY <1>1 DEF Carries
    <3>9. QED BY <3>6, <3>7, <3>8, AddIsNext
  <2>12. QED BY <2>10, <2>11
<1>5. QED BY <1>3, <1>4

(* Marking a version changes its state alone. *)
LEMMA MarkKeepsLog ==
  ASSUME LogInv, NEW key \in Keys, NEW m, NEW from, NEW to \in {"VALIDATING", "READY", "STALE"},
         Mark(key, m, from, to)
  PROVE  LogInv' /\ LogOf(versions') = LogOf(versions)
<1> DEFINE old  == versions[key]
           row  == [input |-> old[m].input, payload |-> old[m].payload, state |-> to]
<1>1. versions \in [Keys -> Seq(VersionRows)] /\ old \in Seq(VersionRows) /\ m \in DOMAIN old /\ old[m] \in VersionRows
  BY DEF LogInv, VersionsHoldHashes, Mark
<1>2. versions' = [versions EXCEPT ![key][m] = row] /\ tx' = tx
  BY DEF Mark
<1>3. row \in VersionRows /\ row.input = old[m].input /\ row.payload = old[m].payload
  BY <1>1 DEF VersionRows
<1> HIDE DEF row
<1>4. versions'[key] = [old EXCEPT ![m] = row]
  BY <1>1, <1>2
<1>5. \A other \in Keys : other # key => versions'[other] = versions[other]
  BY <1>1, <1>2
<1>6. versions'[key] \in Seq(VersionRows)
  BY <1>1, <1>3, <1>4
<1>7. versions' \in [Keys -> Seq(VersionRows)]
  BY <1>1, <1>2, <1>4, <1>6
<1>8. DOMAIN versions'[key] = DOMAIN old
  BY <1>4
<1>9. \A n \in DOMAIN old : /\ versions'[key][n].input = old[n].input
                            /\ versions'[key][n].payload = old[n].payload
  BY <1>3, <1>4
<1>10. ReportsHoldPayloads'
  BY <1>5, <1>8, <1>9 DEF LogInv, ReportsHoldPayloads
<1>11. BuildersCarryHashes'
  BY <1>2 DEF LogInv, BuildersCarryHashes, Carries
<1>12. \A k \in Keys : [n \in DOMAIN versions'[k] |-> versions'[k][n].input]
                         = [n \in DOMAIN versions[k] |-> versions[k][n].input]
  BY <1>5, <1>8, <1>9
<1>13. LogOf(versions') = LogOf(versions)
  BY <1>12 DEF LogOf
<1>14. QED BY <1>7, <1>10, <1>11, <1>13 DEF LogInv, VersionsHoldHashes

-----------------------------------------------------------------------------
(* Every step keeps the invariant and is a step of the log or a stutter. *)
LEMMA StepsAddOrStutter ==
  LogInv /\ [ReportNext]_reportVars => LogInv' /\ (Log!Next \/ LogOf(versions') = LogOf(versions))
<1> SUFFICES ASSUME LogInv, [ReportNext]_reportVars
             PROVE  LogInv' /\ (Log!Next \/ LogOf(versions') = LogOf(versions))
  OBVIOUS
<1>1. ASSUME NEW b \in Builders, NEW s \in Snapshots, NEW v \in Variants, Build(b, s, v)
      PROVE  LogInv' /\ versions' = versions
  BY <1>1, BuildCarries
<1>2. ASSUME NEW b \in Builders, NEW key \in RenderKeys, NEW profile \in Profiles,
             Render(b, key, profile)
      PROVE  LogInv' /\ versions' = versions
  BY <1>2, RenderCarries
<1>3. ASSUME NEW b \in Builders, Allocate(b)
      PROVE  LogInv' /\ versions' = versions
  <2> DEFINE t == [step |-> "numbered", key |-> tx[b].key, input |-> tx[b].input,
                   content |-> tx[b].content, number |-> Len(versions[tx[b].key]) + 1]
  <2>1. tx' = [tx EXCEPT ![b] = t] /\ versions' = versions
    BY <1>3 DEF Allocate
  <2>2. Carries(tx[b])
    BY <1>3 DEF Allocate, LogInv, BuildersCarryHashes
  <2>3. Carries(t)
    BY <2>2 DEF Carries
  <2> HIDE DEF t
  <2>4. QED BY <2>1, <2>3, TransactionsCarry
<1>4. ASSUME NEW b \in Builders, Insert(b)
      PROVE  LogInv' /\ (Log!Next \/ versions' = versions)
  BY <1>4, InsertAdds
<1>5. ASSUME NEW b \in Builders, Lose(b)
      PROVE  LogInv' /\ versions' = versions
  <2>1. tx' = [tx EXCEPT ![b] = Idle] /\ versions' = versions /\ Idle.step = "idle"
    BY <1>5 DEF Lose, Idle
  <2>2. QED BY <2>1, TransactionsCarry
<1>6. ASSUME NEW key \in Keys, NEW n \in 1..MaxVersions,
             MarkValidating(key, n) \/ MarkReady(key, n) \/ Retire(key, n)
      PROVE  LogInv' /\ LogOf(versions') = LogOf(versions)
  BY <1>6, MarkKeepsLog DEF MarkValidating, MarkReady, Retire
<1>7. CASE UNCHANGED reportVars
  BY <1>7 DEF reportVars, LogInv, VersionsHoldHashes, ReportsHoldPayloads, BuildersCarryHashes, Carries
<1>8. QED BY <1>1, <1>2, <1>3, <1>4, <1>5, <1>6, <1>7 DEF ReportNext

(* ReportPersistenceService, ReportRepository and their render twins: however  *)
(* many builders run at once and whichever are lost, the versions of every key *)
(* are an append-only log without gaps in which no input is stored twice.      *)
THEOREM VersionsImplementLog == ReportSpec => VersionsAreALog
<1>1. LogInv /\ [ReportNext]_reportVars
        => LogInv' /\ [Log!Next]_[key \in Keys |-> [n \in DOMAIN versions[key] |-> versions[key][n].input]]
  BY StepsAddOrStutter DEF LogOf
<1>2. QED BY LogOfInit, InitHoldsHashes, <1>1, PTL DEF ReportSpec, VersionsAreALog, Log!Spec

-----------------------------------------------------------------------------
(* What answers show.  The argument: input and payload of a version are of  *)
(* one snapshot and equal inputs have equal findings; and the advisory lock *)
(* keeps what a builder of a report found, no version it could be answered  *)
(* with, true until its insert.                                             *)

OfOneSnapshot(input, content) ==
  \E s \in Snapshots, v \in Variants : input = InputHash(s, v) /\ content = Payload(s, v)

ReportsShow ==
  \A key \in Keys : key.kind = "report" =>
    \A n \in DOMAIN versions[key] : OfOneSnapshot(versions[key][n].input, versions[key][n].payload)

BuildsReport(b) == tx[b].step # "idle" /\ tx[b].key.kind = "report"

BuildersShow ==
  \A b \in Builders : BuildsReport(b) =>
    /\ OfOneSnapshot(tx[b].input, tx[b].content)
    /\ Equivalent(tx[b].key, tx[b].input) = {}

LocksHeld ==
  \A b, c \in Builders :
    BuildsReport(b) /\ BuildsReport(c) /\ tx[b].key = tx[c].key => b = c

(* The counter's row lock: a number stays the next one. *)
NumbersNext ==
  \A b \in Builders : tx[b].step = "numbered" =>
    /\ tx[b].number = Len(versions[tx[b].key]) + 1
    /\ \A c \in Builders : tx[c].step = "numbered" /\ tx[c].key = tx[b].key => c = b

AnswerOK(a) ==
  a.key.kind = "report" =>
    /\ a.key \in Keys /\ a.number \in DOMAIN versions[a.key]
    /\ versions[a.key][a.number].payload.findings = a.content.findings

AnswersOK == \A a \in answers : AnswerOK(a)

RefusalOK(r) ==
  r.key.kind = "report" =>
    /\ r.key \in Keys
    /\ \E n \in DOMAIN versions[r.key] :
         versions[r.key][n].input = r.input /\ versions[r.key][n].state \in Retired

RefusalsOK == \A r \in refused : RefusalOK(r)

AnswersInv == ReportsShow /\ BuildersShow /\ LocksHeld /\ NumbersNext /\ AnswersOK /\ RefusalsOK

(* The newest of some versions is one of them. *)
LEMMA NewestIsOne ==
  ASSUME NEW top \in Nat, NEW numbers \in SUBSET (1..top), numbers # {}
  PROVE  Newest(numbers) \in numbers
<1> DEFINE gaps == {top - n : n \in numbers}
<1>1. gaps \subseteq Nat /\ gaps # {}
  OBVIOUS
<1>2. PICK x \in gaps : \A y \in gaps : ~(<<y, x>> \in Less)
  <2> HIDE DEF gaps
  <2>1. QED BY <1>1, WFMin, NumbersAreWellFounded
<1>3. PICK n \in numbers : x = top - n
  BY <1>2
<1>4. ASSUME NEW m \in numbers PROVE m <= n
  <2>1. top - m \in gaps
    OBVIOUS
  <2>2. ~(<<top - m, top - n>> \in Less)
    BY <1>2, <1>3, <2>1
  <2>3. ~(top - m < top - n)
    BY <1>3, <2>2 DEF Less
  <2>4. QED BY <2>3
<1>5. \E k \in numbers : \A m \in numbers : m <= k
  BY <1>4
<1>6. QED BY <1>5 DEF Newest

(* The hash of a report covers its findings and their wording. *)
LEMMA SameInputSameFindings ==
  ASSUME NEW s, NEW t, NEW v, NEW w, InputHash(s, v) = InputHash(t, w)
  PROVE  Payload(s, v).findings = Payload(t, w).findings
<1> DEFINE Hashed(x, y) == {<<f.id, f.type, f.fingerprint, f.wording[y]>> : f \in Selected(x, y)}
           Shown(x, y) == {<<f.id, f.wording[y]>> : f \in Selected(x, y)}
<1>1. Hashed(s, v) = Hashed(t, w)
  BY DEF InputHash
<1>2. ASSUME NEW x1, NEW y1, NEW x2, NEW y2, Hashed(x1, y1) = Hashed(x2, y2), NEW p \in Shown(x1, y1)
      PROVE  p \in Shown(x2, y2)
  <2>1. PICK f \in Selected(x1, y1) : p = <<f.id, f.wording[y1]>>
    OBVIOUS
  <2>2. <<f.id, f.type, f.fingerprint, f.wording[y1]>> \in Hashed(x2, y2)
    BY <1>2
  <2>3. PICK g \in Selected(x2, y2) :
          <<f.id, f.type, f.fingerprint, f.wording[y1]>> = <<g.id, g.type, g.fingerprint, g.wording[y2]>>
    BY <2>2
  <2>4. p = <<g.id, g.wording[y2]>>
    BY <2>1, <2>3
  <2>5. QED BY <2>4
<1>3. Shown(s, v) = Shown(t, w)
  BY <1>1, <1>2
<1>4. QED BY <1>3 DEF Payload

LEMMA InitShows == ReportInit => AnswersInv
BY DEF ReportInit, AnswersInv, ReportsShow, BuildersShow, LocksHeld, NumbersNext, AnswersOK, RefusalsOK,
       BuildsReport, Idle

(* A transaction that begins, goes on or ends, with the versions as they are. *)
LEMMA BuilderMoves ==
  ASSUME LogInv, AnswersInv, NEW b \in Builders, NEW t, tx' = [tx EXCEPT ![b] = t],
         UNCHANGED <<versions, answers, refused>>,
         t.step # "idle" /\ t.key.kind = "report" =>
           /\ OfOneSnapshot(t.input, t.content) /\ Equivalent(t.key, t.input) = {}
           /\ \A c \in Builders \ {b} : tx[c].step # "idle" => tx[c].key # t.key,
         t.step = "numbered" =>
           /\ t.number = Len(versions[t.key]) + 1
           /\ \A c \in Builders \ {b} : tx[c].step = "numbered" => tx[c].key # t.key
  PROVE  AnswersInv'
<1>1. \A c \in Builders : tx'[c] = IF c = b THEN t ELSE tx[c]
  BY DEF LogInv, BuildersCarryHashes
<1>2. ReportsShow' /\ AnswersOK' /\ RefusalsOK'
  BY DEF AnswersInv, ReportsShow, OfOneSnapshot, AnswersOK, AnswerOK, RefusalsOK, RefusalOK
<1>3. \A k, i : Equivalent(k, i)' = Equivalent(k, i)
  BY DEF Equivalent
<1>4. BuildersShow'
  BY <1>1, <1>3 DEF AnswersInv, BuildersShow, BuildsReport, OfOneSnapshot, Equivalent
<1>5. LocksHeld'
  BY <1>1 DEF AnswersInv, LocksHeld, BuildsReport
<1>6. NumbersNext'
  BY <1>1 DEF AnswersInv, NumbersNext
<1>7. QED BY <1>2, <1>4, <1>5, <1>6 DEF AnswersInv

LEMMA DecideShows ==
  ASSUME LogInv, AnswersInv, NEW b \in Builders, NEW key \in Keys, NEW input, NEW content,
         key.kind = "report" => OfOneSnapshot(input, content), Decide(b, key, input, content)
  PROVE  AnswersInv'
<1> DEFINE same == Equivalent(key, input)
<1>1. tx[b].step = "idle" /\ Unlocked(key) /\ UNCHANGED <<versions, refused>>
  BY DEF Decide
<1>2. CASE same # {}
  <2> DEFINE a == [key |-> key, content |-> content, number |-> Newest(same)]
  <2>1. answers' = answers \cup {a} /\ tx' = tx
    BY <1>2 DEF Decide
  <2>2. Newest(same) \in same
    <3>1. versions[key] \in Seq(VersionRows)
      BY DEF LogInv, VersionsHoldHashes
    <3>2. Len(versions[key]) \in Nat /\ same \subseteq 1..Len(versions[key])
      BY <3>1 DEF Equivalent
    <3> HIDE DEF same
    <3>3. QED BY <1>2, <3>2, NewestIsOne
  <2>3. Newest(same) \in DOMAIN versions[key] /\ versions[key][Newest(same)].input = input
    BY <2>2 DEF Equivalent
  <2>4. key.kind = "report" =>
          versions[key][Newest(same)].payload.findings = content.findings
    <3> SUFFICES ASSUME key.kind = "report"
                 PROVE  versions[key][Newest(same)].payload.findings = content.findings
      OBVIOUS
    <3>1. PICK s \in Snapshots, v \in Variants : input = InputHash(s, v) /\ content = Payload(s, v)
      BY DEF OfOneSnapshot
    <3>2. PICK t \in Snapshots, w \in Variants :
            /\ versions[key][Newest(same)].input = InputHash(t, w)
            /\ versions[key][Newest(same)].payload = Payload(t, w)
      BY <2>3 DEF AnswersInv, ReportsShow, OfOneSnapshot
    <3>3. QED BY <2>3, <3>1, <3>2, SameInputSameFindings
  <2>5. AnswerOK(a)
    BY <2>3, <2>4 DEF AnswerOK
  <2> HIDE DEF a
  <2>6. AnswersOK'
    BY <1>1, <2>1, <2>5 DEF AnswersInv, AnswersOK, AnswerOK
  <2>7. ReportsShow' /\ BuildersShow' /\ LocksHeld' /\ NumbersNext' /\ RefusalsOK'
    BY <1>1, <2>1 DEF AnswersInv, ReportsShow, BuildersShow, OfOneSnapshot, Equivalent, LocksHeld,
                      BuildsReport, NumbersNext, RefusalsOK, RefusalOK
  <2>8. QED BY <2>6, <2>7 DEF AnswersInv
<1>3. CASE same = {}
  <2> DEFINE t == [step |-> "new", key |-> key, input |-> input, content |-> content]
  <2>1. tx' = [tx EXCEPT ![b] = t] /\ answers' = answers
    BY <1>3 DEF Decide
  <2>2. t.step = "new" /\ t.key = key /\ t.input = input /\ t.content = content
    OBVIOUS
  <2> HIDE DEF t
  <2>3. key.kind = "report" => \A c \in Builders \ {b} : tx[c].step # "idle" => tx[c].key # key
    BY <1>1 DEF Unlocked
  <2>4. QED BY <1>1, <1>3, <2>1, <2>2, <2>3, BuilderMoves
<1>4. QED BY <1>2, <1>3

LEMMA BuildShows ==
  ASSUME LogInv, AnswersInv, NEW b \in Builders, NEW s \in Snapshots, NEW v \in Variants, Build(b, s, v)
  PROVE  AnswersInv'
<1> DEFINE key == [kind |-> "report", variant |-> v]
<1>1. key \in Keys
  BY DEF Keys, ReportKeys
<1>2. OfOneSnapshot(InputHash(s, v), Payload(s, v))
  BY DEF OfOneSnapshot
<1>3. Decide(b, key, InputHash(s, v), Payload(s, v))
  BY DEF Build
<1> HIDE DEF key
<1>4. QED BY <1>1, <1>2, <1>3, DecideShows

LEMMA RenderShows ==
  ASSUME LogInv, AnswersInv, NEW b \in Builders, NEW key \in RenderKeys, NEW profile \in Profiles,
         Render(b, key, profile)
  PROVE  AnswersInv'
<1>1. key \in Keys /\ key.kind # "report"
  BY DEF Keys, RenderKeys
<1>2. PICK hash : Decide(b, key, hash, hash)
  BY DEF Render
<1>3. QED BY <1>1, <1>2, DecideShows

(* Only the builder that took the lock and found nothing takes a number. *)
LEMMA AllocateShows ==
  ASSUME LogInv, AnswersInv, NEW b \in Builders, Allocate(b)
  PROVE  AnswersInv'
<1> DEFINE t == [step |-> "numbered", key |-> tx[b].key, input |-> tx[b].input,
                 content |-> tx[b].content, number |-> Len(versions[tx[b].key]) + 1]
<1>1. tx' = [tx EXCEPT ![b] = t] /\ UNCHANGED <<versions, answers, refused>>
  BY DEF Allocate
<1>2. /\ t.key = tx[b].key /\ t.input = tx[b].input /\ t.content = tx[b].content
      /\ t.number = Len(versions[t.key]) + 1
  OBVIOUS
<1>3. tx[b].step = "new"
  BY DEF Allocate
<1> HIDE DEF t
<1>4. t.key.kind = "report" =>
        /\ OfOneSnapshot(t.input, t.content) /\ Equivalent(t.key, t.input) = {}
        /\ \A c \in Builders \ {b} : tx[c].step # "idle" => tx[c].key # t.key
  BY <1>2, <1>3 DEF AnswersInv, BuildersShow, LocksHeld, BuildsReport
<1>5. \A c \in Builders \ {b} : tx[c].step = "numbered" => tx[c].key # t.key
  BY <1>2 DEF Allocate
<1>6. QED BY <1>1, <1>2, <1>4, <1>5, BuilderMoves

LEMMA LoseShows ==
  ASSUME LogInv, AnswersInv, NEW b \in Builders, Lose(b)
  PROVE  AnswersInv'
BY BuilderMoves DEF Lose, Idle

(* An insert answers with the row it adds, or is refused by a retired one. *)
LEMMA InsertShows ==
  ASSUME LogInv, AnswersInv, NEW b \in Builders, Insert(b)
  PROVE  AnswersInv'
<1> DEFINE t   == tx[b]
           row == [input |-> t.input, payload |-> t.content, state |-> "BUILDING"]
<1>1. t.step = "numbered" /\ Carries(t)
  BY DEF Insert, LogInv, BuildersCarryHashes
<1>2. /\ tx' = [tx EXCEPT ![b] = Idle] /\ Idle.step = "idle"
      /\ \A c \in Builders \ {b} : tx'[c] = tx[c]
      /\ tx'[b].step = "idle"
  BY DEF Insert, Idle, LogInv, BuildersCarryHashes
<1>3. LocksHeld'
  BY <1>2 DEF AnswersInv, LocksHeld, BuildsReport
<1>4. t.key.kind = "report" => OfOneSnapshot(t.input, t.content) /\ Equivalent(t.key, t.input) = {}
  BY <1>1 DEF AnswersInv, BuildersShow, BuildsReport
<1>5. t.key \in Keys
  BY <1>1 DEF Carries
<1>6. CASE ~Unique(t.key, t.input)
  <2> DEFINE r == [key |-> t.key, input |-> t.input]
  <2>1. UNCHANGED <<versions, answers>> /\ refused' = refused \cup {r}
    BY <1>6 DEF Insert
  <2>2. RefusalOK(r)
    <3>1. PICK n \in DOMAIN versions[t.key] : versions[t.key][n].input = t.input
      BY <1>6 DEF Unique
    <3>2. t.key.kind = "report" => versions[t.key][n].state \in Retired
      BY <1>4, <3>1 DEF Equivalent
    <3>3. QED BY <1>5, <3>1, <3>2 DEF RefusalOK
  <2> HIDE DEF r
  <2>3. ReportsShow' /\ AnswersOK'
    BY <2>1 DEF AnswersInv, ReportsShow, OfOneSnapshot, AnswersOK, AnswerOK
  <2>4. RefusalsOK'
    BY <2>1, <2>2 DEF AnswersInv, RefusalsOK, RefusalOK
  <2>5. BuildersShow'
    <3> SUFFICES ASSUME NEW c \in Builders, BuildsReport(c)'
                 PROVE  OfOneSnapshot(tx[c].input, tx[c].content)'
                          /\ Equivalent(tx[c].key, tx[c].input)' = {}
      BY DEF BuildersShow
    <3>1. tx'[c] = tx[c] /\ BuildsReport(c)
      BY <1>2 DEF BuildsReport
    <3>2. OfOneSnapshot(tx[c].input, tx[c].content) /\ Equivalent(tx[c].key, tx[c].input) = {}
      BY <3>1 DEF AnswersInv, BuildersShow
    <3>3. QED BY <2>1, <3>1, <3>2 DEF OfOneSnapshot, Equivalent
  <2>6. NumbersNext'
    BY <1>2, <2>1 DEF AnswersInv, NumbersNext
  <2>7. QED BY <1>3, <2>3, <2>4, <2>5, <2>6 DEF AnswersInv
<1>7. CASE Unique(t.key, t.input)
  <2> DEFINE a   == [key |-> t.key, content |-> t.content, number |-> t.number]
             old == versions[t.key]
             new == versions'[t.key]
  <2>1. /\ versions' = [versions EXCEPT ![t.key] = Append(@, row)]
        /\ answers' = answers \cup {a} /\ refused' = refused
    BY <1>7 DEF Insert
  <2>2. versions \in [Keys -> Seq(VersionRows)]
    BY DEF LogInv, VersionsHoldHashes
  <2>3. old \in Seq(VersionRows) /\ new = Append(old, row)
    BY <1>5, <2>1, <2>2
  <2>4. row.input = t.input /\ row.payload = t.content
    OBVIOUS
  <2> HIDE DEF row
  <2>5. \A key \in Keys : key # t.key => versions'[key] = versions[key]
    BY <2>1, <2>2
  <2>6. DOMAIN new = 1..(Len(old) + 1) /\ DOMAIN old = 1..Len(old) /\ Len(old) \in Nat
    BY <2>3
  <2>7. \A n \in DOMAIN old : n \in DOMAIN new /\ new[n] = old[n]
    BY <2>3
  <2>8. Len(old) + 1 \in DOMAIN new /\ new[Len(old) + 1] = row
    BY <2>3
  <2>9. \A key \in Keys : \A n \in DOMAIN versions[key] :
          n \in DOMAIN versions'[key] /\ versions'[key][n] = versions[key][n]
    BY <2>5, <2>7
  <2> HIDE DEF old, new
  <2>10. ReportsShow'
    <3> SUFFICES ASSUME NEW key \in Keys, key.kind = "report", NEW n \in DOMAIN versions'[key]
                 PROVE  OfOneSnapshot(versions'[key][n].input, versions'[key][n].payload)
      BY DEF ReportsShow, OfOneSnapshot
    <3>1. CASE key # t.key
      BY <2>5, <3>1 DEF AnswersInv, ReportsShow
    <3>2. CASE key = t.key /\ n = Len(old) + 1
      BY <1>4, <2>4, <2>8, <3>2 DEF new
    <3>3. CASE key = t.key /\ n # Len(old) + 1
      <4>1. n \in DOMAIN old /\ new[n] = old[n]
        BY <2>6, <2>7, <3>3 DEF new
      <4>2. QED BY <1>5, <3>3, <4>1 DEF AnswersInv, ReportsShow, old, new
    <3>4. QED BY <3>1, <3>2, <3>3
  <2>11. BuildersShow'
    <3> SUFFICES ASSUME NEW c \in Builders, BuildsReport(c)'
                 PROVE  OfOneSnapshot(tx[c].input, tx[c].content)'
                          /\ Equivalent(tx[c].key, tx[c].input)' = {}
      BY DEF BuildersShow
    <3>1. c # b /\ tx'[c] = tx[c] /\ BuildsReport(c)
      BY <1>2 DEF BuildsReport
    <3>2. tx[c].key # t.key
      BY <1>1, <3>1 DEF AnswersInv, LocksHeld, BuildsReport
    <3>3. tx[c].key \in Keys
      BY <3>1 DEF LogInv, BuildersCarryHashes, Carries, BuildsReport
    <3>4. versions'[tx[c].key] = versions[tx[c].key]
      BY <2>5, <3>2, <3>3
    <3>5. OfOneSnapshot(tx[c].input, tx[c].content) /\ Equivalent(tx[c].key, tx[c].input) = {}
      BY <3>1 DEF AnswersInv, BuildersShow
    <3>6. QED BY <3>1, <3>4, <3>5 DEF OfOneSnapshot, Equivalent
  <2>12. NumbersNext'
    <3> SUFFICES ASSUME NEW c \in Builders, tx'[c].step = "numbered"
                 PROVE  /\ tx'[c].number = Len(versions'[tx'[c].key]) + 1
                        /\ \A d \in Builders : tx'[d].step = "numbered" /\ tx'[d].key = tx'[c].key => d = c
      BY DEF NumbersNext
    <3>1. c # b /\ tx'[c] = tx[c]
      BY <1>2
    <3>2. tx[c].key # t.key
      BY <1>1, <3>1 DEF AnswersInv, NumbersNext
    <3>3. tx[c].key \in Keys
      BY <3>1 DEF LogInv, BuildersCarryHashes, Carries
    <3>4. versions'[tx[c].key] = versions[tx[c].key]
      BY <2>5, <3>2, <3>3
    <3>5. \A d \in Builders : tx'[d].step = "numbered" => tx'[d] = tx[d]
      BY <1>2
    <3>6. QED BY <3>1, <3>4, <3>5 DEF AnswersInv, NumbersNext
  <2>13. /\ a.key \in Keys /\ a.number \in DOMAIN versions'[a.key]
         /\ versions'[a.key][a.number].payload.findings = a.content.findings
    <3>1. t.number = Len(old) + 1
      BY <1>1 DEF AnswersInv, NumbersNext, old
    <3>2. a.key = t.key /\ a.number = t.number /\ a.content = t.content
      OBVIOUS
    <3> HIDE DEF a
    <3>3. versions'[t.key][t.number] = row /\ t.number \in DOMAIN versions'[t.key]
      BY <2>8, <3>1 DEF new
    <3>4. QED BY <1>5, <2>4, <3>2, <3>3
  <2> HIDE DEF a
  <2>14. AnswersOK'
    BY <2>1, <2>9, <2>13 DEF AnswersInv, AnswersOK, AnswerOK
  <2>15. RefusalsOK'
    BY <2>1, <2>9 DEF AnswersInv, RefusalsOK, RefusalOK
  <2>16. QED BY <1>3, <2>10, <2>11, <2>12, <2>14, <2>15 DEF AnswersInv
<1>8. QED BY <1>6, <1>7

(* Marking retires live versions and revives none. *)
LEMMA MarkShows ==
  ASSUME LogInv, AnswersInv, NEW key \in Keys, NEW m, NEW from, NEW to \in {"VALIDATING", "READY", "STALE"},
         from \cap Retired = {}, Mark(key, m, from, to)
  PROVE  AnswersInv'
<1> DEFINE old == versions[key]
           row == [input |-> old[m].input, payload |-> old[m].payload, state |-> to]
<1>1. versions \in [Keys -> Seq(VersionRows)] /\ old \in Seq(VersionRows) /\ m \in DOMAIN old
  BY DEF LogInv, VersionsHoldHashes, Mark
<1>2. versions' = [versions EXCEPT ![key][m] = row] /\ UNCHANGED <<tx, answers, refused>>
  BY DEF Mark
<1>3. row.input = old[m].input /\ row.payload = old[m].payload /\ row.state = to
  OBVIOUS
<1>4. old[m].state \notin Retired
  BY DEF Mark
<1> HIDE DEF row
<1>5. versions'[key] = [old EXCEPT ![m] = row]
  BY <1>1, <1>2
<1>6. \A other \in Keys : other # key => versions'[other] = versions[other]
  BY <1>1, <1>2
<1>7. \A k \in Keys : DOMAIN versions'[k] = DOMAIN versions[k]
  BY <1>5, <1>6
<1>8. \A k \in Keys : \A n \in DOMAIN versions[k] :
        /\ versions'[k][n].input = versions[k][n].input
        /\ versions'[k][n].payload = versions[k][n].payload
        /\ versions[k][n].state \in Retired => versions'[k][n].state = versions[k][n].state
  BY <1>1, <1>3, <1>4, <1>5, <1>6
<1>9. \A k \in Keys : Len(versions'[k]) = Len(versions[k])
  <2> SUFFICES ASSUME NEW k \in Keys PROVE Len(versions'[k]) = Len(versions[k])
    OBVIOUS
  <2>1. CASE k = key
    BY <1>1, <1>5, <2>1
  <2>2. QED BY <1>6, <2>1
<1>10. \A k \in Keys : \A i : Equivalent(k, i)' \subseteq Equivalent(k, i)
  BY <1>7, <1>8 DEF Equivalent
<1>11. ReportsShow'
  BY <1>7, <1>8 DEF AnswersInv, ReportsShow, OfOneSnapshot
<1>12. BuildersShow'
  <2> SUFFICES ASSUME NEW c \in Builders, BuildsReport(c)
               PROVE  OfOneSnapshot(tx[c].input, tx[c].content)
                        /\ Equivalent(tx[c].key, tx[c].input)' = {}
    BY <1>2 DEF BuildersShow, BuildsReport, OfOneSnapshot, Equivalent
  <2>1. tx[c].key \in Keys
    BY DEF LogInv, BuildersCarryHashes, Carries, BuildsReport
  <2>2. OfOneSnapshot(tx[c].input, tx[c].content) /\ Equivalent(tx[c].key, tx[c].input) = {}
    BY DEF AnswersInv, BuildersShow
  <2>3. QED BY <1>2, <1>10, <2>1, <2>2 DEF Equivalent
<1>13. LocksHeld'
  BY <1>2 DEF AnswersInv, LocksHeld, BuildsReport
<1>14. NumbersNext'
  <2>1. \A c \in Builders : tx[c].step = "numbered" => tx[c].key \in Keys
    BY DEF LogInv, BuildersCarryHashes, Carries
  <2>2. QED BY <1>2, <1>9, <2>1 DEF AnswersInv, NumbersNext
<1>15. AnswersOK'
  BY <1>2, <1>7, <1>8 DEF AnswersInv, AnswersOK, AnswerOK
<1>16. RefusalsOK'
  BY <1>2, <1>7, <1>8 DEF AnswersInv, RefusalsOK, RefusalOK
<1>17. QED BY <1>11, <1>12, <1>13, <1>14, <1>15, <1>16 DEF AnswersInv

LEMMA NextShows == LogInv /\ AnswersInv /\ [ReportNext]_reportVars => AnswersInv'
<1> SUFFICES ASSUME LogInv, AnswersInv, [ReportNext]_reportVars PROVE AnswersInv'
  OBVIOUS
<1>1. ASSUME NEW key \in Keys, NEW n, MarkValidating(key, n) \/ MarkReady(key, n) \/ Retire(key, n)
      PROVE  AnswersInv'
  <2>1. PICK from \in {{"BUILDING"}, {"BUILDING", "VALIDATING"}, {"READY"}},
             to \in {"VALIDATING", "READY", "STALE"} : Mark(key, n, from, to)
    BY <1>1 DEF MarkValidating, MarkReady, Retire
  <2>2. from \cap Retired = {}
    BY DEF Retired
  <2>3. QED BY <2>1, <2>2, MarkShows
<1>2. CASE UNCHANGED reportVars
  BY <1>2 DEF reportVars, AnswersInv, ReportsShow, BuildersShow, OfOneSnapshot, Equivalent, LocksHeld,
              BuildsReport, NumbersNext, AnswersOK, AnswerOK, RefusalsOK, RefusalOK
<1>3. QED BY <1>1, <1>2, BuildShows, RenderShows, AllocateShows, InsertShows, LoseShows DEF ReportNext

(* Findings alike in payload are no difference of findings. *)
LEMMA AnswersFollow == AnswersInv => AnswersShowTheRequest
<1> SUFFICES ASSUME AnswersInv PROVE AnswersShowTheRequest
  OBVIOUS
<1>1. ASSUME NEW a \in answers, a.key.kind = "report"
      PROVE  "FINDING" \notin Diff(versions[a.key][a.number].payload, a.content)
  <2>1. versions[a.key][a.number].payload.findings = a.content.findings
    BY <1>1 DEF AnswersInv, AnswersOK, AnswerOK
  <2>2. QED BY <2>1 DEF Diff
<1>2. ASSUME NEW r \in refused, r.key.kind = "report"
      PROVE  \E n \in DOMAIN versions[r.key] :
               versions[r.key][n].input = r.input /\ versions[r.key][n].state \in Retired
  BY <1>2 DEF AnswersInv, RefusalsOK, RefusalOK
<1>3. QED BY <1>1, <1>2 DEF AnswersShowTheRequest

(* ReportDeduplicationEngine and ReportPersistenceService: for any number of    *)
(* builders, snapshots and variants, an answer shows the findings and wording   *)
(* its builder selected, and only a retired version refuses a report.           *)
THEOREM AnswersStayTrue == ReportSpec => []AnswersShowTheRequest
<1>1. LogInv /\ AnswersInv /\ [ReportNext]_reportVars => LogInv' /\ AnswersInv'
  BY StepsAddOrStutter, NextShows
<1>2. QED BY InitHoldsHashes, InitShows, <1>1, AnswersFollow, PTL DEF ReportSpec

-----------------------------------------------------------------------------
(* Impact batches *)

ItemStates == {"absent", "PENDING", "COMPLETE", "FAILED"}

ImpactTypes ==
  /\ consumers \in ConsumerLists
  /\ change \in [Changes -> ItemStates]
  /\ DOMAIN impacts = Changes /\ DOMAIN evaluatedFor = Changes /\ DOMAIN chunk = ImpactWorkers
  /\ \A w \in ImpactWorkers : chunk[w].claimed \subseteq Changes

(* An item is evaluated against a list that was once current. *)
EvaluationsSeen ==
  \A w \in ImpactWorkers : \A c \in DOMAIN chunk[w].done : chunk[w].done[c] \in ConsumerLists

ClaimsPending == \A w \in ImpactWorkers : \A c \in chunk[w].claimed : change[c] = "PENDING"

ClaimsDisjoint ==
  \A v, w \in ImpactWorkers : v # w => chunk[v].claimed \cap chunk[w].claimed = {}

UndecidedEmpty == \A c \in Changes : change[c] \in {"absent", "PENDING"} => impacts[c] = NoRows

(* What a complete item holds was persisted without a conflict. *)
CompleteWhole ==
  \A c \in InState("COMPLETE") :
    /\ evaluatedFor[c] \in ConsumerLists
    /\ Persisted(c, evaluatedFor[c]) = DOMAIN evaluatedFor[c]
    /\ impacts[c] = RowsOf(c, evaluatedFor[c])

ImpactInv ==
  /\ ImpactTypes /\ EvaluationsSeen /\ ClaimsPending /\ ClaimsDisjoint
  /\ UndecidedEmpty /\ CompleteWhole

LEMMA ImpactStarts == ImpactInit => ImpactInv
<1> SUFFICES ASSUME ImpactInit PROVE ImpactInv
  OBVIOUS
<1>1. ImpactTypes
  BY DEF ImpactInit, ImpactTypes, ItemStates, NoChunk
<1>2. EvaluationsSeen /\ ClaimsPending /\ ClaimsDisjoint
  BY DEF ImpactInit, EvaluationsSeen, ClaimsPending, ClaimsDisjoint, NoChunk
<1>3. UndecidedEmpty /\ CompleteWhole
  BY DEF ImpactInit, UndecidedEmpty, CompleteWhole, InState
<1>4. QED BY <1>1, <1>2, <1>3 DEF ImpactInv

(* The first row of a variant agrees with every consumer persisted after it. *)
LEMMA RowsAgree ==
  ASSUME NEW c, NEW list \in ConsumerLists, Persisted(c, list) = DOMAIN list, NEW k \in DOMAIN list
  PROVE  /\ list[k].variant \in DOMAIN RowsOf(c, list)
         /\ RowsOf(c, list)[list[k].variant] = Impact(c, list[k])
<1> DEFINE v == list[k].variant
           alike == {j \in DOMAIN list : list[j].variant = v}
           IsFirst(f) == list[f].variant = v /\ \A j \in Persisted(c, list) : list[j].variant = v => f <= j
           first == CHOOSE f \in Persisted(c, list) : IsFirst(f)
<1>1. Len(list) \in Nat /\ DOMAIN list = 1..Len(list)
  BY ImpactAssumption, LenProperties
<1>2. alike \in SUBSET Nat /\ alike # {}
  BY <1>1
<1>3. \E f \in alike : \A j \in alike : f <= j
  <2> HIDE DEF alike
  <2>1. QED BY <1>2, LeastNumber
<1>4. first \in DOMAIN list /\ list[first].variant = v /\ first <= k
  <2>1. \E f \in Persisted(c, list) : IsFirst(f)
    BY <1>3
  <2>2. first \in Persisted(c, list) /\ IsFirst(first)
    BY <2>1
  <2>3. QED BY <2>2
<1> HIDE DEF first
<1>5. Impact(c, list[first]) = Impact(c, list[k])
  <2>1. CASE first = k
    BY <2>1
  <2>2. CASE first # k
    <3>1. ~Conflicts(c, list, k)
      BY <1>1 DEF Persisted
    <3>2. first \in 1..k - 1
      BY <1>1, <1>4, <2>2
    <3>3. QED BY <1>4, <3>1, <3>2 DEF Conflicts
  <2>3. QED BY <2>1, <2>2
<1>6. v \in DOMAIN RowsOf(c, list)
  BY DEF RowsOf
<1>7. RowsOf(c, list)[v] = Impact(c, list[first])
  BY <1>6 DEF RowsOf, first
<1>8. QED BY <1>5, <1>6, <1>7

LEMMA AddItemKeeps ==
  ASSUME ImpactInv, NEW c \in Changes, AddItem(c)
  PROVE  ImpactInv'
<1>1. /\ change[c] = "absent" /\ change' = [change EXCEPT ![c] = "PENDING"]
      /\ UNCHANGED <<consumers, impacts, batch, chunk, evaluatedFor>>
  BY DEF AddItem
<1>2. /\ change' \in [Changes -> ItemStates]
      /\ \A d \in Changes : change'[d] = IF d = c THEN "PENDING" ELSE change[d]
  BY <1>1 DEF ImpactInv, ImpactTypes, ItemStates
<1>3. ImpactTypes' /\ EvaluationsSeen' /\ ClaimsDisjoint'
  BY <1>1, <1>2 DEF ImpactInv, ImpactTypes, EvaluationsSeen, ClaimsDisjoint
<1>4. ClaimsPending'
  BY <1>1, <1>2 DEF ImpactInv, ImpactTypes, ClaimsPending
<1>5. UndecidedEmpty'
  BY <1>1, <1>2 DEF ImpactInv, UndecidedEmpty
<1>6. CompleteWhole'
  BY <1>1, <1>2 DEF ImpactInv, CompleteWhole, InState
<1>7. QED BY <1>3, <1>4, <1>5, <1>6 DEF ImpactInv

(* A step of one worker's transaction that commits nothing. *)
LEMMA ChunkMoves ==
  ASSUME ImpactInv, NEW w \in ImpactWorkers, NEW t, chunk' = [chunk EXCEPT ![w] = t],
         UNCHANGED <<consumers, change, impacts, evaluatedFor>>,
         t.claimed \subseteq Changes, \A c \in t.claimed : change[c] = "PENDING",
         \A v \in ImpactWorkers \ {w} : chunk[v].claimed \cap t.claimed = {},
         \A c \in DOMAIN t.done : t.done[c] \in ConsumerLists
  PROVE  ImpactInv'
<1>1. \A v \in ImpactWorkers : chunk'[v] = IF v = w THEN t ELSE chunk[v]
  BY DEF ImpactInv, ImpactTypes
<1>2. DOMAIN chunk' = ImpactWorkers
  BY DEF ImpactInv, ImpactTypes
<1>3. ImpactTypes'
  BY <1>1, <1>2 DEF ImpactInv, ImpactTypes
<1>4. EvaluationsSeen'
  BY <1>1 DEF ImpactInv, EvaluationsSeen
<1>5. ClaimsPending'
  BY <1>1 DEF ImpactInv, ClaimsPending
<1>6. ClaimsDisjoint'
  BY <1>1 DEF ImpactInv, ClaimsDisjoint
<1>7. UndecidedEmpty' /\ CompleteWhole'
  BY DEF ImpactInv, UndecidedEmpty, CompleteWhole, InState
<1>8. QED BY <1>3, <1>4, <1>5, <1>6, <1>7 DEF ImpactInv

LEMMA NoChunkIsEmpty ==
  /\ NoChunk.claimed = {} /\ DOMAIN NoChunk.done = {}
BY DEF NoChunk

LEMMA ClaimKeeps ==
  ASSUME ImpactInv, NEW w \in ImpactWorkers, Claim(w)
  PROVE  ImpactInv'
<1> DEFINE t == [claimed |-> Claimable, done |-> NoChunk.done]
<1>1. chunk' = [chunk EXCEPT ![w] = t] /\ UNCHANGED <<consumers, change, impacts, evaluatedFor>>
  BY DEF Claim
<1>2. t.claimed = Claimable /\ DOMAIN t.done = {}
  BY NoChunkIsEmpty
<1> HIDE DEF t
<1>3. Claimable \subseteq Changes /\ \A c \in Claimable : change[c] = "PENDING" /\ c \notin Locked
  BY DEF Claimable
<1>4. \A v \in ImpactWorkers : chunk[v].claimed \cap Claimable = {}
  BY <1>3 DEF Locked
<1>5. QED BY <1>1, <1>2, <1>3, <1>4, ChunkMoves

LEMMA EvaluateItemKeeps ==
  ASSUME ImpactInv, NEW w \in ImpactWorkers, EvaluateItem(w)
  PROVE  ImpactInv'
<1> DEFINE old == chunk[w]
           c == NextItem(w)
           more == [claimed |-> old.claimed,
                    done |-> [d \in DOMAIN old.done \cup {c} |-> IF d = c THEN consumers ELSE old.done[d]]]
<1>1. UNCHANGED <<consumers, change, impacts, evaluatedFor>>
  BY DEF EvaluateItem
<1>2. \/ chunk' = [chunk EXCEPT ![w] = more]
      \/ chunk' = [chunk EXCEPT ![w] = NoChunk]
  BY DEF EvaluateItem
<1>3. /\ old.claimed \subseteq Changes
      /\ \A d \in old.claimed : change[d] = "PENDING"
      /\ \A v \in ImpactWorkers \ {w} : chunk[v].claimed \cap old.claimed = {}
      /\ \A d \in DOMAIN old.done : old.done[d] \in ConsumerLists
      /\ consumers \in ConsumerLists
  BY DEF ImpactInv, ImpactTypes, ClaimsPending, ClaimsDisjoint, EvaluationsSeen
<1>4. more.claimed = old.claimed /\ \A d \in DOMAIN more.done : more.done[d] \in ConsumerLists
  BY <1>3
<1> HIDE DEF more
<1>5. CASE chunk' = [chunk EXCEPT ![w] = more]
  <2>1. /\ more.claimed \subseteq Changes /\ \A d \in more.claimed : change[d] = "PENDING"
        /\ \A v \in ImpactWorkers \ {w} : chunk[v].claimed \cap more.claimed = {}
    BY <1>3, <1>4
  <2>2. QED BY <1>1, <1>4, <1>5, <2>1, ChunkMoves, Zenon
<1>6. CASE chunk' = [chunk EXCEPT ![w] = NoChunk]
  BY <1>1, <1>6, NoChunkIsEmpty, ChunkMoves
<1>7. QED BY <1>2, <1>5, <1>6

LEMMA CommitChunkKeeps ==
  ASSUME ImpactInv, NEW w \in ImpactWorkers, CommitChunk(w)
  PROVE  ImpactInv'
<1> DEFINE done == chunk[w].done
<1>1. /\ DOMAIN done = chunk[w].claimed
      /\ change' = [c \in Changes |-> IF c \in DOMAIN done THEN Settled(c, done[c]) ELSE change[c]]
      /\ impacts' = [c \in Changes |-> IF c \in DOMAIN done THEN RowsOf(c, done[c]) ELSE impacts[c]]
      /\ evaluatedFor' = [c \in Changes |-> IF c \in DOMAIN done THEN done[c] ELSE evaluatedFor[c]]
      /\ chunk' = [chunk EXCEPT ![w] = NoChunk] /\ UNCHANGED consumers
  BY DEF CommitChunk
<1>2. \A c \in DOMAIN done : done[c] \in ConsumerLists
  BY DEF ImpactInv, EvaluationsSeen
<1> HIDE DEF done
<1>3. \A v \in ImpactWorkers : chunk'[v] = IF v = w THEN NoChunk ELSE chunk[v]
  BY <1>1 DEF ImpactInv, ImpactTypes
<1>4. \A c : \A list : Settled(c, list) \in {"COMPLETE", "FAILED"}
  BY DEF Settled
<1>5. ImpactTypes'
  <2>1. change' \in [Changes -> ItemStates]
    BY <1>1, <1>4 DEF ImpactInv, ImpactTypes, ItemStates
  <2>2. DOMAIN chunk' = ImpactWorkers
    BY <1>1 DEF ImpactInv, ImpactTypes
  <2>3. \A v \in ImpactWorkers : chunk'[v].claimed \subseteq Changes
    BY <1>3, NoChunkIsEmpty DEF ImpactInv, ImpactTypes
  <2>4. consumers' \in ConsumerLists
    BY <1>1 DEF ImpactInv, ImpactTypes
  <2>5. QED BY <1>1, <2>1, <2>2, <2>3, <2>4 DEF ImpactTypes
<1>6. EvaluationsSeen'
  BY <1>3, NoChunkIsEmpty DEF ImpactInv, EvaluationsSeen
<1>7. ClaimsPending'
  <2> SUFFICES ASSUME NEW v \in ImpactWorkers, NEW c \in chunk'[v].claimed PROVE change'[c] = "PENDING"
    BY DEF ClaimsPending
  <2>1. v # w /\ c \in chunk[v].claimed
    BY <1>3, NoChunkIsEmpty
  <2>2. c \notin DOMAIN done /\ c \in Changes /\ change[c] = "PENDING"
    BY <1>1, <2>1 DEF ImpactInv, ImpactTypes, ClaimsDisjoint, ClaimsPending
  <2>3. QED BY <1>1, <2>2
<1>8. ClaimsDisjoint'
  BY <1>3, NoChunkIsEmpty DEF ImpactInv, ClaimsDisjoint
<1>9. UndecidedEmpty'
  <2> SUFFICES ASSUME NEW c \in Changes, change'[c] \in {"absent", "PENDING"} PROVE impacts'[c] = NoRows
    BY DEF UndecidedEmpty
  <2>1. c \notin DOMAIN done
    BY <1>1, <1>4
  <2>2. QED BY <1>1, <2>1 DEF ImpactInv, UndecidedEmpty
<1>10. CompleteWhole'
  <2> SUFFICES ASSUME NEW c \in Changes, change'[c] = "COMPLETE"
               PROVE  /\ evaluatedFor'[c] \in ConsumerLists
                      /\ Persisted(c, evaluatedFor'[c]) = DOMAIN evaluatedFor'[c]
                      /\ impacts'[c] = RowsOf(c, evaluatedFor'[c])
    BY DEF CompleteWhole, InState
  <2>1. CASE c \in DOMAIN done
    <3>1. change'[c] = Settled(c, done[c]) /\ evaluatedFor'[c] = done[c] /\ impacts'[c] = RowsOf(c, done[c])
      BY <1>1, <2>1
    <3>2. Persisted(c, done[c]) = DOMAIN done[c]
      BY <3>1 DEF Settled
    <3>3. QED BY <1>2, <2>1, <3>1, <3>2
  <2>2. CASE c \notin DOMAIN done
    BY <1>1, <2>2 DEF ImpactInv, CompleteWhole, InState
  <2>3. QED BY <2>1, <2>2
<1>11. QED BY <1>5, <1>6, <1>7, <1>8, <1>9, <1>10 DEF ImpactInv

LEMMA ImpactStepKeeps == ImpactInv /\ [ImpactNext]_impactVars => ImpactInv'
<1> SUFFICES ASSUME ImpactInv, [ImpactNext]_impactVars PROVE ImpactInv'
  OBVIOUS
<1>1. ASSUME NEW list \in ConsumerLists, Consume(list) PROVE ImpactInv'
  BY <1>1 DEF Consume, ImpactInv, ImpactTypes, EvaluationsSeen, ClaimsPending, ClaimsDisjoint,
              UndecidedEmpty, CompleteWhole, InState
<1>2. ASSUME NEW w \in ImpactWorkers, CrashChunk(w) PROVE ImpactInv'
  BY <1>2, NoChunkIsEmpty, ChunkMoves DEF CrashChunk
<1>3. CASE ReconcileBatch \/ UNCHANGED impactVars
  BY <1>3 DEF ReconcileBatch, impactVars, ImpactInv, ImpactTypes, EvaluationsSeen, ClaimsPending,
              ClaimsDisjoint, UndecidedEmpty, CompleteWhole, InState
<1>4. QED BY <1>1, <1>2, <1>3, AddItemKeeps, ClaimKeeps, EvaluateItemKeeps, CommitChunkKeeps
          DEF ImpactNext

LEMMA CompleteAgrees == ImpactInv => CompleteItemsAgree
<1> SUFFICES ASSUME ImpactInv PROVE CompleteItemsAgree
  OBVIOUS
<1>1. ASSUME NEW c \in InState("COMPLETE"), NEW k \in DOMAIN evaluatedFor[c]
      PROVE  /\ evaluatedFor[c][k].variant \in DOMAIN impacts[c]
             /\ impacts[c][evaluatedFor[c][k].variant] = Impact(c, evaluatedFor[c][k])
  BY <1>1, RowsAgree DEF ImpactInv, CompleteWhole
<1>2. \A c \in InState("PENDING") : impacts[c] = NoRows
  BY DEF ImpactInv, UndecidedEmpty, InState
<1>3. \A v, w \in ImpactWorkers : v # w => chunk[v].claimed \cap chunk[w].claimed = {}
  BY DEF ImpactInv, ClaimsDisjoint
<1>4. QED BY <1>1, <1>2, <1>3 DEF CompleteItemsAgree

(* BulkImpactEvaluator: for any changes, consumers and workers, the decision a  *)
(* complete item stored for a variant is that of every consumer it evaluated,   *)
(* a pending item has decided nothing and belongs to one worker at most.        *)
THEOREM CompleteItemsStayAgreed == ImpactSpec => []CompleteItemsAgree
BY ImpactStarts, ImpactStepKeeps, CompleteAgrees, PTL DEF ImpactSpec

-----------------------------------------------------------------------------
(* Operations *)

FreezeRows == [global : BOOLEAN, active : BOOLEAN]

OperationsTypes ==
  /\ freezes \in Seq(FreezeRows)
  /\ DOMAIN incident = Incidents /\ DOMAIN held = Incidents

(* A lifted freeze was lifted by one command, which saw the incident handled. *)
LiftedByOne ==
  \A l \in lifted :
    /\ l.freeze \in DOMAIN freezes /\ ~freezes[l.freeze].active
    /\ l.shown \in {"CONTAINED", "RECOVERING"}
    /\ \E c \in commands : c.incident = l.incident /\ c.freeze = l.freeze /\ c.status = "SUCCEEDED"

(* A successful command names no freeze, or one it lifted and no other did. *)
SuccessLifts ==
  \A c \in commands : c.status = "SUCCEEDED" /\ c.freeze # 0 =>
    /\ c.freeze \in DOMAIN freezes /\ ~freezes[c.freeze].active
    /\ \A d \in commands : d.status = "SUCCEEDED" /\ d.freeze = c.freeze => d = c

InactiveLifted ==
  \A n \in DOMAIN freezes : freezes[n].active \/ \E l \in lifted : l.freeze = n

KeysUsedOnce ==
  \A c, d \in commands : c.incident = d.incident /\ c.key = d.key => c = d

FreezesAlone ==
  \A m, n \in DOMAIN freezes :
    freezes[m].active /\ freezes[n].active /\ freezes[m].global = freezes[n].global => m = n

OperationsInv ==
  /\ OperationsTypes /\ LiftedByOne /\ SuccessLifts /\ InactiveLifted /\ KeysUsedOnce
  /\ FreezesAlone

LEMMA OperationsStart == OperationsInit => OperationsInv
<1> SUFFICES ASSUME OperationsInit PROVE OperationsInv
  OBVIOUS
<1>1. OperationsTypes
  BY DEF OperationsInit, OperationsTypes
<1>2. DOMAIN freezes = {}
  BY DEF OperationsInit
<1>3. QED BY <1>1, <1>2 DEF OperationsInit, OperationsInv, LiftedByOne, SuccessLifts, InactiveLifted,
                            KeysUsedOnce, FreezesAlone

(* An incident moves and is read again: no command, freeze or lift. *)
LEMMA IncidentMovesAlone ==
  ASSUME OperationsInv, UNCHANGED <<commands, freezes, lifted>>,
         DOMAIN incident' = Incidents, DOMAIN held' = Incidents
  PROVE  OperationsInv'
BY DEF OperationsInv, OperationsTypes, LiftedByOne, SuccessLifts, InactiveLifted, KeysUsedOnce,
       FreezesAlone

(* A freeze of a kind that has no active one. *)
LEMMA FreezingKeeps ==
  ASSUME OperationsInv, NEW global \in BOOLEAN, ActiveFreezes(global) = {},
         freezes' = Append(freezes, [global |-> global, active |-> TRUE]),
         UNCHANGED <<incident, held, commands, lifted>>
  PROVE  OperationsInv'
<1> DEFINE row == [global |-> global, active |-> TRUE]
           top == Len(freezes) + 1
<1>1. freezes \in Seq(FreezeRows) /\ row \in FreezeRows /\ row.active = TRUE /\ row.global = global
  BY DEF OperationsInv, OperationsTypes, FreezeRows
<1> HIDE DEF row
<1>2. freezes' = Append(freezes, row)
  BY DEF row
<1>3. /\ Len(freezes) \in Nat /\ DOMAIN freezes = 1..Len(freezes) /\ DOMAIN freezes' = 1..top
      /\ freezes' \in Seq(FreezeRows)
  BY <1>1, <1>2
<1>4. \A n \in DOMAIN freezes : freezes'[n] = freezes[n]
  BY <1>1, <1>2
<1>5. freezes'[top] = row
  BY <1>1, <1>2
<1>6. \A n \in DOMAIN freezes' : n = top \/ n \in DOMAIN freezes
  BY <1>3
<1>7. DOMAIN freezes \subseteq DOMAIN freezes'
  BY <1>3
<1> HIDE DEF top
<1>8. OperationsTypes'
  BY <1>3 DEF OperationsInv, OperationsTypes
<1>9. LiftedByOne'
  BY <1>4, <1>7 DEF OperationsInv, LiftedByOne
<1>10. SuccessLifts'
  BY <1>4, <1>7 DEF OperationsInv, SuccessLifts
<1>11. InactiveLifted'
  <2> SUFFICES ASSUME NEW n \in DOMAIN freezes'
               PROVE  freezes'[n].active \/ \E l \in lifted : l.freeze = n
    BY DEF InactiveLifted
  <2>1. CASE n = top
    BY <1>1, <1>5, <2>1
  <2>2. CASE n \in DOMAIN freezes
    BY <1>4, <2>2 DEF OperationsInv, InactiveLifted
  <2>3. QED BY <1>6, <2>1, <2>2
<1>12. KeysUsedOnce'
  BY DEF OperationsInv, KeysUsedOnce
<1>13. FreezesAlone'
  <2>1. \A n \in DOMAIN freezes : freezes[n].active => freezes[n].global # global
    BY DEF ActiveFreezes, Active
  <2> SUFFICES ASSUME NEW m \in DOMAIN freezes', NEW n \in DOMAIN freezes',
                      freezes'[m].active, freezes'[n].active, freezes'[m].global = freezes'[n].global
               PROVE  m = n
    BY DEF FreezesAlone
  <2>2. CASE m \in DOMAIN freezes /\ n \in DOMAIN freezes
    BY <1>4, <2>2 DEF OperationsInv, FreezesAlone
  <2>3. CASE m = top /\ n \in DOMAIN freezes
    <3>1. freezes[n].active /\ freezes[n].global = global
      BY <1>1, <1>4, <1>5, <2>3
    <3>2. QED BY <2>1, <2>3, <3>1
  <2>4. CASE m \in DOMAIN freezes /\ n = top
    <3>1. freezes[m].active /\ freezes[m].global = global
      BY <1>1, <1>4, <1>5, <2>4
    <3>2. QED BY <2>1, <2>4, <3>1
  <2>5. QED BY <1>6, <2>2, <2>3, <2>4
<1>14. QED BY <1>8, <1>9, <1>10, <1>11, <1>12, <1>13 DEF OperationsInv

LEMMA ContainKeeps ==
  ASSUME OperationsInv, NEW i \in Incidents, Contain(i)
  PROVE  OperationsInv'
<1>1. UNCHANGED <<incident, held, commands, lifted>>
  BY DEF Contain
<1>2. \/ freezes' = freezes
      \/ /\ ActiveFreezes(FALSE) = {}
         /\ freezes' = Append(freezes, [global |-> FALSE, active |-> TRUE])
  BY DEF Contain
<1>3. CASE freezes' = freezes
  BY <1>1, <1>3, IncidentMovesAlone DEF OperationsInv, OperationsTypes
<1>4. QED BY <1>1, <1>2, <1>3, FreezingKeeps

LEMMA RestoreKeeps ==
  ASSUME OperationsInv, Restore
  PROVE  OperationsInv'
<1>1. /\ UNCHANGED <<incident, held, commands, lifted>> /\ ActiveFreezes(TRUE) = {}
      /\ freezes' = Append(freezes, [global |-> TRUE, active |-> TRUE])
  BY DEF Restore, PostRestore
<1>2. QED BY <1>1, FreezingKeeps

(* A new command under a key of its own, which lifts nothing. *)
LEMMA RecordingKeeps ==
  ASSUME OperationsInv, NEW i \in Incidents, NEW key \in RecoveryKeys, NEW type, NEW n, NEW status,
         Given(i, key) = {}, Record(i, key, type, n, status), n = 0 \/ status # "SUCCEEDED",
         UNCHANGED <<held, freezes, lifted>>, DOMAIN incident' = Incidents
  PROVE  OperationsInv'
<1> DEFINE new == [incident |-> i, key |-> key, type |-> type, freeze |-> n, status |-> status]
<1>1. commands' = commands \cup {new}
  BY DEF Record
<1>2. new.incident = i /\ new.key = key /\ new.freeze = n /\ new.status = status
  OBVIOUS
<1> HIDE DEF new
<1>3. OperationsTypes' /\ InactiveLifted' /\ FreezesAlone'
  BY DEF OperationsInv, OperationsTypes, InactiveLifted, FreezesAlone
<1>4. LiftedByOne'
  BY <1>1 DEF OperationsInv, LiftedByOne
<1>5. SuccessLifts'
  BY <1>1, <1>2 DEF OperationsInv, SuccessLifts
<1>6. KeysUsedOnce'
  BY <1>1, <1>2 DEF OperationsInv, KeysUsedOnce, Given
<1>7. QED BY <1>3, <1>4, <1>5, <1>6 DEF OperationsInv

(* A freeze found active was lifted by no command before this one. *)
LEMMA LiftFreezeKeeps ==
  ASSUME OperationsInv, NEW i \in Incidents, NEW key \in RecoveryKeys, NEW n \in 1..MaxFreezes,
         NEW global \in BOOLEAN, LiftFreeze(i, key, n, global)
  PROVE  OperationsInv'
<1> DEFINE found == n \in ActiveFreezes(global)
           status == IF found THEN "SUCCEEDED" ELSE "NO_OP"
           type == "RELEASE_PUBLICATION_FREEZE"
<1>1. /\ Given(i, key) = {} /\ held[i] \in {"CONTAINED", "RECOVERING"}
      /\ UNCHANGED <<incident, held>> /\ Record(i, key, type, n, status)
  BY DEF LiftFreeze, Allowed
<1>2. CASE ~found
  <2>1. UNCHANGED <<freezes, lifted>> /\ status # "SUCCEEDED" /\ DOMAIN incident' = Incidents
    BY <1>1, <1>2 DEF LiftFreeze, OperationsInv, OperationsTypes
  <2>2. QED BY <1>1, <2>1, RecordingKeeps
<1>3. CASE found
  <2> DEFINE new == [incident |-> i, key |-> key, type |-> type, freeze |-> n, status |-> "SUCCEEDED"]
             lift == [freeze |-> n, incident |-> i, shown |-> held[i]]
             row == [global |-> freezes[n].global, active |-> FALSE]
  <2>1. commands' = commands \cup {new} /\ lifted' = lifted \cup {lift}
    BY <1>1, <1>3 DEF LiftFreeze, Record
  <2>2. /\ n \in DOMAIN freezes /\ freezes[n].active
        /\ freezes \in Seq(FreezeRows) /\ freezes[n] \in FreezeRows
    BY <1>3 DEF ActiveFreezes, Active, OperationsInv, OperationsTypes
  <2>3. freezes' = [freezes EXCEPT ![n] = row]
    BY <1>3 DEF LiftFreeze
  <2>4. row \in FreezeRows /\ row.active = FALSE /\ row.global = freezes[n].global
    BY <2>2 DEF FreezeRows
  <2>5. /\ new.incident = i /\ new.key = key /\ new.freeze = n /\ new.status = "SUCCEEDED"
        /\ lift.freeze = n /\ lift.incident = i /\ lift.shown = held[i]
    OBVIOUS
  <2> HIDE DEF new, lift, row, found
  <2>6. /\ freezes' \in Seq(FreezeRows) /\ DOMAIN freezes' = DOMAIN freezes
        /\ \A m \in DOMAIN freezes : freezes'[m] = IF m = n THEN row ELSE freezes[m]
    BY <2>2, <2>3, <2>4
  <2>7. \A m \in DOMAIN freezes : ~freezes[m].active => m # n /\ freezes'[m] = freezes[m]
    BY <2>2, <2>6
  <2>8. OperationsTypes'
    BY <1>1, <2>6 DEF OperationsInv, OperationsTypes
  <2>9. LiftedByOne'
    <3> SUFFICES ASSUME NEW l \in lifted'
                 PROVE  /\ l.freeze \in DOMAIN freezes' /\ ~freezes'[l.freeze].active
                        /\ l.shown \in {"CONTAINED", "RECOVERING"}
                        /\ \E c \in commands' : /\ c.incident = l.incident /\ c.freeze = l.freeze
                                                /\ c.status = "SUCCEEDED"
      BY DEF LiftedByOne
    <3>1. CASE l \in lifted
      BY <2>1, <2>6, <2>7, <3>1 DEF OperationsInv, LiftedByOne
    <3>2. CASE l = lift
      BY <1>1, <2>1, <2>2, <2>4, <2>5, <2>6, <3>2
    <3>3. QED BY <2>1, <3>1, <3>2
  <2>10. SuccessLifts'
    <3>1. \A c \in commands : c.status = "SUCCEEDED" /\ c.freeze # 0 => c.freeze # n
      BY <2>2 DEF OperationsInv, SuccessLifts
    <3>2. ASSUME NEW c \in commands, c.status = "SUCCEEDED", c.freeze # 0
          PROVE  /\ c.freeze \in DOMAIN freezes' /\ ~freezes'[c.freeze].active
                 /\ \A d \in commands' : d.status = "SUCCEEDED" /\ d.freeze = c.freeze => d = c
      BY <2>1, <2>5, <2>6, <2>7, <3>1, <3>2 DEF OperationsInv, SuccessLifts
    <3>3. n # 0
      OBVIOUS
    <3>4. /\ new.freeze \in DOMAIN freezes' /\ ~freezes'[new.freeze].active
          /\ \A d \in commands' : d.status = "SUCCEEDED" /\ d.freeze = new.freeze => d = new
      BY <2>1, <2>2, <2>4, <2>5, <2>6, <3>1, <3>3
    <3>5. QED BY <2>1, <3>2, <3>4 DEF SuccessLifts
  <2>11. InactiveLifted'
    BY <2>1, <2>5, <2>6 DEF OperationsInv, InactiveLifted
  <2>12. KeysUsedOnce'
    BY <1>1, <2>1, <2>5 DEF OperationsInv, KeysUsedOnce, Given
  <2>13. FreezesAlone'
    BY <2>4, <2>6 DEF OperationsInv, FreezesAlone
  <2>14. QED BY <2>8, <2>9, <2>10, <2>11, <2>12, <2>13 DEF OperationsInv
<1>4. QED BY <1>2, <1>3

LEMMA OperationsStepKeeps == OperationsInv /\ [OperationsNext]_operationsVars => OperationsInv'
<1> SUFFICES ASSUME OperationsInv, [OperationsNext]_operationsVars PROVE OperationsInv'
  OBVIOUS
<1>1. DOMAIN incident = Incidents /\ DOMAIN held = Incidents
  BY DEF OperationsInv, OperationsTypes
<1>2. ASSUME NEW i \in Incidents, OpenIncident(i) \/ ReadIncident(i) PROVE OperationsInv'
  BY <1>1, <1>2, IncidentMovesAlone DEF OpenIncident, ReadIncident
<1>3. ASSUME NEW i \in Incidents, NEW to, MoveIncident(i, to) PROVE OperationsInv'
  BY <1>1, <1>3, IncidentMovesAlone DEF MoveIncident
<1>4. ASSUME NEW i \in Incidents, NEW key \in RecoveryKeys, NEW type, NEW status,
             ActElsewhere(i, key, type, status)
      PROVE  OperationsInv'
  BY <1>1, <1>4, RecordingKeeps DEF ActElsewhere
<1>5. ASSUME NEW i \in Incidents, NEW key \in RecoveryKeys, ResolveIncident(i, key)
      PROVE  OperationsInv'
  <2>1. PICK status : Record(i, key, "RESOLVE_INCIDENT", 0, status)
    BY <1>5 DEF ResolveIncident
  <2>2. DOMAIN incident' = Incidents
    BY <1>1, <1>5 DEF ResolveIncident
  <2>3. Given(i, key) = {} /\ UNCHANGED <<held, freezes, lifted>>
    BY <1>5 DEF ResolveIncident
  <2>4. QED BY <2>1, <2>2, <2>3, RecordingKeeps
<1>6. CASE UNCHANGED operationsVars
  BY <1>1, <1>6, IncidentMovesAlone DEF operationsVars
<1>7. QED BY <1>2, <1>3, <1>4, <1>5, <1>6, ContainKeeps, LiftFreezeKeeps, RestoreKeeps
          DEF OperationsNext

LEMMA AtMostOne ==
  ASSUME NEW S, \A x, y \in S : x = y
  PROVE  Cardinality(S) <= 1 /\ (S # {} => Cardinality(S) = 1)
<1>1. CASE S = {}
  BY <1>1, FS_EmptySet
<1>2. CASE S # {}
  <2>1. PICK x \in S : S = {x}
    BY <1>2
  <2>2. QED BY <2>1, FS_Singleton
<1>3. QED BY <1>1, <1>2

LEMMA FreezesAreAccounted == OperationsInv => FreezesAccounted
<1> SUFFICES ASSUME OperationsInv PROVE FreezesAccounted
  OBVIOUS
<1>1. \A n \in DOMAIN freezes :
        freezes[n].active \/ \E l \in lifted : l.freeze = n /\ l.shown \in {"CONTAINED", "RECOVERING"}
  BY DEF OperationsInv, InactiveLifted, LiftedByOne
<1>2. ASSUME NEW l \in lifted
      PROVE  Cardinality({c \in commands : c.incident = l.incident /\ c.freeze = l.freeze
                                           /\ c.status = "SUCCEEDED"}) = 1
  <2> DEFINE S == {c \in commands : c.incident = l.incident /\ c.freeze = l.freeze
                                    /\ c.status = "SUCCEEDED"}
  <2>1. S # {}
    BY DEF OperationsInv, LiftedByOne
  <2>2. l.freeze # 0
    <3>1. l.freeze \in 1..Len(freezes)
      BY DEF OperationsInv, OperationsTypes, LiftedByOne
    <3>2. QED BY <3>1
  <2>3. \A x, y \in S : x = y
    BY <2>2 DEF OperationsInv, SuccessLifts
  <2> HIDE DEF S
  <2>4. Cardinality(S) = 1
    BY <2>1, <2>3, AtMostOne
  <2>5. QED BY <2>4 DEF S
<1>3. ASSUME NEW i \in Incidents, NEW key \in RecoveryKeys PROVE Cardinality(Given(i, key)) <= 1
  <2>1. \A c, d \in Given(i, key) : c = d
    BY DEF OperationsInv, KeysUsedOnce, Given
  <2>2. QED BY <2>1, AtMostOne
<1>4. ASSUME NEW global \in BOOLEAN PROVE Cardinality(ActiveFreezes(global)) <= 1
  <2>1. \A m, n \in ActiveFreezes(global) : m = n
    BY DEF OperationsInv, FreezesAlone, ActiveFreezes, Active
  <2>2. QED BY <2>1, AtMostOne
<1>5. QED BY <1>1, <1>2, <1>3, <1>4 DEF FreezesAccounted

(* RecoveryCommandFramework: for any incidents, keys and freezes, a freeze is    *)
(* active or was lifted by one successful command shown a handled incident, a    *)
(* key serves one command, and one freeze of a kind is active at most.           *)
THEOREM FreezesStayAccounted == OperationsSpec => []FreezesAccounted
BY OperationsStart, OperationsStepKeeps, FreezesAreAccounted, PTL DEF OperationsSpec

-----------------------------------------------------------------------------
(* Releases *)

States == DOMAIN Transitions

ReleaseTypes ==
  /\ frozen \in BOOLEAN /\ members \subseteq Candidates /\ approved \subseteq members
  /\ item \in [members -> States] /\ logged \in [members -> States]
  /\ read \in [members -> States]

(* Nothing was approved or published before there are members. *)
ThawedIsEmpty == ~frozen => approved = {} /\ live = {} /\ members = {}

MembersApart == ~Conflicting(members)

PublishedIsLive == live = In(item, {"PUBLISHED"})

ApprovalsCover == In(item, {"APPROVED", "PUBLISHED"}) \subseteq approved

HistoryExplains ==
  \A c \in members :
    item[c] # logged[c] => item[c] = "GENERATION_QUEUED" /\ logged[c] \in {"FAILED", "BLOCKED"}

ReleaseInv ==
  /\ ReleaseTypes /\ ThawedIsEmpty /\ MembersApart /\ PublishedIsLive /\ ApprovalsCover
  /\ HistoryExplains

LEMMA ReleaseStarts == ReleaseInit => ReleaseInv
<1> SUFFICES ASSUME ReleaseInit PROVE ReleaseInv
  OBVIOUS
<1>1. <<>> \in [{} -> States]
  OBVIOUS
<1>2. ReleaseTypes
  BY <1>1 DEF ReleaseInit, ReleaseTypes
<1>3. ThawedIsEmpty /\ MembersApart /\ PublishedIsLive /\ ApprovalsCover /\ HistoryExplains
  BY DEF ReleaseInit, ThawedIsEmpty, MembersApart, Conflicting, PublishedIsLive, ApprovalsCover,
         HistoryExplains, In
<1>4. QED BY <1>2, <1>3 DEF ReleaseInv

LEMMA FreezeKeeps ==
  ASSUME ReleaseInv, NEW cs \in SUBSET Candidates, NEW scope \in Scopes, Freeze(cs, scope)
  PROVE  ReleaseInv'
<1> DEFINE chosen == {c \in cs : c.ordinal \in scope}
<1>1. /\ ~frozen /\ frozen' = TRUE /\ members' = chosen /\ ~Conflicting(chosen)
      /\ item' = [c \in chosen |-> "PENDING"] /\ logged' = item' /\ read' = item'
      /\ UNCHANGED <<approved, live>>
  BY DEF Freeze, Resolvable
<1>2. approved = {} /\ live = {}
  BY <1>1 DEF ReleaseInv, ThawedIsEmpty
<1>3. chosen \subseteq Candidates
  OBVIOUS
<1>4. "PENDING" \in States
  BY DEF States, Transitions
<1> HIDE DEF chosen
<1>5. ReleaseTypes' /\ ThawedIsEmpty' /\ MembersApart'
  BY <1>1, <1>2, <1>3, <1>4 DEF ReleaseTypes, ThawedIsEmpty, MembersApart, Conflicting, States
<1>6. PublishedIsLive' /\ ApprovalsCover' /\ HistoryExplains'
  BY <1>1, <1>2 DEF PublishedIsLive, ApprovalsCover, HistoryExplains, In
<1>7. QED BY <1>5, <1>6 DEF ReleaseInv

(* Items that move with a history row, or stay as they are. *)
LEMMA ItemsMove ==
  ASSUME ReleaseInv, frozen, UNCHANGED <<frozen, members, read>>,
         NEW changed \in SUBSET members, NEW outcome \in [changed -> States],
         item' = [c \in members |-> IF c \in changed THEN outcome[c] ELSE item[c]],
         logged' = [c \in members |-> IF c \in changed THEN outcome[c] ELSE logged[c]],
         live' = In(item', {"PUBLISHED"}), approved \subseteq approved', approved' \subseteq members,
         \A c \in changed : outcome[c] \in {"APPROVED", "PUBLISHED"} => c \in approved'
  PROVE  ReleaseInv'
<1>1. ReleaseTypes'
  BY DEF ReleaseInv, ReleaseTypes, States
<1>2. ThawedIsEmpty' /\ MembersApart'
  BY DEF ReleaseInv, ThawedIsEmpty, MembersApart, Conflicting
<1>3. PublishedIsLive'
  BY DEF PublishedIsLive, In
<1>4. ApprovalsCover'
  BY DEF ReleaseInv, ApprovalsCover, In
<1>5. HistoryExplains'
  BY DEF ReleaseInv, HistoryExplains
<1>6. QED BY <1>1, <1>2, <1>3, <1>4, <1>5 DEF ReleaseInv

(* One call that publishes nothing and moves nothing that is published. *)
LEMMA MoveKeeps ==
  ASSUME ReleaseInv, frozen, NEW seen, NEW changed \in SUBSET members, NEW to \in States,
         MoveTo(seen, changed, to), to # "PUBLISHED", \A c \in changed : seen[c] # "PUBLISHED",
         UNCHANGED <<frozen, members, read, live>>,
         approved \subseteq approved', approved' \subseteq members,
         to = "APPROVED" => changed \subseteq approved'
  PROVE  ReleaseInv'
<1> DEFINE outcome == [c \in changed |-> to]
<1>1. outcome \in [changed -> States] /\ \A c \in changed : outcome[c] = to
  OBVIOUS
<1> HIDE DEF outcome
<1>2. /\ item' = [c \in members |-> IF c \in changed THEN outcome[c] ELSE item[c]]
      /\ logged' = [c \in members |-> IF c \in changed THEN outcome[c] ELSE logged[c]]
  BY <1>1 DEF MoveTo
<1>3. \A c \in changed : item[c] # "PUBLISHED"
  BY DEF MoveTo, Current
<1>4. \A c \in members : item'[c] = IF c \in changed THEN to ELSE item[c]
  BY DEF MoveTo
<1>5. In(item', {"PUBLISHED"}) = In(item, {"PUBLISHED"})
  BY <1>3, <1>4 DEF In
<1>6. live' = In(item', {"PUBLISHED"})
  BY <1>5 DEF ReleaseInv, PublishedIsLive
<1>7. QED BY <1>1, <1>2, <1>6, ItemsMove

LEMMA CoordinateKeeps ==
  ASSUME ReleaseInv, frozen, NEW seen, Coordinate(seen)
  PROVE  ReleaseInv'
<1> DEFINE asked == In(seen, {"PENDING", "FAILED", "BLOCKED"})
           moved == {c \in asked : item[c] = seen[c]}
<1>1. MoveTo(seen, moved, "GENERATION_QUEUED") /\ UNCHANGED <<frozen, members, read, approved, live>>
  BY DEF Coordinate
<1>2. moved \in SUBSET members /\ \A c \in moved : seen[c] # "PUBLISHED"
  BY DEF In
<1>3. "GENERATION_QUEUED" \in States
  BY DEF States, Transitions
<1> HIDE DEF moved
<1>4. approved \subseteq members
  BY DEF ReleaseInv, ReleaseTypes
<1>5. QED BY <1>1, <1>2, <1>3, <1>4, MoveKeeps

LEMMA ReportKeeps ==
  ASSUME ReleaseInv, frozen, NEW seen, NEW c \in members,
         NEW to \in {"GENERATING", "GENERATED", "VALIDATED", "BLOCKED", "FAILED"}, Report(seen, c, to)
  PROVE  ReleaseInv'
<1>1. MoveTo(seen, {c}, to) /\ UNCHANGED <<frozen, members, read, approved, live>>
  BY DEF Report
<1>2. seen[c] # "PUBLISHED"
  <2>1. to \in Transitions[seen[c]]
    BY <1>1 DEF MoveTo, Legal
  <2>2. to \notin Transitions["PUBLISHED"]
    BY DEF Transitions
  <2>3. QED BY <2>1, <2>2
<1>3. to \in States
  BY DEF States, Transitions
<1>4. approved \subseteq members
  BY DEF ReleaseInv, ReleaseTypes
<1>5. QED BY <1>1, <1>2, <1>3, <1>4, MoveKeeps

LEMMA StageKeeps ==
  ASSUME ReleaseInv, frozen, NEW seen, Stage(seen)
  PROVE  ReleaseInv'
<1>1. MoveTo(seen, members, "STAGED") /\ UNCHANGED <<frozen, members, read, approved, live>>
  BY DEF Stage
<1>2. \A c \in members : seen[c] # "PUBLISHED"
  BY DEF Stage, In
<1>3. "STAGED" \in States
  BY DEF States, Transitions
<1>4. approved \subseteq members
  BY DEF ReleaseInv, ReleaseTypes
<1>5. QED BY <1>1, <1>2, <1>3, <1>4, MoveKeeps

LEMMA ApproveKeeps ==
  ASSUME ReleaseInv, frozen, NEW seen, Approve(seen)
  PROVE  ReleaseInv'
<1>1. MoveTo(seen, members, "APPROVED") /\ UNCHANGED <<frozen, members, read, live>> /\ approved' = members
  BY DEF Approve
<1>2. \A c \in members : seen[c] = "STAGED" /\ item[c] = "STAGED"
  BY <1>1 DEF Approve, In, MoveTo, Current
<1>3. "APPROVED" \in States
  BY DEF States, Transitions
<1>4. approved \subseteq members
  BY DEF ReleaseInv, ReleaseTypes
<1>5. QED BY <1>1, <1>2, <1>3, <1>4, MoveKeeps

LEMMA PublishKeeps ==
  ASSUME ReleaseInv, frozen, NEW seen, NEW good \in SUBSET members, Publish(seen, good)
  PROVE  ReleaseInv'
<1> DEFINE attempted == Attempted(In(seen, {"APPROVED"}), good)
           outcome == [c \in attempted |-> IF c \in good THEN "PUBLISHED" ELSE "FAILED"]
<1>1. /\ item' = [c \in members |-> IF c \in attempted
                                    THEN IF c \in good THEN "PUBLISHED" ELSE "FAILED" ELSE item[c]]
      /\ logged' = [c \in members |-> IF c \in attempted
                                      THEN IF c \in good THEN "PUBLISHED" ELSE "FAILED" ELSE logged[c]]
      /\ live' = live \cup (attempted \cap good)
      /\ UNCHANGED <<frozen, members, read, approved>>
  BY DEF Publish
<1>2. attempted \in SUBSET members /\ \A c \in attempted : item[c] = "APPROVED"
  BY DEF Publish, Attempted, In, Current
<1> HIDE DEF attempted
<1>3. "PUBLISHED" \in States /\ "FAILED" \in States
  BY DEF States, Transitions
<1>4. outcome \in [attempted -> States]
  BY <1>3
<1>5. \A c \in attempted : outcome[c] = IF c \in good THEN "PUBLISHED" ELSE "FAILED"
  OBVIOUS
<1> HIDE DEF outcome
<1>6. /\ item' = [c \in members |-> IF c \in attempted THEN outcome[c] ELSE item[c]]
      /\ logged' = [c \in members |-> IF c \in attempted THEN outcome[c] ELSE logged[c]]
  BY <1>1, <1>5
<1>7. attempted \subseteq approved /\ approved \subseteq members
  BY <1>2 DEF ReleaseInv, ReleaseTypes, ApprovalsCover, In
<1>8. live = In(item, {"PUBLISHED"})
  BY DEF ReleaseInv, PublishedIsLive
<1>9. \A c \in members : item'[c] = "PUBLISHED" <=> (c \in live \/ c \in attempted \cap good)
  BY <1>1, <1>2, <1>8 DEF In
<1>10. live' = In(item', {"PUBLISHED"})
  BY <1>1, <1>2, <1>8, <1>9 DEF In
<1>11. QED BY <1>1, <1>2, <1>4, <1>6, <1>7, <1>10, ItemsMove

LEMMA RollbackKeeps ==
  ASSUME ReleaseInv, frozen, NEW seen, Rollback(seen)
  PROVE  ReleaseInv'
<1> DEFINE published == In(seen, {"PUBLISHED"})
           outcome == [c \in published |-> "ROLLED_BACK"]
<1>1. /\ MoveTo(seen, published, "ROLLED_BACK") /\ live' = live \ published
      /\ UNCHANGED <<frozen, members, read, approved>>
  BY DEF Rollback
<1>2. published \in SUBSET members
  BY DEF In
<1> HIDE DEF published
<1>3. "ROLLED_BACK" \in States
  BY DEF States, Transitions
<1>4. outcome \in [published -> States] /\ \A c \in published : outcome[c] = "ROLLED_BACK"
  BY <1>3
<1> HIDE DEF outcome
<1>5. /\ item' = [c \in members |-> IF c \in published THEN outcome[c] ELSE item[c]]
      /\ logged' = [c \in members |-> IF c \in published THEN outcome[c] ELSE logged[c]]
  BY <1>1, <1>4 DEF MoveTo
<1>6. live = In(item, {"PUBLISHED"})
  BY DEF ReleaseInv, PublishedIsLive
<1>7. live' = In(item', {"PUBLISHED"})
  BY <1>1, <1>4, <1>5, <1>6 DEF In
<1>8. approved \subseteq members
  BY DEF ReleaseInv, ReleaseTypes
<1>9. QED BY <1>1, <1>2, <1>4, <1>5, <1>7, <1>8, ItemsMove

LEMMA CancelKeeps ==
  ASSUME ReleaseInv, frozen, NEW seen, Cancel(seen)
  PROVE  ReleaseInv'
<1> DEFINE changed == In(seen, DOMAIN Transitions \ {"CANCELLED"})
<1>1. MoveTo(seen, changed, "CANCELLED") /\ UNCHANGED <<frozen, members, read, approved, live>>
  BY DEF Cancel
<1>2. changed \in SUBSET members /\ \A c \in changed : seen[c] # "PUBLISHED"
  BY DEF Cancel, In
<1> HIDE DEF changed
<1>3. "CANCELLED" \in States
  BY DEF States, Transitions
<1>4. approved \subseteq members
  BY DEF ReleaseInv, ReleaseTypes
<1>5. QED BY <1>1, <1>2, <1>3, <1>4, MoveKeeps

(* The retry writes a state without a history row. *)
LEMMA RetryItemKeeps ==
  ASSUME ReleaseInv, frozen, NEW c \in members, RetryItem(c)
  PROVE  ReleaseInv'
<1>1. /\ item[c] \in {"FAILED", "BLOCKED"} /\ item' = [item EXCEPT ![c] = "GENERATION_QUEUED"]
      /\ UNCHANGED <<frozen, members, read, logged, requested, approved, live>>
  BY DEF RetryItem
<1>2. "GENERATION_QUEUED" \in States
  BY DEF States, Transitions
<1>3. \A d \in members : item'[d] = IF d = c THEN "GENERATION_QUEUED" ELSE item[d]
  BY <1>1 DEF ReleaseInv, ReleaseTypes
<1>4. logged[c] = item[c]
  BY <1>1 DEF ReleaseInv, HistoryExplains
<1>5. ReleaseTypes'
  BY <1>1, <1>2 DEF ReleaseInv, ReleaseTypes, States
<1>6. ThawedIsEmpty' /\ MembersApart'
  BY <1>1 DEF ReleaseInv, ThawedIsEmpty, MembersApart, Conflicting
<1>7. PublishedIsLive' /\ ApprovalsCover'
  BY <1>1, <1>3 DEF ReleaseInv, PublishedIsLive, ApprovalsCover, In
<1>8. HistoryExplains'
  BY <1>1, <1>3, <1>4 DEF ReleaseInv, HistoryExplains
<1>9. QED BY <1>5, <1>6, <1>7, <1>8 DEF ReleaseInv

LEMMA ReleaseStepKeeps == ReleaseInv /\ [ReleaseNext]_releaseVars => ReleaseInv'
<1> SUFFICES ASSUME ReleaseInv, [ReleaseNext]_releaseVars PROVE ReleaseInv'
  OBVIOUS
<1>1. CASE List
  BY <1>1 DEF List, ReleaseInv, ReleaseTypes, States, ThawedIsEmpty, MembersApart, Conflicting,
              PublishedIsLive, ApprovalsCover, HistoryExplains, In
<1>2. CASE UNCHANGED releaseVars
  BY <1>2 DEF releaseVars, ReleaseInv, ReleaseTypes, States, ThawedIsEmpty, MembersApart, Conflicting,
              PublishedIsLive, ApprovalsCover, HistoryExplains, In
<1>3. QED BY <1>1, <1>2, FreezeKeeps, CoordinateKeeps, StageKeeps, ApproveKeeps, RollbackKeeps,
             CancelKeeps, ReportKeeps, PublishKeeps, RetryItemKeeps DEF ReleaseNext

LEMMA LiveAccounted == ReleaseInv => LiveItemsAccounted
<1> SUFFICES ASSUME ReleaseInv, frozen
             PROVE  /\ live = In(item, {"PUBLISHED"}) /\ live \subseteq approved
                    /\ Reconciled = "PUBLISHED" => live = members
                    /\ \A c \in members : item[c] # logged[c] =>
                         item[c] = "GENERATION_QUEUED" /\ logged[c] \in {"FAILED", "BLOCKED"}
  BY DEF LiveItemsAccounted
<1>1. live = In(item, {"PUBLISHED"})
  BY DEF ReleaseInv, PublishedIsLive
<1>2. live \subseteq approved
  BY <1>1 DEF ReleaseInv, ApprovalsCover, In
<1>3. Reconciled = "PUBLISHED" => In(item, {"PUBLISHED"}) = members
  BY DEF Reconciled
<1>4. QED BY <1>1, <1>2, <1>3 DEF ReleaseInv, HistoryExplains

(* ChunkedPublicationService and the services around it: for any membership and *)
(* policy, and however stale the lists they work from, what is live is what the *)
(* items say is published and an approval covered, and only a retry escapes the *)
(* history.                                                                     *)
THEOREM LiveItemsStayAccounted == ReleaseSpec => []LiveItemsAccounted
BY ReleaseStarts, ReleaseStepKeeps, LiveAccounted, PTL DEF ReleaseSpec

-----------------------------------------------------------------------------
(* How far one publication call can go wrong.  A chunk holds ChunkSize items *)
(* at most, as ordinals tell members apart; a failed item was attempted, so  *)
(* the chunks before the last one with a failure were tolerated together.    *)

Rank(set, c) == Cardinality({d \in set : d.ordinal < c.ordinal})

LEMMA RanksAreNumbers ==
  ASSUME NEW E \in SUBSET Candidates, NEW c
  PROVE  /\ IsFiniteSet(E) /\ Cardinality(E) \in Nat
         /\ Rank(E, c) \in 0..Cardinality(E) /\ Chunk(E, c) \in 0..Cardinality(E)
         /\ Chunk(E, c) = Rank(E, c) \div ChunkSize
<1>1. IsFiniteSet(E) /\ Cardinality(E) \in Nat
  BY RolloutAssumption, FS_Subset, FS_CardinalityType
<1>2. Rank(E, c) \in Nat /\ Rank(E, c) <= Cardinality(E)
  <2> DEFINE S == {d \in E : d.ordinal < c.ordinal}
  <2>1. S \in SUBSET E
    OBVIOUS
  <2> HIDE DEF S
  <2>2. IsFiniteSet(S) /\ Cardinality(S) <= Cardinality(E)
    BY <1>1, <2>1, FS_Subset
  <2>3. Cardinality(S) \in Nat
    BY <2>2, FS_CardinalityType
  <2>4. QED BY <2>2, <2>3 DEF S, Rank
<1>3. Chunk(E, c) = Rank(E, c) \div ChunkSize
  BY DEF Chunk, Rank
<1>4. ChunkSize \in Nat \ {0}
  BY RolloutAssumption
<1>5. Rank(E, c) \div ChunkSize \in Nat /\ Rank(E, c) \div ChunkSize <= Rank(E, c)
  BY <1>2, <1>4
<1>6. QED BY <1>1, <1>2, <1>3, <1>5

LEMMA RanksGrow ==
  ASSUME NEW E \in SUBSET Candidates, NEW c \in E, NEW d \in E, c.ordinal < d.ordinal
  PROVE  Rank(E, c) < Rank(E, d)
<1> DEFINE below(x) == {y \in E : y.ordinal < x.ordinal}
<1>1. c.ordinal \in Nat /\ d.ordinal \in Nat /\ \A y \in E : y.ordinal \in Nat
  BY RolloutAssumption
<1>2. below(c) \subseteq below(d) /\ c \in below(d) /\ c \notin below(c)
  BY <1>1
<1>3. IsFiniteSet(below(d))
  <2>1. IsFiniteSet(E) /\ below(d) \in SUBSET E
    BY RanksAreNumbers
  <2> HIDE DEF below
  <2>2. QED BY <2>1, FS_Subset
<1>4. Rank(E, c) \in Nat /\ Rank(E, d) \in Nat
  BY RanksAreNumbers
<1>5. Rank(E, c) = Cardinality(below(c)) /\ Rank(E, d) = Cardinality(below(d))
  BY DEF Rank
<1> HIDE DEF below
<1>6. Cardinality(below(c)) <= Cardinality(below(d)) /\ Cardinality(below(c)) # Cardinality(below(d))
  BY <1>2, <1>3, FS_Subset
<1>7. QED BY <1>4, <1>5, <1>6

LEMMA ChunkOfRank ==
  ASSUME NEW r \in Nat, NEW size \in Nat \ {0}
  PROVE  size * (r \div size) <= r /\ r < size * (r \div size) + size
OBVIOUS

LEMMA ChunksAreSmall ==
  ASSUME NEW E \in SUBSET Candidates, ~Conflicting(E), NEW n \in Nat
  PROVE  /\ IsFiniteSet({c \in E : Chunk(E, c) = n})
         /\ Cardinality({c \in E : Chunk(E, c) = n}) <= ChunkSize
<1> DEFINE S == {c \in E : Chunk(E, c) = n}
           place == [c \in S |-> Rank(E, c) - ChunkSize * n]
<1>1. ChunkSize \in Nat \ {0} /\ ChunkSize * n \in Int
  BY RolloutAssumption
<1>2. \A c \in S : /\ Rank(E, c) \in Nat /\ ChunkSize * n <= Rank(E, c)
                   /\ Rank(E, c) < ChunkSize * n + ChunkSize
  <2> SUFFICES ASSUME NEW c \in S
               PROVE  /\ Rank(E, c) \in Nat /\ ChunkSize * n <= Rank(E, c)
                      /\ Rank(E, c) < ChunkSize * n + ChunkSize
    OBVIOUS
  <2> DEFINE r == Rank(E, c)
  <2>1. Cardinality(E) \in Nat /\ r \in 0..Cardinality(E) /\ r \div ChunkSize = n
    BY RanksAreNumbers
  <2>2. r \in Nat
    BY <2>1
  <2> HIDE DEF r
  <2>3. ChunkSize * (r \div ChunkSize) <= r /\ r < ChunkSize * (r \div ChunkSize) + ChunkSize
    BY <1>1, <2>2, ChunkOfRank
  <2>4. ChunkSize * n <= r /\ r < ChunkSize * n + ChunkSize
    BY <2>1, <2>3
  <2>5. QED BY <2>2, <2>4 DEF r
<1>3. \A c \in S : place[c] = Rank(E, c) - ChunkSize * n
  OBVIOUS
<1>4. place \in [S -> 0..ChunkSize - 1]
  <2>1. \A c \in S : Rank(E, c) - ChunkSize * n \in 0..ChunkSize - 1
    <3> DEFINE base == ChunkSize * n
    <3>1. base \in Int /\ \A c \in S : Rank(E, c) \in Nat /\ base <= Rank(E, c) /\ Rank(E, c) < base + ChunkSize
      BY <1>1, <1>2
    <3> HIDE DEF base, S
    <3>2. \A c \in S : Rank(E, c) - base \in 0..ChunkSize - 1
      BY <1>1, <3>1
    <3>3. QED BY <3>2 DEF base
  <2> HIDE DEF S
  <2>2. QED BY <2>1
<1>5. \A c, d \in S : place[c] = place[d] => c = d
  <2> SUFFICES ASSUME NEW c \in S, NEW d \in S, place[c] = place[d] PROVE c = d
    OBVIOUS
  <2>1. Rank(E, c) = Rank(E, d)
    <3>1. Rank(E, c) \in Nat /\ Rank(E, d) \in Nat /\ Rank(E, c) - ChunkSize * n = Rank(E, d) - ChunkSize * n
      BY <1>2, <1>3
    <3> DEFINE base == ChunkSize * n
    <3>2. base \in Int
      BY <1>1
    <3> HIDE DEF base
    <3>3. Rank(E, c) - base = Rank(E, d) - base
      BY <3>1 DEF base
    <3>4. QED BY <3>1, <3>2, <3>3
  <2>2. ~(c.ordinal < d.ordinal) /\ ~(d.ordinal < c.ordinal)
    BY <1>2, <2>1, RanksGrow
  <2>3. c.ordinal \in Nat /\ d.ordinal \in Nat
    BY RolloutAssumption
  <2>4. c.ordinal = d.ordinal
    BY <2>2, <2>3
  <2>5. QED BY <2>4 DEF Conflicting
<1> HIDE DEF S, place
<1>6. place \in Injection(S, 0..ChunkSize - 1)
  BY <1>4, <1>5 DEF Injection, IsInjective
<1>7. IsFiniteSet(0..ChunkSize - 1) /\ Cardinality(0..ChunkSize - 1) = ChunkSize
  BY <1>1, FS_Interval
<1>8. IsFiniteSet(S) /\ Cardinality(S) <= ChunkSize
  BY <1>6, <1>7, FS_Injection
<1>9. QED BY <1>8 DEF S

LEMMA FailuresAreBounded ==
  ASSUME NEW E \in SUBSET Candidates, ~Conflicting(E), NEW good
  PROVE  /\ IsFiniteSet(Attempted(E, good) \ good)
         /\ Cardinality(Attempted(E, good) \ good) <= MaxFailed + ChunkSize
<1> DEFINE F == Attempted(E, good) \ good
           top == Cardinality(E)
           gaps == {top - Chunk(E, c) : c \in F}
           upTo(n) == {d \in E : Chunk(E, d) <= n}
           chunkOf(n) == {d \in E : Chunk(E, d) = n}
<1>1. MaxFailed \in Nat /\ ChunkSize \in Nat /\ IsFiniteSet(E) /\ top \in Nat
  BY RolloutAssumption, RanksAreNumbers
<1>2. F \subseteq E /\ \A c \in E : Chunk(E, c) \in 0..top
  BY RanksAreNumbers DEF Attempted
<1>3. IsFiniteSet(F) /\ Cardinality(F) \in Nat
  <2> HIDE DEF F
  <2>1. QED BY <1>1, <1>2, FS_Subset, FS_CardinalityType
<1>4. CASE F = {}
  BY <1>1, <1>3, <1>4, FS_EmptySet
<1>5. CASE F # {}
  <2>1. gaps \in SUBSET Nat /\ gaps # {}
    BY <1>1, <1>2, <1>5
  <2>2. PICK x \in gaps : \A y \in gaps : x <= y
    <3> HIDE DEF gaps
    <3>1. QED BY <2>1, LeastNumber
  <2>3. PICK last \in F : x = top - Chunk(E, last)
    BY <2>2
  <2> DEFINE n == Chunk(E, last)
  <2>4. n \in Nat /\ \A c \in F : Chunk(E, c) \in Nat /\ Chunk(E, c) <= n
    BY <1>1, <1>2, <2>2, <2>3
  <2>5. IsFiniteSet(chunkOf(n)) /\ Cardinality(chunkOf(n)) <= ChunkSize /\ Cardinality(chunkOf(n)) \in Nat
    <3> HIDE DEF n
    <3>1. IsFiniteSet(chunkOf(n)) /\ Cardinality(chunkOf(n)) <= ChunkSize
      BY <2>4, ChunksAreSmall
    <3>2. QED BY <3>1, FS_CardinalityType
  <2>6. CASE n = 0
    <3>1. F \subseteq chunkOf(n)
      BY <1>2, <2>4, <2>6
    <3> HIDE DEF F, chunkOf, n
    <3>2. Cardinality(F) <= Cardinality(chunkOf(n))
      BY <2>5, <3>1, FS_Subset
    <3>3. QED BY <1>1, <1>3, <2>5, <3>2 DEF F
  <2>7. CASE n # 0
    <3> DEFINE before == upTo(n - 1) \ good
    <3>1. n - 1 \in 0..Chunk(E, last) - 1
      BY <2>4, <2>7
    <3>2. last \in Attempted(E, good)
      BY <2>3
    <3>3. ~TooMany(Cardinality(before), Cardinality(upTo(n - 1)))
      BY <3>1, <3>2 DEF Attempted
    <3>4. IsFiniteSet(before) /\ Cardinality(before) \in Nat
      <4>1. before \in SUBSET E
        OBVIOUS
      <4> HIDE DEF before
      <4>2. QED BY <1>1, <4>1, FS_Subset, FS_CardinalityType
    <3>5. Cardinality(before) <= MaxFailed
      BY <1>1, <3>3, <3>4 DEF TooMany
    <3>6. F \subseteq before \cup chunkOf(n)
      BY <1>2, <2>4
    <3> HIDE DEF F, before, chunkOf, n
    <3>7. /\ IsFiniteSet(before \cup chunkOf(n))
          /\ Cardinality(before \cup chunkOf(n))
               = Cardinality(before) + Cardinality(chunkOf(n)) - Cardinality(before \cap chunkOf(n))
      BY <2>5, <3>4, FS_Union
    <3>8. Cardinality(before \cap chunkOf(n)) \in Nat
      BY <3>4, FS_Subset, FS_CardinalityType
    <3>9. Cardinality(F) <= Cardinality(before \cup chunkOf(n))
      BY <3>6, <3>7, FS_Subset
    <3>10. QED BY <1>1, <1>3, <2>5, <3>4, <3>5, <3>7, <3>8, <3>9 DEF F
  <2>8. QED BY <2>6, <2>7
<1>6. QED BY <1>3, <1>4, <1>5

Approving == \E c \in members : item'[c] = "APPROVED" /\ item[c] # "APPROVED"

Failing == {c \in members : item[c] = "APPROVED" /\ item'[c] = "FAILED"}

LEMMA NoneFailing ==
  ASSUME Failing = {}
  PROVE  Cardinality(Failing) <= MaxFailed + ChunkSize
<1>1. Cardinality(Failing) = 0
  BY FS_EmptySet
<1>2. QED BY <1>1, RolloutAssumption

(* A call that moves items to one state neither approves nor fails an approved one. *)
LEMMA MoveIsBounded ==
  ASSUME NEW seen, NEW changed, NEW to, MoveTo(seen, changed, to), to # "APPROVED"
  PROVE  ~Approving /\ Cardinality(Failing) <= MaxFailed + ChunkSize
<1>1. \A c \in members : item'[c] = IF c \in changed THEN to ELSE item[c]
  BY DEF MoveTo
<1>2. ~Approving
  BY <1>1 DEF Approving
<1>3. ASSUME NEW c \in Failing PROVE FALSE
  <2>1. c \in changed /\ to = "FAILED" /\ item[c] = "APPROVED"
    BY <1>1 DEF Failing
  <2>2. seen[c] = "APPROVED" /\ to \in Transitions[seen[c]]
    BY <2>1 DEF MoveTo, Current, Legal
  <2>3. "FAILED" \notin Transitions["APPROVED"]
    BY DEF Transitions
  <2>4. QED BY <2>1, <2>2, <2>3
<1>4. QED BY <1>2, <1>3, NoneFailing

LEMMA PublishIsBounded ==
  ASSUME ReleaseInv, NEW seen, NEW good \in SUBSET members, Publish(seen, good)
  PROVE  ~Approving /\ Cardinality(Failing) <= MaxFailed + ChunkSize
<1> DEFINE E == In(seen, {"APPROVED"})
           attempted == Attempted(E, good)
<1>1. item' = [c \in members |-> IF c \in attempted
                                 THEN IF c \in good THEN "PUBLISHED" ELSE "FAILED" ELSE item[c]]
  BY DEF Publish
<1>2. E \in SUBSET Candidates /\ ~Conflicting(E)
  BY DEF ReleaseInv, ReleaseTypes, MembersApart, Conflicting, In
<1> HIDE DEF E
<1>3. IsFiniteSet(attempted \ good) /\ Cardinality(attempted \ good) <= MaxFailed + ChunkSize
  BY <1>2, FailuresAreBounded
<1>4. Cardinality(attempted \ good) \in Nat
  BY <1>3, FS_CardinalityType
<1> HIDE DEF attempted
<1>5. ~Approving
  BY <1>1 DEF Approving
<1>6. Failing \subseteq attempted \ good
  BY <1>1 DEF Failing
<1>7. IsFiniteSet(Failing) /\ Cardinality(Failing) <= Cardinality(attempted \ good)
  BY <1>3, <1>6, FS_Subset
<1>8. Cardinality(Failing) \in Nat
  BY <1>7, FS_CardinalityType
<1>9. QED BY <1>3, <1>4, <1>5, <1>7, <1>8, RolloutAssumption

LEMMA StepsAreBounded ==
  ASSUME ReleaseInv, frozen, ReleaseNext
  PROVE  /\ Approving => \A c \in members : item[c] = "STAGED"
         /\ Cardinality(Failing) <= MaxFailed + ChunkSize
<1>1. CASE List
  <2>1. item' = item
    BY <1>1 DEF List
  <2>2. ~Approving /\ Failing = {}
    BY <2>1 DEF Approving, Failing
  <2>3. QED BY <2>2, NoneFailing
<1>2. ASSUME NEW seen, Approve(seen)
      PROVE  (\A c \in members : item[c] = "STAGED") /\ Failing = {}
  <2>1. \A c \in members : item[c] = "STAGED" /\ item'[c] = "APPROVED"
    BY <1>2 DEF Approve, In, MoveTo, Current
  <2>2. QED BY <2>1 DEF Failing
<1>3. ASSUME NEW c \in members, RetryItem(c) PROVE ~Approving /\ Failing = {}
  <2>1. \A d \in members : item'[d] = IF d = c THEN "GENERATION_QUEUED" ELSE item[d]
    BY <1>3 DEF RetryItem, ReleaseInv, ReleaseTypes
  <2>2. QED BY <2>1 DEF Approving, Failing
<1>4. ASSUME NEW seen,
             \/ Coordinate(seen) \/ Stage(seen) \/ Rollback(seen) \/ Cancel(seen)
             \/ \E c \in members, to \in {"GENERATING", "GENERATED", "VALIDATED", "BLOCKED", "FAILED"} :
                  Report(seen, c, to)
      PROVE  ~Approving /\ Cardinality(Failing) <= MaxFailed + ChunkSize
  <2>1. CASE Coordinate(seen)
    <3>1. PICK changed : MoveTo(seen, changed, "GENERATION_QUEUED")
      BY <2>1 DEF Coordinate
    <3>2. QED BY <3>1, MoveIsBounded
  <2>2. CASE Stage(seen)
    BY <2>2, MoveIsBounded DEF Stage
  <2>3. CASE Rollback(seen)
    BY <2>3, MoveIsBounded DEF Rollback
  <2>4. CASE Cancel(seen)
    BY <2>4, MoveIsBounded DEF Cancel
  <2>5. ASSUME NEW c \in members, NEW to \in {"GENERATING", "GENERATED", "VALIDATED", "BLOCKED", "FAILED"},
               Report(seen, c, to)
        PROVE  ~Approving /\ Cardinality(Failing) <= MaxFailed + ChunkSize
    <3>1. to # "APPROVED"
      OBVIOUS
    <3>2. QED BY <2>5, <3>1, MoveIsBounded DEF Report
  <2>6. QED BY <1>4, <2>1, <2>2, <2>3, <2>4, <2>5
<1>5. QED BY <1>1, <1>2, <1>3, <1>4, PublishIsBounded, NoneFailing DEF ReleaseNext, Freeze

(* PartialFailurePolicyEngine, ReleaseApprovalService: for any membership, chunk  *)
(* size and policy, items are approved all together from STAGED, and a            *)
(* publication call fails no more than the tolerated number and one chunk.        *)
THEOREM PublicationsStayBounded == ReleaseSpec => CallsStayBounded
<1>1. ReleaseInv /\ [ReleaseNext]_releaseVars =>
        [frozen =>
           /\ (\E c \in members : item'[c] = "APPROVED" /\ item[c] # "APPROVED") =>
                \A c \in members : item[c] = "STAGED"
           /\ Cardinality({c \in members : item[c] = "APPROVED" /\ item'[c] = "FAILED"})
                <= MaxFailed + ChunkSize]_releaseVars
  BY StepsAreBounded DEF Approving, Failing
<1>2. QED BY ReleaseStarts, ReleaseStepKeeps, <1>1, PTL DEF ReleaseSpec, CallsStayBounded
=============================================================================
