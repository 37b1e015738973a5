----------------------------- MODULE Publication -----------------------------
(***************************************************************************)
(* Publishing the reports of one property and one variant:                 *)
(* AtomicPublicationService.publish and the operations of                  *)
(* ControlledPublicationLifecycle move the semantic-current report and one *)
(* pointer per delivery channel.  Each call runs in its caller's           *)
(* transaction (READ COMMITTED): it takes an advisory lock, checks, writes *)
(* row by row under row locks, and what it wrote shows when it commits.    *)
(***************************************************************************)
EXTENDS Naturals, Sequences, FiniteSets

CONSTANTS
  Clients,          \* concurrent transactions
  Channels,         \* delivery channels
  Reports,          \* reports of the property and variant
  Renders,          \* rendered artifacts
  ReportOf,         \* render -> its report
  ChannelOf,        \* render -> the channel its type is for
  Eligible,         \* renders the guard finds eligible, report and artifact
  Prints,           \* variant fingerprints
  PrintOf,          \* report -> fingerprint of its snapshot
  Current,          \* the row of report_current
  None,             \* no row
  Operations,       \* the operations clients call
  MaxTransactions,  \* bound on calls
  MaxChanges        \* bound on snapshots, freezes and releases

ASSUME PublicationAssumption ==
  /\ ReportOf \in [Renders -> Reports]
  /\ ChannelOf \in [Renders -> Channels]
  /\ Eligible \subseteq Renders
  /\ PrintOf \in [Reports -> Prints]
  /\ IsFiniteSet(Channels) /\ Current \notin Channels
  /\ None \notin Reports \cup Renders \cup Channels \cup {Current}
  /\ Reports \cap Renders = {}
  /\ MaxTransactions \in Nat
  /\ MaxChanges \in Nat

VARIABLES
  row,         \* Current -> report, channel -> render, as committed
  stage,       \* render -> its row of publication_staging
  freezes,     \* active freezes: channels, or Current for all channels
  print,       \* variant fingerprint of the current snapshot
  txn,         \* client -> its transaction
  delivered,   \* renders the history shows as published on their channel
  publishes,   \* render -> PUBLISHED rows in the history
  superseded,  \* render or report -> SUPERSEDED or SEMANTIC_SUPERSEDED rows
  started,     \* calls so far
  changes      \* snapshots, freezes and releases so far

vars == <<row, stage, freezes, print, txn, delivered, publishes, superseded, started, changes>>

history == <<delivered, publishes, superseded>>

Rows == Channels \cup {Current}

StageStates == {"none", "STAGED", "PUBLISHED", "BLOCKED", "STALE"}

(* The operations that move or clear one channel's pointer. *)
ChannelOperations == {"publish", "promote", "unpublish", "rollback"}

Free == [at |-> "free", op |-> "none", render |-> None, report |-> None, stage |-> "none",
         lock |-> None, todo |-> <<>>, writes |-> <<>>, prior |-> None, priorReport |-> None,
         frozen |-> FALSE, alone |-> TRUE, prints |-> {}]

Init ==
  /\ row = [x \in Rows |-> None]
  /\ stage = [r \in Renders |-> "none"]
  /\ freezes \in {{}} \cup {{x} : x \in Rows}
  /\ print \in Prints
  /\ txn = [c \in Clients |-> Free]
  /\ delivered = {}
  /\ publishes = [r \in Renders |-> 0]
  /\ superseded = [x \in Renders \cup Reports |-> 0]
  /\ started = 0
  /\ changes = 0

-----------------------------------------------------------------------------
(* Around the service. *)

(* PublicationStagingRepository.insert; a second one for the target does    *)
(* nothing.                                                                 *)
StageRender(r) ==
  /\ stage[r] = "none"
  /\ stage' = [stage EXCEPT ![r] = "STAGED"]
  /\ UNCHANGED <<row, freezes, print, txn, history, started, changes>>

Change == changes < MaxChanges /\ changes' = changes + 1

CreateFreeze(scope) ==
  /\ Change
  /\ scope \notin freezes
  /\ freezes' = freezes \cup {scope}
  /\ UNCHANGED <<row, stage, print, txn, history, started>>

ReleaseFreeze(scope) ==
  /\ Change
  /\ scope \in freezes
  /\ freezes' = freezes \ {scope}
  /\ txn' = [c \in Clients |-> [txn[c] EXCEPT !.frozen = FALSE]]
  /\ UNCHANGED <<row, stage, print, history, started>>

(* A snapshot is accepted; running calls remember what was current while    *)
(* they ran (history).                                                      *)
NewSnapshot ==
  /\ Change
  /\ print' \in Prints \ {print}
  /\ txn' = [c \in Clients |-> IF txn[c].lock = None THEN txn[c]
                               ELSE [txn[c] EXCEPT !.prints = @ \cup {print'}]]
  /\ UNCHANGED <<row, stage, freezes, history, started>>

-----------------------------------------------------------------------------
At(c, op, place) == txn[c].op = op /\ txn[c].at = place

(* The call returns without having written a pointer. *)
Return(c) == txn' = [txn EXCEPT ![c] = Free]

(* The call goes on to write the rows, in order. *)
GoWrite(c, priorReport, writes) ==
  txn' = [txn EXCEPT ![c].at = "writing", ![c].todo = writes,
                     ![c].prior = row[txn[c].lock], ![c].priorReport = priorReport]

(* The report the channel's pointer delivers. *)
PointedReport(ch) == IF row[ch] = None THEN None ELSE ReportOf[row[ch]]

Set(x, value) == [row |-> x, value |-> value]

(* The call t begins; whether a call overlaps another is history. *)
Begin(c, t) ==
  txn' = [d \in Clients |->
            IF d = c THEN [t EXCEPT !.at = "loaded",
                                    !.alone = \A x \in Clients \ {c} : txn[x] = Free]
            ELSE [txn[d] EXCEPT !.alone = txn[d] = Free]]

(* The caller loads what it passes: the stage row for publish, ids else.    *)
Load(c) ==
  /\ txn[c] = Free
  /\ started < MaxTransactions
  /\ started' = started + 1
  /\ \/ \E op \in Operations \cap ChannelOperations, r \in Renders :
          /\ op = "publish" => stage[r] # "none"
          /\ Begin(c, [Free EXCEPT !.op = op, !.render = r, !.report = ReportOf[r],
                                   !.stage = stage[r]])
     \/ \E report \in Reports :
          /\ "invalidate" \in Operations
          /\ Begin(c, [Free EXCEPT !.op = "invalidate", !.report = report])
     \/ /\ "withdraw" \in Operations
        /\ Begin(c, [Free EXCEPT !.op = "withdraw"])
  /\ UNCHANGED <<row, stage, freezes, print, history, changes>>

Frozen(ch) == freezes \cap {ch, Current} # {}

(* lock_target locks the channel, lock_semantic_target a name of its own    *)
(* (here Current), which no channel operation takes.                        *)
LockName(t) == IF t.op \in ChannelOperations THEN ChannelOf[t.render] ELSE Current

Lock(c) ==
  /\ txn[c].at = "loaded"
  /\ \A d \in Clients : txn[d].lock # LockName(txn[c])
  /\ txn' = [txn EXCEPT ![c].at = "locked", ![c].lock = LockName(txn[c]),
                        ![c].frozen = Frozen(LockName(txn[c])), ![c].prints = {print}]
  /\ UNCHANGED <<row, stage, freezes, print, history, started, changes>>

(* Variant: the result of the transition is not looked at. *)
StageMatchesAnyway(c) == stage[txn[c].render] # "none"

(* PublicationStagingRepository.transition, with the state the caller       *)
(* loaded as from_state: whether it updates the row.                        *)
StageMatches(c) == stage[txn[c].render] = txn[c].stage

(* publish gives up and says so in the stage row, if that is as loaded.     *)
Refuse(c, state) ==
  /\ stage' = IF StageMatches(c) THEN [stage EXCEPT ![txn[c].render] = state] ELSE stage
  /\ Return(c)

(* Variant: the freeze check ignores freezes of all channels. *)
CheckFreezeOfChannel(c) ==
  /\ txn[c].at = "locked"
  /\ txn[c].op \in ChannelOperations
  /\ IF txn[c].lock \in freezes
     THEN IF txn[c].op = "publish" THEN Refuse(c, "BLOCKED") ELSE Return(c) /\ UNCHANGED stage
     ELSE txn' = [txn EXCEPT ![c].at = "unfrozen"] /\ UNCHANGED stage
  /\ UNCHANGED <<row, freezes, print, history, started, changes>>

CheckFreeze(c) ==
  /\ txn[c].at = "locked"
  /\ txn[c].op \in ChannelOperations
  /\ IF Frozen(txn[c].lock)
     THEN IF txn[c].op = "publish" THEN Refuse(c, "BLOCKED") ELSE Return(c) /\ UNCHANGED stage
     ELSE txn' = [txn EXCEPT ![c].at = "unfrozen"] /\ UNCHANGED stage
  /\ UNCHANGED <<row, freezes, print, history, started, changes>>

(* Variant: freshness is not checked. *)
FreshUnchecked(report) == report \in Reports

(* PrePublicationVariantFreshness *)
Fresh(report) == PrintOf[report] = print

(* Guard, freshness and the reads of the previous pointers. *)
CheckPublish(c) ==
  LET t == txn[c] IN
    /\ At(c, "publish", "unfrozen")
    /\ IF t.stage # "STAGED" \/ t.render \notin Eligible THEN Refuse(c, "BLOCKED")
       ELSE IF ~Fresh(t.report) THEN Refuse(c, "STALE")
       ELSE /\ GoWrite(c, IF row[Current] # None THEN row[Current] ELSE PointedReport(t.lock),
                       <<Set(Current, t.report), Set(t.lock, t.render)>>)
            /\ UNCHANGED stage
    /\ UNCHANGED <<row, freezes, print, history, started, changes>>

(* promote_render, and republish on top of it *)
CheckPromote(c) ==
  LET t == txn[c] IN
    /\ At(c, "promote", "unfrozen")
    /\ IF /\ row[Current] = t.report
          /\ t.render \in Eligible
          /\ Fresh(t.report)
          /\ row[t.lock] # t.render
       THEN GoWrite(c, PointedReport(t.lock), <<Set(t.lock, t.render)>>)
       ELSE Return(c)
    /\ UNCHANGED <<row, stage, freezes, print, history, started, changes>>

CheckUnpublish(c) ==
  LET t == txn[c] IN
    /\ At(c, "unpublish", "unfrozen")
    /\ IF row[t.lock] # None THEN GoWrite(c, None, <<Set(t.lock, None)>>) ELSE Return(c)
    /\ UNCHANGED <<row, stage, freezes, print, history, started, changes>>

(* Variant: the render is written where the report belongs. *)
CheckRollbackSwapped(c) ==
  LET t == txn[c] IN
    /\ At(c, "rollback", "unfrozen")
    /\ IF t.render \in delivered \cap Eligible /\ Fresh(t.report)
       THEN GoWrite(c, None, <<Set(Current, t.render), Set(t.lock, t.render)>>)
       ELSE Return(c)
    /\ UNCHANGED <<row, stage, freezes, print, history, started, changes>>

(* Variant: the history is not asked. *)
CheckRollbackAnyTarget(c) ==
  LET t == txn[c] IN
    /\ At(c, "rollback", "unfrozen")
    /\ IF t.render \in Eligible /\ Fresh(t.report)
       THEN GoWrite(c, None, <<Set(Current, t.report), Set(t.lock, t.render)>>)
       ELSE Return(c)
    /\ UNCHANGED <<row, stage, freezes, print, history, started, changes>>

CheckRollback(c) ==
  LET t == txn[c] IN
    /\ At(c, "rollback", "unfrozen")
    /\ IF t.render \in delivered \cap Eligible /\ Fresh(t.report)
       THEN GoWrite(c, None, <<Set(Current, t.report), Set(t.lock, t.render)>>)
       ELSE Return(c)
    /\ UNCHANGED <<row, stage, freezes, print, history, started, changes>>

(* withdraw reads which report is current. *)
ReadWithdrawn(c) ==
  /\ At(c, "withdraw", "locked")
  /\ IF row[Current] = None THEN Return(c)
     ELSE txn' = [txn EXCEPT ![c].at = "listing", ![c].report = row[Current]]
  /\ UNCHANGED <<row, stage, freezes, print, history, started, changes>>

(* Variant: only the channels of the current report are listed. *)
PointingIfCurrent(report) ==
  {ch \in Channels : PointedReport(ch) = report /\ row[Current] = report}

Pointing(report) == {ch \in Channels : PointedReport(ch) = report}

(* invalidate and withdraw list the channels that deliver the report, in    *)
(* some order; each pointer is then cleared by its channel.                 *)
ListChannels(c) ==
  /\ At(c, "invalidate", "locked") \/ At(c, "withdraw", "listing")
  /\ \E chs \in [1..Cardinality(Pointing(txn[c].report)) -> Pointing(txn[c].report)] :
       /\ {chs[i] : i \in DOMAIN chs} = Pointing(txn[c].report)
       /\ txn' = [txn EXCEPT ![c].at = "clearing",
                             ![c].todo = [i \in DOMAIN chs |-> Set(chs[i], None)]]
  /\ UNCHANGED <<row, stage, freezes, print, history, started, changes>>

(* Then the semantic pointer: invalidate reads it again, withdraw does not. *)
ClearCurrent(c) ==
  /\ txn[c].at = "clearing"
  /\ txn[c].todo = <<>>
  /\ txn' = [txn EXCEPT ![c].at = "writing",
                        ![c].todo = IF txn[c].op = "withdraw" \/ row[Current] = txn[c].report
                                    THEN <<Set(Current, None)>> ELSE <<>>]
  /\ UNCHANGED <<row, stage, freezes, print, history, started, changes>>

-----------------------------------------------------------------------------
WrittenBy(x, c) == x \in DOMAIN txn[c].writes

(* A row another transaction has written is locked; deleting a row that is  *)
(* not there deletes and locks nothing.                                     *)
Write(c) ==
  LET w == Head(txn[c].todo)
      nothing == w.value = None /\ row[w.row] = None /\ ~WrittenBy(w.row, c)
  IN
    /\ txn[c].at \in {"writing", "clearing"}
    /\ txn[c].todo # <<>>
    /\ nothing \/ \A d \in Clients \ {c} : ~WrittenBy(w.row, d)
    /\ txn' = [txn EXCEPT ![c].todo = Tail(@),
                          ![c].writes = IF nothing THEN @ ELSE
                             [x \in DOMAIN @ \cup {w.row} |-> IF x = w.row THEN w.value ELSE @[x]]]
    /\ UNCHANGED <<row, stage, freezes, print, history, started, changes>>

Written(c) == txn[c].at = "writing" /\ txn[c].todo = <<>>

ShowWrites(c) ==
  row' = [x \in Rows |-> IF WrittenBy(x, c) THEN txn[c].writes[x] ELSE row[x]]

(* Variant: evidence only when the report changes too. *)
ReplacementRecordsOfReports(c) ==
  {x \in {txn[c].prior} : x # None /\ txn[c].priorReport # txn[c].report}
    \cup {x \in {txn[c].priorReport} : x # None /\ txn[c].prior # None /\ x # txn[c].report}

(* What PublicationHistoryService.record_pointer_replacement appends; it is *)
(* called only when the channel had a pointer.                              *)
ReplacementRecords(c) ==
  {x \in {txn[c].prior} : x # None /\ x # txn[c].render}
    \cup {x \in {txn[c].priorReport} : x # None /\ txn[c].prior # None /\ x # txn[c].report}

Supersede(c) ==
  superseded' = [x \in DOMAIN superseded |->
                   superseded[x] + (IF x \in ReplacementRecords(c) THEN 1 ELSE 0)]

(* The stage transition ends publish: if it updates no row, publish raises  *)
(* and the caller rolls back.                                               *)
CommitPublish(c) ==
  LET r == txn[c].render IN
    /\ txn[c].op = "publish"
    /\ Written(c)
    /\ IF StageMatches(c)
       THEN /\ stage' = [stage EXCEPT ![r] = "PUBLISHED"]
            /\ ShowWrites(c)
            /\ delivered' = delivered \cup {r}
            /\ publishes' = [publishes EXCEPT ![r] = @ + 1]
            /\ Supersede(c)
       ELSE UNCHANGED <<stage, row, history>>
    /\ Return(c)
    /\ UNCHANGED <<freezes, print, started, changes>>

CommitPromote(c) ==
  /\ txn[c].op = "promote"
  /\ Written(c)
  /\ ShowWrites(c)
  /\ delivered' = delivered \cup {txn[c].render}
  /\ Supersede(c)
  /\ Return(c)
  /\ UNCHANGED <<stage, freezes, print, publishes, started, changes>>

(* rollback appends no supersession records. *)
CommitRollback(c) ==
  /\ txn[c].op = "rollback"
  /\ Written(c)
  /\ ShowWrites(c)
  /\ Return(c)
  /\ UNCHANGED <<stage, freezes, print, history, started, changes>>

CommitRemoval(c) ==
  /\ txn[c].op \in {"unpublish", "invalidate", "withdraw"}
  /\ Written(c)
  /\ ShowWrites(c)
  /\ Return(c)
  /\ UNCHANGED <<stage, freezes, print, history, started, changes>>

(* A connection is lost, or the database ends a deadlock. *)
Abort(c) ==
  /\ txn[c].at # "free"
  /\ Return(c)
  /\ UNCHANGED <<row, stage, freezes, print, history, started, changes>>

-----------------------------------------------------------------------------
Check(c) ==
  CheckPublish(c) \/ CheckPromote(c) \/ CheckUnpublish(c) \/ CheckRollback(c)

Clear(c) == ReadWithdrawn(c) \/ ListChannels(c) \/ ClearCurrent(c)

Commit(c) == CommitPublish(c) \/ CommitPromote(c) \/ CommitRollback(c) \/ CommitRemoval(c)

Next ==
  \/ \E r \in Renders : StageRender(r)
  \/ \E x \in Rows : CreateFreeze(x) \/ ReleaseFreeze(x)
  \/ NewSnapshot
  \/ \E c \in Clients :
       \/ Load(c) \/ Lock(c) \/ CheckFreeze(c) \/ Check(c)
       \/ Clear(c) \/ Write(c) \/ Commit(c) \/ Abort(c)

Spec == Init /\ [][Next]_vars

-----------------------------------------------------------------------------
(* Rows are the tables': a channel's pointer is a render made for it.       *)
TypeOK ==
  /\ row \in [Rows -> Reports \cup Renders \cup {None}]
  /\ row[Current] \in Reports \cup {None}
  /\ \A ch \in Channels : row[ch] # None => row[ch] \in Renders /\ ChannelOf[row[ch]] = ch
  /\ stage \in [Renders -> StageStates]
  /\ freezes \subseteq Rows
  /\ print \in Prints
  /\ delivered \subseteq Renders
  /\ publishes \in [Renders -> Nat]
  /\ superseded \in [Renders \cup Reports -> Nat]
  /\ started \in 0..MaxTransactions
  /\ changes \in 0..MaxChanges

(* The history shows every pointer in use as published: no render is        *)
(* delivered, and no report current, that did not come through publication. *)
PointersWerePublished ==
  /\ \A ch \in Channels : row[ch] # None => row[ch] \in delivered
  /\ row[Current] # None => \E r \in delivered : ReportOf[r] = row[Current]

(* However often a stage is published, at once or again, it is published    *)
(* one time: the loser of a race leaves no pointer and no history behind.   *)
PublishedOnce == \A r \in Renders : publishes[r] <= 1

(* A channel pointer never moves by a call that took its lock under a       *)
(* freeze that is still on.                                                 *)
FrozenAtLockStays ==
  [][\A c \in Clients :
       txn[c].op \in ChannelOperations /\ txn[c].frozen /\ txn'[c] = Free => row' = row]_vars

(* A render is delivered only if its report was fresh at some time while    *)
(* its call held the channel's lock.                                        *)
DeliveredWasFresh ==
  [][\A ch \in Channels :
       row'[ch] # row[ch] /\ row'[ch] # None =>
         \E c \in Clients :
           txn[c].lock = ch /\ txn[c].render = row'[ch]
             /\ PrintOf[ReportOf[row'[ch]]] \in txn[c].prints]_vars

(* publish and promote leave a SUPERSEDED record of the render they replace *)
(* (M4-022), whatever runs beside them.                                     *)
ReplacedRendersRecorded ==
  [][\A c \in Clients, ch \in Channels :
       (/\ txn[c].op \in {"publish", "promote"}
        /\ txn[c].lock = ch /\ txn'[c] = Free
        /\ row[ch] # None /\ row'[ch] # row[ch])
         => superseded'[row[ch]] = superseded[row[ch]] + 1]_vars

(* The history accounts for every pointer: those in use came through        *)
(* publication, and those replaced were recorded when they were.            *)
PointersAreAccounted ==
  /\ [](TypeOK /\ PointersWerePublished)
  /\ ReplacedRendersRecorded

ReportIn(value) == IF value \in Renders THEN ReportOf[value] ELSE value

(* Invalidating a report clears only pointers that reference it, not one    *)
(* that has moved on to another report meanwhile.                           *)
InvalidationSparesOthers ==
  [][\A c \in Clients :
       txn[c].op = "invalidate" /\ CommitRemoval(c) =>
         \A x \in Rows : row'[x] # row[x] => ReportIn(row[x]) = txn[c].report]_vars

(* An invalidation that overlaps no other call clears exactly the pointers  *)
(* that reference its report, on every channel (M4-027).                    *)
LoneInvalidationIsExact ==
  [][\A c \in Clients :
       txn[c].op = "invalidate" /\ txn[c].alone /\ CommitRemoval(c) =>
         \A x \in Rows :
           row'[x] = IF ReportIn(row[x]) = txn[c].report THEN None ELSE row[x]]_vars
=============================================================================
