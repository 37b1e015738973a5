-------------------------- MODULE PublicationProofs --------------------------
(***************************************************************************)
(* Publication of the reports of a property, for any clients, channels,    *)
(* reports and renders.  The argument: until it commits, a transaction     *)
(* carries the rows it is going to write, and what it checked stays true   *)
(* of it: it alone holds its channel, whose pointer can only have been     *)
(* cleared meanwhile; the report it writes was fresh under its lock; and a *)
(* freeze found at its lock is found again by its check.                   *)
(***************************************************************************)
EXTENDS Publication, FiniteSetTheorems, SequenceTheorems, TLAPS

Places == {"free", "loaded", "locked", "unfrozen", "listing", "clearing", "writing"}

Removals == {"invalidate", "withdraw"}

Values == Reports \cup Renders \cup {None}

Entries == [row : Rows, value : Values]

WriteMaps == UNION {[D -> Values] : D \in SUBSET Rows}

Txns ==
  [at : Places, op : ChannelOperations \cup Removals \cup {"none"}, render : Renders \cup {None},
   report : Reports \cup {None}, stage : StageStates, lock : Rows \cup {None}, todo : Seq(Entries),
   writes : WriteMaps, prior : Values, priorReport : Values, frozen : BOOLEAN, alone : BOOLEAN,
   prints : SUBSET Prints]

Types == TypeOK /\ txn \in [Clients -> Txns]

(* What transaction t may write to row x. *)
Due(t, x, value) ==
  /\ t.op \in {"publish", "rollback"} =>
       (x = Current /\ value = t.report) \/ (x = t.lock /\ value = t.render)
  /\ t.op = "promote" => x = t.lock /\ value = t.render
  /\ t.op = "unpublish" => x = t.lock /\ value = None
  /\ t.op \in Removals => value = None

Touched(t) == DOMAIN t.writes \cup {t.todo[i].row : i \in 1..Len(t.todo)}

Busy(t) == t.at # "free"

(* A transaction as its call goes on, whatever the tables hold. *)
TxnOK(t) ==
  /\ ~Busy(t) => t = Free
  /\ Busy(t) => t.op # "none"
  /\ Busy(t) /\ t.op \in ChannelOperations => t.render \in Renders /\ t.report = ReportOf[t.render]
  /\ t.op = "invalidate" => t.report \in Reports
  /\ t.lock = IF t.at \in {"free", "loaded"} THEN None ELSE LockName(t)
  /\ t.at \in {"loaded", "locked", "unfrozen", "listing"} => t.todo = <<>> /\ DOMAIN t.writes = {}
  /\ t.at = "clearing" => t.op \in Removals
  /\ \A x \in DOMAIN t.writes : Due(t, x, t.writes[x])
  /\ \A i \in 1..Len(t.todo) : Due(t, t.todo[i].row, t.todo[i].value)

(* What it checked before it began to write. *)
CheckedOK(t) ==
  t.at = "writing" =>
    /\ t.op = "publish" => t.stage = "STAGED"
    /\ t.op \in {"publish", "promote", "rollback"} =>
         PrintOf[t.report] \in t.prints /\ t.lock \in Touched(t)
    /\ t.op \in {"publish", "rollback"} => Current \in Touched(t)

(* What it found is still so. *)
FoundOK(t) ==
  /\ t.at = "writing" /\ t.op \in ChannelOperations => row[t.lock] \in {t.prior, None}
  /\ t.at = "writing" /\ t.op = "rollback" => t.render \in delivered
  /\ t.lock # None => print \in t.prints
  /\ t.op \in ChannelOperations /\ t.frozen => t.at = "locked" /\ Frozen(t.lock)

TxnsOK == \A c \in Clients : TxnOK(txn[c]) /\ CheckedOK(txn[c]) /\ FoundOK(txn[c])

LocksApart ==
  \A c, d \in Clients : c # d /\ txn[c].lock # None => txn[c].lock # txn[d].lock

AloneOK ==
  \A c, d \in Clients : c # d /\ Busy(txn[c]) /\ txn[c].alone => txn[d] = Free

(* An invalidation alone removes what it found pointing to its report. *)
Exact(t) ==
  t.op = "invalidate" /\ t.alone /\ t.at \in {"clearing", "writing"} =>
    /\ Touched(t) \ {Current} = Pointing(t.report)
    /\ Current \in Touched(t) <=> t.at = "writing" /\ row[Current] = t.report

ExactAlone == \A c \in Clients : Exact(txn[c])

(* A render that was published is never staged again. *)
StagesSpent ==
  \A r \in Renders :
    publishes[r] <= 1 /\ (publishes[r] = 1 => stage[r] \notin {"none", "STAGED"})

IInv ==
  /\ Types /\ TxnsOK /\ LocksApart /\ AloneOK /\ ExactAlone /\ StagesSpent
  /\ PointersWerePublished

-----------------------------------------------------------------------------
LEMMA FreeIsIdle ==
  /\ Free \in Txns /\ TxnOK(Free) /\ CheckedOK(Free) /\ FoundOK(Free) /\ Exact(Free)
  /\ ~Busy(Free) /\ Free.lock = None /\ Free.alone = TRUE /\ Free.frozen = FALSE
<1>1. <<>> \in WriteMaps
  <2>1. <<>> \in [{} -> Values]
    OBVIOUS
  <2>2. QED BY <2>1 DEF WriteMaps
<1>2. <<>> \in Seq(Entries)
  OBVIOUS
<1>3. Free \in Txns
  BY <1>1, <1>2 DEF Free, Txns, Places, Removals, ChannelOperations, StageStates, Values
<1>4. /\ Free.at = "free" /\ Free.op = "none" /\ Free.lock = None /\ Free.todo = <<>>
      /\ Free.writes = <<>> /\ Free.alone = TRUE /\ Free.frozen = FALSE
  BY DEF Free
<1>5. TxnOK(Free)
  BY <1>4 DEF TxnOK, Busy, Removals
<1>6. CheckedOK(Free) /\ FoundOK(Free) /\ Exact(Free) /\ ~Busy(Free)
  BY <1>4 DEF CheckedOK, FoundOK, Exact, Busy, ChannelOperations
<1>7. QED BY <1>3, <1>4, <1>5, <1>6

LEMMA InitOK == Init => IInv
<1> SUFFICES ASSUME Init PROVE IInv
  OBVIOUS
<1>1. TypeOK
  BY PublicationAssumption DEF Init, TypeOK, StageStates, Rows
<1>2. \A c \in Clients : txn[c] = Free
  BY DEF Init
<1>3. Types
  BY <1>1, FreeIsIdle DEF Types, Init
<1>4. TxnsOK /\ LocksApart /\ AloneOK /\ ExactAlone
  BY <1>2, FreeIsIdle DEF TxnsOK, LocksApart, AloneOK, ExactAlone
<1>5. StagesSpent /\ PointersWerePublished
  BY DEF Init, StagesSpent, PointersWerePublished, Rows
<1>6. QED BY <1>3, <1>4, <1>5 DEF IInv

-----------------------------------------------------------------------------
(* A running transaction takes a step and the rows stay as they are. *)
LEMMA TxnSteps ==
  ASSUME IInv, NEW c \in Clients, Busy(txn[c]), txn' \in [Clients -> Txns],
         \A d \in Clients \ {c} : txn'[d] = txn[d],
         UNCHANGED <<row, print, freezes, delivered>>, TypeOK', StagesSpent',
         TxnOK(txn'[c]), CheckedOK(txn'[c]), FoundOK(txn'[c]), Exact(txn'[c]),
         txn'[c].lock # None => \A d \in Clients \ {c} : txn[d].lock # txn'[c].lock,
         txn'[c] = Free \/ txn'[c].alone = txn[c].alone
  PROVE  IInv'
<1>1. \A t : FoundOK(t)' <=> FoundOK(t)
  BY DEF FoundOK, Frozen
<1>2. \A t : Exact(t)' <=> Exact(t)
  BY DEF Exact, Pointing, PointedReport
<1>3. Types'
  BY DEF Types
<1>4. TxnsOK'
  <2> SUFFICES ASSUME NEW d \in Clients
               PROVE  TxnOK(txn'[d]) /\ CheckedOK(txn'[d]) /\ FoundOK(txn[d])'
    BY DEF TxnsOK
  <2>1. TxnOK(txn[d]) /\ CheckedOK(txn[d]) /\ FoundOK(txn[d])
    BY DEF IInv, TxnsOK
  <2>2. TxnOK(txn'[d]) /\ CheckedOK(txn'[d]) /\ FoundOK(txn'[d])
    BY <2>1
  <2>3. QED BY <2>2 DEF FoundOK, Frozen
<1>5. LocksApart'
  BY DEF IInv, LocksApart
<1>6. AloneOK'
  <2> SUFFICES ASSUME NEW d \in Clients, NEW e \in Clients, d # e, Busy(txn'[d]), txn'[d].alone
               PROVE  txn'[e] = Free
    BY DEF AloneOK, Busy
  <2>1. CASE d = c
    <3>1. txn[c].alone
      BY <2>1, FreeIsIdle
    <3>2. QED BY <2>1, <3>1 DEF IInv, AloneOK
  <2>2. CASE d # c
    <3>1. Busy(txn[d]) /\ txn[d].alone
      BY <2>2
    <3>2. e # c
      BY <2>2, <3>1, FreeIsIdle DEF IInv, AloneOK
    <3>3. QED BY <3>1, <3>2 DEF IInv, AloneOK
  <2>3. QED BY <2>1, <2>2
<1>7. ExactAlone'
  <2> SUFFICES ASSUME NEW d \in Clients PROVE Exact(txn[d])'
    BY DEF ExactAlone
  <2>1. Exact(txn[d])
    BY DEF IInv, ExactAlone
  <2>2. Exact(txn'[d])
    BY <2>1
  <2>3. QED BY <2>2 DEF Exact, Pointing, PointedReport
<1>8. PointersWerePublished'
  BY DEF IInv, PointersWerePublished
<1>9. QED BY <1>3, <1>4, <1>5, <1>6, <1>7, <1>8 DEF IInv

(* A call returns, or is lost, without having written a pointer. *)
LEMMA ReturnKeeps ==
  ASSUME IInv, NEW c \in Clients, Busy(txn[c]), Return(c),
         UNCHANGED <<row, print, freezes, delivered>>, TypeOK', StagesSpent'
  PROVE  IInv'
<1>1. txn \in [Clients -> Txns] /\ txn' = [txn EXCEPT ![c] = Free]
  BY DEF IInv, Types, Return
<1>2. txn' \in [Clients -> Txns] /\ txn'[c] = Free /\ \A d \in Clients \ {c} : txn'[d] = txn[d]
  BY <1>1, FreeIsIdle
<1>3. QED BY <1>2, FreeIsIdle, TxnSteps

LEMMA AbortKeeps ==
  ASSUME IInv, NEW c \in Clients, Abort(c)
  PROVE  IInv'
<1>1. Busy(txn[c]) /\ Return(c) /\ UNCHANGED <<row, stage, freezes, print, history, started, changes>>
  BY DEF Abort, Busy
<1>2. TypeOK' /\ StagesSpent'
  BY <1>1 DEF IInv, Types, TypeOK, StagesSpent, history
<1>3. QED BY <1>1, <1>2, ReturnKeeps DEF history

-----------------------------------------------------------------------------
(* What happens around a call changes what is remembered of it, not the call. *)
SameCall(t, u) ==
  /\ u.at = t.at /\ u.op = t.op /\ u.render = t.render /\ u.report = t.report /\ u.stage = t.stage
  /\ u.lock = t.lock /\ u.todo = t.todo /\ u.writes = t.writes /\ u.prior = t.prior
  /\ u.alone => t.alone
  /\ t.prints \subseteq u.prints
  /\ t = Free => u = Free

LEMMA SameCallOK ==
  ASSUME NEW t, NEW u, SameCall(t, u), TxnOK(t), CheckedOK(t)
  PROVE  /\ TxnOK(u) /\ CheckedOK(u) /\ Touched(u) = Touched(t)
         /\ Busy(u) <=> Busy(t)
<1>1. Touched(u) = Touched(t) /\ (Busy(u) <=> Busy(t))
  BY DEF SameCall, Touched, Busy
<1>2. \A x, v : Due(u, x, v) <=> Due(t, x, v)
  BY DEF SameCall, Due
<1>3. LockName(u) = LockName(t)
  BY DEF SameCall, LockName
<1>4. TxnOK(u)
  BY <1>1, <1>2, <1>3 DEF SameCall, TxnOK
<1>5. CheckedOK(u)
  BY <1>1 DEF SameCall, CheckedOK
<1>6. QED BY <1>1, <1>4, <1>5

LEMMA MarksMove ==
  ASSUME IInv, txn' \in [Clients -> Txns], \A d \in Clients : SameCall(txn[d], txn'[d]),
         UNCHANGED <<row, delivered>>, TypeOK', StagesSpent',
         \A d \in Clients : txn'[d].lock # None => print' \in txn'[d].prints,
         \A d \in Clients : txn'[d].op \in ChannelOperations /\ txn'[d].frozen =>
                              txn'[d].at = "locked" /\ freezes' \cap {txn'[d].lock, Current} # {}
  PROVE  IInv'
<1>1. Types'
  BY DEF Types
<1>2. \A d \in Clients : /\ TxnOK(txn[d]) /\ CheckedOK(txn[d]) /\ FoundOK(txn[d])
                         /\ TxnOK(txn'[d]) /\ CheckedOK(txn'[d]) /\ Touched(txn'[d]) = Touched(txn[d])
                         /\ Busy(txn'[d]) <=> Busy(txn[d])
  BY SameCallOK DEF IInv, TxnsOK
<1>3. TxnsOK'
  <2> SUFFICES ASSUME NEW d \in Clients PROVE TxnOK(txn'[d]) /\ CheckedOK(txn'[d]) /\ FoundOK(txn[d])'
    BY DEF TxnsOK
  <2>1. SameCall(txn[d], txn'[d]) /\ FoundOK(txn[d])
    BY <1>2
  <2>2. txn'[d].at = "writing" /\ txn'[d].op \in ChannelOperations => row'[txn'[d].lock] \in {txn'[d].prior, None}
    BY <2>1 DEF SameCall, FoundOK
  <2>3. txn'[d].at = "writing" /\ txn'[d].op = "rollback" => txn'[d].render \in delivered'
    BY <2>1 DEF SameCall, FoundOK
  <2>4. QED BY <1>2, <2>2, <2>3 DEF FoundOK, Frozen
<1>4. LocksApart'
  BY DEF IInv, LocksApart, SameCall
<1>5. AloneOK'
  <2> SUFFICES ASSUME NEW d \in Clients, NEW e \in Clients, d # e, Busy(txn'[d]), txn'[d].alone
               PROVE  txn'[e] = Free
    BY DEF AloneOK, Busy
  <2>1. Busy(txn[d]) /\ txn[d].alone
    BY <1>2 DEF SameCall
  <2>2. txn[e] = Free
    BY <2>1 DEF IInv, AloneOK
  <2>3. QED BY <2>2 DEF SameCall
<1>6. ExactAlone'
  <2> SUFFICES ASSUME NEW d \in Clients PROVE Exact(txn[d])'
    BY DEF ExactAlone
  <2>1. Exact(txn[d]) /\ SameCall(txn[d], txn'[d]) /\ Touched(txn'[d]) = Touched(txn[d])
    BY <1>2 DEF IInv, ExactAlone
  <2>2. Exact(txn'[d])
    BY <2>1 DEF Exact, SameCall
  <2>3. QED BY <2>2 DEF Exact, Touched, Pointing, PointedReport
<1>7. PointersWerePublished'
  BY DEF IInv, PointersWerePublished
<1>8. QED BY <1>1, <1>3, <1>4, <1>5, <1>6, <1>7 DEF IInv

LEMMA SameIsSame == \A t : SameCall(t, t)
BY DEF SameCall

LEMMA StageRenderKeeps ==
  ASSUME IInv, NEW r \in Renders, StageRender(r)
  PROVE  IInv'
<1>1. /\ stage[r] = "none" /\ stage' = [stage EXCEPT ![r] = "STAGED"]
      /\ UNCHANGED <<row, freezes, print, txn, delivered, publishes, superseded, started, changes>>
  BY DEF StageRender, history
<1>2. TypeOK'
  BY <1>1 DEF IInv, Types, TypeOK, StageStates
<1>3. StagesSpent'
  <2>1. \A x \in Renders : stage'[x] = IF x = r THEN "STAGED" ELSE stage[x]
    BY <1>1 DEF IInv, Types, TypeOK
  <2>2. QED BY <1>1, <2>1 DEF IInv, StagesSpent
<1>4. \A d \in Clients : FoundOK(txn[d])
  BY DEF IInv, TxnsOK
<1>5. QED BY <1>1, <1>2, <1>3, <1>4, SameIsSame, MarksMove DEF IInv, Types, FoundOK, Frozen

LEMMA CreateFreezeKeeps ==
  ASSUME IInv, NEW scope \in Rows, CreateFreeze(scope)
  PROVE  IInv'
<1>1. /\ changes < MaxChanges /\ changes' = changes + 1 /\ freezes' = freezes \cup {scope}
      /\ UNCHANGED <<row, stage, print, txn, delivered, publishes, superseded, started>>
  BY DEF CreateFreeze, Change, history
<1>2. TypeOK'
  BY <1>1, PublicationAssumption DEF IInv, Types, TypeOK
<1>3. StagesSpent'
  BY <1>1 DEF IInv, StagesSpent
<1>4. \A d \in Clients : FoundOK(txn[d])
  BY DEF IInv, TxnsOK
<1>5. \A ch : Frozen(ch) => freezes' \cap {ch, Current} # {}
  BY <1>1 DEF Frozen
<1>6. \A d \in Clients : txn'[d].op \in ChannelOperations /\ txn'[d].frozen =>
                           txn'[d].at = "locked" /\ freezes' \cap {txn'[d].lock, Current} # {}
  BY <1>1, <1>4, <1>5 DEF FoundOK, Frozen
<1>7. QED BY <1>1, <1>2, <1>3, <1>4, <1>6, SameIsSame, MarksMove DEF IInv, Types, FoundOK

LEMMA ReleaseFreezeKeeps ==
  ASSUME IInv, NEW scope \in Rows, ReleaseFreeze(scope)
  PROVE  IInv'
<1>1. /\ changes < MaxChanges /\ changes' = changes + 1 /\ freezes' = freezes \ {scope}
      /\ txn' = [c \in Clients |-> [txn[c] EXCEPT !.frozen = FALSE]]
      /\ UNCHANGED <<row, stage, print, delivered, publishes, superseded, started>>
  BY DEF ReleaseFreeze, Change, history
<1>2. TypeOK'
  BY <1>1, PublicationAssumption DEF IInv, Types, TypeOK
<1>3. StagesSpent'
  BY <1>1 DEF IInv, StagesSpent
<1>4. \A d \in Clients : FoundOK(txn[d]) /\ txn[d] \in Txns
  BY DEF IInv, TxnsOK, Types
<1>5. \A t \in Txns : [t EXCEPT !.frozen = FALSE] \in Txns /\ [t EXCEPT !.frozen = FALSE].frozen = FALSE
  BY DEF Txns
<1>6. \A t \in Txns : SameCall(t, [t EXCEPT !.frozen = FALSE])
  <2> SUFFICES ASSUME NEW t \in Txns PROVE SameCall(t, [t EXCEPT !.frozen = FALSE])
    OBVIOUS
  <2> DEFINE u == [t EXCEPT !.frozen = FALSE]
  <2>1. /\ u.at = t.at /\ u.op = t.op /\ u.render = t.render /\ u.report = t.report /\ u.stage = t.stage
        /\ u.lock = t.lock /\ u.todo = t.todo /\ u.writes = t.writes /\ u.prior = t.prior
        /\ u.alone = t.alone /\ u.prints = t.prints
    BY DEF Txns
  <2>2. t = Free => u = Free
    <3> SUFFICES ASSUME t = Free PROVE u = Free
      OBVIOUS
    <3>1. t.frozen = FALSE
      BY FreeIsIdle
    <3>2. u = t
      BY <3>1 DEF Txns
    <3>3. QED BY <3>2
  <2> HIDE DEF u
  <2>3. SameCall(t, u)
    BY <2>1, <2>2 DEF SameCall
  <2>4. QED BY <2>3 DEF u
<1>7. /\ txn' \in [Clients -> Txns]
      /\ \A d \in Clients : SameCall(txn[d], txn'[d]) /\ ~txn'[d].frozen
  BY <1>1, <1>4, <1>5, <1>6
<1>8. \A d \in Clients : txn'[d].lock # None => print' \in txn'[d].prints
  BY <1>1, <1>4, <1>7 DEF SameCall, FoundOK
<1>9. QED BY <1>1, <1>2, <1>3, <1>7, <1>8, MarksMove

LEMMA NewSnapshotKeeps ==
  ASSUME IInv, NewSnapshot
  PROVE  IInv'
<1>1. /\ changes < MaxChanges /\ changes' = changes + 1 /\ print' \in Prints
      /\ txn' = [c \in Clients |-> IF txn[c].lock = None THEN txn[c]
                                   ELSE [txn[c] EXCEPT !.prints = @ \cup {print'}]]
      /\ UNCHANGED <<row, stage, freezes, delivered, publishes, superseded, started>>
  BY DEF NewSnapshot, Change, history
<1>2. TypeOK'
  BY <1>1, PublicationAssumption DEF IInv, Types, TypeOK
<1>3. StagesSpent'
  BY <1>1 DEF IInv, StagesSpent
<1>4. \A d \in Clients : FoundOK(txn[d]) /\ txn[d] \in Txns
  BY DEF IInv, TxnsOK, Types
<1>5. ASSUME NEW d \in Clients
      PROVE  /\ txn'[d] \in Txns /\ SameCall(txn[d], txn'[d])
             /\ txn'[d].frozen = txn[d].frozen /\ (txn'[d].lock # None => print' \in txn'[d].prints)
  <2> DEFINE t == txn[d]
             u == [t EXCEPT !.prints = @ \cup {print'}]
  <2>1. t \in Txns
    BY <1>4
  <2>2. CASE t.lock = None
    <3>1. txn'[d] = t
      BY <1>1, <2>2
    <3>2. QED BY <2>1, <2>2, <3>1, SameIsSame
  <2>3. CASE t.lock # None
    <3>1. txn'[d] = u
      BY <1>1, <2>3
    <3> HIDE DEF t
    <3>2. /\ u.at = t.at /\ u.op = t.op /\ u.render = t.render /\ u.report = t.report /\ u.stage = t.stage
          /\ u.lock = t.lock /\ u.todo = t.todo /\ u.writes = t.writes /\ u.prior = t.prior
          /\ u.alone = t.alone /\ u.prints = t.prints \cup {print'} /\ u.frozen = t.frozen
      BY <2>1 DEF Txns
    <3>3. u \in Txns
      BY <1>1, <2>1 DEF Txns
    <3>4. t # Free
      BY <2>3, FreeIsIdle
    <3> HIDE DEF u
    <3>5. SameCall(t, u)
      BY <3>2, <3>4 DEF SameCall
    <3>6. QED BY <3>1, <3>2, <3>3, <3>5 DEF t
  <2>4. QED BY <2>2, <2>3
<1>6. txn' \in [Clients -> Txns]
  BY <1>1, <1>5
<1>7. \A d \in Clients : txn'[d].op \in ChannelOperations /\ txn'[d].frozen =>
                           txn'[d].at = "locked" /\ freezes' \cap {txn'[d].lock, Current} # {}
  BY <1>1, <1>4, <1>5 DEF SameCall, FoundOK, Frozen
<1>8. QED BY <1>1, <1>2, <1>3, <1>5, <1>6, <1>7, MarksMove

-----------------------------------------------------------------------------
(* A call that begins is alone if the others are idle; they are not any more. *)
LEMMA BeginKeeps ==
  ASSUME IInv, NEW c \in Clients, txn[c] = Free, NEW t \in Txns, Begin(c, t),
         t.lock = None, t.todo = <<>>, DOMAIN t.writes = {}, t.frozen = FALSE, t.op # "none",
         t.op \in ChannelOperations => t.render \in Renders /\ t.report = ReportOf[t.render],
         t.op = "invalidate" => t.report \in Reports,
         UNCHANGED <<row, print, freezes, delivered>>, TypeOK', StagesSpent'
  PROVE  IInv'
<1> DEFINE lone == \A x \in Clients \ {c} : txn[x] = Free
           u == [t EXCEPT !.at = "loaded", !.alone = lone]
           idle(d) == txn[d] = Free
<1>1. /\ txn' = [d \in Clients |-> IF d = c THEN u ELSE [txn[d] EXCEPT !.alone = idle(d)]]
  BY DEF Begin
<1>2. lone \in BOOLEAN /\ \A d \in Clients : idle(d) \in BOOLEAN
  OBVIOUS
<1>3. txn'[c] = u
  BY <1>1
<1>4. \A d \in Clients \ {c} : txn'[d] = [txn[d] EXCEPT !.alone = idle(d)]
  BY <1>1
<1>5. lone <=> \A x \in Clients \ {c} : txn[x] = Free
  OBVIOUS
<1> HIDE DEF lone
<1>6. /\ u \in Txns /\ u.at = "loaded" /\ u.alone = lone
      /\ u.op = t.op /\ u.render = t.render /\ u.report = t.report /\ u.lock = None
      /\ u.todo = <<>> /\ DOMAIN u.writes = {} /\ u.frozen = FALSE
  BY <1>2 DEF Txns, Places
<1> HIDE DEF u
<1>7. /\ TxnOK(u) /\ CheckedOK(u) /\ FoundOK(u) /\ Busy(u)
  BY <1>6 DEF TxnOK, CheckedOK, FoundOK, Busy, Removals
<1>8. ASSUME NEW d \in Clients \ {c}
      PROVE  /\ txn'[d] \in Txns /\ SameCall(txn[d], txn'[d]) /\ (txn'[d].alone => txn[d] = Free)
             /\ txn'[d].prints = txn[d].prints /\ txn'[d].frozen = txn[d].frozen
  <2> DEFINE old == txn[d]
             new == [old EXCEPT !.alone = idle(d)]
  <2>1. old \in Txns
    BY DEF IInv, Types
  <2>2. txn'[d] = new /\ idle(d) \in BOOLEAN /\ (idle(d) <=> old = Free)
    BY <1>2, <1>4
  <2> HIDE DEF old, idle
  <2>3. /\ new.at = old.at /\ new.op = old.op /\ new.render = old.render /\ new.report = old.report
        /\ new.stage = old.stage /\ new.lock = old.lock /\ new.todo = old.todo
        /\ new.writes = old.writes /\ new.prior = old.prior /\ new.frozen = old.frozen
        /\ new.prints = old.prints /\ new.alone = idle(d)
    BY <2>1 DEF Txns
  <2>4. new \in Txns
    BY <2>1, <2>2, SMTT(20) DEF Txns
  <2>5. old = Free => new = Free
    <3> SUFFICES ASSUME old = Free PROVE new = Free
      OBVIOUS
    <3>1. old.alone = TRUE /\ idle(d) = TRUE
      BY <2>2, FreeIsIdle
    <3>2. new = old
      BY <2>1, <3>1 DEF Txns
    <3>3. QED BY <3>2
  <2> HIDE DEF new
  <2>6. new.alone => old.alone
    BY <2>2, <2>3, FreeIsIdle
  <2>7. SameCall(old, new)
    BY <2>3, <2>5, <2>6 DEF SameCall
  <2>8. QED BY <2>2, <2>3, <2>4, <2>7 DEF old
<1> HIDE DEF idle
<1>9. \A d \in Clients \ {c} : /\ TxnOK(txn[d]) /\ CheckedOK(txn[d]) /\ FoundOK(txn[d])
                               /\ TxnOK(txn'[d]) /\ CheckedOK(txn'[d]) /\ (Busy(txn'[d]) <=> Busy(txn[d]))
  BY <1>8, SameCallOK DEF IInv, TxnsOK
<1>10. Types'
  <2>1. \A d \in Clients : txn'[d] \in Txns
    BY <1>3, <1>6, <1>8
  <2>2. txn' \in [Clients -> Txns]
    BY <1>1, <2>1
  <2>3. QED BY <2>2 DEF Types
<1>11. TxnsOK'
  <2> SUFFICES ASSUME NEW d \in Clients PROVE TxnOK(txn'[d]) /\ CheckedOK(txn'[d]) /\ FoundOK(txn'[d])
    BY DEF TxnsOK, FoundOK, Frozen
  <2>1. CASE d = c
    BY <1>3, <1>7, <2>1
  <2>2. CASE d # c
    <3>1. FoundOK(txn'[d])
      BY <1>8, <1>9, <2>2 DEF SameCall, FoundOK
    <3>2. QED BY <1>9, <2>2, <3>1
  <2>3. QED BY <2>1, <2>2
<1>12. LocksApart'
  <2>1. \A d \in Clients \ {c} : txn'[d].lock = txn[d].lock
    BY <1>8 DEF SameCall
  <2>2. QED BY <1>3, <1>6, <2>1 DEF IInv, LocksApart
<1>13. AloneOK'
  <2> SUFFICES ASSUME NEW d \in Clients, NEW e \in Clients, d # e, Busy(txn'[d]), txn'[d].alone
               PROVE  txn'[e] = Free
    BY DEF AloneOK, Busy
  <2>1. d = c
    <3>1. ASSUME d # c PROVE FALSE
      <4>1. txn[d] = Free /\ Busy(txn[d])
        BY <1>8, <1>9, <3>1
      <4>2. QED BY <4>1, FreeIsIdle
    <3>2. QED BY <3>1
  <2>2. txn[e] = Free
    BY <1>3, <1>5, <1>6, <2>1
  <2>3. QED BY <1>8, <2>1, <2>2 DEF SameCall
<1>14. ExactAlone'
  <2> SUFFICES ASSUME NEW d \in Clients PROVE Exact(txn'[d])
    BY DEF ExactAlone, Exact, Pointing, PointedReport, Touched
  <2>1. CASE d = c
    BY <1>3, <1>6, <2>1 DEF Exact
  <2>2. CASE d # c
    <3>1. txn'[d].alone => ~Busy(txn'[d])
      BY <1>8, <1>9, <2>2, FreeIsIdle
    <3>2. QED BY <3>1 DEF Exact, Busy
  <2>3. QED BY <2>1, <2>2
<1>15. PointersWerePublished'
  BY DEF IInv, PointersWerePublished
<1>16. QED BY <1>10, <1>11, <1>12, <1>13, <1>14, <1>15 DEF IInv

LEMMA LoadKeeps ==
  ASSUME IInv, NEW c \in Clients, Load(c)
  PROVE  IInv'
<1>1. /\ txn[c] = Free /\ started < MaxTransactions /\ started' = started + 1
      /\ UNCHANGED <<row, stage, freezes, print, delivered, publishes, superseded, changes>>
  BY DEF Load, history
<1>2. TypeOK' /\ StagesSpent'
  BY <1>1, PublicationAssumption DEF IInv, Types, TypeOK, StagesSpent
<1>3. /\ Free \in Txns /\ Free.lock = None /\ Free.todo = <<>> /\ DOMAIN Free.writes = {}
      /\ Free.frozen = FALSE
  BY FreeIsIdle DEF Free
<1>4. ASSUME NEW op \in ChannelOperations, NEW r \in Renders,
             Begin(c, [Free EXCEPT !.op = op, !.render = r, !.report = ReportOf[r], !.stage = stage[r]])
      PROVE  IInv'
  <2> DEFINE t == [Free EXCEPT !.op = op, !.render = r, !.report = ReportOf[r], !.stage = stage[r]]
  <2>1. ReportOf[r] \in Reports /\ stage[r] \in StageStates
    BY PublicationAssumption DEF IInv, Types, TypeOK
  <2>2. /\ t \in Txns /\ t.lock = None /\ t.todo = <<>> /\ DOMAIN t.writes = {} /\ t.frozen = FALSE
        /\ t.op = op /\ t.render = r /\ t.report = ReportOf[r]
    BY <1>3, <2>1 DEF Txns
  <2> HIDE DEF t
  <2>3. op # "none" /\ op # "invalidate"
    BY DEF ChannelOperations
  <2>4. Begin(c, t)
    BY <1>4 DEF t
  <2>5. QED BY <1>1, <1>2, <2>2, <2>3, <2>4, BeginKeeps
<1>5. ASSUME NEW report \in Reports, Begin(c, [Free EXCEPT !.op = "invalidate", !.report = report])
      PROVE  IInv'
  <2> DEFINE t == [Free EXCEPT !.op = "invalidate", !.report = report]
  <2>1. /\ t \in Txns /\ t.lock = None /\ t.todo = <<>> /\ DOMAIN t.writes = {} /\ t.frozen = FALSE
        /\ t.op = "invalidate" /\ t.report = report
    BY <1>3 DEF Txns, Removals
  <2> HIDE DEF t
  <2>2. t.op \notin ChannelOperations
    BY <2>1 DEF ChannelOperations
  <2>3. Begin(c, t)
    BY <1>5 DEF t
  <2>4. QED BY <1>1, <1>2, <2>1, <2>2, <2>3, BeginKeeps
<1>6. ASSUME Begin(c, [Free EXCEPT !.op = "withdraw"])
      PROVE  IInv'
  <2> DEFINE t == [Free EXCEPT !.op = "withdraw"]
  <2>1. /\ t \in Txns /\ t.lock = None /\ t.todo = <<>> /\ DOMAIN t.writes = {} /\ t.frozen = FALSE
        /\ t.op = "withdraw"
    BY <1>3 DEF Txns, Removals
  <2> HIDE DEF t
  <2>2. t.op \notin ChannelOperations
    BY <2>1 DEF ChannelOperations
  <2>3. Begin(c, t)
    BY <1>6 DEF t
  <2>4. QED BY <1>1, <1>2, <2>1, <2>2, <2>3, BeginKeeps
<1>7. \/ \E op \in ChannelOperations, r \in Renders :
           Begin(c, [Free EXCEPT !.op = op, !.render = r, !.report = ReportOf[r], !.stage = stage[r]])
      \/ \E report \in Reports : Begin(c, [Free EXCEPT !.op = "invalidate", !.report = report])
      \/ Begin(c, [Free EXCEPT !.op = "withdraw"])
  BY Zenon DEF Load
<1>8. QED BY <1>4, <1>5, <1>6, <1>7, Zenon

-----------------------------------------------------------------------------
(* The facts about a running transaction that its next step starts from. *)
LEMMA RunningFacts ==
  ASSUME IInv, NEW c \in Clients
  PROVE  /\ txn \in [Clients -> Txns] /\ txn[c] \in Txns
         /\ TxnOK(txn[c]) /\ CheckedOK(txn[c]) /\ FoundOK(txn[c]) /\ Exact(txn[c])
BY DEF IInv, Types, TxnsOK, ExactAlone

(* The tables stay as they are. *)
LEMMA TablesStay ==
  ASSUME IInv, UNCHANGED <<row, stage, freezes, print, delivered, publishes, superseded, started, changes>>
  PROVE  TypeOK' /\ StagesSpent'
BY DEF IInv, Types, TypeOK, StagesSpent

LEMMA LockKeeps ==
  ASSUME IInv, NEW c \in Clients, Lock(c)
  PROVE  IInv'
<1> DEFINE t == txn[c]
           name == LockName(t)
           u == [t EXCEPT !.at = "locked", !.lock = name, !.frozen = Frozen(name), !.prints = {print}]
<1>1. /\ t.at = "loaded" /\ \A d \in Clients : txn[d].lock # name
      /\ UNCHANGED <<row, stage, freezes, print, delivered, publishes, superseded, started, changes>>
  BY DEF Lock, history
<1>2. txn' = [txn EXCEPT ![c] = u]
  BY RunningFacts DEF Lock
<1>3. t \in Txns /\ TxnOK(t)
  BY RunningFacts
<1>4. Busy(t) /\ t.op # "none" /\ t.todo = <<>> /\ DOMAIN t.writes = {}
  BY <1>1, <1>3 DEF Busy, TxnOK
<1>5. name \in Rows
  BY <1>3, <1>4, PublicationAssumption DEF TxnOK, LockName, Rows
<1>6. print \in Prints /\ Frozen(name) \in BOOLEAN
  BY DEF IInv, Types, TypeOK, Frozen
<1> DEFINE ice == Frozen(name)
<1> HIDE DEF name, ice
<1>7. u = [t EXCEPT !.at = "locked", !.lock = name, !.frozen = ice, !.prints = {print}] /\ ice \in BOOLEAN
  BY <1>6 DEF ice
<1> HIDE DEF u, t
<1>8. /\ u \in Txns /\ u.at = "locked" /\ u.lock = name /\ u.frozen = ice /\ u.prints = {print}
      /\ u.op = t.op /\ u.render = t.render /\ u.report = t.report /\ u.todo = t.todo
      /\ u.writes = t.writes /\ u.alone = t.alone
  BY <1>3, <1>5, <1>6, <1>7 DEF Txns, Places
<1>9. TxnOK(u)
  BY <1>3, <1>4, <1>8 DEF TxnOK, Busy, LockName, name
<1>10. CheckedOK(u) /\ FoundOK(u) /\ Exact(u)
  BY <1>8 DEF CheckedOK, FoundOK, Exact, ice
<1>11. txn \in [Clients -> Txns]
  BY RunningFacts
<1>12. /\ txn' \in [Clients -> Txns] /\ txn'[c] = u /\ \A d \in Clients \ {c} : txn'[d] = txn[d]
  BY <1>2, <1>8, <1>11
<1>13. TypeOK' /\ StagesSpent'
  BY <1>1, TablesStay
<1>14. txn'[c].lock # None => \A d \in Clients \ {c} : txn[d].lock # txn'[c].lock
  BY <1>1, <1>8, <1>12
<1>15. QED BY <1>1, <1>4, <1>8, <1>9, <1>10, <1>12, <1>13, <1>14, TxnSteps DEF t

(* publish gives up; a stage that is not as it was loaded stays as it is. *)
LEMMA RefuseKeeps ==
  ASSUME IInv, NEW c \in Clients, Busy(txn[c]), txn[c].op = "publish",
         NEW state \in {"BLOCKED", "STALE"}, Refuse(c, state),
         UNCHANGED <<row, freezes, print, delivered, publishes, superseded, started, changes>>
  PROVE  IInv'
<1>1. txn[c].render \in Renders
  BY RunningFacts DEF TxnOK, ChannelOperations
<1>2. stage' = stage \/ stage' = [stage EXCEPT ![txn[c].render] = state]
  BY DEF Refuse
<1>3. stage \in [Renders -> StageStates]
  BY DEF IInv, Types, TypeOK
<1>4. /\ stage' \in [Renders -> StageStates]
      /\ \A r \in Renders : stage'[r] = stage[r] \/ stage'[r] = state
  BY <1>1, <1>2, <1>3 DEF StageStates
<1>5. TypeOK'
  BY <1>4 DEF IInv, Types, TypeOK
<1>6. StagesSpent'
  BY <1>4 DEF IInv, StagesSpent
<1>7. Return(c)
  BY DEF Refuse
<1>8. QED BY <1>5, <1>6, <1>7, ReturnKeeps

(* The call goes on and has written nothing yet. *)
LEMMA GoesOn ==
  ASSUME IInv, NEW c \in Clients, Busy(txn[c]), NEW u \in Txns, txn' = [txn EXCEPT ![c] = u],
         UNCHANGED <<row, stage, freezes, print, delivered, publishes, superseded, started, changes>>,
         u.lock = txn[c].lock, u.alone = txn[c].alone,
         TxnOK(u), CheckedOK(u), FoundOK(u), Exact(u)
  PROVE  IInv'
<1>1. /\ txn' \in [Clients -> Txns] /\ txn'[c] = u /\ \A d \in Clients \ {c} : txn'[d] = txn[d]
  BY RunningFacts
<1>2. u.lock # None => \A d \in Clients \ {c} : txn[d].lock # u.lock
  BY DEF IInv, LocksApart
<1>3. TypeOK' /\ StagesSpent'
  BY TablesStay
<1>4. QED BY <1>1, <1>2, <1>3, TxnSteps

LEMMA CheckFreezeKeeps ==
  ASSUME IInv, NEW c \in Clients, CheckFreeze(c)
  PROVE  IInv'
<1> DEFINE t == txn[c]
           u == [t EXCEPT !.at = "unfrozen"]
<1>1. /\ t.at = "locked" /\ t.op \in ChannelOperations
      /\ UNCHANGED <<row, freezes, print, delivered, publishes, superseded, started, changes>>
  BY DEF CheckFreeze, history
<1>2. Busy(t)
  BY <1>1 DEF Busy
<1>3. CASE Frozen(t.lock)
  <2>1. CASE t.op = "publish"
    <3>1. Refuse(c, "BLOCKED")
      BY <1>3, <2>1 DEF CheckFreeze
    <3>2. QED BY <1>1, <1>2, <2>1, <3>1, RefuseKeeps
  <2>2. CASE t.op # "publish"
    <3>1. Return(c) /\ UNCHANGED stage
      BY <1>3, <2>2 DEF CheckFreeze
    <3>2. TypeOK' /\ StagesSpent'
      BY <1>1, <3>1, TablesStay
    <3>3. QED BY <1>1, <1>2, <3>1, <3>2, ReturnKeeps
  <2>3. QED BY <2>1, <2>2
<1>4. CASE ~Frozen(t.lock)
  <2>1. txn' = [txn EXCEPT ![c] = u] /\ UNCHANGED stage
    BY <1>4 DEF CheckFreeze
  <2>2. t \in Txns /\ TxnOK(t) /\ FoundOK(t)
    BY RunningFacts
  <2>3. ~t.frozen
    BY <1>1, <1>4, <2>2 DEF FoundOK
  <2> HIDE DEF t
  <2>4. /\ u \in Txns /\ u.at = "unfrozen" /\ u.lock = t.lock /\ u.frozen = t.frozen /\ u.prints = t.prints
        /\ u.op = t.op /\ u.render = t.render /\ u.report = t.report /\ u.todo = t.todo
        /\ u.writes = t.writes /\ u.alone = t.alone
    BY <2>2 DEF Txns, Places
  <2> HIDE DEF u
  <2>5. TxnOK(u)
    BY <1>1, <1>2, <2>2, <2>4 DEF TxnOK, Busy, LockName
  <2>6. CheckedOK(u) /\ FoundOK(u) /\ Exact(u)
    BY <2>2, <2>3, <2>4 DEF CheckedOK, FoundOK, Exact
  <2>7. QED BY <1>1, <1>2, <2>1, <2>4, <2>5, <2>6, GoesOn DEF t
<1>5. QED BY <1>3, <1>4

LEMMA ReadWithdrawnKeeps ==
  ASSUME IInv, NEW c \in Clients, ReadWithdrawn(c)
  PROVE  IInv'
<1> DEFINE t == txn[c]
           u == [t EXCEPT !.at = "listing", !.report = row[Current]]
<1>1. /\ t.op = "withdraw" /\ t.at = "locked"
      /\ UNCHANGED <<row, stage, freezes, print, delivered, publishes, superseded, started, changes>>
  BY DEF ReadWithdrawn, At, history
<1>2. Busy(t)
  BY <1>1 DEF Busy
<1>3. CASE row[Current] = None
  <2>1. Return(c)
    BY <1>3 DEF ReadWithdrawn
  <2>2. QED BY <1>1, <1>2, <2>1, TablesStay, ReturnKeeps
<1>4. CASE row[Current] # None
  <2>1. txn' = [txn EXCEPT ![c] = u]
    BY <1>4, RunningFacts DEF ReadWithdrawn
  <2>2. t \in Txns /\ TxnOK(t) /\ FoundOK(t)
    BY RunningFacts
  <2>3. row[Current] \in Reports \cup {None}
    BY DEF IInv, Types, TypeOK
  <2> HIDE DEF t
  <2>4. /\ u \in Txns /\ u.at = "listing" /\ u.lock = t.lock /\ u.frozen = t.frozen /\ u.prints = t.prints
        /\ u.op = t.op /\ u.render = t.render /\ u.todo = t.todo
        /\ u.writes = t.writes /\ u.alone = t.alone
    BY <2>2, <2>3 DEF Txns, Places
  <2> HIDE DEF u
  <2>5. t.op \notin ChannelOperations
    BY <1>1 DEF ChannelOperations
  <2>6. TxnOK(u)
    BY <1>1, <1>2, <2>2, <2>4, <2>5 DEF TxnOK, Busy, LockName
  <2>7. CheckedOK(u) /\ FoundOK(u) /\ Exact(u)
    BY <1>1, <2>2, <2>4, <2>5 DEF CheckedOK, FoundOK, Exact
  <2>8. QED BY <1>1, <1>2, <2>1, <2>4, <2>6, <2>7, GoesOn DEF t
<1>5. QED BY <1>3, <1>4

-----------------------------------------------------------------------------
(* A channel operation has its channel's lock from its freeze check on. *)
LEMMA ChannelHeld ==
  ASSUME IInv, NEW c \in Clients, txn[c].op \in ChannelOperations, txn[c].at \notin {"free", "loaded"}
  PROVE  /\ txn[c].render \in Renders /\ txn[c].report = ReportOf[txn[c].render]
         /\ txn[c].report \in Reports
         /\ txn[c].lock = ChannelOf[txn[c].render] /\ txn[c].lock \in Channels
         /\ txn[c].lock # None /\ txn[c].lock # Current
         /\ row[txn[c].lock] \in Renders \cup {None}
<1>1. TxnOK(txn[c]) /\ Busy(txn[c])
  BY RunningFacts DEF Busy
<1>2. /\ txn[c].render \in Renders /\ txn[c].report = ReportOf[txn[c].render]
      /\ txn[c].lock = ChannelOf[txn[c].render]
  BY <1>1 DEF TxnOK, LockName
<1>3. txn[c].report \in Reports /\ txn[c].lock \in Channels
  BY <1>2, PublicationAssumption
<1>4. row[txn[c].lock] \in Renders \cup {None}
  BY <1>3 DEF IInv, Types, TypeOK
<1>5. QED BY <1>2, <1>3, <1>4, PublicationAssumption

RowsIn(entries) == {entries[i].row : i \in 1..Len(entries)}

(* A check that passed: what it found holds as the writing begins. *)
LEMMA GoWriteKeeps ==
  ASSUME IInv, NEW c \in Clients, txn[c].at = "unfrozen", txn[c].op \in ChannelOperations,
         NEW priorReport \in Values, NEW writes \in Seq(Entries), GoWrite(c, priorReport, writes),
         UNCHANGED <<row, stage, freezes, print, delivered, publishes, superseded, started, changes>>,
         \A i \in 1..Len(writes) : Due(txn[c], writes[i].row, writes[i].value),
         txn[c].op = "publish" => txn[c].stage = "STAGED",
         txn[c].op \in {"publish", "promote", "rollback"} =>
           PrintOf[txn[c].report] = print /\ txn[c].lock \in RowsIn(writes),
         txn[c].op \in {"publish", "rollback"} => Current \in RowsIn(writes),
         txn[c].op = "rollback" => txn[c].render \in delivered
  PROVE  IInv'
<1> DEFINE t == txn[c]
           prior == row[t.lock]
           u == [t EXCEPT !.at = "writing", !.todo = writes, !.prior = prior, !.priorReport = priorReport]
<1>1. txn' = [txn EXCEPT ![c] = u]
  BY RunningFacts DEF GoWrite
<1>2. t \in Txns /\ TxnOK(t) /\ FoundOK(t) /\ Busy(t)
  BY RunningFacts DEF Busy
<1>3. prior \in Values /\ t.lock # None
  BY ChannelHeld DEF Values
<1>4. print \in t.prints /\ ~t.frozen /\ DOMAIN t.writes = {}
  BY <1>2, <1>3 DEF FoundOK, TxnOK
<1> HIDE DEF t, prior
<1>5. /\ u \in Txns /\ u.at = "writing" /\ u.lock = t.lock /\ u.frozen = t.frozen /\ u.prints = t.prints
      /\ u.op = t.op /\ u.render = t.render /\ u.report = t.report /\ u.stage = t.stage
      /\ u.todo = writes /\ u.writes = t.writes /\ u.alone = t.alone /\ u.prior = prior
  BY <1>2, <1>3 DEF Txns, Places
<1> HIDE DEF u
<1>6. \A x, v : Due(u, x, v) <=> Due(t, x, v)
  BY <1>5 DEF Due
<1>7. t.op \notin Removals /\ t.op # "invalidate"
  BY DEF ChannelOperations, Removals, t
<1>8. TxnOK(u)
  BY <1>2, <1>4, <1>5, <1>6, <1>7 DEF TxnOK, Busy, LockName, t
<1>9. Touched(u) = RowsIn(writes)
  BY <1>4, <1>5 DEF Touched, RowsIn
<1>10. CheckedOK(u)
  BY <1>4, <1>5, <1>9 DEF CheckedOK, t
<1>11. FoundOK(u)
  BY <1>2, <1>4, <1>5 DEF FoundOK, t, prior
<1>12. Exact(u)
  BY <1>5, <1>7 DEF Exact
<1>13. QED BY <1>1, <1>2, <1>5, <1>8, <1>10, <1>11, <1>12, GoesOn DEF t

LEMMA SetIsEntry ==
  ASSUME NEW x \in Rows, NEW v \in Values
  PROVE  Set(x, v) \in Entries /\ Set(x, v).row = x /\ Set(x, v).value = v
BY DEF Set, Entries

LEMMA OneEntry ==
  ASSUME NEW e \in Entries
  PROVE  /\ <<e>> \in Seq(Entries) /\ Len(<<e>>) = 1 /\ <<e>>[1] = e
         /\ RowsIn(<<e>>) = {e.row}
BY DEF RowsIn

LEMMA TwoEntries ==
  ASSUME NEW e \in Entries, NEW f \in Entries
  PROVE  /\ <<e, f>> \in Seq(Entries) /\ Len(<<e, f>>) = 2 /\ <<e, f>>[1] = e /\ <<e, f>>[2] = f
         /\ e.row \in RowsIn(<<e, f>>) /\ f.row \in RowsIn(<<e, f>>)
<1>1. /\ <<e, f>> \in Seq(Entries) /\ Len(<<e, f>>) = 2 /\ <<e, f>>[1] = e /\ <<e, f>>[2] = f
  OBVIOUS
<1>2. 1 \in 1..2 /\ 2 \in 1..2
  OBVIOUS
<1>3. QED BY <1>1, <1>2 DEF RowsIn

(* The report and the render, on their rows. *)
LEMMA BothDue ==
  ASSUME IInv, NEW c \in Clients, txn[c].at = "unfrozen", txn[c].op \in {"publish", "rollback"},
         NEW priorReport \in Values, Fresh(txn[c].report),
         GoWrite(c, priorReport, <<Set(Current, txn[c].report), Set(txn[c].lock, txn[c].render)>>),
         UNCHANGED <<row, stage, freezes, print, delivered, publishes, superseded, started, changes>>,
         txn[c].op = "publish" => txn[c].stage = "STAGED",
         txn[c].op = "rollback" => txn[c].render \in delivered
  PROVE  IInv'
<1> DEFINE t == txn[c]
           e == Set(Current, t.report)
           f == Set(t.lock, t.render)
           writes == <<e, f>>
<1>1. t.op \in ChannelOperations
  BY DEF ChannelOperations
<1>2. /\ t.render \in Renders /\ t.report \in Reports /\ t.lock \in Channels
      /\ Current \in Rows /\ t.lock \in Rows /\ t.render \in Values /\ t.report \in Values
  BY <1>1, ChannelHeld DEF Rows, Values
<1>3. e \in Entries /\ e.row = Current /\ e.value = t.report
  BY <1>2, SetIsEntry
<1>4. f \in Entries /\ f.row = t.lock /\ f.value = t.render
  BY <1>2, SetIsEntry
<1> HIDE DEF e, f
<1>5. /\ writes \in Seq(Entries) /\ Len(writes) = 2 /\ writes[1] = e /\ writes[2] = f
      /\ Current \in RowsIn(writes) /\ t.lock \in RowsIn(writes)
  BY <1>3, <1>4, TwoEntries
<1>6. GoWrite(c, priorReport, writes)
  BY DEF e, f
<1> HIDE DEF writes
<1>7. \A i \in 1..Len(writes) : Due(t, writes[i].row, writes[i].value)
  <2> SUFFICES ASSUME NEW i \in 1..Len(writes) PROVE Due(t, writes[i].row, writes[i].value)
    OBVIOUS
  <2>1. i = 1 \/ i = 2
    BY <1>5
  <2>2. CASE i = 1
    BY <1>3, <1>5, <2>2 DEF Due, Removals
  <2>3. CASE i = 2
    BY <1>4, <1>5, <2>3 DEF Due, Removals
  <2>4. QED BY <2>1, <2>2, <2>3
<1>8. PrintOf[t.report] = print
  BY DEF Fresh
<1>9. QED BY <1>1, <1>5, <1>6, <1>7, <1>8, GoWriteKeeps

LEMMA CheckPublishKeeps ==
  ASSUME IInv, NEW c \in Clients, CheckPublish(c)
  PROVE  IInv'
<1>1. /\ txn[c].op = "publish" /\ txn[c].at = "unfrozen" /\ Busy(txn[c])
      /\ UNCHANGED <<row, freezes, print, delivered, publishes, superseded, started, changes>>
  BY DEF CheckPublish, At, history, Busy
<1>2. CASE txn[c].stage # "STAGED" \/ txn[c].render \notin Eligible
  <2>1. Refuse(c, "BLOCKED")
    BY <1>2 DEF CheckPublish
  <2>2. QED BY <1>1, <2>1, RefuseKeeps
<1>3. CASE txn[c].stage = "STAGED" /\ txn[c].render \in Eligible /\ ~Fresh(txn[c].report)
  <2>1. Refuse(c, "STALE")
    BY <1>3 DEF CheckPublish
  <2>2. QED BY <1>1, <2>1, RefuseKeeps
<1>4. CASE txn[c].stage = "STAGED" /\ txn[c].render \in Eligible /\ Fresh(txn[c].report)
  <2> DEFINE priorReport == IF row[Current] # None THEN row[Current] ELSE PointedReport(txn[c].lock)
  <2>1. /\ UNCHANGED stage
        /\ GoWrite(c, priorReport, <<Set(Current, txn[c].report), Set(txn[c].lock, txn[c].render)>>)
    BY <1>4 DEF CheckPublish
  <2>2. priorReport \in Values
    <3>1. row[Current] \in Values
      BY DEF IInv, Types, TypeOK, Values
    <3>2. row[txn[c].lock] \in Renders \cup {None}
      BY <1>1, ChannelHeld DEF ChannelOperations
    <3>3. PointedReport(txn[c].lock) \in Values
      BY <3>2, PublicationAssumption DEF PointedReport, Values
    <3>4. QED BY <3>1, <3>3
  <2> HIDE DEF priorReport
  <2>3. QED BY <1>1, <1>4, <2>1, <2>2, BothDue
<1>5. QED BY <1>2, <1>3, <1>4

LEMMA CheckRollbackKeeps ==
  ASSUME IInv, NEW c \in Clients, CheckRollback(c)
  PROVE  IInv'
<1>1. /\ txn[c].op = "rollback" /\ txn[c].at = "unfrozen" /\ Busy(txn[c])
      /\ UNCHANGED <<row, stage, freezes, print, delivered, publishes, superseded, started, changes>>
  BY DEF CheckRollback, At, history, Busy
<1>2. CASE txn[c].render \in delivered \cap Eligible /\ Fresh(txn[c].report)
  <2>1. GoWrite(c, None, <<Set(Current, txn[c].report), Set(txn[c].lock, txn[c].render)>>)
    BY <1>2 DEF CheckRollback
  <2>2. None \in Values
    BY DEF Values
  <2>3. QED BY <1>1, <1>2, <2>1, <2>2, BothDue
<1>3. CASE ~(txn[c].render \in delivered \cap Eligible /\ Fresh(txn[c].report))
  <2>1. Return(c)
    BY <1>3 DEF CheckRollback
  <2>2. QED BY <1>1, <2>1, TablesStay, ReturnKeeps
<1>4. QED BY <1>2, <1>3

(* One row, the channel's. *)
LEMMA PointerDue ==
  ASSUME IInv, NEW c \in Clients, txn[c].at = "unfrozen", NEW priorReport \in Values, NEW value,
         \/ txn[c].op = "promote" /\ value = txn[c].render /\ Fresh(txn[c].report)
         \/ txn[c].op = "unpublish" /\ value = None,
         GoWrite(c, priorReport, <<Set(txn[c].lock, value)>>),
         UNCHANGED <<row, stage, freezes, print, delivered, publishes, superseded, started, changes>>
  PROVE  IInv'
<1> DEFINE t == txn[c]
           e == Set(t.lock, value)
           writes == <<e>>
<1>1. t.op \in ChannelOperations
  BY DEF ChannelOperations
<1>2. t.render \in Renders /\ t.lock \in Rows /\ value \in Values
  BY <1>1, ChannelHeld DEF Rows, Values
<1>3. e \in Entries /\ e.row = t.lock /\ e.value = value
  BY <1>2, SetIsEntry
<1> HIDE DEF e
<1>4. writes \in Seq(Entries) /\ Len(writes) = 1 /\ writes[1] = e /\ t.lock \in RowsIn(writes)
  BY <1>3, OneEntry
<1>5. GoWrite(c, priorReport, writes)
  BY DEF e
<1> HIDE DEF writes
<1>6. \A i \in 1..Len(writes) : Due(t, writes[i].row, writes[i].value)
  BY <1>3, <1>4 DEF Due, Removals
<1>7. t.op = "promote" => PrintOf[t.report] = print
  BY DEF Fresh
<1>8. QED BY <1>1, <1>4, <1>5, <1>6, <1>7, GoWriteKeeps

LEMMA CheckPromoteKeeps ==
  ASSUME IInv, NEW c \in Clients, CheckPromote(c)
  PROVE  IInv'
<1>1. /\ txn[c].op = "promote" /\ txn[c].at = "unfrozen" /\ Busy(txn[c])
      /\ UNCHANGED <<row, stage, freezes, print, delivered, publishes, superseded, started, changes>>
  BY DEF CheckPromote, At, history, Busy
<1>2. \/ Return(c)
      \/ /\ Fresh(txn[c].report)
         /\ GoWrite(c, PointedReport(txn[c].lock), <<Set(txn[c].lock, txn[c].render)>>)
  BY DEF CheckPromote
<1>3. PointedReport(txn[c].lock) \in Values
  <2>1. row[txn[c].lock] \in Renders \cup {None}
    BY <1>1, ChannelHeld DEF ChannelOperations
  <2>2. QED BY <2>1, PublicationAssumption DEF PointedReport, Values
<1>4. CASE Return(c)
  BY <1>1, <1>4, TablesStay, ReturnKeeps
<1>5. CASE /\ Fresh(txn[c].report)
           /\ GoWrite(c, PointedReport(txn[c].lock), <<Set(txn[c].lock, txn[c].render)>>)
  BY <1>1, <1>3, <1>5, PointerDue
<1>6. QED BY <1>2, <1>4, <1>5

LEMMA CheckUnpublishKeeps ==
  ASSUME IInv, NEW c \in Clients, CheckUnpublish(c)
  PROVE  IInv'
<1>1. /\ txn[c].op = "unpublish" /\ txn[c].at = "unfrozen" /\ Busy(txn[c])
      /\ UNCHANGED <<row, stage, freezes, print, delivered, publishes, superseded, started, changes>>
  BY DEF CheckUnpublish, At, history, Busy
<1>2. Return(c) \/ GoWrite(c, None, <<Set(txn[c].lock, None)>>)
  BY DEF CheckUnpublish
<1>3. CASE Return(c)
  BY <1>1, <1>3, TablesStay, ReturnKeeps
<1>4. CASE GoWrite(c, None, <<Set(txn[c].lock, None)>>)
  <2>1. None \in Values
    BY DEF Values
  <2>2. QED BY <1>1, <1>4, <2>1, PointerDue
<1>5. QED BY <1>2, <1>3, <1>4

-----------------------------------------------------------------------------
(* Removing pointers. *)

LEMMA RemovalFacts ==
  ASSUME NEW t, t.op \in Removals
  PROVE  t.op \notin ChannelOperations /\ t.op # "none"
BY DEF Removals, ChannelOperations

(* All channels that deliver the report are listed, each once. *)
LEMMA ListChannelsKeeps ==
  ASSUME IInv, NEW c \in Clients, ListChannels(c)
  PROVE  IInv'
<1> DEFINE t == txn[c]
           P == Pointing(t.report)
<1>1. /\ t.op \in Removals /\ t.at \in {"locked", "listing"} /\ Busy(t)
      /\ UNCHANGED <<row, stage, freezes, print, delivered, publishes, superseded, started, changes>>
  BY DEF ListChannels, At, history, Busy, Removals
<1>2. PICK chs \in [1..Cardinality(P) -> P] :
        /\ {chs[i] : i \in DOMAIN chs} = P
        /\ txn' = [txn EXCEPT ![c].at = "clearing", ![c].todo = [i \in DOMAIN chs |-> Set(chs[i], None)]]
  BY DEF ListChannels
<1> DEFINE entries == [i \in DOMAIN chs |-> Set(chs[i], None)]
           u == [t EXCEPT !.at = "clearing", !.todo = entries]
<1>3. txn' = [txn EXCEPT ![c] = u]
  BY <1>2, RunningFacts
<1>4. t \in Txns /\ TxnOK(t) /\ FoundOK(t)
  BY RunningFacts
<1>5. t.op \notin ChannelOperations /\ t.op # "none" /\ DOMAIN t.writes = {}
  BY <1>1, <1>4, RemovalFacts DEF TxnOK
<1>6. P \subseteq Channels /\ Cardinality(P) \in Nat
  <2>1. P \in SUBSET Channels
    BY DEF Pointing
  <2> HIDE DEF P
  <2>2. IsFiniteSet(P)
    BY <2>1, PublicationAssumption, FS_Subset
  <2>3. QED BY <2>1, <2>2, FS_CardinalityType
<1>7. /\ DOMAIN chs = 1..Cardinality(P) /\ \A i \in DOMAIN chs : chs[i] \in P
  BY <1>2
<1>8. \A i \in DOMAIN chs : /\ Set(chs[i], None) \in Entries
                            /\ Set(chs[i], None).row = chs[i] /\ Set(chs[i], None).value = None
  <2>1. \A i \in DOMAIN chs : chs[i] \in Rows
    BY <1>6, <1>7 DEF Rows
  <2>2. None \in Values
    BY DEF Values
  <2>3. QED BY <2>1, <2>2, SetIsEntry
<1> HIDE DEF P
<1>9. entries \in Seq(Entries) /\ Len(entries) = Cardinality(P)
  BY <1>6, <1>7, <1>8
<1>10. \A i \in 1..Len(entries) : entries[i].row = chs[i] /\ entries[i].value = None
  BY <1>7, <1>8, <1>9
<1> HIDE DEF entries, t
<1>11. RowsIn(entries) = P
  <2>1. DOMAIN chs = 1..Len(entries)
    BY <1>7, <1>9
  <2>2. \A i \in 1..Len(entries) : entries[i].row \in P
    BY <1>7, <1>10, <2>1
  <2>3. \A x \in P : \E i \in 1..Len(entries) : chs[i] = x
    BY <1>2, <2>1
  <2>4. \A x \in P : \E i \in 1..Len(entries) : entries[i].row = x
    BY <1>10, <2>3
  <2>5. QED BY <2>2, <2>4 DEF RowsIn
<1>12. /\ u \in Txns /\ u.at = "clearing" /\ u.lock = t.lock /\ u.frozen = t.frozen /\ u.prints = t.prints
       /\ u.op = t.op /\ u.render = t.render /\ u.report = t.report /\ u.todo = entries
       /\ u.writes = t.writes /\ u.alone = t.alone
  BY <1>4, <1>9 DEF Txns, Places
<1> HIDE DEF u
<1>13. TxnOK(u)
  <2>1. \A i \in 1..Len(u.todo) : Due(u, u.todo[i].row, u.todo[i].value)
    BY <1>1, <1>10, <1>12 DEF Due, Removals
  <2>2. QED BY <1>1, <1>4, <1>5, <1>12, <2>1 DEF TxnOK, Busy, LockName
<1>14. CheckedOK(u) /\ FoundOK(u)
  BY <1>4, <1>5, <1>12 DEF CheckedOK, FoundOK
<1>15. Exact(u)
  <2>1. Touched(u) = P
    BY <1>5, <1>11, <1>12 DEF Touched, RowsIn
  <2>2. Current \notin P
    BY <1>6, PublicationAssumption
  <2>3. P = Pointing(u.report)
    BY <1>12 DEF P, t
  <2>4. QED BY <1>12, <2>1, <2>2, <2>3 DEF Exact
<1>16. QED BY <1>1, <1>3, <1>12, <1>13, <1>14, <1>15, GoesOn DEF t

LEMMA ClearCurrentKeeps ==
  ASSUME IInv, NEW c \in Clients, ClearCurrent(c)
  PROVE  IInv'
<1> DEFINE t == txn[c]
           due == t.op = "withdraw" \/ row[Current] = t.report
           entries == IF due THEN <<Set(Current, None)>> ELSE <<>>
           u == [t EXCEPT !.at = "writing", !.todo = entries]
<1>1. /\ t.at = "clearing" /\ t.todo = <<>> /\ Busy(t)
      /\ UNCHANGED <<row, stage, freezes, print, delivered, publishes, superseded, started, changes>>
  BY DEF ClearCurrent, history, Busy
<1>2. txn' = [txn EXCEPT ![c] = u]
  BY RunningFacts DEF ClearCurrent
<1>3. t \in Txns /\ TxnOK(t) /\ FoundOK(t) /\ Exact(t)
  BY RunningFacts
<1>4. t.op \in Removals /\ t.op \notin ChannelOperations
  BY <1>1, <1>3, RemovalFacts DEF TxnOK
<1>5. Set(Current, None) \in Entries /\ Set(Current, None).row = Current /\ Set(Current, None).value = None
  BY SetIsEntry DEF Rows, Values
<1>6. /\ entries \in Seq(Entries) /\ \A i \in 1..Len(entries) : entries[i].value = None
      /\ RowsIn(entries) = IF due THEN {Current} ELSE {}
  <2>1. CASE due
    <3> DEFINE e == Set(Current, None)
    <3>1. entries = <<e>>
      BY <2>1
    <3>2. e \in Entries /\ e.row = Current /\ e.value = None
      BY <1>5
    <3> HIDE DEF entries, e
    <3>3. /\ <<e>> \in Seq(Entries) /\ Len(<<e>>) = 1 /\ <<e>>[1] = e /\ RowsIn(<<e>>) = {e.row}
      BY <3>2, OneEntry
    <3>4. entries \in Seq(Entries) /\ \A i \in 1..Len(entries) : entries[i].value = None
      BY <3>1, <3>2, <3>3
    <3>5. QED BY <2>1, <3>1, <3>2, <3>3, <3>4
  <2>2. CASE ~due
    BY <2>2 DEF RowsIn
  <2>3. QED BY <2>1, <2>2
<1>7. due <=> (t.op = "withdraw" \/ row[Current] = t.report)
  OBVIOUS
<1> HIDE DEF entries, t, due
<1>8. /\ u \in Txns /\ u.at = "writing" /\ u.lock = t.lock /\ u.frozen = t.frozen /\ u.prints = t.prints
      /\ u.op = t.op /\ u.render = t.render /\ u.report = t.report /\ u.todo = entries
      /\ u.writes = t.writes /\ u.alone = t.alone
  BY <1>3, <1>6 DEF Txns, Places
<1> HIDE DEF u
<1>9. TxnOK(u)
  <2>1. \A i \in 1..Len(u.todo) : Due(u, u.todo[i].row, u.todo[i].value)
    BY <1>4, <1>6, <1>8 DEF Due, Removals
  <2>2. \A x, v : Due(u, x, v) <=> Due(t, x, v)
    BY <1>8 DEF Due
  <2>3. QED BY <1>1, <1>3, <1>4, <1>8, <2>1, <2>2 DEF TxnOK, Busy, LockName
<1>10. CheckedOK(u) /\ FoundOK(u)
  BY <1>3, <1>4, <1>8 DEF CheckedOK, FoundOK, ChannelOperations, Removals
<1>11. Exact(u)
  <2> SUFFICES ASSUME u.op = "invalidate", u.alone
               PROVE  /\ Touched(u) \ {Current} = Pointing(u.report)
                      /\ Current \in Touched(u) <=> u.at = "writing" /\ row[Current] = u.report
    BY DEF Exact
  <2>1. Touched(t) = DOMAIN t.writes
    BY <1>1 DEF Touched
  <2>2. Touched(u) = Touched(t) \cup RowsIn(entries)
    BY <1>8, <2>1 DEF Touched, RowsIn
  <2>3. Touched(t) \ {Current} = Pointing(t.report) /\ Current \notin Touched(t)
    BY <1>1, <1>3, <1>8 DEF Exact
  <2>4. QED BY <1>6, <1>7, <1>8, <2>2, <2>3
<1>12. QED BY <1>1, <1>2, <1>8, <1>9, <1>10, <1>11, GoesOn DEF t

LEMMA HeadAndTail ==
  ASSUME NEW s \in Seq(Entries), s # <<>>
  PROVE  /\ Head(s) \in Entries /\ Head(s) = s[1] /\ 1 \in 1..Len(s) /\ Tail(s) \in Seq(Entries)
         /\ \A i \in 1..Len(Tail(s)) : i + 1 \in 1..Len(s) /\ Tail(s)[i] = s[i + 1]
         /\ RowsIn(s) = {Head(s).row} \cup RowsIn(Tail(s))
<1>1. /\ Len(s) \in Nat \ {0} /\ Tail(s) \in Seq(Entries) /\ Len(Tail(s)) = Len(s) - 1
      /\ Head(s) = s[1] /\ Head(s) \in Entries
  BY EmptySeq, HeadTailProperties
<1>2. \A i \in 1..Len(Tail(s)) : i + 1 \in 1..Len(s) /\ Tail(s)[i] = s[i + 1]
  BY <1>1, HeadTailProperties
<1>3. \A i \in 1..Len(s) : i = 1 \/ i - 1 \in 1..Len(Tail(s))
  BY <1>1
<1>4. \A i \in 1..Len(s) : i # 1 => s[i] = Tail(s)[i - 1]
  BY <1>1, <1>2, <1>3
<1>5. RowsIn(s) \subseteq {Head(s).row} \cup RowsIn(Tail(s))
  BY <1>1, <1>3, <1>4 DEF RowsIn
<1>6. {Head(s).row} \cup RowsIn(Tail(s)) \subseteq RowsIn(s)
  BY <1>1, <1>2 DEF RowsIn
<1>7. QED BY <1>1, <1>2, <1>5, <1>6

(* A write of the next row, or a delete that finds none. *)
LEMMA WriteKeeps ==
  ASSUME IInv, NEW c \in Clients, Write(c)
  PROVE  IInv'
<1> DEFINE t == txn[c]
           w == Head(t.todo)
           nothing == w.value = None /\ row[w.row] = None /\ ~WrittenBy(w.row, c)
           more == [x \in DOMAIN t.writes \cup {w.row} |-> IF x = w.row THEN w.value ELSE t.writes[x]]
           writes == IF nothing THEN t.writes ELSE more
           rest == Tail(t.todo)
           u == [t EXCEPT !.todo = rest, !.writes = writes]
<1>1. /\ t.at \in {"writing", "clearing"} /\ t.todo # <<>> /\ Busy(t)
      /\ UNCHANGED <<row, stage, freezes, print, delivered, publishes, superseded, started, changes>>
  BY DEF Write, history, Busy
<1>2. txn' = [txn EXCEPT ![c] = u]
  BY RunningFacts DEF Write
<1>3. t \in Txns /\ TxnOK(t) /\ CheckedOK(t) /\ FoundOK(t) /\ Exact(t)
  BY RunningFacts
<1>4. t.todo \in Seq(Entries) /\ t.writes \in WriteMaps
  BY <1>3 DEF Txns
<1>5. /\ w \in Entries /\ w = t.todo[1] /\ 1 \in 1..Len(t.todo) /\ rest \in Seq(Entries)
      /\ \A i \in 1..Len(rest) : i + 1 \in 1..Len(t.todo) /\ rest[i] = t.todo[i + 1]
      /\ RowsIn(t.todo) = {w.row} \cup RowsIn(rest)
  BY <1>1, <1>4, HeadAndTail
<1>6. w.row \in Rows /\ w.value \in Values /\ Due(t, w.row, w.value)
  BY <1>3, <1>5 DEF Entries, TxnOK
<1>7. nothing => w.value = None /\ row[w.row] = None
  OBVIOUS
<1> HIDE DEF nothing, w, rest
<1>8. /\ DOMAIN more = DOMAIN t.writes \cup {w.row}
      /\ \A x \in DOMAIN more : more[x] = IF x = w.row THEN w.value ELSE t.writes[x]
  OBVIOUS
<1>9. more \in WriteMaps
  <2>1. PICK D \in SUBSET Rows : t.writes \in [D -> Values]
    BY <1>4 DEF WriteMaps
  <2>2. D \cup {w.row} \in SUBSET Rows /\ more \in [D \cup {w.row} -> Values]
    BY <1>6, <2>1
  <2>3. QED BY <2>2 DEF WriteMaps
<1> HIDE DEF more
<1>10. writes \in WriteMaps /\ (nothing => writes = t.writes) /\ (~nothing => writes = more)
  BY <1>4, <1>9
<1> HIDE DEF writes, t
<1>11. /\ u \in Txns /\ u.at = t.at /\ u.lock = t.lock /\ u.frozen = t.frozen /\ u.prints = t.prints
       /\ u.op = t.op /\ u.render = t.render /\ u.report = t.report /\ u.stage = t.stage
       /\ u.prior = t.prior /\ u.todo = rest /\ u.writes = writes /\ u.alone = t.alone
  BY <1>3, <1>5, <1>10 DEF Txns
<1> HIDE DEF u
<1>12. \A x, v : Due(u, x, v) <=> Due(t, x, v)
  BY <1>11 DEF Due
<1>13. TxnOK(u)
  <2>1. \A x \in DOMAIN writes : Due(t, x, writes[x])
    BY <1>3, <1>6, <1>8, <1>10 DEF TxnOK
  <2>2. \A i \in 1..Len(rest) : Due(t, rest[i].row, rest[i].value)
    BY <1>3, <1>5 DEF TxnOK
  <2>3. QED BY <1>1, <1>3, <1>11, <1>12, <2>1, <2>2 DEF TxnOK, Busy, LockName
<1>14. Touched(t) = DOMAIN t.writes \cup RowsIn(t.todo) /\ Touched(u) = DOMAIN writes \cup RowsIn(rest)
  BY <1>11 DEF Touched, RowsIn
<1>15. ~nothing => Touched(u) = Touched(t)
  BY <1>5, <1>8, <1>10, <1>14
<1>16. t.op \in {"publish", "promote", "rollback"} => ~nothing
  <2> SUFFICES ASSUME t.op \in {"publish", "promote", "rollback"} PROVE w.value # None
    BY <1>7
  <2>1. t.render \in Renders /\ t.report \in Reports
    BY <1>1, ChannelHeld DEF ChannelOperations, t
  <2>2. w.value \in {t.report, t.render}
    BY <1>6 DEF Due
  <2>3. QED BY <2>1, <2>2, PublicationAssumption
<1>17. CheckedOK(u)
  BY <1>3, <1>11, <1>15, <1>16 DEF CheckedOK
<1>18. FoundOK(u)
  BY <1>3, <1>11 DEF FoundOK
<1>19. Exact(u)
  <2> SUFFICES ASSUME t.op = "invalidate", t.alone PROVE Exact(u)
    BY <1>11 DEF Exact
  <2>1. /\ Touched(t) \ {Current} = Pointing(t.report)
        /\ Current \in Touched(t) <=> t.at = "writing" /\ row[Current] = t.report
    BY <1>1, <1>3 DEF Exact
  <2>2. t.report # None
    BY <1>3, PublicationAssumption DEF TxnOK
  <2>3. w.row \in Touched(t)
    BY <1>5, <1>14
  <2>4. row[w.row] # None
    BY <2>1, <2>2, <2>3 DEF Pointing, PointedReport
  <2>5. Touched(u) = Touched(t)
    BY <1>7, <1>15, <2>4
  <2>6. QED BY <1>11, <2>1, <2>5 DEF Exact
<1>20. QED BY <1>1, <1>2, <1>11, <1>13, <1>17, <1>18, <1>19, GoesOn DEF t

-----------------------------------------------------------------------------
(* What a commit shows: rows its transaction was due to write, and the others. *)
LEMMA WritesShow ==
  ASSUME IInv, NEW c \in Clients, Written(c), ShowWrites(c)
  PROVE  /\ Busy(txn[c]) /\ txn[c].op \in ChannelOperations \cup Removals
         /\ \A x \in Rows : row'[x] = row[x] \/ Due(txn[c], x, row'[x])
         /\ \A x \in Touched(txn[c]) \cap Rows : Due(txn[c], x, row'[x])
         /\ \A x \in Rows \ Touched(txn[c]) : row'[x] = row[x]
         /\ row' \in [Rows -> Values]
<1>1. txn[c] \in Txns /\ TxnOK(txn[c]) /\ Busy(txn[c]) /\ txn[c].todo = <<>>
  BY RunningFacts DEF Written, Busy
<1>2. txn[c].op \in ChannelOperations \cup Removals
  BY <1>1 DEF TxnOK, Txns
<1>3. Touched(txn[c]) = DOMAIN txn[c].writes
  BY <1>1 DEF Touched
<1>4. \A x \in Rows : row'[x] = IF x \in DOMAIN txn[c].writes THEN txn[c].writes[x] ELSE row[x]
  BY DEF ShowWrites, WrittenBy
<1>5. \A x \in DOMAIN txn[c].writes : Due(txn[c], x, txn[c].writes[x]) /\ txn[c].writes[x] \in Values
  <2>1. PICK D \in SUBSET Rows : txn[c].writes \in [D -> Values]
    BY <1>1 DEF Txns, WriteMaps
  <2>2. QED BY <1>1, <2>1 DEF TxnOK
<1>6. row \in [Rows -> Values]
  BY DEF IInv, Types, TypeOK, Values
<1>7. row' \in [Rows -> Values]
  BY <1>4, <1>5, <1>6 DEF ShowWrites
<1>8. /\ \A x \in Rows : row'[x] = row[x] \/ Due(txn[c], x, row'[x])
      /\ \A x \in Touched(txn[c]) \cap Rows : Due(txn[c], x, row'[x])
      /\ \A x \in Rows \ Touched(txn[c]) : row'[x] = row[x]
  BY <1>3, <1>4, <1>5
<1>9. QED BY <1>1, <1>2, <1>7, <1>8

(* Rows stay rows of their tables, and what they point to is published. *)
LEMMA CommittedRows ==
  ASSUME IInv, NEW c \in Clients, Written(c), ShowWrites(c), delivered \subseteq delivered',
         txn[c].op \in {"publish", "promote", "rollback"} => txn[c].render \in delivered'
  PROVE  /\ row' \in [Rows -> Reports \cup Renders \cup {None}]
         /\ row'[Current] \in Reports \cup {None}
         /\ \A ch \in Channels : row'[ch] # None => row'[ch] \in Renders /\ ChannelOf[row'[ch]] = ch
         /\ PointersWerePublished'
<1> DEFINE t == txn[c]
<1>1. /\ t.op \in ChannelOperations \cup Removals /\ row' \in [Rows -> Values]
      /\ \A x \in Rows : row'[x] = row[x] \/ Due(t, x, row'[x])
  BY WritesShow
<1>2. t.at = "writing"
  BY DEF Written
<1>3. t.op \in ChannelOperations => /\ t.render \in Renders /\ t.report = ReportOf[t.render]
                                    /\ t.report \in Reports /\ t.lock = ChannelOf[t.render]
                                    /\ t.lock \in Channels /\ t.lock # Current
  BY <1>2, ChannelHeld
<1>4. /\ row[Current] \in Reports \cup {None} /\ Current \in Rows /\ Channels \subseteq Rows
      /\ Current \notin Channels
      /\ \A ch \in Channels : row[ch] # None => row[ch] \in Renders /\ ChannelOf[row[ch]] = ch
  BY PublicationAssumption DEF IInv, Types, TypeOK, Rows
<1>5. t.op \in {"publish", "promote", "rollback"} \/ t.op = "unpublish" \/ t.op \in Removals
  BY <1>1 DEF ChannelOperations
<1> HIDE DEF t
<1>6. \A x \in Rows : \/ row'[x] = row[x] \/ row'[x] = None
                      \/ /\ t.op \in {"publish", "promote", "rollback"}
                         /\ \/ x = Current /\ row'[x] = t.report
                            \/ x = t.lock /\ row'[x] = t.render
  BY <1>1, <1>5 DEF Due
<1>7. \A ch \in Channels : row'[ch] # None => row'[ch] \in Renders /\ ChannelOf[row'[ch]] = ch
  BY <1>3, <1>4, <1>6 DEF ChannelOperations
<1>8. row'[Current] \in Reports \cup {None}
  BY <1>3, <1>4, <1>6 DEF ChannelOperations
<1>9. PointersWerePublished'
  <2>1. \A ch \in Channels : row[ch] # None => row[ch] \in delivered
    BY DEF IInv, PointersWerePublished
  <2>2. row[Current] # None => \E r \in delivered : ReportOf[r] = row[Current]
    BY DEF IInv, PointersWerePublished
  <2>3. t.op \in {"publish", "promote", "rollback"} => t.render \in delivered'
    BY DEF t
  <2>4. \A ch \in Channels : row'[ch] # None => row'[ch] \in delivered'
    BY <1>4, <1>6, <2>1, <2>3
  <2>5. row'[Current] # None => \E r \in delivered' : ReportOf[r] = row'[Current]
    BY <1>3, <1>4, <1>6, <2>2, <2>3 DEF ChannelOperations
  <2>6. QED BY <2>4, <2>5 DEF PointersWerePublished
<1>10. QED BY <1>1, <1>7, <1>8, <1>9 DEF Values

(* A commit takes nothing from what the other calls found: it cannot write *)
(* the channel another call holds, only clear it.                          *)
LEMMA CommitKeeps ==
  ASSUME IInv, NEW c \in Clients, Written(c), ShowWrites(c), Return(c),
         UNCHANGED <<freezes, print>>, delivered \subseteq delivered',
         TypeOK', StagesSpent', PointersWerePublished'
  PROVE  IInv'
<1>1. txn \in [Clients -> Txns] /\ txn' = [txn EXCEPT ![c] = Free]
  BY RunningFacts DEF Return
<1>2. txn' \in [Clients -> Txns] /\ txn'[c] = Free /\ \A d \in Clients \ {c} : txn'[d] = txn[d]
  BY <1>1, FreeIsIdle
<1>3. /\ Busy(txn[c]) /\ txn[c].op \in ChannelOperations \cup Removals
      /\ \A x \in Rows : row'[x] = row[x] \/ Due(txn[c], x, row'[x])
  BY WritesShow
<1>4. ASSUME NEW d \in Clients \ {c}, txn[d].at = "writing", txn[d].op \in ChannelOperations
      PROVE  row'[txn[d].lock] \in {row[txn[d].lock], None}
  <2>1. txn[d].lock \in Rows /\ txn[d].lock # Current /\ txn[d].lock # None
    BY <1>4, ChannelHeld DEF Rows
  <2>2. txn[d].lock # txn[c].lock
    BY <2>1 DEF IInv, LocksApart
  <2>3. CASE Due(txn[c], txn[d].lock, row'[txn[d].lock])
    BY <1>3, <2>1, <2>2, <2>3 DEF Due, ChannelOperations
  <2>4. QED BY <1>3, <2>1, <2>3
<1>5. TxnsOK'
  <2> SUFFICES ASSUME NEW d \in Clients
               PROVE  TxnOK(txn'[d]) /\ CheckedOK(txn'[d]) /\ FoundOK(txn[d])'
    BY DEF TxnsOK
  <2>1. CASE d = c
    <3>1. Free.at = "free" /\ Free.lock = None /\ Free.frozen = FALSE
      BY DEF Free
    <3>2. TxnOK(txn'[d]) /\ CheckedOK(txn'[d])
      BY <1>2, <2>1, FreeIsIdle
    <3>3. txn'[d].at = "free" /\ txn'[d].lock = None /\ txn'[d].frozen = FALSE
      BY <1>2, <2>1, <3>1
    <3>4. QED BY <3>2, <3>3 DEF FoundOK
  <2>2. CASE d # c
    <3>1. TxnOK(txn[d]) /\ CheckedOK(txn[d]) /\ FoundOK(txn[d]) /\ txn'[d] = txn[d]
      BY <1>2, <2>2, RunningFacts
    <3>2. txn[d].at = "writing" /\ txn[d].op \in ChannelOperations => row'[txn[d].lock] \in {txn[d].prior, None}
      BY <1>4, <2>2, <3>1 DEF FoundOK
    <3>3. QED BY <3>1, <3>2 DEF FoundOK, Frozen
  <2>3. QED BY <2>1, <2>2
<1>6. LocksApart'
  BY <1>2, FreeIsIdle DEF IInv, LocksApart
<1>7. AloneOK'
  <2> SUFFICES ASSUME NEW d \in Clients, NEW e \in Clients, d # e, Busy(txn'[d]), txn'[d].alone
               PROVE  txn'[e] = Free
    BY DEF AloneOK, Busy
  <2>1. d # c /\ Busy(txn[d]) /\ txn[d].alone
    BY <1>2, FreeIsIdle
  <2>2. QED BY <1>2, <2>1 DEF IInv, AloneOK
<1>8. ExactAlone'
  <2> SUFFICES ASSUME NEW d \in Clients PROVE Exact(txn[d])'
    BY DEF ExactAlone
  <2>1. ~(txn'[d].alone /\ txn'[d].at \in {"clearing", "writing"})
    <3>1. CASE d = c
      BY <1>2, <3>1, FreeIsIdle DEF Busy
    <3>2. CASE d # c
      BY <1>2, <1>3, <3>2, FreeIsIdle DEF IInv, AloneOK, Busy
    <3>3. QED BY <3>1, <3>2
  <2>2. QED BY <2>1 DEF Exact
<1>9. QED BY <1>2, <1>5, <1>6, <1>7, <1>8 DEF IInv, Types

LEMMA CommitPublishKeeps ==
  ASSUME IInv, NEW c \in Clients, CommitPublish(c)
  PROVE  IInv'
<1> DEFINE r == txn[c].render
<1>1. /\ txn[c].op = "publish" /\ Written(c) /\ Return(c) /\ txn[c].at = "writing" /\ Busy(txn[c])
      /\ UNCHANGED <<freezes, print, started, changes>>
  BY DEF CommitPublish, Written, Busy
<1>2. r \in Renders /\ txn[c].stage = "STAGED"
  BY <1>1, ChannelHeld, RunningFacts DEF ChannelOperations, CheckedOK
<1>3. CASE ~StageMatches(c)
  <2>1. UNCHANGED <<stage, row, delivered, publishes, superseded>>
    BY <1>3 DEF CommitPublish, history
  <2>2. QED BY <1>1, <2>1, TablesStay, ReturnKeeps
<1>4. CASE StageMatches(c)
  <2>1. /\ stage' = [stage EXCEPT ![r] = "PUBLISHED"]
        /\ ShowWrites(c)
        /\ delivered' = delivered \cup {r}
        /\ publishes' = [publishes EXCEPT ![r] = @ + 1]
        /\ Supersede(c)
    BY <1>4 DEF CommitPublish
  <2>2. stage[r] = "STAGED"
    BY <1>2, <1>4 DEF StageMatches
  <2>3. /\ stage \in [Renders -> StageStates] /\ publishes \in [Renders -> Nat]
        /\ superseded \in [Renders \cup Reports -> Nat] /\ delivered \subseteq Renders
    BY DEF IInv, Types, TypeOK
  <2>4. StagesSpent
    BY DEF IInv
  <2> HIDE DEF r
  <2>5. publishes[r] = 0
    BY <1>2, <2>2, <2>3, <2>4 DEF StagesSpent
  <2>6. /\ stage' \in [Renders -> StageStates] /\ publishes' \in [Renders -> Nat]
        /\ \A x \in Renders : x # r => stage'[x] = stage[x] /\ publishes'[x] = publishes[x]
        /\ stage'[r] = "PUBLISHED" /\ publishes'[r] = 1
    BY <1>2, <2>1, <2>3, <2>5 DEF StageStates
  <2>7. StagesSpent'
    BY <2>4, <2>6 DEF StagesSpent
  <2>8. superseded' \in [Renders \cup Reports -> Nat]
    BY <2>1, <2>3 DEF Supersede
  <2>9. txn[c].render \in delivered' /\ delivered \subseteq delivered' /\ delivered' \subseteq Renders
    BY <1>2, <2>1, <2>3 DEF r
  <2>10. TypeOK' /\ PointersWerePublished'
    BY <1>1, <2>1, <2>6, <2>8, <2>9, CommittedRows DEF IInv, Types, TypeOK
  <2>11. QED BY <1>1, <2>1, <2>7, <2>9, <2>10, CommitKeeps
<1>5. QED BY <1>3, <1>4

LEMMA CommitPromoteKeeps ==
  ASSUME IInv, NEW c \in Clients, CommitPromote(c)
  PROVE  IInv'
<1>1. /\ txn[c].op = "promote" /\ Written(c) /\ ShowWrites(c) /\ Return(c) /\ txn[c].at = "writing"
      /\ delivered' = delivered \cup {txn[c].render} /\ Supersede(c)
      /\ UNCHANGED <<stage, freezes, print, publishes, started, changes>>
  BY DEF CommitPromote, Written
<1>2. txn[c].render \in Renders
  BY <1>1, ChannelHeld DEF ChannelOperations
<1>3. superseded \in [Renders \cup Reports -> Nat] /\ delivered \subseteq Renders
  BY DEF IInv, Types, TypeOK
<1>4. superseded' \in [Renders \cup Reports -> Nat]
  BY <1>1, <1>3 DEF Supersede
<1>5. txn[c].render \in delivered' /\ delivered \subseteq delivered' /\ delivered' \subseteq Renders
  BY <1>1, <1>2, <1>3
<1>6. TypeOK' /\ PointersWerePublished'
  BY <1>1, <1>4, <1>5, CommittedRows DEF IInv, Types, TypeOK
<1>7. StagesSpent'
  BY <1>1 DEF IInv, StagesSpent
<1>8. QED BY <1>1, <1>5, <1>6, <1>7, CommitKeeps

LEMMA CommitRollbackKeeps ==
  ASSUME IInv, NEW c \in Clients, CommitRollback(c)
  PROVE  IInv'
<1>1. /\ txn[c].op = "rollback" /\ Written(c) /\ ShowWrites(c) /\ Return(c) /\ txn[c].at = "writing"
      /\ UNCHANGED <<stage, freezes, print, delivered, publishes, superseded, started, changes>>
  BY DEF CommitRollback, Written, history
<1>2. txn[c].render \in delivered
  BY <1>1, RunningFacts DEF FoundOK
<1>3. TypeOK' /\ PointersWerePublished'
  BY <1>1, <1>2, CommittedRows DEF IInv, Types, TypeOK
<1>4. StagesSpent'
  BY <1>1 DEF IInv, StagesSpent
<1>5. QED BY <1>1, <1>3, <1>4, CommitKeeps

LEMMA CommitRemovalKeeps ==
  ASSUME IInv, NEW c \in Clients, CommitRemoval(c)
  PROVE  IInv'
<1>1. /\ txn[c].op \in {"unpublish", "invalidate", "withdraw"} /\ Written(c) /\ ShowWrites(c) /\ Return(c)
      /\ UNCHANGED <<stage, freezes, print, delivered, publishes, superseded, started, changes>>
  BY DEF CommitRemoval, history
<1>2. TypeOK' /\ PointersWerePublished'
  BY <1>1, CommittedRows DEF IInv, Types, TypeOK
<1>3. StagesSpent'
  BY <1>1 DEF IInv, StagesSpent
<1>4. QED BY <1>1, <1>2, <1>3, CommitKeeps

-----------------------------------------------------------------------------
LEMMA StepKeeps == IInv /\ [Next]_vars => IInv'
<1> SUFFICES ASSUME IInv, [Next]_vars PROVE IInv'
  OBVIOUS
<1>1. ASSUME NEW r \in Renders, StageRender(r) PROVE IInv'
  BY <1>1, StageRenderKeeps
<1>2. ASSUME NEW x \in Rows, CreateFreeze(x) \/ ReleaseFreeze(x) PROVE IInv'
  BY <1>2, CreateFreezeKeeps, ReleaseFreezeKeeps
<1>3. CASE NewSnapshot
  BY <1>3, NewSnapshotKeeps
<1>4. ASSUME NEW c \in Clients, Load(c) \/ Lock(c) \/ CheckFreeze(c)
      PROVE  IInv'
  BY <1>4, LoadKeeps, LockKeeps, CheckFreezeKeeps
<1>5. ASSUME NEW c \in Clients, Check(c) PROVE IInv'
  BY <1>5, CheckPublishKeeps, CheckPromoteKeeps, CheckUnpublishKeeps, CheckRollbackKeeps DEF Check
<1>6. ASSUME NEW c \in Clients, Clear(c) PROVE IInv'
  BY <1>6, ReadWithdrawnKeeps, ListChannelsKeeps, ClearCurrentKeeps DEF Clear
<1>7. ASSUME NEW c \in Clients, Write(c) \/ Abort(c) PROVE IInv'
  BY <1>7, WriteKeeps, AbortKeeps
<1>8. ASSUME NEW c \in Clients, Commit(c) PROVE IInv'
  BY <1>8, CommitPublishKeeps, CommitPromoteKeeps, CommitRollbackKeeps, CommitRemovalKeeps DEF Commit
<1>9. CASE UNCHANGED vars
  <2>1. UNCHANGED <<row, stage, freezes, print, txn, delivered, publishes, superseded, started, changes>>
    BY <1>9 DEF vars
  <2>2. QED BY <2>1 DEF IInv, Types, TypeOK, TxnsOK, FoundOK, Frozen, LocksApart, AloneOK, ExactAlone,
                        Exact, Pointing, PointedReport, StagesSpent, PointersWerePublished
<1>10. QED BY <1>1, <1>2, <1>3, <1>4, <1>5, <1>6, <1>7, <1>8, <1>9 DEF Next

LEMMA Invariance == Spec => []IInv
BY InitOK, StepKeeps, PTL DEF Spec

(* The history shows each stage as published at most one time: two          *)
(* publishers of one stage, the loser's rollback and a later republication  *)
(* leave a single PUBLISHED record (the stage transition of publish).       *)
THEOREM PublicationsStaySingle == Spec => []PublishedOnce
<1>1. IInv => PublishedOnce
  BY DEF IInv, StagesSpent, PublishedOnce
<1>2. QED BY <1>1, Invariance, PTL

-----------------------------------------------------------------------------
(* Rows move only when a transaction commits. *)
LEMMA RowsMoveByCommit ==
  ASSUME IInv, [Next]_vars, row' # row
  PROVE  \E c \in Clients :
           /\ Commit(c) /\ Written(c) /\ ShowWrites(c) /\ Return(c)
           /\ txn[c].op \in {"publish", "promote"} => Supersede(c)
<1>1. ~UNCHANGED vars
  BY DEF vars
<1>2. \A r \in Renders : ~StageRender(r)
  BY DEF StageRender
<1>3. \A x \in Rows : ~CreateFreeze(x) /\ ~ReleaseFreeze(x)
  BY DEF CreateFreeze, ReleaseFreeze
<1>4. ~NewSnapshot
  BY DEF NewSnapshot
<1>5. \A c \in Clients : ~Load(c) /\ ~Lock(c) /\ ~CheckFreeze(c) /\ ~Write(c) /\ ~Abort(c)
  BY DEF Load, Lock, CheckFreeze, Write, Abort
<1>6. \A c \in Clients : ~Check(c) /\ ~Clear(c)
  BY DEF Check, CheckPublish, CheckPromote, CheckUnpublish, CheckRollback, Clear, ReadWithdrawn,
         ListChannels, ClearCurrent
<1>7. PICK c \in Clients : Commit(c)
  BY <1>1, <1>2, <1>3, <1>4, <1>5, <1>6 DEF Next
<1>8. CASE CommitPublish(c)
  BY <1>7, <1>8 DEF CommitPublish
<1>9. CASE CommitPromote(c)
  BY <1>7, <1>9 DEF CommitPromote
<1>10. CASE CommitRollback(c)
  BY <1>7, <1>10 DEF CommitRollback
<1>11. CASE CommitRemoval(c)
  BY <1>7, <1>11 DEF CommitRemoval
<1>12. QED BY <1>7, <1>8, <1>9, <1>10, <1>11 DEF Commit

(* Of the calls that are under way, only the one that commits ends then. *)
LEMMA OnlyOneReturns ==
  ASSUME IInv, NEW c \in Clients, NEW d \in Clients, Return(d), txn[c] # Free, txn'[c] = Free
  PROVE  c = d
BY RunningFacts DEF Return

LEMMA ReplacementIsRecorded ==
  ASSUME IInv, [Next]_vars, NEW c \in Clients, NEW ch \in Channels,
         txn[c].op \in {"publish", "promote"}, txn[c].lock = ch, txn'[c] = Free,
         row[ch] # None, row'[ch] # row[ch]
  PROVE  superseded'[row[ch]] = superseded[row[ch]] + 1
<1> DEFINE t == txn[c]
<1>1. t # Free
  BY DEF Free
<1>2. PICK d \in Clients : /\ Commit(d) /\ Written(d) /\ ShowWrites(d) /\ Return(d)
                           /\ txn[d].op \in {"publish", "promote"} => Supersede(d)
  BY RowsMoveByCommit
<1>3. d = c
  BY <1>1, <1>2, OnlyOneReturns
<1>4. t.at = "writing" /\ t.op \in ChannelOperations /\ Written(c) /\ ShowWrites(c) /\ Supersede(c)
  BY <1>2, <1>3 DEF Written, ChannelOperations
<1>5. row[ch] = t.prior
  BY <1>4, RunningFacts DEF FoundOK
<1>6. ch \in Rows /\ ch # Current /\ row[ch] \in Renders
  BY PublicationAssumption DEF IInv, Types, TypeOK, Rows
<1>7. Due(t, ch, row'[ch])
  BY <1>4, <1>6, WritesShow
<1>8. row'[ch] = t.render
  BY <1>6, <1>7 DEF Due
<1>9. row[ch] \in ReplacementRecords(c)
  BY <1>5, <1>8 DEF ReplacementRecords
<1>10. superseded \in [Renders \cup Reports -> Nat]
  BY DEF IInv, Types, TypeOK
<1>11. QED BY <1>4, <1>6, <1>9, <1>10 DEF Supersede

(* The history accounts for the pointers: a report or render in use was     *)
(* published, and publish and promote record the render they replace, in    *)
(* whatever order the calls of other channels and removals commit           *)
(* (record_pointer_replacement; it reads the pointer under the lock).       *)
THEOREM PointersStayAccounted == Spec => PointersAreAccounted
<1>1. IInv => TypeOK /\ PointersWerePublished
  BY DEF IInv, Types
<1>2. IInv /\ [Next]_vars =>
        [\A c \in Clients, ch \in Channels :
           (/\ txn[c].op \in {"publish", "promote"}
            /\ txn[c].lock = ch /\ txn'[c] = Free
            /\ row[ch] # None /\ row'[ch] # row[ch])
             => superseded'[row[ch]] = superseded[row[ch]] + 1]_vars
  BY ReplacementIsRecorded
<1>3. QED BY <1>1, <1>2, Invariance, PTL DEF Spec, PointersAreAccounted, ReplacedRendersRecorded

(* A call that took its lock under a freeze moves no pointer while that     *)
(* freeze is on: it has not passed its freeze check, and will not.          *)
THEOREM FreezesHoldCalls == Spec => FrozenAtLockStays
<1>1. ASSUME IInv, [Next]_vars, NEW c \in Clients, txn[c].op \in ChannelOperations, txn[c].frozen,
             txn'[c] = Free, row' # row
      PROVE  FALSE
  <2>1. PICK d \in Clients : Written(d) /\ Return(d)
    BY <1>1, RowsMoveByCommit
  <2>2. txn[c] # Free
    BY <1>1 DEF Free, ChannelOperations
  <2>3. d = c
    BY <1>1, <2>1, <2>2, OnlyOneReturns
  <2>4. txn[c].at = "locked"
    BY <1>1, RunningFacts DEF FoundOK
  <2>5. QED BY <2>1, <2>3, <2>4 DEF Written
<1>2. IInv /\ [Next]_vars =>
        [\A c \in Clients :
           txn[c].op \in ChannelOperations /\ txn[c].frozen /\ txn'[c] = Free => row' = row]_vars
  BY <1>1
<1>3. QED BY <1>2, Invariance, PTL DEF Spec, FrozenAtLockStays

LEMMA DeliveryIsFresh ==
  ASSUME IInv, [Next]_vars, NEW ch \in Channels, row'[ch] # row[ch], row'[ch] # None
  PROVE  \E c \in Clients :
           txn[c].lock = ch /\ txn[c].render = row'[ch] /\ PrintOf[ReportOf[row'[ch]]] \in txn[c].prints
<1>1. PICK c \in Clients : Written(c) /\ ShowWrites(c)
  BY RowsMoveByCommit
<1>2. ch \in Rows /\ ch # Current
  BY PublicationAssumption DEF Rows
<1>3. txn[c].op \in ChannelOperations \cup Removals /\ Due(txn[c], ch, row'[ch]) /\ txn[c].at = "writing"
  BY <1>1, <1>2, WritesShow DEF Written
<1>4. txn[c].op \in {"publish", "promote", "rollback"} /\ txn[c].lock = ch /\ txn[c].render = row'[ch]
  BY <1>2, <1>3 DEF Due, ChannelOperations
<1>5. txn[c].report = ReportOf[txn[c].render]
  BY <1>3, <1>4, ChannelHeld DEF ChannelOperations
<1>6. PrintOf[txn[c].report] \in txn[c].prints
  BY <1>3, <1>4, RunningFacts DEF CheckedOK
<1>7. QED BY <1>4, <1>5, <1>6

(* A render is delivered only if its report was fresh at some time while    *)
(* the call that delivered it held the channel's lock, by publish, promote  *)
(* or rollback (PrePublicationVariantFreshness).                            *)
THEOREM DeliveriesWereFresh == Spec => DeliveredWasFresh
<1>1. IInv /\ [Next]_vars =>
        [\A ch \in Channels :
           row'[ch] # row[ch] /\ row'[ch] # None =>
             \E c \in Clients :
               txn[c].lock = ch /\ txn[c].render = row'[ch]
                 /\ PrintOf[ReportOf[row'[ch]]] \in txn[c].prints]_vars
  BY DeliveryIsFresh
<1>2. QED BY <1>1, Invariance, PTL DEF Spec, DeliveredWasFresh

LEMMA AloneRemovesExactly ==
  ASSUME IInv, NEW c \in Clients, txn[c].op = "invalidate", txn[c].alone, CommitRemoval(c), NEW x \in Rows
  PROVE  row'[x] = IF ReportIn(row[x]) = txn[c].report THEN None ELSE row[x]
<1> DEFINE t == txn[c]
<1>1. Written(c) /\ ShowWrites(c) /\ t.at = "writing"
  BY DEF CommitRemoval, Written
<1>2. /\ Touched(t) \ {Current} = Pointing(t.report)
      /\ Current \in Touched(t) <=> row[Current] = t.report
  BY <1>1, RunningFacts DEF Exact
<1>3. t.report \in Reports /\ t.report # None
  BY RunningFacts, PublicationAssumption DEF TxnOK
<1>4. IF x \in Touched(t) THEN row'[x] = None ELSE row'[x] = row[x]
  BY <1>1, WritesShow DEF Due, Removals
<1>5. x \in Touched(t) <=> ReportIn(row[x]) = t.report
  <2>1. CASE x = Current
    <3>1. row[Current] \in Reports \cup {None}
      BY DEF IInv, Types, TypeOK
    <3>2. ReportIn(row[Current]) = row[Current]
      BY <3>1, PublicationAssumption DEF ReportIn
    <3>3. QED BY <1>2, <2>1, <3>2
  <2>2. CASE x # Current
    <3>1. x \in Channels /\ row[x] \in Renders \cup {None}
      BY <2>2 DEF IInv, Types, TypeOK, Rows
    <3>2. ReportIn(row[x]) = PointedReport(x)
      BY <3>1, PublicationAssumption DEF ReportIn, PointedReport
    <3>3. QED BY <1>2, <2>2, <3>1, <3>2 DEF Pointing
  <2>3. QED BY <2>1, <2>2
<1>6. QED BY <1>4, <1>5

(* An invalidation that overlaps no other call clears exactly the pointers  *)
(* of its report, on every channel (M4-027; invalidate_current lists the    *)
(* channels, and what it listed is what is there when it commits).          *)
THEOREM LoneInvalidationsAreExact == Spec => LoneInvalidationIsExact
<1>1. IInv =>
        [\A c \in Clients :
           txn[c].op = "invalidate" /\ txn[c].alone /\ CommitRemoval(c) =>
             \A x \in Rows :
               row'[x] = IF ReportIn(row[x]) = txn[c].report THEN None ELSE row[x]]_vars
  BY AloneRemovesExactly
<1>2. QED BY <1>1, Invariance, PTL DEF Spec, LoneInvalidationIsExact
=============================================================================
