------------------------ MODULE RepositoryTransition ------------------------
(***************************************************************************)
(* The finalizer that accepts Milestone 7: on eligible evidence it builds  *)
(* seven files in memory, stages them in a temporary directory and copies  *)
(* them over the repository one by one.  Its process may die between two   *)
(* copies or in the middle of one, and it may be run again.                *)
(***************************************************************************)
EXTENDS Integers, Sequences

CONSTANT MaxRuns   \* bound: how often the finalizer is started

VARIABLES
  text,      \* file -> how many transitions its text shows, -1 for a torn copy
  staged,    \* file -> the text to copy
  copied,    \* how many files are copied, or -1 when no run is copying
  runs

transitionVars == <<text, staged, copied, runs>>

(* Variant: the texts that are added to are copied before the manifest and the backlog. *)
OrderTextsFirst == <<"VERSION", "CHANGELOG", "DOC", "EVIDENCE", "BUILD", "BACKLOG", "CSV">>

(* The dictionary of staged files, in the order it is filled *)
Order == <<"BUILD", "BACKLOG", "CSV", "VERSION", "CHANGELOG", "DOC", "EVIDENCE">>

Files == {"BUILD", "BACKLOG", "CSV", "VERSION", "CHANGELOG", "DOC", "EVIDENCE"}

TransitionInit ==
  /\ text = [f \in Files |-> 0] /\ staged = [f \in Files |-> 0]
  /\ copied = -1 /\ runs = 0

(* assess: the battery was available, executed, bound to candidate and revision, and passed. *)
Assessed(evidence) ==
  /\ evidence.executed /\ evidence.bound
  /\ \A c \in DOMAIN evidence.checks : evidence.checks[c] = "PASS"

(* The manifest is at M7-027, the backlog has it blocked and M8-001 not started. *)
Ready == text["BUILD"] = 0 /\ text["BACKLOG"] = 0

(* VERSION and CHANGELOG are read and added to; the other texts are made anew. *)
Prepare(evidence) ==
  /\ copied = -1 /\ runs < MaxRuns /\ runs' = runs + 1
  /\ Assessed(evidence) /\ Ready
  /\ text["VERSION"] >= 0
  /\ staged' = [f \in Files |-> IF f \in {"VERSION", "CHANGELOG", "DOC"} THEN text[f] + 1 ELSE 1]
  /\ copied' = 0 /\ UNCHANGED text

Copy ==
  /\ copied \in 0..Len(Order) - 1
  /\ LET f == Order[copied + 1] IN
       \/ /\ text' = [text EXCEPT ![f] = staged[f]]
          /\ copied' = IF copied + 1 = Len(Order) THEN -1 ELSE copied + 1
       \/ /\ text' = [text EXCEPT ![f] = -1]      \* the process dies in the middle
          /\ copied' = -1
  /\ UNCHANGED <<staged, runs>>

Die == copied >= 0 /\ copied' = -1 /\ UNCHANGED <<text, staged, runs>>

SomeEvidence == [executed : BOOLEAN, bound : BOOLEAN, checks : [{"CLEAN_MIGRATION"} -> {"PASS", "NOT_RUN"}]]

TransitionNext == (\E evidence \in SomeEvidence : Prepare(evidence)) \/ Copy \/ Die

TransitionSpec == TransitionInit /\ [][TransitionNext]_transitionVars

-----------------------------------------------------------------------------
(* apply_repository_transition: however often it dies and is run again, no     *)
(* file shows the transition twice: the version is not bumped again and the    *)
(* changelog gets no second entry.  It does not promise that the files agree.  *)
TransitionNotRepeated == \A f \in Files : text[f] <= 1
================================================================================
