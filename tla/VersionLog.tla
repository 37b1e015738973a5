----------------------------- MODULE VersionLog -----------------------------
(***************************************************************************)
(* What report and render versions promise: for every key an append-only   *)
(* log of inputs, numbered from one without a gap, where no input appears  *)
(* twice.  Versions are never rewritten, renumbered or withdrawn.          *)
(***************************************************************************)
EXTENDS Sequences, Naturals

CONSTANTS Keys, Inputs

VARIABLE log

Holds(key, input) == \E n \in DOMAIN log[key] : log[key][n] = input

Init == log = [key \in Keys |-> <<>>]

Add(key, input) ==
  /\ ~ Holds(key, input)
  /\ log' = [log EXCEPT ![key] = Append(@, input)]

Next == \E key \in Keys, input \in Inputs : Add(key, input)

Spec == Init /\ [][Next]_log
=============================================================================
