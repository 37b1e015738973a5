---------------------------- MODULE MCEventOutbox ----------------------------
(* Small instances of EventOutbox for TLC. *)
EXTENDS EventOutbox, TLC

CONSTANTS m1, m2, w1, w2

MCSymmetry == Permutations(Workers) \cup Permutations(Messages)
=============================================================================
