------------------------- MODULE MCKernelTransitions -------------------------
(* Small instances of KernelTransitions for TLC. *)
EXTENDS KernelTransitions, TLC

CONSTANTS k1, k2, k3, e1, e2, s1, s2

(***************************************************************************)
(* The registry's transition, and its reverse so that an entity can return *)
(* to a state it had (a duplicate could then pass the guards again).  The   *)
(* third one omits EXPECTED_STATE_MATCHES, which the registry permits: its  *)
(* compare-and-set can fail and end in CONFLICT.                            *)
(***************************************************************************)
MCRegistry ==
  [build    |-> [from |-> "BUILDING", to |-> "VALIDATING", callers |-> {"KERNEL"},
                 guards |-> <<"ENTITY_EXISTS", "EXPECTED_STATE_MATCHES", "CALLER_AUTHORIZED">>],
   rebuild  |-> [from |-> "VALIDATING", to |-> "BUILDING", callers |-> {"KERNEL"},
                 guards |-> <<"ENTITY_EXISTS", "CALLER_AUTHORIZED">>]]

MCStates == {"BUILDING", "VALIDATING"}
MCCallers == {"KERNEL", "OTHER"}
MCUnknown == {"unregistered"}

MCSymmetry == Permutations(Sessions) \cup Permutations(Keys)
=============================================================================
