------------------------- MODULE MCRegenerationQueue -------------------------
(* Small instances of RegenerationQueue for TLC. *)
EXTENDS RegenerationQueue, TLC

CONSTANTS c1, c2, seen, other

(* The first command follows the current snapshot, the second names snapshot 2. *)
Targets == [c \in Commands |-> IF c = c1 THEN 0 ELSE 2]
Priorities == [c \in Commands |-> IF c = c1 THEN 1 ELSE 2]

(* The second snapshot changes what the variant shows. *)
Changed == <<seen, other>>

(* result_status as 0073 allows it, and as the queue service needs it. *)
MigratedStatuses == {"APPLIED", "REJECTED", "BLOCKED", "NO_OP", "CONFLICT", "FAILED"}
ServiceStatuses == {"QUEUED", "EXISTING_ACTIVE_JOB", "BLOCKED"}

Symmetry == Permutations(Callers) \cup Permutations(Workers) \cup Permutations(Jobs)
=============================================================================
