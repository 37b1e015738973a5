--------------------------- MODULE MCListingActions ---------------------------
(* A small instance of ListingActions for TLC. *)
EXTENDS ListingActions, TLC

CONSTANTS listing, type

Signal == [listing |-> listing, type |-> type, status |-> "ACTIVE", freshness |-> "CURRENT",
           case |-> "INTERNAL", policy |-> "current", origin |-> "SYSTEM_SIGNAL",
           target |-> "reviewable", judgment |-> "none"]

(* One intent can be proposed; the others lack their ground. *)
SomeIntents == {Signal, [Signal EXCEPT !.target = "closed"],
                [Signal EXCEPT !.origin = "AGENT_REQUEST", !.judgment = "other"]}

Authority(from, until) ==
  [listing |-> listing, types |-> {type}, status |-> "VALID", from |-> from, until |-> until]

SomeAuthorities == {Authority(0, 1)}
SomeRollbackAuthorities == {Authority(1, 2)}

Symmetry == Permutations(Executors)
=============================================================================
