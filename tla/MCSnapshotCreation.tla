-------------------------- MODULE MCSnapshotCreation --------------------------
(* A small instance of SnapshotCreation for TLC. *)
EXTENDS SnapshotCreation, TLC

CONSTANTS c1, c2, agent, public

Finding(audience, flaw) ==
  [id |-> "view", value |-> "park", audience |-> audience, ready |-> TRUE, flaw |-> flaw]

Dependency(value) == [id |-> "parcel", value |-> value, audience |-> {agent}]

State(findings, dependencies) ==
  [invalid |-> FALSE, findings |-> findings, dependencies |-> dependencies]

(* A state, the same with another parcel, with the finding for one audience *)
(* only, with the parcel read by another audience, without the optional     *)
(* finding, without the required parcel, invalid, and with a finding that   *)
(* failed QA.                                                               *)
MCStates ==
  {State({Finding({agent, public}, "none")}, {Dependency("old")}),
   State({Finding({agent, public}, "none")}, {Dependency("new")}),
   State({Finding({agent}, "none")}, {Dependency("old")}),
   State({Finding({agent}, "none")}, {[Dependency("old") EXCEPT !.audience = {public}]}),
   State({}, {Dependency("old")}),
   State({Finding({agent}, "none")}, {}),
   [State({}, {Dependency("old")}) EXCEPT !.invalid = TRUE],
   State({Finding({agent}, "qa")}, {Dependency("old")})}

MCRequirements ==
  {[subject |-> "parcel", required |-> TRUE], [subject |-> "view", required |-> FALSE]}
=============================================================================
