---------------------- MODULE PresentationCertification ----------------------
(***************************************************************************)
(* The M8-033 certification run: the layers A to I read the repository one *)
(* after another, while it may be edited, and J adjudicates.  A fixture    *)
(* package is a name; what the layers ask of it is in FixtureFacts.        *)
(***************************************************************************)
EXTENDS Integers, FiniteSets

CONSTANTS
  FixtureFacts,      \* package -> what it covers: a subset of FixtureNeeds
  FrozenFixtures,    \* the package of the frozen source commit
  MaxEdits           \* bound: edits of the repository

VARIABLES
  tree,              \* the repository: [drifted, records, fixtures, policies, surfaces, visual]
  run,               \* the run: [phase, set, passed, certified]
  edits

certificationVars == <<tree, run, edits>>

FixtureNeeds == {"sixteen", "projections", "canaries", "replays", "rendered", "viewports", "semantics"}

Clean == [drifted |-> FALSE, records |-> TRUE, fixtures |-> FrozenFixtures,
          policies |-> "isolating", surfaces |-> TRUE, visual |-> FrozenFixtures]

NoRun == [phase |-> "idle", set |-> FrozenFixtures, first |-> FrozenFixtures, passed |-> {},
          verdict |-> "none", read |-> {}, began |-> 0, loaded |-> 0]

CertificationInit == tree = Clean /\ run = NoRun /\ edits = 0

(* Someone edits the checkout; a package or an approved visual baseline is replaced. *)
EditTree ==
  /\ edits < MaxEdits /\ edits' = edits + 1
  /\ \/ \E b \in BOOLEAN : tree' = [tree EXCEPT !.drifted = b]
     \/ \E b \in BOOLEAN : tree' = [tree EXCEPT !.records = b]
     \/ \E b \in BOOLEAN : tree' = [tree EXCEPT !.surfaces = b]
     \/ \E f \in DOMAIN FixtureFacts : tree' = [tree EXCEPT !.fixtures = f]
     \/ \E f \in DOMAIN FixtureFacts : tree' = [tree EXCEPT !.visual = f]
     \/ \E p \in {"isolating", "leaking", "withholding"} : tree' = [tree EXCEPT !.policies = p]
  /\ UNCHANGED run

-----------------------------------------------------------------------------
(* _source_hashes against the frozen commit: the fixture package and the visual *)
(* baseline are among its paths, the policies and route registries are not.     *)
HashSources ==
  /\ run.phase \in {"idle", "done"}
  /\ ~tree.drifted /\ tree.fixtures = FrozenFixtures /\ tree.visual = FrozenFixtures
  /\ run' = [NoRun EXCEPT !.phase = "load", !.began = edits]
  /\ UNCHANGED <<tree, edits>>

LoadFixtures ==
  /\ run.phase = "load"
  /\ run' = [run EXCEPT !.phase = "A", !.set = tree.fixtures, !.loaded = edits]
  /\ UNCHANGED <<tree, edits>>

Covers(need) == need \in FixtureFacts[run.set]

(* A layer leaves a record whether it passes or not; `read` is a history variable: *)
(* the packages, loaded or named by the visual baseline, that the layer looked at. *)
Layer(key, next, passes, packages) ==
  /\ run.phase = key
  /\ run' = [run EXCEPT !.phase = next, !.read = @ \cup packages,
                        !.passed = IF passes THEN @ \cup {key} ELSE @]
  /\ UNCHANGED <<tree, edits>>

(* A run that fails A or B is adjudicated at once. *)
LayerA ==
  LET passes == tree.records /\ Covers("sixteen") IN Layer("A", IF passes THEN "first" ELSE "J", passes, {})

(* _layer_b compares two loads of the package with each other, not with the run's. *)
LayerBFirst ==
  /\ run.phase = "first"
  /\ run' = [run EXCEPT !.phase = "B", !.first = tree.fixtures]
  /\ UNCHANGED <<tree, edits>>
LayerB ==
  LET passes == tree.fixtures = run.first IN Layer("B", IF passes THEN "C" ELSE "J", passes, {})

(* _audience_layer loads the policies again for each audience. *)
Allowed == tree.policies # "withholding" /\ Covers("projections")
LayerC == Layer("C", "D", Allowed, {})
LayerD == Layer("D", "E", Allowed, {})
LayerE == Layer("E", "F", Allowed, {})

LayerF == Layer("F", "G", tree.policies # "leaking" /\ Covers("canaries"), {})
LayerG == Layer("G", "H", Covers("replays") /\ tree.fixtures = run.set, {tree.fixtures})
LayerH == Layer("H", "I", tree.surfaces /\ Covers("rendered"), {})
LayerI == Layer("I", "J", tree.fixtures = run.set /\ tree.visual = run.set, {tree.fixtures, tree.visual})

-----------------------------------------------------------------------------
Passed(keys) == keys \subseteq run.passed

(* Variant: gate I takes the word of layer I for the visual baseline. *)
StageGatesByLayer ==
  [A |-> Passed({"A"}),           B |-> Passed({"C", "D", "E"}), C |-> Passed({"C", "D", "E"}),
   D |-> Passed({"F"}),           E |-> Passed({"H"}),           F |-> Covers("viewports"),
   G |-> Covers("semantics"),     H |-> Covers("rendered"),
   I |-> Passed({"I"}),
   J |-> Passed({"G", "H"}),      K |-> Passed({"B", "H"}),
   L |-> Passed({"A", "B", "C", "D", "E", "F", "G", "H", "I"})]

(* _stage_gates: the visual baseline is loaded a second time. *)
StageGates ==
  [A |-> Passed({"A"}),           B |-> Passed({"C", "D", "E"}), C |-> Passed({"C", "D", "E"}),
   D |-> Passed({"F"}),           E |-> Passed({"H"}),           F |-> Covers("viewports"),
   G |-> Covers("semantics"),     H |-> Covers("rendered"),
   I |-> Passed({"I"}) /\ tree.visual = run.set,
   J |-> Passed({"G", "H"}),      K |-> Passed({"B", "H"}),
   L |-> Passed({"A", "B", "C", "D", "E", "F", "G", "H", "I"})]

(* _acceptance_criteria, the twelve of the manifest *)
AcceptanceCriteria ==
  LET audiences == Passed({"C", "D", "E"})
  IN <<audiences, Passed({"F"}), StageGates.E, StageGates.C, audiences, StageGates.H, Passed({"G"}),
       Passed({"H"}), StageGates.G, StageGates.I, Passed({"I"}), \A g \in DOMAIN StageGates : StageGates[g]>>

(* _adjudicate: the list of defects names failures only, and adds nothing to the verdict. *)
Adjudicate ==
  /\ run.phase = "J"
  /\ run' = [run EXCEPT !.phase = "done", !.read = @ \cup {tree.visual},
       !.verdict = IF /\ Passed({"A", "B", "C", "D", "E", "F", "G", "H", "I"})
                      /\ \A g \in DOMAIN StageGates : StageGates[g]
                      /\ \A c \in DOMAIN AcceptanceCriteria : AcceptanceCriteria[c]
                   THEN "PASS / GO" ELSE "FAIL / NO-GO"]
  /\ UNCHANGED <<tree, edits>>

CertificationNext ==
  \/ EditTree
  \/ HashSources \/ LoadFixtures
  \/ LayerA \/ LayerBFirst \/ LayerB \/ LayerC \/ LayerD \/ LayerE
  \/ LayerF \/ LayerG \/ LayerH \/ LayerI
  \/ Adjudicate

CertificationSpec == CertificationInit /\ [][CertificationNext]_certificationVars

-----------------------------------------------------------------------------
Sound ==
  /\ tree.records /\ tree.surfaces /\ tree.policies = "isolating"
  /\ FixtureNeeds \subseteq FixtureFacts[tree.fixtures]

(* M8033CertificationRunner.run: although the checkout may change between any *)
(* two layers, a GO is for one fixture package, the one that was loaded, that *)
(* is replayed in G and I and that both reads of the visual baseline approve, *)
(* and it is the frozen one unless it was replaced between the hashing and    *)
(* the loading; and a run that nobody disturbed is a GO exactly if the        *)
(* checkout is sound.                                                         *)
GoIsOfOneFixtureSet ==
  run.phase = "done" =>
    /\ run.verdict = "PASS / GO" =>
         /\ run.read = {run.set} /\ FixtureNeeds \subseteq FixtureFacts[run.set]
         /\ run.loaded = run.began => run.set = FrozenFixtures
    /\ run.began = edits => (run.verdict = "PASS / GO" <=> Sound)
=============================================================================
