----------------------------- MODULE MCTutorPlan -----------------------------
(* A small curriculum and two study sessions, to check TutorPlan with TLC. *)
EXTENDS TutorPlan

PlanBase == [vectors |-> 3, graphs |-> 5]
PlanSupported == [vectors |-> {1, 5}, graphs |-> {5}]
Authoring(id, concepts, formats, low, high, minutes) ==
  [id |-> id, concepts |-> concepts, formats |-> formats,
   low |-> low, high |-> high, minutes |-> minutes]
PlanBlueprint == { Authoring(1, {"vectors"}, {1}, 1, 3, 30),
                   Authoring(2, {"vectors", "graphs"}, {1, 5}, 3, 6, 45),
                   Authoring(3, {"graphs"}, {5}, 5, 8, 60) }
PlanSession == { [formats |-> {1, 5}, energy |-> "low", minutes |-> 20],
                 [formats |-> {1, 5}, energy |-> "high", minutes |-> 60] }
=============================================================================
