------------------------------- MODULE MCTutor -------------------------------
(***************************************************************************)
(* Instances for TLC of the components that share no state with each other *)
(* within a step: the learner's commands and model, the plan of the next   *)
(* assignment, the curriculum and goals, the evaluator's run, the grader   *)
(* and the bundle store. A behaviour follows one of them ("part") while    *)
(* the others rest, so TLC explores the sum of their state spaces and not  *)
(* the product.                                                            *)
(***************************************************************************)
EXTENDS LearnerCommands, LearnerModel, MCTutorPlan, CurriculumStore,
        EvaluatorRun, GraderService, BundleStore

CONSTANTS h1, a1, r1
VARIABLE part

Loaded(curriculum, concepts, requires, profiles) ==
  [curriculum |-> curriculum, concepts |-> concepts, requires |-> requires, profiles |-> profiles]
StorePackage ==
  {Loaded("first", {"a", "b", "c"}, requires, {"p"}) :
     requires \in SUBSET {<<"a", "b">>, <<"b", "c">>, <<"c", "a">>}}
  \cup { Loaded("first", {"a", "b"}, {<<"a", "b">>}, {"q"}),
         Loaded("other", {"b"}, {}, {"p"}),
         Loaded("other", {"b", "c"}, {<<"b", "c">>}, {"p"}) }
StoreMatched == [statement |-> [a |-> 3, b |-> 2, c |-> 1]]
StoreRequest == [statement : {"statement"}, profile : {"p"}, focus : {{}, {"c"}}]

PartsInit ==
  /\ part \in {"commands", "learner", "plan", "store", "evaluator", "grader", "bundles"}
  /\ Init /\ LearnerInit /\ PlanInit /\ StoreInit /\ EvaluatorInit /\ GraderInit /\ BundleInit

Only(name, others) == part = name /\ UNCHANGED <<part, others>>

PartsNext ==
  \/ Only("commands", <<learnerVars, made, storeVars, evaluatorVars, graderVars, bundleVars>>) /\ Next
  \/ Only("learner", <<vars, made, storeVars, evaluatorVars, graderVars, bundleVars>>) /\ LearnerNext
  \/ Only("plan", <<vars, learnerVars, storeVars, evaluatorVars, graderVars, bundleVars>>) /\ PlanNext
  \/ Only("store", <<vars, learnerVars, made, evaluatorVars, graderVars, bundleVars>>) /\ StoreNext
  \/ Only("evaluator", <<vars, learnerVars, made, storeVars, graderVars, bundleVars>>) /\ EvaluatorNext
  \/ Only("grader", <<vars, learnerVars, made, storeVars, evaluatorVars, bundleVars>>) /\ GraderNext
  \/ Only("bundles", <<vars, learnerVars, made, storeVars, evaluatorVars, graderVars>>) /\ BundleNext

PartsSpec ==
  PartsInit /\ [][PartsNext]_<<part, vars, learnerVars, made, storeVars, evaluatorVars, graderVars, bundleVars>>

\* Every variable of the part that moves has its type.
PartsTypeOK ==
  /\ part = "commands" => TypeOK
  /\ part = "learner" => LearnerTypeOK
  /\ part = "plan" => PlanTypeOK
  /\ part = "store" => StoreTypeOK
  /\ part = "evaluator" => EvaluatorTypeOK
  /\ part = "grader" => GraderTypeOK
  /\ part = "bundles" => BundleTypeOK
=============================================================================
