----------------------------- MODULE EvaluatorRun -----------------------------
(***************************************************************************)
(* One evaluation of a submission on the hosted runner: runner.py and the  *)
(* supervisor it starts in the sandbox, _evaluator_supervisor.py.          *)
(*                                                                         *)
(* The evaluator stages the submission and the signed tests, starts the    *)
(* supervisor under a time limit, judges the completion record it finds in *)
(* the pipe and replaces the evidence file. The supervisor runs pytest with*)
(* one xdist worker, whose reports it records. The worker, the sandbox and *)
(* the evaluator may each end at any moment. pytest and xdist are modelled *)
(* from the hooks and exit codes the supervisor uses.                      *)
(***************************************************************************)
EXTENDS Integers, FiniteSets

CONSTANT Tests   \* tests of the assignment

ASSUME TestsAssumption == IsFiniteSet(Tests)

VARIABLES
  command,    \* the manifest's command, once it is read
  phase,      \* of the evaluator and its sandbox
  collected,  \* tests the worker announced
  stage,      \* [Tests -> what the worker does next]
  faulty,     \* tests of which some part did not pass
  recorder,   \* [outcomes, internal_errors, worker_crashes]
  exit,       \* pytest's exit code, supervisor_error
  record,     \* bytes in the pipe: [part : "none", "half", "whole"]
  verdict,    \* status and whether the sandbox completed
  evidence    \* file: [here : "none", "temporary", "destination"]
evaluatorVars == <<command, phase, collected, stage, faulty, recorder, exit, record, verdict, evidence>>
pytest == <<stage, faulty, recorder>>

Outcomes == {"none", "passed", "failed", "skipped"}
Phase == {"staging", "collecting", "running", "ended", "exited", "killed", "judged", "over"}

EvaluatorTypeOK ==
  /\ command \in {"unread", "python-pytest-v1", "static"} /\ phase \in Phase
  /\ collected \subseteq Tests /\ faulty \subseteq Tests
  /\ stage \in [Tests -> {"setup", "call", "teardown", "over"}]
  /\ recorder \in [outcomes : [Tests -> Outcomes], internal_errors : 0..1, worker_crashes : 0..1]
  /\ exit \in [code : {-1, 0, 1, 2, 3, 5}, supervisor_error : BOOLEAN]
  /\ record \in {"none", "half", "whole"}
  /\ verdict \in {"none", "pass", "fail", "error"}
  /\ evidence \in {"none", "temporary", "destination"}

EvaluatorInit ==
  /\ command = "unread" /\ phase = "staging"
  /\ collected = {} /\ stage = [t \in Tests |-> "setup"] /\ faulty = {}
  /\ recorder = [outcomes |-> [t \in Tests |-> "none"], internal_errors |-> 0, worker_crashes |-> 0]
  /\ exit = [code |-> -1, supervisor_error |-> FALSE]
  /\ record = "none" /\ verdict = "none" /\ evidence = "none"

-----------------------------------------------------------------------------
(* The evaluator stages, or refuses a submission outside its bounds *)

Stage ==
  /\ phase = "staging"
  /\ \/ command' = "python-pytest-v1" /\ phase' = "collecting" /\ verdict' = verdict
     \/ command' = "static" /\ phase' = "judged" /\ verdict' \in {"pass", "fail"}
     \/ command' = command /\ phase' = "over" /\ verdict' = verdict
  /\ UNCHANGED <<collected, pytest, exit, record, evidence>>

-----------------------------------------------------------------------------
(* pytest in the sandbox *)

CollectionFinished ==
  /\ phase = "collecting" /\ phase' = "running"
  /\ collected' \in {{}, Tests}
  /\ UNCHANGED <<command, pytest, exit, record, verdict, evidence>>

\* pytest_runtest_logreport: the call, a setup that did not pass, and a teardown
\* that failed decide the outcome of a test.
LogReport(t, outcome) ==
  /\ phase = "running" /\ t \in collected /\ stage[t] # "over"
  /\ \A u \in collected \ {t} : stage[u] \in {"setup", "over"}
  /\ outcome \in Outcomes \ {"none"} /\ (stage[t] = "teardown" => outcome # "skipped")
  /\ LET when == stage[t]
         decides == \/ when = "setup" /\ outcome # "passed"
                    \/ when = "call"
                    \/ when = "teardown" /\ outcome = "failed"
     IN /\ recorder' = IF decides THEN [recorder EXCEPT !.outcomes[t] = outcome] ELSE recorder
        /\ stage' = [stage EXCEPT ![t] = CASE when = "teardown" -> "over"
                                           [] when = "setup" /\ outcome = "passed" -> "call"
                                           [] OTHER -> "teardown"]
  /\ faulty' = IF outcome = "passed" THEN faulty ELSE faulty \cup {t}
  /\ UNCHANGED <<command, phase, collected, exit, record, verdict, evidence>>

Ended(code, error) ==
  /\ phase \in {"collecting", "running"} /\ phase' = "ended"
  /\ exit' = [code |-> code, supervisor_error |-> error]
  /\ UNCHANGED <<command, collected, stage, faulty, record, verdict, evidence>>

SessionFinished ==
  /\ phase = "running" /\ \A t \in collected : stage[t] = "over"
  /\ Ended(CASE collected = {} -> 5
             [] \E t \in collected : recorder.outcomes[t] = "failed" -> 1
             [] OTHER -> 0, FALSE)
  /\ UNCHANGED recorder

\* pytest_testnodedown with an error: the worker is not replaced.
WorkerDown ==
  /\ \E code \in {1, 2} : Ended(code, FALSE)
  /\ recorder' = [recorder EXCEPT !.worker_crashes = 1]

InternalError == Ended(3, FALSE) /\ recorder' = [recorder EXCEPT !.internal_errors = 1]
Interrupted == Ended(2, FALSE) /\ UNCHANGED recorder
SupervisorError == Ended(3, TRUE) /\ UNCHANGED recorder

\* _write_record may take several writes; then main returns 0.
WriteRecord ==
  /\ phase = "ended" /\ record # "whole"
  /\ record' = IF record = "none" THEN "half" ELSE "whole"
  /\ UNCHANGED <<command, phase, collected, pytest, exit, verdict, evidence>>

SupervisorReturns ==
  /\ phase = "ended" /\ record = "whole" /\ phase' = "exited"
  /\ UNCHANGED <<command, collected, pytest, exit, record, verdict, evidence>>

\* The time limit, a resource limit or the host ends the sandbox.
KillSandbox ==
  /\ phase \in {"collecting", "running", "ended"} /\ phase' = "killed"
  /\ UNCHANGED <<command, collected, pytest, exit, record, verdict, evidence>>

-----------------------------------------------------------------------------
(* The evaluator judges and stores *)

Count(outcome) == Cardinality({t \in Tests : recorder.outcomes[t] = outcome})

TestCount == Cardinality(collected)
OutcomeCount == Count("passed") + Count("failed") + Count("skipped")

\* Mutant: pytest's exit code is believed.
ExitedWithZero ==
  exit.code = 0 /\ ~exit.supervisor_error /\ recorder.internal_errors = 0 /\ TestCount > 0
AllPassed ==
  /\ exit.code = 0 /\ ~exit.supervisor_error /\ recorder.internal_errors = 0
  /\ TestCount > 0 /\ OutcomeCount = TestCount /\ Count("passed") = TestCount

InterpretRecord ==
  LET crashed == recorder.worker_crashes > 0 /\ ~exit.supervisor_error
      counted == TestCount > 0 /\ OutcomeCount <= TestCount /\ exit.code \in {0, 1}
  IN CASE crashed -> "fail"
       [] ~crashed /\ AllPassed -> "pass"
       [] ~crashed /\ ~AllPassed /\ counted -> "fail"
       [] OTHER -> "error"

\* A sandbox that was killed or did not exit with 0 is an error, whatever the pipe holds.
Judge ==
  /\ phase \in {"exited", "killed"} /\ phase' = "judged"
  /\ verdict' = IF phase = "exited" /\ record = "whole" THEN InterpretRecord ELSE "error"
  /\ UNCHANGED <<command, collected, pytest, exit, record, evidence>>

\* _write_evidence: a temporary file, then os.replace.
WriteTemporary ==
  /\ phase = "judged" /\ evidence = "none" /\ evidence' = "temporary"
  /\ UNCHANGED <<command, phase, collected, pytest, exit, record, verdict>>

ReplaceEvidence ==
  /\ phase = "judged" /\ evidence = "temporary"
  /\ evidence' = "destination" /\ phase' = "over"
  /\ UNCHANGED <<command, collected, pytest, exit, record, verdict>>

\* The runner is lost; the sandbox dies with its parent.
LoseRunner ==
  /\ phase # "over" /\ phase' = "over"
  /\ UNCHANGED <<command, collected, pytest, exit, record, verdict, evidence>>

EvaluatorNext ==
  \/ Stage \/ CollectionFinished
  \/ \E t \in Tests, outcome \in Outcomes : LogReport(t, outcome)
  \/ SessionFinished \/ WorkerDown \/ InternalError \/ Interrupted \/ SupervisorError
  \/ WriteRecord \/ SupervisorReturns \/ KillSandbox
  \/ Judge \/ WriteTemporary \/ ReplaceEvidence \/ LoseRunner
EvaluatorSpec == EvaluatorInit /\ [][EvaluatorNext]_evaluatorVars

-----------------------------------------------------------------------------
(* Properties *)

\* Evidence in its place is a judgement of the tests themselves: "pass" means that
\* every collected test was set up, run and torn down without fault, the worker
\* stayed up and the supervisor returned; "fail" means that some test is at fault,
\* did not finish, or took the worker down, never that the sandbox was killed,
\* pytest broke or nothing was collected: that is an error and is graded again.
EvidenceIsJust ==
  evidence = "destination" /\ command = "python-pytest-v1" =>
    LET sound == record = "whole" /\ ~exit.supervisor_error /\ recorder.internal_errors = 0
        finished == \A t \in collected : stage[t] = "over"
    IN /\ verdict \in {"pass", "fail", "error"}
       /\ verdict = "pass" => /\ sound /\ finished /\ recorder.worker_crashes = 0
                              /\ collected # {} /\ collected \cap faulty = {}
       /\ verdict = "fail" => /\ sound
                              /\ recorder.worker_crashes > 0 \/ collected \cap faulty # {} \/ ~finished
=============================================================================
