---------------------------- MODULE EvaluationProofs ----------------------------
(***************************************************************************)
(* TLAPS proofs about the two isolated services that judge a submission,   *)
(* EvaluatorRun for every finite set of tests and GraderService for any    *)
(* invocations and any limits, and about the keys and bundles that stand   *)
(* behind the evaluator: BundleStore, for two processes with any failures  *)
(* and for any processes with one.                                         *)
(***************************************************************************)
EXTENDS EvaluatorRun, GraderService, BundleStore, FiniteSetTheorems, TLAPS

-----------------------------------------------------------------------------
(* The evaluator: what its invariant says *)

(* What the recorder's outcome of a test says of its reports.              *)
ReportsTell ==
  \A t \in Tests :
    /\ recorder.outcomes[t] # "none" => t \in collected
    /\ stage[t] \in {"setup", "call"} => recorder.outcomes[t] = "none" /\ t \notin faulty
    /\ stage[t] \in {"teardown", "over"} => (recorder.outcomes[t] = "passed" <=> t \notin faulty)

(* Before pytest ends nothing tells of its end.                            *)
NotEnded ==
  /\ phase \in {"staging", "collecting"} => collected = {}
  /\ phase \in {"staging", "collecting", "running"} =>
       /\ exit = [code |-> -1, supervisor_error |-> FALSE]
       /\ recorder.internal_errors = 0 /\ recorder.worker_crashes = 0
       /\ record = "none"

(* What pytest's exit code says of the recorder.                           *)
ExitTells ==
  /\ exit.supervisor_error => exit.code = 3
  /\ recorder.internal_errors # 0 => exit.code = 3
  /\ recorder.worker_crashes # 0 => exit.code \in {1, 2}
  /\ exit.code = 0 => \A t \in collected : stage[t] = "over"
  /\ exit.code = 1 => \/ recorder.worker_crashes # 0
                      \/ \E t \in collected : recorder.outcomes[t] = "failed"

RecordIsSound == record = "whole" /\ ~exit.supervisor_error /\ recorder.internal_errors = 0
Finished == \A t \in collected : stage[t] = "over"
PassIsJust ==
  /\ RecordIsSound /\ Finished /\ recorder.worker_crashes = 0
  /\ collected # {} /\ collected \cap faulty = {}
FailIsJust == RecordIsSound /\ (recorder.worker_crashes > 0 \/ collected \cap faulty # {} \/ ~Finished)

(* A verdict comes with its reasons, and those no longer change.           *)
VerdictIsJust ==
  /\ verdict # "none" => phase \in {"judged", "over"}
  /\ phase = "judged" => verdict # "none"
  /\ evidence # "none" => verdict # "none"
  /\ command = "python-pytest-v1" /\ verdict = "pass" => PassIsJust
  /\ command = "python-pytest-v1" /\ verdict = "fail" => FailIsJust

EvaluatorInv ==
  /\ EvaluatorTypeOK
  /\ ReportsTell
  /\ NotEnded
  /\ ExitTells
  /\ VerdictIsJust

-----------------------------------------------------------------------------
(* Counting outcomes *)

LEMMA OutcomesAreCounted ==
  ASSUME EvaluatorTypeOK, NEW outcome
  PROVE  /\ Count(outcome) \in Nat
         /\ {t \in Tests : recorder.outcomes[t] = outcome} = {} => Count(outcome) = 0
<1>1. {t \in Tests : recorder.outcomes[t] = outcome} \in SUBSET Tests
  OBVIOUS
<1>2. IsFiniteSet({t \in Tests : recorder.outcomes[t] = outcome})
  BY <1>1, TestsAssumption, FS_Subset
<1> QED
  BY <1>2, FS_CardinalityType, FS_EmptySet DEF Count

LEMMA CollectedIsFinite ==
  ASSUME EvaluatorTypeOK
  PROVE  /\ IsFiniteSet(collected) /\ TestCount \in Nat
         /\ TestCount > 0 <=> collected # {}
<1>1. IsFiniteSet(collected)
  BY TestsAssumption, FS_Subset DEF EvaluatorTypeOK
<1>2. TestCount \in Nat
  BY <1>1, FS_CardinalityType DEF TestCount
<1> QED
  BY <1>1, <1>2, FS_EmptySet DEF TestCount

(* As many passed as were collected: each of them did.                     *)
LEMMA AllPassedEach ==
  ASSUME EvaluatorTypeOK, ReportsTell, AllPassed
  PROVE  \A t \in collected : recorder.outcomes[t] = "passed"
<1> DEFINE passed == {t \in Tests : recorder.outcomes[t] = "passed"}
<1>1. passed \in SUBSET collected
  BY DEF ReportsTell
<1>2. Cardinality(collected) = Cardinality(passed)
  BY DEF AllPassed, Count, TestCount
<1>3. collected = passed
  BY <1>1, <1>2, CollectedIsFinite, FS_Subset
<1> QED
  BY <1>3

(* No test is at fault and none is unfinished: all count as passed.        *)
LEMMA NoFaultAllPassed ==
  ASSUME EvaluatorTypeOK, ReportsTell, ExitTells, Finished,
         collected \cap faulty = {}, recorder.worker_crashes = 0,
         exit.code \in {0, 1}, TestCount > 0
  PROVE  AllPassed
<1>1. collected \subseteq Tests
  BY DEF EvaluatorTypeOK
<1>2. \A t \in collected : recorder.outcomes[t] = "passed"
  BY <1>1 DEF ReportsTell, Finished
<1>3. \A t \in Tests : t \notin collected => recorder.outcomes[t] = "none"
  BY DEF ReportsTell
<1>4. collected = {t \in Tests : recorder.outcomes[t] = "passed"}
  BY <1>1, <1>2, <1>3
<1>5. /\ {t \in Tests : recorder.outcomes[t] = "failed"} = {}
      /\ {t \in Tests : recorder.outcomes[t] = "skipped"} = {}
  BY <1>2, <1>3
<1>6. Count("passed") = TestCount /\ TestCount \in Nat
  BY <1>4, CollectedIsFinite DEF Count, TestCount
<1>7. Count("failed") = 0 /\ Count("skipped") = 0
  BY <1>5, OutcomesAreCounted
<1>8. OutcomeCount = TestCount
  BY <1>6, <1>7 DEF OutcomeCount
<1>9. exit.code = 0
  BY <1>2 DEF ExitTells
<1>10. ~exit.supervisor_error /\ recorder.internal_errors = 0
  BY <1>9 DEF ExitTells
<1> QED
  BY <1>6, <1>8, <1>9, <1>10 DEF AllPassed

-----------------------------------------------------------------------------
(* The invariant *)

LEMMA EvaluatorInvInit == EvaluatorInit => EvaluatorInv
<1> SUFFICES ASSUME EvaluatorInit PROVE EvaluatorInv
  OBVIOUS
<1>1. EvaluatorTypeOK
  BY DEF EvaluatorInit, EvaluatorTypeOK, Phase, Outcomes
<1>2. ReportsTell /\ NotEnded /\ ExitTells /\ VerdictIsJust
  BY DEF EvaluatorInit, ReportsTell, NotEnded, ExitTells, VerdictIsJust
<1> QED
  BY <1>1, <1>2 DEF EvaluatorInv

(* Steps that leave the reports and the exit as they are.                  *)
LEMMA ReportsKept ==
  ASSUME ReportsTell, ExitTells, UNCHANGED <<collected, pytest, exit>>
  PROVE  ReportsTell' /\ ExitTells'
BY DEF ReportsTell, ExitTells, pytest

(* Steps before the verdict: none is there, and no evidence.               *)
LEMMA VerdictPending ==
  ASSUME VerdictIsJust, phase \notin {"judged", "over"}, phase' # "judged",
         UNCHANGED <<verdict, evidence>>
  PROVE  VerdictIsJust'
BY DEF VerdictIsJust

LEMMA StageStep ==
  ASSUME EvaluatorInv, Stage
  PROVE  EvaluatorInv'
<1>1. EvaluatorTypeOK'
  BY DEF EvaluatorInv, Stage, EvaluatorTypeOK, Phase, pytest
<1>2. ReportsTell' /\ ExitTells'
  BY ReportsKept DEF EvaluatorInv, Stage
<1>3. NotEnded'
  BY DEF EvaluatorInv, Stage, NotEnded, pytest
<1>4. VerdictIsJust'
  BY DEF EvaluatorInv, Stage, VerdictIsJust
<1> QED
  BY <1>1, <1>2, <1>3, <1>4 DEF EvaluatorInv

LEMMA CollectionStep ==
  ASSUME EvaluatorInv, CollectionFinished
  PROVE  EvaluatorInv'
<1>1. EvaluatorTypeOK'
  BY DEF EvaluatorInv, CollectionFinished, EvaluatorTypeOK, Phase, pytest
<1>2. collected = {} /\ exit.code = -1 /\ ~exit.supervisor_error
      /\ recorder.internal_errors = 0 /\ recorder.worker_crashes = 0
  BY DEF EvaluatorInv, CollectionFinished, NotEnded
<1>3. ReportsTell'
  BY <1>2 DEF EvaluatorInv, CollectionFinished, ReportsTell, pytest
<1>4. ExitTells'
  BY <1>2 DEF CollectionFinished, ExitTells, pytest
<1>5. NotEnded'
  BY DEF EvaluatorInv, CollectionFinished, NotEnded, pytest
<1>6. VerdictIsJust'
  BY VerdictPending DEF EvaluatorInv, CollectionFinished
<1> QED
  BY <1>1, <1>3, <1>4, <1>5, <1>6 DEF EvaluatorInv

LEMMA ReportStep ==
  ASSUME EvaluatorInv, NEW t \in Tests, NEW outcome \in Outcomes, LogReport(t, outcome)
  PROVE  EvaluatorInv'
<1> DEFINE decides == \/ stage[t] = "setup" /\ outcome # "passed"
                      \/ stage[t] = "call"
                      \/ stage[t] = "teardown" /\ outcome = "failed"
<1>1. /\ t \in collected /\ outcome \in {"passed", "failed", "skipped"}
      /\ stage[t] \in {"setup", "call", "teardown"} /\ phase = "running"
      /\ stage[t] = "teardown" => outcome # "skipped"
  BY DEF EvaluatorInv, EvaluatorTypeOK, LogReport, Outcomes
<1>2. /\ recorder.outcomes \in [Tests -> Outcomes]
      /\ recorder = [outcomes |-> recorder.outcomes, internal_errors |-> recorder.internal_errors,
                     worker_crashes |-> recorder.worker_crashes]
      /\ stage \in [Tests -> {"setup", "call", "teardown", "over"}]
  BY DEF EvaluatorInv, EvaluatorTypeOK
<1>3. /\ recorder'.internal_errors = recorder.internal_errors
      /\ recorder'.worker_crashes = recorder.worker_crashes
      /\ recorder'.outcomes = IF decides THEN [recorder.outcomes EXCEPT ![t] = outcome]
                                         ELSE recorder.outcomes
  BY <1>2 DEF LogReport
<1>4. recorder' \in [outcomes : [Tests -> Outcomes], internal_errors : 0..1, worker_crashes : 0..1]
  <2>1. CASE decides
    BY <1>2, <2>1 DEF EvaluatorInv, EvaluatorTypeOK, LogReport
  <2>2. CASE ~decides
    BY <2>2 DEF EvaluatorInv, EvaluatorTypeOK, LogReport
  <2> QED
    BY <2>1, <2>2
<1>5. stage' = [stage EXCEPT ![t] = IF stage[t] = "teardown" THEN "over"
                                    ELSE IF stage[t] = "setup" /\ outcome = "passed" THEN "call"
                                    ELSE "teardown"]
  BY <1>1 DEF LogReport
<1>6. /\ faulty' = IF outcome = "passed" THEN faulty ELSE faulty \cup {t}
      /\ UNCHANGED <<command, phase, collected, exit, record, verdict, evidence>>
  BY DEF LogReport
<1> HIDE DEF decides
<1>7. EvaluatorTypeOK'
  BY <1>2, <1>4, <1>5, <1>6 DEF EvaluatorInv, EvaluatorTypeOK
<1>8. ReportsTell'
  <2> SUFFICES ASSUME NEW u \in Tests
               PROVE  /\ recorder'.outcomes[u] # "none" => u \in collected'
                      /\ stage'[u] \in {"setup", "call"} =>
                           recorder'.outcomes[u] = "none" /\ u \notin faulty'
                      /\ stage'[u] \in {"teardown", "over"} =>
                           (recorder'.outcomes[u] = "passed" <=> u \notin faulty')
    BY DEF ReportsTell
  <2>1. CASE u # t
    BY <1>2, <1>3, <1>5, <1>6, <2>1 DEF EvaluatorInv, ReportsTell
  <2>2. CASE u = t
    BY <1>1, <1>2, <1>3, <1>5, <1>6, <2>2 DEF EvaluatorInv, ReportsTell, decides
  <2> QED
    BY <2>1, <2>2
<1>9. /\ exit.code = -1 /\ ~exit.supervisor_error
      /\ recorder.internal_errors = 0 /\ recorder.worker_crashes = 0
  BY <1>1 DEF EvaluatorInv, NotEnded
<1>10. ExitTells'
  BY <1>3, <1>6, <1>9 DEF ExitTells
<1>11. NotEnded'
  BY <1>1, <1>3, <1>6 DEF EvaluatorInv, NotEnded
<1>12. VerdictIsJust'
  BY <1>1, <1>6, VerdictPending DEF EvaluatorInv
<1> QED
  BY <1>7, <1>8, <1>10, <1>11, <1>12 DEF EvaluatorInv

(* The ways pytest ends: the parts of the invariant they share.            *)
LEMMA EndedParts ==
  ASSUME EvaluatorInv, NEW code \in {0, 1, 2, 3, 5}, NEW error \in BOOLEAN, Ended(code, error),
         recorder' \in [outcomes : [Tests -> Outcomes], internal_errors : 0..1,
                        worker_crashes : 0..1],
         recorder'.outcomes = recorder.outcomes
  PROVE  /\ EvaluatorTypeOK' /\ ReportsTell' /\ NotEnded' /\ VerdictIsJust'
         /\ exit' = [code |-> code, supervisor_error |-> error]
         /\ recorder.internal_errors = 0 /\ recorder.worker_crashes = 0
<1>1. EvaluatorTypeOK'
  BY DEF EvaluatorInv, Ended, EvaluatorTypeOK, Phase
<1>2. ReportsTell'
  BY DEF EvaluatorInv, Ended, ReportsTell
<1>3. NotEnded' /\ exit' = [code |-> code, supervisor_error |-> error]
  BY DEF Ended, NotEnded
<1>4. recorder.internal_errors = 0 /\ recorder.worker_crashes = 0
  BY DEF EvaluatorInv, Ended, NotEnded
<1>5. VerdictIsJust'
  BY VerdictPending DEF EvaluatorInv, Ended
<1> QED
  BY <1>1, <1>2, <1>3, <1>4, <1>5

LEMMA SessionStep ==
  ASSUME EvaluatorInv, SessionFinished
  PROVE  EvaluatorInv'
<1> DEFINE code == CASE collected = {} -> 5
                     [] \E t \in collected : recorder.outcomes[t] = "failed" -> 1
                     [] OTHER -> 0
<1>1. /\ Ended(code, FALSE) /\ UNCHANGED recorder
      /\ \A t \in collected : stage[t] = "over"
  BY DEF SessionFinished
<1>2. /\ code \in {0, 1, 5}
      /\ code = 1 => \E t \in collected : recorder.outcomes[t] = "failed"
  <2>1. CASE collected = {}
    <3>1. ~\E t \in collected : recorder.outcomes[t] = "failed"
      BY <2>1
    <3>2. code = 5
      BY <2>1, <3>1
    <3> QED
      BY <3>2
  <2>2. CASE \E t \in collected : recorder.outcomes[t] = "failed"
    <3>1. collected # {}
      BY <2>2
    <3>2. code = 1
      BY <2>2, <3>1
    <3> QED
      BY <2>2, <3>2
  <2>3. CASE collected # {} /\ ~\E t \in collected : recorder.outcomes[t] = "failed"
    <3>1. code = 0
      BY <2>3
    <3> QED
      BY <3>1
  <2> QED
    BY <2>1, <2>2, <2>3
<1> HIDE DEF code
<1>3. /\ EvaluatorTypeOK' /\ ReportsTell' /\ NotEnded' /\ VerdictIsJust'
      /\ exit' = [code |-> code, supervisor_error |-> FALSE]
      /\ recorder.internal_errors = 0 /\ recorder.worker_crashes = 0
  BY <1>1, <1>2, EndedParts DEF EvaluatorInv, EvaluatorTypeOK
<1>4. ExitTells'
  BY <1>1, <1>2, <1>3 DEF Ended, ExitTells
<1> QED
  BY <1>3, <1>4 DEF EvaluatorInv

LEMMA WorkerDownStep ==
  ASSUME EvaluatorInv, WorkerDown
  PROVE  EvaluatorInv'
<1>1. PICK code \in {1, 2} : Ended(code, FALSE)
  BY DEF WorkerDown
<1>2. /\ recorder' = [recorder EXCEPT !.worker_crashes = 1]
      /\ recorder' \in [outcomes : [Tests -> Outcomes], internal_errors : 0..1,
                        worker_crashes : 0..1]
      /\ recorder'.outcomes = recorder.outcomes
      /\ recorder'.internal_errors = recorder.internal_errors
      /\ recorder'.worker_crashes = 1
  BY DEF EvaluatorInv, EvaluatorTypeOK, WorkerDown
<1>3. /\ EvaluatorTypeOK' /\ ReportsTell' /\ NotEnded' /\ VerdictIsJust'
      /\ exit' = [code |-> code, supervisor_error |-> FALSE]
      /\ recorder.internal_errors = 0 /\ recorder.worker_crashes = 0
  BY <1>1, <1>2, EndedParts
<1>4. ExitTells'
  BY <1>2, <1>3 DEF ExitTells
<1> QED
  BY <1>3, <1>4 DEF EvaluatorInv

LEMMA InternalErrorStep ==
  ASSUME EvaluatorInv, InternalError
  PROVE  EvaluatorInv'
<1>1. Ended(3, FALSE)
  BY DEF InternalError
<1>2. /\ recorder' \in [outcomes : [Tests -> Outcomes], internal_errors : 0..1,
                        worker_crashes : 0..1]
      /\ recorder'.outcomes = recorder.outcomes
      /\ recorder'.worker_crashes = recorder.worker_crashes
  BY DEF EvaluatorInv, EvaluatorTypeOK, InternalError
<1>3. /\ EvaluatorTypeOK' /\ ReportsTell' /\ NotEnded' /\ VerdictIsJust'
      /\ exit' = [code |-> 3, supervisor_error |-> FALSE]
      /\ recorder.internal_errors = 0 /\ recorder.worker_crashes = 0
  BY <1>1, <1>2, EndedParts
<1>4. ExitTells'
  BY <1>2, <1>3 DEF ExitTells
<1> QED
  BY <1>3, <1>4 DEF EvaluatorInv

LEMMA OtherEndStep ==
  ASSUME EvaluatorInv, Interrupted \/ SupervisorError
  PROVE  EvaluatorInv'
<1>1. PICK code \in {2, 3}, error \in BOOLEAN :
        Ended(code, error) /\ UNCHANGED recorder /\ (error => code = 3)
  BY DEF Interrupted, SupervisorError
<1>2. /\ EvaluatorTypeOK' /\ ReportsTell' /\ NotEnded' /\ VerdictIsJust'
      /\ exit' = [code |-> code, supervisor_error |-> error]
      /\ recorder.internal_errors = 0 /\ recorder.worker_crashes = 0
  BY <1>1, EndedParts DEF EvaluatorInv, EvaluatorTypeOK
<1>3. ExitTells'
  BY <1>1, <1>2 DEF ExitTells
<1> QED
  BY <1>2, <1>3 DEF EvaluatorInv

(* The record is written, the supervisor returns or the sandbox is killed. *)
LEMMA SandboxStep ==
  ASSUME EvaluatorInv, WriteRecord \/ SupervisorReturns \/ KillSandbox
  PROVE  EvaluatorInv'
<1>1. UNCHANGED <<command, collected, pytest, exit, verdict, evidence>>
  BY DEF WriteRecord, SupervisorReturns, KillSandbox
<1>2. /\ phase \in {"collecting", "running", "ended"}
      /\ phase' \in {"ended", "exited", "killed"}
      /\ record' \in {"none", "half", "whole"}
  BY DEF EvaluatorInv, EvaluatorTypeOK, WriteRecord, SupervisorReturns, KillSandbox
<1>3. EvaluatorTypeOK'
  BY <1>1, <1>2 DEF EvaluatorInv, EvaluatorTypeOK, Phase, pytest
<1>4. ReportsTell' /\ ExitTells'
  BY <1>1, ReportsKept DEF EvaluatorInv
<1>5. NotEnded'
  BY <1>2 DEF NotEnded
<1>6. VerdictIsJust'
  BY <1>1, <1>2, VerdictPending DEF EvaluatorInv
<1> QED
  BY <1>3, <1>4, <1>5, <1>6 DEF EvaluatorInv

LEMMA JudgeStep ==
  ASSUME EvaluatorInv, Judge
  PROVE  EvaluatorInv'
<1>1. /\ phase' = "judged" /\ verdict' \in {"pass", "fail", "error"}
      /\ UNCHANGED <<command, collected, pytest, exit, record, evidence>>
  BY DEF Judge, InterpretRecord
<1>2. EvaluatorTypeOK'
  BY <1>1 DEF EvaluatorInv, EvaluatorTypeOK, Phase, pytest
<1>3. ReportsTell' /\ ExitTells'
  BY <1>1, ReportsKept DEF EvaluatorInv
<1>4. NotEnded'
  BY <1>1 DEF NotEnded
<1>5. verdict' = "pass" => PassIsJust
  <2> SUFFICES ASSUME verdict' = "pass" PROVE PassIsJust
    OBVIOUS
  <2>1. record = "whole" /\ InterpretRecord = "pass"
    BY DEF Judge
  <2>2. AllPassed /\ ~(recorder.worker_crashes > 0 /\ ~exit.supervisor_error)
    BY <2>1 DEF InterpretRecord
  <2>3. RecordIsSound /\ Finished
    BY <2>1, <2>2 DEF EvaluatorInv, AllPassed, ExitTells, RecordIsSound, Finished
  <2>4. recorder.worker_crashes = 0
    BY <2>2 DEF EvaluatorInv, EvaluatorTypeOK, AllPassed
  <2>5. collected # {}
    BY <2>2, CollectedIsFinite DEF EvaluatorInv, AllPassed
  <2>6. \A t \in collected : t \in Tests /\ recorder.outcomes[t] = "passed"
    BY <2>2, AllPassedEach DEF EvaluatorInv, EvaluatorTypeOK
  <2>7. collected \cap faulty = {}
    BY <2>3, <2>6 DEF EvaluatorInv, ReportsTell, Finished
  <2> QED
    BY <2>3, <2>4, <2>5, <2>7 DEF PassIsJust
<1>6. verdict' = "fail" => FailIsJust
  <2> SUFFICES ASSUME verdict' = "fail" PROVE FailIsJust
    OBVIOUS
  <2>1. record = "whole" /\ InterpretRecord = "fail"
    BY DEF Judge
  <2>2. CASE recorder.worker_crashes > 0 /\ ~exit.supervisor_error
    <3>1. recorder.worker_crashes # 0
      BY <2>2
    <3>2. recorder.internal_errors = 0
      BY <3>1 DEF EvaluatorInv, ExitTells
    <3> QED
      BY <2>1, <2>2, <3>2 DEF FailIsJust, RecordIsSound
  <2>3. CASE ~(recorder.worker_crashes > 0 /\ ~exit.supervisor_error)
    <3>1. ~AllPassed /\ TestCount > 0 /\ exit.code \in {0, 1}
      BY <2>1, <2>3 DEF InterpretRecord
    <3>2. ~exit.supervisor_error /\ recorder.internal_errors = 0
      BY <3>1 DEF EvaluatorInv, ExitTells
    <3>3. recorder.worker_crashes = 0
      BY <2>3, <3>2 DEF EvaluatorInv, EvaluatorTypeOK
    <3>4. collected \cap faulty # {} \/ ~Finished
      BY <3>1, <3>3, NoFaultAllPassed DEF EvaluatorInv
    <3> QED
      BY <2>1, <3>2, <3>4 DEF FailIsJust, RecordIsSound
  <2> QED
    BY <2>2, <2>3
<1>7. VerdictIsJust'
  BY <1>1, <1>5, <1>6
     DEF VerdictIsJust, PassIsJust, FailIsJust, RecordIsSound, Finished, pytest
<1> QED
  BY <1>2, <1>3, <1>4, <1>7 DEF EvaluatorInv

(* The evidence is written, or the runner is lost.                         *)
LEMMA StoreStep ==
  ASSUME EvaluatorInv, WriteTemporary \/ ReplaceEvidence \/ LoseRunner
  PROVE  EvaluatorInv'
<1>1. UNCHANGED <<command, collected, pytest, exit, record, verdict>>
  BY DEF WriteTemporary, ReplaceEvidence, LoseRunner
<1>2. /\ phase' \in {"judged", "over"} /\ (phase' = "judged" => phase = "judged")
      /\ evidence' \in {"none", "temporary", "destination"}
      /\ phase = "judged" \/ UNCHANGED evidence
  BY DEF EvaluatorInv, EvaluatorTypeOK, WriteTemporary, ReplaceEvidence, LoseRunner
<1>3. EvaluatorTypeOK'
  BY <1>1, <1>2 DEF EvaluatorInv, EvaluatorTypeOK, Phase, pytest
<1>4. ReportsTell' /\ ExitTells'
  BY <1>1, ReportsKept DEF EvaluatorInv
<1>5. NotEnded'
  BY <1>2 DEF NotEnded
<1>6. VerdictIsJust'
  BY <1>1, <1>2 DEF EvaluatorInv, VerdictIsJust, PassIsJust, FailIsJust, RecordIsSound, Finished, pytest
<1> QED
  BY <1>3, <1>4, <1>5, <1>6 DEF EvaluatorInv

LEMMA EvaluatorInvStep == EvaluatorInv /\ [EvaluatorNext]_evaluatorVars => EvaluatorInv'
<1> SUFFICES ASSUME EvaluatorInv, [EvaluatorNext]_evaluatorVars PROVE EvaluatorInv'
  OBVIOUS
<1>1. CASE Stage
  BY <1>1, StageStep
<1>2. CASE CollectionFinished
  BY <1>2, CollectionStep
<1>3. CASE \E t \in Tests, outcome \in Outcomes : LogReport(t, outcome)
  BY <1>3, ReportStep
<1>4. CASE SessionFinished
  BY <1>4, SessionStep
<1>5. CASE WorkerDown
  BY <1>5, WorkerDownStep
<1>6. CASE InternalError
  BY <1>6, InternalErrorStep
<1>7. CASE Interrupted \/ SupervisorError
  BY <1>7, OtherEndStep
<1>8. CASE WriteRecord \/ SupervisorReturns \/ KillSandbox
  BY <1>8, SandboxStep
<1>9. CASE Judge
  BY <1>9, JudgeStep
<1>10. CASE WriteTemporary \/ ReplaceEvidence \/ LoseRunner
  BY <1>10, StoreStep
<1>11. CASE UNCHANGED evaluatorVars
  BY <1>11 DEF evaluatorVars, pytest, EvaluatorInv, EvaluatorTypeOK, ReportsTell, NotEnded, ExitTells,
               VerdictIsJust, PassIsJust, FailIsJust, RecordIsSound, Finished
<1> QED
  BY <1>1, <1>2, <1>3, <1>4, <1>5, <1>6, <1>7, <1>8, <1>9, <1>10, <1>11 DEF EvaluatorNext

-----------------------------------------------------------------------------
(* Theorems *)

\* The evaluator, its supervisor and the evidence file are always in a state the
\* modelled programs can be in (runner.py, _evaluator_supervisor.py).
THEOREM EvaluatorTypeCorrect == EvaluatorSpec => []EvaluatorTypeOK
<1>1. EvaluatorInv => EvaluatorTypeOK
  BY DEF EvaluatorInv
<1> QED
  BY <1>1, EvaluatorInvInit, EvaluatorInvStep, PTL DEF EvaluatorSpec

\* For any finite set of tests, evidence that is in its place judges the tests
\* themselves: see EvidenceIsJust (runner.py, _interpret_supervisor_record).
THEOREM EvidenceJudgesTests == EvaluatorSpec => []EvidenceIsJust
<1>1. EvaluatorInv => EvidenceIsJust
  BY DEF EvaluatorInv, EvaluatorTypeOK, VerdictIsJust, PassIsJust, FailIsJust, RecordIsSound, Finished,
         EvidenceIsJust
<1> QED
  BY <1>1, EvaluatorInvInit, EvaluatorInvStep, PTL DEF EvaluatorSpec

-----------------------------------------------------------------------------
(* The grader: what its invariant says *)

CallRecord == [pc : {"idle", "returned", "lost"} \cup InFlight, limit : Timeouts \cup {0},
               age : Nat, queued : BOOLEAN, gaveUp : BOOLEAN, result : Result]
Server == [up : BOOLEAN, limit : Timeouts \cup {0}, socket : BOOLEAN, downs : 0..MaxRestarts]
Process == [request : {<<>>} \cup {<<i>> : i \in Invocation}, age : Nat]

(* What of the types the argument needs; waiting need not be bounded. A    *)
(* service that starts finds no Codex that is older than its limit.        *)
Shapes ==
  /\ call \in [Invocation -> CallRecord]
  /\ waiting \in Seq(Invocation)
  /\ running \in Process /\ running.age <= server.limit
  /\ server \in Server /\ (~server.up => server.limit = 0)

(* A call's clock starts when it is posted. One that found the service free*)
(* is the next to be taken and has not waited, or is being served and its  *)
(* clock and that of Codex agree.                                          *)
Alone(i) ==
  /\ call[i].pc \in {"idle", "recorded"} => call[i].age = 0 /\ ~call[i].gaveUp
  /\ call[i].pc = "posted" /\ ~call[i].queued =>
       \/ /\ running.request = <<>> /\ call[i].age = 0
          /\ waiting # <<>> /\ Head(waiting) = i
       \/ running.request = <<i>> /\ running.age = call[i].age

GraderInv == Shapes /\ \A i \in Invocation : Alone(i)

-----------------------------------------------------------------------------
(* The invariant *)

LEMMA TimeoutsAreNat == \A limit \in Timeouts \cup {0} : limit \in Nat
BY GraderAssumption

LEMMA GraderInvInit == GraderInit => GraderInv
<1> SUFFICES ASSUME GraderInit PROVE GraderInv
  OBVIOUS
<1>1. \A i \in Invocation : call[i] = [pc |-> "idle", limit |-> 0, age |-> 0, queued |-> FALSE,
                                       gaveUp |-> FALSE, result |-> "none"]
  BY DEF GraderInit, NotCalled
<1>2. call \in [Invocation -> CallRecord]
  BY DEF GraderInit, NotCalled, CallRecord, Result
<1>3. waiting \in Seq(Invocation) /\ running \in Process /\ running.age = 0
  BY DEF GraderInit, Free, Process
<1>4. server \in Server /\ server.limit = 0
  BY GraderAssumption DEF GraderInit, Server
<1>5. Shapes
  BY <1>2, <1>3, <1>4 DEF Shapes
<1>6. \A i \in Invocation : Alone(i)
  BY <1>1 DEF Alone
<1> QED
  BY <1>5, <1>6 DEF GraderInv

(* A call moves on to a place where it is not posted.                      *)
LEMMA OneCallEnds ==
  ASSUME GraderInv, NEW i \in Invocation, NEW c \in CallRecord,
         call' = [call EXCEPT ![i] = c],
         c.pc # "posted", c.pc = "recorded" => c.age = 0 /\ ~c.gaveUp, c.pc # "idle",
         UNCHANGED <<waiting, running, server>>
  PROVE  GraderInv'
<1>1. Shapes'
  BY DEF GraderInv, Shapes
<1>2. \A k \in Invocation : call'[k] = IF k = i THEN c ELSE call[k]
  BY DEF GraderInv, Shapes
<1>3. ASSUME NEW k \in Invocation PROVE Alone(k)'
  BY <1>2, <1>3 DEF GraderInv, Alone
<1> QED
  BY <1>1, <1>3 DEF GraderInv

LEMMA RecordStep ==
  ASSUME GraderInv, NEW i \in Invocation, Record(i)
  PROVE  GraderInv'
<1> PICK limit \in Timeouts : call' = [call EXCEPT ![i].pc = "recorded", ![i].limit = limit]
  BY DEF Record
<1> DEFINE c == [call[i] EXCEPT !.pc = "recorded", !.limit = limit]
<1>1. call[i] \in CallRecord /\ call[i].pc = "idle" /\ call[i].age = 0 /\ ~call[i].gaveUp
  BY DEF GraderInv, Shapes, Alone, Record
<1>2. /\ c \in CallRecord /\ c.pc = "recorded" /\ c.age = 0
      /\ c.gaveUp = call[i].gaveUp
  BY <1>1 DEF CallRecord, InFlight
<1>3. call' = [call EXCEPT ![i] = c] /\ UNCHANGED <<waiting, running, server>>
  BY DEF Record
<1> HIDE DEF c
<1> QED
  BY <1>1, <1>2, <1>3, OneCallEnds

LEMMA PostStep ==
  ASSUME GraderInv, NEW i \in Invocation, Post(i)
  PROVE  GraderInv'
<1>1. call[i] \in CallRecord /\ call[i].pc = "recorded" /\ call[i].age = 0
      /\ ~call[i].gaveUp
  BY DEF GraderInv, Shapes, Alone, Post
<1>2. CASE server.up /\ server.socket
  <2> DEFINE busy == running.request # <<>> \/ waiting # <<>>
             c == [call[i] EXCEPT !.pc = "posted", !.queued = busy]
  <2>1. waiting' = Append(waiting, i) /\ call' = [call EXCEPT ![i] = c]
        /\ UNCHANGED <<running, server>>
    BY <1>2 DEF Post
  <2>2. /\ c \in CallRecord /\ c.pc = "posted" /\ c.age = 0 /\ c.queued = busy
        /\ c.gaveUp = call[i].gaveUp
    BY <1>1 DEF CallRecord, InFlight
  <2> HIDE DEF c
  <2>3. \A k \in Invocation : call'[k] = IF k = i THEN c ELSE call[k]
    BY <2>1 DEF GraderInv, Shapes
  <2>4. /\ waiting \in Seq(Invocation) /\ waiting' \in Seq(Invocation) /\ waiting' # <<>>
        /\ waiting # <<>> => Head(waiting') = Head(waiting)
        /\ waiting = <<>> => Head(waiting') = i
    BY <2>1 DEF GraderInv, Shapes
  <2>5. Shapes'
    BY <2>1, <2>2, <2>4 DEF GraderInv, Shapes
  <2>6. Alone(i)'
    BY <2>1, <2>2, <2>3, <2>4 DEF Alone
  <2>7. ASSUME NEW k \in Invocation, k # i PROVE Alone(k)'
    BY <2>1, <2>3, <2>4, <2>7 DEF GraderInv, Alone
  <2> QED
    BY <2>5, <2>6, <2>7 DEF GraderInv
<1>3. CASE ~(server.up /\ server.socket)
  <2> DEFINE c == [call[i] EXCEPT !.pc = "answered", !.result = "model_failure"]
  <2>1. call' = [call EXCEPT ![i] = c] /\ UNCHANGED <<waiting, running, server>>
    BY <1>3 DEF Post
  <2>2. c \in CallRecord /\ c.pc = "answered"
    BY <1>1 DEF CallRecord, InFlight, Result
  <2> HIDE DEF c
  <2> QED
    BY <2>1, <2>2, OneCallEnds
<1> QED
  BY <1>2, <1>3

LEMMA GiveUpStep ==
  ASSUME GraderInv, NEW i \in Invocation, GiveUp(i)
  PROVE  GraderInv'
<1> DEFINE c == [call[i] EXCEPT !.pc = "answered", !.result = "model_failure", !.gaveUp = TRUE]
<1>1. call[i] \in CallRecord
  BY DEF GraderInv, Shapes
<1>2. c \in CallRecord /\ c.pc = "answered"
  BY <1>1 DEF CallRecord, InFlight, Result
<1>3. call' = [call EXCEPT ![i] = c] /\ UNCHANGED <<waiting, running, server>>
  BY DEF GiveUp
<1> HIDE DEF c
<1> QED
  BY <1>2, <1>3, OneCallEnds

LEMMA CallLeaves ==
  ASSUME GraderInv, NEW i \in Invocation, CloseInvocation(i) \/ LoseWorker(i)
  PROVE  GraderInv'
<1>1. PICK pc \in {"returned", "lost"} :
        call' = [call EXCEPT ![i].pc = pc] /\ UNCHANGED <<waiting, running, server>>
  BY DEF CloseInvocation, LoseWorker
<1> DEFINE c == [call[i] EXCEPT !.pc = pc]
<1>2. call[i] \in CallRecord
  BY DEF GraderInv, Shapes
<1>3. c \in CallRecord /\ c.pc = pc
  BY <1>2 DEF CallRecord
<1>4. call' = [call EXCEPT ![i] = c]
  BY <1>1
<1> HIDE DEF c
<1> QED
  BY <1>1, <1>2, <1>3, <1>4, OneCallEnds

LEMMA EndServerStep ==
  ASSUME GraderInv, NEW stopped \in BOOLEAN, EndServer(stopped)
  PROVE  GraderInv'
<1> DEFINE over(i) == [call[i] EXCEPT !.pc = "answered", !.result = "model_failure"]
<1>1. /\ waiting' = <<>> /\ running' = [request |-> <<>>, age |-> 0]
      /\ call' = [i \in Invocation |-> IF call[i].pc = "posted" THEN over(i) ELSE call[i]]
      /\ server.downs < MaxRestarts
      /\ server' = [up |-> FALSE, limit |-> 0, socket |-> ~stopped, downs |-> server.downs + 1]
  BY DEF EndServer, Free
<1>2. \A i \in Invocation : over(i) \in CallRecord /\ over(i).pc = "answered"
  BY DEF GraderInv, Shapes, CallRecord, InFlight, Result
<1> HIDE DEF over
<1>3. server' \in Server /\ server'.limit = 0
  <2>1. server.downs \in 0..MaxRestarts /\ (~stopped) \in BOOLEAN
    BY DEF GraderInv, Shapes, Server
  <2>2. server.downs + 1 \in 0..MaxRestarts
    BY <1>1, <2>1, GraderAssumption
  <2> QED
    BY <1>1, <2>1, <2>2 DEF Server
<1>4. running' \in Process /\ running'.age = 0 /\ waiting' \in Seq(Invocation)
  BY <1>1 DEF Process
<1>5. call' \in [Invocation -> CallRecord]
  BY <1>1, <1>2 DEF GraderInv, Shapes
<1>6. Shapes'
  BY <1>3, <1>4, <1>5 DEF Shapes
<1>7. \A i \in Invocation : Alone(i)'
  BY <1>1, <1>2 DEF GraderInv, Alone
<1> QED
  BY <1>6, <1>7 DEF GraderInv

(* A service starts when none runs, so no Codex is measured by its limit.  *)
LEMMA StartServerStep ==
  ASSUME GraderInv, StartServer
  PROVE  GraderInv'
<1>1. PICK limit \in Timeouts :
        server' = [up |-> TRUE, limit |-> limit, socket |-> TRUE, downs |-> server.downs]
  BY DEF StartServer
<1>2. ~server.up /\ UNCHANGED <<call, waiting, running>>
  BY DEF StartServer
<1>3. server' \in Server /\ server'.limit = limit /\ server'.up /\ limit \in Nat
  BY <1>1, GraderAssumption DEF GraderInv, Shapes, Server
<1>4. running.age <= limit
  BY <1>2, <1>3 DEF GraderInv, Shapes, Process
<1>5. Shapes'
  BY <1>2, <1>3, <1>4 DEF GraderInv, Shapes
<1>6. \A i \in Invocation : Alone(i)'
  BY <1>2 DEF GraderInv, Alone
<1> QED
  BY <1>5, <1>6 DEF GraderInv

LEMMA TakeStep ==
  ASSUME GraderInv, Take
  PROVE  GraderInv'
<1>1. /\ running.request = <<>> /\ waiting # <<>> /\ waiting' = Tail(waiting) /\ call' = call
      /\ server' = server
      /\ \/ running' = [request |-> <<Head(waiting)>>, age |-> 0]
         \/ call[Head(waiting)].pc # "posted" /\ running' = running
  BY DEF Take
<1>2. Head(waiting) \in Invocation /\ Tail(waiting) \in Seq(Invocation)
  BY <1>1 DEF GraderInv, Shapes
<1>3. running' \in Process /\ running'.age <= server.limit
  <2>1. server.limit \in Nat
    BY TimeoutsAreNat DEF GraderInv, Shapes, Server
  <2> QED
    BY <1>1, <1>2, <2>1 DEF GraderInv, Shapes, Process
<1>4. Shapes'
  BY <1>1, <1>2, <1>3 DEF GraderInv, Shapes
<1>5. ASSUME NEW i \in Invocation PROVE Alone(i)'
  <2>1. CASE call[i].pc = "posted" /\ ~call[i].queued
    <3>1. Head(waiting) = i /\ call[i].age = 0
      BY <1>1, <2>1 DEF GraderInv, Alone
    <3>2. running' = [request |-> <<i>>, age |-> 0]
      BY <1>1, <2>1, <3>1
    <3> QED
      BY <1>1, <2>1, <3>1, <3>2 DEF Alone
  <2>2. CASE ~(call[i].pc = "posted" /\ ~call[i].queued)
    BY <1>1, <2>2 DEF GraderInv, Alone
  <2> QED
    BY <2>1, <2>2
<1> QED
  BY <1>4, <1>5 DEF GraderInv

LEMMA CodexEndsStep ==
  ASSUME GraderInv, NEW i \in Invocation, NEW result \in Result, CodexEnds(i, result)
  PROVE  GraderInv'
<1> DEFINE c == [call[i] EXCEPT !.pc = "answered", !.result = result]
<1>1. /\ running.request = <<i>> /\ running' = [request |-> <<>>, age |-> 0]
      /\ call' = IF call[i].pc = "posted" THEN [call EXCEPT ![i] = c] ELSE call
      /\ UNCHANGED <<waiting, server>>
  BY DEF CodexEnds, Free
<1>2. c \in CallRecord /\ c.pc = "answered"
  BY DEF GraderInv, Shapes, CallRecord, InFlight, Result
<1> HIDE DEF c
<1>3. \A k \in Invocation : call'[k] = IF k = i /\ call[i].pc = "posted" THEN c ELSE call[k]
  BY <1>1 DEF GraderInv, Shapes
<1>4. Shapes'
  <2>1. server.limit \in Nat
    BY TimeoutsAreNat DEF GraderInv, Shapes, Server
  <2> QED
    BY <1>1, <1>2, <2>1 DEF GraderInv, Shapes, Process
<1>5. ASSUME NEW k \in Invocation PROVE Alone(k)'
  <2>1. CASE k = i
    BY <1>2, <1>3, <2>1 DEF GraderInv, Alone
  <2>2. CASE k # i
    <3>1. call'[k] = call[k] /\ running.request # <<k>> /\ running.request # <<>>
      BY <1>1, <1>3, <2>2
    <3> QED
      BY <3>1 DEF GraderInv, Alone
  <2> QED
    BY <2>1, <2>2
<1> QED
  BY <1>4, <1>5 DEF GraderInv

LEMMA TickStep ==
  ASSUME GraderInv, GraderTick
  PROVE  GraderInv'
<1> DEFINE older(i) == [call[i] EXCEPT !.age = @ + 1]
<1>1. /\ running.request # <<>> \/ waiting = <<>>
      /\ running.age < server.limit
      /\ running' = IF running.request = <<>> THEN running ELSE [running EXCEPT !.age = @ + 1]
      /\ call' = [i \in Invocation |-> IF call[i].pc = "posted" THEN older(i) ELSE call[i]]
      /\ UNCHANGED <<waiting, server>>
  BY DEF GraderTick
<1>2. \A i \in Invocation :
        /\ older(i) \in CallRecord /\ older(i).pc = call[i].pc /\ older(i).age = call[i].age + 1
        /\ older(i).gaveUp = call[i].gaveUp /\ older(i).queued = call[i].queued
  <2> SUFFICES ASSUME NEW i \in Invocation
               PROVE  /\ older(i) \in CallRecord /\ older(i).pc = call[i].pc
                      /\ older(i).age = call[i].age + 1
                      /\ older(i).gaveUp = call[i].gaveUp /\ older(i).queued = call[i].queued
    OBVIOUS
  <2>1. call[i] \in CallRecord /\ call[i].age \in Nat
    BY DEF GraderInv, Shapes, CallRecord
  <2>2. call[i].age + 1 \in Nat
    BY <2>1
  <2> QED
    BY <2>1, <2>2 DEF CallRecord
<1> HIDE DEF older
<1>3. /\ running' \in Process /\ running'.request = running.request
      /\ running'.age = IF running.request = <<>> THEN running.age ELSE running.age + 1
      /\ running'.age <= server.limit
  <2>1. server.limit \in Nat
    BY TimeoutsAreNat DEF GraderInv, Shapes, Server
  <2> QED
    BY <1>1, <2>1 DEF GraderInv, Shapes, Process
<1>4. Shapes'
  BY <1>1, <1>2, <1>3 DEF GraderInv, Shapes
<1>5. ASSUME NEW i \in Invocation PROVE Alone(i)'
  <2>1. CASE call[i].pc = "posted" /\ ~call[i].queued
    <3>1. running.request = <<i>> /\ running.age = call[i].age
      BY <1>1, <2>1 DEF GraderInv, Alone
    <3>2. running.request # <<>>
      BY <3>1
    <3>3. running'.age = running.age + 1 /\ running'.request = <<i>>
      BY <1>3, <3>1, <3>2
    <3>4. call'[i].age = call[i].age + 1 /\ call'[i].pc = "posted" /\ ~call'[i].queued
      BY <1>1, <1>2, <2>1
    <3> QED
      BY <3>1, <3>3, <3>4 DEF Alone
  <2>2. CASE ~(call[i].pc = "posted" /\ ~call[i].queued)
    BY <1>1, <1>2, <2>2 DEF GraderInv, Alone
  <2> QED
    BY <2>1, <2>2
<1> QED
  BY <1>4, <1>5 DEF GraderInv

LEMMA GraderInvStep == GraderInv /\ [GraderNext]_graderVars => GraderInv'
<1> SUFFICES ASSUME GraderInv, [GraderNext]_graderVars PROVE GraderInv'
  OBVIOUS
<1>1. CASE \E i \in Invocation : Record(i) \/ Post(i) \/ GiveUp(i) \/ CloseInvocation(i) \/ LoseWorker(i)
  BY <1>1, RecordStep, PostStep, GiveUpStep, CallLeaves
<1>2. CASE \E stopped \in BOOLEAN : EndServer(stopped)
  BY <1>2, EndServerStep
<1>3. CASE Take
  BY <1>3, TakeStep
<1>4. CASE \E i \in Invocation, result \in Result : CodexEnds(i, result)
  BY <1>4, CodexEndsStep
<1>5. CASE GraderTick
  BY <1>5, TickStep
<1>6. CASE StartServer
  BY <1>6, StartServerStep
<1>7. CASE UNCHANGED graderVars
  BY <1>7 DEF graderVars, GraderInv, Shapes, Alone
<1> QED
  BY <1>1, <1>2, <1>3, <1>4, <1>5, <1>6, <1>7 DEF GraderNext

(* Only at its own limit does a client give up.                            *)
LEMMA OnlyGiveUp ==
  ASSUME GraderInv, [GraderNext]_graderVars, NEW i \in Invocation, GivesUp(i)
  PROVE  GiveUp(i)
<1>1. call \in [Invocation -> CallRecord] /\ ~call[i].gaveUp /\ call'[i].gaveUp
  BY DEF GraderInv, Shapes, GivesUp
<1>2. ASSUME NEW k \in Invocation,
             Record(k) \/ Post(k) \/ GiveUp(k) \/ CloseInvocation(k) \/ LoseWorker(k)
      PROVE  GiveUp(i)
  BY <1>1, <1>2 DEF Record, Post, GiveUp, CloseInvocation, LoseWorker, CallRecord
<1>3. ASSUME NEW stopped \in BOOLEAN, EndServer(stopped) PROVE FALSE
  <2> DEFINE over == [call[i] EXCEPT !.pc = "answered", !.result = "model_failure"]
  <2>1. over.gaveUp = call[i].gaveUp
    BY <1>1 DEF CallRecord
  <2>2. call'[i] = IF call[i].pc = "posted" THEN over ELSE call[i]
    BY <1>3 DEF EndServer
  <2> HIDE DEF over
  <2> QED
    BY <1>1, <2>1, <2>2
<1>4. ASSUME NEW k \in Invocation, NEW result \in Result, CodexEnds(k, result) PROVE FALSE
  BY <1>1, <1>4 DEF CodexEnds, CallRecord
<1>5. CASE GraderTick
  <2> DEFINE older == [call[i] EXCEPT !.age = @ + 1]
  <2>1. older.gaveUp = call[i].gaveUp
    BY <1>1 DEF CallRecord
  <2>2. call'[i] = IF call[i].pc = "posted" THEN older ELSE call[i]
    BY <1>5 DEF GraderTick
  <2> HIDE DEF older
  <2> QED
    BY <1>1, <2>1, <2>2
<1>6. CASE StartServer \/ Take \/ UNCHANGED graderVars
  BY <1>1, <1>6 DEF StartServer, Take, graderVars
<1> QED
  BY <1>2, <1>3, <1>4, <1>5, <1>6 DEF GraderNext

-----------------------------------------------------------------------------
(* Theorem *)

\* For any limits of the service and of each client, and any time a client adds
\* to its own: a client whose limit with that time is the longer gives up only on
\* a request that had to wait behind another (codex.py _invoke, grader.py).
THEOREM AloneIsAnswered == GraderSpec => AloneIsAnsweredInTime
<1> DEFINE InTime == \A i \in Invocation :
             GivesUp(i) /\ server.limit < call[i].limit + Grace => call[i].queued
<1>1. GraderInv /\ [GraderNext]_graderVars => [InTime]_graderVars
  <2> SUFFICES ASSUME GraderInv, [GraderNext]_graderVars, NEW i \in Invocation, GivesUp(i),
                      server.limit < call[i].limit + Grace
               PROVE  call[i].queued
    OBVIOUS
  <2>1. GiveUp(i)
    BY OnlyGiveUp
  <2>2. call[i].pc = "posted" /\ call[i].age = call[i].limit + Grace
    BY <2>1 DEF GiveUp
  <2>3. call[i] \in CallRecord /\ running \in Process /\ server \in Server
        /\ running.age <= server.limit /\ Alone(i)
    BY DEF GraderInv, Shapes
  <2>4. /\ call[i].limit \in Nat /\ call[i].age \in Nat /\ call[i].queued \in BOOLEAN
        /\ running.age \in Nat /\ server.limit \in Nat
    BY <2>3, TimeoutsAreNat DEF CallRecord, Process, Server
  <2>5. running.age # call[i].age /\ call[i].age # 0
    BY <2>2, <2>3, <2>4, GraderAssumption
  <2> QED
    BY <2>2, <2>3, <2>5 DEF Alone
<1> QED
  BY <1>1, GraderInvInit, GraderInvStep, PTL DEF GraderSpec, AloneIsAnsweredInTime

-----------------------------------------------------------------------------
(* The grader's queue is bounded *)

Started(i) == call[i].pc \notin {"idle", "recorded"}

(* An invocation is posted once, so it is in the queue once at most.       *)
QueuedOnce ==
  /\ \A k \in 1..Len(waiting) : Started(waiting[k])
  /\ \A k, l \in 1..Len(waiting) : waiting[k] = waiting[l] => k = l

GraderFits ==
  /\ GraderInv
  /\ row \in [Invocation -> {"absent", "running", "succeeded", "failed"}]
  /\ \A i \in Invocation : call[i].age <= call[i].limit + Grace
  /\ QueuedOnce

LEMMA GraderFitsInit == GraderInit => GraderFits
<1> SUFFICES ASSUME GraderInit PROVE GraderFits
  OBVIOUS
<1>1. GraderInv
  BY GraderInvInit
<1>2. waiting = <<>> /\ \A i \in Invocation : call[i].age = 0 /\ call[i].limit = 0
  BY DEF GraderInit, NotCalled
<1> QED
  BY <1>1, <1>2, GraderAssumption DEF GraderInit, GraderFits, QueuedOnce

(* What a step does to the calls, seen from the queue.                     *)
LEMMA CallsProgress ==
  ASSUME GraderInv, [GraderNext]_graderVars,
         \A i \in Invocation : call[i].age <= call[i].limit + Grace
  PROVE  \A i \in Invocation : /\ Started(i) => Started(i)'
                               /\ call'[i].age <= call'[i].limit + Grace
<1>1. call \in [Invocation -> CallRecord]
  BY DEF GraderInv, Shapes
<1>2. CASE \E i \in Invocation : Post(i) \/ GiveUp(i) \/ CloseInvocation(i) \/ LoseWorker(i)
  BY <1>1, <1>2 DEF Post, GiveUp, CloseInvocation, LoseWorker, Started, CallRecord
<1>3. ASSUME NEW k \in Invocation, Record(k)
      PROVE  \A i \in Invocation : /\ Started(i) => Started(i)'
                                   /\ call'[i].age <= call'[i].limit + Grace
  <2>1. PICK limit \in Timeouts : call' = [call EXCEPT ![k].pc = "recorded", ![k].limit = limit]
    BY <1>3 DEF Record
  <2> DEFINE c == [call[k] EXCEPT !.pc = "recorded", !.limit = limit]
  <2>2. c.age = call[k].age /\ c.limit = limit
    BY <1>1 DEF CallRecord
  <2>3. call' = [call EXCEPT ![k] = c]
    BY <2>1
  <2> HIDE DEF c
  <2>4. call[k].pc = "idle" /\ call[k].age = 0 /\ limit + Grace \in Nat
    BY <1>3, GraderAssumption DEF Record, GraderInv, Alone
  <2>5. call'[k] = c /\ \A i \in Invocation \ {k} : call'[i] = call[i]
    BY <1>1, <2>3
  <2> QED
    BY <2>2, <2>4, <2>5 DEF Started
<1>4. CASE \E stopped \in BOOLEAN : EndServer(stopped)
  <2>1. ASSUME NEW i \in Invocation
        PROVE  /\ call'[i].age = call[i].age /\ call'[i].limit = call[i].limit
               /\ call'[i].pc \in {call[i].pc, "answered"}
    <3> DEFINE over == [call[i] EXCEPT !.pc = "answered", !.result = "model_failure"]
    <3>1. over.pc = "answered" /\ over.age = call[i].age /\ over.limit = call[i].limit
      BY <1>1 DEF CallRecord
    <3>2. call'[i] = IF call[i].pc = "posted" THEN over ELSE call[i]
      BY <1>4 DEF EndServer
    <3> HIDE DEF over
    <3> QED
      BY <3>1, <3>2
  <2> QED
    BY <2>1 DEF Started
<1>5. CASE \E i \in Invocation, result \in Result : CodexEnds(i, result)
  BY <1>1, <1>5 DEF CodexEnds, Started, CallRecord
<1>6. CASE GraderTick
  <2>1. ASSUME NEW i \in Invocation
        PROVE  call'[i].pc = call[i].pc /\ call'[i].age <= call'[i].limit + Grace
    <3> DEFINE older == [call[i] EXCEPT !.age = @ + 1]
    <3>1. /\ older.pc = call[i].pc /\ older.age = call[i].age + 1 /\ older.limit = call[i].limit
          /\ call[i].age \in Nat /\ call[i].limit \in Nat
      BY <1>1, TimeoutsAreNat DEF CallRecord
    <3>2. call'[i] = IF call[i].pc = "posted" THEN older ELSE call[i]
      BY <1>6 DEF GraderTick
    <3>3. call[i].pc = "posted" => call[i].age < call[i].limit + Grace
      BY <1>6 DEF GraderTick
    <3> HIDE DEF older
    <3> QED
      BY <3>1, <3>2, <3>3, GraderAssumption
  <2> QED
    BY <2>1 DEF Started
<1>7. CASE call' = call
  BY <1>7 DEF Started
<1> QED
  BY <1>2, <1>3, <1>4, <1>5, <1>6, <1>7 DEF GraderNext, graderVars, StartServer, Take

LEMMA QueuedOnceStep ==
  ASSUME GraderInv, QueuedOnce, [GraderNext]_graderVars, \A i \in Invocation : Started(i) => Started(i)'
  PROVE  QueuedOnce'
<1>1. waiting \in Seq(Invocation)
  BY DEF GraderInv, Shapes
<1>2. CASE \E i \in Invocation : Post(i) /\ waiting' = Append(waiting, i)
  <2> PICK i \in Invocation : Post(i) /\ waiting' = Append(waiting, i)
    BY <1>2
  <2>1. ~Started(i) /\ Started(i)'
    <3>1. ~Started(i)
      BY DEF Post, Started
    <3>2. waiting' # waiting
      BY <1>1
    <3>3. call' = [call EXCEPT ![i].pc = "posted", ![i].queued = running.request # <<>> \/ waiting # <<>>]
      BY <3>2 DEF Post
    <3> QED
      BY <3>1, <3>3 DEF GraderInv, Shapes, CallRecord, Started
  <2>2. \A k \in 1..Len(waiting) : waiting[k] # i /\ waiting[k] \in Invocation
    BY <1>1, <2>1 DEF QueuedOnce
  <2>3. Len(waiting') = Len(waiting) + 1 /\ Len(waiting) \in Nat /\ waiting'[Len(waiting) + 1] = i
        /\ \A k \in 1..Len(waiting) : waiting'[k] = waiting[k]
    BY <1>1
  <2> QED
    BY <2>1, <2>2, <2>3 DEF QueuedOnce
<1>3. CASE waiting # <<>> /\ waiting' = Tail(waiting)
  <2>1. Len(waiting') = Len(waiting) - 1 /\ Len(waiting) \in Nat
        /\ \A k \in 1..Len(waiting') : waiting'[k] = waiting[k + 1]
    BY <1>1, <1>3
  <2>2. \A k \in 1..Len(waiting) : waiting[k] \in Invocation
    BY <1>1
  <2> QED
    BY <2>1, <2>2 DEF QueuedOnce
<1>4. CASE waiting' = <<>>
  BY <1>4 DEF QueuedOnce
<1>5. CASE waiting' = waiting
  BY <1>1, <1>5 DEF QueuedOnce
<1> QED
  BY <1>2, <1>3, <1>4, <1>5 DEF GraderNext, graderVars, Record, Post, GiveUp, CloseInvocation, LoseWorker,
     StartServer, EndServer, Take, CodexEnds, GraderTick

LEMMA GraderFitsStep == GraderFits /\ [GraderNext]_graderVars => GraderFits'
<1> SUFFICES ASSUME GraderFits, [GraderNext]_graderVars PROVE GraderFits'
  OBVIOUS
<1>1. GraderInv'
  BY GraderInvStep DEF GraderFits
<1>2. (\A i \in Invocation : call[i].age <= call[i].limit + Grace)' /\ QueuedOnce'
  BY CallsProgress, QueuedOnceStep DEF GraderFits
<1>3. row' \in [Invocation -> {"absent", "running", "succeeded", "failed"}]
  BY DEF GraderFits, GraderNext, graderVars, Record, Post, GiveUp, CloseInvocation, LoseWorker,
     StartServer, EndServer, Take, CodexEnds, GraderTick
<1> QED
  BY <1>1, <1>2, <1>3 DEF GraderFits

(* Each invocation in the queue has a place of its own.                    *)
LEMMA QueueIsBounded ==
  ASSUME IsFiniteSet(Invocation), waiting \in Seq(Invocation), QueuedOnce
  PROVE  Len(waiting) <= Cardinality(Invocation)
<1> DEFINE f == [k \in 1..Len(waiting) |-> waiting[k]]
<1>1. f \in Injection(1..Len(waiting), Invocation)
  <2>1. f \in [1..Len(waiting) -> Invocation]
    OBVIOUS
  <2>2. \A k, l \in 1..Len(waiting) : f[k] = f[l] => k = l
    BY DEF QueuedOnce
  <2> HIDE DEF f
  <2> QED
    BY <2>1, <2>2 DEF Injection, IsInjective
<1>2. Cardinality(1..Len(waiting)) = Len(waiting)
  <2>1. Len(waiting) \in Nat
    OBVIOUS
  <2>2. Cardinality(1..Len(waiting)) = IF 1 > Len(waiting) THEN 0 ELSE Len(waiting) - 1 + 1
    BY <2>1, FS_Interval
  <2> QED
    BY <2>1, <2>2
<1> QED
  BY <1>1, <1>2, FS_Injection

\* The grader's rows, calls, queue and process stay well typed for any finite set
\* of invocations; in particular nothing waits twice at the endpoint (codex.py
\* _invoke, grader.py).
THEOREM GraderTypeCorrect ==
  ASSUME IsFiniteSet(Invocation)
  PROVE  GraderSpec => []GraderTypeOK
<1>1. ASSUME GraderFits PROVE GraderTypeOK
  <2>1. /\ call \in [Invocation -> CallRecord] /\ waiting \in Seq(Invocation) /\ running \in Process
        /\ server \in Server /\ running.age <= server.limit
    BY <1>1 DEF GraderFits, GraderInv, Shapes
  <2>2. Len(waiting) <= Cardinality(Invocation)
    BY <1>1, <2>1, QueueIsBounded DEF GraderFits
  <2>3. running.request \in {<<>>} \cup {<<i>> : i \in Invocation} /\ running.age \in 0..server.limit
    BY <2>1, TimeoutsAreNat DEF Process, Server
  <2> QED
    BY <1>1, <2>1, <2>2, <2>3 DEF GraderFits, GraderTypeOK, CallRecord, Server
<1> QED
  BY <1>1, GraderFitsInit, GraderFitsStep, PTL DEF GraderSpec

-----------------------------------------------------------------------------
(* The bundle store: what its invariants say *)

(* p has created f and is not through with it.                            *)
Writes(p, f) == publisher[p].file = f /\ publisher[p].op \in {"write", "sync"}

(* A file that is being written is as its one writer left it.              *)
Drafted ==
  /\ \A p \in Publisher, f \in File :
       /\ Doing(p, f, "write") => file[f] = Partial
       /\ Doing(p, f, "sync") => file[f] = Payload(p, f)
  /\ \A p, q \in Publisher, f \in File : Writes(p, f) /\ Writes(q, f) => p = q

(* The key a process works with, by how far it has come.                   *)
KeyHeld(p) ==
  /\ publisher[p].op = "idle" => publisher[p].file = "key" /\ ~publisher[p].sealed
  /\ publisher[p].op # "idle" => publisher[p].run > 0
  /\ publisher[p].file # "key" => publisher[p].key \in Key
  /\ publisher[p].file = "key" /\ ~publisher[p].sealed => publisher[p].key = NoKey
  /\ publisher[p].manifest \in {NoKey} \cup published

BundleFits == BundleTypeOK /\ Drafted /\ \A p \in Publisher : KeyHeld(p)

(* All that is in use or signed is of the private key that is stored.      *)
OfStoredKey ==
  /\ \A p \in Publisher : publisher[p].key \in {NoKey, file["key"]}
  /\ \A f \in {"pub", "envelope"} : file[f] \in {Absent, Partial, file["key"]}
  /\ published \subseteq {file["key"]}

(* All that was signed is of the public part that is stored.               *)
OfPublicKey ==
  /\ \A p \in Publisher : publisher[p].file = "envelope" => publisher[p].key = file["pub"]
  /\ file["envelope"] \in {Absent, Partial, file["pub"]}
  /\ published \subseteq {file["pub"]}

(* A failure takes one of the two away at most.                            *)
OneFailureInv ==
  /\ OfStoredKey \/ OfPublicKey
  /\ ioErrors = 0 => OfStoredKey /\ OfPublicKey

(* Nobody removes f any more.                                              *)
Settled(f) == file[f] \in Key /\ \A p \in Publisher : ~Writes(p, f)

(* Nothing is signed yet, and two processes that share a key have the one  *)
(* that is stored.                                                         *)
NothingOut ==
  /\ \A p \in Publisher : publisher[p].file # "envelope" /\ ~publisher[p].sealed
  /\ file["envelope"] \notin Key /\ published = {}
  /\ \A p, q \in Publisher :
       p # q /\ publisher[p].key = publisher[q].key /\ publisher[p].key # NoKey
         => publisher[p].key = file["key"]

(* Two processes cannot both be about to remove the two keys once          *)
(* something may be signed: who signs has read both.                       *)
TwoPublishersInv ==
  \/ NothingOut
  \/ OfStoredKey /\ Settled("key")
  \/ OfPublicKey /\ Settled("pub")

-----------------------------------------------------------------------------
(* Each step keeps what the processes and files hold *)

LEMMA ContentsDiffer ==
  /\ Absent \notin Key /\ Partial \notin Key /\ NoKey \notin Key
  /\ Absent # Partial /\ Absent # NoKey /\ Partial # NoKey
  BY SMT DEF Absent, Partial, NoKey, Key

(* What publisher[p] may be.                                               *)
Place == [file : File, key : Key \cup {NoKey}, run : 0..MaxRuns, sealed : BOOLEAN,
          manifest : Key \cup {NoKey},
          op : {"idle", "look", "create", "write", "sync", "read", "sign"}]

LEMMA EndsAtRest ==
  ASSUME BundleFits, NEW p \in Publisher, Ends(p)
  PROVE  /\ publisher' \in [Publisher -> Place]
         /\ publisher'[p].file = "key" /\ publisher'[p].op = "idle" /\ publisher'[p].key = NoKey
         /\ publisher'[p].manifest = NoKey /\ ~publisher'[p].sealed
         /\ \A q \in Publisher : q # p => publisher'[q] = publisher[q]
<1> DEFINE rest == AtRest(publisher[p].run)
<1>1. publisher \in [Publisher -> Place]
  BY DEF BundleFits, BundleTypeOK, Place
<1>2. publisher[p].run \in 0..MaxRuns
  BY <1>1 DEF Place
<1>3. rest = [file |-> "key", op |-> "idle", key |-> NoKey, run |-> publisher[p].run,
              sealed |-> FALSE, manifest |-> NoKey]
  BY DEF AtRest
<1>4. rest \in Place
  BY <1>2, <1>3 DEF Place, File
<1>5. publisher' = [publisher EXCEPT ![p] = rest]
  BY DEF Ends
<1> QED
  BY <1>1, <1>3, <1>4, <1>5

LEMMA BundleFitsInit == BundleInit => BundleFits
  BY BundleAssumption, ContentsDiffer, SMT DEF BundleInit, BundleFits, BundleTypeOK, Drafted, KeyHeld, AtRest,
     Doing, Writes, File

LEMMA BeginStep ==
  ASSUME BundleFits, NEW p \in Publisher, BeginPublication(p)
  PROVE  BundleFits'
<1> USE DEF BundleFits
<1>1. BundleTypeOK'
  BY BundleAssumption DEF BundleTypeOK, BeginPublication, File
<1>2. Drafted'
  BY DEF Drafted, BundleTypeOK, BeginPublication, Doing, Writes, Payload, File
<1>3. \A q \in Publisher : KeyHeld(q)'
  BY BundleAssumption DEF KeyHeld, BundleTypeOK, BeginPublication, File
<1> QED BY <1>1, <1>2, <1>3

LEMMA CreateStep ==
  ASSUME BundleFits, NEW p \in Publisher, NEW f \in File, CreateFile(p, f)
  PROVE  BundleFits'
<1> USE DEF BundleFits
<1>1. BundleTypeOK'
  BY ContentsDiffer DEF BundleTypeOK, CreateFile, Goes, Doing, File
<1>2. Drafted'
  BY ContentsDiffer DEF Drafted, BundleTypeOK, CreateFile, Goes, Doing, Writes, Payload, File
<1>3. \A q \in Publisher : KeyHeld(q)'
  BY DEF KeyHeld, BundleTypeOK, CreateFile, Goes, Doing, File
<1> QED BY <1>1, <1>2, <1>3
LEMMA LookStep ==
  ASSUME BundleFits, NEW p \in Publisher, NEW f \in File, LookFor(p, f)
  PROVE  BundleFits'
<1> USE DEF BundleFits
<1>1. BundleTypeOK'
  BY BundleAssumption, ContentsDiffer DEF BundleTypeOK, KeyHeld, LookFor, Goes, Doing, Payload, Key, File
<1>2. Drafted'
  BY ContentsDiffer DEF Drafted, KeyHeld, BundleTypeOK, LookFor, Goes, Doing, Writes, Payload, File
<1>3. \A q \in Publisher : KeyHeld(q)'
  BY BundleAssumption, ContentsDiffer DEF KeyHeld, BundleTypeOK, LookFor, Goes, Doing, File
<1> QED BY <1>1, <1>2, <1>3

LEMMA WriteStep ==
  ASSUME BundleFits, NEW p \in Publisher, NEW f \in File, WriteFile(p, f)
  PROVE  BundleFits'
<1> USE DEF BundleFits
<1>1. BundleTypeOK'
  BY BundleAssumption, ContentsDiffer DEF BundleTypeOK, KeyHeld, WriteFile, Goes, Doing, Payload, Key, File
<1>2. Drafted'
  BY ContentsDiffer DEF Drafted, KeyHeld, BundleTypeOK, WriteFile, Goes, Doing, Writes, Payload, File
<1>3. \A q \in Publisher : KeyHeld(q)'
  BY BundleAssumption, ContentsDiffer DEF KeyHeld, BundleTypeOK, WriteFile, Goes, Doing, File
<1> QED BY <1>1, <1>2, <1>3

LEMMA SyncStep ==
  ASSUME BundleFits, NEW p \in Publisher, NEW f \in File, SyncFile(p, f)
  PROVE  BundleFits'
<1> USE DEF BundleFits
<1>1. BundleTypeOK'
  BY BundleAssumption, ContentsDiffer DEF BundleTypeOK, KeyHeld, SyncFile, Goes, Doing, Payload, Key, File
<1>2. Drafted'
  BY ContentsDiffer DEF Drafted, KeyHeld, BundleTypeOK, SyncFile, Goes, Doing, Writes, Payload, File
<1>3. \A q \in Publisher : KeyHeld(q)'
  BY BundleAssumption, ContentsDiffer DEF KeyHeld, BundleTypeOK, SyncFile, Goes, Doing, File
<1> QED BY <1>1, <1>2, <1>3

LEMMA IOFailsStep ==
  ASSUME BundleFits, NEW p \in Publisher, NEW f \in File, IOFails(p, f)
  PROVE  BundleFits'
<1> USE DEF BundleFits
<1>1. BundleTypeOK'
  BY BundleAssumption, EndsAtRest, ContentsDiffer DEF BundleTypeOK, Place, KeyHeld, IOFails, Doing, Payload, Key, File
<1>2. Drafted'
  BY EndsAtRest, ContentsDiffer DEF Drafted, KeyHeld, BundleTypeOK, Place, IOFails, Doing, Writes, Payload, File
<1>3. \A q \in Publisher : KeyHeld(q)'
  BY EndsAtRest, ContentsDiffer DEF KeyHeld, BundleTypeOK, Place, IOFails, Doing, File
<1> QED BY <1>1, <1>2, <1>3

LEMMA ReadKeyStep ==
  ASSUME BundleFits, NEW p \in Publisher, ReadKey(p)
  PROVE  BundleFits'
<1> USE DEF BundleFits
<1>1. BundleTypeOK'
  BY BundleAssumption, EndsAtRest, ContentsDiffer DEF BundleTypeOK, Place, KeyHeld, ReadKey, HoldsKey, Doing, Payload, Key, File
<1>2. Drafted'
  BY EndsAtRest, ContentsDiffer DEF Drafted, KeyHeld, BundleTypeOK, Place, ReadKey, HoldsKey, Doing, Writes, Payload, File
<1>3. \A q \in Publisher : KeyHeld(q)'
  BY EndsAtRest, ContentsDiffer DEF KeyHeld, BundleTypeOK, Place, ReadKey, HoldsKey, Doing, File
<1> QED BY <1>1, <1>2, <1>3

LEMMA ReadPublicKeyStep ==
  ASSUME BundleFits, NEW p \in Publisher, ReadPublicKey(p)
  PROVE  BundleFits'
<1> USE DEF BundleFits
<1>1. BundleTypeOK'
  BY BundleAssumption, EndsAtRest, ContentsDiffer DEF BundleTypeOK, Place, KeyHeld, ReadPublicKey, Goes, Doing, Payload, Key, File
<1>2. Drafted'
  BY EndsAtRest, ContentsDiffer DEF Drafted, KeyHeld, BundleTypeOK, Place, ReadPublicKey, Goes, Doing, Writes, Payload, File
<1>3. \A q \in Publisher : KeyHeld(q)'
  BY EndsAtRest, ContentsDiffer DEF KeyHeld, BundleTypeOK, Place, ReadPublicKey, Goes, Doing, File
<1> QED BY <1>1, <1>2, <1>3

LEMMA ReadEnvelopeStep ==
  ASSUME BundleFits, NEW p \in Publisher, ReadEnvelope(p)
  PROVE  BundleFits'
<1> USE DEF BundleFits
<1>1. BundleTypeOK'
  BY BundleAssumption, EndsAtRest, ContentsDiffer DEF BundleTypeOK, Place, KeyHeld, ReadEnvelope, HoldsKey, Doing, Payload, Key, File
<1>2. Drafted'
  <2>1. /\ \A q \in Publisher : q # p => publisher'[q] = publisher[q]
        /\ publisher'[p].op \notin {"write", "sync"}
        /\ file' = file
    BY EndsAtRest DEF BundleTypeOK, ReadEnvelope
  <2> QED
    BY <2>1 DEF Drafted, Doing, Writes, Payload
<1>3. \A q \in Publisher : KeyHeld(q)'
  BY EndsAtRest, ContentsDiffer DEF KeyHeld, BundleTypeOK, Place, ReadEnvelope, HoldsKey, Doing, File
<1> QED BY <1>1, <1>2, <1>3

LEMMA SignStep ==
  ASSUME BundleFits, NEW p \in Publisher, SignManifest(p) \/ VerifyManifest(p) \/ KillPublisher(p)
  PROVE  BundleFits'
<1> USE DEF BundleFits
<1>1. BundleTypeOK'
  BY BundleAssumption, EndsAtRest, ContentsDiffer DEF BundleTypeOK, Place, KeyHeld, SignManifest, VerifyManifest, KillPublisher, Doing, Payload, Key, File
<1>2. Drafted'
  BY EndsAtRest, ContentsDiffer DEF Drafted, KeyHeld, BundleTypeOK, Place, SignManifest, VerifyManifest, KillPublisher, Doing, Writes, Payload, File
<1>3. \A q \in Publisher : KeyHeld(q)'
  BY EndsAtRest, ContentsDiffer DEF KeyHeld, BundleTypeOK, Place, SignManifest, VerifyManifest, KillPublisher, Doing, File
<1> QED BY <1>1, <1>2, <1>3

LEMMA BundleFitsStep == BundleFits /\ [BundleNext]_bundleVars => BundleFits'
<1> SUFFICES ASSUME BundleFits, [BundleNext]_bundleVars PROVE BundleFits'
  OBVIOUS
<1>1. CASE UNCHANGED bundleVars
  BY <1>1 DEF bundleVars, BundleFits, BundleTypeOK, Drafted, KeyHeld, Doing, Writes, Payload
<1>2. CASE \E p \in Publisher : BeginPublication(p) \/ ReadKey(p) \/ ReadPublicKey(p) \/ ReadEnvelope(p)
  BY <1>2, BeginStep, ReadKeyStep, ReadPublicKeyStep, ReadEnvelopeStep
<1>3. CASE \E p \in Publisher : SignManifest(p) \/ VerifyManifest(p) \/ KillPublisher(p)
  BY <1>3, SignStep
<1>4. CASE \E p \in Publisher, f \in File : LookFor(p, f) \/ CreateFile(p, f) \/ WriteFile(p, f)
                                         \/ SyncFile(p, f) \/ IOFails(p, f)
  BY <1>4, LookStep, CreateStep, WriteStep, SyncStep, IOFailsStep
<1> QED
  BY <1>1, <1>2, <1>3, <1>4 DEF BundleNext

(* A whole file stays unless the sync of the one who made it fails.          *)
LEMMA FileKept ==
  ASSUME BundleFits, [BundleNext]_bundleVars, NEW f \in File, file[f] \in Key,
         \A p \in Publisher : ~IOFails(p, f)
  PROVE  file'[f] = file[f]
<1>1. CASE \E p \in Publisher, g \in File : CreateFile(p, g) \/ WriteFile(p, g)
  BY <1>1, ContentsDiffer DEF BundleFits, BundleTypeOK, Drafted, CreateFile, WriteFile, Doing
<1>2. CASE \E p \in Publisher, g \in File : IOFails(p, g)
  BY <1>2 DEF BundleFits, BundleTypeOK, IOFails
<1>3. CASE file' = file
  BY <1>3
<1> QED
  BY <1>1, <1>2, <1>3 DEF BundleNext, bundleVars, BeginPublication, ReadKey, ReadPublicKey, ReadEnvelope,
     SignManifest, VerifyManifest, KillPublisher, LookFor, SyncFile

LEMMA SettledKept ==
  ASSUME BundleFits, [BundleNext]_bundleVars, NEW f \in File, Settled(f)
  PROVE  file'[f] = file[f] /\ Settled(f)'
<1>1. file'[f] = file[f]
  BY FileKept DEF Settled, IOFails, Doing, Writes
<1>2. ASSUME NEW p \in Publisher PROVE ~Writes(p, f)'
  <2>1. publisher \in [Publisher -> Place]
    BY DEF BundleFits, BundleTypeOK, Place
  <2>2. CASE \E q \in Publisher : ReadKey(q) \/ ReadPublicKey(q) \/ ReadEnvelope(q) \/ BeginPublication(q)
    BY <2>1, <2>2, EndsAtRest DEF Settled, Writes, ReadKey, ReadPublicKey, ReadEnvelope, BeginPublication,
       Goes, Place
  <2>3. CASE \E q \in Publisher : SignManifest(q) \/ VerifyManifest(q) \/ KillPublisher(q)
    BY <2>1, <2>3, EndsAtRest DEF Settled, Writes, SignManifest, VerifyManifest, KillPublisher
  <2>4. CASE \E q \in Publisher, g \in File : IOFails(q, g)
    BY <2>1, <2>4, EndsAtRest DEF Settled, Writes, IOFails
  <2>5. CASE \E q \in Publisher, g \in File : LookFor(q, g) \/ CreateFile(q, g) \/ SyncFile(q, g) \/ WriteFile(q, g)
    BY <2>1, <2>5, ContentsDiffer DEF Settled, Writes, LookFor, CreateFile, SyncFile, WriteFile, Goes, Doing, Place
  <2>6. CASE UNCHANGED bundleVars
    BY <2>6 DEF bundleVars, Settled, Writes
  <2> QED
    BY <2>2, <2>3, <2>4, <2>5, <2>6 DEF BundleNext
<1> QED
  BY <1>1, <1>2 DEF Settled

(* What a process may take from a file it reads.                              *)
LEMMA ReadTakes ==
  ASSUME BundleFits, NEW p \in Publisher,
         BeginPublication(p) \/ ReadKey(p) \/ ReadPublicKey(p) \/ ReadEnvelope(p)
  PROVE  /\ \A q \in Publisher : q # p => publisher'[q] = publisher[q]
         /\ publisher'[p].key \in {NoKey, publisher[p].key, file["key"]}
         /\ publisher'[p].file = "envelope" => publisher'[p].key = file["pub"]
         /\ file' = file /\ published' = published
<1>1. publisher \in [Publisher -> Place]
  BY DEF BundleFits, BundleTypeOK, Place
<1>2. CASE Ends(p) /\ file' = file /\ published' = published
  BY <1>2, EndsAtRest
<1>3. CASE BeginPublication(p)
  <2>1. publisher[p].file = "key"
    BY <1>3 DEF BeginPublication, BundleFits, KeyHeld
  <2>2. PICK k : publisher' = [publisher EXCEPT ![p].op = "look", ![p].run = @ + 1, ![p].manifest = k]
    BY <1>3 DEF BeginPublication
  <2> QED
    BY <1>1, <1>3, <2>1, <2>2 DEF BeginPublication, Place
<1>4. CASE ReadKey(p) /\ HoldsKey("key")
  BY <1>1, <1>4 DEF ReadKey, Place
<1>5. CASE ReadPublicKey(p) /\ file["pub"] = publisher[p].key
  BY <1>1, <1>5 DEF ReadPublicKey, Goes, Place
<1>6. CASE ReadEnvelope(p) /\ ~Ends(p)
  BY <1>1, <1>6 DEF ReadEnvelope, Place
<1> QED
  BY <1>2, <1>3, <1>4, <1>5, <1>6 DEF ReadKey, ReadPublicKey, ReadEnvelope

(* While the private key stays, what is of it stays of it.                 *)
LEMMA StoredKeyStep ==
  ASSUME BundleFits, [BundleNext]_bundleVars, OfStoredKey,
         file["key"] \in Key => file'["key"] = file["key"]
  PROVE  OfStoredKey'
<1>1. publisher \in [Publisher -> Place] /\ published \subseteq Key /\ file \in [File -> {Absent, Partial} \cup Key]
  BY DEF BundleFits, BundleTypeOK, Place
<1>2. "pub" \in File /\ "key" \in File /\ "envelope" \in File
  BY DEF File
<1>3. \A p \in Publisher : KeyHeld(p)
  BY DEF BundleFits
<1>4. CASE \E p \in Publisher : BeginPublication(p) \/ ReadKey(p) \/ ReadPublicKey(p) \/ ReadEnvelope(p)
  BY <1>4, ReadTakes DEF OfStoredKey
<1>5. CASE \E p \in Publisher : SignManifest(p) \/ VerifyManifest(p) \/ KillPublisher(p)
  BY <1>1, <1>2, <1>3, <1>5, EndsAtRest, ContentsDiffer DEF OfStoredKey, SignManifest, VerifyManifest, KillPublisher, KeyHeld, Doing, Place
<1>6. CASE \E p \in Publisher, f \in File : IOFails(p, f)
  <2> PICK p \in Publisher, f \in File : IOFails(p, f)
    BY <1>6
  <2>1. /\ publisher'[p].file = "key" /\ publisher'[p].key = NoKey
        /\ \A q \in Publisher : q # p => publisher'[q] = publisher[q]
        /\ file' = [file EXCEPT ![f] = Absent] /\ published' = published
    BY EndsAtRest DEF IOFails
  <2>2. f \in {"key", "pub", "envelope"}
    BY DEF File
  <2> QED
    BY <1>1, <1>2, <2>1, <2>2, ContentsDiffer DEF OfStoredKey, Place
<1>7. CASE \E p \in Publisher, f \in File : LookFor(p, f) \/ CreateFile(p, f) \/ SyncFile(p, f)
  BY <1>1, <1>2, <1>3, <1>7, ContentsDiffer DEF OfStoredKey, LookFor, CreateFile, SyncFile, Goes, KeyHeld, Doing, Place
<1>8. CASE \E p \in Publisher, f \in File : WriteFile(p, f)
  <2> PICK p \in Publisher, f \in File : WriteFile(p, f)
    BY <1>8
  <2>1. file[f] = Partial
    BY DEF WriteFile, BundleFits, Drafted
  <2>2. f # "key" => Payload(p, f) = publisher[p].key /\ publisher[p].key \in Key
    BY <1>3 DEF WriteFile, Doing, Payload, KeyHeld
  <2>3. /\ \A q \in Publisher : publisher'[q].file = publisher[q].file /\ publisher'[q].key = publisher[q].key
        /\ file' = [file EXCEPT ![f] = Payload(p, f)] /\ published' = published /\ publisher[p].file = f
    BY <1>1 DEF WriteFile, Goes, Doing, Place
  <2>4. f \in {"key", "pub", "envelope"}
    BY DEF File
  <2> QED
    BY <1>1, <1>2, <2>1, <2>2, <2>3, <2>4, ContentsDiffer DEF OfStoredKey, Place
<1>9. CASE UNCHANGED bundleVars
  BY <1>9 DEF bundleVars, OfStoredKey
<1> QED
  BY <1>4, <1>5, <1>6, <1>7, <1>8, <1>9 DEF BundleNext


(* While the public part stays, what is of it stays of it.                 *)
LEMMA PublicKeyStep ==
  ASSUME BundleFits, [BundleNext]_bundleVars, OfPublicKey,
         file["pub"] \in Key => file'["pub"] = file["pub"]
  PROVE  OfPublicKey'
<1>1. publisher \in [Publisher -> Place] /\ published \subseteq Key /\ file \in [File -> {Absent, Partial} \cup Key]
  BY DEF BundleFits, BundleTypeOK, Place
<1>2. "pub" \in File /\ "key" \in File /\ "envelope" \in File
  BY DEF File
<1>3. \A p \in Publisher : KeyHeld(p)
  BY DEF BundleFits
<1>4. CASE \E p \in Publisher : BeginPublication(p) \/ ReadKey(p) \/ ReadPublicKey(p) \/ ReadEnvelope(p)
  BY <1>4, ReadTakes DEF OfPublicKey
<1>5. CASE \E p \in Publisher : SignManifest(p) \/ VerifyManifest(p) \/ KillPublisher(p)
  BY <1>1, <1>2, <1>3, <1>5, EndsAtRest, ContentsDiffer DEF OfPublicKey, SignManifest, VerifyManifest, KillPublisher, KeyHeld, Doing, Place
<1>6. CASE \E p \in Publisher, f \in File : IOFails(p, f)
  <2> PICK p \in Publisher, f \in File : IOFails(p, f)
    BY <1>6
  <2>1. /\ publisher'[p].file = "key" /\ publisher'[p].key = NoKey
        /\ \A q \in Publisher : q # p => publisher'[q] = publisher[q]
        /\ file' = [file EXCEPT ![f] = Absent] /\ published' = published
    BY EndsAtRest DEF IOFails
  <2>2. f \in {"key", "pub", "envelope"}
    BY DEF File
  <2> QED
    BY <1>1, <1>2, <2>1, <2>2, ContentsDiffer DEF OfPublicKey, Place
<1>7. CASE \E p \in Publisher, f \in File : LookFor(p, f) \/ CreateFile(p, f) \/ SyncFile(p, f)
  BY <1>1, <1>2, <1>3, <1>7, ContentsDiffer DEF OfPublicKey, LookFor, CreateFile, SyncFile, Goes, KeyHeld, Doing, Place
<1>8. CASE \E p \in Publisher, f \in File : WriteFile(p, f)
  <2> PICK p \in Publisher, f \in File : WriteFile(p, f)
    BY <1>8
  <2>1. file[f] = Partial
    BY DEF WriteFile, BundleFits, Drafted
  <2>2. f # "key" => Payload(p, f) = publisher[p].key /\ publisher[p].key \in Key
    BY <1>3 DEF WriteFile, Doing, Payload, KeyHeld
  <2>3. /\ \A q \in Publisher : publisher'[q].file = publisher[q].file /\ publisher'[q].key = publisher[q].key
        /\ file' = [file EXCEPT ![f] = Payload(p, f)] /\ published' = published /\ publisher[p].file = f
    BY <1>1 DEF WriteFile, Goes, Doing, Place
  <2>4. f \in {"key", "pub", "envelope"}
    BY DEF File
  <2> QED
    BY <1>1, <1>2, <2>1, <2>2, <2>3, <2>4, ContentsDiffer DEF OfPublicKey, Place
<1>9. CASE UNCHANGED bundleVars
  BY <1>9 DEF bundleVars, OfPublicKey
<1> QED
  BY <1>4, <1>5, <1>6, <1>7, <1>8, <1>9 DEF BundleNext

-----------------------------------------------------------------------------
(* One failing write, or two processes *)

LEMMA SignaturesVerifyBy ==
  ASSUME BundleFits, OfStoredKey \/ OfPublicKey
  PROVE  SignaturesVerify
  BY ContentsDiffer DEF BundleFits, BundleTypeOK, OfStoredKey, OfPublicKey, SignaturesVerify, File

LEMMA BothInit ==
  ASSUME BundleInit
  PROVE  OfStoredKey /\ OfPublicKey /\ NothingOut /\ ioErrors = 0
  BY ContentsDiffer DEF BundleInit, OfStoredKey, OfPublicKey, NothingOut, AtRest, File

LEMMA OneFailureStep ==
  ASSUME MaxIOErrors <= 1, BundleFits, OneFailureInv, [BundleNext]_bundleVars
  PROVE  OneFailureInv'
<1>1. ioErrors \in 0..MaxIOErrors /\ MaxIOErrors \in Nat
  BY BundleAssumption DEF BundleFits, BundleTypeOK
<1>2. CASE \E p \in Publisher, f \in File : IOFails(p, f)
  <2> PICK p \in Publisher, f \in File : IOFails(p, f)
    BY <1>2
  <2>1. ioErrors = 0 /\ ioErrors' # 0 /\ file' = [file EXCEPT ![f] = Absent]
    BY <1>1 DEF IOFails
  <2>2. OfStoredKey /\ OfPublicKey
    BY <2>1 DEF OneFailureInv
  <2>3. f # "key" \/ f # "pub"
    OBVIOUS
  <2>4. OfStoredKey' \/ OfPublicKey'
    BY <2>1, <2>2, <2>3, StoredKeyStep, PublicKeyStep DEF BundleFits, BundleTypeOK, File
  <2> QED
    BY <2>1, <2>4 DEF OneFailureInv
<1>3. CASE \A p \in Publisher, f \in File : ~IOFails(p, f)
  <2>1. \A f \in File : file[f] \in Key => file'[f] = file[f]
    BY <1>3, FileKept
  <2>2. ioErrors' = ioErrors
    BY <1>3 DEF BundleNext, bundleVars, BeginPublication, ReadKey, ReadPublicKey, ReadEnvelope, SignManifest,
       VerifyManifest, KillPublisher, LookFor, CreateFile, WriteFile, SyncFile
  <2>3. (OfStoredKey => OfStoredKey') /\ (OfPublicKey => OfPublicKey')
    BY <2>1, StoredKeyStep, PublicKeyStep DEF File
  <2> QED
    BY <2>2, <2>3 DEF OneFailureInv
<1> QED
  BY <1>2, <1>3

(* The step after which an envelope may be made and manifests signed.            *)
PairRead(p) == ReadPublicKey(p) /\ file["pub"] = publisher[p].key

LEMMA PairReadStep ==
  ASSUME BundleFits, NothingOut, [BundleNext]_bundleVars, NEW p \in Publisher, PairRead(p),
         \E q, r \in Publisher : Publisher \subseteq {q, r}
  PROVE  TwoPublishersInv'
<1>1. "pub" \in File /\ "key" \in File /\ "envelope" \in File
  BY DEF File
<1>2. publisher[p].key \in Key /\ publisher[p].file = "pub" /\ file["pub"] = publisher[p].key
      /\ publisher[p].op = "read"
  BY DEF PairRead, ReadPublicKey, Doing, BundleFits, KeyHeld
<1>3. CASE \A q \in Publisher : ~Writes(q, "pub")
  <2>1. Settled("pub")
    BY <1>2, <1>3 DEF Settled
  <2>2. OfPublicKey
    BY <1>1 DEF NothingOut, OfPublicKey, BundleFits, BundleTypeOK
  <2> QED
    BY <1>1, <2>1, <2>2, SettledKept, PublicKeyStep DEF TwoPublishersInv
<1>4. CASE \E q \in Publisher : Writes(q, "pub")
  <2> PICK q \in Publisher : Writes(q, "pub")
    BY <1>4
  <2>1. q # p /\ publisher[q].file = "pub"
    BY <1>2 DEF Writes
  <2>2. publisher[q].key = file["pub"]
    BY <1>1, <1>2, ContentsDiffer DEF Writes, BundleFits, Drafted, Doing, Payload
  <2>3. publisher[p].key = file["key"]
    BY <1>2, <2>1, <2>2, ContentsDiffer DEF NothingOut
  <2>4. Publisher \subseteq {p, q}
    BY <2>1
  <2>5. Settled("key")
    BY <1>2, <2>1, <2>3, <2>4 DEF Settled, Writes
  <2>6. OfStoredKey
    BY <1>1, <1>2, <2>2, <2>3, <2>4 DEF OfStoredKey, NothingOut, BundleFits, BundleTypeOK
  <2> QED
    BY <1>1, <2>5, <2>6, SettledKept, StoredKeyStep DEF TwoPublishersInv
<1> QED
  BY <1>3, <1>4

LEMMA NothingOutStep ==
  ASSUME BundleFits, NothingOut, [BundleNext]_bundleVars, \A p \in Publisher : ~PairRead(p),
         \E q, r \in Publisher : Publisher \subseteq {q, r}
  PROVE  NothingOut'
<1>1. publisher \in [Publisher -> Place] /\ file \in [File -> {Absent, Partial} \cup Key]
  BY DEF BundleFits, BundleTypeOK, Place
<1>2. "pub" \in File /\ "key" \in File /\ "envelope" \in File
  BY DEF File
<1>3. ASSUME NEW p \in Publisher, Ends(p), published' = published,
             file'["key"] = file["key"] \/ publisher[p].file = "key",
             file'["envelope"] \in {Absent, file["envelope"]}
      PROVE  NothingOut'
  <2>1. publisher[p].file = "key" => publisher[p].key = NoKey
    BY DEF BundleFits, KeyHeld, NothingOut
  <2> QED
    BY <1>3, <2>1, EndsAtRest, ContentsDiffer DEF NothingOut
<1>4. CASE \E p \in Publisher : BeginPublication(p) \/ (ReadKey(p) /\ ~Ends(p))
  <2> PICK p \in Publisher : BeginPublication(p) \/ (ReadKey(p) /\ ~Ends(p))
    BY <1>4
  <2>1. /\ publisher'[p].file \in {"key", "pub"} /\ ~publisher'[p].sealed
        /\ publisher'[p].key \in {publisher[p].key, file["key"]}
        /\ \A q \in Publisher : q # p => publisher'[q] = publisher[q]
        /\ file' = file /\ published' = published
    <3>1. CASE BeginPublication(p)
      <4>1. PICK k : publisher' = [publisher EXCEPT ![p].op = "look", ![p].run = @ + 1, ![p].manifest = k]
        BY <3>1 DEF BeginPublication
      <4>2. publisher[p].file = "key" /\ ~publisher[p].sealed
        BY <3>1 DEF BeginPublication, BundleFits, KeyHeld
      <4>3. file' = file /\ published' = published
        BY <3>1 DEF BeginPublication
      <4> QED
        BY <1>1, <4>1, <4>2, <4>3 DEF Place
    <3>2. CASE ReadKey(p) /\ ~Ends(p)
      BY <1>1, <3>2 DEF ReadKey, NothingOut, Place
    <3> QED
      BY <3>1, <3>2
  <2> QED
    BY <1>1, <2>1 DEF NothingOut
<1>5. CASE \E p \in Publisher, f \in File : LookFor(p, f) \/ CreateFile(p, f) \/ SyncFile(p, f) \/ WriteFile(p, f)
  <2> PICK p \in Publisher, f \in File : LookFor(p, f) \/ CreateFile(p, f) \/ SyncFile(p, f) \/ WriteFile(p, f)
    BY <1>5
  <2>1. /\ \A q \in Publisher : /\ publisher'[q].file = publisher[q].file
                               /\ publisher'[q].key = publisher[q].key
                               /\ publisher'[q].sealed = publisher[q].sealed
        /\ publisher[p].file = f /\ published' = published
    BY <1>1 DEF LookFor, CreateFile, SyncFile, WriteFile, Goes, Doing, Place
  <2>2. f # "envelope" /\ (f = "key" => publisher[p].key = NoKey)
    BY <2>1 DEF NothingOut, BundleFits, KeyHeld
  <2>3. \A g \in File : g # f => file'[g] = file[g]
    BY <1>1 DEF LookFor, CreateFile, SyncFile, WriteFile
  <2> QED
    BY <1>2, <2>1, <2>2, <2>3 DEF NothingOut
<1>6. ASSUME NEW p \in Publisher,
             ReadKey(p) \/ ReadPublicKey(p) \/ KillPublisher(p) \/ \E f \in File : IOFails(p, f),
             Ends(p)
      PROVE  NothingOut'
  BY <1>1, <1>2, <1>3, <1>6 DEF ReadKey, ReadPublicKey, KillPublisher, IOFails, Doing, Ends
<1>7. ASSUME NEW p \in Publisher PROVE ~ReadEnvelope(p) /\ ~SignManifest(p) /\ ~VerifyManifest(p)
  BY DEF ReadEnvelope, SignManifest, VerifyManifest, Doing, NothingOut
<1>8. CASE UNCHANGED bundleVars
  BY <1>8 DEF bundleVars, NothingOut
<1>9. ASSUME NEW p \in Publisher
      PROVE  /\ ReadPublicKey(p) => Ends(p)
             /\ KillPublisher(p) => Ends(p)
             /\ \A f \in File : IOFails(p, f) => Ends(p)
  BY DEF PairRead, ReadPublicKey, KillPublisher, IOFails
<1> QED
  BY <1>4, <1>5, <1>6, <1>7, <1>8, <1>9 DEF BundleNext

LEMMA TwoPublishersStep ==
  ASSUME BundleFits, TwoPublishersInv, [BundleNext]_bundleVars,
         \E q, r \in Publisher : Publisher \subseteq {q, r}
  PROVE  TwoPublishersInv'
<1>1. "pub" \in File /\ "key" \in File
  BY DEF File
<1>2. CASE OfStoredKey /\ Settled("key")
  BY <1>1, <1>2, SettledKept, StoredKeyStep DEF TwoPublishersInv
<1>3. CASE OfPublicKey /\ Settled("pub")
  BY <1>1, <1>3, SettledKept, PublicKeyStep DEF TwoPublishersInv
<1>4. CASE NothingOut
  BY <1>4, PairReadStep, NothingOutStep DEF TwoPublishersInv
<1> QED
  BY <1>2, <1>3, <1>4 DEF TwoPublishersInv

LEMMA NothingOutVerifies ==
  ASSUME BundleFits, NothingOut
  PROVE  OfPublicKey
  BY DEF BundleFits, BundleTypeOK, NothingOut, OfPublicKey, File

-----------------------------------------------------------------------------
(* Theorems *)

\* The files and the processes that share them stay well typed, for any numbers
\* of publishers, publications and failing writes (trusted_bundles.py).
THEOREM BundleTypeCorrect == BundleSpec => []BundleTypeOK
<1>1. BundleFits => BundleTypeOK
  BY DEF BundleFits
<1> QED
  BY <1>1, BundleFitsInit, BundleFitsStep, PTL DEF BundleSpec

\* Where one write fails at most, or two processes publish, the envelope and the
\* published manifests verify with signing.pub (_key_pair, seal, public_manifest).
\* With three processes and two failures they need not.
THEOREM SignaturesVerifyAlways ==
  ASSUME MaxIOErrors <= 1 \/ \E q, r \in Publisher : Publisher \subseteq {q, r}
  PROVE  BundleSpec => []SignaturesVerify
<1>1. CASE MaxIOErrors <= 1
  <2>1. BundleInit => BundleFits /\ OneFailureInv
    BY BundleFitsInit, BothInit DEF OneFailureInv
  <2>2. BundleFits /\ OneFailureInv /\ [BundleNext]_bundleVars => (BundleFits /\ OneFailureInv)'
    BY <1>1, BundleFitsStep, OneFailureStep
  <2>3. BundleFits /\ OneFailureInv => SignaturesVerify
    BY SignaturesVerifyBy DEF OneFailureInv
  <2> QED
    BY <2>1, <2>2, <2>3, PTL DEF BundleSpec
<1>2. CASE \E q, r \in Publisher : Publisher \subseteq {q, r}
  <2>1. BundleInit => BundleFits /\ TwoPublishersInv
    BY BundleFitsInit, BothInit DEF TwoPublishersInv
  <2>2. BundleFits /\ TwoPublishersInv /\ [BundleNext]_bundleVars => (BundleFits /\ TwoPublishersInv)'
    BY <1>2, BundleFitsStep, TwoPublishersStep
  <2>3. BundleFits /\ TwoPublishersInv => SignaturesVerify
    BY SignaturesVerifyBy, NothingOutVerifies DEF TwoPublishersInv
  <2> QED
    BY <2>1, <2>2, <2>3, PTL DEF BundleSpec
<1> QED
  BY <1>1, <1>2
=================================================================================
