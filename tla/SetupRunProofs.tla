---------------------------- MODULE SetupRunProofs ----------------------------
(***************************************************************************)
(* TLAPS proofs about SetupRun, for any probes, sessions, Apps, commits    *)
(* and failures.                                                           *)
(***************************************************************************)
EXTENDS SetupRun, WellFoundedInduction, TLAPS

(* What the database, the files and GitHub hold.                            *)
StoreOK ==
  /\ status \in {"absent", "provisioning", "action_required", "failed", "ready"}
  /\ steps \in [Step -> StepStatus]
  /\ probes \in [Probe -> ProbeRow] /\ hub \in [Probe -> ActionsRun]
  /\ control \in 0..MaxCommit /\ main \in 1..MaxCommit
  /\ sessions \in [Session -> SessionRow]
  /\ config \in [app : 0..MaxApps, installation : 0..MaxApps]
  /\ key \in 0..MaxApps /\ secret \in 0..MaxApps
  /\ installed \subseteq App /\ created \in 0..MaxApps
  /\ failures \in 0..MaxFailures

(* A resume that has a probe in hand, a callback that serves a session.     *)
HandlesProbe == {"dispatch", "reject", "observe", "bind", "decide"}
ResumeFits(e) == e.pc \in HandlesProbe => e.probe \in Probe
ResumesOK == resume \in [Resumer -> Resume] /\ \A r \in Resumer : ResumeFits(resume[r])

RequestFits(e) == e.pc # "idle" => e.session \in Session /\ e.app \in App
CallbacksOK == callback \in [Callback -> Request] /\ \A b \in Callback : RequestFits(callback[b])

TypeInv == StoreOK /\ ResumesOK /\ CallbacksOK

LEMMA InvType == TypeInv => TypeOK
BY DEF TypeInv, StoreOK, ResumesOK, CallbacksOK, TypeOK

-----------------------------------------------------------------------------
(* The newest of the open probes is one of them: there are finitely many.   *)
LEMMA NewestExists ==
  ASSUME NEW S, S \subseteq Probe, S # {}
  PROVE  Newest(S) \in S /\ \A q \in S : q <= Newest(S)
<1> DEFINE T == {MaxProbes - p : p \in S}
           R == OpToRel(<, Nat)
<1>1. MaxProbes \in Nat /\ S \subseteq Nat /\ \A p \in S : p <= MaxProbes
  BY SetupAssumption DEF Probe
<1>2. T \subseteq Nat /\ T # {}
  BY <1>1
<1>3. IsWellFoundedOn(R, Nat)
  BY NatLessThanWellFounded, Zenon
<1>4. \A m, n \in Nat : m < n => <<m, n>> \in R
  BY Zenon DEF OpToRel
<1> HIDE DEF R
<1>5. PICK m \in T : \A n \in T : <<n, m>> \notin R
  BY <1>2, <1>3, WFMin
<1>6. PICK p \in S : m = MaxProbes - p
  OBVIOUS
<1>7. \A q \in S : q <= p
  <2> SUFFICES ASSUME NEW q \in S PROVE q <= p
    OBVIOUS
  <2>1. MaxProbes - q \in T
    OBVIOUS
  <2>2. ~(MaxProbes - q < m)
    BY <1>2, <1>4, <1>5, <2>1
  <2> QED
    BY <1>1, <1>6, <2>2
<1> QED
  BY <1>7 DEF Newest

LEMMA StepNames ==
  /\ Step = {"github_app", "evaluator_controls", "hosted_ci_probe", "worker_health"}
  /\ \A i \in 1..4 : SetupSteps[i] \in Step
  /\ SetupSteps[1] = "github_app" /\ SetupSteps[2] = "evaluator_controls"
  /\ SetupSteps[3] = "hosted_ci_probe" /\ SetupSteps[4] = "worker_health"
<1>1. 1..4 = {1, 2, 3, 4}
  OBVIOUS
<1> QED
  BY <1>1 DEF Step, SetupSteps

LEMMA NoResumeType == NoResume \in Resume /\ ResumeFits(NoResume)
BY StepNames, SetupAssumption DEF NoResume, Resume, ResumeFits, HandlesProbe, None, Outcome

LEMMA NoRequestType == NoRequest \in Request /\ RequestFits(NoRequest)
BY SetupAssumption DEF NoRequest, Request, RequestFits, None

LEMMA InitType == Init => TypeInv
<1> SUFFICES ASSUME Init PROVE TypeInv
  OBVIOUS
<1>1. 0 \in 0..MaxCommit /\ 1 \in 1..MaxCommit /\ 0 \in 0..MaxApps /\ 0 \in 0..MaxFailures
      /\ 0 \in 0..MaxProbes /\ 0 \in 0..MaxStarts
  BY SetupAssumption
<1>2. probes \in [Probe -> ProbeRow] /\ hub \in [Probe -> ActionsRun]
  BY <1>1 DEF Init, ProbeRow, ActionsRun
<1>3. sessions \in [Session -> SessionRow]
  BY <1>1 DEF Init, SessionRow, None
<1>4. config \in [app : 0..MaxApps, installation : 0..MaxApps] /\ steps \in [Step -> StepStatus]
  BY <1>1 DEF Init, None, StepStatus
<1>5. StoreOK
  BY <1>1, <1>2, <1>3, <1>4 DEF Init, StoreOK, None
<1>6. ResumesOK
  BY <1>1, NoResumeType DEF Init, ResumesOK
<1>7. CallbacksOK
  BY NoRequestType DEF Init, CallbacksOK
<1> QED
  BY <1>5, <1>6, <1>7 DEF TypeInv

-----------------------------------------------------------------------------
(* Steps of a resume *)

LEMMA ResumeMoves ==
  ASSUME TypeInv, NEW r \in Resumer, NEW e \in Resume, ResumeFits(e),
         resume' = [resume EXCEPT ![r] = e]
  PROVE  ResumesOK' /\ resume'[r] = e
BY DEF TypeInv, ResumesOK

(* What a step leaves of the work in hand.                                  *)
SameWork(r) ==
  /\ resume'[r].todo = resume[r].todo /\ resume'[r].step = resume[r].step
  /\ resume'[r].probe = resume[r].probe /\ resume'[r].seen = resume[r].seen
Moves(r, pc) == SameWork(r) /\ resume'[r].pc = pc
Ends(r, outcome) == Moves(r, "apply") /\ resume'[r].outcome = outcome

LEMMA GoToMoves ==
  ASSUME TypeInv, NEW r \in Resumer,
         NEW pc \in {"snapshot", "open", "observe", "reject", "decide"},
         pc \in HandlesProbe => resume[r].probe \in Probe, GoTo(r, pc)
  PROVE  ResumesOK' /\ Moves(r, pc)
<1> DEFINE e == [resume[r] EXCEPT !.pc = pc]
<1>1. resume \in [Resumer -> Resume] /\ resume[r] \in Resume
  BY DEF TypeInv, ResumesOK
<1>2. e \in Resume /\ ResumeFits(e) /\ e.pc = pc /\ e.todo = resume[r].todo
      /\ e.step = resume[r].step /\ e.probe = resume[r].probe /\ e.seen = resume[r].seen
  BY <1>1 DEF Resume, ResumeFits
<1>3. resume' = [resume EXCEPT ![r] = e]
  BY <1>1 DEF GoTo
<1> HIDE DEF e
<1> QED
  BY <1>2, <1>3, ResumeMoves DEF Moves, SameWork

LEMMA EndMoves ==
  ASSUME TypeInv, NEW r \in Resumer, NEW outcome \in Outcome, End(r, outcome)
  PROVE  ResumesOK' /\ Ends(r, outcome)
<1> DEFINE e == [resume[r] EXCEPT !.pc = "apply", !.outcome = outcome]
<1>1. resume \in [Resumer -> Resume] /\ resume[r] \in Resume
  BY DEF TypeInv, ResumesOK
<1>2. e \in Resume /\ ResumeFits(e) /\ e.pc = "apply" /\ e.outcome = outcome
      /\ e.todo = resume[r].todo
      /\ e.step = resume[r].step /\ e.probe = resume[r].probe /\ e.seen = resume[r].seen
  BY <1>1 DEF Resume, ResumeFits, HandlesProbe
<1>3. resume' = [resume EXCEPT ![r] = e]
  BY <1>1 DEF End
<1> HIDE DEF e
<1> QED
  BY <1>2, <1>3, ResumeMoves DEF Ends, Moves, SameWork

LEMMA ResumeEnds ==
  ASSUME TypeInv, NEW r \in Resumer, resume' = [resume EXCEPT ![r] = NoResume]
  PROVE  ResumesOK' /\ resume'[r].pc = "idle"
<1>1. resume'[r] = NoResume /\ ResumesOK'
  BY ResumeMoves, NoResumeType
<1> QED
  BY <1>1 DEF NoResume

LEMMA ProbeInHand ==
  ASSUME TypeInv, NEW r \in Resumer, resume[r].pc \in HandlesProbe
  PROVE  resume[r].probe \in Probe
BY DEF TypeInv, ResumesOK, ResumeFits

(* A resume that changes neither the store nor GitHub.                      *)
LEMMA StoreStays ==
  ASSUME TypeInv, UNCHANGED <<run, probes, control, sessions, files, github, callback, failures>>
  PROVE  StoreOK' /\ CallbacksOK'
BY DEF TypeInv, StoreOK, CallbacksOK, run, files, github

LEMMA BeginType ==
  ASSUME TypeInv, Begin PROVE TypeInv'
BY DEF Begin, TypeInv, StoreOK, ResumesOK, CallbacksOK, outside, files, github

LEMMA StartResumeType ==
  ASSUME TypeInv, NEW r \in Resumer, StartResume(r)
  PROVE  TypeInv' /\ resume'[r].pc = "reopen"
<1> DEFINE h == None \notin {config.app, config.installation, secret}
           e == [resume[r] EXCEPT !.pc = "reopen", !.hasApp = h]
<1>1. resume \in [Resumer -> Resume] /\ resume[r] \in Resume /\ h \in BOOLEAN
  BY DEF TypeInv, ResumesOK
<1>2. resume' = [resume EXCEPT ![r] = e]
  BY <1>1 DEF StartResume
<1> HIDE DEF h
<1>3. e \in Resume /\ ResumeFits(e) /\ e.pc = "reopen"
  BY <1>1 DEF Resume, ResumeFits, HandlesProbe
<1> HIDE DEF e
<1>4. ResumesOK' /\ resume'[r].pc = "reopen"
  BY <1>2, <1>3, ResumeMoves
<1>5. steps' \in [Step -> StepStatus]
  BY DEF StartResume, TypeInv, StoreOK, StepStatus, Outcome
<1>6. UNCHANGED <<status, probes, control, outside, github, failures>>
  BY DEF StartResume
<1>7. StoreOK' /\ CallbacksOK'
  BY <1>5, <1>6 DEF TypeInv, StoreOK, CallbacksOK, outside, files, github
<1> QED
  BY <1>4, <1>7 DEF TypeInv

LEMMA ReopenType ==
  ASSUME TypeInv, NEW r \in Resumer, Reopen(r)
  PROVE  TypeInv' /\ Moves(r, "snapshot")
<1>1. ResumesOK' /\ Moves(r, "snapshot")
  BY GoToMoves DEF Reopen, HandlesProbe
<1>2. status' = "provisioning" /\ UNCHANGED <<steps, probes, control, outside, github, failures>>
  BY DEF Reopen
<1>3. StoreOK' /\ CallbacksOK'
  BY <1>2 DEF TypeInv, StoreOK, CallbacksOK, outside, files, github
<1> QED
  BY <1>1, <1>3 DEF TypeInv

LEMMA SnapshotType ==
  ASSUME TypeInv, NEW r \in Resumer, Snapshot(r)
  PROVE  /\ TypeInv' /\ resume'[r].pc = "next"
         /\ resume'[r].todo = {s \in Step : steps[s] # "complete"}
<1> DEFINE open == {s \in Step : steps[s] # "complete"}
           e == [resume[r] EXCEPT !.pc = "next", !.todo = open]
<1>1. resume \in [Resumer -> Resume] /\ resume[r] \in Resume /\ open \in SUBSET Step
  BY DEF TypeInv, ResumesOK
<1>2. resume' = [resume EXCEPT ![r] = e]
  BY <1>1 DEF Snapshot, IsOpen
<1> HIDE DEF open
<1>3. e \in Resume /\ ResumeFits(e) /\ e.pc = "next" /\ e.todo = open
  BY <1>1 DEF Resume, ResumeFits, HandlesProbe
<1> HIDE DEF e
<1>4. ResumesOK' /\ resume'[r].pc = "next" /\ resume'[r].todo = open
  BY <1>2, <1>3, ResumeMoves
<1>5. StoreOK' /\ CallbacksOK'
  BY StoreStays DEF Snapshot, outside
<1> QED
  BY <1>4, <1>5 DEF TypeInv, open

(* The first step in order that is to be done.                              *)
LEMMA MarkRunningType ==
  ASSUME TypeInv, NEW r \in Resumer, MarkRunning(r)
  PROVE  \E s \in resume[r].todo :
           /\ TypeInv' /\ resume'[r].pc = "execute" /\ resume'[r].step = s
           /\ resume'[r].todo = resume[r].todo
           /\ steps' = [steps EXCEPT ![s] = "running"] /\ s \in Step
           /\ s = "hosted_ci_probe" => "evaluator_controls" \notin resume[r].todo
<1>1. PICK i \in 1..4 :
        /\ SetupSteps[i] \in resume[r].todo
        /\ \A j \in 1..(i - 1) : SetupSteps[j] \notin resume[r].todo
        /\ steps' = [steps EXCEPT ![SetupSteps[i]] = "running"]
        /\ resume' = [resume EXCEPT ![r].pc = "execute", ![r].step = SetupSteps[i]]
  BY DEF MarkRunning
<1> DEFINE s == SetupSteps[i]
           e == [resume[r] EXCEPT !.pc = "execute", !.step = s]
<1>2. resume \in [Resumer -> Resume] /\ resume[r] \in Resume /\ s \in Step
  BY StepNames DEF TypeInv, ResumesOK
<1>3. s = "hosted_ci_probe" => "evaluator_controls" \notin resume[r].todo
  <2> SUFFICES ASSUME s = "hosted_ci_probe" PROVE SetupSteps[2] \notin resume[r].todo
    BY StepNames
  <2>1. i \in {1, 2, 3, 4}
    OBVIOUS
  <2>2. i = 3
    BY <2>1, StepNames
  <2> QED
    BY <1>1, <2>2
<1>4. resume' = [resume EXCEPT ![r] = e]
  BY <1>1, <1>2
<1>5. steps' = [steps EXCEPT ![s] = "running"] /\ s \in resume[r].todo
  BY <1>1
<1> HIDE DEF s
<1>6. e \in Resume /\ ResumeFits(e) /\ e.pc = "execute" /\ e.step = s /\ e.todo = resume[r].todo
  BY <1>2 DEF Resume, ResumeFits, HandlesProbe
<1> HIDE DEF e
<1>7. ResumesOK' /\ resume'[r] = e
  BY <1>4, <1>6, ResumeMoves
<1>8. steps' \in [Step -> StepStatus]
  BY <1>2, <1>5 DEF TypeInv, StoreOK, StepStatus
<1>9. UNCHANGED <<status, probes, control, outside, github, failures>>
  BY DEF MarkRunning
<1>10. StoreOK' /\ CallbacksOK'
  BY <1>8, <1>9 DEF TypeInv, StoreOK, CallbacksOK, outside, files, github
<1> QED
  BY <1>2, <1>3, <1>5, <1>6, <1>7, <1>10 DEF TypeInv

LEMMA BecomeReadyType ==
  ASSUME TypeInv, NEW r \in Resumer, BecomeReady(r)
  PROVE  TypeInv' /\ resume'[r].pc = "idle"
<1>1. ResumesOK' /\ resume'[r].pc = "idle"
  BY ResumeEnds DEF BecomeReady
<1>2. status' = "ready" /\ UNCHANGED <<steps, probes, control, outside, github, failures>>
  BY DEF BecomeReady
<1>3. StoreOK' /\ CallbacksOK'
  BY <1>2 DEF TypeInv, StoreOK, CallbacksOK, outside, files, github
<1> QED
  BY <1>1, <1>3 DEF TypeInv

LEMMA ApplyOutcomeType ==
  ASSUME TypeInv, NEW r \in Resumer, ApplyOutcome(r)
  PROVE  /\ TypeInv'
         /\ resume[r].step \in Step /\ resume[r].outcome \in Outcome
         /\ steps' = [steps EXCEPT ![resume[r].step] = resume[r].outcome]
         /\ resume[r].outcome = "complete" =>
              resume'[r].pc = "next" /\ resume'[r].todo = resume[r].todo \ {resume[r].step}
         /\ resume[r].outcome # "complete" => Moves(r, "stop")
<1> DEFINE d == [NoResume EXCEPT !.pc = "next", !.todo = resume[r].todo \ {resume[r].step},
                                 !.hasApp = resume[r].hasApp]
           e == [resume[r] EXCEPT !.pc = "stop"]
<1>1. resume \in [Resumer -> Resume] /\ resume[r] \in Resume
  BY DEF TypeInv, ResumesOK
<1>2. resume[r].step \in Step /\ resume[r].outcome \in Outcome /\ resume[r].todo \subseteq Step
      /\ resume[r].hasApp \in BOOLEAN
  BY <1>1 DEF Resume
<1>3. steps' = [steps EXCEPT ![resume[r].step] = resume[r].outcome]
  BY DEF ApplyOutcome
<1>4. ASSUME resume[r].outcome = "complete"
      PROVE  ResumesOK' /\ resume'[r].pc = "next"
             /\ resume'[r].todo = resume[r].todo \ {resume[r].step}
  <2>1. resume' = [resume EXCEPT ![r] = d]
    BY <1>4 DEF ApplyOutcome
  <2>2. d.pc = "next" /\ d.todo = resume[r].todo \ {resume[r].step} /\ d \in Resume
    BY <1>2, NoResumeType DEF Resume
  <2> HIDE DEF d
  <2>3. ResumeFits(d)
    BY <2>2 DEF ResumeFits, HandlesProbe
  <2> QED
    BY <1>4, <2>1, <2>2, <2>3, ResumeMoves
<1>5. ASSUME resume[r].outcome # "complete"
      PROVE  ResumesOK' /\ Moves(r, "stop")
  <2>1. resume' = [resume EXCEPT ![r] = e]
    BY <1>1, <1>5 DEF ApplyOutcome
  <2>2. e.pc = "stop" /\ e.todo = resume[r].todo /\ e.step = resume[r].step
        /\ e.probe = resume[r].probe /\ e.seen = resume[r].seen /\ e \in Resume
    BY <1>1 DEF Resume
  <2> HIDE DEF e
  <2>3. ResumeFits(e)
    BY <2>2 DEF ResumeFits, HandlesProbe
  <2> QED
    BY <1>5, <2>1, <2>2, <2>3, ResumeMoves DEF Moves, SameWork
<1>6. steps' \in [Step -> StepStatus]
  BY <1>2, <1>3 DEF TypeInv, StoreOK, StepStatus
<1>7. UNCHANGED <<status, probes, control, outside, github, failures>>
  BY DEF ApplyOutcome
<1>8. StoreOK' /\ CallbacksOK'
  BY <1>6, <1>7 DEF TypeInv, StoreOK, CallbacksOK, outside, files, github
<1> HIDE DEF d, e
<1>9. ResumesOK'
  BY <1>4, <1>5
<1> QED
  BY <1>2, <1>3, <1>4, <1>5, <1>8, <1>9 DEF TypeInv

LEMMA StopResumeType ==
  ASSUME TypeInv, NEW r \in Resumer, StopResume(r)
  PROVE  TypeInv' /\ resume'[r].pc = "idle" /\ status' # "ready"
<1>1. ResumesOK' /\ resume'[r].pc = "idle"
  BY ResumeEnds DEF StopResume
<1>2. status' \in {"action_required", "failed"}
      /\ UNCHANGED <<steps, probes, control, outside, github, failures>>
  BY DEF StopResume
<1>3. StoreOK' /\ CallbacksOK'
  BY <1>2 DEF TypeInv, StoreOK, CallbacksOK, outside, files, github
<1> QED
  BY <1>1, <1>2, <1>3 DEF TypeInv

LEMMA FailureCounted ==
  ASSUME TypeInv, failures < MaxFailures, failures' = failures + 1
  PROVE  failures' \in 0..MaxFailures
BY SetupAssumption DEF TypeInv, StoreOK

LEMMA KillType ==
  ASSUME TypeInv, NEW r \in Resumer, Kill(r)
  PROVE  TypeInv' /\ resume'[r].pc = "idle"
<1>1. ResumesOK' /\ resume'[r].pc = "idle"
  BY ResumeEnds DEF Kill
<1>2. failures' \in 0..MaxFailures
  BY FailureCounted DEF Kill
<1>3. UNCHANGED <<run, probes, control, outside, github>>
  BY DEF Kill
<1>4. StoreOK' /\ CallbacksOK'
  BY <1>2, <1>3 DEF TypeInv, StoreOK, CallbacksOK, run, outside, files, github
<1> QED
  BY <1>1, <1>4 DEF TypeInv

-----------------------------------------------------------------------------
(* Steps of the executor *)

LEMMA CheckOutsideType ==
  ASSUME TypeInv, NEW r \in Resumer, CheckOutside(r)
  PROVE  TypeInv' /\ \E outcome \in Outcome : Ends(r, outcome)
<1>1. ResumesOK' /\ \E outcome \in Outcome : Ends(r, outcome)
  BY EndMoves DEF CheckOutside
<1>2. StoreOK' /\ CallbacksOK'
  BY StoreStays DEF CheckOutside, outside
<1> QED
  BY <1>1, <1>2 DEF TypeInv

LEMMA CheckAppType ==
  ASSUME TypeInv, NEW r \in Resumer, CheckApp(r)
  PROVE  TypeInv' /\ \E outcome \in Outcome : Ends(r, outcome)
<1>1. \E outcome \in Outcome : End(r, outcome)
  BY DEF CheckApp, Outcome
<1>2. ResumesOK' /\ \E outcome \in Outcome : Ends(r, outcome)
  BY <1>1, EndMoves
<1>3. StoreOK' /\ CallbacksOK'
  BY StoreStays DEF CheckApp, outside
<1> QED
  BY <1>2, <1>3 DEF TypeInv

LEMMA InstallControlsType ==
  ASSUME TypeInv, NEW r \in Resumer, InstallControls(r)
  PROVE  TypeInv' /\ \E outcome \in Outcome : Ends(r, outcome)
<1>1. \E outcome \in Outcome : End(r, outcome)
  BY DEF InstallControls, Outcome
<1>2. ResumesOK' /\ \E outcome \in Outcome : Ends(r, outcome)
  BY <1>1, EndMoves
<1>3. control' \in 0..MaxCommit /\ UNCHANGED <<run, probes, outside, github, failures>>
  BY SetupAssumption DEF InstallControls, TypeInv, StoreOK
<1>4. StoreOK' /\ CallbacksOK'
  BY <1>3 DEF TypeInv, StoreOK, CallbacksOK, run, outside, files, github
<1> QED
  BY <1>2, <1>4 DEF TypeInv

LEMMA FindPassedType ==
  ASSUME TypeInv, NEW r \in Resumer, FindPassed(r)
  PROVE  TypeInv' /\ (\/ Moves(r, "open")
                      \/ Ends(r, "failed_terminal")
                      \/ Ends(r, "complete") /\ \E p \in Probe : probes[p].status = "passed")
<1> DEFINE isPassed == \E p \in Probe : probes[p].status = "passed"
           isPlaced == \/ Moves(r, "open")
                       \/ Ends(r, "failed_terminal")
                       \/ Ends(r, "complete") /\ isPassed
<1>1. \/ isPassed /\ End(r, "complete")
      \/ End(r, "failed_terminal")
      \/ GoTo(r, "open")
  BY DEF FindPassed
<1> HIDE DEF isPassed
<1>2. ASSUME isPassed /\ End(r, "complete") PROVE ResumesOK' /\ isPlaced
  BY <1>2, EndMoves DEF Outcome
<1>3. ASSUME End(r, "failed_terminal") PROVE ResumesOK' /\ isPlaced
  BY <1>3, EndMoves DEF Outcome
<1>4. ASSUME GoTo(r, "open") PROVE ResumesOK' /\ isPlaced
  BY <1>4, GoToMoves DEF HandlesProbe
<1>5. StoreOK' /\ CallbacksOK'
  BY StoreStays DEF FindPassed, outside
<1>6. ResumesOK' /\ isPlaced
  BY <1>1, <1>2, <1>3, <1>4
<1> QED
  BY <1>5, <1>6 DEF TypeInv, isPassed

LEMMA OpenProbesType == OpenProbes \subseteq Probe
BY DEF OpenProbes

LEMMA FindOpenType ==
  ASSUME TypeInv, NEW r \in Resumer, FindOpen(r)
  PROVE  /\ TypeInv' /\ resume'[r].pc = "observe"
         /\ resume'[r].todo = resume[r].todo /\ resume'[r].step = resume[r].step
         /\ resume'[r].probe \in OpenProbes
<1> DEFINE p == Newest(OpenProbes)
           e == [resume[r] EXCEPT !.pc = "observe", !.probe = p]
<1>1. p \in OpenProbes /\ p \in Probe
  BY NewestExists, OpenProbesType DEF FindOpen
<1>2. p \in 0..MaxProbes
  BY <1>1, SetupAssumption DEF Probe
<1>3. resume \in [Resumer -> Resume] /\ resume[r] \in Resume
  BY DEF TypeInv, ResumesOK
<1>4. resume' = [resume EXCEPT ![r] = e]
  BY <1>3 DEF FindOpen
<1> HIDE DEF p
<1>5. /\ e \in Resume /\ ResumeFits(e) /\ e.pc = "observe" /\ e.probe = p
      /\ e.todo = resume[r].todo /\ e.step = resume[r].step
  BY <1>1, <1>2, <1>3 DEF Resume, ResumeFits
<1> HIDE DEF e
<1>6. ResumesOK' /\ resume'[r] = e
  BY <1>4, <1>5, ResumeMoves
<1>7. StoreOK' /\ CallbacksOK'
  BY StoreStays DEF FindOpen, outside
<1> QED
  BY <1>1, <1>5, <1>6, <1>7 DEF TypeInv

(* The rows of the probe table under a change of one of them.               *)
LEMMA ProbesStay ==
  ASSUME TypeInv, NEW p \in Probe, NEW row \in ProbeRow, probes' = [probes EXCEPT ![p] = row]
  PROVE  /\ probes' \in [Probe -> ProbeRow] /\ probes'[p] = row
         /\ \A q \in Probe : q # p => probes'[q] = probes[q]
BY DEF TypeInv, StoreOK

LEMMA ProbesTyped ==
  ASSUME TypeInv, probes' \in [Probe -> ProbeRow], UNCHANGED <<run, control, outside, github, failures>>
  PROVE  StoreOK' /\ CallbacksOK'
BY DEF TypeInv, StoreOK, CallbacksOK, run, outside, files, github

LEMMA InsertProbeType ==
  ASSUME TypeInv, NEW r \in Resumer, InsertProbe(r)
  PROVE  /\ TypeInv' /\ resume'[r].pc = "dispatch"
         /\ resume'[r].todo = resume[r].todo /\ resume'[r].step = resume[r].step
         /\ LET p == resume'[r].probe
            IN /\ p \in Probe /\ probes[p].status = "absent"
               /\ probes'[p].status = "dispatching" /\ probes'[p].commit = control
               /\ probes'[p].run = probes[p].run
               /\ \A q \in Probe : q # p => probes'[q] = probes[q]
<1>1. PICK p \in Probe :
        /\ \A q \in Probe : probes[q].status = "absent" <=> q >= p
        /\ probes' = [probes EXCEPT ![p].status = "dispatching", ![p].commit = control]
        /\ resume' = [resume EXCEPT ![r].pc = "dispatch", ![r].probe = p]
  BY DEF InsertProbe
<1> DEFINE e == [resume[r] EXCEPT !.pc = "dispatch", !.probe = p]
           row == [probes[p] EXCEPT !.status = "dispatching", !.commit = control]
<1>2. /\ resume \in [Resumer -> Resume] /\ resume[r] \in Resume
      /\ probes \in [Probe -> ProbeRow] /\ probes[p] \in ProbeRow /\ control \in 0..MaxCommit
  BY DEF TypeInv, ResumesOK, StoreOK
<1>3. p \in 0..MaxProbes /\ p >= p
  BY SetupAssumption DEF Probe
<1>4. resume' = [resume EXCEPT ![r] = e]
  BY <1>1, <1>2
<1>5. probes' = [probes EXCEPT ![p] = row]
  BY <1>1, <1>2
<1>6. probes[p].status = "absent"
  BY <1>1, <1>3
<1>7. /\ e \in Resume /\ ResumeFits(e) /\ e.pc = "dispatch" /\ e.probe = p
      /\ e.todo = resume[r].todo /\ e.step = resume[r].step
  BY <1>2, <1>3 DEF Resume, ResumeFits
<1>8. /\ row \in ProbeRow /\ row.status = "dispatching" /\ row.commit = control
      /\ row.run = probes[p].run
  BY <1>2 DEF ProbeRow
<1> HIDE DEF e, row
<1>9. ResumesOK' /\ resume'[r] = e
  BY <1>4, <1>7, ResumeMoves
<1>10. /\ probes' \in [Probe -> ProbeRow] /\ probes'[p] = row
       /\ \A q \in Probe : q # p => probes'[q] = probes[q]
  BY <1>5, <1>8, ProbesStay
<1>11. StoreOK' /\ CallbacksOK'
  BY <1>10, ProbesTyped DEF InsertProbe
<1> QED
  BY <1>6, <1>7, <1>8, <1>9, <1>10, <1>11 DEF TypeInv

LEMMA HubTyped ==
  ASSUME TypeInv, hub' \in [Probe -> ActionsRun],
         UNCHANGED <<run, probes, control, outside, main, installed, created, failures>>
  PROVE  StoreOK' /\ CallbacksOK'
BY DEF TypeInv, StoreOK, CallbacksOK, run, outside, files

(* The run is queued or it is not; the reply may be lost either way.        *)
LEMMA DispatchProbeType ==
  ASSUME TypeInv, NEW r \in Resumer, DispatchProbe(r)
  PROVE  /\ TypeInv' /\ (Moves(r, "observe") \/ Moves(r, "reject"))
         /\ \A p \in Probe : p # resume[r].probe => hub'[p] = hub[p]
<1>1. resume[r].probe \in Probe
  BY ProbeInHand DEF DispatchProbe, At, HandlesProbe
<1> DEFINE p == resume[r].probe
           h == [state |-> "queued", commit |-> main]
<1>2. hub' = [hub EXCEPT ![p] = h] \/ hub' = hub
  BY DEF DispatchProbe
<1>3. hub \in [Probe -> ActionsRun] /\ h \in ActionsRun
  BY SetupAssumption DEF TypeInv, StoreOK, ActionsRun
<1> HIDE DEF h
<1>4. hub' \in [Probe -> ActionsRun] /\ \A q \in Probe : q # p => hub'[q] = hub[q]
  BY <1>1, <1>2, <1>3
<1>5. GoTo(r, "observe") \/ GoTo(r, "reject")
  BY DEF DispatchProbe
<1>6. ResumesOK' /\ (Moves(r, "observe") \/ Moves(r, "reject"))
  BY <1>1, <1>5, GoToMoves
<1>7. StoreOK' /\ CallbacksOK'
  BY <1>4, HubTyped DEF DispatchProbe
<1> QED
  BY <1>4, <1>6, <1>7 DEF TypeInv

LEMMA RejectProbeType ==
  ASSUME TypeInv, NEW r \in Resumer, RejectProbe(r)
  PROVE  /\ TypeInv' /\ Ends(r, "failed_retryable")
         /\ LET p == resume[r].probe
            IN /\ p \in Probe /\ probes'[p].status = "failed"
               /\ probes'[p].commit = probes[p].commit /\ probes'[p].run = probes[p].run
               /\ \A q \in Probe : q # p => probes'[q] = probes[q]
<1> DEFINE p == resume[r].probe
           row == [probes[p] EXCEPT !.status = "failed"]
<1>1. p \in Probe
  BY ProbeInHand DEF RejectProbe, At, HandlesProbe
<1>2. probes \in [Probe -> ProbeRow] /\ probes[p] \in ProbeRow
  BY <1>1 DEF TypeInv, StoreOK
<1>3. probes' = [probes EXCEPT ![p] = row]
  BY <1>1, <1>2 DEF RejectProbe
<1>4. /\ row \in ProbeRow /\ row.status = "failed" /\ row.commit = probes[p].commit
      /\ row.run = probes[p].run
  BY <1>2 DEF ProbeRow
<1> HIDE DEF row
<1>5. /\ probes' \in [Probe -> ProbeRow] /\ probes'[p] = row
      /\ \A q \in Probe : q # p => probes'[q] = probes[q]
  BY <1>1, <1>3, <1>4, ProbesStay
<1>6. StoreOK' /\ CallbacksOK'
  BY <1>5, ProbesTyped DEF RejectProbe
<1>7. ResumesOK' /\ Ends(r, "failed_retryable")
  BY EndMoves DEF RejectProbe, Outcome
<1> QED
  BY <1>1, <1>4, <1>5, <1>6, <1>7 DEF TypeInv

(* What a look at the run of a probe can lead to.                           *)
Sees(r, pc) ==
  /\ resume'[r].todo = resume[r].todo /\ resume'[r].step = resume[r].step
  /\ resume'[r].probe = resume[r].probe
  /\ resume'[r].pc = pc /\ resume'[r].seen = hub[resume[r].probe].state

LEMMA Seen ==
  ASSUME TypeInv, NEW r \in Resumer, resume[r].probe \in Probe, NEW pc \in {"bind", "decide"},
         resume' = [resume EXCEPT ![r].seen = hub[resume[r].probe].state, ![r].pc = pc]
  PROVE  ResumesOK' /\ Sees(r, pc)
<1> DEFINE state == hub[resume[r].probe].state
           e == [resume[r] EXCEPT !.seen = state, !.pc = pc]
<1>1. resume \in [Resumer -> Resume] /\ resume[r] \in Resume
  BY DEF TypeInv, ResumesOK
<1>2. state \in {"absent", "queued", "success", "failure"}
  BY DEF TypeInv, StoreOK, ActionsRun
<1>3. resume' = [resume EXCEPT ![r] = e]
  BY <1>1
<1> HIDE DEF state
<1>4. /\ e \in Resume /\ ResumeFits(e) /\ e.pc = pc /\ e.seen = state
      /\ e.todo = resume[r].todo /\ e.step = resume[r].step /\ e.probe = resume[r].probe
  BY <1>1, <1>2 DEF Resume, ResumeFits
<1> HIDE DEF e
<1> QED
  BY <1>3, <1>4, ResumeMoves DEF Sees, state

LEMMA ObserveProbeType ==
  ASSUME TypeInv, NEW r \in Resumer, ObserveProbe(r)
  PROVE  /\ TypeInv'
         /\ LET p == resume[r].probe
            IN \/ Sees(r, "decide") /\ probes[p].run
               \/ /\ Sees(r, "bind") /\ hub[p].state # "absent"
                  /\ hub[p].commit = probes[p].commit
               \/ \E outcome \in {"waiting_user", "failed_retryable"} : Ends(r, outcome)
<1> DEFINE p == resume[r].probe
           seen == [resume EXCEPT ![r].seen = hub[p].state]
<1>1. p \in Probe
  BY ProbeInHand DEF ObserveProbe, At, HandlesProbe
<1>2. \/ probes[p].run /\ resume' = [seen EXCEPT ![r].pc = "decide"]
      \/ /\ hub[p].state # "absent" /\ IsExpected(p)
         /\ resume' = [seen EXCEPT ![r].pc = "bind"]
      \/ \E outcome \in {"waiting_user", "failed_retryable"} : End(r, outcome)
  BY DEF ObserveProbe
<1>3. ASSUME probes[p].run, resume' = [seen EXCEPT ![r].pc = "decide"]
      PROVE  ResumesOK' /\ Sees(r, "decide")
  <2>1. resume' = [resume EXCEPT ![r].seen = hub[p].state, ![r].pc = "decide"]
    BY <1>3
  <2> QED
    BY <1>1, <2>1, Seen
<1>4. ASSUME resume' = [seen EXCEPT ![r].pc = "bind"]
      PROVE  ResumesOK' /\ Sees(r, "bind")
  <2>1. resume' = [resume EXCEPT ![r].seen = hub[p].state, ![r].pc = "bind"]
    BY <1>4
  <2> QED
    BY <1>1, <2>1, Seen
<1>5. ASSUME NEW outcome \in {"waiting_user", "failed_retryable"}, End(r, outcome)
      PROVE  ResumesOK' /\ Ends(r, outcome)
  BY <1>5, EndMoves DEF Outcome
<1>6. StoreOK' /\ CallbacksOK'
  BY StoreStays DEF ObserveProbe, outside
<1> QED
  BY <1>2, <1>3, <1>4, <1>5, <1>6 DEF TypeInv, IsExpected

LEMMA BindProbeType ==
  ASSUME TypeInv, NEW r \in Resumer, BindProbe(r)
  PROVE  /\ TypeInv' /\ Moves(r, "decide")
         /\ LET p == resume[r].probe
            IN /\ p \in Probe /\ probes'[p].status = "dispatched" /\ probes'[p].run = TRUE
               /\ probes'[p].commit = probes[p].commit
               /\ \A q \in Probe : q # p => probes'[q] = probes[q]
<1> DEFINE p == resume[r].probe
           row == [probes[p] EXCEPT !.run = TRUE, !.status = "dispatched"]
<1>1. p \in Probe
  BY ProbeInHand DEF BindProbe, At, HandlesProbe
<1>2. probes \in [Probe -> ProbeRow] /\ probes[p] \in ProbeRow
  BY <1>1 DEF TypeInv, StoreOK
<1>3. probes' = [probes EXCEPT ![p] = row]
  BY <1>1, <1>2 DEF BindProbe
<1>4. /\ row \in ProbeRow /\ row.status = "dispatched" /\ row.commit = probes[p].commit
      /\ row.run = TRUE
  BY <1>2 DEF ProbeRow
<1> HIDE DEF row
<1>5. /\ probes' \in [Probe -> ProbeRow] /\ probes'[p] = row
      /\ \A q \in Probe : q # p => probes'[q] = probes[q]
  BY <1>1, <1>3, <1>4, ProbesStay
<1>6. StoreOK' /\ CallbacksOK'
  BY <1>5, ProbesTyped DEF BindProbe
<1>7. ResumesOK' /\ Moves(r, "decide")
  BY <1>1, GoToMoves DEF BindProbe
<1> QED
  BY <1>1, <1>4, <1>5, <1>6, <1>7 DEF TypeInv

LEMMA DecideProbeType ==
  ASSUME TypeInv, NEW r \in Resumer, DecideProbe(r)
  PROVE  /\ TypeInv' /\ resume[r].probe \in Probe
         /\ \/ Ends(r, "waiting_user") /\ UNCHANGED probes
            \/ LET p == resume[r].probe
               IN \E verdict \in {"passed", "failed"} :
                    /\ verdict = "passed" => resume[r].seen = "success"
                    /\ probes'[p].status = verdict /\ probes'[p].commit = probes[p].commit
                    /\ probes'[p].run = probes[p].run
                    /\ \A q \in Probe : q # p => probes'[q] = probes[q]
                    /\ Ends(r, IF verdict = "passed" THEN "complete" ELSE "failed_retryable")
<1> DEFINE p == resume[r].probe
           verdict == Verdict(resume[r].seen)
           outcome == IF verdict = "passed" THEN "complete" ELSE "failed_retryable"
           row == [probes[p] EXCEPT !.status = verdict]
<1>1. p \in Probe
  BY ProbeInHand DEF DecideProbe, At, HandlesProbe
<1>2. /\ verdict \in {"passed", "failed", "dispatched"} /\ outcome \in Outcome
      /\ verdict = "passed" => resume[r].seen = "success"
  BY DEF Verdict, Outcome
<1>3. probes \in [Probe -> ProbeRow] /\ probes[p] \in ProbeRow
  BY <1>1 DEF TypeInv, StoreOK
<1>4. UNCHANGED <<run, control, outside, github, failures>>
  BY DEF DecideProbe
<1>5. \/ verdict = "dispatched" /\ End(r, "waiting_user") /\ probes' = probes
      \/ /\ verdict # "dispatched" /\ probes' = [probes EXCEPT ![p].status = verdict]
         /\ End(r, outcome)
  BY DEF DecideProbe
<1>6. ASSUME probes' = [probes EXCEPT ![p].status = verdict]
      PROVE  probes' = [probes EXCEPT ![p] = row]
  BY <1>3, <1>6
<1> HIDE DEF verdict
<1>7. /\ verdict \in {"passed", "failed"} => row \in ProbeRow
      /\ row.status = verdict /\ row.commit = probes[p].commit /\ row.run = probes[p].run
  BY <1>3 DEF ProbeRow
<1> HIDE DEF row
<1>8. CASE verdict = "dispatched"
  <2>1. ResumesOK' /\ Ends(r, "waiting_user")
    BY <1>5, <1>8, EndMoves DEF Outcome
  <2>2. UNCHANGED probes
    BY <1>5, <1>8
  <2>3. StoreOK' /\ CallbacksOK'
    BY <1>4, <2>2, ProbesTyped DEF TypeInv, StoreOK
  <2> QED
    BY <1>1, <2>1, <2>2, <2>3 DEF TypeInv
<1>9. CASE verdict # "dispatched"
  <2>1. verdict \in {"passed", "failed"} /\ row \in ProbeRow
    BY <1>2, <1>7, <1>9
  <2>2. /\ probes' \in [Probe -> ProbeRow] /\ probes'[p] = row
        /\ \A q \in Probe : q # p => probes'[q] = probes[q]
    BY <1>1, <1>5, <1>6, <1>9, <2>1, ProbesStay
  <2>3. StoreOK' /\ CallbacksOK'
    BY <1>4, <2>2, ProbesTyped
  <2>4. End(r, outcome)
    BY <1>5, <1>9
  <2> HIDE DEF outcome
  <2>5. ResumesOK' /\ Ends(r, outcome)
    BY <1>2, <2>4, EndMoves
  <2> QED
    BY <1>1, <1>2, <1>7, <2>1, <2>2, <2>3, <2>5 DEF TypeInv, outcome
<1> QED
  BY <1>8, <1>9

LEMMA CallFailsType ==
  ASSUME TypeInv, NEW r \in Resumer, CallFails(r)
  PROVE  TypeInv' /\ Ends(r, "failed_retryable")
<1>1. ResumesOK' /\ Ends(r, "failed_retryable")
  BY EndMoves DEF CallFails, Outcome
<1>2. failures' \in 0..MaxFailures
  BY FailureCounted DEF CallFails
<1>3. UNCHANGED <<run, probes, control, outside, github>>
  BY DEF CallFails
<1>4. StoreOK' /\ CallbacksOK'
  BY <1>2, <1>3 DEF TypeInv, StoreOK, CallbacksOK, run, outside, files, github
<1> QED
  BY <1>1, <1>4 DEF TypeInv

-----------------------------------------------------------------------------
(* Steps of the GitHub App flow *)

LEMMA RequestMoves ==
  ASSUME TypeInv, NEW b \in Callback, NEW e \in Request, RequestFits(e),
         callback' = [callback EXCEPT ![b] = e]
  PROVE  CallbacksOK' /\ callback'[b] = e
BY DEF TypeInv, CallbacksOK

(* A callback goes on with its session and App.                             *)
Answers(b, pc) ==
  /\ callback'[b].session = callback[b].session /\ callback'[b].app = callback[b].app
  /\ callback'[b].pc = pc

LEMMA AnswerMoves ==
  ASSUME TypeInv, NEW b \in Callback, NEW pc \in {"secret", "app", "advance", "finish"},
         callback[b].pc # "idle", Answer(b, pc)
  PROVE  CallbacksOK' /\ Answers(b, pc)
<1> DEFINE e == [callback[b] EXCEPT !.pc = pc]
<1>1. callback \in [Callback -> Request] /\ callback[b] \in Request /\ RequestFits(callback[b])
  BY DEF TypeInv, CallbacksOK
<1>2. e \in Request /\ e.session = callback[b].session /\ e.app = callback[b].app /\ e.pc = pc
  BY <1>1 DEF Request
<1>3. callback' = [callback EXCEPT ![b] = e]
  BY <1>1 DEF Answer
<1> HIDE DEF e
<1>4. RequestFits(e)
  BY <1>1, <1>2 DEF RequestFits
<1> QED
  BY <1>2, <1>3, <1>4, RequestMoves DEF Answers

LEMMA RequestReturns ==
  ASSUME TypeInv, NEW b \in Callback, Returned(b)
  PROVE  CallbacksOK' /\ callback'[b].pc = "idle"
<1>1. callback'[b] = NoRequest /\ CallbacksOK'
  BY RequestMoves, NoRequestType DEF Returned
<1> QED
  BY <1>1 DEF NoRequest

LEMMA SessionInHand ==
  ASSUME TypeInv, NEW b \in Callback, callback[b].pc # "idle"
  PROVE  /\ callback[b].session \in Session /\ callback[b].app \in App
         /\ callback[b].app \in 0..MaxApps
BY SetupAssumption DEF TypeInv, CallbacksOK, RequestFits, App

(* The rows of the session table under a change of one of them.             *)
LEMMA SessionsStay ==
  ASSUME TypeInv, NEW s \in Session, NEW row \in SessionRow, sessions' = [sessions EXCEPT ![s] = row]
  PROVE  /\ sessions' \in [Session -> SessionRow] /\ sessions'[s] = row
         /\ \A q \in Session : q # s => sessions'[q] = sessions[q]
BY DEF TypeInv, StoreOK

(* The callbacks leave the resume alone, and write sessions and files.      *)
LEMMA FlowTyped ==
  ASSUME TypeInv, UNCHANGED inside,
         sessions' \in [Session -> SessionRow],
         config' \in [app : 0..MaxApps, installation : 0..MaxApps],
         key' \in 0..MaxApps, secret' \in 0..MaxApps,
         UNCHANGED <<hub, main, installed>>, created' \in 0..MaxApps, failures' \in 0..MaxFailures
  PROVE  StoreOK' /\ ResumesOK'
BY DEF TypeInv, StoreOK, ResumesOK, inside, run

LEMMA StoreParts ==
  ASSUME TypeInv
  PROVE  /\ sessions \in [Session -> SessionRow]
         /\ config \in [app : 0..MaxApps, installation : 0..MaxApps]
         /\ key \in 0..MaxApps /\ secret \in 0..MaxApps
         /\ installed \subseteq App /\ created \in 0..MaxApps
         /\ failures \in 0..MaxFailures
BY DEF TypeInv, StoreOK

LEMMA OpenPageType ==
  ASSUME TypeInv, OpenPage
  PROVE  /\ TypeInv'
         /\ \E s \in Session :
              /\ \A q \in Session : sessions[q].status = "absent" <=> q >= s
              /\ sessions'[s].status = "active" /\ sessions'[s].phase = sessions[s].phase
              /\ \A q \in Session :
                   q # s => /\ sessions'[q].phase = sessions[q].phase
                            /\ sessions[q].status = "active" => sessions'[q].status = "cancelled"
                            /\ sessions[q].status # "active" => sessions'[q] = sessions[q]
<1>1. PICK s \in Session :
        /\ \A q \in Session : sessions[q].status = "absent" <=> q >= s
        /\ sessions' = [Cancelled EXCEPT ![s].status = "active"]
  BY DEF OpenPage
<1> DEFINE row == [sessions[s] EXCEPT !.status = "active"]
<1>2. sessions \in [Session -> SessionRow]
  BY StoreParts
<1>3. sessions[s].status = "absent"
  BY <1>1, SetupAssumption DEF Session
<1>4. /\ Cancelled \in [Session -> SessionRow] /\ Cancelled[s] = sessions[s]
      /\ \A q \in Session :
           /\ Cancelled[q].phase = sessions[q].phase
           /\ sessions[q].status = "active" => Cancelled[q].status = "cancelled"
           /\ sessions[q].status # "active" => Cancelled[q] = sessions[q]
  <2>1. /\ Cancelled[s] = sessions[s]
        /\ \A q \in Session : sessions[q].status # "active" => Cancelled[q] = sessions[q]
    BY <1>3 DEF Cancelled
  <2>2. ASSUME NEW q \in Session, sessions[q].status = "active"
        PROVE  /\ Cancelled[q] \in SessionRow /\ Cancelled[q].status = "cancelled"
               /\ Cancelled[q].phase = sessions[q].phase
    <3>1. Cancelled[q] = [sessions[q] EXCEPT !.status = "cancelled"]
      BY <2>2 DEF Cancelled
    <3> QED
      BY <1>2, <3>1 DEF SessionRow
  <2>3. \A q \in Session : Cancelled[q] \in SessionRow
    BY <1>2, <2>1, <2>2
  <2>4. Cancelled = [q \in Session |-> Cancelled[q]]
    BY DEF Cancelled
  <2> HIDE DEF Cancelled
  <2>5. Cancelled \in [Session -> SessionRow]
    BY <2>3, <2>4
  <2>6. \A q \in Session : Cancelled[q].phase = sessions[q].phase
    BY <2>1, <2>2
  <2> QED
    BY <2>1, <2>2, <2>5, <2>6
<1> HIDE DEF Cancelled
<1>5. row \in SessionRow /\ row.status = "active" /\ row.phase = sessions[s].phase
  BY <1>2 DEF SessionRow
<1>6. sessions' = [Cancelled EXCEPT ![s] = row]
  BY <1>1, <1>4
<1> HIDE DEF row
<1>7. /\ sessions' \in [Session -> SessionRow] /\ sessions'[s] = row
      /\ \A q \in Session : q # s => sessions'[q] = Cancelled[q]
  BY <1>4, <1>5, <1>6
<1>8. UNCHANGED <<inside, files, github, callback, failures>>
  BY DEF OpenPage
<1>9. StoreOK' /\ ResumesOK' /\ CallbacksOK'
  BY <1>7, <1>8, StoreParts, FlowTyped DEF TypeInv, CallbacksOK, files, github
<1> QED
  BY <1>1, <1>4, <1>5, <1>7, <1>9 DEF TypeInv

LEMMA ConvertManifestType ==
  ASSUME TypeInv, NEW b \in Callback, NEW s \in Session, ConvertManifest(b, s)
  PROVE  TypeInv' /\ callback'[b].pc = "key"
<1> DEFINE e == [pc |-> "key", session |-> s, app |-> created + 1]
<1>1. created + 1 \in App /\ created + 1 \in 0..MaxApps /\ s \in 0..MaxStarts
  BY StoreParts, SetupAssumption DEF ConvertManifest, App, Session
<1>2. callback' = [callback EXCEPT ![b] = e] /\ created' = created + 1
  BY DEF ConvertManifest
<1>3. e \in Request /\ RequestFits(e) /\ e.pc = "key"
  BY <1>1 DEF Request, RequestFits
<1> HIDE DEF e
<1>4. CallbacksOK' /\ callback'[b].pc = "key"
  BY <1>2, <1>3, RequestMoves
<1>5. UNCHANGED <<inside, sessions, files, hub, main, installed, failures>>
  BY DEF ConvertManifest
<1>6. StoreOK' /\ ResumesOK'
  BY <1>1, <1>2, <1>5, StoreParts, FlowTyped DEF files
<1> QED
  BY <1>4, <1>6 DEF TypeInv

LEMMA WriteKeyType ==
  ASSUME TypeInv, NEW b \in Callback, WriteKey(b)
  PROVE  TypeInv' /\ Answers(b, "secret")
<1>1. callback[b].pc # "idle"
  BY DEF WriteKey, Serves
<1>2. CallbacksOK' /\ Answers(b, "secret")
  BY <1>1, AnswerMoves DEF WriteKey
<1>3. key' = callback[b].app /\ UNCHANGED <<inside, sessions, config, secret, github, failures>>
  BY DEF WriteKey
<1>4. StoreOK' /\ ResumesOK'
  BY <1>1, <1>3, SessionInHand, StoreParts, FlowTyped DEF github
<1> QED
  BY <1>2, <1>4 DEF TypeInv

LEMMA WriteSecretType ==
  ASSUME TypeInv, NEW b \in Callback, WriteSecret(b)
  PROVE  TypeInv' /\ Answers(b, "app")
<1>1. callback[b].pc # "idle"
  BY DEF WriteSecret, Serves
<1>2. CallbacksOK' /\ Answers(b, "app")
  BY <1>1, AnswerMoves DEF WriteSecret
<1>3. secret' = callback[b].app /\ UNCHANGED <<inside, sessions, config, key, github, failures>>
  BY DEF WriteSecret
<1>4. StoreOK' /\ ResumesOK'
  BY <1>1, <1>3, SessionInHand, StoreParts, FlowTyped DEF github
<1> QED
  BY <1>2, <1>4 DEF TypeInv

LEMMA WriteAppType ==
  ASSUME TypeInv, NEW b \in Callback, WriteApp(b)
  PROVE  /\ TypeInv' /\ Answers(b, "advance")
         /\ config'.app = callback[b].app /\ config'.installation = config.installation
<1>1. callback[b].pc # "idle"
  BY DEF WriteApp, Serves
<1>2. CallbacksOK' /\ Answers(b, "advance")
  BY <1>1, AnswerMoves DEF WriteApp
<1>3. /\ config' = [config EXCEPT !.app = callback[b].app]
      /\ UNCHANGED <<inside, sessions, key, secret, github, failures>>
  BY DEF WriteApp
<1>4. /\ config' \in [app : 0..MaxApps, installation : 0..MaxApps]
      /\ config'.app = callback[b].app /\ config'.installation = config.installation
  BY <1>1, <1>3, SessionInHand, StoreParts
<1>5. StoreOK' /\ ResumesOK'
  BY <1>3, <1>4, StoreParts, FlowTyped DEF github
<1> QED
  BY <1>2, <1>4, <1>5 DEF TypeInv

(* The session is updated only while it still is in the phase the callback  *)
(* began in.                                                                *)
LEMMA AdvanceSessionType ==
  ASSUME TypeInv, NEW b \in Callback, AdvanceSession(b)
  PROVE  /\ TypeInv' /\ callback'[b].pc = "idle"
         /\ LET s == callback[b].session
            IN /\ s \in Session
               /\ \A q \in Session : q # s => sessions'[q] = sessions[q]
               /\ \/ sessions'[s] = sessions[s]
                  \/ /\ IsActive(s, "manifest") /\ sessions'[s].status = "active"
                     /\ sessions'[s].phase = "installation"
                     /\ sessions'[s].app = callback[b].app
<1> DEFINE s == callback[b].session
           row == [sessions[s] EXCEPT !.phase = "installation", !.app = callback[b].app]
<1>1. s \in Session /\ callback[b].app \in 0..MaxApps
  BY SessionInHand DEF AdvanceSession, Serves
<1>2. sessions \in [Session -> SessionRow] /\ sessions[s] \in SessionRow
  BY <1>1, StoreParts
<1>3. CallbacksOK' /\ callback'[b].pc = "idle"
  BY RequestReturns DEF AdvanceSession
<1>4. \/ sessions' = sessions
      \/ IsActive(s, "manifest") /\ sessions' = [sessions EXCEPT ![s] = row]
  BY <1>1, <1>2 DEF AdvanceSession, IsFenced
<1>5. /\ row \in SessionRow /\ row.status = sessions[s].status /\ row.phase = "installation"
      /\ row.app = callback[b].app
  BY <1>1, <1>2 DEF SessionRow
<1> HIDE DEF row
<1>6. /\ sessions' \in [Session -> SessionRow]
      /\ \A q \in Session : q # s => sessions'[q] = sessions[q]
      /\ \/ sessions'[s] = sessions[s]
         \/ /\ IsActive(s, "manifest") /\ sessions'[s].status = "active"
            /\ sessions'[s].phase = "installation" /\ sessions'[s].app = callback[b].app
  <2>1. CASE sessions' = sessions
    BY <1>2, <2>1
  <2>2. CASE IsActive(s, "manifest") /\ sessions' = [sessions EXCEPT ![s] = row]
    <3>1. /\ sessions' \in [Session -> SessionRow] /\ sessions'[s] = row
          /\ \A q \in Session : q # s => sessions'[q] = sessions[q]
      BY <1>1, <1>5, <2>2, SessionsStay
    <3> QED
      BY <1>5, <2>2, <3>1 DEF IsActive
  <2> QED
    BY <1>4, <2>1, <2>2
<1>7. UNCHANGED <<inside, files, github, failures>>
  BY DEF AdvanceSession
<1>8. StoreOK' /\ ResumesOK'
  BY <1>6, <1>7, StoreParts, FlowTyped DEF files, github
<1> QED
  BY <1>1, <1>3, <1>6, <1>8 DEF TypeInv

LEMMA VerifyInstallationType ==
  ASSUME TypeInv, NEW b \in Callback, NEW s \in Session, VerifyInstallation(b, s)
  PROVE  /\ TypeInv' /\ callback'[b].pc = "installation"
         /\ callback'[b].session = s /\ callback'[b].app = sessions[s].app
<1> DEFINE e == [pc |-> "installation", session |-> s, app |-> sessions[s].app]
<1>1. sessions[s].app \in App /\ sessions[s].app \in 0..MaxApps /\ s \in 0..MaxStarts
  BY StoreParts, SetupAssumption DEF VerifyInstallation, App, Session
<1>2. callback' = [callback EXCEPT ![b] = e]
  BY DEF VerifyInstallation
<1>3. /\ e \in Request /\ RequestFits(e) /\ e.pc = "installation" /\ e.session = s
      /\ e.app = sessions[s].app
  BY <1>1 DEF Request, RequestFits
<1> HIDE DEF e
<1>4. CallbacksOK' /\ callback'[b] = e
  BY <1>2, <1>3, RequestMoves
<1>5. UNCHANGED <<inside, sessions, files, github, failures>>
  BY DEF VerifyInstallation
<1>6. StoreOK' /\ ResumesOK'
  BY <1>5, StoreParts, FlowTyped DEF files, github
<1> QED
  BY <1>3, <1>4, <1>6 DEF TypeInv

LEMMA WriteInstallationType ==
  ASSUME TypeInv, NEW b \in Callback, WriteInstallation(b)
  PROVE  /\ TypeInv' /\ Answers(b, "finish")
         /\ config'.app = callback[b].app /\ config'.installation = callback[b].app
<1>1. callback[b].pc # "idle"
  BY DEF WriteInstallation, Serves
<1>2. CallbacksOK' /\ Answers(b, "finish")
  BY <1>1, AnswerMoves DEF WriteInstallation
<1>3. /\ config' = [app |-> callback[b].app, installation |-> callback[b].app]
      /\ UNCHANGED <<inside, sessions, key, secret, github, failures>>
  BY DEF WriteInstallation
<1>4. /\ config' \in [app : 0..MaxApps, installation : 0..MaxApps]
      /\ config'.app = callback[b].app /\ config'.installation = callback[b].app
  BY <1>1, <1>3, SessionInHand
<1>5. StoreOK' /\ ResumesOK'
  BY <1>3, <1>4, StoreParts, FlowTyped DEF github
<1> QED
  BY <1>2, <1>4, <1>5 DEF TypeInv

LEMMA FinishSessionType ==
  ASSUME TypeInv, NEW b \in Callback, FinishSession(b)
  PROVE  /\ TypeInv' /\ callback'[b].pc = "idle"
         /\ LET s == callback[b].session
            IN /\ s \in Session
               /\ \A q \in Session : q # s => sessions'[q] = sessions[q]
               /\ \/ sessions'[s] = sessions[s]
                  \/ /\ IsActive(s, "installation") /\ sessions'[s].status = "complete"
                     /\ sessions'[s].app = sessions[s].app
<1> DEFINE s == callback[b].session
           row == [sessions[s] EXCEPT !.status = "complete"]
<1>1. s \in Session
  BY SessionInHand DEF FinishSession, Serves
<1>2. sessions \in [Session -> SessionRow] /\ sessions[s] \in SessionRow
  BY <1>1, StoreParts
<1>3. CallbacksOK' /\ callback'[b].pc = "idle"
  BY RequestReturns DEF FinishSession
<1>4. \/ sessions' = sessions
      \/ IsActive(s, "installation") /\ sessions' = [sessions EXCEPT ![s] = row]
  BY <1>1, <1>2 DEF FinishSession, IsFenced
<1>5. row \in SessionRow /\ row.status = "complete" /\ row.app = sessions[s].app
  BY <1>2 DEF SessionRow
<1> HIDE DEF row
<1>6. /\ sessions' \in [Session -> SessionRow]
      /\ \A q \in Session : q # s => sessions'[q] = sessions[q]
      /\ \/ sessions'[s] = sessions[s]
         \/ /\ IsActive(s, "installation") /\ sessions'[s].status = "complete"
            /\ sessions'[s].app = sessions[s].app
  <2>1. CASE sessions' = sessions
    BY <1>2, <2>1
  <2>2. CASE IsActive(s, "installation") /\ sessions' = [sessions EXCEPT ![s] = row]
    <3>1. /\ sessions' \in [Session -> SessionRow] /\ sessions'[s] = row
          /\ \A q \in Session : q # s => sessions'[q] = sessions[q]
      BY <1>1, <1>5, <2>2, SessionsStay
    <3> QED
      BY <1>5, <2>2, <3>1
  <2> QED
    BY <1>4, <2>1, <2>2
<1>7. UNCHANGED <<inside, files, github, failures>>
  BY DEF FinishSession
<1>8. StoreOK' /\ ResumesOK'
  BY <1>6, <1>7, StoreParts, FlowTyped DEF files, github
<1> QED
  BY <1>1, <1>3, <1>6, <1>8 DEF TypeInv

LEMMA KillRequestType ==
  ASSUME TypeInv, NEW b \in Callback, KillRequest(b)
  PROVE  TypeInv' /\ callback'[b].pc = "idle"
<1>1. CallbacksOK' /\ callback'[b].pc = "idle"
  BY RequestReturns DEF KillRequest
<1>2. failures' \in 0..MaxFailures /\ UNCHANGED <<inside, sessions, files, github>>
  BY FailureCounted DEF KillRequest
<1>3. StoreOK' /\ ResumesOK'
  BY <1>2, StoreParts, FlowTyped DEF files, github
<1> QED
  BY <1>1, <1>3 DEF TypeInv

-----------------------------------------------------------------------------
(* GitHub *)

LEMMA FinishRunType ==
  ASSUME TypeInv, NEW p \in Probe, FinishRun(p)
  PROVE  /\ TypeInv'
         /\ hub[p].state = "queued" /\ hub'[p].state # "absent" /\ hub'[p].commit = hub[p].commit
         /\ \A q \in Probe : q # p => hub'[q] = hub[q]
<1>1. PICK state \in {"success", "failure"} : hub' = [hub EXCEPT ![p].state = state]
  BY DEF FinishRun
<1> DEFINE h == [hub[p] EXCEPT !.state = state]
<1>2. hub \in [Probe -> ActionsRun] /\ hub[p] \in ActionsRun
  BY DEF TypeInv, StoreOK
<1>3. h \in ActionsRun /\ h.state = state /\ h.commit = hub[p].commit
  BY <1>2 DEF ActionsRun
<1>4. hub' = [hub EXCEPT ![p] = h]
  BY <1>1, <1>2
<1> HIDE DEF h
<1>5. /\ hub' \in [Probe -> ActionsRun] /\ hub'[p] = h
      /\ \A q \in Probe : q # p => hub'[q] = hub[q]
  BY <1>2, <1>3, <1>4
<1>6. UNCHANGED <<inside, outside, main, installed, created, failures>>
  BY DEF FinishRun
<1>7. StoreOK' /\ CallbacksOK' /\ ResumesOK'
  BY <1>5, <1>6, HubTyped DEF inside, TypeInv, ResumesOK
<1> QED
  BY <1>3, <1>5, <1>7 DEF FinishRun, TypeInv

LEMMA MoveMainType ==
  ASSUME TypeInv, MoveMain PROVE TypeInv'
<1>1. main' \in 1..MaxCommit
  BY SetupAssumption DEF MoveMain, TypeInv, StoreOK
<1> QED
  BY <1>1 DEF MoveMain, TypeInv, StoreOK, ResumesOK, CallbacksOK, inside, outside, run, files

LEMMA InstallAppType ==
  ASSUME TypeInv, NEW app \in App, InstallApp(app) PROVE TypeInv'
<1>1. installed' \subseteq App
  BY DEF InstallApp, TypeInv, StoreOK
<1> QED
  BY <1>1 DEF InstallApp, TypeInv, StoreOK, ResumesOK, CallbacksOK, inside, outside, run, files

LEMMA StutterType ==
  ASSUME TypeInv, UNCHANGED vars PROVE TypeInv'
BY DEF TypeInv, StoreOK, ResumesOK, CallbacksOK, vars, run, files, github

LEMMA TypeStep ==
  ASSUME TypeInv, [Next]_vars PROVE TypeInv'
<1>1. CASE Begin \/ OpenPage \/ MoveMain
  BY <1>1, BeginType, OpenPageType, MoveMainType
<1>2. ASSUME NEW r \in Resumer, ResumeStep(r) \/ CallFails(r) \/ Kill(r) PROVE TypeInv'
  BY <1>2, StartResumeType, ReopenType, SnapshotType, MarkRunningType, BecomeReadyType,
     ApplyOutcomeType, StopResumeType, CheckOutsideType, CheckAppType, InstallControlsType,
     FindPassedType, FindOpenType, InsertProbeType, DispatchProbeType, RejectProbeType,
     ObserveProbeType, BindProbeType, DecideProbeType, CallFailsType, KillType
     DEF ResumeStep
<1>3. ASSUME NEW b \in Callback, RequestStep(b) \/ KillRequest(b) PROVE TypeInv'
  BY <1>3, WriteKeyType, WriteSecretType, WriteAppType, AdvanceSessionType,
     WriteInstallationType, FinishSessionType, ConvertManifestType, VerifyInstallationType,
     KillRequestType DEF RequestStep
<1>4. ASSUME NEW p \in Probe, FinishRun(p) PROVE TypeInv'
  BY <1>4, FinishRunType
<1>5. ASSUME NEW app \in App, InstallApp(app) PROVE TypeInv'
  BY <1>5, InstallAppType
<1>6. CASE UNCHANGED vars
  BY <1>6, StutterType
<1> QED
  BY <1>1, <1>2, <1>3, <1>4, <1>5, <1>6 DEF Next

LEMMA TypeInvariant == Spec => []TypeInv
BY InitType, TypeStep, PTL DEF Spec

(* Rows, files and processes keep their shape, whatever resumes and         *)
(* callbacks overlap: setup.py and github_setup.py never act on a probe or  *)
(* a session that is not there.                                             *)
THEOREM TypeCorrect == Spec => []TypeOK
BY TypeInvariant, InvType, PTL

(* Only three actions write the session table.                              *)
LEMMA SessionsOnly ==
  ASSUME [Next]_vars
  PROVE  \/ UNCHANGED sessions
         \/ OpenPage
         \/ \E b \in Callback : AdvanceSession(b) \/ FinishSession(b)
<1>1. ASSUME NEW r \in Resumer, ResumeStep(r) \/ CallFails(r) \/ Kill(r) PROVE UNCHANGED sessions
  BY <1>1 DEF ResumeStep, StartResume, Reopen, Snapshot, MarkRunning, BecomeReady, ApplyOutcome,
     StopResume, CheckOutside, CheckApp, InstallControls, FindPassed, FindOpen, InsertProbe,
     DispatchProbe, RejectProbe, ObserveProbe, BindProbe, DecideProbe, CallFails, Kill, outside
<1>2. ASSUME NEW b \in Callback, RequestStep(b) \/ KillRequest(b)
      PROVE  UNCHANGED sessions \/ AdvanceSession(b) \/ FinishSession(b)
  BY <1>2 DEF RequestStep, WriteKey, WriteSecret, WriteApp, WriteInstallation, ConvertManifest,
     VerifyInstallation, KillRequest
<1>3. CASE Begin \/ MoveMain \/ \E p \in Probe : FinishRun(p)
  BY <1>3 DEF Begin, MoveMain, FinishRun, outside
<1>4. CASE \E app \in App : InstallApp(app)
  BY <1>4 DEF InstallApp, outside
<1>5. CASE UNCHANGED vars
  BY <1>5 DEF vars
<1> QED
  BY <1>1, <1>2, <1>3, <1>4, <1>5 DEF Next

(* Whatever callbacks, page openings and resumes overlap, no step touches a *)
(* session that was cancelled or completed: its updates are fenced by the   *)
(* status and phase they select.                                            *)
THEOREM EndedStays == Spec => EndedSessionStaysEnded
<1> DEFINE A == \A s \in Session : sessions[s].status \in {"cancelled", "complete"}
                                     => sessions'[s] = sessions[s]
<1>1. ASSUME TypeInv, [Next]_vars PROVE [A]_vars
  <2>1. CASE UNCHANGED sessions
    BY <2>1
  <2>2. CASE OpenPage
    BY <1>1, <2>2, OpenPageType, SetupAssumption DEF Session
  <2>3. ASSUME NEW b \in Callback, AdvanceSession(b) PROVE A
    BY <1>1, <2>3, AdvanceSessionType DEF IsActive
  <2>4. ASSUME NEW b \in Callback, FinishSession(b) PROVE A
    BY <1>1, <2>4, FinishSessionType DEF IsActive
  <2>5. \/ UNCHANGED sessions
        \/ OpenPage
        \/ \E b \in Callback : AdvanceSession(b) \/ FinishSession(b)
    BY <1>1, SessionsOnly
  <2> QED
    BY <2>1, <2>2, <2>3, <2>4, <2>5
<1> QED
  BY <1>1, TypeInvariant, PTL DEF Spec, EndedSessionStaysEnded

-----------------------------------------------------------------------------
(* One resume at a time *)

Idles == {"idle", "reopen", "snapshot"}
Executing == HandlesProbe \cup {"execute", "open", "apply"}
Evidence == \E p \in Probe : hub[p].state = "success" /\ hub[p].commit = control

(* What a resume works on is what is incomplete; it executes the first such *)
(* step, which is marked so.                                                *)
WorkFits(e) ==
  /\ e.pc \notin Idles => \A s \in Step : s \in e.todo <=> steps[s] # "complete"
  /\ e.pc \in Executing => e.step \in e.todo
  /\ e.pc \in Executing /\ e.step = "hosted_ci_probe" => steps["evaluator_controls"] = "complete"
  /\ e.pc \in HandlesProbe \cup {"open"} => e.step = "hosted_ci_probe"

ReadyInv ==
  status = "ready" => /\ \A s \in Step : steps[s] = "complete"
                      /\ \A r \in Resumer : resume[r].pc = "idle"

(* What a resume knows of the probe it has in hand.                         *)
ProbeKnown(e) ==
  LET p == e.probe
  IN /\ e.pc \in HandlesProbe => probes[p].status # "absent"
     /\ e.pc = "dispatch" => probes[p].status = "dispatching"
     /\ e.pc \in {"bind", "decide"} /\ e.seen = "success" => hub[p].state = "success"
     /\ e.pc = "bind" => hub[p].commit = probes[p].commit /\ hub[p].state # "absent"
     /\ e.pc = "decide" => probes[p].run
     /\ e.pc = "apply" /\ e.step = "hosted_ci_probe" /\ e.outcome = "complete" => Evidence

ProbeFits(p) ==
  /\ probes[p].status # "absent" =>
       probes[p].commit = control /\ steps["evaluator_controls"] = "complete"
  /\ probes[p].run => /\ probes[p].status \notin {"absent", "dispatching"}
                      /\ hub[p].commit = probes[p].commit /\ hub[p].state # "absent"
  /\ probes[p].status = "passed" => hub[p].state = "success" /\ hub[p].commit = control

EvidenceInv ==
  steps["hosted_ci_probe"] = "complete" => Evidence /\ steps["evaluator_controls"] = "complete"

ResumeInv ==
  /\ ReadyInv
  /\ \A r \in Resumer : WorkFits(resume[r]) /\ ProbeKnown(resume[r])
  /\ \A p \in Probe : ProbeFits(p)
  /\ EvidenceInv

OneResumer == \A q, r \in Resumer : q = r

LEMMA InitResume == Init => ResumeInv
<1> SUFFICES ASSUME Init PROVE ResumeInv
  OBVIOUS
<1>1. \A r \in Resumer : resume[r].pc = "idle"
  BY DEF Init, NoResume
<1>2. \A r \in Resumer : WorkFits(resume[r]) /\ ProbeKnown(resume[r])
  BY <1>1 DEF WorkFits, ProbeKnown, Idles, Executing, HandlesProbe
<1>3. steps["hosted_ci_probe"] # "complete" /\ status # "ready"
  BY StepNames DEF Init
<1>4. \A p \in Probe : probes[p].status = "absent" /\ probes[p].run = FALSE
  BY DEF Init
<1> QED
  BY <1>2, <1>3, <1>4 DEF ResumeInv, ReadyInv, EvidenceInv, ProbeFits

LEMMA Parts ==
  ASSUME ResumeInv
  PROVE  /\ \A r \in Resumer : WorkFits(resume[r]) /\ ProbeKnown(resume[r])
         /\ \A p \in Probe : ProbeFits(p)
         /\ ReadyInv /\ EvidenceInv
BY DEF ResumeInv

LEMMA NotReady ==
  ASSUME ResumeInv, NEW r \in Resumer, resume[r].pc # "idle"
  PROVE  status # "ready"
BY DEF ResumeInv, ReadyInv

(* With one resume, the invariant after its step is about that one.         *)
LEMMA AloneFits ==
  ASSUME OneResumer, NEW r \in Resumer, ReadyInv', WorkFits(resume[r])', ProbeKnown(resume[r])',
         \A p \in Probe : ProbeFits(p)', EvidenceInv'
  PROVE  ResumeInv'
BY DEF OneResumer, ResumeInv

LEMMA NotReadyNext ==
  ASSUME ResumeInv, NEW r \in Resumer, resume[r].pc # "idle",
         status' = status \/ status' # "ready"
  PROVE  ReadyInv'
BY NotReady DEF ReadyInv

(* Steps of others.                                                         *)
LEMMA ResumeStays ==
  ASSUME ResumeInv, UNCHANGED <<steps, probes, hub, control, resume>>,
         status' = status \/ status' # "ready"
  PROVE  ResumeInv'
<1>1. \A r \in Resumer : WorkFits(resume[r])' /\ ProbeKnown(resume[r])'
  BY DEF ResumeInv, WorkFits, ProbeKnown, Evidence
<1>2. \A p \in Probe : ProbeFits(p)'
  BY DEF ResumeInv, ProbeFits
<1>3. ReadyInv' /\ EvidenceInv'
  BY DEF ResumeInv, ReadyInv, EvidenceInv, Evidence
<1> QED
  BY <1>1, <1>2, <1>3 DEF ResumeInv

(* The evidence, and what is known of the probes, when they stay.           *)
LEMMA ProbesFitStill ==
  ASSUME ResumeInv, UNCHANGED <<probes, hub, control>>,
         steps["evaluator_controls"] = "complete" => steps'["evaluator_controls"] = "complete"
  PROVE  (\A p \in Probe : ProbeFits(p)') /\ (Evidence => Evidence')
BY DEF ResumeInv, ProbeFits, Evidence

LEMMA StoreKept ==
  ASSUME ResumeInv, UNCHANGED <<steps, probes, hub, control>>
  PROVE  (\A p \in Probe : ProbeFits(p)') /\ EvidenceInv' /\ (Evidence => Evidence')
BY ProbesFitStill DEF ResumeInv, EvidenceInv

LEMMA IdleFits ==
  ASSUME NEW e, e.pc \in Idles
  PROVE  WorkFits(e)' /\ ProbeKnown(e)'
BY DEF WorkFits, ProbeKnown, Idles, Executing, HandlesProbe

LEMMA FinishRunKept ==
  ASSUME TypeInv, ResumeInv, NEW p \in Probe, FinishRun(p)
  PROVE  ResumeInv'
<1>1. /\ hub[p].state = "queued" /\ hub'[p].state # "absent" /\ hub'[p].commit = hub[p].commit
      /\ \A q \in Probe : q # p => hub'[q] = hub[q]
  BY FinishRunType
<1>2. UNCHANGED <<status, steps, probes, control, resume>>
  BY DEF FinishRun, inside, run
<1>3. Evidence => Evidence'
  BY <1>1, <1>2 DEF Evidence
<1>4. \A q \in Probe : ProbeFits(q)'
  BY <1>1, <1>2, Parts DEF ProbeFits
<1>5. \A r \in Resumer : WorkFits(resume[r])'
  BY <1>2, Parts DEF WorkFits
<1>6. ASSUME NEW r \in Resumer PROVE ProbeKnown(resume[r])'
  <2>1. ProbeKnown(resume[r]) /\ (resume[r].pc \in HandlesProbe => resume[r].probe \in Probe)
    BY Parts, ProbeInHand
  <2> QED
    BY <1>1, <1>2, <1>3, <2>1 DEF ProbeKnown, HandlesProbe
<1>7. ReadyInv' /\ EvidenceInv'
  BY <1>2, <1>3, Parts DEF ReadyInv, EvidenceInv
<1> QED
  BY <1>4, <1>5, <1>6, <1>7 DEF ResumeInv

LEMMA StartResumeKept ==
  ASSUME TypeInv, ResumeInv, OneResumer, NEW r \in Resumer, StartResume(r)
  PROVE  ResumeInv'
<1>1. resume'[r].pc = "reopen" /\ UNCHANGED <<status, probes, hub, control>>
  BY StartResumeType DEF StartResume, github
<1>2. WorkFits(resume[r])' /\ ProbeKnown(resume[r])'
  BY <1>1, IdleFits DEF Idles
<1>3. \A s \in Step : steps'[s] = "complete" <=> steps[s] = "complete"
  BY DEF StartResume, TypeInv, StoreOK
<1>4. status # "ready"
  BY Parts DEF StartResume, ReadyInv
<1>5. ReadyInv'
  BY <1>1, <1>4 DEF ReadyInv
<1>6. (\A p \in Probe : ProbeFits(p)') /\ (Evidence => Evidence')
  BY <1>1, <1>3, StepNames, ProbesFitStill
<1>7. EvidenceInv'
  BY <1>3, <1>6, StepNames, Parts DEF EvidenceInv
<1> QED
  BY <1>2, <1>5, <1>6, <1>7, AloneFits

LEMMA ReopenKept ==
  ASSUME TypeInv, ResumeInv, OneResumer, NEW r \in Resumer, Reopen(r)
  PROVE  ResumeInv'
<1>1. resume'[r].pc = "snapshot"
  BY ReopenType DEF Moves
<1>2. status' = "provisioning" /\ UNCHANGED <<steps, probes, hub, control>>
  BY DEF Reopen, github
<1>3. WorkFits(resume[r])' /\ ProbeKnown(resume[r])'
  BY <1>1, IdleFits DEF Idles
<1>4. ReadyInv'
  BY <1>2 DEF ReadyInv
<1> QED
  BY <1>2, <1>3, <1>4, StoreKept, AloneFits

LEMMA SnapshotKept ==
  ASSUME TypeInv, ResumeInv, OneResumer, NEW r \in Resumer, Snapshot(r)
  PROVE  ResumeInv'
<1>1. /\ resume'[r].pc = "next" /\ resume'[r].todo = {s \in Step : steps[s] # "complete"}
      /\ UNCHANGED <<status, steps, probes, hub, control>>
  BY SnapshotType DEF Snapshot, run, github
<1>2. WorkFits(resume[r])'
  BY <1>1 DEF WorkFits, Executing, HandlesProbe
<1>3. ProbeKnown(resume[r])'
  BY <1>1 DEF ProbeKnown, HandlesProbe
<1>4. ReadyInv'
  BY <1>1, NotReadyNext DEF Snapshot, At
<1> QED
  BY <1>1, <1>2, <1>3, <1>4, StoreKept, AloneFits

LEMMA MarkRunningKept ==
  ASSUME TypeInv, ResumeInv, OneResumer, NEW r \in Resumer, MarkRunning(r)
  PROVE  ResumeInv'
<1>1. PICK s \in resume[r].todo :
        /\ resume'[r].pc = "execute" /\ resume'[r].step = s
        /\ resume'[r].todo = resume[r].todo
        /\ steps' = [steps EXCEPT ![s] = "running"] /\ s \in Step
        /\ s = "hosted_ci_probe" => "evaluator_controls" \notin resume[r].todo
  BY MarkRunningType
<1>2. resume[r].pc = "next" /\ UNCHANGED <<status, probes, hub, control>>
  BY DEF MarkRunning, At, github
<1>3. \A t \in Step : t \in resume[r].todo <=> steps[t] # "complete"
  BY <1>2, Parts DEF WorkFits, Idles
<1>4. steps \in [Step -> StepStatus]
  BY DEF TypeInv, StoreOK
<1>5. \A t \in Step : steps'[t] = "complete" <=> steps[t] = "complete"
  BY <1>1, <1>3, <1>4
<1>6. WorkFits(resume[r])'
  BY <1>1, <1>3, <1>5, StepNames DEF WorkFits, HandlesProbe
<1>7. ProbeKnown(resume[r])'
  BY <1>1 DEF ProbeKnown, HandlesProbe
<1>8. ReadyInv'
  BY <1>2, NotReadyNext
<1>9. (\A p \in Probe : ProbeFits(p)') /\ (Evidence => Evidence')
  BY <1>2, <1>5, StepNames, ProbesFitStill
<1>10. EvidenceInv'
  BY <1>5, <1>9, StepNames, Parts DEF EvidenceInv
<1> QED
  BY <1>6, <1>7, <1>8, <1>9, <1>10, AloneFits

LEMMA BecomeReadyKept ==
  ASSUME TypeInv, ResumeInv, OneResumer, NEW r \in Resumer, BecomeReady(r)
  PROVE  ResumeInv'
<1>1. resume'[r].pc = "idle" /\ resume[r].pc = "next" /\ resume[r].todo = {}
      /\ UNCHANGED <<steps, probes, hub, control>>
  BY BecomeReadyType DEF BecomeReady, At, github
<1>2. WorkFits(resume[r])' /\ ProbeKnown(resume[r])'
  BY <1>1, IdleFits DEF Idles
<1>3. \A s \in Step : steps[s] = "complete"
  BY <1>1, Parts DEF WorkFits, Idles
<1>4. ReadyInv'
  BY <1>1, <1>3 DEF ReadyInv, OneResumer
<1> QED
  BY <1>1, <1>2, <1>4, StoreKept, AloneFits

LEMMA ApplyOutcomeKept ==
  ASSUME TypeInv, ResumeInv, OneResumer, NEW r \in Resumer, ApplyOutcome(r)
  PROVE  ResumeInv'
<1> DEFINE s == resume[r].step
           outcome == resume[r].outcome
           todo == resume[r].todo
<1>1. /\ s \in Step /\ steps' = [steps EXCEPT ![s] = outcome]
      /\ outcome = "complete" => resume'[r].pc = "next" /\ resume'[r].todo = todo \ {s}
      /\ outcome # "complete" => Moves(r, "stop")
  BY ApplyOutcomeType
<1>2. resume[r].pc = "apply" /\ UNCHANGED <<status, probes, hub, control>>
  BY DEF ApplyOutcome, At, github
<1>3. /\ \A t \in Step : t \in todo <=> steps[t] # "complete"
      /\ s \in todo /\ (s = "hosted_ci_probe" => steps["evaluator_controls"] = "complete")
  BY <1>2, Parts DEF WorkFits, Idles, Executing
<1>4. steps \in [Step -> StepStatus]
  BY DEF TypeInv, StoreOK
<1>5. /\ steps'[s] = outcome /\ \A t \in Step : t # s => steps'[t] = steps[t]
      /\ \A t \in Step : steps[t] = "complete" => steps'[t] = "complete"
  BY <1>1, <1>3, <1>4
<1>6. /\ resume'[r].pc \in {"next", "stop"}
      /\ \A t \in Step : t \in resume'[r].todo <=> steps'[t] # "complete"
  <2>1. CASE outcome = "complete"
    BY <1>1, <1>3, <1>5, <2>1
  <2>2. CASE outcome # "complete"
    <3>1. resume'[r].pc = "stop" /\ resume'[r].todo = todo
      BY <1>1, <2>2 DEF Moves, SameWork
    <3> QED
      BY <1>1, <1>3, <1>5, <2>2, <3>1
  <2> QED
    BY <2>1, <2>2
<1>7. WorkFits(resume[r])'
  BY <1>6 DEF WorkFits, Executing, HandlesProbe
<1>8. ProbeKnown(resume[r])'
  BY <1>6 DEF ProbeKnown, HandlesProbe
<1>9. ReadyInv'
  BY <1>2, NotReadyNext
<1>10. (\A p \in Probe : ProbeFits(p)') /\ (Evidence => Evidence')
  BY <1>2, <1>5, StepNames, ProbesFitStill
<1>11. EvidenceInv'
  <2> SUFFICES ASSUME steps'["hosted_ci_probe"] = "complete"
               PROVE  Evidence' /\ steps'["evaluator_controls"] = "complete"
    BY DEF EvidenceInv
  <2>1. CASE s = "hosted_ci_probe"
    <3>1. Evidence
      BY <1>2, <1>5, <2>1, Parts DEF ProbeKnown
    <3> QED
      BY <1>3, <1>5, <1>10, <2>1, <3>1, StepNames
  <2>2. CASE s # "hosted_ci_probe"
    <3>1. steps["hosted_ci_probe"] = "complete"
      BY <1>5, <2>2, StepNames
    <3> QED
      BY <1>5, <1>10, <3>1, StepNames, Parts DEF EvidenceInv
  <2> QED
    BY <2>1, <2>2
<1> QED
  BY <1>7, <1>8, <1>9, <1>10, <1>11, AloneFits

LEMMA StopResumeKept ==
  ASSUME TypeInv, ResumeInv, OneResumer, NEW r \in Resumer, StopResume(r)
  PROVE  ResumeInv'
<1>1. resume'[r].pc = "idle" /\ status' # "ready" /\ UNCHANGED <<steps, probes, hub, control>>
  BY StopResumeType DEF StopResume, github
<1>2. WorkFits(resume[r])' /\ ProbeKnown(resume[r])'
  BY <1>1, IdleFits DEF Idles
<1>3. ReadyInv'
  BY <1>1 DEF ReadyInv
<1> QED
  BY <1>1, <1>2, <1>3, StoreKept, AloneFits

LEMMA KillKept ==
  ASSUME TypeInv, ResumeInv, OneResumer, NEW r \in Resumer, Kill(r)
  PROVE  ResumeInv'
<1>1. resume'[r].pc = "idle" /\ UNCHANGED <<status, steps, probes, hub, control>>
  BY KillType DEF Kill, run, github
<1>2. WorkFits(resume[r])' /\ ProbeKnown(resume[r])'
  BY <1>1, IdleFits DEF Idles
<1>3. ReadyInv'
  BY <1>1, NotReadyNext DEF Kill, At
<1> QED
  BY <1>1, <1>2, <1>3, StoreKept, AloneFits

(* A step of the executor leaves the order of work as it is.                *)
LEMMA WorkGoesOn ==
  ASSUME ResumeInv, NEW r \in Resumer, resume[r].pc \in Executing, UNCHANGED steps,
         resume'[r].todo = resume[r].todo, resume'[r].step = resume[r].step,
         resume'[r].pc \in Executing,
         resume'[r].pc \in HandlesProbe \cup {"open"} => resume[r].step = "hosted_ci_probe"
  PROVE  WorkFits(resume[r])'
BY Parts DEF WorkFits, Executing, HandlesProbe, Idles

LEMMA ExecutorKept ==
  ASSUME ResumeInv, OneResumer, NEW r \in Resumer, resume[r].pc \in Executing,
         UNCHANGED <<status, steps>>, WorkFits(resume[r])', ProbeKnown(resume[r])',
         \A p \in Probe : ProbeFits(p)', EvidenceInv'
  PROVE  ResumeInv'
<1>1. resume[r].pc # "idle"
  BY DEF Executing, HandlesProbe
<1>2. ReadyInv'
  BY <1>1, NotReadyNext
<1> QED
  BY <1>2, AloneFits

LEMMA EndsKept ==
  ASSUME ResumeInv, OneResumer, NEW r \in Resumer, resume[r].pc \in Executing,
         UNCHANGED <<status, steps>>, \A p \in Probe : ProbeFits(p)', EvidenceInv',
         NEW outcome \in Outcome, Ends(r, outcome),
         resume[r].step = "hosted_ci_probe" /\ outcome = "complete" => Evidence'
  PROVE  ResumeInv'
<1>1. /\ resume'[r].todo = resume[r].todo /\ resume'[r].step = resume[r].step
      /\ resume'[r].pc = "apply" /\ resume'[r].outcome = outcome
  BY DEF Ends, Moves, SameWork
<1>2. WorkFits(resume[r])'
  BY <1>1, WorkGoesOn DEF Executing, HandlesProbe
<1>3. ProbeKnown(resume[r])'
  BY <1>1 DEF ProbeKnown, HandlesProbe
<1> QED
  BY <1>2, <1>3, ExecutorKept

LEMMA WorksOnProbe ==
  ASSUME ResumeInv, NEW r \in Resumer, resume[r].pc \in HandlesProbe \cup {"open"}
  PROVE  /\ resume[r].pc \in Executing /\ resume[r].step = "hosted_ci_probe"
         /\ steps["evaluator_controls"] = "complete" /\ steps["hosted_ci_probe"] # "complete"
BY Parts, StepNames DEF WorkFits, Executing, HandlesProbe, Idles

LEMMA OtherStepKept ==
  ASSUME TypeInv, ResumeInv, OneResumer, NEW r \in Resumer, CheckOutside(r) \/ CheckApp(r)
  PROVE  ResumeInv'
<1>1. PICK outcome \in Outcome : Ends(r, outcome)
  BY CheckOutsideType, CheckAppType
<1>2. resume[r].pc \in Executing /\ resume[r].step # "hosted_ci_probe"
  BY DEF CheckOutside, CheckApp, Executes, At, Executing
<1>3. UNCHANGED <<status, steps, probes, hub, control>>
  BY DEF CheckOutside, CheckApp, run, github
<1> QED
  BY <1>1, <1>2, <1>3, StoreKept, EndsKept

(* The control plane is bound to a commit before any probe is dispatched.   *)
LEMMA InstallControlsKept ==
  ASSUME TypeInv, ResumeInv, OneResumer, NEW r \in Resumer, InstallControls(r)
  PROVE  ResumeInv'
<1>1. PICK outcome \in Outcome : Ends(r, outcome)
  BY InstallControlsType
<1>2. resume[r].pc = "execute" /\ resume[r].step = "evaluator_controls"
      /\ UNCHANGED <<status, steps, probes, hub>>
  BY DEF InstallControls, Executes, At, run, github
<1>3. resume[r].pc \in Executing /\ resume[r].step # "hosted_ci_probe"
      /\ steps["evaluator_controls"] # "complete"
  BY <1>2, Parts, StepNames DEF WorkFits, Executing, Idles, HandlesProbe
<1>4. \A p \in Probe : ProbeFits(p)'
  BY <1>2, <1>3, Parts DEF ProbeFits
<1>5. EvidenceInv'
  BY <1>2, <1>3, Parts DEF EvidenceInv
<1> QED
  BY <1>1, <1>2, <1>3, <1>4, <1>5, EndsKept

LEMMA FindPassedKept ==
  ASSUME TypeInv, ResumeInv, OneResumer, NEW r \in Resumer, FindPassed(r)
  PROVE  ResumeInv'
<1>1. /\ resume[r].pc \in Executing /\ resume[r].step = "hosted_ci_probe"
      /\ UNCHANGED <<status, steps, probes, hub, control>>
  BY DEF FindPassed, Executes, At, Executing, run, github
<1>2. (\A p \in Probe : ProbeFits(p)') /\ EvidenceInv' /\ (Evidence => Evidence')
  BY <1>1, StoreKept
<1>3. CASE Moves(r, "open")
  <2>1. /\ resume'[r].todo = resume[r].todo /\ resume'[r].step = resume[r].step
        /\ resume'[r].pc = "open"
    BY <1>3 DEF Moves, SameWork
  <2>2. WorkFits(resume[r])'
    BY <1>1, <2>1, WorkGoesOn DEF Executing
  <2>3. ProbeKnown(resume[r])'
    BY <2>1 DEF ProbeKnown, HandlesProbe
  <2> QED
    BY <1>1, <1>2, <2>2, <2>3, ExecutorKept
<1>4. CASE Ends(r, "failed_terminal")
  BY <1>1, <1>2, <1>4, EndsKept DEF Outcome
<1>5. CASE Ends(r, "complete") /\ \E p \in Probe : probes[p].status = "passed"
  <2>1. Evidence
    BY <1>5, Parts DEF ProbeFits, Evidence
  <2> QED
    BY <1>1, <1>2, <1>5, <2>1, EndsKept DEF Outcome
<1> QED
  BY <1>3, <1>4, <1>5, FindPassedType

LEMMA FindOpenKept ==
  ASSUME TypeInv, ResumeInv, OneResumer, NEW r \in Resumer, FindOpen(r)
  PROVE  ResumeInv'
<1>1. /\ resume'[r].pc = "observe" /\ resume'[r].todo = resume[r].todo
      /\ resume'[r].step = resume[r].step /\ resume'[r].probe \in OpenProbes
  BY FindOpenType
<1>2. resume[r].pc = "open" /\ UNCHANGED <<status, steps, probes, hub, control>>
  BY DEF FindOpen, At, run, github
<1>3. resume[r].pc \in Executing /\ resume[r].step = "hosted_ci_probe"
  BY <1>2, WorksOnProbe
<1>4. WorkFits(resume[r])'
  BY <1>1, <1>2, <1>3, WorkGoesOn DEF Executing, HandlesProbe
<1>5. ProbeKnown(resume[r])'
  BY <1>1, <1>2 DEF ProbeKnown, HandlesProbe, OpenProbes
<1> QED
  BY <1>2, <1>3, <1>4, <1>5, StoreKept, ExecutorKept

LEMMA InsertProbeKept ==
  ASSUME TypeInv, ResumeInv, OneResumer, NEW r \in Resumer, InsertProbe(r)
  PROVE  ResumeInv'
<1> DEFINE p == resume'[r].probe
<1>1. /\ resume'[r].pc = "dispatch" /\ resume'[r].todo = resume[r].todo
      /\ resume'[r].step = resume[r].step
      /\ p \in Probe /\ probes[p].status = "absent"
      /\ probes'[p].status = "dispatching" /\ probes'[p].commit = control
      /\ probes'[p].run = probes[p].run
      /\ \A q \in Probe : q # p => probes'[q] = probes[q]
  BY InsertProbeType
<1>2. resume[r].pc = "open" /\ UNCHANGED <<status, steps, hub, control>>
  BY DEF InsertProbe, At, run, github
<1>3. /\ resume[r].pc \in Executing /\ resume[r].step = "hosted_ci_probe"
      /\ steps["evaluator_controls"] = "complete" /\ steps["hosted_ci_probe"] # "complete"
  BY <1>2, WorksOnProbe
<1>4. WorkFits(resume[r])'
  BY <1>1, <1>2, <1>3, WorkGoesOn DEF Executing, HandlesProbe
<1>5. ProbeKnown(resume[r])'
  BY <1>1 DEF ProbeKnown, HandlesProbe
<1>6. \A q \in Probe : ProbeFits(q)'
  <2> SUFFICES ASSUME NEW q \in Probe PROVE ProbeFits(q)'
    OBVIOUS
  <2>1. CASE q = p
    BY <1>1, <1>2, <1>3, <2>1, Parts DEF ProbeFits
  <2>2. CASE q # p
    BY <1>1, <1>2, <2>2, Parts DEF ProbeFits
  <2> QED
    BY <2>1, <2>2
<1>7. EvidenceInv'
  BY <1>2, <1>3 DEF EvidenceInv
<1> QED
  BY <1>2, <1>3, <1>4, <1>5, <1>6, <1>7, ExecutorKept

(* The run a dispatch begins belongs to a probe no run was bound to.        *)
LEMMA DispatchProbeKept ==
  ASSUME TypeInv, ResumeInv, OneResumer, NEW r \in Resumer, DispatchProbe(r)
  PROVE  ResumeInv'
<1> DEFINE p == resume[r].probe
<1>1. /\ Moves(r, "observe") \/ Moves(r, "reject")
      /\ \A q \in Probe : q # p => hub'[q] = hub[q]
  BY DispatchProbeType
<1>2. resume[r].pc = "dispatch" /\ UNCHANGED <<status, steps, probes, control>>
  BY DEF DispatchProbe, At, run
<1>3. probes[p].status = "dispatching" /\ p \in Probe
  BY <1>2, Parts, ProbeInHand DEF ProbeKnown, HandlesProbe
<1>4. /\ resume[r].pc \in Executing /\ resume[r].step = "hosted_ci_probe"
      /\ steps["evaluator_controls"] = "complete" /\ steps["hosted_ci_probe"] # "complete"
  BY <1>2, WorksOnProbe DEF HandlesProbe
<1>5. /\ resume'[r].pc \in {"observe", "reject"} /\ resume'[r].todo = resume[r].todo
      /\ resume'[r].step = resume[r].step /\ resume'[r].probe = p
  BY <1>1 DEF Moves, SameWork
<1>6. WorkFits(resume[r])'
  BY <1>2, <1>4, <1>5, WorkGoesOn DEF Executing, HandlesProbe
<1>7. ProbeKnown(resume[r])'
  BY <1>2, <1>3, <1>5 DEF ProbeKnown, HandlesProbe
<1>8. \A q \in Probe : ProbeFits(q)'
  BY <1>1, <1>2, <1>3, Parts DEF ProbeFits
<1>9. EvidenceInv'
  BY <1>2, <1>4 DEF EvidenceInv
<1> QED
  BY <1>2, <1>4, <1>6, <1>7, <1>8, <1>9, ExecutorKept

LEMMA RejectProbeKept ==
  ASSUME TypeInv, ResumeInv, OneResumer, NEW r \in Resumer, RejectProbe(r)
  PROVE  ResumeInv'
<1> DEFINE p == resume[r].probe
<1>1. /\ Ends(r, "failed_retryable") /\ p \in Probe /\ probes'[p].status = "failed"
      /\ probes'[p].commit = probes[p].commit /\ probes'[p].run = probes[p].run
      /\ \A q \in Probe : q # p => probes'[q] = probes[q]
  BY RejectProbeType
<1>2. resume[r].pc = "reject" /\ UNCHANGED <<status, steps, hub, control>>
  BY DEF RejectProbe, At, run, github
<1>3. probes[p].status # "absent"
  BY <1>2, Parts DEF ProbeKnown, HandlesProbe
<1>4. /\ resume[r].pc \in Executing /\ steps["hosted_ci_probe"] # "complete"
  BY <1>2, WorksOnProbe DEF HandlesProbe
<1>5. \A q \in Probe : ProbeFits(q)'
  <2> SUFFICES ASSUME NEW q \in Probe PROVE ProbeFits(q)'
    OBVIOUS
  <2>1. CASE q = p
    BY <1>1, <1>2, <1>3, <2>1, Parts DEF ProbeFits
  <2>2. CASE q # p
    BY <1>1, <1>2, <2>2, Parts DEF ProbeFits
  <2> QED
    BY <2>1, <2>2
<1>6. EvidenceInv'
  BY <1>2, <1>4 DEF EvidenceInv
<1> QED
  BY <1>1, <1>2, <1>4, <1>5, <1>6, EndsKept DEF Outcome

LEMMA ObserveProbeKept ==
  ASSUME TypeInv, ResumeInv, OneResumer, NEW r \in Resumer, ObserveProbe(r)
  PROVE  ResumeInv'
<1> DEFINE p == resume[r].probe
<1>1. \/ Sees(r, "decide") /\ probes[p].run
      \/ Sees(r, "bind") /\ hub[p].state # "absent" /\ hub[p].commit = probes[p].commit
      \/ \E outcome \in {"waiting_user", "failed_retryable"} : Ends(r, outcome)
  BY ObserveProbeType
<1>2. resume[r].pc = "observe" /\ UNCHANGED <<status, steps, probes, hub, control>>
  BY DEF ObserveProbe, At, run, github
<1>3. probes[p].status # "absent"
  BY <1>2, Parts DEF ProbeKnown, HandlesProbe
<1>4. resume[r].pc \in Executing /\ resume[r].step = "hosted_ci_probe"
  BY <1>2, WorksOnProbe DEF HandlesProbe
<1>5. (\A q \in Probe : ProbeFits(q)') /\ EvidenceInv'
  BY <1>2, StoreKept
<1>6. CASE Sees(r, "decide") /\ probes[p].run
  <2>1. /\ resume'[r].pc = "decide" /\ resume'[r].todo = resume[r].todo
        /\ resume'[r].step = resume[r].step /\ resume'[r].probe = p
        /\ resume'[r].seen = hub[p].state
    BY <1>6 DEF Sees
  <2>2. WorkFits(resume[r])'
    BY <1>2, <1>4, <2>1, WorkGoesOn DEF Executing, HandlesProbe
  <2>3. ProbeKnown(resume[r])'
    BY <1>2, <1>3, <1>6, <2>1 DEF ProbeKnown, HandlesProbe
  <2> QED
    BY <1>2, <1>4, <1>5, <2>2, <2>3, ExecutorKept
<1>7. CASE Sees(r, "bind") /\ hub[p].state # "absent" /\ hub[p].commit = probes[p].commit
  <2>1. /\ resume'[r].pc = "bind" /\ resume'[r].todo = resume[r].todo
        /\ resume'[r].step = resume[r].step /\ resume'[r].probe = p
        /\ resume'[r].seen = hub[p].state
    BY <1>7 DEF Sees
  <2>2. WorkFits(resume[r])'
    BY <1>2, <1>4, <2>1, WorkGoesOn DEF Executing, HandlesProbe
  <2>3. ProbeKnown(resume[r])'
    BY <1>2, <1>3, <1>7, <2>1 DEF ProbeKnown, HandlesProbe
  <2> QED
    BY <1>2, <1>4, <1>5, <2>2, <2>3, ExecutorKept
<1>8. CASE \E outcome \in {"waiting_user", "failed_retryable"} : Ends(r, outcome)
  BY <1>2, <1>4, <1>5, <1>8, EndsKept DEF Outcome
<1> QED
  BY <1>1, <1>6, <1>7, <1>8

LEMMA BindProbeKept ==
  ASSUME TypeInv, ResumeInv, OneResumer, NEW r \in Resumer, BindProbe(r)
  PROVE  ResumeInv'
<1> DEFINE p == resume[r].probe
<1>1. /\ Moves(r, "decide") /\ p \in Probe /\ probes'[p].status = "dispatched"
      /\ probes'[p].run = TRUE /\ probes'[p].commit = probes[p].commit
      /\ \A q \in Probe : q # p => probes'[q] = probes[q]
  BY BindProbeType
<1>2. resume[r].pc = "bind" /\ UNCHANGED <<status, steps, hub, control>>
  BY DEF BindProbe, At, run, github
<1>3. /\ probes[p].status # "absent" /\ hub[p].commit = probes[p].commit
      /\ hub[p].state # "absent" /\ (resume[r].seen = "success" => hub[p].state = "success")
  BY <1>2, Parts DEF ProbeKnown, HandlesProbe
<1>4. /\ resume[r].pc \in Executing /\ resume[r].step = "hosted_ci_probe"
      /\ steps["hosted_ci_probe"] # "complete"
  BY <1>2, WorksOnProbe DEF HandlesProbe
<1>5. /\ resume'[r].pc = "decide" /\ resume'[r].todo = resume[r].todo
      /\ resume'[r].step = resume[r].step /\ resume'[r].probe = p
      /\ resume'[r].seen = resume[r].seen
  BY <1>1 DEF Moves, SameWork
<1>6. WorkFits(resume[r])'
  BY <1>2, <1>4, <1>5, WorkGoesOn DEF Executing, HandlesProbe
<1>7. ProbeKnown(resume[r])'
  BY <1>1, <1>2, <1>3, <1>5 DEF ProbeKnown, HandlesProbe
<1>8. \A q \in Probe : ProbeFits(q)'
  <2> SUFFICES ASSUME NEW q \in Probe PROVE ProbeFits(q)'
    OBVIOUS
  <2>1. CASE q = p
    BY <1>1, <1>2, <1>3, <2>1, Parts DEF ProbeFits
  <2>2. CASE q # p
    BY <1>1, <1>2, <2>2, Parts DEF ProbeFits
  <2> QED
    BY <2>1, <2>2
<1>9. EvidenceInv'
  BY <1>2, <1>4 DEF EvidenceInv
<1> QED
  BY <1>2, <1>4, <1>6, <1>7, <1>8, <1>9, ExecutorKept

LEMMA DecideProbeKept ==
  ASSUME TypeInv, ResumeInv, OneResumer, NEW r \in Resumer, DecideProbe(r)
  PROVE  ResumeInv'
<1> DEFINE p == resume[r].probe
<1>1. resume[r].pc = "decide" /\ UNCHANGED <<status, steps, hub, control>>
  BY DEF DecideProbe, At, run, github
<1>2. /\ probes[p].status # "absent" /\ probes[p].run
      /\ (resume[r].seen = "success" => hub[p].state = "success")
  BY <1>1, Parts DEF ProbeKnown, HandlesProbe
<1>3. p \in Probe
  BY DecideProbeType
<1>4. /\ hub[p].commit = control /\ hub[p].commit = probes[p].commit /\ hub[p].state # "absent"
      /\ probes[p].commit = control
  BY <1>2, <1>3, Parts DEF ProbeFits
<1>5. /\ resume[r].pc \in Executing /\ steps["hosted_ci_probe"] # "complete"
      /\ steps["evaluator_controls"] = "complete"
  BY <1>1, WorksOnProbe DEF HandlesProbe
<1>6. EvidenceInv'
  BY <1>1, <1>5 DEF EvidenceInv
<1>7. CASE Ends(r, "waiting_user") /\ UNCHANGED probes
  BY <1>1, <1>5, <1>6, <1>7, StoreKept, EndsKept DEF Outcome
<1>8. ASSUME NEW verdict \in {"passed", "failed"},
             verdict = "passed" => resume[r].seen = "success",
             probes'[p].status = verdict, probes'[p].commit = probes[p].commit,
             probes'[p].run = probes[p].run,
             \A q \in Probe : q # p => probes'[q] = probes[q],
             Ends(r, IF verdict = "passed" THEN "complete" ELSE "failed_retryable")
      PROVE  ResumeInv'
  <2>1. verdict = "passed" => hub[p].state = "success"
    BY <1>2, <1>8
  <2>2. \A q \in Probe : ProbeFits(q)'
    <3> SUFFICES ASSUME NEW q \in Probe PROVE ProbeFits(q)'
      OBVIOUS
    <3>1. CASE q = p
      BY <1>1, <1>2, <1>4, <1>5, <1>8, <2>1, <3>1 DEF ProbeFits
    <3>2. CASE q # p
      BY <1>1, <1>8, <3>2, Parts DEF ProbeFits
    <3> QED
      BY <3>1, <3>2
  <2>3. CASE verdict = "passed"
    <3>1. Evidence' /\ Ends(r, "complete")
      BY <1>1, <1>3, <1>4, <1>8, <2>1, <2>3 DEF Evidence
    <3> QED
      BY <1>1, <1>5, <1>6, <2>2, <3>1, EndsKept DEF Outcome
  <2>4. CASE verdict = "failed"
    <3>1. Ends(r, "failed_retryable")
      BY <1>8, <2>4
    <3> QED
      BY <1>1, <1>5, <1>6, <2>2, <3>1, EndsKept DEF Outcome
  <2> QED
    BY <2>3, <2>4
<1> QED
  BY <1>7, <1>8, DecideProbeType

LEMMA CallFailsKept ==
  ASSUME TypeInv, ResumeInv, OneResumer, NEW r \in Resumer, CallFails(r)
  PROVE  ResumeInv'
<1>1. Ends(r, "failed_retryable")
  BY CallFailsType
<1>2. /\ resume[r].pc \in Executing
      /\ UNCHANGED <<status, steps, probes, hub, control>>
  BY DEF CallFails, At, Executing, HandlesProbe, run, github
<1> QED
  BY <1>1, <1>2, StoreKept, EndsKept DEF Outcome

LEMMA ResumeInvStep ==
  ASSUME TypeInv, ResumeInv, OneResumer, [Next]_vars PROVE ResumeInv'
<1>1. CASE Begin \/ OpenPage \/ MoveMain
  BY <1>1, ResumeStays DEF Begin, OpenPage, MoveMain, inside, run, github
<1>2. ASSUME NEW r \in Resumer, ResumeStep(r) \/ CallFails(r) \/ Kill(r) PROVE ResumeInv'
  BY <1>2, StartResumeKept, ReopenKept, SnapshotKept, MarkRunningKept, BecomeReadyKept,
     ApplyOutcomeKept, StopResumeKept, OtherStepKept, InstallControlsKept,
     FindPassedKept, FindOpenKept, InsertProbeKept, DispatchProbeKept, RejectProbeKept,
     ObserveProbeKept, BindProbeKept, DecideProbeKept, CallFailsKept, KillKept
     DEF ResumeStep
<1>3. ASSUME NEW b \in Callback, RequestStep(b) \/ KillRequest(b) PROVE ResumeInv'
  <2>1. UNCHANGED <<inside, hub>>
    BY <1>3 DEF RequestStep, WriteKey, WriteSecret, WriteApp, AdvanceSession, WriteInstallation,
       FinishSession, ConvertManifest, VerifyInstallation, KillRequest, github
  <2> QED
    BY <2>1, ResumeStays DEF inside, run
<1>4. ASSUME NEW p \in Probe, FinishRun(p) PROVE ResumeInv'
  BY <1>4, FinishRunKept
<1>5. ASSUME NEW app \in App, InstallApp(app) PROVE ResumeInv'
  BY <1>5, ResumeStays DEF InstallApp, inside, run
<1>6. CASE UNCHANGED vars
  BY <1>6, ResumeStays DEF vars, run, github
<1> QED
  BY <1>1, <1>2, <1>3, <1>4, <1>5, <1>6 DEF Next

LEMMA ResumeInvariant == ASSUME OneResumer PROVE Spec => []ResumeInv
<1>1. TypeInv /\ ResumeInv /\ [Next]_vars => ResumeInv'
  BY ResumeInvStep
<1> QED
  BY <1>1, InitResume, TypeInvariant, PTL DEF Spec

(* With one resume at a time, however often it is killed and resumed again, *)
(* SetupService marks a run ready only when every step of it is complete,   *)
(* and it stays so. Of two overlapping resumes, one resets the running step *)
(* of the other and may leave it incomplete after that one has finished.    *)
THEOREM ReadyOnlyComplete == ASSUME OneResumer PROVE Spec => []ReadyMeansComplete
<1>1. ResumeInv => ReadyMeansComplete
  BY DEF ResumeInv, ReadyInv, ReadyMeansComplete
<1> QED
  BY <1>1, ResumeInvariant, PTL

(* With one resume at a time, whatever the runs of lost and failed probes   *)
(* do and wherever the branch moves, the hosted check is complete only with *)
(* a successful run of the workflow the control plane is bound to.          *)
(* An overlapping one could bind the controls to a later commit meanwhile.  *)
THEOREM ProbeEvidence == ASSUME OneResumer PROVE Spec => []ProbeStepHasEvidence
<1>1. TypeInv /\ ResumeInv => ProbeStepHasEvidence
  <2> SUFFICES ASSUME TypeInv, ResumeInv, steps["hosted_ci_probe"] = "complete"
               PROVE  \E p \in Probe : hub[p] = [state |-> "success", commit |-> control]
    BY DEF ProbeStepHasEvidence
  <2>1. PICK p \in Probe : hub[p].state = "success" /\ hub[p].commit = control
    BY DEF ResumeInv, EvidenceInv, Evidence
  <2>2. hub[p] \in ActionsRun
    BY DEF TypeInv, StoreOK
  <2>3. hub[p] = [state |-> "success", commit |-> control]
    BY <2>1, <2>2 DEF ActionsRun
  <2> QED
    BY <2>3
<1> QED
  BY <1>1, TypeInvariant, ResumeInvariant, PTL

-----------------------------------------------------------------------------
(* One callback at a time *)

IsLatest(s) == s + 1 \in Session => sessions[s + 1].status = "absent"

SessionFits(s) ==
  /\ sessions[s].status = "absent" =>
       /\ sessions[s].phase = "manifest"
       /\ \A q \in Session : q >= s => sessions[q].status = "absent"
  /\ sessions[s].status = "active" => IsLatest(s)

(* The App's files that a callback has written so far.                      *)
FilesFit(e) ==
  /\ e.pc \in {"secret", "app", "advance"} => key = e.app
  /\ e.pc \in {"app", "advance"} => secret = e.app
  /\ e.pc \in {"advance", "finish"} => config.app = e.app
  /\ e.pc = "finish" => config.installation = e.app

(* While a flow waits for the installation, a callback can only be finishing it. *)
WaitsForInstallation(s, e) ==
  /\ key = sessions[s].app /\ secret = sessions[s].app /\ config.app = sessions[s].app
  /\ e.pc \in {"idle", "installation", "finish"}
  /\ e.pc # "idle" => e.session = s /\ e.app = sessions[s].app
Completed(s, e) ==
  /\ key = sessions[s].app /\ secret = sessions[s].app
  /\ config.app = sessions[s].app /\ config.installation = sessions[s].app
  /\ e.pc = "idle"

FlowFits(e) ==
  /\ FilesFit(e)
  /\ \A s \in Session :
       /\ IsActive(s, "installation") => WaitsForInstallation(s, e)
       /\ IsLatest(s) /\ sessions[s].status = "complete" => Completed(s, e)

(* Only a callback takes a flow further.                                    *)
NoneReturns ==
  Callback = {} =>
    \A s \in Session : sessions[s].phase = "manifest" /\ sessions[s].status # "complete"

FlowInv ==
  /\ \A s \in Session : SessionFits(s)
  /\ NoneReturns
  /\ \A b \in Callback : FlowFits(callback[b])

OneCallback == \A b, c \in Callback : b = c

LEMMA SessionOrder ==
  ASSUME NEW s \in Session, NEW t \in Session
  PROVE  s \in Int /\ t \in Int /\ (s < t => s + 1 \in Session) /\ s + 1 >= s
BY SetupAssumption DEF Session

LEMMA InitFlow == Init => FlowInv
<1> SUFFICES ASSUME Init PROVE FlowInv
  OBVIOUS
<1>1. \A s \in Session : sessions[s].status = "absent" /\ sessions[s].phase = "manifest"
  BY DEF Init
<1>2. \A b \in Callback : callback[b].pc = "idle"
  BY DEF Init, NoRequest
<1>3. \A s \in Session : SessionFits(s)
  BY <1>1 DEF SessionFits
<1>4. \A b \in Callback : FlowFits(callback[b])
  BY <1>1, <1>2 DEF FlowFits, FilesFit, IsActive
<1> QED
  BY <1>1, <1>3, <1>4 DEF FlowInv, NoneReturns

(* There is one latest flow.                                                *)
LEMMA LatestUnique ==
  ASSUME FlowInv, NEW s \in Session, NEW t \in Session, IsLatest(s), IsLatest(t),
         sessions[s].status # "absent", sessions[t].status # "absent"
  PROVE  s = t
<1>1. ASSUME NEW p \in Session, NEW q \in Session, IsLatest(p), p < q
      PROVE  sessions[q].status = "absent"
  <2>1. p + 1 \in Session /\ sessions[p + 1].status = "absent" /\ q >= p + 1
    BY <1>1, SessionOrder DEF IsLatest
  <2> QED
    BY <2>1 DEF FlowInv, SessionFits
<1>2. ~(s < t) /\ ~(t < s)
  BY <1>1
<1> QED
  BY <1>2, SessionOrder

LEMMA ActiveUnique ==
  ASSUME FlowInv, NEW s \in Session, sessions[s].status = "active", NEW t \in Session,
         sessions[t].status = "active" \/ (IsLatest(t) /\ sessions[t].status = "complete")
  PROVE  s = t
<1>1. IsLatest(s) /\ IsLatest(t)
  BY DEF FlowInv, SessionFits
<1> QED
  BY <1>1, LatestUnique

LEMMA AloneFlow ==
  ASSUME OneCallback, NEW b \in Callback, \A s \in Session : SessionFits(s)', FlowFits(callback[b])'
  PROVE  FlowInv'
BY DEF OneCallback, FlowInv, NoneReturns

LEMMA FlowStays ==
  ASSUME FlowInv, UNCHANGED <<sessions, files, callback>> PROVE FlowInv'
<1>1. \A s \in Session : SessionFits(s)'
  BY DEF FlowInv, SessionFits, IsLatest
<1>2. \A b \in Callback : FlowFits(callback[b])'
  BY DEF FlowInv, FlowFits, FilesFit, WaitsForInstallation, Completed, IsActive, IsLatest, files
<1> QED
  BY <1>1, <1>2 DEF FlowInv, NoneReturns

(* A flow that begins or ends its installation stays the latest.            *)
LEMMA SessionsFitStill ==
  ASSUME FlowInv,
         \A q \in Session : /\ sessions'[q].status = "absent" <=> sessions[q].status = "absent"
                            /\ sessions'[q].status = "active" => sessions[q].status = "active"
                            /\ sessions[q].status = "absent" => sessions'[q].phase = sessions[q].phase
  PROVE  \A q \in Session : SessionFits(q)' /\ (IsLatest(q)' <=> IsLatest(q))
<1>1. \A q \in Session : IsLatest(q)' <=> IsLatest(q)
  BY DEF IsLatest
<1>2. \A q \in Session : SessionFits(q)'
  BY <1>1 DEF FlowInv, SessionFits
<1> QED
  BY <1>1, <1>2

LEMMA SessionsSame ==
  ASSUME FlowInv, UNCHANGED sessions
  PROVE  \A q \in Session : SessionFits(q)' /\ (IsLatest(q)' <=> IsLatest(q))
BY SessionsFitStill

(* While a callback handles the manifest, no flow waits for its             *)
(* installation and the latest is not complete.                             *)
LEMMA NoneWaits ==
  ASSUME FlowInv, NEW b \in Callback, callback[b].pc \in {"key", "secret", "app", "advance"},
         NEW q \in Session
  PROVE  ~IsActive(q, "installation") /\ ~(IsLatest(q) /\ sessions[q].status = "complete")
BY DEF FlowInv, FlowFits, WaitsForInstallation, Completed

LEMMA OpenPageFlow ==
  ASSUME TypeInv, FlowInv, OpenPage PROVE FlowInv'
<1>1. PICK s \in Session :
        /\ \A q \in Session : sessions[q].status = "absent" <=> q >= s
        /\ sessions'[s].status = "active" /\ sessions'[s].phase = sessions[s].phase
        /\ \A q \in Session :
             q # s => /\ sessions'[q].phase = sessions[q].phase
                      /\ sessions[q].status = "active" => sessions'[q].status = "cancelled"
                      /\ sessions[q].status # "active" => sessions'[q] = sessions[q]
  BY OpenPageType
<1>2. sessions[s].phase = "manifest"
  BY <1>1, SessionOrder DEF FlowInv, SessionFits
<1>3. \A q \in Session : sessions'[q].status = "absent" <=> q >= s /\ q # s
  BY <1>1, SessionOrder
<1>4. \A q \in Session : sessions'[q].status = "active" => q = s
  BY <1>1
<1>5. ASSUME NEW q \in Session PROVE SessionFits(q)'
  <2>1. ASSUME sessions'[q].status = "absent", NEW t \in Session, t >= q
        PROVE  sessions'[t].status = "absent"
    BY <1>3, <2>1, SessionOrder
  <2>2. ASSUME sessions'[q].status = "absent" PROVE sessions'[q].phase = "manifest"
    BY <1>1, <1>3, <2>2 DEF FlowInv, SessionFits
  <2>3. ASSUME sessions'[q].status = "active" PROVE IsLatest(q)'
    BY <1>3, <1>4, <2>3, SessionOrder DEF IsLatest
  <2> QED
    BY <2>1, <2>2, <2>3 DEF SessionFits
<1>6. ASSUME NEW q \in Session
      PROVE  ~IsActive(q, "installation")' /\ ~(IsLatest(q)' /\ sessions'[q].status = "complete")
  <2>1. ~IsActive(q, "installation")'
    BY <1>1, <1>2, <1>4 DEF IsActive
  <2>2. ASSUME IsLatest(q)', sessions'[q].status = "complete" PROVE FALSE
    <3>1. q < s
      BY <1>1, <1>3, <2>2, SessionOrder
    <3>2. q + 1 \in Session /\ ~(q + 1 >= s /\ q + 1 # s)
      BY <3>1, SessionOrder
    <3> QED
      BY <1>3, <2>2, <3>2 DEF IsLatest
  <2> QED
    BY <2>1, <2>2
<1>7. UNCHANGED <<files, callback>>
  BY DEF OpenPage
<1>8. \A b \in Callback : FlowFits(callback[b])'
  BY <1>6, <1>7 DEF FlowInv, FlowFits, FilesFit, files
<1>9. ASSUME Callback = {}, NEW q \in Session
      PROVE  sessions'[q].phase = "manifest" /\ sessions'[q].status # "complete"
  <2>1. sessions[q].phase = "manifest" /\ sessions[q].status # "complete"
    BY <1>9 DEF FlowInv, NoneReturns
  <2> QED
    BY <1>1, <2>1
<1> QED
  BY <1>5, <1>8, <1>9 DEF FlowInv, NoneReturns

LEMMA ConvertManifestFlow ==
  ASSUME TypeInv, FlowInv, OneCallback, NEW b \in Callback, NEW s \in Session,
         ConvertManifest(b, s)
  PROVE  FlowInv'
<1>1. callback'[b].pc = "key" /\ IsActive(s, "manifest") /\ UNCHANGED <<sessions, files>>
  BY ConvertManifestType DEF ConvertManifest, Accepts
<1>2. \A q \in Session : ~IsActive(q, "installation")
                         /\ ~(IsLatest(q) /\ sessions[q].status = "complete")
  BY <1>1, ActiveUnique DEF IsActive
<1>3. \A q \in Session : SessionFits(q)' /\ (IsLatest(q)' <=> IsLatest(q))
  BY <1>1, SessionsSame
<1>4. FilesFit(callback[b])'
  BY <1>1 DEF FilesFit
<1>5. FlowFits(callback[b])'
  BY <1>1, <1>2, <1>3, <1>4 DEF FlowFits, IsActive
<1> QED
  BY <1>3, <1>5, AloneFlow

(* Between the conversion of the manifest and the update of the session.    *)
LEMMA WritesFlow ==
  ASSUME TypeInv, FlowInv, OneCallback, NEW b \in Callback, UNCHANGED sessions,
         callback[b].pc \in {"key", "secret", "app"}, FilesFit(callback[b])'
  PROVE  FlowInv'
<1>1. \A q \in Session : SessionFits(q)' /\ (IsLatest(q)' <=> IsLatest(q))
  BY SessionsSame
<1>2. FlowFits(callback[b])'
  BY <1>1, NoneWaits DEF FlowFits, IsActive
<1> QED
  BY <1>1, <1>2, AloneFlow

LEMMA WriteKeyFlow ==
  ASSUME TypeInv, FlowInv, OneCallback, NEW b \in Callback, WriteKey(b) PROVE FlowInv'
<1>1. callback[b].pc = "key" /\ key' = callback[b].app /\ UNCHANGED sessions
  BY DEF WriteKey, Serves
<1>2. callback'[b].pc = "secret" /\ callback'[b].app = callback[b].app
  BY WriteKeyType DEF Answers
<1>3. FilesFit(callback[b])'
  BY <1>1, <1>2 DEF FilesFit
<1> QED
  BY <1>1, <1>3, WritesFlow

LEMMA WriteSecretFlow ==
  ASSUME TypeInv, FlowInv, OneCallback, NEW b \in Callback, WriteSecret(b) PROVE FlowInv'
<1>1. callback[b].pc = "secret" /\ secret' = callback[b].app /\ UNCHANGED <<key, sessions>>
  BY DEF WriteSecret, Serves
<1>2. callback'[b].pc = "app" /\ callback'[b].app = callback[b].app
  BY WriteSecretType DEF Answers
<1>3. key = callback[b].app
  BY <1>1 DEF FlowInv, FlowFits, FilesFit
<1>4. FilesFit(callback[b])'
  BY <1>1, <1>2, <1>3 DEF FilesFit
<1> QED
  BY <1>1, <1>4, WritesFlow

LEMMA WriteAppFlow ==
  ASSUME TypeInv, FlowInv, OneCallback, NEW b \in Callback, WriteApp(b) PROVE FlowInv'
<1>1. callback[b].pc = "app" /\ UNCHANGED <<key, secret, sessions>>
  BY DEF WriteApp, Serves
<1>2. callback'[b].pc = "advance" /\ callback'[b].app = callback[b].app
      /\ config'.app = callback[b].app
  BY WriteAppType DEF Answers
<1>3. key = callback[b].app /\ secret = callback[b].app
  BY <1>1 DEF FlowInv, FlowFits, FilesFit
<1>4. FilesFit(callback[b])'
  BY <1>1, <1>2, <1>3 DEF FilesFit
<1> QED
  BY <1>1, <1>4, WritesFlow

LEMMA AdvanceSessionFlow ==
  ASSUME TypeInv, FlowInv, OneCallback, NEW b \in Callback, AdvanceSession(b) PROVE FlowInv'
<1> DEFINE s == callback[b].session
           app == callback[b].app
<1>1. /\ callback'[b].pc = "idle" /\ s \in Session
      /\ \A q \in Session : q # s => sessions'[q] = sessions[q]
      /\ \/ sessions'[s] = sessions[s]
         \/ /\ IsActive(s, "manifest") /\ sessions'[s].status = "active"
            /\ sessions'[s].phase = "installation" /\ sessions'[s].app = app
  BY AdvanceSessionType
<1>2. callback[b].pc = "advance" /\ UNCHANGED <<key, secret, config>>
  BY DEF AdvanceSession, Serves, files
<1>3. key = app /\ secret = app /\ config.app = app
  BY <1>2 DEF FlowInv, FlowFits, FilesFit
<1>4. \A q \in Session : SessionFits(q)' /\ (IsLatest(q)' <=> IsLatest(q))
  BY <1>1, SessionsFitStill DEF IsActive
<1>5. \A q \in Session : ~IsActive(q, "installation")
                         /\ ~(IsLatest(q) /\ sessions[q].status = "complete")
  BY <1>2, NoneWaits
<1>6. FilesFit(callback[b])'
  BY <1>1 DEF FilesFit
<1>7. ASSUME NEW q \in Session, IsActive(q, "installation")'
      PROVE  WaitsForInstallation(q, callback[b])'
  <2>1. q = s /\ sessions'[q].app = app
    BY <1>1, <1>5, <1>7 DEF IsActive
  <2> QED
    BY <1>1, <1>2, <1>3, <2>1 DEF WaitsForInstallation
<1>8. ASSUME NEW q \in Session, IsLatest(q)', sessions'[q].status = "complete" PROVE FALSE
  BY <1>1, <1>4, <1>5, <1>8
<1>9. FlowFits(callback[b])'
  BY <1>6, <1>7, <1>8 DEF FlowFits
<1> QED
  BY <1>4, <1>9, AloneFlow

LEMMA VerifyInstallationFlow ==
  ASSUME TypeInv, FlowInv, OneCallback, NEW b \in Callback, NEW s \in Session,
         VerifyInstallation(b, s)
  PROVE  FlowInv'
<1>1. /\ callback'[b].pc = "installation" /\ callback'[b].session = s
      /\ callback'[b].app = sessions[s].app /\ IsActive(s, "installation")
      /\ UNCHANGED <<sessions, key, secret, config>>
  BY VerifyInstallationType DEF VerifyInstallation, Accepts, files
<1>2. \A q \in Session : SessionFits(q)' /\ (IsLatest(q)' <=> IsLatest(q))
  BY <1>1, SessionsSame
<1>3. FilesFit(callback[b])'
  BY <1>1 DEF FilesFit
<1>4. ASSUME NEW q \in Session, IsActive(q, "installation")'
      PROVE  WaitsForInstallation(q, callback[b])'
  <2>1. q = s /\ IsActive(q, "installation")
    BY <1>1, <1>4, ActiveUnique DEF IsActive
  <2>2. WaitsForInstallation(q, callback[b])
    BY <2>1 DEF FlowInv, FlowFits
  <2> QED
    BY <1>1, <2>1, <2>2 DEF WaitsForInstallation
<1>5. ASSUME NEW q \in Session, IsLatest(q)', sessions'[q].status = "complete" PROVE FALSE
  BY <1>1, <1>2, <1>5, ActiveUnique DEF IsActive
<1>6. FlowFits(callback[b])'
  BY <1>3, <1>4, <1>5 DEF FlowFits
<1> QED
  BY <1>2, <1>6, AloneFlow

LEMMA WriteInstallationFlow ==
  ASSUME TypeInv, FlowInv, OneCallback, NEW b \in Callback, WriteInstallation(b) PROVE FlowInv'
<1>1. callback[b].pc = "installation" /\ UNCHANGED <<sessions, key, secret>>
  BY DEF WriteInstallation, Serves
<1>2. /\ callback'[b].pc = "finish" /\ callback'[b].session = callback[b].session
      /\ callback'[b].app = callback[b].app
      /\ config'.app = callback[b].app /\ config'.installation = callback[b].app
  BY WriteInstallationType DEF Answers
<1>3. \A q \in Session : SessionFits(q)' /\ (IsLatest(q)' <=> IsLatest(q))
  BY <1>1, SessionsSame
<1>4. FilesFit(callback[b])'
  BY <1>2 DEF FilesFit
<1>5. ASSUME NEW q \in Session, IsActive(q, "installation")'
      PROVE  WaitsForInstallation(q, callback[b])'
  <2>1. WaitsForInstallation(q, callback[b])
    BY <1>1, <1>5 DEF IsActive, FlowInv, FlowFits
  <2> QED
    BY <1>1, <1>2, <2>1 DEF WaitsForInstallation
<1>6. ASSUME NEW q \in Session, IsLatest(q)', sessions'[q].status = "complete" PROVE FALSE
  <2>1. Completed(q, callback[b])
    BY <1>1, <1>3, <1>6 DEF FlowInv, FlowFits
  <2> QED
    BY <1>1, <2>1 DEF Completed
<1>7. FlowFits(callback[b])'
  BY <1>4, <1>5, <1>6 DEF FlowFits
<1> QED
  BY <1>3, <1>7, AloneFlow

LEMMA FinishSessionFlow ==
  ASSUME TypeInv, FlowInv, OneCallback, NEW b \in Callback, FinishSession(b) PROVE FlowInv'
<1> DEFINE s == callback[b].session
<1>1. /\ callback'[b].pc = "idle" /\ s \in Session
      /\ \A q \in Session : q # s => sessions'[q] = sessions[q]
      /\ \/ sessions'[s] = sessions[s]
         \/ /\ IsActive(s, "installation") /\ sessions'[s].status = "complete"
            /\ sessions'[s].app = sessions[s].app
  BY FinishSessionType
<1>2. callback[b].pc = "finish" /\ UNCHANGED <<key, secret, config>>
  BY DEF FinishSession, Serves, files
<1>3. \A q \in Session : SessionFits(q)' /\ (IsLatest(q)' <=> IsLatest(q))
  BY <1>1, SessionsFitStill DEF IsActive
<1>4. FilesFit(callback[b])'
  BY <1>1 DEF FilesFit
<1>5. ASSUME NEW q \in Session, IsActive(q, "installation")'
      PROVE  WaitsForInstallation(q, callback[b])'
  <2>1. sessions'[q] = sessions[q]
    BY <1>1, <1>5 DEF IsActive
  <2>2. WaitsForInstallation(q, callback[b])
    BY <1>5, <2>1 DEF IsActive, FlowInv, FlowFits
  <2> QED
    BY <1>1, <1>2, <2>1, <2>2 DEF WaitsForInstallation
<1>6. ASSUME NEW q \in Session, IsLatest(q)', sessions'[q].status = "complete"
      PROVE  Completed(q, callback[b])'
  <2>1. sessions[q].status # "complete"
    BY <1>2, <1>3, <1>6 DEF FlowInv, FlowFits, Completed
  <2>2. q = s /\ IsActive(q, "installation") /\ sessions'[q].app = sessions[q].app
    BY <1>1, <1>6, <2>1
  <2>3. WaitsForInstallation(q, callback[b]) /\ FilesFit(callback[b])
    BY <2>2 DEF FlowInv, FlowFits
  <2> QED
    BY <1>1, <1>2, <2>2, <2>3 DEF WaitsForInstallation, FilesFit, Completed
<1>7. FlowFits(callback[b])'
  BY <1>4, <1>5, <1>6 DEF FlowFits
<1> QED
  BY <1>3, <1>7, AloneFlow

LEMMA KillRequestFlow ==
  ASSUME TypeInv, FlowInv, OneCallback, NEW b \in Callback, KillRequest(b) PROVE FlowInv'
<1>1. callback'[b].pc = "idle" /\ UNCHANGED <<sessions, key, secret, config>>
  BY KillRequestType DEF KillRequest, files
<1>2. callback[b].pc # "idle"
  BY DEF KillRequest, Serves
<1>3. \A q \in Session : SessionFits(q)' /\ (IsLatest(q)' <=> IsLatest(q))
  BY <1>1, SessionsSame
<1>4. FilesFit(callback[b])'
  BY <1>1 DEF FilesFit
<1>5. ASSUME NEW q \in Session, IsActive(q, "installation")'
      PROVE  WaitsForInstallation(q, callback[b])'
  <2>1. WaitsForInstallation(q, callback[b])
    BY <1>1, <1>5 DEF IsActive, FlowInv, FlowFits
  <2> QED
    BY <1>1, <2>1 DEF WaitsForInstallation
<1>6. ASSUME NEW q \in Session, IsLatest(q)', sessions'[q].status = "complete" PROVE FALSE
  BY <1>1, <1>2, <1>3, <1>6 DEF FlowInv, FlowFits, Completed
<1>7. FlowFits(callback[b])'
  BY <1>4, <1>5, <1>6 DEF FlowFits
<1> QED
  BY <1>3, <1>7, AloneFlow

LEMMA FlowStep ==
  ASSUME TypeInv, FlowInv, OneCallback, [Next]_vars PROVE FlowInv'
<1>1. ASSUME NEW b \in Callback, RequestStep(b) \/ KillRequest(b) PROVE FlowInv'
  BY <1>1, WriteKeyFlow, WriteSecretFlow, WriteAppFlow, AdvanceSessionFlow,
     WriteInstallationFlow, FinishSessionFlow, ConvertManifestFlow, VerifyInstallationFlow,
     KillRequestFlow DEF RequestStep
<1>2. ASSUME NEW r \in Resumer, ResumeStep(r) \/ CallFails(r) \/ Kill(r) PROVE FlowInv'
  <2>1. UNCHANGED <<sessions, files, callback>>
    BY <1>2 DEF ResumeStep, StartResume, Reopen, Snapshot, MarkRunning, BecomeReady, ApplyOutcome,
       StopResume, CheckOutside, CheckApp, InstallControls, FindPassed, FindOpen, InsertProbe,
       DispatchProbe, RejectProbe, ObserveProbe, BindProbe, DecideProbe, CallFails, Kill, outside
  <2> QED
    BY <2>1, FlowStays
<1>3. CASE Begin \/ MoveMain \/ \E p \in Probe : FinishRun(p)
  BY <1>3, FlowStays DEF Begin, MoveMain, FinishRun, outside
<1>4. CASE \E app \in App : InstallApp(app)
  BY <1>4, FlowStays DEF InstallApp, outside
<1>5. CASE UNCHANGED vars
  BY <1>5, FlowStays DEF vars
<1> QED
  BY <1>1, <1>2, <1>3, <1>4, <1>5, OpenPageFlow DEF Next

LEMMA FlowShown == FlowInv => LatestFlowIsConsistent
<1> SUFFICES ASSUME FlowInv, NEW s \in Session, IsLatest(s)
             PROVE  /\ IsActive(s, "installation") =>
                         {key, secret, config.app} = {sessions[s].app}
                    /\ sessions[s].status = "complete" =>
                         {key, secret, config.app, config.installation} = {sessions[s].app}
  BY DEF LatestFlowIsConsistent, IsLatest
<1>1. CASE Callback = {}
  BY <1>1 DEF FlowInv, NoneReturns, IsActive
<1>2. CASE Callback # {}
  <2>1. PICK b \in Callback : FlowFits(callback[b])
    BY <1>2 DEF FlowInv
  <2>2. IsActive(s, "installation") =>
          key = sessions[s].app /\ secret = sessions[s].app /\ config.app = sessions[s].app
    BY <2>1 DEF FlowFits, WaitsForInstallation
  <2>3. sessions[s].status = "complete" =>
          /\ key = sessions[s].app /\ secret = sessions[s].app
          /\ config.app = sessions[s].app /\ config.installation = sessions[s].app
    BY <2>1 DEF FlowFits, Completed
  <2> QED
    BY <2>2, <2>3
<1> QED
  BY <1>1, <1>2

(* With one callback at a time, whatever pages were opened and callbacks    *)
(* killed in between, the latest flow that waits for its installation has   *)
(* key, webhook secret and id of its own App stored, and a completed one    *)
(* its installation too. Two callbacks that overlap mix their Apps' files.  *)
THEOREM LatestFlow == ASSUME OneCallback PROVE Spec => []LatestFlowIsConsistent
<1>1. TypeInv /\ FlowInv /\ [Next]_vars => FlowInv'
  BY FlowStep
<1>2. TypeInv /\ FlowInv => LatestFlowIsConsistent
  BY FlowShown
<1> QED
  BY <1>1, <1>2, InitFlow, TypeInvariant, PTL DEF Spec
=============================================================================
