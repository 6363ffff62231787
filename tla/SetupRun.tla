------------------------------- MODULE SetupRun -------------------------------
(***************************************************************************)
(* Guided setup: SetupService.resume and the steps of setup.py with state  *)
(* of their own, and the GitHub App flow of github_setup.py.               *)
(*                                                                         *)
(* `setup resume` of the CLI and the dashboard run the incomplete steps in *)
(* order; each transaction and each GitHub call is an action. Meanwhile    *)
(* the browser opens the setup page and returns from GitHub with the       *)
(* callbacks that create and install the App.                              *)
(* Everything may be killed between two actions.                           *)
(*                                                                         *)
(* Steps whose handler only looks at the outside (TLS, webhook and grader  *)
(* checks, worker health) are alike; "worker_health" stands for them. The  *)
(* first assignment is Publication. One setup run is followed. An App is   *)
(* its number, and so is what belongs to it: key, webhook secret,          *)
(* installation.                                                           *)
(***************************************************************************)
EXTENDS Integers, FiniteSets

CONSTANTS
  Resumer,      \* concurrent calls of resume()
  Callback,     \* concurrent GitHub callbacks in the server
  MaxProbes,    \* bound on the probes dispatched
  MaxStarts,    \* bound on the times the setup page is opened
  MaxApps,      \* bound on the Apps created
  MaxCommit,    \* bound on the commits of the workspace's default branch
  MaxFailures   \* bound on kills and failed calls

Probe == 1..MaxProbes
Session == 1..MaxStarts
App == 1..MaxApps
None == 0

ASSUME SetupAssumption ==
  {MaxProbes, MaxStarts, MaxApps, MaxCommit} \subseteq Nat \ {0} /\ MaxFailures \in Nat

SetupSteps == <<"github_app", "evaluator_controls", "hosted_ci_probe", "worker_health">>
Step == {SetupSteps[i] : i \in 1..4}
Outcome == {"complete", "waiting_user", "failed_retryable", "failed_terminal"}
StepStatus == Outcome \cup {"pending", "running"}

VARIABLES
  status,     \* setup_runs.status; "absent" before begin()
  steps,      \* setup_steps
  probes,     \* hosted_setup_probes
  control,    \* workflow_commit of the control plane
  sessions,   \* github_app_setup_sessions
  config,     \* config.yaml: app_id and the App its installation_id belongs to
  key,        \* the App whose github-app.pem was written last
  secret,     \* the App whose webhook secret was stored last
  hub,        \* on GitHub: the Actions run of each probe
  main,       \* on GitHub: commit of the default branch
  installed,  \* on GitHub: Apps the learner installed
  created,    \* on GitHub: number of Apps created
  resume,     \* [Resumer -> Resume]
  callback,   \* [Callback -> Request]
  failures

run == <<status, steps>>
files == <<config, key, secret>>
github == <<hub, main, installed, created>>
vars == <<run, probes, control, sessions, files, github, resume, callback, failures>>

ProbeRow == [status : {"absent", "dispatching", "dispatched", "passed", "failed"},
             commit : 0..MaxCommit, run : BOOLEAN]
ActionsRun == [state : {"absent", "queued", "success", "failure"}, commit : 0..MaxCommit]
SessionRow == [status : {"absent", "active", "complete", "cancelled"},
               phase : {"manifest", "installation"}, app : 0..MaxApps]

\* todo: the steps found incomplete; hasApp: App settings were there when the process
\* loaded them; seen: state of the probe's Actions run.
Resume == [pc : {"idle", "reopen", "snapshot", "next", "execute", "open", "dispatch", "reject",
                 "observe", "bind", "decide", "apply", "stop"},
           todo : SUBSET Step, step : Step, hasApp : BOOLEAN, probe : 0..MaxProbes,
           seen : {"absent", "queued", "success", "failure"}, outcome : Outcome]
NoResume == [pc |-> "idle", todo |-> {}, step |-> "github_app", hasApp |-> FALSE,
             probe |-> None, seen |-> "absent", outcome |-> "complete"]

Request == [pc : {"idle", "key", "secret", "app", "advance", "installation", "finish"},
            session : 0..MaxStarts, app : 0..MaxApps]
NoRequest == [pc |-> "idle", session |-> None, app |-> None]

TypeOK ==
  /\ status \in {"absent", "provisioning", "action_required", "failed", "ready"}
  /\ steps \in [Step -> StepStatus]
  /\ probes \in [Probe -> ProbeRow] /\ hub \in [Probe -> ActionsRun]
  /\ control \in 0..MaxCommit /\ main \in 1..MaxCommit
  /\ sessions \in [Session -> SessionRow]
  /\ config \in [app : 0..MaxApps, installation : 0..MaxApps]
  /\ key \in 0..MaxApps /\ secret \in 0..MaxApps
  /\ installed \subseteq App /\ created \in 0..MaxApps
  /\ resume \in [Resumer -> Resume] /\ callback \in [Callback -> Request]
  /\ failures \in 0..MaxFailures

Init ==
  /\ status = "absent" /\ steps = [s \in Step |-> "pending"]
  /\ probes = [p \in Probe |-> [status |-> "absent", commit |-> 0, run |-> FALSE]]
  /\ hub = [p \in Probe |-> [state |-> "absent", commit |-> 0]]
  /\ control = 0 /\ main = 1
  /\ sessions = [s \in Session |-> [status |-> "absent", phase |-> "manifest", app |-> None]]
  /\ config = [app |-> None, installation |-> None] /\ key = None /\ secret = None
  /\ installed = {} /\ created = 0
  /\ resume = [r \in Resumer |-> NoResume] /\ callback = [b \in Callback |-> NoRequest]
  /\ failures = 0

-----------------------------------------------------------------------------
(* SetupService *)

GoTo(r, pc) == resume' = [resume EXCEPT ![r].pc = pc]
End(r, outcome) == resume' = [resume EXCEPT ![r].pc = "apply", ![r].outcome = outcome]
At(r, pc) == resume[r].pc = pc
Executes(r, step) == At(r, "execute") /\ resume[r].step = step
outside == <<sessions, files, callback>>

Begin ==
  /\ status = "absent" /\ status' = "provisioning"
  /\ UNCHANGED <<steps, probes, control, outside, github, resume, failures>>

StartResume(r) ==
  /\ At(r, "idle") /\ status # "absent"
  /\ ~(status = "ready" /\ \A s \in Step : steps[s] = "complete")
  /\ steps' = [s \in Step |-> IF steps[s] = "running" THEN "failed_retryable" ELSE steps[s]]
  /\ resume' = [resume EXCEPT ![r].pc = "reopen",
                  ![r].hasApp = None \notin {config.app, config.installation, secret}]
  /\ UNCHANGED <<status, probes, control, outside, github, failures>>

Reopen(r) ==
  /\ At(r, "reopen") /\ status' = "provisioning" /\ GoTo(r, "snapshot")
  /\ UNCHANGED <<steps, probes, control, outside, github, failures>>

\* Mutant: only steps never tried are done again.
IsOpenPending(step) == steps[step] = "pending"
IsOpen(step) == steps[step] # "complete"

Snapshot(r) ==
  /\ At(r, "snapshot")
  /\ resume' = [resume EXCEPT ![r].pc = "next", ![r].todo = {s \in Step : IsOpen(s)}]
  /\ UNCHANGED <<run, probes, control, outside, github, failures>>

MarkRunning(r) ==
  /\ At(r, "next")
  /\ \E i \in 1..4 :
       /\ SetupSteps[i] \in resume[r].todo
       /\ \A j \in 1..(i - 1) : SetupSteps[j] \notin resume[r].todo
       /\ steps' = [steps EXCEPT ![SetupSteps[i]] = "running"]
       /\ resume' = [resume EXCEPT ![r].pc = "execute", ![r].step = SetupSteps[i]]
  /\ UNCHANGED <<status, probes, control, outside, github, failures>>

BecomeReady(r) ==
  /\ At(r, "next") /\ resume[r].todo = {}
  /\ status' = "ready"
  /\ resume' = [resume EXCEPT ![r] = NoResume]
  /\ UNCHANGED <<steps, probes, control, outside, github, failures>>

ApplyOutcome(r) ==
  /\ At(r, "apply")
  /\ LET s == resume[r].step
         isDone == resume[r].outcome = "complete"
     IN /\ steps' = [steps EXCEPT ![s] = resume[r].outcome]
        /\ resume' = IF isDone
                     THEN [resume EXCEPT ![r] = [NoResume EXCEPT !.pc = "next",
                              !.todo = resume[r].todo \ {s}, !.hasApp = resume[r].hasApp]]
                     ELSE [resume EXCEPT ![r].pc = "stop"]
  /\ UNCHANGED <<status, probes, control, outside, github, failures>>

StopResume(r) ==
  /\ At(r, "stop")
  /\ status' = IF resume[r].outcome = "waiting_user" THEN "action_required" ELSE "failed"
  /\ resume' = [resume EXCEPT ![r] = NoResume]
  /\ UNCHANGED <<steps, probes, control, outside, github, failures>>

Kill(r) ==
  /\ ~At(r, "idle") /\ failures < MaxFailures
  /\ failures' = failures + 1
  /\ resume' = [resume EXCEPT ![r] = NoResume]
  /\ UNCHANGED <<run, probes, control, outside, github>>

-----------------------------------------------------------------------------
(* LiveSetupExecutor *)

CheckOutside(r) ==
  /\ Executes(r, "worker_health") /\ \E outcome \in Outcome : End(r, outcome)
  /\ UNCHANGED <<run, probes, control, outside, github, failures>>

CheckApp(r) ==
  /\ Executes(r, "github_app")
  /\ End(r, IF resume[r].hasApp /\ key # None THEN "complete" ELSE "waiting_user")
  /\ UNCHANGED <<run, probes, control, outside, github, failures>>

InstallControls(r) ==
  /\ Executes(r, "evaluator_controls")
  /\ \/ control' = main /\ End(r, "complete")
     \/ UNCHANGED control /\ \E outcome \in Outcome \ {"complete"} : End(r, outcome)
  /\ UNCHANGED <<run, probes, outside, github, failures>>

Newest(open) == CHOOSE p \in open : \A q \in open : q <= p
OpenProbes == {p \in Probe : probes[p].status \in {"dispatching", "dispatched"}}

FindPassed(r) ==
  /\ Executes(r, "hosted_ci_probe")
  /\ IF \E p \in Probe : probes[p].status = "passed" THEN End(r, "complete")
     ELSE IF control = 0 THEN End(r, "failed_terminal")
     ELSE GoTo(r, "open")
  /\ UNCHANGED <<run, probes, control, outside, github, failures>>

FindOpen(r) ==
  /\ At(r, "open") /\ OpenProbes # {}
  /\ resume' = [resume EXCEPT ![r].pc = "observe", ![r].probe = Newest(OpenProbes)]
  /\ UNCHANGED <<run, probes, control, outside, github, failures>>

InsertProbe(r) ==
  /\ At(r, "open") /\ OpenProbes = {}
  /\ \E p \in Probe :
       /\ \A q \in Probe : probes[q].status = "absent" <=> q >= p
       /\ probes' = [probes EXCEPT ![p].status = "dispatching", ![p].commit = control]
       /\ resume' = [resume EXCEPT ![r].pc = "dispatch", ![r].probe = p]
  /\ UNCHANGED <<run, control, outside, github, failures>>

\* The POST may fail, or take effect and still fail.
DispatchProbe(r) ==
  /\ At(r, "dispatch")
  /\ \/ /\ hub' = [hub EXCEPT ![resume[r].probe] = [state |-> "queued", commit |-> main]]
        /\ GoTo(r, "observe") \/ GoTo(r, "reject")
     \/ GoTo(r, "reject") /\ UNCHANGED hub
  /\ UNCHANGED <<run, probes, control, outside, main, installed, created, failures>>

RejectProbe(r) ==
  /\ At(r, "reject")
  /\ probes' = [probes EXCEPT ![resume[r].probe].status = "failed"]
  /\ End(r, "failed_retryable")
  /\ UNCHANGED <<run, control, outside, github, failures>>

\* Mutant: the commit the run used is not compared.
IsExpectedAny(p) == TRUE
IsExpected(p) == hub[p].commit = probes[p].commit

ObserveProbe(r) ==
  /\ At(r, "observe")
  /\ LET p == resume[r].probe
         seen == [resume EXCEPT ![r].seen = hub[p].state]
     IN \/ probes[p].run /\ resume' = [seen EXCEPT ![r].pc = "decide"]
        \/ ~probes[p].run /\ hub[p].state = "absent" /\ End(r, "waiting_user")
        \/ /\ ~probes[p].run /\ hub[p].state # "absent" /\ IsExpected(p)
           /\ resume' = [seen EXCEPT ![r].pc = "bind"]
        \/ /\ ~probes[p].run /\ hub[p].state # "absent" /\ ~IsExpected(p)
           /\ End(r, "failed_retryable")
  /\ UNCHANGED <<run, probes, control, outside, github, failures>>

BindProbe(r) ==
  /\ At(r, "bind")
  /\ probes' = [probes EXCEPT ![resume[r].probe].run = TRUE,
                              ![resume[r].probe].status = "dispatched"]
  /\ GoTo(r, "decide")
  /\ UNCHANGED <<run, control, outside, github, failures>>

\* Mutants: GitHub's word is stored as it is; only a success ends a probe.
VerdictRaw(seen) == seen
VerdictPatient(seen) == IF seen = "success" THEN "passed" ELSE "dispatched"
Verdict(seen) ==
  IF seen = "success" THEN "passed" ELSE IF seen = "failure" THEN "failed" ELSE "dispatched"

DecideProbe(r) ==
  /\ At(r, "decide")
  /\ LET verdict == Verdict(resume[r].seen)
     IN IF verdict = "dispatched" THEN End(r, "waiting_user") /\ UNCHANGED probes
        ELSE /\ probes' = [probes EXCEPT ![resume[r].probe].status = verdict]
             /\ End(r, IF verdict = "passed" THEN "complete" ELSE "failed_retryable")
  /\ UNCHANGED <<run, control, outside, github, failures>>

\* A GitHub call fails: the workflow file, the search for the run, the evidence.
CallFails(r) ==
  /\ \/ At(r, "open") /\ OpenProbes = {}
     \/ At(r, "observe")
     \/ At(r, "decide") /\ resume[r].seen = "success"
  /\ failures < MaxFailures /\ failures' = failures + 1
  /\ End(r, "failed_retryable")
  /\ UNCHANGED <<run, probes, control, outside, github>>

-----------------------------------------------------------------------------
(* GitHubAppSetupService *)

inside == <<run, probes, control, resume>>
Answer(b, pc) == callback' = [callback EXCEPT ![b].pc = pc]
Returned(b) == callback' = [callback EXCEPT ![b] = NoRequest]
Serves(b, pc) == callback[b].pc = pc

IsActive(s, phase) == sessions[s].status = "active" /\ sessions[s].phase = phase

\* _active_session(); a session also expires, which is a callback that never comes.
\* Mutant: the status is not looked at.
AcceptsAny(s, phase) == sessions[s].status # "absent" /\ sessions[s].phase = phase
Accepts(s, phase) == IsActive(s, phase)

Cancelled == [s \in Session |-> IF sessions[s].status = "active"
                                THEN [sessions[s] EXCEPT !.status = "cancelled"]
                                ELSE sessions[s]]

OpenPage ==
  /\ status # "absent" /\ steps["github_app"] \in {"waiting_user", "failed_retryable"}
  /\ \E s \in Session :
       /\ \A q \in Session : sessions[q].status = "absent" <=> q >= s
       /\ sessions' = [Cancelled EXCEPT ![s].status = "active"]
  /\ UNCHANGED <<inside, files, github, callback, failures>>

\* complete_manifest: GitHub converts a code once, so each call has an App of its own.
ConvertManifest(b, s) ==
  /\ Serves(b, "idle") /\ Accepts(s, "manifest") /\ created < MaxApps
  /\ created' = created + 1
  /\ callback' = [callback EXCEPT ![b] = [pc |-> "key", session |-> s, app |-> created + 1]]
  /\ UNCHANGED <<inside, sessions, files, hub, main, installed, failures>>

WriteKey(b) ==
  /\ Serves(b, "key") /\ key' = callback[b].app /\ Answer(b, "secret")
  /\ UNCHANGED <<inside, sessions, config, secret, github, failures>>

WriteSecret(b) ==
  /\ Serves(b, "secret") /\ secret' = callback[b].app /\ Answer(b, "app")
  /\ UNCHANGED <<inside, sessions, config, key, github, failures>>

WriteApp(b) ==
  /\ Serves(b, "app") /\ config' = [config EXCEPT !.app = callback[b].app] /\ Answer(b, "advance")
  /\ UNCHANGED <<inside, sessions, key, secret, github, failures>>

\* Mutant: the update selects the session by its id only.
IsFencedNot(s, phase) == TRUE
IsFenced(s, phase) == IsActive(s, phase)

AdvanceSession(b) ==
  /\ Serves(b, "advance") /\ Returned(b)
  /\ LET s == callback[b].session
     IN sessions' = IF IsFenced(s, "manifest")
                    THEN [sessions EXCEPT ![s].phase = "installation", ![s].app = callback[b].app]
                    ELSE sessions
  /\ UNCHANGED <<inside, files, github, failures>>

\* complete_installation: the App's key signs the requests that verify it.
VerifyInstallation(b, s) ==
  /\ Serves(b, "idle") /\ Accepts(s, "installation")
  /\ sessions[s].app \in installed /\ key = sessions[s].app
  /\ callback' = [callback EXCEPT ![b] = [pc |-> "installation", session |-> s,
                                          app |-> sessions[s].app]]
  /\ UNCHANGED <<inside, sessions, files, github, failures>>

WriteInstallation(b) ==
  /\ Serves(b, "installation")
  /\ config' = [app |-> callback[b].app, installation |-> callback[b].app]
  /\ Answer(b, "finish")
  /\ UNCHANGED <<inside, sessions, key, secret, github, failures>>

FinishSession(b) ==
  /\ Serves(b, "finish") /\ Returned(b)
  /\ LET s == callback[b].session
     IN sessions' = IF IsFenced(s, "installation")
                    THEN [sessions EXCEPT ![s].status = "complete"]
                    ELSE sessions
  /\ UNCHANGED <<inside, files, github, failures>>

KillRequest(b) ==
  /\ ~Serves(b, "idle") /\ failures < MaxFailures
  /\ failures' = failures + 1 /\ Returned(b)
  /\ UNCHANGED <<inside, sessions, files, github>>

-----------------------------------------------------------------------------
(* GitHub and its owner *)

FinishRun(p) ==
  /\ hub[p].state = "queued"
  /\ \E state \in {"success", "failure"} : hub' = [hub EXCEPT ![p].state = state]
  /\ UNCHANGED <<inside, outside, main, installed, created, failures>>

MoveMain ==
  /\ main < MaxCommit /\ main' = main + 1
  /\ UNCHANGED <<inside, outside, hub, installed, created, failures>>

InstallApp(app) ==
  /\ app \in 1..created \ installed /\ installed' = installed \cup {app}
  /\ UNCHANGED <<inside, outside, hub, main, created, failures>>

-----------------------------------------------------------------------------
ResumeStep(r) ==
  \/ StartResume(r) \/ Reopen(r) \/ Snapshot(r) \/ MarkRunning(r) \/ BecomeReady(r)
  \/ ApplyOutcome(r) \/ StopResume(r) \/ CheckOutside(r) \/ CheckApp(r) \/ InstallControls(r)
  \/ FindPassed(r) \/ FindOpen(r) \/ InsertProbe(r) \/ DispatchProbe(r) \/ RejectProbe(r)
  \/ ObserveProbe(r) \/ BindProbe(r) \/ DecideProbe(r)

RequestStep(b) ==
  \/ WriteKey(b) \/ WriteSecret(b) \/ WriteApp(b) \/ AdvanceSession(b)
  \/ WriteInstallation(b) \/ FinishSession(b)
  \/ \E s \in Session : ConvertManifest(b, s) \/ VerifyInstallation(b, s)

Next ==
  \/ Begin \/ OpenPage \/ MoveMain
  \/ \E r \in Resumer : ResumeStep(r) \/ CallFails(r) \/ Kill(r)
  \/ \E b \in Callback : RequestStep(b) \/ KillRequest(b)
  \/ \E p \in Probe : FinishRun(p)
  \/ \E app \in App : InstallApp(app)

Spec == Init /\ [][Next]_vars

(* The operator resumes until setup is ready, and GitHub ends its runs. *)
Fairness == (\A r \in Resumer : WF_vars(ResumeStep(r))) /\ \A p \in Probe : WF_vars(FinishRun(p))
FairSpec == Spec /\ Fairness

-----------------------------------------------------------------------------
(* Properties *)

(* Wherever resumes stop or die, a setup is ready only when every step is    *)
(* complete.                                                                 *)
ReadyMeansComplete == status = "ready" => \A s \in Step : steps[s] = "complete"

(* The hosted check is passed on evidence of a run that succeeded with the   *)
(* workflow the control plane is bound to, however often probes fail, are    *)
(* lost, or the branch moves.                                                *)
ProbeStepHasEvidence ==
  steps["hosted_ci_probe"] = "complete" =>
    \E p \in Probe : hub[p] = [state |-> "success", commit |-> control]

(* A probe that did start with the right workflow is decided, also when the  *)
(* process that dispatched it died. A probe whose process died before the    *)
(* dispatch, or whose run used another commit, is not: setup waits for it    *)
(* for good.                                                                 *)
ProbeIsDecided ==
  \A p \in Probe :
    (p \in OpenProbes /\ hub[p].state # "absent" /\ hub[p].commit = probes[p].commit)
      ~> p \notin OpenProbes

(* An App's key, webhook secret and id are stored in three files before the  *)
(* session names it. Whatever flows were begun, cancelled or killed before,  *)
(* the latest one, once it waits for the installation, finds all three of    *)
(* its own App, and a completed one its installation too.                    *)
LatestFlowIsConsistent ==
  \A s \in Session :
    (s + 1 \in Session => sessions[s + 1].status = "absent") =>
      /\ IsActive(s, "installation") =>
           {key, secret, config.app} = {sessions[s].app}
      /\ sessions[s].status = "complete" =>
           {key, secret, config.app, config.installation} = {sessions[s].app}

(* A callback that was slow while the page was opened again neither revives  *)
(* its cancelled session nor completes it.                                   *)
EndedSessionStaysEnded ==
  [][\A s \in Session : sessions[s].status \in {"cancelled", "complete"}
                          => sessions'[s] = sessions[s]]_vars
=============================================================================
