# Verification of Adaptive Tutor

Adaptive Tutor (`src/adaptive_tutor`) is a self-hosted, single-learner coding
tutor. It publishes assignments as pull requests in a private GitHub workspace,
receives webhooks, dispatches a trusted evaluator workflow for every pushed
commit, lets an isolated model grade the evidence, and updates a learner model
in SQLite. This directory holds TLA+ models of it, the TLC runs that check
them, and TLAPS proofs.

Run from this directory:

    tlc -config MCJobQueueSafety.cfg MCJobQueue
    tlapm JobQueueProofs.tla

Paths below are relative to the repository unless they name a module.

## 1. The system

| part | state | operations | hard because |
|---|---|---|---|
| Webhook receiver, event store (`webhooks.py`, `jobs.py`) | `events` | `ingest` | repeated deliveries |
| Job queue and worker (`jobs.py`, `cli.py worker`) | `jobs`, `worker_heartbeats`; in each process the `Job` and a renewal thread | `enqueue`, `claim`, `heartbeat`, `complete`, `fail`, `run_once` | several workers, expiring leases, zombies, crashes, retries |
| Orchestrator (`orchestrator.py`) | `assignments`, `attempts`, and locals across transactions and GitHub calls | one handler per event kind | every handler is retried from its start after stopping anywhere; handlers of different deliveries interleave and arrive in any order |
| Assignments (`assignments.py`) | `assignments`, `assignment_stages`, `hints` | `create`, `apply_review_transition`, `next_hint` | late reviews of earlier stages, one active assignment |
| Evaluation (`evaluation.py`) | `automated_evaluations`, `qualitative_evaluations`, `evaluation_appeals` | `grade_attempt`, `create_appeal`, `resolve_appeal` | grading takes minutes between the check and the write |
| Learner model (`learner.py`) | `mastery`, `mastery_evidence`, `misconceptions` | `apply_evaluation` | must count evidence once; long sequences of findings |
| GitHub client (`github.py`) | the workspace repository | publish, dispatch, review, comment | a POST may take effect and still fail |
| Guided setup (`setup.py`, `github_setup.py`) | `setup_runs`, `setup_steps`, `hosted_setup_probes`, `github_app_setup_sessions`, files | `begin`, `resume`, callbacks | crash between a remote effect and its record; two browsers |
| Curriculum and goals (`curriculum.py`, `goals.py`) | `curricula`, `concepts`, `concept_relationships`, `profiles`, `learning_goals` | `load`, `persist`, `GoalService.set` | cascades and references of the schema; two curricula that share concepts; goals that outlive a reload |
| Scheduler, generator, validator (`scheduler.py`, `generation.py`, `assignments.py`) | none of their own; they read the history | `recommend`, `generate`, `validate` | three parts decide apart about format, difficulty and blueprint of one assignment |
| Evaluator (`runner.py`, `_evaluator_supervisor.py`, `public_evaluator.py`) | the completion record in a pipe, the evidence file | stage, run pytest in a sandbox, judge | learner code may end any of three processes between any two reports |
| Grader (`codex.py`, `grader.py`, `cli.py grader`) | `model_invocations`, a Unix socket | `grade`, the endpoint | two independent time limits, one blocking endpoint, abandoned requests |
| Bundles (`trusted_bundles.py`) | `signing.key`, `signing.pub`, envelopes | `seal`, `public_manifest`, `load` | two processes create the same files; writes fail or are cut short |
| Projections and interfaces (`state.py`, `reporting.py`, `dashboard.py`, `cli.py`, `doctor.py`, `demo.py`) | none of their own | read and render | |

Interaction: `ingest` writes an event and its job in one transaction. A worker
process claims a job and calls the orchestrator's handler of the job's kind;
the handler runs several transactions and GitHub calls and returns or raises;
the worker then completes, requeues or dead-letters the job. Handlers file
further jobs themselves (appeals). The dashboard, the CLI and the setup call
the same services from other processes on the same SQLite file, whose write
transactions are serialised by `BEGIN IMMEDIATE` (`db.py`).

What makes each part correct: the queue accepts a delivery once, executes each
job under at most one healthy lease, never loses or repeats a settled job and
settles every job; a pushed commit becomes one attempt that is dispatched,
graded, counted once in the learner model and shown once to the learner; stages
unlock in their authored order; at most one assignment is active; hints and
appeals reach the learner once and in order; a misconception resolves only by
new successful transfer after a challenge; an assignment's difficulty is one the
curriculum authored; a concept that was used keeps its history over reloads;
evidence judges the tests and not the sandbox; one key signs everything; setup
resumes after a crash from the step it had reached.

## 2. Modules

### JobLedger (abstract) and JobQueue

`JobLedger` is what handlers and webhooks may rely on: a key is accepted once,
attempted at most `MaxAttempts` times and settled at most once, after an
attempt.

`JobQueue` models `jobs.py` and the worker loop. State: `events` and `jobs` are
the tables, `held[w]` is a process (its `Job` object, and the state of its
renewal thread), `registry` is `worker_heartbeats`. One action per transaction:

| code | action |
|---|---|
| `EventStore.ingest` | `IngestActionable`, `IngestIgnorable`, `Redeliver` |
| `JobQueue.enqueue` | `Enqueue`, `EnqueueAgain` |
| `Worker.run_once` up to the handler: `worker_heartbeat`, `claim` | `Claim`, `ClaimNothing` (both include lease recovery, `Swept`, `SweptEvents`) |
| `renew()` in `_run_handler` | `Renew`; `Stall` when it is late or its thread died |
| `complete`, `fail`, a lost lease | `Complete`, `Fail`, `LoseLease` |
| `cli.py worker`, process death | `Start`, `Stop`, `Crash` |

A worker may stall, lose its lease to another worker and still finish its
handler and report. `worker_heartbeat` before a claim and at the end of a
handler is merged with the transaction that follows it (it writes only this
worker's `registry` row). Time is a countdown to every deadline; `Tick` may not
pass a beat of a healthy renewal thread, which is the one timing assumption
(the configuration guarantees Beat <= Lease: `lease_seconds` >= 30 and the
interval is a third of it, at most 30 seconds). `lease = 0` is
`leased_until = now`, not yet expired; `lease = -1` is expired.
`ORDER BY priority, created_at` is kept with its ties: timestamps have whole
seconds.

Abstracted: uuids (job and event ids are their unique keys; a lease token is
the attempt it was drawn for), payloads, diagnostics (only "none", "raised",
"expired", because lease recovery selects events by that text), `max_attempts`
(one value; all callers use the default 5).

### HandlerJobs

What the handlers see of the queue, as pure operators on a job's row: a job is
filed once, taken by one execution at a time, taken at most `MaxTries` times,
and only the holder's report counts. `ReviewPipeline`, `LearnerCommands` and
`Publication` extend it. A lease simply ends there, at any time; when it may end is
`JobQueue`'s concern.

### HandlerExecutions (abstract)

The contract between the two sides. `HandlerJobs` says what one operation does
to a row; `HandlerExecutions` says when the operations come and which executions
of a handler are under way: `Claim` starts one of a job nobody holds, `Finish`
ends one with its report (that of a holder counts, that of a zombie does not),
`Lapse` ends a lease while its execution goes on (only with `Stalls`), `Relet`
recovers a lease and takes the job in one transaction, as `claim` does.

`JobQueue` implements it (`ImplementsExecutions`): a row forgets clocks and
backoff, `queued` is `open`, and an execution is named by the attempt it runs,
which is its lease token. While no renewal thread stalls (`CalmSpec`) it
implements the contract without stalls (`ImplementsCalmExecutions`).
`ReviewPipeline`, `LearnerCommands` and `Publication` run under it
(`RunsUnderContract`, an execution named by its runner): their handlers use the
queue in no other way than the contract has it. They take `Relet` in two steps
and a crash of a process ends its execution and its lease in one; both only
leave out an order in which nobody else could act on the row. The other half of
the argument is read off their actions and not proved: `Claim`, `Crash` and
`LeaseLapses` happen whenever the contract allows them and the runner is free, so that the modules cover
whatever the queue does under its handlers.

### ReviewPipeline

Models the handlers `record_submission`, `process_ci_result` and
`reconcile_pull_request` of `orchestrator.py` together with the transactions of
`assignments.py`, `evaluation.py` and `learner.py` and the GitHub calls of
`github.py` they make, for one published assignment. Each handler is a sequence
of separate transactions and calls, so `exec[r].pc` names the next one, and an
execution keeps the locals it read (`stage`, `status`, `verdict`):

| handler | steps |
|---|---|
| `record_submission` | `ReadForPush`, `RecordAttempt`, `Submit`, `BindDispatch`, `Dispatch`, `MarkDispatched` |
| `process_ci_result` | `ReadForResult`, `Grade`, `Persist`, `FindReview`, `PostReview`, `MarkPosted`, `ApplyTransition`, `FindComment`, `PostComment` |
| `reconcile_pull_request` | `ReadForPull`, `WriteStatus` |

At every step an execution may be refused or fail (`HandlerFails`), die
(`Crash`), or lose its lease and go on beside the execution that takes its job
over (`LeaseLapses`, only with `Stalls`). A POST may take effect and its
response be lost. The queue is `HandlerJobs`.
`CreateSuccessor` is another process creating the next assignment; the partial
unique index on active assignments then refuses some updates (`MayBecome`).

Abstracted: a review is whether it passed and where it leads (`Verdict`), which
is all the transition reads; the model grader returns any verdict
`_validate_qualitative` lets through; a dispatch nonce is the number of times
one was drawn for its attempt; the review marker (a digest of the stored
evaluation) is the attempt. Left out: `head_sha` (no handler reads it),
`completed_at` and the outcome column (only projections read them), confidence.

### LearnerCommands

Models `/tutor hint` and `/tutor appeal` (`process_learner_command`), the job
that reviews an appeal (`review_appeal`) and the `hint` command of the CLI,
which reveals hints of the same assignment from another process:

| code | steps |
|---|---|
| hint command: `next_hint`, then a comment | `CountHints`, `StoreHint`, `ShowHint` |
| `cli.py hint` | `TerminalCounts`, `TerminalStores` |
| appeal command: latest evaluation, `create_appeal`, `enqueue`, a comment | `FindLatest` (`RefuseAppeal`), `CreateAppeal`, `EnqueueReview`, `PromiseReview` |
| `review_appeal`: `resolve_appeal`, a comment | `ReadAppeal`, `ResolveAppeal`, `PostResult` |

Executions fail, crash and lose their lease as in `ReviewPipeline`.
`FirstReview` is the moment the assignment gets an evaluation that can be
appealed. Abstracted: texts of hints, arguments and results; an appeal's uuid
is the command and the try that drew it. Left out: `pause` and `resume` (they
set a flag that only the creation of assignments reads), `status` and unknown
commands (they only post), and the checks of the sender, which refuse before
any state changes.

### Publication

Models how an assignment gets its row, branch and pull request
(`create_next_assignment`, `_publish_assignment`, `AssignmentService.create`,
`GitHubClient.publish_assignment`), called by the CLI, the dashboard or the
setup, while the worker handles the deliveries that the new branch and pull
request cause themselves and a setup may install another evaluator kit.

| code | steps |
|---|---|
| `create_next_assignment` | `LookForActive`, `Preflight`, `Create` |
| `_publish_assignment` | `BindManifest`, then the call below, then `Store` |
| `publish_assignment` | `FindBranch`, `FindPull`, `PushBranch`, `OpenPull` |
| an error or a killed caller, anywhere | `CallFails` |
| `record_submission` up to its dispatch | `ReadForPush`, `RecordAttempt`, `Submit`, `DispatchOrRefuse` |
| `reconcile_pull_request` | `ReadForPull`, `WritePull` |
| `EvaluatorControlProvisioner._persist` | `FindNoAssignment`, `Rotate` |

Abstracted: a signed manifest is the kit it was signed for; a dispatch is
accepted or refused; one assignment is followed. Left out: `publication_error`
and the time of the last try (only shown), the paused flag (it refuses before
any change), and what follows a dispatch, which is `ReviewPipeline`.

### SetupRun

Models the guided setup: `SetupService.resume` with the steps that keep state,
and `GitHubAppSetupService`. A resume is one process (the CLI or a dashboard
request) and `resume[r].pc` names its next transaction or GitHub call; the
callbacks of GitHub are served beside it.

| code | action |
|---|---|
| `SetupService.begin` | `Begin` |
| `resume`: interrupted steps, run status, the list of steps | `StartResume`, `Reopen`, `Snapshot` |
| its loop: `_mark_running`, the step, `_apply_outcome`; stop or ready | `MarkRunning`, below, `ApplyOutcome`, `StopResume`, `BecomeReady` |
| `_github_app`, `_evaluator_controls`, the steps that only look | `CheckApp`, `InstallControls`, `CheckOutside` |
| `_hosted_ci_probe` | `FindPassed`, `FindOpen`, `InsertProbe`, `DispatchProbe` (`RejectProbe`), `ObserveProbe`, `BindProbe`, `DecideProbe`; `CallFails` |
| `GitHubAppSetupService.start` | `OpenPage` |
| `complete_manifest` | `ConvertManifest`, `WriteKey`, `WriteSecret`, `WriteApp`, `AdvanceSession` |
| `complete_installation` | `VerifyInstallation`, `WriteInstallation`, `FinishSession` |
| GitHub and the owner | `FinishRun`, `MoveMain`, `InstallApp` |

`Kill` and `KillRequest` stop a process between any two of them. Abstracted:
an App is its number and so is everything that belongs to it; the control plane
and a probe are the workflow commit they name; the steps that only look at the
outside (TLS, webhook, grader, worker) are one step with any outcome. Left out:
`first_assignment`, which calls `create_next_assignment` (`Publication`);
`learning_goal` (`SetGoal` of `CurriculumStore`) and the creation of the
repository; nonces and digests (the evidence comparisons can only refuse);
`begin` of a second setup.

### LearnerModel

The life of one misconception as `LearnerModel.apply_evaluation` applies
reviews (`learner.py`):

| code | definition |
|---|---|
| `_next_misconception_status`; its transfer check | `NextMisconceptionStatus`; `ShowsTransfer` |
| `_apply_misconception` with the promotion of a repeated suspicion | `ApplyMisconception`, `IsPromoted` |
| `apply_evaluation`: one transaction over the findings of a review | `ApplyEvaluation` |
| the next assignment is published | `NextAssignment` |

A review may be of an attempt at any assignment made so far: `process_ci_result`
checks neither the status of the assignment nor the order of the results, so the
result of an early assignment may arrive after those of later ones.

Abstracted: of an observation, whether it is a success, its format and its
normalised transfer context; of the stored evidence, what the transfer check
reads, and which evaluation added it (in the code the attempt and the time).
An assignment targets one concept (`orchestrator.py:135`), so a review that was
accepted observes it. Mastery estimates are left out, no finding reads them.

### TutorPlan (with MCTutorPlan)

What is set next. One action, `CreateNextAssignment`, is the whole decision of
`create_next_assignment`: the scheduler picks a format and fits a difficulty,
the generator picks a blueprint, the validator may refuse.

| code | definition |
|---|---|
| `recommend`, `_select_exercise_type`, `_difficulty`, `_fit_authored_difficulty` | `Schedulable`, `SelectExerciseType` by `FormatKey`, `Difficulty`, `FitAuthoredDifficulty` by `DistanceKey` |
| `CurriculumAssignmentGenerator.generate` | `Candidates`, `SelectBlueprint` by `BlueprintKey` |
| `AssignmentValidator.validate` | `Valid` |
| `_apply_concept_evidence`; a closed pull request | `ReviewAssignment`; `Withdraw` |

The priority of a concept is a product of eleven floating-point factors: the
model lets any concept with an allowed format come first, and gives the mastery
estimate any of the values `Mastery`. Counts, the highest success and the last
outcome are read off the history. `MCTutorPlan` holds a curriculum of two
concepts whose blueprints overlap in part (formats 1 is implementation, 5 is
written).

### CurriculumStore

`CurriculumLoader` and `GoalService`: `Persist` is a load (`IsLoadable` is
`_validate_graph`, `Visited` the traversal of `_assert_acyclic` with `Visit` as its loop body, `MayDrop` the
reference of `assignment_concepts` that has no cascade), `SetGoal` is
`GoalService.set` with `InferGoalConcepts` and `IsActiveGoal` (`_same_goal`),
`CreateAssignment` and `Evaluate` are what other parts do to concepts.
`TransitivePrerequisites` is the scheduler's closure, `Pursue` its loop body. Concepts are keyed by
identifier only, so another curriculum takes their rows over; relationships stay
with the curriculum that stored them. Left out: parsing, prompts, domains.

### EvaluatorRun

One hosted evaluation. `runner.py`: `Stage`, `KillSandbox` (time and resource
limits), `Judge` with `InterpretRecord`, `WriteTemporary`, `ReplaceEvidence`.
`_evaluator_supervisor.py`: `CollectionFinished`, `LogReport`, `WorkerDown`,
`InternalError`, `SupervisorError`, `WriteRecord`, `SupervisorReturns`. pytest
and xdist are modelled from the hooks and exit codes the supervisor uses
(`SessionFinished`, `Interrupted`). A static command has no tests, so only its
verdict matters. What the sandbox isolates is left out.

### GraderService

A grading call (`Record`, `Post`, `GiveUp`, `CloseInvocation`), the service
(`StartServer`, `EndServer`, `Take`, `CodexEnds`) and time (`GraderTick`). The
endpoint is a coroutine around a blocking call, so requests wait in `waiting`
behind the one in `running`, those of clients that are gone among them. Codex
is ended after the limit of the service (`--timeout-seconds` of the command, read
when it starts), a client waits `Grace` longer than its own (`timeout_seconds` of
the worker's configuration). The two are independent: each call and each start
of the service picks one of `Timeouts`. Nothing else takes time. One service
process at a time, as its unit starts it.

### BundleStore

Publications in several processes share the key, its public part and the
envelope. `BeginPublication`, then for each file `LookFor`, `CreateFile`
(`O_EXCL`), `WriteFile`, `SyncFile` and a read (`ReadKey`, `ReadPublicKey`,
`ReadEnvelope`), then `SignManifest` or, when the row had a manifest,
`VerifyManifest`. `IOFails` removes the file that was being written;
`KillPublisher` leaves it. A signature is the key that made it; paths, modes,
owners and digests only refuse.

### MCTutor

`LearnerCommands` and the six modules above share no state within a step, so
one run checks all seven: `part` is chosen in `PartsInit`, only that part
moves, and TLC explores the sum of the state spaces and not the product. Every
property speaks of one part, and holds trivially while another one moves. Where
the parts do meet, the meeting is in the module: `CreateAssignment` and
`Evaluate` in `CurriculumStore`, the review's outcome in `TutorPlan`, the stored
manifest in `BundleStore`.

## 3. Runs

| run | asks | bounds |
|---|---|---|
| `job_queue_safety` | invariants and action properties of the queue, refinement of `JobLedger` and of `HandlerExecutions` | 2 workers, 1 delivery, 1 ignored delivery, 1 internal job, 2 attempts, lease of 2 ticks, beat of 1 |
| `job_queue_liveness` | every filed job settles | 2 workers, 2 jobs, 2 attempts, lease of 1 tick |
| `review_restart` | learner sees each review once; every attempt is reviewed or given up | 1 commit, 2 stages, 2 tries, 1 execution at a time |
| `review_overlap` | evidence once, nonces kept, with zombies | 1 commit, 2 stages, 2 tries, 2 executions, stalls |
| `review_order` | stages unlock in order | 2 commits, 3 stages, 1 try, edited and merged pull requests |
| `publication` | one pull request, one manifest, no lost push; a publication that stopped settles | 1 caller, 1 learner commit, 2 kits, 2 failures and any lost responses, 1 execution, 1 try |
| `setup` | ready means complete, evidence for the hosted check, App files agree, probes are decided | 1 resume and 1 callback at a time, 2 probes, 2 openings of the App page, 2 Apps, 2 commits, 1 kill or failed call |
| `tutor` | the seven parts of `MCTutor`, see section 4 | see below |
| `push_retried` | violation, see findings | 1 commit, 2 stages, 2 tries |
| `stage_skipped` | violation, see findings | 2 commits, 2 stages, 1 try |
| `formats_in_a_row` | violation, see findings | the plan of `tutor`, 5 assignments |
| `publication_resumed` | violation, see findings | as `publication`, 1 failure |

Why the bounds are enough: two workers are a holder and the one that takes
over; two attempts are one that may be retried and the last, so both arms of
every comparison with `max_attempts` occur; a lease longer than the beat lets a
renewal come early, on time and after expiry. Two jobs let one sweep recover
one and claim the other. In the pipeline, two tries give a retry after every
partial effect, two stages a stage to unlock and a last one, two commits an old
attempt beside a newer one, three stages a transition past the second.
In `Publication` two failures and a lost response stop a call after its branch
and again after its pull request; two kits are the one a creation read and the
one that replaced it; one learner commit can lie before or after the resumed
call reads the head of the branch.
In `SetupRun` two sessions are a cancelled one and the one that replaced it,
two Apps one for each; two commits are the installed workflow and a later one;
a second probe follows one that failed. Symmetry (of workers, of executions) is used only in runs without liveness.

Bounds of `tutor`, part by part:

| part | bounds | why they are enough |
|---|---|---|
| commands | 1 hint and 1 appeal command, 3 levels, the CLI any number of times, 2 tries, 1 execution at a time beside lapsed leases | the CLI and the command interleave all their steps; three levels are a first, a middle and the last that is repeated |
| learner | 2 formats, 1 context, 2 assignments, 3 evaluations of up to 2 findings | a challenge, its resolution by another assignment, the later or the earlier of the two, and one more evaluation before, between or after; two findings of one review meet in one transaction |
| plan | 2 concepts, 3 blueprints, 2 sessions, 2 mastery values, 4 assignments | the fourth is the first whose windows differ between newest and oldest, a fifth is allowed in `formats_in_a_row` only |
| store | 3 concepts, 11 packages of 2 curricula, 3 loads, 2 goal revisions | every graph on a cycle of three; a load, one that drops or takes over, one more |
| evaluator | 2 tests | one that reported and one that did not; sums of counts that agree although members differ |
| grader | 2 calls, limits 1 and 2 for each side, grace 1, 1 restart | one request behind another, abandoned or not; the service's limit below a client's, the same, and as long as its whole wait; a restart changes it |
| bundles | 2 processes, 2 publications each, 2 failing writes | both create every file at once; the second publication finds what the first left |

`SignaturesVerify` does not hold for every bound: with three processes and two
failing writes, two of them create the key and its public part, the third reads
both and seals the envelope, and then both syncs fail and remove the files: the
next key pair does not verify the envelope. It holds for two processes with two
failures (the run) and for three with one; section 6 has the proof of both for
any bounds.

The runs of the pipeline, of `Publication`, `SetupRun`, `tutor` and
`formats_in_a_row` do not check deadlock: deliveries, assignments, loads and
publications are finite there, and when all is done nothing is left to do. `JobQueue` never deadlocks
(time passes), and its runs check it.

Fairness. `JobQueue`: time passes, a healthy renewal thread beats, a worker
that is down is started again (Compose and systemd restart it), handlers end
(every subprocess and HTTP call has a timeout), and a worker that is restarted
again and again claims sooner or later (strong fairness: between two crashes it
is at the claim each time). Nothing is assumed of `Crash`, `Stall` or of
which result a handler has. `ReviewPipeline`: GitHub ends its runs and delivers
the result, a handler takes its next step or fails, open jobs are claimed
(what `job_queue_liveness` shows of the queue). `Publication`: the operator
repeats `next` until it succeeds and a call takes its next step; at most
`MaxFailures` calls fail, because against a service that never answers nothing
settles. Nothing is assumed of the worker, the learner or the setup.
`SetupRun`: the operator resumes until setup is ready and GitHub ends its runs;
kills and failed calls are bounded for the same reason. Nothing is assumed of
the browser, the callbacks or the default branch.

## 4. Properties

JobQueue: `TimelyHolderKeepsLease` (a worker whose heartbeat is on time keeps
its lease, so two healthy workers never execute one job),
`EventTellsOutcome` (events and jobs agree through every recovery path),
`SettledForever`, `LeaseEndsByHolderOrExpiry` (late reports change nothing),
`FiledJobSettles`, `ImplementsLedger`, and `ImplementsExecutions` (the queue
keeps its contract with the handlers: who may start, go on and report beside
whom, under which lease).

ReviewPipeline: `EvidenceAppliedOnce`, `RunsKeepTheirNonce`, `SeenOnce`,
`StagesUnlockInOrder`, `AttemptIsReviewed`.

LearnerCommands: `HintsAreProgressive` (`next_hint` counts and inserts in two
transactions, yet the stored levels never have a gap and no comment shows a
hint whose use is not stored), `AppealDecidedOnce`, `PromisedReviewIsQueued` (a
crash may leave an appeal without a job, but never one the learner was told
about; and a review job that completes has posted its result). An appeal whose
result could not be posted is not decided again: the retry is refused, the job
ends as a dead letter and the result stays in the database only.
`AppealDecidedOnce` is about jobs with one execution at a time: two of one review
both pass the pending check before either writes. The queue allows that only
after a lease lapsed under a stalled renewal thread.

Publication: `OnePullPerAssignment`, `BranchCarriesStoredManifest` (a resumed
call keeps the manifest of the first, whatever kit was installed between),
`HandledPushIsRecorded`, `PublicationSettles`. `HandledPushIsRecorded` excepts
the commit stored as `publication_sha`: a call that resumes after the learner
pushed stores the learner's commit there, so that commit is never evaluated
unless its push was handled first.

SetupRun: `ReadyMeansComplete`; `ProbeStepHasEvidence` (a run that succeeded
with the workflow of the control plane, however often the branch moves or the
controls are installed again); `LatestFlowIsConsistent` (key, secret and
configuration are three files written before the session row; the latest flow
finds all three of its own App whatever was killed before);
`EndedSessionStaysEnded`; `ProbeIsDecided`. The last excepts two probes that
the code never ends: one whose process died between its row and its dispatch,
and one whose run used another commit. Both stay the open probe of every later
resume. All of it is about one resume and one callback at a time: two
overlapping resumes can make a setup ready with an incomplete step, because each
goes through the steps it read and resets the running ones of the other.

LearnerModel: `SuspicionIsFirstSighting`; `ResolutionIsTransfer` (over every
sequence of findings, also several in one review, and of reviews, also late ones
of earlier assignments: `docs/adaptation.md`). "Before" is the order in which
reviews were applied. That is not the order of the assignments: after a challenge
by the second, a late result of the first resolves the misconception when it
comes in another format and a new context.

TutorPlan: `DifficultyIsAuthored` (the scheduler fits the difficulty to all
blueprints, the generator then filters them: the difficulty stays an authored
one, and leaves the range of the chosen blueprint only when every blueprint that
covers it was used); `EarlyAssignmentsVary` (while the windows of the newest and
the oldest rows agree, no problem repeats and no three formats are alike).

CurriculumStore: `UsedConceptsKeepTheirRows`, `StoredGraphIsAcyclic`,
`GoalSupportIsReachable` (the closure against reachability by paths),
`GoalHistoryIsLinear`. A concept another curriculum has taken over may leave the
stored graph smaller than the package's; a goal whose focus was taken over
stays active.

EvaluatorRun: `EvidenceIsJust`. "pass" needs every collected test set up, run
and torn down without fault; "fail" needs a test that is at fault, unfinished,
or a worker that went down. Everything else is "error".

GraderService: `AloneIsAnsweredInTime`. Where the service ends Codex before a
client's wait ends, a request alone at the service is answered before its client
gives up. It does not hold for one that waits: the endpoint serves one request at
a time, also abandoned ones. Nor does it hold where the service's limit is as
long as the client's wait or longer, and nothing in the code excludes that (below).

BundleStore: `SignaturesVerify`.

`SeenOnce` holds while one result is handled at a time, beside any pushes. When
two executions overlap, `ensure_review` looks for its marker twice before either
posts, and the review appears twice. With one worker process that takes a lease
that lapsed under a stalled renewal thread. With two it does not: a push whose
dispatch took effect but failed is dispatched again, and the two runs report to
two jobs (TLC finds this with two runners and no stall).

## 5. Findings

- `OneAttemptPerPush` (`orchestrator.py:324`; `docs/contributing.md:54`). A push
  whose dispatch took effect but failed is retried after its own review
  unlocked the next stage. The retry reads the new `current_stage`, records a
  second attempt of the same commit there, sets the assignment back to
  submitted and dispatches it; that attempt's CI result is then looked up by
  commit only.
- `UnlockedStageIsNotSkipped` (`assignments.py:490`; `docs/evaluation.md:114`).
  Two commits are pushed at stage 1. The review of one unlocks stage 2; the
  failing review of the other ends with follow-up `none`, and completes the
  assignment at stage 2 without an attempt there. Only a new-stage verdict is
  compared with the current stage.
- `NoThirdFormatInARow` (`assignments.py:64`). The validator refuses "the last
  two exercise formats", but takes them from the end of a list that
  `create_next_assignment` passes newest first (`orchestrator.py:101`): they are
  the oldest of up to eight. From the fourth assignment on three formats in a
  row are possible, and the generator's window (`generation.py:40`) is the
  oldest five in the same way.
- `ResumableUntilPull` (`orchestrator.py:305`; `docs/troubleshooting.md:108`).
  A publication created its branch and failed before its pull request. The push
  of the tutor's own commit is then handled as a submission, because
  `publication_sha` is stored last: the starter becomes an attempt and the
  assignment `submitted`. `create_next_assignment` resumes only a validated
  assignment, so its pull request is never opened.

Seen while modelling, without a property: a hint command whose comment fails
is retried and reveals a further level, and a retried appeal command files a
second appeal (`assignments.py:368`, `orchestrator.py:624`). A failure sets the
review interval to 0.25 or 0.75 days outright (`learner.py:148`), so a less
confident failure after a confident one lengthens it, where
`docs/adaptation.md:56` says that failures shorten it. The worker's
`codex.timeout_seconds` (`config.py:68`) does not reach the grader, whose unit
and Compose service leave `--timeout-seconds` at 600 (`cli.py:839`): with 60 in
the configuration, a request that is alone is abandoned after 65 seconds while
Codex runs on for up to 600, and its retries wait behind it.

## 6. Proofs

`JobQueueProofs` proves for any numbers of workers, deliveries, jobs, attempts,
any lease and beat with Beat <= Lease and any backoff: `TypeCorrect`,
`TimelyHolders`, `EventsAgree` (the invariants of the run), `QueuedJobsMayRun` (a
queued job has an attempt left, without which neither refinement holds),
`SettledIsFinal` and `LeasesAreFenced` (the two action properties),
`QueueImplementsLedger` and `QueueKeepsContract` (the refinements). They assume `KeysAssumption` and
`TimingAssumption` of `JobQueue` and nothing else.

None of the invariants is inductive alone. `IInv` adds to them: a handling
worker's `Job` names a key and an attempt (`HoldersNameJobs`); and what each
status implies of the other columns of its row (`RowsFitStatus`): an absent row
has no attempts, a running one has at least one, and neither a running nor a
settled row waits for a backoff. The sweep selects
events by a text: it writes "failed" for every dead letter with that text, the
ones it just made and any older one, whose event `EventTellsOutcome` already
knows to be failed.
The token is the number of the latest attempt, so an earlier holder's token
never matches again; that is the core of the fencing argument.

For the action properties and the refinement, `RowStep(k)` says what one step
may do to one row: keep it, file it, recover it, take it, or report it. One
lemma shows that every action is a `RowStep` for every key; each property then
follows from the five cases. Because a sweep changes many rows in one
transaction, `JobLedger` lets keys step independently.

The contract needs one invariant more: no two processes hold the same attempt of
a job, and nobody an attempt that has not begun (`HoldersAreDistinct`), so that
an attempt names one execution. `NextContract` takes the queue's actions one by
one: what happens to the other keys of a sweep is `RecoveredContract`, what a
report does when the lease is still held, and when it is not, is
`ReportContract`. While nobody stalls every renewal thread beats on time
(`CalmInvariant`), so that an expired lease belongs to a process that is gone
(`CalmLeases`): `CalmQueueKeepsContract`, and `CalmQueueRunsOneExecution` for any
number of workers.

`EvaluationProofs` proves `EvaluatorTypeCorrect` and `EvidenceJudgesTests`
for any finite set of tests (`TestsAssumption`). Its invariant says what each
stored outcome tells of the reports seen so far (`Reported`), what the exit code
tells of the recorder (`ExitTells`: 0 only after every test is over, 1 only with
a failed test or a lost worker) and that a verdict keeps its reasons. The record
holds counts only, so two lemmas carry the argument from counts to members: as
many passes as collected tests means that each passed (`AllPassedEach`), and
without a fault the counts add up (`NoFaultAllPassed`).

It also proves `AloneIsAnswered` of the grader, for any invocations and any set
of limits from which the service and each call take theirs
(`GraderAssumption`). Its invariant (`Alone`) says that a call that found the
service free is at the head of the queue and has not aged, or is being served
and is as old as its Codex process, which ends at the limit of the service. Only
`GiveUp` lets a client give up (`OnlyGiveUp`), and a call that is as old as that
needs is older than any Codex, so it is not alone. The limit of the service
changes only while it is down (`StartServerStep`). For
`GraderTypeCorrect` the invocations are finite: each is in the queue once at
most (`QueuedOnce`), so its places inject into the invocations
(`QueueIsBounded`).

Of `BundleStore` it proves `BundleTypeCorrect` and, for two publishers with any
failures and for any publishers with one (`MaxIOErrors <= 1`),
`SignaturesVerifyAlways`; `O_EXCL` leaves each unfinished file one writer
(`Drafted`). All that was signed is of the stored private key (`OfStoredKey`), or
all of it is of the stored public part (`OfPublicKey`): each is kept as long as its
file is (`StoredKeyStep`, `PublicKeyStep`). With one failure only one of the files
is ever removed, and so one of the two stays true (`OneFailureInv`). With two
processes, when one has read a matching pair (`PairRead`) the other cannot be
about to remove both files: one of them is `Settled` from then on. The third
process of the counterexample in section 3 is the one that reads while the other two
still may remove theirs.

`CurriculumStoreProofs` proves `StoreTypeCorrect`, `UsedConceptsAreKept`,
`GoalHistoriesAreLinear`, `StoredGraphsAreAcyclic` and `GoalsReachTheirSupport`
for any finite set of concepts and any packages and requests
(`StoreAssumption`). `GoalHistoryIsLinear` counts rows; the invariant
(`HistoryOfLength`) says instead that the rows of a curriculum are revisions
1..n, one each, and `HistoryLength` gives the count by a bijection.

The last two are about algorithms, for every graph. A recursive function is a
`CHOOSE` to the prover, so first it has to exist: `RecursionExists` shows this
for one that calls itself at most once on an argument of a smaller measure
(`CallsLess`). For `_transitive_prerequisites` the measure is the length of the
stack and twice the concepts not yet found (`Left`); the loop invariant (`Sound`
in `ClosureIsReachable`) says that what is found is reachable and that what has
left the stack has its prerequisites found. `Reachable` takes as many steps as
there are concepts, which suffice because each but the last finds a new one
(`ReachableIsLeast`). For `_assert_acyclic` the measure is the length of the queue
and twice the concepts with a positive degree (`Pending`); while the concepts of W
are unvisited, each degree counts the prerequisites in W, and a set in which
each requires another of the set is never queued (`Underway`), so a graph with a
cycle has fewer visits than concepts (`VisitedIsAcyclic`). `GraphsFit` then says what
loads and take-overs leave of a stored graph.

`ReviewPipelineProofs` proves for any commits, stages, actions, runners and
tries, with leases that lapse: `TypeCorrect`, `EvidenceOnce`, `NonceKept` and
`UnlocksInOrder`; `ResultsSeenOnce` while one result is handled at a time
(`OneResultAtATime`, a state predicate: `Spec /\ []OneResultAtATime =>
[]SeenOnce`), and from it `SeenOnceAlone` for one runner.
`TypeInv` adds to the types which steps each kind of job takes (`Fits`) and that
a claimable row has a try left (`RowFits`); the other three pipeline modules
have the same two. `ReviewInv` is the core: an execution's stage and the stage
of every recorded attempt are at most the assignment's, and from the search for
the review on an execution has the verdict that is stored (`ShowsStored`). So a
zombie that goes on beside its successor shows and applies the review that the
successor found, whoever wrote it. For `SeenOnce` an execution that is about to
post has looked and nobody posted since (`LooksFirst`); this is what two results
handled at once break, and the reason for the hypothesis. Pushes and pull request
changes show nothing (`OthersDoNotShow`), so they may run beside it.
`ReviewUnderContract` is the use the handlers make of the queue, action by action.

`LearnerCommandsProofs` proves `TypeCorrect` and `HintsInOrder` for any
commands, levels, runners and tries, with the terminal. `DecidedOnce` and
`PromiseKept` hold while no job has two executions at once (`OneExecutionPerJob`),
whatever other jobs run beside it; from them follow `OneRunnerSuffices`, with
leases that lapse, and `CalmWorkersDecideOnce`, for any number of runners whose
leases do not lapse under them (`CalmSpec`; each execution then holds the lease of
its job, `Holders`). `CalmQueueRunsOneExecution` is the same fact of the queue.
The argument is that an appeal is touched by two jobs only: its command, which
creates it, and its review; executions of another job leave it alone
(`OtherJob`). `CommandsUnderContract` is the use the handlers make of the queue,
the filing of a review by a command included. `HintInv` says that the
stored levels are 1..k for some k, that no process is about to store more than
k + 1, and that none is about to show more than k: the count two processes read
may be old, but only too low, and a level stored twice is refused by the unique
key. `AppealInv` says that appeals are numbered by the tries their command used, so
that a retry creates a new one, that an execution that grades finds its appeal
undecided and one that posts has decided it and nobody posted since
(`AppealFits`), and that a completed review has posted its result.
`PromiseInv`, which holds for any runners, says that a command that answers has
filed the review of the appeal it created.

`PublicationProofs` proves `TypeCorrect` for any number of calls, and, with one
call of `create_next_assignment` at a time (`OneCall`) beside any number of
workers, for any kits, failures and lost responses: `OnePull`, `StoredManifest`
and `PushRecorded`. `CallFits` says what a call that has come so far has found:
the manifest it holds is the row's, a branch exists before it looks for pull
requests, and there is none when it opens one. `PublishedInv` adds that a pull request has a branch and a row, that the branch
carries the row's manifest and that a stored publication has its pull request;
`WorkerInv` that a job of a pull request was filed after it was opened and that a
push is dispatched after its attempt was recorded.
Steps of the worker keep `CallFits` because they never change the manifest or
the stored publication (`CallsUndisturbed`), which is the interference argument
of the module. `PublicationUnderContract` is the use its handlers make of the
queue.

`SetupRunProofs` proves for any resumes and callbacks that overlap:
`TypeCorrect` and `EndedStays` (the action property; only three actions write
sessions, and each reads the session as it is and not as a callback saw it). With
one resume at a time (`OneResumer`), and any callbacks beside it:
`ReadyOnlyComplete` and `ProbeEvidence`; with one callback at a time
(`OneCallback`), and any resumes: `LatestFlow`. `ResumeInv` says that the steps a
resume has yet to go through include every incomplete one, the one it executes
and, during the probe, none before it (`WorkFits`), and that every probe was
dispatched at the commit of the control plane it names and one that passed has
its run on GitHub (`ProbeFits`). `FlowInv` says that only the latest flow is
active (`SessionFits`), and what the files hold at each step of a callback
(`FlowFits`). The hypotheses are needed: with two resumes TLC finds
`ReadyMeansComplete` and `ProbeStepHasEvidence` violated, with two callbacks
`LatestFlowIsConsistent`. Nothing in the code excludes these overlaps; they need
an operator who resumes twice, or opens GitHub's answer twice, within the
seconds that one takes. That the newest open probe exists (`NewestExists`) is a
minimum over a finite set, by `WFMin` and the order of the naturals.

`TutoringProofs` proves of `LearnerModel`, for any formats, contexts, assignments
and findings: `LearnerTypeCorrect`, `SuspectedOnce` and `ResolvedByTransfer`.
`Sound(k)` is the set of rows whose status their evidence of the first k
evaluations supports, and `SoundWithin(o)` of those whose evidence of the review
at hand is all of its assignment: that a challenge of this review cannot be the
one it resolves rests on that. One finding keeps a row in it
(`FindingKeepsSound`, one case per status), and a review folds its findings over the row, so
`ReviewKeepsSound` needs the fold: `FoldExists` shows that it is what the
elements of the list do one after the other. The library's induction theorems
cannot be used, so this and the other inductions over data argue by a least
counterexample (`NaturalsByOne`, from `WFMin`).

Of `TutorPlan` it proves, for any curriculum that passes the graph check
(`PlanAssumption`), any sessions and any number of assignments:
`PlanTypeCorrect`, `DifficultiesAreAuthored` and `EarlyOnesVary`. Each `min` of the
code with a key of several parts is a lexicographic minimum; `LeastKey` shows
that it exists when the last part tells the options apart, so each `CHOOSE` of the
model names an option (`FormatSelected`, `DifficultyFits`,
`BlueprintSelected`). The rest is how the windows fit together: a difficulty is
fitted to some blueprint of the concept and format; if none that covers it is among
the candidates, all were filtered as repetitions, and the window of five is of the
history (`RepeatsInWindow`); the window of the newest eight, reversed, is the whole history as
long as it has three rows (`WindowRows`, `ReverseRows`, `ValidEarly`).
`FairlySet` states the first property by places in the history, which a later
assignment does not move (`FairlySetKept`).

Of `MCTutor` it proves `PartsRunAlone`: a behaviour of the seven parts, one of
which moves, is one of each part, so the theorems of the parts hold of the run;
`PartsTypeCorrect` is the first of these, for finitely many invocations. It is
why this module extends the proofs of the other parts.

Some definitions of the models were written anew for these proofs. `ReadForResult`
had a `CASE` whose arms overlapped: TLC takes the first, TLA+ leaves the choice
open, and the proof failed on it; it is now a conditional that asks in the order
of the code. `Evaluated` and `Resolved` name records that were nested `EXCEPT`s.
`TutorPlan` read the history with `SelectSeq`, which the prover does not expand;
`Latest` now takes the places of the newest rows, with the same results. The two
traversals of `CurriculumStore` were functions of two arguments, which the prover
does not know; they are functions of a record, with one step of each loop an
operator (`Visit`, `Pursue`), and degrees are integers as in the code, so that
every step stays in the domain.

What is not proved:

- `FiledJobSettles`, `AttemptIsReviewed`, `PublicationSettles` and
  `ProbeIsDecided`: liveness under fairness, which this
  prover does not reach; TLC checks them.
- That every step the contract allows is one the handler modules take (section 2,
  `HandlerExecutions`): it is about which actions are enabled,
  and neither proved nor checked.
- The properties above that need one call, resume or callback at a time are
  checked and proved under that hypothesis only; `SeenOnce` and the two about
  appeals are checked with one runner and proved as stated above.

## 7. Not modelled

- Numbers of the learner model: mastery, uncertainty, intervals and the
  scheduler's priority are floating point. Where a decision depends on them the
  model allows every outcome (`Mastery`, `Schedulable`).
- Text: prompts and their versions (`prompt_versions` is unique by purpose and
  version only, and an equal version of another curriculum overwrites it),
  templates of assignments, comments and reports.
- Webhook signatures, digests, redaction, paths, modes and owners of files:
  they only refuse.
- The isolation of evaluator and grader, which is the operating system's.
- Two grader services at once: they race for the socket path, which their unit
  excludes. A `model_invocations` row whose worker died stays "running"; nothing
  reads it back.
- `state.py`, `reporting.py`, `doctor.py`, `demo.py` and the pages of
  `dashboard.py`: they read and render, or script the services modelled here.
- `begin` of a second setup, the repository bootstrap of the setup.

## 8. Plan

1. Done: all modules of section 2 and the proofs of section 6.
2. `begin` of a second setup in `SetupRun`.
