---------------------------- MODULE ReviewPipeline ----------------------------
(***************************************************************************)
(* How a pushed commit becomes a review: the event handlers of             *)
(* orchestrator.py (record_submission, process_ci_result and               *)
(* reconcile_pull_request) with the transactions of assignments.py,        *)
(* evaluation.py and learner.py they run, for one published assignment.    *)
(*                                                                         *)
(* A handler is a sequence of separate SQLite transactions and GitHub      *)
(* calls, so every step between two of them is an action ("pc"), and       *)
(* handlers of several executions interleave. What the handlers see of     *)
(* JobQueue is kept: a delivery's job is executed up to MaxTries times, a  *)
(* crashed execution loses its locals, and an execution whose lease lapses *)
(* continues beside the one that took its job over.                        *)
(*                                                                         *)
(* GitHub is outside src/: a POST may take effect and still fail. Of a     *)
(* review the model keeps what decides the transition. head_sha, which no  *)
(* handler reads, is left out.                                             *)
(***************************************************************************)
EXTENDS HandlerJobs, FiniteSets

CONSTANTS
  Commit,        \* commits the learner pushes to the assignment's branch
  LastStage,     \* number of authored stages
  PullAction,    \* pull_request actions delivered, of "edited", "merged", "closed"
  Stalls         \* whether renewal threads may stall and leases lapse under them

ASSUME PipelineAssumption ==
  /\ LastStage \in Nat \ {0} /\ Stalls \in BOOLEAN
  /\ PullAction \subseteq {"edited", "merged", "closed"}

Stage == 1..LastStage
Attempt == Commit \X Stage      \* UNIQUE (assignment_id, commit_sha, stage_number)
Run == Attempt \X (1..MaxTries) \* workflow runs; each try dispatches at most one

PushJob(c) == <<"push", c>>
ResultJob(run) == <<"result", run>>
PullJob(action) == <<"pull", action>>
NoJob == <<"none">>
Job == {PushJob(c) : c \in Commit} \cup {ResultJob(run) : run \in Run}
         \cup {PullJob(action) : action \in PullAction}

VARIABLES
  assignment,   \* [status, stage], the assignments row
  successor,    \* the learner's next assignment has been created
  attempts,     \* [Attempt -> AttemptRow], with the evaluation of each attempt
  runs,         \* [Run -> Nat], the dispatch nonce of a dispatched run, else 0
  reviews,      \* [Attempt -> Nat], reviews on the pull request, by marker
  comments,     \* [Stage -> Nat], stage announcements, by marker
  jobs,         \* [Job -> JobRow]
  exec          \* [Runner -> Execution]

rows == <<assignment, successor, attempts>>
hub == <<runs, reviews, comments>>
vars == <<assignment, successor, attempts, runs, reviews, comments, jobs, exec>>

Active == {"published", "submitted", "reviewing", "follow_up"}
Status == Active \cup {"completed", "cancelled"}

\* QualitativeEvaluation: passed is overall_score >= 70, next its follow_up
\* ("none" and "new_assignment" both finish).
Verdict == [passed : BOOLEAN, next : {"new_stage", "human_review", "finish"}]
NoVerdict == [passed |-> FALSE, next |-> "unknown"]

\* What _validate_qualitative lets through for an attempt at stage s.
ValidVerdicts(s) ==
  {v \in Verdict :
     /\ v.next = "new_stage" => s < LastStage
     /\ v.passed /\ s < LastStage => v.next \in {"new_stage", "human_review"}}

AttemptRow ==
  [recorded : BOOLEAN, nonce : 0..MaxTries, dispatched : BOOLEAN,
   verdict : Verdict \cup {NoVerdict}, evidence : Nat, posted : BOOLEAN]
NoAttempt == [recorded |-> FALSE, nonce |-> 0, dispatched |-> FALSE,
              verdict |-> NoVerdict, evidence |-> 0, posted |-> FALSE]

Step == {"idle", "read", "record", "submit", "control", "dispatch", "mark",
         "grade", "persist", "review", "post", "posted", "apply",
         "announce", "comment", "write"}
Execution == [job : Job \cup {NoJob}, pc : Step, stage : Stage,
              status : Status, verdict : Verdict \cup {NoVerdict}]
Idle == [job |-> NoJob, pc |-> "idle", stage |-> 1, status |-> "published",
         verdict |-> NoVerdict]

TypeOK ==
  /\ assignment \in [status : Status, stage : Stage]
  /\ successor \in BOOLEAN
  /\ attempts \in [Attempt -> AttemptRow]
  /\ runs \in [Run -> 0..MaxTries]
  /\ reviews \in [Attempt -> Nat] /\ comments \in [Stage -> Nat]
  /\ jobs \in [Job -> JobRow] /\ exec \in [Runner -> Execution]

Init ==
  /\ assignment = [status |-> "published", stage |-> 1]
  /\ successor = FALSE
  /\ attempts = [a \in Attempt |-> NoAttempt]
  /\ runs = [run \in Run |-> 0]
  /\ reviews = [a \in Attempt |-> 0] /\ comments = [s \in Stage |-> 0]
  /\ jobs = [j \in Job |-> Unfiled]
  /\ exec = [r \in Runner |-> Idle]

-----------------------------------------------------------------------------
(* Deliveries *)

File(j) ==
  /\ jobs[j].status = "absent"
  /\ jobs' = [jobs EXCEPT ![j] = Filed(@)]
  /\ UNCHANGED <<rows, hub, exec>>

LearnerPushes(c) == File(PushJob(c))
PullRequestChanges(action) == File(PullJob(action))
RunEnds(run) == runs[run] # 0 /\ File(ResultJob(run))

\* create_next_assignment() refuses while an assignment is active.
CreateSuccessor ==
  /\ assignment.status \notin Active
  /\ ~successor /\ successor' = TRUE
  /\ UNCHANGED <<assignment, attempts, hub, jobs, exec>>

-----------------------------------------------------------------------------
(* Executions of jobs *)

Claim(r, j) ==
  /\ exec[r].pc = "idle"
  /\ IsClaimable(jobs[j])
  /\ jobs' = [jobs EXCEPT ![j] = Taken(@, r)]
  /\ exec' = [exec EXCEPT ![r] = [Idle EXCEPT !.job = j, !.pc = "read"]]
  /\ UNCHANGED <<rows, hub>>

At(r, kind, pc) == exec[r].pc = pc /\ exec[r].job[1] = kind
CommitOf(r) == IF exec[r].job[1] = "push" THEN exec[r].job[2] ELSE exec[r].job[2][1][1]
AttemptOf(r) == <<CommitOf(r), exec[r].stage>>

GoTo(r, pc) == exec' = [exec EXCEPT ![r].pc = pc] /\ UNCHANGED jobs

Finish(r, outcome) ==
  /\ exec' = [exec EXCEPT ![r] = Idle]
  /\ jobs' = [jobs EXCEPT ![exec[r].job] = Reported(@, r, outcome)]

\* The steps that call GitHub or the grader, whose TutorErrors may be retryable.
Remote == {"control", "dispatch", "grade", "review", "post", "announce", "comment"}

\* Nothing took effect: a refusal, an error before the call, a locked database.
HandlerFails(r) ==
  /\ exec[r].pc # "idle"
  /\ \/ exec[r].pc \in Remote /\ Finish(r, "retry")
     \/ At(r, "result", "read") /\ Finish(r, "retry")
     \/ Finish(r, "refused")
  /\ UNCHANGED <<rows, hub>>

\* The process dies; its lease lapses some time later.
Crash(r) ==
  /\ exec[r].pc # "idle" /\ Finish(r, "retry")
  /\ UNCHANGED <<rows, hub>>

\* The renewal thread stalled: the job is open again, the handler goes on.
LeaseLapses(r) ==
  /\ Stalls
  /\ exec[r].pc # "idle" /\ jobs[exec[r].job].holder = r
  /\ jobs' = [jobs EXCEPT ![exec[r].job] = Lapsed(@)]
  /\ UNCHANGED <<rows, hub, exec>>

\* one_primary_active_assignment_idx: the UPDATE of a row to an active status.
MayBecome(status) == status \in Active => ~successor

-----------------------------------------------------------------------------
(* record_submission *)

ReadForPush(r) ==
  /\ At(r, "push", "read")
  /\ exec' = [exec EXCEPT ![r].pc = "record", ![r].stage = assignment.stage]
  /\ UNCHANGED <<rows, hub, jobs>>

RecordAttempt(r) ==
  /\ At(r, "push", "record")
  /\ attempts' = [attempts EXCEPT ![AttemptOf(r)].recorded = TRUE]
  /\ GoTo(r, "submit")
  /\ UNCHANGED <<assignment, successor, hub>>

Submit(r) ==
  /\ At(r, "push", "submit")
  /\ \/ /\ MayBecome("submitted")
        /\ assignment' = [assignment EXCEPT !.status = "submitted"]
        /\ GoTo(r, "control")
     \/ /\ ~MayBecome("submitted")
        /\ Finish(r, "refused")
        /\ UNCHANGED assignment
  /\ UNCHANGED <<successor, attempts, hub>>

\* Mutant: the nonce is drawn again although one is stored.
NonceAlways(row) == (row.nonce + 1) % (MaxTries + 1)
\* WHERE dispatch_nonce IS NULL. A nonce is random: the attempt and the number
\* of times one was drawn for it stand for it.
Nonce(row) == IF row.nonce = 0 THEN 1 ELSE row.nonce

\* Mutant: the dispatch is marked before it is made.
BoundEarly(row) == [row EXCEPT !.nonce = Nonce(row), !.dispatched = TRUE]
Bound(row) == [row EXCEPT !.nonce = Nonce(row)]

BindDispatch(r) ==
  /\ At(r, "push", "control")
  /\ \/ /\ attempts[AttemptOf(r)].dispatched
        /\ Finish(r, "ok")
        /\ UNCHANGED attempts
     \/ /\ ~attempts[AttemptOf(r)].dispatched
        /\ attempts' = [attempts EXCEPT ![AttemptOf(r)] = Bound(@)]
        /\ GoTo(r, "dispatch")
  /\ UNCHANGED <<assignment, successor, hub>>

NewRun(a) ==
  <<a, CHOOSE n \in 1..MaxTries :
         /\ runs[<<a, n>>] = 0
         /\ \A m \in 1..(n - 1) : runs[<<a, m>>] # 0>>

\* The POST takes effect; the response may be lost.
Dispatch(r) ==
  /\ At(r, "push", "dispatch")
  /\ runs' = [runs EXCEPT ![NewRun(AttemptOf(r))] = attempts[AttemptOf(r)].nonce]
  /\ GoTo(r, "mark") \/ Finish(r, "retry")
  /\ UNCHANGED <<rows, reviews, comments>>

MarkDispatched(r) ==
  /\ At(r, "push", "mark")
  /\ attempts' = [attempts EXCEPT ![AttemptOf(r)].dispatched = TRUE]
  /\ Finish(r, "ok")
  /\ UNCHANGED <<assignment, successor, hub>>

-----------------------------------------------------------------------------
(* process_ci_result *)

\* The attempt is looked up by assignment and commit, not by stage. With an
\* evaluation stored, the run is not downloaded or graded again.
ReadForResult(r) ==
  LET run == exec[r].job[2]
  IN  /\ At(r, "result", "read")
      /\ \E s \in Stage :
           LET row == attempts[<<CommitOf(r), s>>]
           IN  /\ row.recorded
               /\ \/ /\ row.nonce # runs[run] \/ s # run[1][2]
                     /\ Finish(r, "refused")
                  \/ /\ row.nonce = runs[run] /\ s = run[1][2]
                     /\ exec' = [exec EXCEPT ![r].stage = s, ![r].verdict = row.verdict,
                                   ![r].pc = IF row.verdict = NoVerdict THEN "grade"
                                             ELSE IF row.posted THEN "apply" ELSE "review"]
                     /\ UNCHANGED jobs
      /\ UNCHANGED <<rows, hub>>

Grade(r) ==
  /\ At(r, "result", "grade")
  /\ \E v \in ValidVerdicts(exec[r].stage) :
       exec' = [exec EXCEPT ![r].verdict = v, ![r].pc = "persist"]
  /\ UNCHANGED <<rows, hub, jobs>>

\* Mutant: qualitative_initial_attempt_idx is missing.
IsFirstEvaluationAlways(a) == TRUE
\* qualitative_initial_attempt_idx
IsFirstEvaluation(a) == attempts[a].verdict = NoVerdict

\* The evaluation's row, and the evidence the learner model takes with it.
Evaluated(row, v) == [row EXCEPT !.verdict = v, !.evidence = @ + 1]

\* One transaction: the evaluation is inserted and the learner model updated,
\* or the unique index refuses both.
Persist(r) ==
  LET a == AttemptOf(r)
  IN  /\ At(r, "result", "persist")
      /\ \/ /\ IsFirstEvaluation(a)
            /\ attempts' = [attempts EXCEPT ![a] = Evaluated(@, exec[r].verdict)]
            /\ GoTo(r, "review")
         \/ /\ ~IsFirstEvaluation(a)
            /\ Finish(r, "refused")
            /\ UNCHANGED attempts
      /\ UNCHANGED <<assignment, successor, hub>>

\* Mutant: ensure_review does not look for the marker.
HasMarkerNever(count) == FALSE
\* The GET of ensure_review and ensure_comment.
HasMarker(count) == count > 0

FindReview(r) ==
  /\ At(r, "result", "review")
  /\ GoTo(r, IF HasMarker(reviews[AttemptOf(r)]) THEN "posted" ELSE "post")
  /\ UNCHANGED <<rows, hub>>

PostReview(r) ==
  /\ At(r, "result", "post")
  /\ reviews' = [reviews EXCEPT ![AttemptOf(r)] = @ + 1]
  /\ GoTo(r, "posted") \/ Finish(r, "retry")
  /\ UNCHANGED <<rows, runs, comments>>

MarkPosted(r) ==
  /\ At(r, "result", "posted")
  /\ attempts' = [attempts EXCEPT ![AttemptOf(r)].posted = TRUE]
  /\ GoTo(r, "apply")
  /\ UNCHANGED <<assignment, successor, hub>>

\* Mutant: a review of an earlier stage's attempt advances again.
AlreadyAdvancedNever(s) == FALSE
AlreadyAdvanced(s) == assignment.stage > s

\* The status an applied review gives; a new stage needs an authored one.
StatusAfter(v) ==
  CASE v.next = "new_stage" -> "follow_up"
    [] v.next = "human_review" -> "reviewing"
    [] v.next = "finish" -> "completed"
MayApply(v) ==
  /\ v.next = "new_stage" => assignment.stage < LastStage
  /\ MayBecome(StatusAfter(v))

\* apply_review_transition, one transaction. For a new stage it returns the
\* stage to announce, which replaces the attempt's in the locals.
ApplyTransition(r) ==
  LET v == exec[r].verdict
      advanced == v.next = "new_stage" /\ AlreadyAdvanced(exec[r].stage)
      Announce(s) == exec' = [exec EXCEPT ![r].pc = "announce", ![r].stage = s]
  IN  /\ At(r, "result", "apply")
      /\ \/ /\ advanced
            /\ Announce(assignment.stage)
            /\ UNCHANGED <<assignment, jobs>>
         \/ /\ ~advanced /\ MayApply(v) /\ v.next = "new_stage"
            /\ assignment' = [status |-> StatusAfter(v), stage |-> assignment.stage + 1]
            /\ Announce(assignment.stage + 1)
            /\ UNCHANGED jobs
         \/ /\ ~advanced /\ MayApply(v) /\ v.next # "new_stage"
            /\ assignment' = [assignment EXCEPT !.status = StatusAfter(v)]
            /\ Finish(r, "ok")
         \/ /\ ~advanced /\ ~MayApply(v)
            /\ Finish(r, "refused")
            /\ UNCHANGED assignment
      /\ UNCHANGED <<successor, attempts, hub>>

FindComment(r) ==
  /\ At(r, "result", "announce")
  /\ \/ HasMarker(comments[exec[r].stage]) /\ Finish(r, "ok")
     \/ ~HasMarker(comments[exec[r].stage]) /\ GoTo(r, "comment")
  /\ UNCHANGED <<rows, hub>>

PostComment(r) ==
  /\ At(r, "result", "comment")
  /\ comments' = [comments EXCEPT ![exec[r].stage] = @ + 1]
  /\ Finish(r, "ok") \/ Finish(r, "retry")
  /\ UNCHANGED <<rows, runs, reviews>>

-----------------------------------------------------------------------------
(* reconcile_pull_request *)

ReadForPull(r) ==
  /\ At(r, "pull", "read")
  /\ exec' = [exec EXCEPT ![r].pc = "write",
                ![r].status = CASE exec[r].job[2] = "merged" -> "completed"
                                [] exec[r].job[2] = "closed" -> "cancelled"
                                [] OTHER -> assignment.status]
  /\ UNCHANGED <<rows, hub, jobs>>

WriteStatus(r) ==
  /\ At(r, "pull", "write")
  /\ \/ /\ MayBecome(exec[r].status)
        /\ assignment' = [assignment EXCEPT !.status = exec[r].status]
        /\ Finish(r, "ok")
     \/ /\ ~MayBecome(exec[r].status)
        /\ Finish(r, "refused")
        /\ UNCHANGED assignment
  /\ UNCHANGED <<successor, attempts, hub>>

-----------------------------------------------------------------------------
HandlerStep(r) ==
  \/ ReadForPush(r) \/ RecordAttempt(r) \/ Submit(r)
  \/ BindDispatch(r) \/ Dispatch(r) \/ MarkDispatched(r)
  \/ ReadForResult(r) \/ Grade(r) \/ Persist(r)
  \/ FindReview(r) \/ PostReview(r) \/ MarkPosted(r)
  \/ ApplyTransition(r) \/ FindComment(r) \/ PostComment(r)
  \/ ReadForPull(r) \/ WriteStatus(r)

Next ==
  \/ \E c \in Commit : LearnerPushes(c)
  \/ \E action \in PullAction : PullRequestChanges(action)
  \/ \E run \in Run : RunEnds(run)
  \/ CreateSuccessor
  \/ \E r \in Runner :
       \/ \E j \in Job : Claim(r, j)
       \/ HandlerStep(r) \/ HandlerFails(r) \/ Crash(r) \/ LeaseLapses(r)

Spec == Init /\ [][Next]_vars

(***************************************************************************)
(* Fairness: workers run and claim (JobQueue), GitHub finishes its runs    *)
(* and delivers them, and a handler takes its next step or fails.          *)
(***************************************************************************)
Fairness ==
  /\ \A run \in Run : WF_vars(RunEnds(run))
  /\ \A r \in Runner :
       /\ WF_vars(HandlerStep(r))
       /\ \A j \in Job : SF_vars(Claim(r, j))

FairSpec == Spec /\ Fairness

-----------------------------------------------------------------------------
(* Properties *)

(* The learner model takes an attempt's evidence exactly when its one        *)
(* initial evaluation is stored, however many runs, retries and overlapping  *)
(* executions grade it.                                                      *)
EvidenceAppliedOnce ==
  \A a \in Attempt :
    attempts[a].evidence = IF attempts[a].verdict = NoVerdict THEN 0 ELSE 1

(* A run that GitHub may still report carries the nonce stored with its      *)
(* attempt: a retried or overlapping push never disowns a run it dispatched. *)
RunsKeepTheirNonce ==
  \A run \in Run : runs[run] # 0 => runs[run] = attempts[run[1]].nonce

(* While one result is handled at a time, crashes and lost responses         *)
(* included, the learner sees each review and each stage announcement once,  *)
(* and only of a stored evaluation.                                          *)
SeenOnce ==
  /\ \A a \in Attempt :
       /\ reviews[a] <= 1
       /\ reviews[a] = 1 => attempts[a].verdict # NoVerdict
       /\ attempts[a].posted => reviews[a] = 1
  /\ \A s \in Stage : comments[s] <= 1

(* Stages are unlocked one at a time, each by a stored review that asked for *)
(* it of an attempt at the stage before.                                     *)
StagesUnlockInOrder ==
  [][assignment'.stage # assignment.stage =>
       /\ assignment'.stage = assignment.stage + 1
       /\ \E c \in Commit :
            attempts[<<c, assignment.stage>>].verdict.next = "new_stage"]_vars

(* A recorded attempt is reviewed, unless a job of its commit is given up.   *)
GivenUp(c) ==
  \/ jobs[PushJob(c)].status = "dead_letter"
  \/ \E run \in Run : run[1][1] = c /\ jobs[ResultJob(run)].status = "dead_letter"
AttemptIsReviewed ==
  \A a \in Attempt :
    attempts[a].recorded ~> attempts[a].verdict # NoVerdict \/ GivenUp(a[1])

(* docs/contributing.md:54: event operations are idempotent and              *)
(* restart-safe. One push records one attempt, at the stage it was made for. *)
OneAttemptPerPush ==
  \A c \in Commit : Cardinality({s \in Stage : attempts[<<c, s>>].recorded}) <= 1

(* docs/evaluation.md:114: a passing review cannot skip an authored          *)
(* follow-up stage, and every stage remains a distinct attempt. While the    *)
(* pull request is open, an assignment whose current stage was unlocked by a *)
(* passing review is not completed without an attempt at that stage.         *)
UnlockedStageIsNotSkipped ==
  /\ assignment.status = "completed"
  /\ \A action \in PullAction : jobs[PullJob(action)].status = "absent"
  /\ \E c \in Commit, s \in Stage :
       s + 1 = assignment.stage /\
       attempts[<<c, s>>].verdict = [passed |-> TRUE, next |-> "new_stage"]
  => \E c \in Commit : attempts[<<c, assignment.stage>>].recorded

Executing == [j \in Job |-> {r \in Runner : exec[r].pc # "idle" /\ exec[r].job = j}]

(* The handlers use the queue as HandlerExecutions allows and in no other    *)
(* way: a job is taken when nobody holds it, reported by an execution of it  *)
(* that ends there, and otherwise left alone.                                *)
Contract == INSTANCE HandlerExecutions WITH
  Key <- Job, rows <- jobs,
  executing <- Executing

RunsUnderContract == Contract!Spec
=============================================================================
