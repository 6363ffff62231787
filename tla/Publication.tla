------------------------------ MODULE Publication ------------------------------
(***************************************************************************)
(* How an assignment gets its branch and pull request:                     *)
(* create_next_assignment and _publish_assignment of orchestrator.py with  *)
(* AssignmentService.create and GitHubClient.publish_assignment, called   *)
(* by the CLI, the dashboard or the setup, while the worker handles the    *)
(* deliveries that the new branch and pull request cause themselves.       *)
(*                                                                         *)
(* One assignment is followed. Each transaction and each GitHub call is an *)
(* action; a caller may fail or die between any two and start again. A     *)
(* signed manifest is determined by the evaluator kit it was made for, so  *)
(* the kit stands for it; files, sealing and the scheduler's choice are    *)
(* left out, and so are publication_error, which is only shown, and the    *)
(* paused flag, which refuses at the very start.                           *)
(* What follows the dispatch of a push is ReviewPipeline.                  *)
(***************************************************************************)
EXTENDS HandlerJobs

CONSTANTS
  Caller,      \* concurrent calls of create_next_assignment
  Commit,      \* commits the learner pushes to the branch
  Base,        \* the tutor's own commit that creates the branch
  NoSha,
  Kits,        \* evaluator kits the control plane goes through, 1..Kits
  MaxFailures  \* bound on the calls that fail or die

Sha == Commit \cup {Base}
Kit == 1..Kits
PushJob(sha) == <<"push", sha>>
PullJob(action) == <<"pull", action>>
NoJob == <<"none">>
Job == {PushJob(sha) : sha \in Sha} \cup {PullJob("opened"), PullJob("closed")}

ASSUME PublicationAssumption == Base \notin Commit /\ NoSha \notin Sha /\ Kits \in Nat \ {0}
                                /\ MaxFailures \in Nat

VARIABLES
  row,        \* the assignments row
  attempts,   \* commits with an attempt
  control,    \* evaluator_control_planes: the kit of its row
  rotating,   \* a setup found no assignment and is about to replace that row
  branch,     \* on GitHub: [head, manifest] of the assignment's branch
  pushed,     \* commits pushed to it
  pulls,      \* pull requests opened for it
  open,       \* whether the latest of them is open
  call,       \* [Caller -> Call]
  failures,   \* calls that failed or died
  jobs, exec  \* the worker, as in HandlerJobs

tables == <<row, attempts, control, rotating>>
hub == <<branch, pushed, pulls, open>>
worker == <<jobs, exec>>
vars == <<tables, hub, call, failures, worker>>

Status == {"absent", "validated", "published", "submitted", "completed", "cancelled"}
Row == [status : Status, manifest : 0..Kits, pull : BOOLEAN,
        publication : Sha \cup {NoSha}]
NoRow == [status |-> "absent", manifest |-> 0, pull |-> FALSE,
          publication |-> NoSha]

CallStep == {"idle", "preflight", "create", "manifest", "branch", "pulls",
             "push", "open", "store"}
\* fresh: the caller found no assignment; known: the manifest stored in the row it
\* read; kit: its control plane's, then its manifest's; head: what
\* publish_assignment returns.
Call == [pc : CallStep, fresh : BOOLEAN, known : 0..Kits, kit : 0..Kits, head : Sha \cup {NoSha}]
NotCalling == [pc |-> "idle", fresh |-> FALSE, known |-> 0, kit |-> 0, head |-> NoSha]

Execution == [job : Job \cup {NoJob},
              pc : {"idle", "read", "record", "submit", "dispatch", "write"},
              status : Status, manifest : 0..Kits]
Idle == [job |-> NoJob, pc |-> "idle", status |-> "absent", manifest |-> 0]

TypeOK ==
  /\ row \in Row /\ attempts \subseteq Sha /\ control \in Kit /\ rotating \in BOOLEAN
  /\ branch \in [head : Sha \cup {NoSha}, manifest : 0..Kits]
  /\ pushed \subseteq Sha /\ pulls \in Nat /\ open \in BOOLEAN
  /\ call \in [Caller -> Call] /\ failures \in 0..MaxFailures
  /\ jobs \in [Job -> JobRow] /\ exec \in [Runner -> Execution]

Init ==
  /\ row = NoRow /\ attempts = {} /\ control = 1 /\ rotating = FALSE
  /\ branch = [head |-> NoSha, manifest |-> 0]
  /\ pushed = {} /\ pulls = 0 /\ open = FALSE
  /\ call = [c \in Caller |-> NotCalling] /\ failures = 0
  /\ jobs = [j \in Job |-> Unfiled] /\ exec = [r \in Runner |-> Idle]

-----------------------------------------------------------------------------
(* create_next_assignment *)

GoTo(c, pc) == call' = [call EXCEPT ![c].pc = pc]
Return(c) == call' = [call EXCEPT ![c] = NotCalling]

\* A validated assignment without a pull request is resumed.
IsResumable == row.status = "validated" /\ ~row.pull

LookForActive(c) ==
  /\ call[c].pc = "idle"
  /\ row.status = "absent" \/ IsResumable
  /\ call' = [call EXCEPT ![c] = [NotCalling EXCEPT !.pc = "preflight",
                                                    !.fresh = row.status = "absent",
                                                    !.known = row.manifest]]
  /\ UNCHANGED <<tables, hub, failures, worker>>

\* preflight_assignment_publication and _verified_control_plane
Preflight(c) ==
  /\ call[c].pc = "preflight"
  /\ call' = [call EXCEPT ![c].kit = control,
                          ![c].pc = IF call[c].fresh THEN "create" ELSE "manifest"]
  /\ UNCHANGED <<tables, hub, failures, worker>>

Create(c) ==
  /\ call[c].pc = "create"
  /\ IF row.status = "absent"
     THEN row' = [row EXCEPT !.status = "validated"] /\ GoTo(c, "manifest")
     ELSE Return(c) /\ UNCHANGED row   \* "is already active"
  /\ UNCHANGED <<attempts, control, rotating, hub, failures, worker>>

\* Mutant: a resumed call signs the manifest again.
IsSignedNever(c) == FALSE
IsSigned(c) == call[c].known # 0

BindManifest(c) ==
  /\ call[c].pc = "manifest"
  /\ IF IsSigned(c)
     THEN call' = [call EXCEPT ![c].pc = "branch", ![c].kit = call[c].known] /\ UNCHANGED row
     ELSE row' = [row EXCEPT !.manifest = call[c].kit] /\ GoTo(c, "branch")
  /\ UNCHANGED <<attempts, control, rotating, hub, failures, worker>>

Store(c) ==
  /\ call[c].pc = "store"
  /\ row' = [row EXCEPT !.status = "published", !.pull = TRUE,
                        !.publication = call[c].head]
  /\ Return(c)
  /\ UNCHANGED <<attempts, control, rotating, hub, failures, worker>>

\* GitHub refuses or does not answer, or the caller is killed.
CallFails(c) ==
  /\ call[c].pc # "idle" /\ failures < MaxFailures
  /\ Return(c)
  /\ failures' = failures + 1
  /\ UNCHANGED <<tables, hub, worker>>

-----------------------------------------------------------------------------
(* publish_assignment *)

\* Mutant: an earlier call's branch is not looked for.
BranchExistsNever == FALSE
BranchExists == branch.head # NoSha

FindBranch(c) ==
  /\ call[c].pc = "branch"
  /\ \/ ~BranchExists /\ GoTo(c, "push")
     \/ /\ BranchExists /\ branch.manifest = call[c].kit
        /\ call' = [call EXCEPT ![c].pc = "pulls", ![c].head = branch.head]
     \/ /\ BranchExists /\ branch.manifest # call[c].kit
        /\ Return(c)   \* "conflicts with tutor state"
  /\ UNCHANGED <<tables, hub, failures, worker>>

\* Mutant: state=open instead of state=all.
HasPullOpen == open
HasPull == pulls > 0

FindPull(c) ==
  /\ call[c].pc = "pulls"
  /\ GoTo(c, IF HasPull THEN "store" ELSE "open")
  /\ UNCHANGED <<tables, hub, failures, worker>>

\* POST takes effect; its response may be lost. GitHub refuses a second ref.
PushBranch(c) ==
  /\ call[c].pc = "push"
  /\ IF branch.head = NoSha
     THEN /\ branch' = [head |-> Base, manifest |-> call[c].kit]
          /\ pushed' = {Base}
          /\ \/ call' = [call EXCEPT ![c].pc = "open", ![c].head = Base]
             \/ Return(c)
     ELSE Return(c) /\ UNCHANGED <<branch, pushed>>
  /\ UNCHANGED <<tables, pulls, open, failures, worker>>

\* GitHub refuses a second open pull request of a branch.
OpenPull(c) ==
  /\ call[c].pc = "open"
  /\ IF ~open
     THEN /\ open' = TRUE /\ pulls' = pulls + 1
          /\ GoTo(c, "store") \/ Return(c)
     ELSE Return(c) /\ UNCHANGED <<open, pulls>>
  /\ UNCHANGED <<tables, branch, pushed, failures, worker>>

-----------------------------------------------------------------------------
(* The learner, GitHub's deliveries, and a setup that installs a new kit *)

LearnerPushes(sha) ==
  /\ branch.head # NoSha /\ sha \notin pushed
  /\ branch' = [branch EXCEPT !.head = sha]
  /\ pushed' = pushed \cup {sha}
  /\ UNCHANGED <<tables, pulls, open, call, failures, worker>>

LearnerCloses ==
  /\ open /\ open' = FALSE
  /\ UNCHANGED <<tables, branch, pushed, pulls, call, failures, worker>>

Deliver(j) ==
  /\ jobs[j].status = "absent"
  /\ \/ \E sha \in pushed : j = PushJob(sha)
     \/ pulls > 0 /\ j = PullJob("opened")
     \/ pulls > 0 /\ ~open /\ j = PullJob("closed")
  /\ jobs' = [jobs EXCEPT ![j] = Filed(@)]
  /\ UNCHANGED <<tables, hub, call, failures, exec>>

\* _persist() counts the assignments and writes in separate transactions.
FindNoAssignment ==
  /\ ~rotating /\ control < Kits /\ row.status = "absent"
  /\ rotating' = TRUE
  /\ UNCHANGED <<row, attempts, control, hub, call, failures, worker>>

Rotate ==
  /\ rotating /\ rotating' = FALSE
  /\ control' = control + 1
  /\ UNCHANGED <<row, attempts, hub, call, failures, worker>>

-----------------------------------------------------------------------------
(* The worker: record_submission up to the dispatch, reconcile_pull_request *)

Claim(r, j) ==
  /\ exec[r].pc = "idle" /\ IsClaimable(jobs[j])
  /\ jobs' = [jobs EXCEPT ![j] = Taken(@, r)]
  /\ exec' = [exec EXCEPT ![r] = [Idle EXCEPT !.job = j, !.pc = "read"]]
  /\ UNCHANGED <<tables, hub, call, failures>>

Finish(r, outcome) ==
  /\ exec' = [exec EXCEPT ![r] = Idle]
  /\ jobs' = [jobs EXCEPT ![exec[r].job] = Reported(@, r, outcome)]

HandlerFails(r) ==
  /\ exec[r].pc # "idle" /\ Finish(r, "retry")
  /\ UNCHANGED <<tables, hub, call, failures>>

At(r, kind, pc) == exec[r].pc = pc /\ exec[r].job[1] = kind

\* Mutant: pushes are ignored until the publication is stored.
IsPublicationEarly(sha) == row.publication = sha \/ row.publication = NoSha
IsPublication(sha) == row.publication = sha

ReadForPush(r) ==
  /\ At(r, "push", "read")
  /\ IF IsPublication(exec[r].job[2])
     THEN Finish(r, "ok")
     ELSE /\ exec' = [exec EXCEPT ![r].pc = "record", ![r].manifest = row.manifest]
          /\ UNCHANGED jobs
  /\ UNCHANGED <<tables, hub, call, failures>>

RecordAttempt(r) ==
  /\ At(r, "push", "record")
  /\ attempts' = attempts \cup {exec[r].job[2]}
  /\ exec' = [exec EXCEPT ![r].pc = "submit"]
  /\ UNCHANGED <<row, control, rotating, hub, call, failures, jobs>>

Submit(r) ==
  /\ At(r, "push", "submit")
  /\ row' = [row EXCEPT !.status = "submitted"]
  /\ exec' = [exec EXCEPT ![r].pc = "dispatch"]
  /\ UNCHANGED <<attempts, control, rotating, hub, call, failures, jobs>>

\* "Assignment evaluator manifest differs from setup state"
DispatchOrRefuse(r) ==
  /\ At(r, "push", "dispatch")
  /\ Finish(r, IF exec[r].manifest = control THEN "ok" ELSE "refused")
  /\ UNCHANGED <<tables, hub, call, failures>>

ReadForPull(r) ==
  /\ At(r, "pull", "read")
  /\ exec' = [exec EXCEPT ![r].pc = "write", ![r].status = row.status]
  /\ UNCHANGED <<tables, hub, call, failures, jobs>>

WritePull(r) ==
  /\ At(r, "pull", "write")
  /\ \E closed \in {"completed", "cancelled"} :
       row' = [row EXCEPT !.pull = TRUE,
                          !.status = IF exec[r].job = PullJob("closed") THEN closed
                                     ELSE exec[r].status]
  /\ Finish(r, "ok")
  /\ UNCHANGED <<attempts, control, rotating, hub, call, failures>>

-----------------------------------------------------------------------------
CallSteps(c) ==
  \/ LookForActive(c) \/ Preflight(c) \/ Create(c) \/ BindManifest(c)
  \/ FindBranch(c) \/ FindPull(c) \/ PushBranch(c) \/ OpenPull(c) \/ Store(c)

HandlerStep(r) ==
  \/ ReadForPush(r) \/ RecordAttempt(r) \/ Submit(r) \/ DispatchOrRefuse(r)
  \/ ReadForPull(r) \/ WritePull(r)

Next ==
  \/ \E c \in Caller : CallSteps(c) \/ CallFails(c)
  \/ \E sha \in Commit : LearnerPushes(sha)
  \/ LearnerCloses \/ FindNoAssignment \/ Rotate
  \/ \E j \in Job : Deliver(j)
  \/ \E r \in Runner :
       HandlerStep(r) \/ HandlerFails(r) \/ \E j \in Job : Claim(r, j)

Spec == Init /\ [][Next]_vars

-----------------------------------------------------------------------------
(* The operator repeats `next` until it succeeds, and GitHub answers after at *)
(* most MaxFailures failures. Nothing is assumed of the worker, the learner    *)
(* or the setup.                                                               *)
Fairness == \A c \in Caller : WF_vars(CallSteps(c))
FairSpec == Spec /\ Fairness

-----------------------------------------------------------------------------
(* Properties *)

(* Calls that fail with their POST in effect, die, and are repeated, also    *)
(* after the learner closed the pull request, open one pull request.         *)
OnePullPerAssignment == pulls <= 1

(* Whatever kit a setup installs between the tries of a publication, the     *)
(* manifest on the branch is the stored one, against which every dispatch    *)
(* and every result is checked.                                              *)
BranchCarriesStoredManifest ==
  branch.head # NoSha => row.manifest = branch.manifest

(* A handled push has its attempt, however publication and its own webhooks  *)
(* interleave, unless its commit was taken for the tutor's publication.      *)
HandledPushIsRecorded ==
  \A sha \in Sha :
    jobs[PushJob(sha)].status = "completed" => sha \in attempts \cup {row.publication}

(* A publication that stopped anywhere is not stuck: repeated calls get the  *)
(* pull request stored, or a webhook moves the assignment on.                *)
PublicationSettles == IsResumable ~> ~IsResumable

(* docs/troubleshooting.md:108: "If GitHub fails after branch publication    *)
(* has begun, the tutor retains the validated assignment" and next resumes   *)
(* the same branch and pull request. So when no call is at work and there is *)
(* no pull request yet, the assignment is resumable.                         *)
ResumableUntilPull ==
  row.status # "absent" /\ pulls = 0 /\ (\A c \in Caller : call[c].pc = "idle")
    => IsResumable

Executing == [j \in Job |-> {r \in Runner : exec[r].pc # "idle" /\ exec[r].job = j}]

(* As in ReviewPipeline, with leases that do not lapse under their holder.   *)
Contract == INSTANCE HandlerExecutions WITH
  Key <- Job, Stalls <- FALSE, rows <- jobs,
  executing <- Executing

RunsUnderContract == Contract!Spec
=============================================================================
