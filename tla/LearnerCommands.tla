---------------------------- MODULE LearnerCommands ----------------------------
(***************************************************************************)
(* The learner's /tutor commands on an assignment's pull request: the      *)
(* handlers process_learner_command and review_appeal of orchestrator.py   *)
(* with next_hint (assignments.py), create_appeal and resolve_appeal       *)
(* (evaluation.py), and the hint command of cli.py, which reveals hints of *)
(* the same assignment from another process.                               *)
(*                                                                         *)
(* As in ReviewPipeline, every step between two transactions or GitHub     *)
(* calls is an action ("pc"), and executions fail, crash, are retried and  *)
(* lose their lease. The commands "pause" and "resume" set a flag that     *)
(* nothing here reads, "status" and unknown ones only post, and the checks *)
(* of the sender only refuse. An appeal's uuid is the command and the try  *)
(* that drew it.                                                           *)
(***************************************************************************)
EXTENDS HandlerJobs, FiniteSets

CONSTANTS
  Hint, Appeal,  \* deliveries of the two commands
  Levels,        \* authored hints (five in the code)
  Terminal       \* whether the CLI is used beside the comments

Command == Hint \cup Appeal
AppealId == Appeal \X (1..MaxTries)
Job == {<<"command", c>> : c \in Command} \cup {<<"review", a>> : a \in AppealId}
NoJob == <<"none">>
Level == 1..Levels

ASSUME CommandsAssumption ==
  /\ Levels \in Nat \ {0} /\ Terminal \in BOOLEAN
  /\ Hint \cap Appeal = {}

VARIABLES
  hints,      \* levels stored in the hints table
  reviewed,   \* whether the assignment has an evaluation to appeal
  appeals,    \* [AppealId -> AppealRow]
  promised,   \* appeal commands answered with "an independent review is queued"
  jobs, exec,
  terminal    \* [pc, level], one use of the CLI at a time

tables == <<hints, appeals>>
vars == <<hints, reviewed, appeals, promised, jobs, exec, terminal>>

AppealRow == [status : {"absent", "pending", "resolved"},
              results : Nat,    \* qualitative evaluations that supersede its original
              posted : Nat]     \* comments with such a result
NoAppeal == [status |-> "absent", results |-> 0, posted |-> 0]

Step == {"idle", "read", "store", "show", "create", "enqueue", "promise",
         "nothing", "grade", "post"}
Execution == [job : Job \cup {NoJob}, try : 0..MaxTries, pc : Step, level : Level]
Idle == [job |-> NoJob, try |-> 0, pc |-> "idle", level |-> 1]

TypeOK ==
  /\ hints \subseteq Level
  /\ reviewed \in BOOLEAN
  /\ appeals \in [AppealId -> AppealRow] /\ promised \subseteq Appeal
  /\ jobs \in [Job -> JobRow] /\ exec \in [Runner -> Execution]
  /\ terminal \in [pc : {"idle", "store"}, level : Level]

Init ==
  /\ hints = {} /\ reviewed = FALSE
  /\ appeals = [a \in AppealId |-> NoAppeal] /\ promised = {}
  /\ jobs = [j \in Job |-> Unfiled] /\ exec = [r \in Runner |-> Idle]
  /\ terminal = [pc |-> "idle", level |-> 1]

-----------------------------------------------------------------------------
(* Deliveries and executions *)

Comment(c) ==
  /\ jobs[<<"command", c>>].status = "absent"
  /\ jobs' = [jobs EXCEPT ![<<"command", c>>] = Filed(@)]
  /\ UNCHANGED <<tables, reviewed, promised, exec, terminal>>

\* The first evaluation of the assignment is stored: Persist of ReviewPipeline.
FirstReview ==
  /\ ~reviewed /\ reviewed' = TRUE
  /\ UNCHANGED <<tables, promised, jobs, exec, terminal>>

Claim(r, j) ==
  /\ exec[r].pc = "idle" /\ IsClaimable(jobs[j])
  /\ jobs' = [jobs EXCEPT ![j] = Taken(@, r)]
  /\ exec' = [exec EXCEPT ![r] = [Idle EXCEPT !.job = j, !.pc = "read",
                                              !.try = jobs[j].tries + 1]]
  /\ UNCHANGED <<tables, reviewed, promised, terminal>>

At(r, kind, pc) == exec[r].pc = pc /\ exec[r].job[1] = kind
Commands(r, kind, pc) == At(r, "command", pc) /\ exec[r].job[2] \in kind

GoTo(r, pc) == exec' = [exec EXCEPT ![r].pc = pc] /\ UNCHANGED jobs
Finish(r, outcome) ==
  /\ exec' = [exec EXCEPT ![r] = Idle]
  /\ jobs' = [jobs EXCEPT ![exec[r].job] = Reported(@, r, outcome)]

\* A POST took effect: its response arrives and the handler goes on, or not.
Posted(r) == Finish(r, "ok") \/ Finish(r, "retry")

Remote == {"show", "promise", "nothing", "grade", "post"}
HandlerFails(r) ==
  /\ exec[r].pc # "idle"
  /\ \/ exec[r].pc \in Remote /\ Finish(r, "retry")
     \/ Finish(r, "refused")
  /\ UNCHANGED <<tables, reviewed, promised, terminal>>

Crash(r) ==
  /\ exec[r].pc # "idle" /\ Finish(r, "retry")
  /\ UNCHANGED <<tables, reviewed, promised, terminal>>

LeaseLapses(r) ==
  /\ exec[r].pc # "idle" /\ jobs[exec[r].job].holder = r
  /\ jobs' = [jobs EXCEPT ![exec[r].job] = Lapsed(@)]
  /\ UNCHANGED <<tables, reviewed, promised, exec, terminal>>

-----------------------------------------------------------------------------
(* /tutor hint and the hint command of the CLI: next_hint *)

\* Mutant: off by one.
NextLevelSkips(stored) ==
  IF Cardinality(stored) + 2 < Levels THEN Cardinality(stored) + 2 ELSE Levels
\* min(len(existing) + 1, 5)
NextLevel(stored) ==
  IF Cardinality(stored) < Levels THEN Cardinality(stored) + 1 ELSE Levels

CountHints(r) ==
  /\ Commands(r, Hint, "read")
  /\ exec' = [exec EXCEPT ![r].pc = "store", ![r].level = NextLevel(hints)]
  /\ UNCHANGED <<tables, reviewed, promised, jobs, terminal>>

\* INSERT OR IGNORE, UNIQUE (assignment_id, learner_id, level)
StoreHint(r) ==
  /\ Commands(r, Hint, "store")
  /\ hints' = hints \cup {exec[r].level}
  /\ GoTo(r, "show")
  /\ UNCHANGED <<appeals, reviewed, promised, terminal>>

ShowHint(r) ==
  /\ Commands(r, Hint, "show")
  /\ Posted(r)
  /\ UNCHANGED <<tables, reviewed, promised, terminal>>

TerminalCounts ==
  /\ Terminal /\ terminal.pc = "idle"
  /\ terminal' = [pc |-> "store", level |-> NextLevel(hints)]
  /\ UNCHANGED <<tables, reviewed, promised, jobs, exec>>

TerminalStores ==
  /\ terminal.pc = "store"
  /\ hints' = hints \cup {terminal.level}
  /\ terminal' = [terminal EXCEPT !.pc = "idle"]
  /\ UNCHANGED <<appeals, reviewed, promised, jobs, exec>>

-----------------------------------------------------------------------------
(* /tutor appeal: create_appeal, then the job of its review *)

AppealOf(r) == <<exec[r].job[2], exec[r].try>>

FindLatest(r) ==
  /\ Commands(r, Appeal, "read")
  /\ GoTo(r, IF reviewed THEN "create" ELSE "nothing")
  /\ UNCHANGED <<tables, reviewed, promised, terminal>>

\* "There is no evaluation to appeal yet."
RefuseAppeal(r) ==
  /\ Commands(r, Appeal, "nothing")
  /\ Posted(r)
  /\ UNCHANGED <<tables, reviewed, promised, terminal>>

CreateAppeal(r) ==
  /\ Commands(r, Appeal, "create")
  /\ appeals' = [appeals EXCEPT ![AppealOf(r)].status = "pending"]
  /\ GoTo(r, "enqueue")
  /\ UNCHANGED <<hints, reviewed, promised, terminal>>

\* Mutant: only the first try of a command files the review.
ReviewFiledOnce(a) == IF a[2] = 1 THEN Filed(jobs[<<"review", a>>])
                      ELSE jobs[<<"review", a>>]
ReviewFiled(a) == Filed(jobs[<<"review", a>>])

EnqueueReview(r) ==
  /\ Commands(r, Appeal, "enqueue")
  /\ jobs' = [jobs EXCEPT ![<<"review", AppealOf(r)>>] = ReviewFiled(AppealOf(r))]
  /\ exec' = [exec EXCEPT ![r].pc = "promise"]
  /\ UNCHANGED <<tables, reviewed, promised, terminal>>

PromiseReview(r) ==
  /\ Commands(r, Appeal, "promise")
  /\ promised' = promised \cup {exec[r].job[2]}
  /\ Posted(r)
  /\ UNCHANGED <<tables, reviewed, terminal>>

-----------------------------------------------------------------------------
(* review_appeal: resolve_appeal, then the comment with its result *)

\* Mutant: the appeal's status is not compared.
IsPendingAlways(a) == TRUE
\* WHERE ap.id=? AND ap.status='pending'
IsPending(a) == appeals[a].status = "pending"

ReadAppeal(r) ==
  /\ At(r, "review", "read")
  /\ \/ IsPending(exec[r].job[2]) /\ GoTo(r, "grade")
     \/ ~IsPending(exec[r].job[2]) /\ Finish(r, "refused")
  /\ UNCHANGED <<tables, reviewed, promised, terminal>>

Resolved(appeal) == [appeal EXCEPT !.status = "resolved", !.results = @ + 1]

\* The grader answers, then one transaction that does not look at the status again.
ResolveAppeal(r) ==
  /\ At(r, "review", "grade")
  /\ appeals' = [appeals EXCEPT ![exec[r].job[2]] = Resolved(@)]
  /\ GoTo(r, "post")
  /\ UNCHANGED <<hints, reviewed, promised, terminal>>

PostResult(r) ==
  /\ At(r, "review", "post")
  /\ appeals' = [appeals EXCEPT ![exec[r].job[2]].posted = @ + 1]
  /\ Posted(r)
  /\ UNCHANGED <<hints, reviewed, promised, terminal>>

-----------------------------------------------------------------------------
HandlerStep(r) ==
  \/ CountHints(r) \/ StoreHint(r) \/ ShowHint(r)
  \/ FindLatest(r) \/ RefuseAppeal(r)
  \/ CreateAppeal(r) \/ EnqueueReview(r) \/ PromiseReview(r)
  \/ ReadAppeal(r) \/ ResolveAppeal(r) \/ PostResult(r)

Next ==
  \/ \E c \in Command : Comment(c)
  \/ FirstReview \/ TerminalCounts \/ TerminalStores
  \/ \E r \in Runner :
       \/ \E j \in Job : Claim(r, j)
       \/ HandlerStep(r) \/ HandlerFails(r) \/ Crash(r) \/ LeaseLapses(r)

Spec == Init /\ [][Next]_vars

\* The same while every renewal thread beats on time.
CalmSpec == Init /\ [][Next /\ \A r \in Runner : ~LeaseLapses(r)]_vars

-----------------------------------------------------------------------------
(* Properties *)

(* next_hint reads the stored levels and inserts in separate transactions:   *)
(* whatever comments, retries and the terminal interleave, the stored levels *)
(* have no gap, and a comment only reveals a hint whose use is stored.       *)
HintsAreProgressive ==
  /\ \A l \in hints : \A lower \in 1..l : lower \in hints
  /\ \A r \in Runner : Commands(r, Hint, "show") => exec[r].level \in hints

(* While no job has two executions at once, an appeal gets one result, it is *)
(* posted at most once, and never before the appeal is resolved.             *)
AppealDecidedOnce ==
  \A a \in AppealId :
    /\ appeals[a].results = IF appeals[a].status = "resolved" THEN 1 ELSE 0
    /\ appeals[a].posted <= appeals[a].results

(* The comment that answers an appeal promises that a review is queued. It   *)
(* is, for one of the appeals the command filed, although a crash may leave  *)
(* others without a job; and a job that completes has resolved its appeal    *)
(* and posted the result.                                                    *)
PromisedReviewIsQueued ==
  /\ \A c \in promised :
       \E n \in 1..MaxTries : jobs[<<"review", <<c, n>>>>].status # "absent"
  /\ \A a \in AppealId :
       jobs[<<"review", a>>].status = "completed" =>
         appeals[a].status = "resolved" /\ appeals[a].posted = 1

Executing == [j \in Job |-> {r \in Runner : exec[r].pc # "idle" /\ exec[r].job = j}]

(* As in ReviewPipeline, with leases that may lapse under their holder; a     *)
(* handler also files a job here.                                            *)
Contract == INSTANCE HandlerExecutions WITH
  Key <- Job, Stalls <- TRUE, rows <- jobs,
  executing <- Executing

RunsUnderContract == Contract!Spec
=============================================================================
