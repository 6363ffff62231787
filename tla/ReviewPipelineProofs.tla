------------------------ MODULE ReviewPipelineProofs ------------------------
(***************************************************************************)
(* TLAPS proofs about ReviewPipeline, for any commits, stages, pull request *)
(* actions, runners and tries, with or without leases that lapse.          *)
(***************************************************************************)
EXTENDS ReviewPipeline, TLAPS

(* Which steps each kind of job takes, and that those which store or show a *)
(* review have its verdict.                                                *)
Reviewing == {"persist", "review", "post", "posted", "apply"}
Fits(e) ==
  \/ e.job = NoJob /\ e.pc = "idle"
  \/ \E c \in Commit :
       /\ e.job = PushJob(c)
       /\ e.pc \in {"read", "record", "submit", "control", "dispatch", "mark"}
  \/ \E run \in Run :
       /\ e.job = ResultJob(run)
       /\ e.pc \in {"read", "grade", "announce", "comment"} \cup Reviewing
       /\ e.pc \in Reviewing => e.verdict \in Verdict
  \/ \E action \in PullAction :
       e.job = PullJob(action) /\ e.pc \in {"read", "write"}

(* A job that may be claimed has a try left, and one not filed used none.  *)
RowFits(row) ==
  /\ row.status = "absent" => row.tries = 0
  /\ IsClaimable(row) => row.tries < MaxTries

TypeInv ==
  /\ TypeOK
  /\ \A r \in Runner : Fits(exec[r])
  /\ \A j \in Job : RowFits(jobs[j])

-----------------------------------------------------------------------------
(* Rows of the job table *)

LEMMA RowFiled ==
  ASSUME NEW row \in JobRow, RowFits(row)
  PROVE  Filed(row) \in JobRow /\ Filed(row).tries = row.tries /\ RowFits(Filed(row))
BY HandlerJobsAssumption DEF Filed, JobRow, RowFits, IsClaimable

LEMMA RowTaken ==
  ASSUME NEW row \in JobRow, IsClaimable(row), RowFits(row), NEW r \in Runner
  PROVE  /\ Taken(row, r) \in JobRow /\ Taken(row, r).tries = row.tries + 1
         /\ RowFits(Taken(row, r)) /\ Taken(row, r).holder = r
<1>1. row.tries + 1 \in 0..MaxTries
  BY HandlerJobsAssumption DEF JobRow, RowFits
<1> QED
  BY <1>1, HandlerJobsAssumption DEF Taken, JobRow, RowFits, IsClaimable

LEMMA RowLapsed ==
  ASSUME NEW row \in JobRow
  PROVE  Lapsed(row) \in JobRow /\ Lapsed(row).tries = row.tries /\ RowFits(Lapsed(row))
<1> DEFINE st == IF row.tries = MaxTries THEN "dead_letter" ELSE "open"
           out == [row EXCEPT !.holder = NoRunner, !.status = st]
<1>1. st \in {"dead_letter", "open"} /\ (st = "open" => row.tries # MaxTries)
  OBVIOUS
<1>2. row.tries \in 0..MaxTries
  BY DEF JobRow
<1> HIDE DEF st
<1>3. out \in JobRow /\ out.tries = row.tries /\ out.status = st
  BY <1>1 DEF JobRow
<1>4. Lapsed(row) = out
  BY DEF Lapsed, st
<1> HIDE DEF out
<1> QED
  BY <1>1, <1>2, <1>3, <1>4, HandlerJobsAssumption DEF RowFits, IsClaimable

Outcome == {"ok", "retry", "refused"}
LEMMA RowReported ==
  ASSUME NEW row \in JobRow, RowFits(row), NEW r \in Runner, NEW outcome \in Outcome
  PROVE  /\ Reported(row, r, outcome) \in JobRow
         /\ Reported(row, r, outcome).tries = row.tries
         /\ RowFits(Reported(row, r, outcome))
<1>1. CASE row.holder # r
  BY <1>1 DEF Reported
<1>2. CASE row.holder = r /\ outcome = "ok"
  <2>1. Reported(row, r, outcome) = [row EXCEPT !.holder = NoRunner, !.status = "completed"]
    BY <1>2 DEF Reported
  <2> QED
    BY <2>1 DEF JobRow, RowFits, IsClaimable
<1>3. CASE row.holder = r /\ outcome = "retry"
  <2>1. Reported(row, r, outcome) = Lapsed(row)
    BY <1>3 DEF Reported
  <2> QED
    BY <2>1, RowLapsed
<1>4. CASE row.holder = r /\ outcome = "refused"
  <2>1. Reported(row, r, outcome) = [row EXCEPT !.holder = NoRunner, !.status = "dead_letter"]
    BY <1>4 DEF Reported
  <2> QED
    BY <2>1 DEF JobRow, RowFits, IsClaimable
<1> QED
  BY <1>1, <1>2, <1>3, <1>4 DEF Outcome

-----------------------------------------------------------------------------
(* Executions *)

LEMMA JobOfExecution ==
  ASSUME TypeInv, NEW r \in Runner, exec[r].pc # "idle"
  PROVE  exec[r].job \in Job
BY DEF TypeInv, Fits, Job, NoJob

LEMMA PushExecution ==
  ASSUME TypeInv, NEW r \in Runner, exec[r].job[1] = "push"
  PROVE  \E c \in Commit :
           /\ exec[r].job = PushJob(c) /\ CommitOf(r) = c
           /\ AttemptOf(r) = <<c, exec[r].stage>> /\ AttemptOf(r) \in Attempt
<1>1. PICK c \in Commit : exec[r].job = PushJob(c)
  BY DEF TypeInv, Fits, NoJob, PushJob, ResultJob, PullJob
<1>2. exec[r].stage \in Stage
  BY DEF TypeInv, TypeOK, Execution
<1>3. CommitOf(r) = c
  BY <1>1 DEF CommitOf, PushJob
<1> QED
  BY <1>1, <1>2, <1>3 DEF AttemptOf, Attempt

LEMMA ResultExecution ==
  ASSUME TypeInv, NEW r \in Runner, exec[r].job[1] = "result"
  PROVE  \E run \in Run :
           /\ exec[r].job = ResultJob(run) /\ CommitOf(r) = run[1][1]
           /\ run[1][1] \in Commit
           /\ AttemptOf(r) = <<run[1][1], exec[r].stage>> /\ AttemptOf(r) \in Attempt
<1>1. PICK run \in Run : exec[r].job = ResultJob(run)
  BY DEF TypeInv, Fits, NoJob, PushJob, ResultJob, PullJob
<1>2. exec[r].stage \in Stage /\ run[1][1] \in Commit
  BY DEF TypeInv, TypeOK, Execution, Run, Attempt
<1>3. CommitOf(r) = run[1][1]
  BY <1>1 DEF CommitOf, ResultJob
<1> QED
  BY <1>1, <1>2, <1>3 DEF AttemptOf, Attempt

LEMMA ReviewingExecution ==
  ASSUME TypeInv, NEW r \in Runner, exec[r].job[1] = "result", exec[r].pc \in Reviewing
  PROVE  /\ exec[r].verdict \in Verdict
         /\ \A pc \in Reviewing : Fits([exec[r] EXCEPT !.pc = pc])
<1>1. PICK run \in Run : exec[r].job = ResultJob(run)
  BY ResultExecution
<1>2. Fits(exec[r]) /\ exec[r] \in Execution
  BY DEF TypeInv, TypeOK
<1>3. exec[r].verdict \in Verdict
  BY <1>1, <1>2 DEF Fits, NoJob, PushJob, PullJob, ResultJob
<1>4. ASSUME NEW pc \in Reviewing PROVE Fits([exec[r] EXCEPT !.pc = pc])
  <2> DEFINE e == [exec[r] EXCEPT !.pc = pc]
  <2>1. e.pc = pc /\ e.job = ResultJob(run) /\ e.verdict \in Verdict
    BY <1>1, <1>2, <1>3 DEF Execution
  <2> HIDE DEF e
  <2>2. Fits(e)
    BY <2>1 DEF Fits
  <2> QED
    BY <2>2 DEF e
<1> QED
  BY <1>3, <1>4

(* A step that moves one execution and leaves the job table alone.          *)
LEMMA ExecutionMoves ==
  ASSUME exec \in [Runner -> Execution], \A q \in Runner : Fits(exec[q]),
         NEW r \in Runner, NEW e \in Execution, Fits(e),
         exec' = [exec EXCEPT ![r] = e]
  PROVE  /\ exec' \in [Runner -> Execution] /\ \A q \in Runner : Fits(exec'[q])
         /\ exec'[r] = e /\ \A q \in Runner : q # r => exec'[q] = exec[q]
OBVIOUS

LEMMA IdleExecution == Idle \in Execution /\ Fits(Idle)
BY PipelineAssumption DEF Idle, Execution, Step, Stage, Status, Active, NoVerdict, Fits

Table(J) == J \in [Job -> JobRow] /\ \A j \in Job : RowFits(J[j])
Executions(E) == E \in [Runner -> Execution] /\ \A r \in Runner : Fits(E[r])

LEMMA GoToStep ==
  ASSUME TypeInv, NEW r \in Runner, NEW pc \in Step, GoTo(r, pc),
         Fits([exec[r] EXCEPT !.pc = pc])
  PROVE  /\ Table(jobs') /\ Executions(exec') /\ jobs' = jobs
         /\ exec'[r].pc = pc /\ exec'[r].job = exec[r].job
         /\ exec'[r].stage = exec[r].stage /\ exec'[r].verdict = exec[r].verdict
         /\ exec'[r].status = exec[r].status
         /\ \A q \in Runner : q # r => exec'[q] = exec[q]
<1> DEFINE e == [exec[r] EXCEPT !.pc = pc]
<1>1. /\ e \in Execution /\ e.pc = pc /\ e.job = exec[r].job
      /\ e.stage = exec[r].stage /\ e.verdict = exec[r].verdict /\ e.status = exec[r].status
  BY DEF TypeInv, TypeOK, Execution
<1>2. exec' = [exec EXCEPT ![r] = e] /\ jobs' = jobs /\ Fits(e)
  BY DEF GoTo
<1> HIDE DEF e
<1>3. exec \in [Runner -> Execution] /\ (\A q \in Runner : Fits(exec[q])) /\ Table(jobs)
  BY DEF TypeInv, TypeOK, Table
<1>4. /\ Executions(exec') /\ exec'[r] = e
      /\ \A q \in Runner : q # r => exec'[q] = exec[q]
  BY <1>1, <1>2, <1>3, ExecutionMoves DEF Executions
<1> QED
  BY <1>1, <1>2, <1>3, <1>4 DEF Table

LEMMA FinishStep ==
  ASSUME TypeInv, NEW r \in Runner, NEW outcome \in Outcome, Finish(r, outcome),
         exec[r].pc # "idle"
  PROVE  /\ Table(jobs') /\ Executions(exec')
         /\ exec'[r] = Idle /\ \A q \in Runner : q # r => exec'[q] = exec[q]
         /\ \A j \in Job : jobs'[j].tries = jobs[j].tries
<1> DEFINE j == exec[r].job
           row == Reported(jobs[j], r, outcome)
<1>1. exec' = [exec EXCEPT ![r] = Idle]
  BY DEF Finish
<1>2. exec \in [Runner -> Execution] /\ (\A q \in Runner : Fits(exec[q]))
  BY DEF TypeInv, TypeOK
<1>3. /\ Executions(exec') /\ exec'[r] = Idle
      /\ \A q \in Runner : q # r => exec'[q] = exec[q]
  BY <1>1, <1>2, ExecutionMoves, IdleExecution DEF Executions
<1>4. j \in Job /\ jobs[j] \in JobRow /\ RowFits(jobs[j]) /\ jobs \in [Job -> JobRow]
  BY JobOfExecution DEF TypeInv, TypeOK
<1>5. row \in JobRow /\ row.tries = jobs[j].tries /\ RowFits(row)
  BY <1>4, RowReported
<1>6. jobs' = [jobs EXCEPT ![j] = row]
  BY DEF Finish
<1>7. \A k \in Job : RowFits(jobs[k])
  BY DEF TypeInv
<1> HIDE DEF j, row
<1>8. Table(jobs') /\ \A k \in Job : jobs'[k].tries = jobs[k].tries
  BY <1>4, <1>5, <1>6, <1>7 DEF Table
<1> QED
  BY <1>3, <1>8

-----------------------------------------------------------------------------
(* Types *)

LEMMA TypeInvInit == Init => TypeInv
<1> SUFFICES ASSUME Init PROVE TypeInv
  OBVIOUS
<1>1. Unfiled \in JobRow /\ RowFits(Unfiled)
  BY HandlerJobsAssumption DEF Unfiled, JobRow, RowFits, IsClaimable
<1>2. Table(jobs)
  BY <1>1 DEF Init, Table
<1>3. Executions(exec)
  BY IdleExecution DEF Init, Executions
<1>4. NoAttempt \in AttemptRow
  BY HandlerJobsAssumption DEF NoAttempt, AttemptRow
<1>5. attempts \in [Attempt -> AttemptRow]
  BY <1>4 DEF Init
<1>6. assignment \in [status : Status, stage : Stage]
  BY PipelineAssumption DEF Init, Status, Active, Stage
<1>7. runs \in [Run -> 0..MaxTries] /\ reviews \in [Attempt -> Nat] /\ comments \in [Stage -> Nat]
  BY HandlerJobsAssumption DEF Init
<1> QED
  BY <1>2, <1>3, <1>5, <1>6, <1>7 DEF Init, TypeInv, TypeOK, Table, Executions

(* A step that leaves the database's rows and GitHub alone.                *)
LEMMA OnlyExecutes ==
  ASSUME TypeInv, UNCHANGED <<rows, hub>>, Table(jobs'), Executions(exec')
  PROVE  TypeInv'
BY DEF TypeInv, TypeOK, rows, hub, Table, Executions

LEMMA FileType ==
  ASSUME TypeInv, NEW j \in Job, File(j)
  PROVE  /\ TypeInv' /\ UNCHANGED <<rows, hub, exec>>
         /\ \A k \in Job : jobs'[k].tries = jobs[k].tries
<1>1. /\ jobs[j] \in JobRow /\ RowFits(jobs[j]) /\ jobs \in [Job -> JobRow]
      /\ \A k \in Job : RowFits(jobs[k])
  BY DEF TypeInv, TypeOK
<1>2. PICK row : row = Filed(jobs[j])
  OBVIOUS
<1>3. row \in JobRow /\ row.tries = jobs[j].tries /\ RowFits(row)
  BY <1>1, <1>2, RowFiled
<1>4. jobs' = [jobs EXCEPT ![j] = row]
  BY <1>2 DEF File
<1>5. Table(jobs') /\ \A k \in Job : jobs'[k].tries = jobs[k].tries
  BY <1>1, <1>3, <1>4 DEF Table
<1>6. UNCHANGED <<rows, hub, exec>>
  BY DEF File
<1>7. Executions(exec')
  BY <1>6 DEF TypeInv, TypeOK, Executions
<1> QED
  BY <1>5, <1>6, <1>7, OnlyExecutes

LEMMA ClaimType ==
  ASSUME TypeInv, NEW r \in Runner, NEW j \in Job, Claim(r, j)
  PROVE  /\ TypeInv' /\ UNCHANGED <<rows, hub>>
         /\ exec[r].pc = "idle" /\ exec'[r].job = j /\ exec'[r].pc = "read"
         /\ exec'[r].stage = 1 /\ exec'[r].verdict = NoVerdict
         /\ \A q \in Runner : q # r => exec'[q] = exec[q]
         /\ jobs'[j].tries = jobs[j].tries + 1
         /\ \A k \in Job : k # j => jobs'[k] = jobs[k]
<1>1. /\ jobs[j] \in JobRow /\ RowFits(jobs[j]) /\ jobs \in [Job -> JobRow]
      /\ \A k \in Job : RowFits(jobs[k])
  BY DEF TypeInv, TypeOK
<1>2. PICK row : row = Taken(jobs[j], r)
  OBVIOUS
<1>3. row \in JobRow /\ row.tries = jobs[j].tries + 1 /\ RowFits(row)
  BY <1>1, <1>2, RowTaken DEF Claim
<1>4. jobs' = [jobs EXCEPT ![j] = row]
  BY <1>2 DEF Claim
<1>5. Table(jobs') /\ jobs'[j] = row /\ \A k \in Job : k # j => jobs'[k] = jobs[k]
  BY <1>1, <1>3, <1>4 DEF Table
<1> DEFINE e == [Idle EXCEPT !.job = j, !.pc = "read"]
<1>6. /\ e.job = j /\ e.pc = "read" /\ e.stage = 1 /\ e.verdict = NoVerdict /\ e \in Execution
  BY IdleExecution DEF Idle, Execution, Step
<1>7. Fits(e)
  BY <1>6 DEF Fits, Job, Reviewing
<1>8. exec' = [exec EXCEPT ![r] = e] /\ exec[r].pc = "idle" /\ UNCHANGED <<rows, hub>>
  BY DEF Claim
<1> HIDE DEF e
<1>9. exec \in [Runner -> Execution] /\ (\A q \in Runner : Fits(exec[q]))
  BY DEF TypeInv, TypeOK
<1>10. /\ Executions(exec') /\ exec'[r] = e
       /\ \A q \in Runner : q # r => exec'[q] = exec[q]
  BY <1>6, <1>7, <1>8, <1>9, ExecutionMoves DEF Executions
<1> QED
  BY <1>3, <1>5, <1>6, <1>8, <1>10, OnlyExecutes

LEMMA FailureType ==
  ASSUME TypeInv, NEW r \in Runner, HandlerFails(r) \/ Crash(r)
  PROVE  /\ TypeInv' /\ UNCHANGED <<rows, hub>>
         /\ exec'[r] = Idle /\ \A q \in Runner : q # r => exec'[q] = exec[q]
         /\ \A j \in Job : jobs'[j].tries = jobs[j].tries
<1>1. /\ exec[r].pc # "idle" /\ UNCHANGED <<rows, hub>>
      /\ \E outcome \in Outcome : Finish(r, outcome)
  BY DEF HandlerFails, Crash, Outcome
<1>2. PICK outcome \in Outcome : Finish(r, outcome)
  BY <1>1
<1>3. /\ Table(jobs') /\ Executions(exec')
      /\ exec'[r] = Idle /\ \A q \in Runner : q # r => exec'[q] = exec[q]
      /\ \A j \in Job : jobs'[j].tries = jobs[j].tries
  BY <1>1, <1>2, FinishStep
<1> QED
  BY <1>1, <1>3, OnlyExecutes

LEMMA LapseType ==
  ASSUME TypeInv, NEW r \in Runner, LeaseLapses(r)
  PROVE  /\ TypeInv' /\ UNCHANGED <<rows, hub, exec>>
         /\ \A j \in Job : jobs'[j].tries = jobs[j].tries
<1> DEFINE j == exec[r].job
<1>1. j \in Job
  BY JobOfExecution DEF LeaseLapses
<1>2. /\ jobs[j] \in JobRow /\ jobs \in [Job -> JobRow] /\ \A k \in Job : RowFits(jobs[k])
  BY <1>1 DEF TypeInv, TypeOK
<1>3. PICK row : row = Lapsed(jobs[j])
  OBVIOUS
<1>4. row \in JobRow /\ row.tries = jobs[j].tries /\ RowFits(row)
  BY <1>2, <1>3, RowLapsed
<1>5. jobs' = [jobs EXCEPT ![j] = row] /\ UNCHANGED <<rows, hub, exec>>
  BY <1>3 DEF LeaseLapses
<1> HIDE DEF j
<1>6. Table(jobs') /\ \A k \in Job : jobs'[k].tries = jobs[k].tries
  BY <1>1, <1>2, <1>4, <1>5 DEF Table
<1>7. Executions(exec')
  BY <1>5 DEF TypeInv, TypeOK, Executions
<1> QED
  BY <1>5, <1>6, <1>7, OnlyExecutes

(* Each step of a handler: it keeps the types, and what it does beside.     *)
Others(r) == \A q \in Runner : q # r => exec'[q] = exec[q]
Moves(r, pc) ==
  /\ exec'[r].pc = pc /\ exec'[r].job = exec[r].job
  /\ exec'[r].stage = exec[r].stage /\ exec'[r].verdict = exec[r].verdict
SameTries == \A j \in Job : jobs'[j].tries = jobs[j].tries

LEMMA AttemptChanges ==
  ASSUME TypeInv, NEW a \in Attempt, NEW row \in AttemptRow,
         attempts' = [attempts EXCEPT ![a] = row]
  PROVE  /\ attempts' \in [Attempt -> AttemptRow] /\ attempts'[a] = row
         /\ \A b \in Attempt : b # a => attempts'[b] = attempts[b]
BY DEF TypeInv, TypeOK

LEMMA ReadForPushType ==
  ASSUME TypeInv, NEW r \in Runner, ReadForPush(r)
  PROVE  /\ TypeInv' /\ UNCHANGED <<rows, hub, jobs>> /\ Others(r)
         /\ exec'[r].pc = "record" /\ exec'[r].job = exec[r].job
         /\ exec[r].job[1] = "push" /\ exec[r].pc = "read"
         /\ exec'[r].stage = assignment.stage /\ exec'[r].verdict = exec[r].verdict
<1> DEFINE e == [exec[r] EXCEPT !.pc = "record", !.stage = assignment.stage]
<1>1. /\ e \in Execution /\ e.pc = "record" /\ e.job = exec[r].job
      /\ e.stage = assignment.stage /\ e.verdict = exec[r].verdict
  BY DEF TypeInv, TypeOK, Execution, Step
<1>2. /\ exec' = [exec EXCEPT ![r] = e] /\ UNCHANGED <<rows, hub, jobs>>
      /\ exec[r].job[1] = "push" /\ exec[r].pc = "read"
  BY DEF ReadForPush, At
<1>3. Fits(e)
  BY <1>1, <1>2, PushExecution DEF Fits
<1> HIDE DEF e
<1>4. exec \in [Runner -> Execution] /\ (\A q \in Runner : Fits(exec[q])) /\ Table(jobs)
  BY DEF TypeInv, TypeOK, Table
<1>5. Executions(exec') /\ exec'[r] = e /\ Others(r)
  BY <1>1, <1>2, <1>3, <1>4, ExecutionMoves DEF Executions, Others
<1>6. Table(jobs')
  BY <1>2, <1>4
<1> QED
  BY <1>1, <1>2, <1>5, <1>6, OnlyExecutes

LEMMA RecordAttemptType ==
  ASSUME TypeInv, NEW r \in Runner, RecordAttempt(r)
  PROVE  /\ TypeInv' /\ UNCHANGED <<assignment, successor, hub, jobs>> /\ Others(r)
         /\ exec[r].job[1] = "push" /\ exec[r].pc = "record" /\ AttemptOf(r) \in Attempt
         /\ Moves(r, "submit")
         /\ \A a \in Attempt : a # AttemptOf(r) => attempts'[a] = attempts[a]
         /\ attempts'[AttemptOf(r)] = [attempts[AttemptOf(r)] EXCEPT !.recorded = TRUE]
<1> DEFINE a == AttemptOf(r)
           row == [attempts[a] EXCEPT !.recorded = TRUE]
<1>1. /\ exec[r].job[1] = "push" /\ exec[r].pc = "record" /\ GoTo(r, "submit")
      /\ attempts' = [attempts EXCEPT ![a] = row]
      /\ UNCHANGED <<assignment, successor, hub>>
  BY DEF RecordAttempt, At
<1>2. PICK c \in Commit : exec[r].job = PushJob(c) /\ a \in Attempt
  BY <1>1, PushExecution
<1> HIDE DEF a
<1>3. row \in AttemptRow
  BY <1>2 DEF TypeInv, TypeOK, AttemptRow
<1> HIDE DEF row
<1>4. /\ attempts' \in [Attempt -> AttemptRow] /\ attempts'[a] = row
      /\ \A b \in Attempt : b # a => attempts'[b] = attempts[b]
  BY <1>1, <1>2, <1>3, AttemptChanges
<1>5. Fits([exec[r] EXCEPT !.pc = "submit"])
  BY <1>2 DEF Fits, TypeInv, TypeOK, Execution
<1>6. /\ Table(jobs') /\ Executions(exec') /\ jobs' = jobs
      /\ Moves(r, "submit")
      /\ Others(r)
  BY <1>1, <1>5, GoToStep DEF Step, Others, Moves
<1>7. TypeInv'
  BY <1>1, <1>4, <1>6 DEF TypeInv, TypeOK, hub, Table, Executions
<1> QED
  BY <1>1, <1>2, <1>4, <1>6, <1>7 DEF a, row

LEMMA SubmitType ==
  ASSUME TypeInv, NEW r \in Runner, Submit(r)
  PROVE  /\ TypeInv' /\ UNCHANGED <<successor, attempts, hub>> /\ Others(r) /\ SameTries
         /\ exec[r].job[1] = "push" /\ exec[r].pc = "submit"
         /\ assignment'.stage = assignment.stage
         /\ exec'[r] = Idle \/ Moves(r, "control")
<1>1. /\ exec[r].job[1] = "push" /\ exec[r].pc = "submit"
      /\ UNCHANGED <<successor, attempts, hub>>
      /\ assignment' = [assignment EXCEPT !.status = "submitted"] \/ UNCHANGED assignment
      /\ GoTo(r, "control") \/ Finish(r, "refused")
  BY DEF Submit, At
<1>2. PICK c \in Commit : exec[r].job = PushJob(c)
  BY <1>1, PushExecution
<1>3. assignment'.stage = assignment.stage /\ assignment' \in [status : Status, stage : Stage]
  BY <1>1 DEF TypeInv, TypeOK, Status, Active
<1>4. Fits([exec[r] EXCEPT !.pc = "control"])
  BY <1>2 DEF Fits, TypeInv, TypeOK, Execution
<1>5. /\ Table(jobs') /\ Executions(exec') /\ Others(r) /\ SameTries
      /\ exec'[r] = Idle \/ Moves(r, "control")
  BY <1>1, <1>4, GoToStep, FinishStep DEF Step, Outcome, Others, SameTries, Moves
<1>6. TypeInv'
  BY <1>1, <1>3, <1>5 DEF TypeInv, TypeOK, hub, Table, Executions
<1> QED
  BY <1>1, <1>3, <1>5, <1>6

LEMMA BindDispatchType ==
  ASSUME TypeInv, NEW r \in Runner, BindDispatch(r)
  PROVE  /\ TypeInv' /\ UNCHANGED <<assignment, successor, hub>> /\ Others(r) /\ SameTries
         /\ exec[r].job[1] = "push" /\ exec[r].pc = "control" /\ AttemptOf(r) \in Attempt
         /\ \/ exec'[r] = Idle /\ UNCHANGED attempts
            \/ /\ Moves(r, "dispatch")
               /\ attempts'[AttemptOf(r)] = Bound(attempts[AttemptOf(r)])
               /\ \A a \in Attempt : a # AttemptOf(r) => attempts'[a] = attempts[a]
<1> DEFINE a == AttemptOf(r)
           row == Bound(attempts[a])
<1>1. /\ exec[r].job[1] = "push" /\ exec[r].pc = "control"
      /\ UNCHANGED <<assignment, successor, hub>>
      /\ \/ GoTo(r, "dispatch") /\ attempts' = [attempts EXCEPT ![a] = row]
         \/ Finish(r, "ok") /\ UNCHANGED attempts
  BY DEF BindDispatch, At
<1>2. PICK c \in Commit : exec[r].job = PushJob(c) /\ a \in Attempt
  BY <1>1, PushExecution
<1> HIDE DEF a
<1>3. row \in AttemptRow
  <2>1. Nonce(attempts[a]) \in 0..MaxTries
    BY <1>2, HandlerJobsAssumption DEF Nonce, TypeInv, TypeOK, AttemptRow
  <2> QED
    BY <1>2, <2>1 DEF Bound, TypeInv, TypeOK, AttemptRow
<1> HIDE DEF row
<1>4. Fits([exec[r] EXCEPT !.pc = "dispatch"])
  BY <1>2 DEF Fits, TypeInv, TypeOK, Execution
<1>5. /\ Table(jobs') /\ Executions(exec') /\ Others(r) /\ SameTries
      /\ \/ exec'[r] = Idle /\ UNCHANGED attempts
         \/ /\ Moves(r, "dispatch")
            /\ attempts' = [attempts EXCEPT ![a] = row]
  BY <1>1, <1>4, GoToStep, FinishStep DEF Step, Outcome, Others, SameTries, Moves
<1>6. /\ attempts' \in [Attempt -> AttemptRow]
      /\ \/ UNCHANGED attempts
         \/ /\ attempts'[a] = row
            /\ \A b \in Attempt : b # a => attempts'[b] = attempts[b]
  BY <1>2, <1>3, <1>5, AttemptChanges DEF TypeInv, TypeOK
<1>7. attempts' = [attempts EXCEPT ![a] = row] =>
        attempts'[a] = row /\ \A b \in Attempt : b # a => attempts'[b] = attempts[b]
  BY <1>2, <1>3, AttemptChanges
<1>8. TypeInv'
  BY <1>1, <1>5, <1>6 DEF TypeInv, TypeOK, hub, Table, Executions
<1> QED
  BY <1>1, <1>2, <1>5, <1>7, <1>8 DEF a, row

LEMMA DispatchType ==
  ASSUME TypeInv, NEW r \in Runner, Dispatch(r)
  PROVE  /\ TypeInv' /\ UNCHANGED <<rows, reviews, comments>> /\ Others(r) /\ SameTries
         /\ exec[r].job[1] = "push" /\ exec[r].pc = "dispatch" /\ AttemptOf(r) \in Attempt
         /\ exec'[r] = Idle \/ Moves(r, "mark")
         /\ runs' = [runs EXCEPT ![NewRun(AttemptOf(r))] = attempts[AttemptOf(r)].nonce]
<1> DEFINE a == AttemptOf(r)
           nonce == attempts[a].nonce
<1>1. /\ exec[r].job[1] = "push" /\ exec[r].pc = "dispatch"
      /\ UNCHANGED <<rows, reviews, comments>>
      /\ runs' = [runs EXCEPT ![NewRun(a)] = nonce]
      /\ GoTo(r, "mark") \/ Finish(r, "retry")
  BY DEF Dispatch, At
<1>2. PICK c \in Commit : exec[r].job = PushJob(c) /\ a \in Attempt
  BY <1>1, PushExecution
<1> HIDE DEF a
<1>3. nonce \in 0..MaxTries
  BY <1>2 DEF TypeInv, TypeOK, AttemptRow
<1> HIDE DEF nonce
<1>4. runs' \in [Run -> 0..MaxTries]
  BY <1>1, <1>3 DEF TypeInv, TypeOK
<1>5. Fits([exec[r] EXCEPT !.pc = "mark"])
  BY <1>2 DEF Fits, TypeInv, TypeOK, Execution
<1>6. /\ Table(jobs') /\ Executions(exec') /\ Others(r) /\ SameTries
      /\ exec'[r] = Idle \/ Moves(r, "mark")
  BY <1>1, <1>5, GoToStep, FinishStep DEF Step, Outcome, Others, SameTries, Moves
<1>7. TypeInv'
  BY <1>1, <1>4, <1>6 DEF TypeInv, TypeOK, rows, Table, Executions
<1> QED
  BY <1>1, <1>2, <1>6, <1>7 DEF a, nonce

LEMMA MarkDispatchedType ==
  ASSUME TypeInv, NEW r \in Runner, MarkDispatched(r)
  PROVE  /\ TypeInv' /\ UNCHANGED <<assignment, successor, hub>> /\ Others(r) /\ SameTries
         /\ exec[r].job[1] = "push" /\ exec[r].pc = "mark" /\ AttemptOf(r) \in Attempt
         /\ exec'[r] = Idle
         /\ attempts'[AttemptOf(r)] = [attempts[AttemptOf(r)] EXCEPT !.dispatched = TRUE]
         /\ \A a \in Attempt : a # AttemptOf(r) => attempts'[a] = attempts[a]
<1> DEFINE a == AttemptOf(r)
           row == [attempts[a] EXCEPT !.dispatched = TRUE]
<1>1. /\ exec[r].job[1] = "push" /\ exec[r].pc = "mark"
      /\ UNCHANGED <<assignment, successor, hub>>
      /\ Finish(r, "ok") /\ attempts' = [attempts EXCEPT ![a] = row]
  BY DEF MarkDispatched, At
<1>2. PICK c \in Commit : exec[r].job = PushJob(c) /\ a \in Attempt
  BY <1>1, PushExecution
<1> HIDE DEF a
<1>3. row \in AttemptRow
  BY <1>2 DEF TypeInv, TypeOK, AttemptRow
<1> HIDE DEF row
<1>4. /\ attempts' \in [Attempt -> AttemptRow] /\ attempts'[a] = row
      /\ \A b \in Attempt : b # a => attempts'[b] = attempts[b]
  BY <1>1, <1>2, <1>3, AttemptChanges
<1>5. /\ Table(jobs') /\ Executions(exec') /\ Others(r) /\ SameTries /\ exec'[r] = Idle
  BY <1>1, FinishStep DEF Outcome, Others, SameTries
<1>6. TypeInv'
  BY <1>1, <1>4, <1>5 DEF TypeInv, TypeOK, hub, Table, Executions
<1> QED
  BY <1>1, <1>2, <1>4, <1>5, <1>6 DEF a, row

LEMMA ReadForResultType ==
  ASSUME TypeInv, NEW r \in Runner, ReadForResult(r)
  PROVE  /\ TypeInv' /\ UNCHANGED <<rows, hub>> /\ Others(r) /\ SameTries
         /\ exec[r].job[1] = "result" /\ exec[r].pc = "read" /\ CommitOf(r) \in Commit
         /\ \/ exec'[r] = Idle
            \/ /\ exec'[r].job = exec[r].job /\ exec'[r].stage \in Stage
               /\ attempts[<<CommitOf(r), exec'[r].stage>>].recorded
               /\ exec'[r].verdict = attempts[<<CommitOf(r), exec'[r].stage>>].verdict
               /\ exec'[r].pc \in {"grade", "apply", "review"}
               /\ exec'[r].verdict = NoVerdict <=> exec'[r].pc = "grade"
<1>1. PICK run \in Run : exec[r].job = ResultJob(run) /\ CommitOf(r) \in Commit
  BY ResultExecution DEF ReadForResult, At
<1> DEFINE Row(s) == attempts[<<CommitOf(r), s>>]
           Pc(s) == IF Row(s).verdict = NoVerdict THEN "grade"
                    ELSE IF Row(s).posted THEN "apply" ELSE "review"
<1>2. /\ exec[r].job[1] = "result" /\ exec[r].pc = "read" /\ UNCHANGED <<rows, hub>>
      /\ \E s \in Stage :
           /\ Row(s).recorded
           /\ \/ Finish(r, "refused")
              \/ /\ exec' = [exec EXCEPT ![r].stage = s, ![r].verdict = Row(s).verdict,
                                         ![r].pc = Pc(s)]
                 /\ UNCHANGED jobs
  BY DEF ReadForResult, At
<1>3. PICK s \in Stage :
        /\ Row(s).recorded
        /\ \/ Finish(r, "refused")
           \/ /\ exec' = [exec EXCEPT ![r].stage = s, ![r].verdict = Row(s).verdict,
                                      ![r].pc = Pc(s)]
              /\ UNCHANGED jobs
  BY <1>2
<1>4. <<CommitOf(r), s>> \in Attempt /\ Row(s).verdict \in Verdict \cup {NoVerdict}
  BY <1>1 DEF TypeInv, TypeOK, Attempt, AttemptRow
<1>5. /\ Pc(s) \in {"grade", "apply", "review"}
      /\ Row(s).verdict = NoVerdict <=> Pc(s) = "grade"
  OBVIOUS
<1>6. PICK v : v = Row(s).verdict
  OBVIOUS
<1>7. PICK pc : pc = Pc(s)
  OBVIOUS
<1>8. CASE exec' = [exec EXCEPT ![r].stage = s, ![r].verdict = v, ![r].pc = pc]
             /\ UNCHANGED jobs
  <2> DEFINE e == [exec[r] EXCEPT !.stage = s, !.verdict = v, !.pc = pc]
  <2> HIDE DEF Row, Pc
  <2>1. /\ e \in Execution /\ e.pc = pc /\ e.job = exec[r].job /\ e.stage = s /\ e.verdict = v
    BY <1>4, <1>5, <1>6, <1>7 DEF TypeInv, TypeOK, Execution, Step
  <2>2. Fits(e)
    BY <1>1, <1>4, <1>5, <1>6, <1>7, <2>1 DEF Fits, Reviewing
  <2>3. exec' = [exec EXCEPT ![r] = e]
    BY <1>8
  <2> HIDE DEF e
  <2>4. exec \in [Runner -> Execution] /\ (\A q \in Runner : Fits(exec[q])) /\ Table(jobs)
    BY DEF TypeInv, TypeOK, Table
  <2>5. Executions(exec') /\ exec'[r] = e /\ Others(r)
    BY <2>1, <2>2, <2>3, <2>4, ExecutionMoves DEF Executions, Others
  <2>6. TypeInv' /\ SameTries
    BY <1>2, <1>8, <2>4, <2>5, OnlyExecutes DEF SameTries
  <2> QED
    BY <1>1, <1>2, <1>3, <1>5, <1>6, <1>7, <2>1, <2>5, <2>6 DEF Row
<1>9. CASE Finish(r, "refused")
  <2>1. Table(jobs') /\ Executions(exec') /\ Others(r) /\ SameTries /\ exec'[r] = Idle
    BY <1>2, <1>9, FinishStep DEF Outcome, Others, SameTries
  <2> QED
    BY <1>1, <1>2, <2>1, OnlyExecutes
<1> QED
  BY <1>3, <1>6, <1>7, <1>8, <1>9

LEMMA GradeType ==
  ASSUME TypeInv, NEW r \in Runner, Grade(r)
  PROVE  /\ TypeInv' /\ UNCHANGED <<rows, hub, jobs>> /\ Others(r)
         /\ exec[r].job[1] = "result" /\ exec[r].pc = "grade"
         /\ exec'[r].pc = "persist" /\ exec'[r].job = exec[r].job
         /\ exec'[r].stage = exec[r].stage /\ exec'[r].verdict \in Verdict
<1>1. PICK v \in ValidVerdicts(exec[r].stage) :
        exec' = [exec EXCEPT ![r].verdict = v, ![r].pc = "persist"]
  BY DEF Grade
<1>2. /\ v \in Verdict /\ exec[r].job[1] = "result" /\ exec[r].pc = "grade"
      /\ UNCHANGED <<rows, hub, jobs>>
  BY DEF ValidVerdicts, Grade, At
<1>3. PICK run \in Run : exec[r].job = ResultJob(run)
  BY <1>2, ResultExecution
<1> DEFINE e == [exec[r] EXCEPT !.verdict = v, !.pc = "persist"]
<1>4. /\ e \in Execution /\ e.pc = "persist" /\ e.job = exec[r].job
      /\ e.stage = exec[r].stage /\ e.verdict = v
  BY <1>2 DEF TypeInv, TypeOK, Execution, Step
<1>5. Fits(e)
  BY <1>2, <1>3, <1>4 DEF Fits, Reviewing
<1>6. exec' = [exec EXCEPT ![r] = e]
  BY <1>1
<1> HIDE DEF e
<1>7. exec \in [Runner -> Execution] /\ (\A q \in Runner : Fits(exec[q])) /\ Table(jobs)
  BY DEF TypeInv, TypeOK, Table
<1>8. Executions(exec') /\ exec'[r] = e /\ Others(r)
  BY <1>4, <1>5, <1>6, <1>7, ExecutionMoves DEF Executions, Others
<1>9. TypeInv'
  BY <1>2, <1>7, <1>8, OnlyExecutes
<1> QED
  BY <1>2, <1>4, <1>8, <1>9

LEMMA RowEvaluated ==
  ASSUME NEW row \in AttemptRow, NEW v \in Verdict \cup {NoVerdict}
  PROVE  LET out == Evaluated(row, v)
         IN  /\ out \in AttemptRow /\ out.verdict = v /\ out.evidence = row.evidence + 1
             /\ out.nonce = row.nonce /\ out.recorded = row.recorded /\ out.posted = row.posted
<1> DEFINE r1 == [row EXCEPT !.verdict = v]
           r2 == [r1 EXCEPT !.evidence = row.evidence + 1]
<1>1. /\ r1 \in AttemptRow /\ r1.verdict = v /\ r1.evidence = row.evidence
      /\ r1.nonce = row.nonce /\ r1.recorded = row.recorded /\ r1.posted = row.posted
  BY DEF AttemptRow
<1>2. r2 = Evaluated(row, v)
  BY <1>1 DEF Evaluated
<1> HIDE DEF r1
<1>3. /\ r2 \in AttemptRow /\ r2.verdict = v /\ r2.evidence = row.evidence + 1
      /\ r2.nonce = row.nonce /\ r2.recorded = row.recorded /\ r2.posted = row.posted
  BY <1>1 DEF AttemptRow
<1> HIDE DEF r2
<1> QED
  BY <1>2, <1>3

LEMMA PersistType ==
  ASSUME TypeInv, NEW r \in Runner, Persist(r)
  PROVE  /\ TypeInv' /\ UNCHANGED <<assignment, successor, hub>> /\ Others(r) /\ SameTries
         /\ exec[r].job[1] = "result" /\ exec[r].pc = "persist" /\ AttemptOf(r) \in Attempt
         /\ \/ exec'[r] = Idle /\ UNCHANGED attempts
            \/ /\ Moves(r, "review") /\ attempts[AttemptOf(r)].verdict = NoVerdict
               /\ attempts'[AttemptOf(r)].verdict = exec[r].verdict
               /\ attempts'[AttemptOf(r)].evidence = attempts[AttemptOf(r)].evidence + 1
               /\ attempts'[AttemptOf(r)].nonce = attempts[AttemptOf(r)].nonce
               /\ attempts'[AttemptOf(r)].recorded = attempts[AttemptOf(r)].recorded
               /\ attempts'[AttemptOf(r)].posted = attempts[AttemptOf(r)].posted
               /\ \A a \in Attempt : a # AttemptOf(r) => attempts'[a] = attempts[a]
<1> DEFINE a == AttemptOf(r)
           row == Evaluated(attempts[a], exec[r].verdict)
<1>1. /\ exec[r].job[1] = "result" /\ exec[r].pc = "persist"
      /\ UNCHANGED <<assignment, successor, hub>>
      /\ \/ /\ attempts[a].verdict = NoVerdict
            /\ attempts' = [attempts EXCEPT ![a] = row]
            /\ GoTo(r, "review")
         \/ Finish(r, "refused") /\ UNCHANGED attempts
  BY DEF Persist, At, IsFirstEvaluation
<1> HIDE DEF a, row
<1>2. PICK run \in Run : exec[r].job = ResultJob(run) /\ a \in Attempt
  BY <1>1, ResultExecution DEF a
<1>3. /\ row \in AttemptRow /\ row.verdict = exec[r].verdict
      /\ row.evidence = attempts[a].evidence + 1 /\ row.nonce = attempts[a].nonce
      /\ row.recorded = attempts[a].recorded /\ row.posted = attempts[a].posted
  <2>1. attempts[a] \in AttemptRow /\ exec[r].verdict \in Verdict \cup {NoVerdict}
    BY <1>2 DEF TypeInv, TypeOK, Execution
  <2> QED
    BY <2>1, RowEvaluated DEF row
<1>4. Fits([exec[r] EXCEPT !.pc = "review"])
  BY <1>1, ReviewingExecution DEF Reviewing
<1>5. CASE Finish(r, "refused") /\ UNCHANGED attempts
  <2>1. Table(jobs') /\ Executions(exec') /\ Others(r) /\ SameTries /\ exec'[r] = Idle
    BY <1>1, <1>5, FinishStep DEF Outcome, Others, SameTries
  <2>2. TypeInv'
    BY <1>1, <1>5, <2>1 DEF TypeInv, TypeOK, hub, Table, Executions
  <2> QED
    BY <1>1, <1>2, <1>5, <2>1, <2>2 DEF a
<1>6. CASE /\ attempts[a].verdict = NoVerdict /\ GoTo(r, "review")
           /\ attempts' = [attempts EXCEPT ![a] = row]
  <2>1. /\ attempts' \in [Attempt -> AttemptRow] /\ attempts'[a] = row
        /\ \A b \in Attempt : b # a => attempts'[b] = attempts[b]
    BY <1>2, <1>3, <1>6, AttemptChanges
  <2>2. Table(jobs') /\ Executions(exec') /\ Others(r) /\ SameTries /\ Moves(r, "review")
    BY <1>4, <1>6, GoToStep DEF Step, Others, SameTries, Moves
  <2>3. TypeInv'
    BY <1>1, <2>1, <2>2 DEF TypeInv, TypeOK, hub, Table, Executions
  <2> QED
    BY <1>1, <1>2, <1>3, <1>6, <2>1, <2>2, <2>3 DEF a
<1> QED
  BY <1>1, <1>5, <1>6

LEMMA FindReviewType ==
  ASSUME TypeInv, NEW r \in Runner, FindReview(r)
  PROVE  /\ TypeInv' /\ UNCHANGED <<rows, hub, jobs>> /\ Others(r)
         /\ exec[r].job[1] = "result" /\ exec[r].pc = "review" /\ AttemptOf(r) \in Attempt
         /\ \/ Moves(r, "posted") /\ reviews[AttemptOf(r)] > 0
            \/ Moves(r, "post") /\ ~(reviews[AttemptOf(r)] > 0)
<1>1. /\ exec[r].job[1] = "result" /\ exec[r].pc = "review" /\ UNCHANGED <<rows, hub>>
      /\ \/ GoTo(r, "posted") /\ reviews[AttemptOf(r)] > 0
         \/ GoTo(r, "post") /\ ~(reviews[AttemptOf(r)] > 0)
  BY DEF FindReview, At, HasMarker
<1>2. PICK run \in Run : exec[r].job = ResultJob(run) /\ AttemptOf(r) \in Attempt
  BY <1>1, ResultExecution
<1>3. Fits([exec[r] EXCEPT !.pc = "posted"]) /\ Fits([exec[r] EXCEPT !.pc = "post"])
  BY <1>1, ReviewingExecution DEF Reviewing
<1>4. /\ Table(jobs') /\ Executions(exec') /\ Others(r) /\ jobs' = jobs
      /\ \/ Moves(r, "posted") /\ reviews[AttemptOf(r)] > 0
         \/ Moves(r, "post") /\ ~(reviews[AttemptOf(r)] > 0)
  BY <1>1, <1>3, GoToStep DEF Step, Others, Moves
<1> QED
  BY <1>1, <1>2, <1>4, OnlyExecutes

LEMMA PostReviewType ==
  ASSUME TypeInv, NEW r \in Runner, PostReview(r)
  PROVE  /\ TypeInv' /\ UNCHANGED <<rows, runs, comments>> /\ Others(r) /\ SameTries
         /\ exec[r].job[1] = "result" /\ exec[r].pc = "post" /\ AttemptOf(r) \in Attempt
         /\ exec'[r] = Idle \/ Moves(r, "posted")
         /\ reviews' = [reviews EXCEPT ![AttemptOf(r)] = @ + 1]
<1>1. /\ exec[r].job[1] = "result" /\ exec[r].pc = "post"
      /\ UNCHANGED <<rows, runs, comments>>
      /\ GoTo(r, "posted") \/ Finish(r, "retry")
      /\ reviews' = [reviews EXCEPT ![AttemptOf(r)] = @ + 1]
  BY DEF PostReview, At
<1>2. PICK run \in Run : exec[r].job = ResultJob(run) /\ AttemptOf(r) \in Attempt
  BY <1>1, ResultExecution
<1>3. reviews' \in [Attempt -> Nat]
  BY <1>1, <1>2 DEF TypeInv, TypeOK
<1>4. Fits([exec[r] EXCEPT !.pc = "posted"])
  BY <1>1, ReviewingExecution DEF Reviewing
<1>5. /\ Table(jobs') /\ Executions(exec') /\ Others(r) /\ SameTries
      /\ exec'[r] = Idle \/ Moves(r, "posted")
  BY <1>1, <1>4, GoToStep, FinishStep DEF Step, Outcome, Others, SameTries, Moves
<1>6. TypeInv'
  BY <1>1, <1>3, <1>5 DEF TypeInv, TypeOK, rows, Table, Executions
<1> QED
  BY <1>1, <1>2, <1>5, <1>6

LEMMA MarkPostedType ==
  ASSUME TypeInv, NEW r \in Runner, MarkPosted(r)
  PROVE  /\ TypeInv' /\ UNCHANGED <<assignment, successor, hub, jobs>> /\ Others(r)
         /\ exec[r].job[1] = "result" /\ exec[r].pc = "posted" /\ AttemptOf(r) \in Attempt
         /\ Moves(r, "apply")
         /\ attempts'[AttemptOf(r)] = [attempts[AttemptOf(r)] EXCEPT !.posted = TRUE]
         /\ \A a \in Attempt : a # AttemptOf(r) => attempts'[a] = attempts[a]
<1> DEFINE a == AttemptOf(r)
           row == [attempts[a] EXCEPT !.posted = TRUE]
<1>1. /\ exec[r].job[1] = "result" /\ exec[r].pc = "posted"
      /\ UNCHANGED <<assignment, successor, hub>>
      /\ GoTo(r, "apply") /\ attempts' = [attempts EXCEPT ![a] = row]
  BY DEF MarkPosted, At
<1>2. PICK run \in Run : exec[r].job = ResultJob(run) /\ a \in Attempt
  BY <1>1, ResultExecution
<1> HIDE DEF a
<1>3. row \in AttemptRow
  BY <1>2 DEF TypeInv, TypeOK, AttemptRow
<1> HIDE DEF row
<1>4. /\ attempts' \in [Attempt -> AttemptRow] /\ attempts'[a] = row
      /\ \A b \in Attempt : b # a => attempts'[b] = attempts[b]
  BY <1>1, <1>2, <1>3, AttemptChanges
<1>5. Fits([exec[r] EXCEPT !.pc = "apply"])
  BY <1>1, ReviewingExecution DEF Reviewing
<1>6. Table(jobs') /\ Executions(exec') /\ jobs' = jobs /\ Moves(r, "apply") /\ Others(r)
  BY <1>1, <1>5, GoToStep DEF Step, Others, Moves
<1>7. TypeInv'
  BY <1>1, <1>4, <1>6 DEF TypeInv, TypeOK, hub, Table, Executions
<1> QED
  BY <1>1, <1>2, <1>4, <1>6, <1>7 DEF a, row

LEMMA ApplyTransitionType ==
  ASSUME TypeInv, NEW r \in Runner, ApplyTransition(r)
  PROVE  /\ TypeInv' /\ UNCHANGED <<successor, attempts, hub>> /\ Others(r) /\ SameTries
         /\ exec[r].job[1] = "result" /\ exec[r].pc = "apply" /\ AttemptOf(r) \in Attempt
         /\ exec'[r].pc \in {"idle", "announce"}
         /\ exec'[r].stage <= assignment'.stage
         /\ \/ assignment'.stage = assignment.stage
            \/ /\ assignment'.stage = assignment.stage + 1
               /\ exec[r].verdict.next = "new_stage" /\ ~(assignment.stage > exec[r].stage)
<1> DEFINE Announce(s) == exec' = [exec EXCEPT ![r].pc = "announce", ![r].stage = s]
           st == StatusAfter(exec[r].verdict)
<1>1. /\ exec[r].job[1] = "result" /\ exec[r].pc = "apply"
      /\ UNCHANGED <<successor, attempts, hub>>
      /\ \/ Announce(assignment.stage) /\ UNCHANGED <<assignment, jobs>>
         \/ /\ assignment' = [status |-> st, stage |-> assignment.stage + 1]
            /\ exec[r].verdict.next = "new_stage" /\ assignment.stage < LastStage
            /\ ~(assignment.stage > exec[r].stage)
            /\ Announce(assignment.stage + 1) /\ UNCHANGED jobs
         \/ assignment' = [assignment EXCEPT !.status = st] /\ Finish(r, "ok")
         \/ Finish(r, "refused") /\ UNCHANGED assignment
  BY DEF ApplyTransition, At, AlreadyAdvanced, MayApply
<1> HIDE DEF st
<1>2. PICK run \in Run : exec[r].job = ResultJob(run) /\ AttemptOf(r) \in Attempt
  BY <1>1, ResultExecution
<1>3. assignment \in [status : Status, stage : Stage] /\ assignment.stage \in Stage
      /\ exec \in [Runner -> Execution] /\ (\A q \in Runner : Fits(exec[q])) /\ Table(jobs)
  BY DEF TypeInv, TypeOK, Table
<1>4. ASSUME NEW s \in Stage, Announce(s), UNCHANGED jobs
      PROVE  /\ Table(jobs') /\ Executions(exec') /\ Others(r) /\ SameTries
             /\ exec'[r].pc = "announce" /\ exec'[r].stage = s
  <2> DEFINE e == [exec[r] EXCEPT !.pc = "announce", !.stage = s]
  <2>1. e \in Execution /\ e.pc = "announce" /\ e.job = exec[r].job /\ e.stage = s
    BY <1>3 DEF Execution, Step
  <2>2. Fits(e)
    BY <1>2, <2>1 DEF Fits, Reviewing
  <2>3. exec' = [exec EXCEPT ![r] = e]
    BY <1>4
  <2> HIDE DEF e, Announce
  <2>4. Executions(exec') /\ exec'[r] = e /\ Others(r)
    BY <1>3, <2>1, <2>2, <2>3, ExecutionMoves DEF Executions, Others
  <2> QED
    BY <1>3, <1>4, <2>1, <2>4 DEF SameTries
<1>5. ASSUME NEW outcome \in Outcome, Finish(r, outcome)
      PROVE  /\ Table(jobs') /\ Executions(exec') /\ Others(r) /\ SameTries /\ exec'[r] = Idle
  BY <1>1, <1>5, FinishStep DEF Others, SameTries
<1>6. Idle.pc = "idle" /\ Idle.stage = 1
  BY DEF Idle
<1>7. exec[r].verdict.next = "new_stage" => st = "follow_up"
  BY DEF st, StatusAfter
<1>8. exec[r].verdict \in Verdict \cup {NoVerdict}
  BY <1>3 DEF Execution
<1> HIDE DEF Announce
<1>9. CASE Announce(assignment.stage) /\ UNCHANGED <<assignment, jobs>>
  <2>1. /\ Table(jobs') /\ Executions(exec') /\ Others(r) /\ SameTries
        /\ exec'[r].pc = "announce" /\ exec'[r].stage = assignment.stage
    BY <1>3, <1>4, <1>9
  <2>2. TypeInv'
    BY <1>1, <1>9, <2>1 DEF TypeInv, TypeOK, hub, Table, Executions
  <2> QED
    BY <1>1, <1>2, <1>3, <1>9, <2>1, <2>2 DEF Stage
<1>10. CASE /\ assignment' = [status |-> st, stage |-> assignment.stage + 1]
            /\ exec[r].verdict.next = "new_stage" /\ assignment.stage < LastStage
            /\ ~(assignment.stage > exec[r].stage)
            /\ Announce(assignment.stage + 1) /\ UNCHANGED jobs
  <2>1. assignment.stage + 1 \in Stage /\ st \in Status
    BY <1>3, <1>7, <1>10, PipelineAssumption DEF Stage, Status, Active
  <2>2. /\ Table(jobs') /\ Executions(exec') /\ Others(r) /\ SameTries
        /\ exec'[r].pc = "announce" /\ exec'[r].stage = assignment.stage + 1
    BY <1>4, <1>10, <2>1
  <2>3. /\ assignment' \in [status : Status, stage : Stage]
        /\ assignment'.stage = assignment.stage + 1
    BY <1>10, <2>1
  <2>4. TypeInv'
    BY <1>1, <2>2, <2>3 DEF TypeInv, TypeOK, hub, Table, Executions
  <2> QED
    BY <1>1, <1>2, <1>10, <2>1, <2>2, <2>3, <2>4 DEF Stage
<1>11. CASE assignment' = [assignment EXCEPT !.status = st] /\ Finish(r, "ok")
  <2>1. exec[r].verdict \in Verdict
    BY <1>1, ReviewingExecution DEF Reviewing
  <2>2. st \in {"follow_up", "reviewing", "completed"}
    <3>1. exec[r].verdict.next \in {"new_stage", "human_review", "finish"}
      BY <2>1 DEF Verdict
    <3>2. CASE exec[r].verdict.next = "new_stage"
      BY <1>7, <3>2
    <3>3. CASE exec[r].verdict.next = "human_review"
      BY <3>3 DEF st, StatusAfter
    <3>4. CASE exec[r].verdict.next = "finish"
      BY <3>4 DEF st, StatusAfter
    <3> QED
      BY <3>1, <3>2, <3>3, <3>4
  <2>3. /\ assignment' \in [status : Status, stage : Stage]
        /\ assignment'.stage = assignment.stage
    BY <1>3, <1>11, <2>2 DEF Status, Active
  <2>4. Table(jobs') /\ Executions(exec') /\ Others(r) /\ SameTries /\ exec'[r] = Idle
    BY <1>5, <1>11 DEF Outcome
  <2>5. TypeInv'
    BY <1>1, <2>3, <2>4 DEF TypeInv, TypeOK, hub, Table, Executions
  <2> QED
    BY <1>1, <1>2, <1>3, <1>6, <2>3, <2>4, <2>5 DEF Stage
<1>12. CASE Finish(r, "refused") /\ UNCHANGED assignment
  <2>1. Table(jobs') /\ Executions(exec') /\ Others(r) /\ SameTries /\ exec'[r] = Idle
    BY <1>5, <1>12 DEF Outcome
  <2>2. TypeInv'
    BY <1>1, <1>12, <2>1 DEF TypeInv, TypeOK, hub, Table, Executions
  <2> QED
    BY <1>1, <1>2, <1>3, <1>6, <1>12, <2>1, <2>2 DEF Stage
<1> QED
  BY <1>1, <1>9, <1>10, <1>11, <1>12

LEMMA FindCommentType ==
  ASSUME TypeInv, NEW r \in Runner, FindComment(r)
  PROVE  /\ TypeInv' /\ UNCHANGED <<rows, hub>> /\ Others(r) /\ SameTries
         /\ exec[r].job[1] = "result" /\ exec[r].pc = "announce"
         /\ exec'[r] = Idle \/ (Moves(r, "comment") /\ ~(comments[exec[r].stage] > 0))
<1>1. /\ exec[r].job[1] = "result" /\ exec[r].pc = "announce" /\ UNCHANGED <<rows, hub>>
      /\ Finish(r, "ok") \/ (GoTo(r, "comment") /\ ~(comments[exec[r].stage] > 0))
  BY DEF FindComment, At, HasMarker
<1>2. PICK run \in Run : exec[r].job = ResultJob(run)
  BY <1>1, ResultExecution
<1>3. Fits([exec[r] EXCEPT !.pc = "comment"])
  <2> DEFINE e == [exec[r] EXCEPT !.pc = "comment"]
  <2>1. e.pc = "comment" /\ e.job = ResultJob(run)
    BY <1>2 DEF TypeInv, TypeOK, Execution
  <2> HIDE DEF e
  <2>2. Fits(e)
    BY <2>1 DEF Fits, Reviewing
  <2> QED
    BY <2>2 DEF e
<1>4. /\ Table(jobs') /\ Executions(exec') /\ Others(r) /\ SameTries
      /\ exec'[r] = Idle \/ (Moves(r, "comment") /\ ~(comments[exec[r].stage] > 0))
  BY <1>1, <1>3, GoToStep, FinishStep DEF Step, Outcome, Others, SameTries, Moves
<1> QED
  BY <1>1, <1>4, OnlyExecutes

LEMMA PostCommentType ==
  ASSUME TypeInv, NEW r \in Runner, PostComment(r)
  PROVE  /\ TypeInv' /\ UNCHANGED <<rows, runs, reviews>> /\ Others(r) /\ SameTries
         /\ exec[r].job[1] = "result" /\ exec[r].pc = "comment"
         /\ exec'[r] = Idle /\ comments' = [comments EXCEPT ![exec[r].stage] = @ + 1]
<1>1. /\ exec[r].job[1] = "result" /\ exec[r].pc = "comment"
      /\ UNCHANGED <<rows, runs, reviews>>
      /\ \E outcome \in Outcome : Finish(r, outcome)
      /\ comments' = [comments EXCEPT ![exec[r].stage] = @ + 1]
  BY DEF PostComment, At, Outcome
<1>2. comments' \in [Stage -> Nat]
  BY <1>1 DEF TypeInv, TypeOK, Execution
<1>3. /\ Table(jobs') /\ Executions(exec') /\ Others(r) /\ SameTries /\ exec'[r] = Idle
  BY <1>1, FinishStep DEF Others, SameTries
<1>4. TypeInv'
  BY <1>1, <1>2, <1>3 DEF TypeInv, TypeOK, rows, Table, Executions
<1> QED
  BY <1>1, <1>3, <1>4

LEMMA ReadForPullType ==
  ASSUME TypeInv, NEW r \in Runner, ReadForPull(r)
  PROVE  /\ TypeInv' /\ UNCHANGED <<rows, hub, jobs>> /\ Others(r)
         /\ exec[r].job[1] = "pull" /\ Moves(r, "write")
<1> DEFINE Seen == CASE exec[r].job[2] = "merged" -> "completed"
                     [] exec[r].job[2] = "closed" -> "cancelled"
                     [] OTHER -> assignment.status
<1>1. /\ exec[r].job[1] = "pull" /\ exec[r].pc = "read" /\ UNCHANGED <<rows, hub, jobs>>
      /\ exec' = [exec EXCEPT ![r].pc = "write", ![r].status = Seen]
  BY DEF ReadForPull, At
<1>2. PICK action \in PullAction : exec[r].job = PullJob(action)
  BY <1>1 DEF TypeInv, Fits, NoJob, PushJob, ResultJob, PullJob
<1>3. \E st \in Status : st = Seen
  <2>1. exec[r].job[2] = "merged" => Seen = "completed"
    BY Zenon
  <2>2. exec[r].job[2] = "closed" => Seen = "cancelled"
    BY Zenon
  <2>3. exec[r].job[2] # "merged" /\ exec[r].job[2] # "closed" => Seen = assignment.status
    BY Zenon
  <2> HIDE DEF Seen
  <2> QED
    BY <2>1, <2>2, <2>3 DEF Status, Active, TypeInv, TypeOK
<1>4. PICK st \in Status : st = Seen
  BY <1>3
<1>5. exec' = [exec EXCEPT ![r].pc = "write", ![r].status = st]
  BY <1>1, <1>4
<1> HIDE DEF Seen
<1> DEFINE e == [exec[r] EXCEPT !.pc = "write", !.status = st]
<1>6. /\ e \in Execution /\ e.pc = "write" /\ e.job = exec[r].job
      /\ e.stage = exec[r].stage /\ e.verdict = exec[r].verdict
  BY DEF TypeInv, TypeOK, Execution, Step
<1>7. Fits(e)
  BY <1>2, <1>6 DEF Fits
<1>8. exec' = [exec EXCEPT ![r] = e]
  BY <1>5
<1> HIDE DEF e
<1>9. exec \in [Runner -> Execution] /\ (\A q \in Runner : Fits(exec[q])) /\ Table(jobs)
  BY DEF TypeInv, TypeOK, Table
<1>10. Executions(exec') /\ exec'[r] = e /\ Others(r)
  BY <1>6, <1>7, <1>8, <1>9, ExecutionMoves DEF Executions, Others
<1>11. Table(jobs')
  BY <1>1, <1>9
<1> QED
  BY <1>1, <1>6, <1>10, <1>11, OnlyExecutes DEF Moves

LEMMA WriteStatusType ==
  ASSUME TypeInv, NEW r \in Runner, WriteStatus(r)
  PROVE  /\ TypeInv' /\ UNCHANGED <<successor, attempts, hub>> /\ Others(r) /\ SameTries
         /\ exec[r].job[1] = "pull" /\ assignment'.stage = assignment.stage
         /\ exec'[r] = Idle
<1>1. /\ exec[r].job[1] = "pull" /\ exec[r].pc = "write"
      /\ UNCHANGED <<successor, attempts, hub>>
      /\ assignment' = [assignment EXCEPT !.status = exec[r].status] \/ UNCHANGED assignment
      /\ \E outcome \in Outcome : Finish(r, outcome)
  BY DEF WriteStatus, At, Outcome
<1>2. assignment'.stage = assignment.stage /\ assignment' \in [status : Status, stage : Stage]
  BY <1>1 DEF TypeInv, TypeOK, Execution
<1>3. /\ Table(jobs') /\ Executions(exec') /\ Others(r) /\ SameTries /\ exec'[r] = Idle
  BY <1>1, FinishStep DEF Others, SameTries
<1>4. TypeInv'
  BY <1>1, <1>2, <1>3 DEF TypeInv, TypeOK, hub, Table, Executions
<1> QED
  BY <1>1, <1>2, <1>3, <1>4

LEMMA FilingType ==
  ASSUME TypeInv,
         \/ \E c \in Commit : LearnerPushes(c)
         \/ \E action \in PullAction : PullRequestChanges(action)
         \/ \E run \in Run : RunEnds(run)
  PROVE  TypeInv' /\ UNCHANGED <<rows, hub, exec>> /\ SameTries
<1>1. \E j \in Job : File(j)
  BY DEF LearnerPushes, PullRequestChanges, RunEnds, Job
<1> QED
  BY <1>1, FileType DEF SameTries

LEMMA SuccessorType ==
  ASSUME TypeInv, CreateSuccessor
  PROVE  TypeInv' /\ UNCHANGED <<assignment, attempts, hub, jobs, exec>>
BY DEF CreateSuccessor, TypeInv, TypeOK, hub, Fits, RowFits, IsClaimable

LEMMA TypeInvStep == TypeInv /\ [Next]_vars => TypeInv'
<1> SUFFICES ASSUME TypeInv, [Next]_vars PROVE TypeInv'
  OBVIOUS
<1>1. CASE \/ \E c \in Commit : LearnerPushes(c)
           \/ \E action \in PullAction : PullRequestChanges(action)
           \/ \E run \in Run : RunEnds(run)
  BY <1>1, FilingType
<1>2. CASE CreateSuccessor
  BY <1>2, SuccessorType
<1>3. CASE \E r \in Runner, j \in Job : Claim(r, j)
  BY <1>3, ClaimType
<1>4. CASE \E r \in Runner : HandlerFails(r) \/ Crash(r)
  BY <1>4, FailureType
<1>5. CASE \E r \in Runner : LeaseLapses(r)
  BY <1>5, LapseType
<1>6. ASSUME NEW r \in Runner, HandlerStep(r) PROVE TypeInv'
  <2>1. CASE ReadForPush(r) \/ RecordAttempt(r) \/ Submit(r) \/ BindDispatch(r)
    BY <2>1, ReadForPushType, RecordAttemptType, SubmitType, BindDispatchType
  <2>2. CASE Dispatch(r) \/ MarkDispatched(r) \/ ReadForResult(r) \/ Grade(r)
    BY <2>2, DispatchType, MarkDispatchedType, ReadForResultType, GradeType
  <2>3. CASE Persist(r) \/ FindReview(r) \/ PostReview(r) \/ MarkPosted(r)
    BY <2>3, PersistType, FindReviewType, PostReviewType, MarkPostedType
  <2>4. CASE ApplyTransition(r) \/ FindComment(r) \/ PostComment(r)
    BY <2>4, ApplyTransitionType, FindCommentType, PostCommentType
  <2>5. CASE ReadForPull(r) \/ WriteStatus(r)
    BY <2>5, ReadForPullType, WriteStatusType
  <2> QED
    BY <1>6, <2>1, <2>2, <2>3, <2>4, <2>5 DEF HandlerStep
<1>7. CASE UNCHANGED vars
  BY <1>7 DEF vars, TypeInv, TypeOK, Fits, RowFits, IsClaimable
<1> QED
  BY <1>1, <1>2, <1>3, <1>4, <1>5, <1>6, <1>7 DEF Next

LEMMA TypeInvHolds == Spec => []TypeInv
BY TypeInvInit, TypeInvStep, PTL DEF Spec

\* The rows, GitHub's state and the executions stay in their types: among others, no
\* job is claimed beyond its tries, whatever lapses (orchestrator.py, jobs.py claim).
THEOREM TypeCorrect == Spec => []TypeOK
<1>1. TypeInv => TypeOK
  BY DEF TypeInv
<1> QED
  BY <1>1, TypeInvHolds, PTL

-----------------------------------------------------------------------------
(* Attempts, their evidence and the assignment's stage *)

(* Executions and recorded attempts are at unlocked stages, and an          *)
(* execution that shows or applies a verdict has the stored one.            *)
Shown == {"review", "post", "posted", "apply"}
ShowsStored(r) == exec[r].pc \in Shown => attempts[AttemptOf(r)].verdict = exec[r].verdict

ReviewInv ==
  /\ \A r \in Runner : exec[r].stage <= assignment.stage /\ ShowsStored(r)
  /\ \A a \in Attempt : attempts[a].recorded => a[2] <= assignment.stage
  /\ EvidenceAppliedOnce
  /\ RunsKeepTheirNonce

(* How a step may change an attempt's row.                                  *)
RowGrows(a) ==
  /\ attempts[a].verdict # NoVerdict => attempts'[a].verdict = attempts[a].verdict
  /\ attempts[a].nonce # 0 => attempts'[a].nonce = attempts[a].nonce
  /\ attempts'[a].recorded => attempts[a].recorded \/ a[2] <= assignment.stage
  /\ \/ /\ attempts'[a].verdict = attempts[a].verdict
        /\ attempts'[a].evidence = attempts[a].evidence
     \/ /\ attempts'[a].verdict # attempts[a].verdict
        /\ attempts'[a].evidence = attempts[a].evidence + 1

LEMMA SameRowGrows ==
  ASSUME NEW a, attempts'[a] = attempts[a]
  PROVE  RowGrows(a)
BY DEF RowGrows

LEMMA ReviewInvKept ==
  ASSUME TypeInv, TypeInv', ReviewInv,
         assignment.stage <= assignment'.stage,
         \A a \in Attempt : RowGrows(a),
         \A run \in Run : runs'[run] = runs[run] \/ runs'[run] = attempts'[run[1]].nonce,
         \A r \in Runner : exec'[r] = exec[r] \/
                             (exec'[r].stage <= assignment'.stage /\ ShowsStored(r)')
  PROVE  ReviewInv'
<1>1. /\ assignment.stage \in Nat /\ assignment'.stage \in Nat
      /\ \A r \in Runner : exec[r].stage \in Nat /\ exec'[r].stage \in Nat
      /\ \A a \in Attempt : a[2] \in Nat /\ attempts[a] \in AttemptRow /\ attempts'[a] \in AttemptRow
      /\ \A run \in Run : run[1] \in Attempt
  BY DEF TypeInv, TypeOK, Stage, Execution, Attempt, Run
<1>2. ASSUME NEW r \in Runner PROVE exec'[r].stage <= assignment'.stage /\ ShowsStored(r)'
  <2>1. CASE exec'[r] = exec[r]
    <3>1. exec'[r].stage <= assignment'.stage
      BY <1>1, <2>1 DEF ReviewInv
    <3>2. AttemptOf(r)' = AttemptOf(r)
      BY <2>1 DEF AttemptOf, CommitOf
    <3>3. ASSUME exec[r].pc \in Shown
          PROVE  attempts'[AttemptOf(r)].verdict = exec[r].verdict
      <4>1. attempts[AttemptOf(r)].verdict = exec[r].verdict
        BY <3>3 DEF ReviewInv, ShowsStored
      <4>2. exec[r].job[1] = "result" /\ exec[r].pc \in Reviewing
        BY <3>3 DEF TypeInv, Fits, Shown, Reviewing, ResultJob
      <4>3. AttemptOf(r) \in Attempt /\ exec[r].verdict \in Verdict
        BY <4>2, ResultExecution, ReviewingExecution
      <4>4. exec[r].verdict # NoVerdict
        BY <4>3 DEF Verdict, NoVerdict
      <4> QED
        BY <4>1, <4>3, <4>4 DEF RowGrows
    <3> QED
      BY <2>1, <3>1, <3>2, <3>3 DEF ShowsStored
  <2>2. CASE exec'[r].stage <= assignment'.stage /\ ShowsStored(r)'
    BY <2>2
  <2> QED
    BY <2>1, <2>2
<1>3. ASSUME NEW a \in Attempt, attempts'[a].recorded PROVE a[2] <= assignment'.stage
  BY <1>1, <1>3 DEF ReviewInv, RowGrows
<1>4. ASSUME NEW a \in Attempt
      PROVE  attempts'[a].evidence = IF attempts'[a].verdict = NoVerdict THEN 0 ELSE 1
  <2>1. /\ attempts[a].evidence = IF attempts[a].verdict = NoVerdict THEN 0 ELSE 1
        /\ RowGrows(a)
    BY DEF ReviewInv, EvidenceAppliedOnce
  <2>2. CASE attempts'[a].verdict = attempts[a].verdict
    BY <2>1, <2>2 DEF RowGrows
  <2>3. CASE attempts'[a].verdict # attempts[a].verdict
    BY <2>1, <2>3 DEF RowGrows
  <2> QED
    BY <2>2, <2>3
<1>5. EvidenceAppliedOnce'
  BY <1>4 DEF EvidenceAppliedOnce
<1>6. RunsKeepTheirNonce'
  BY <1>1 DEF ReviewInv, RowGrows, RunsKeepTheirNonce
<1> QED
  BY <1>2, <1>3, <1>5, <1>6 DEF ReviewInv

LEMMA ReviewInvInit == Init => ReviewInv
<1> SUFFICES ASSUME Init PROVE ReviewInv
  OBVIOUS
<1>1. ASSUME NEW r \in Runner PROVE exec[r].stage <= assignment.stage /\ ShowsStored(r)
  <2>1. exec[r].stage = 1 /\ exec[r].pc = "idle" /\ assignment.stage = 1
    BY DEF Init, Idle
  <2> QED
    BY <2>1 DEF ShowsStored, Shown
<1>2. EvidenceAppliedOnce /\ \A a \in Attempt : attempts[a].recorded => a[2] <= assignment.stage
  BY DEF Init, NoAttempt, EvidenceAppliedOnce
<1>3. RunsKeepTheirNonce
  BY DEF Init, RunsKeepTheirNonce
<1> QED
  BY <1>1, <1>2, <1>3 DEF ReviewInv

(* A step of one execution that leaves attempts, runs and stages alone.     *)
LEMMA RowsStay ==
  ASSUME TypeInv, TypeInv', ReviewInv, UNCHANGED <<attempts, runs>>,
         assignment'.stage = assignment.stage,
         \A r \in Runner : exec'[r] = exec[r] \/
                             (exec'[r].stage <= assignment.stage /\ ShowsStored(r)')
  PROVE  ReviewInv'
<1>1. assignment.stage <= assignment'.stage
  BY DEF TypeInv, TypeOK, Stage
<1>2. \A a \in Attempt : RowGrows(a)
  BY SameRowGrows
<1> QED
  BY <1>1, <1>2, ReviewInvKept

LEMMA OneStays ==
  ASSUME TypeInv, TypeInv', ReviewInv, UNCHANGED <<attempts, runs>>,
         assignment'.stage = assignment.stage,
         NEW r \in Runner, Others(r),
         exec'[r] = Idle \/ (exec'[r].pc \notin Shown /\ exec'[r].stage <= assignment.stage)
  PROVE  ReviewInv'
<1>1. Idle.pc = "idle" /\ Idle.stage = 1
  BY DEF Idle
<1>2. exec'[r].pc \notin Shown /\ exec'[r].stage <= assignment.stage
  BY <1>1 DEF Shown, TypeInv, TypeOK, Stage
<1> QED
  BY <1>2, RowsStay DEF Others, ShowsStored

LEMMA QuietStages ==
  ASSUME TypeInv, TypeInv', ReviewInv, NEW r \in Runner,
         \/ \E j \in Job : Claim(r, j)
         \/ HandlerFails(r) \/ Crash(r) \/ LeaseLapses(r)
         \/ ReadForPush(r) \/ Submit(r) \/ Grade(r) \/ FindComment(r) \/ PostComment(r)
         \/ ReadForPull(r) \/ WriteStatus(r)
  PROVE  ReviewInv'
<1>0. assignment.stage \in Stage /\ exec[r].stage <= assignment.stage
  BY DEF TypeInv, TypeOK, ReviewInv
<1>1. CASE \E j \in Job : Claim(r, j)
  BY <1>0, <1>1, ClaimType, OneStays DEF rows, hub, Shown, Stage, Others
<1>2. CASE HandlerFails(r) \/ Crash(r)
  BY <1>2, FailureType, OneStays DEF rows, hub, Others
<1>3. CASE LeaseLapses(r)
  BY <1>3, LapseType, RowsStay DEF rows, hub
<1>4. CASE ReadForPush(r)
  BY <1>0, <1>4, ReadForPushType, OneStays DEF rows, hub, Shown, Stage
<1>5. CASE Submit(r)
  BY <1>0, <1>5, SubmitType, OneStays DEF hub, Shown, Moves
<1>6. CASE Grade(r)
  BY <1>0, <1>6, GradeType, OneStays DEF rows, hub, Shown
<1>7. CASE FindComment(r)
  BY <1>0, <1>7, FindCommentType, OneStays DEF rows, hub, Shown, Moves
<1>8. CASE PostComment(r)
  BY <1>8, PostCommentType, OneStays DEF rows
<1>9. CASE ReadForPull(r)
  BY <1>0, <1>9, ReadForPullType, OneStays DEF rows, hub, Shown, Moves
<1>10. CASE WriteStatus(r)
  BY <1>10, WriteStatusType, OneStays DEF hub
<1> QED
  BY <1>1, <1>2, <1>3, <1>4, <1>5, <1>6, <1>7, <1>8, <1>9, <1>10

LEMMA ReadForResultStages ==
  ASSUME TypeInv, TypeInv', ReviewInv, NEW r \in Runner, ReadForResult(r)
  PROVE  ReviewInv'
<1>1. /\ UNCHANGED <<rows, hub>> /\ Others(r) /\ CommitOf(r) \in Commit
      /\ \/ exec'[r] = Idle
         \/ /\ exec'[r].job = exec[r].job /\ exec'[r].stage \in Stage
            /\ attempts[<<CommitOf(r), exec'[r].stage>>].recorded
            /\ exec'[r].verdict = attempts[<<CommitOf(r), exec'[r].stage>>].verdict
  BY ReadForResultType
<1>2. CASE exec'[r] = Idle
  BY <1>1, <1>2, OneStays DEF rows, hub
<1>3. CASE /\ exec'[r].job = exec[r].job /\ exec'[r].stage \in Stage
           /\ attempts[<<CommitOf(r), exec'[r].stage>>].recorded
           /\ exec'[r].verdict = attempts[<<CommitOf(r), exec'[r].stage>>].verdict
  <2>1. exec'[r].stage <= assignment.stage
    BY <1>1, <1>3 DEF ReviewInv, Attempt
  <2>2. AttemptOf(r)' = <<CommitOf(r), exec'[r].stage>>
    BY <1>3 DEF AttemptOf, CommitOf
  <2>3. ShowsStored(r)'
    BY <1>1, <1>3, <2>2 DEF ShowsStored, rows
  <2> QED
    BY <1>1, <2>1, <2>3, RowsStay DEF rows, hub, Others
<1> QED
  BY <1>1, <1>2, <1>3

LEMMA FindReviewStages ==
  ASSUME TypeInv, TypeInv', ReviewInv, NEW r \in Runner, FindReview(r)
  PROVE  ReviewInv'
<1>1. /\ UNCHANGED <<rows, hub>> /\ Others(r) /\ exec[r].pc = "review"
      /\ exec'[r].job = exec[r].job /\ exec'[r].stage = exec[r].stage
      /\ exec'[r].verdict = exec[r].verdict
  BY FindReviewType DEF Moves
<1>2. AttemptOf(r)' = AttemptOf(r)
  BY <1>1 DEF AttemptOf, CommitOf
<1>3. exec'[r].stage <= assignment.stage /\ ShowsStored(r)'
  BY <1>1, <1>2 DEF ReviewInv, ShowsStored, Shown, rows
<1> QED
  BY <1>1, <1>3, RowsStay DEF rows, hub, Others

LEMMA PostReviewStages ==
  ASSUME TypeInv, TypeInv', ReviewInv, NEW r \in Runner, PostReview(r)
  PROVE  ReviewInv'
<1>1. /\ UNCHANGED <<rows, runs, comments>> /\ Others(r) /\ exec[r].pc = "post"
      /\ \/ exec'[r] = Idle
         \/ /\ exec'[r].job = exec[r].job /\ exec'[r].stage = exec[r].stage
            /\ exec'[r].verdict = exec[r].verdict
  BY PostReviewType DEF Moves
<1>2. CASE exec'[r] = Idle
  BY <1>1, <1>2, OneStays DEF rows
<1>3. CASE /\ exec'[r].job = exec[r].job /\ exec'[r].stage = exec[r].stage
           /\ exec'[r].verdict = exec[r].verdict
  <2>1. AttemptOf(r)' = AttemptOf(r)
    BY <1>3 DEF AttemptOf, CommitOf
  <2>2. exec'[r].stage <= assignment.stage /\ ShowsStored(r)'
    BY <1>1, <1>3, <2>1 DEF ReviewInv, ShowsStored, Shown, rows
  <2> QED
    BY <1>1, <2>2, RowsStay DEF rows, Others
<1> QED
  BY <1>1, <1>2, <1>3

(* A step of one execution that changes its attempt's row alone.            *)
LEMMA OneRowGrows ==
  ASSUME TypeInv, TypeInv', ReviewInv, UNCHANGED <<assignment, runs>>,
         NEW r \in Runner, Others(r),
         AttemptOf(r) \in Attempt, RowGrows(AttemptOf(r)),
         \A a \in Attempt : a # AttemptOf(r) => attempts'[a] = attempts[a],
         exec'[r].stage <= assignment.stage, ShowsStored(r)'
  PROVE  ReviewInv'
<1>1. assignment.stage <= assignment'.stage
  BY DEF TypeInv, TypeOK, Stage
<1>2. \A a \in Attempt : RowGrows(a)
  BY SameRowGrows
<1> QED
  BY <1>1, <1>2, ReviewInvKept DEF Others

LEMMA RowStages ==
  ASSUME TypeInv, TypeInv', ReviewInv, NEW r \in Runner,
         RecordAttempt(r) \/ BindDispatch(r) \/ MarkDispatched(r) \/ MarkPosted(r)
  PROVE  ReviewInv'
<1>0. /\ assignment.stage \in Stage /\ exec[r].stage \in Stage
      /\ exec[r].stage <= assignment.stage /\ ShowsStored(r)
      /\ \A a \in Attempt : attempts[a] \in AttemptRow
      /\ Idle.pc = "idle" /\ Idle.stage = 1
  BY DEF TypeInv, TypeOK, Execution, ReviewInv, Idle
<1>1. CASE RecordAttempt(r)
  <2>1. RowGrows(AttemptOf(r))
    <3>1. AttemptOf(r)[2] = exec[r].stage
      BY DEF AttemptOf
    <3> QED
      BY <1>0, <1>1, <3>1, RecordAttemptType DEF RowGrows, AttemptRow
  <2> QED
    BY <1>0, <1>1, <2>1, RecordAttemptType, OneRowGrows DEF hub, Moves, ShowsStored, Shown
<1>2. CASE BindDispatch(r)
  <2>1. CASE exec'[r] = Idle /\ UNCHANGED attempts
    BY <1>2, <2>1, BindDispatchType, OneStays DEF hub
  <2>2. CASE /\ Moves(r, "dispatch")
             /\ attempts'[AttemptOf(r)] = Bound(attempts[AttemptOf(r)])
             /\ \A a \in Attempt : a # AttemptOf(r) => attempts'[a] = attempts[a]
    <3>1. RowGrows(AttemptOf(r))
      BY <1>0, <1>2, <2>2, BindDispatchType DEF RowGrows, AttemptRow, Bound, Nonce
    <3> QED
      BY <1>0, <1>2, <2>2, <3>1, BindDispatchType, OneRowGrows
      DEF hub, Moves, ShowsStored, Shown
  <2> QED
    BY <1>2, <2>1, <2>2, BindDispatchType
<1>3. CASE MarkDispatched(r)
  <2>1. /\ UNCHANGED <<assignment, successor, hub>> /\ Others(r) /\ exec'[r] = Idle
        /\ AttemptOf(r) \in Attempt
        /\ attempts'[AttemptOf(r)] = [attempts[AttemptOf(r)] EXCEPT !.dispatched = TRUE]
        /\ \A a \in Attempt : a # AttemptOf(r) => attempts'[a] = attempts[a]
    BY <1>3, MarkDispatchedType
  <2>2. RowGrows(AttemptOf(r))
    BY <1>0, <2>1 DEF RowGrows, AttemptRow
  <2>3. exec'[r].stage <= assignment.stage /\ ShowsStored(r)'
    BY <1>0, <2>1 DEF ShowsStored, Shown, Stage
  <2> QED
    BY <2>1, <2>2, <2>3, OneRowGrows DEF hub
<1>4. CASE MarkPosted(r)
  <2>1. RowGrows(AttemptOf(r)) /\ attempts'[AttemptOf(r)].verdict = attempts[AttemptOf(r)].verdict
    BY <1>0, <1>4, MarkPostedType DEF RowGrows, AttemptRow
  <2>2. Moves(r, "apply") /\ exec[r].pc = "posted"
    BY <1>4, MarkPostedType
  <2>3. AttemptOf(r)' = AttemptOf(r)
    BY <2>2 DEF AttemptOf, CommitOf, Moves
  <2>4. ShowsStored(r)'
    BY <1>0, <2>1, <2>2, <2>3 DEF ShowsStored, Shown, Moves
  <2> QED
    BY <1>0, <1>4, <2>1, <2>2, <2>4, MarkPostedType, OneRowGrows DEF hub, Moves
<1> QED
  BY <1>1, <1>2, <1>3, <1>4

LEMMA PersistStages ==
  ASSUME TypeInv, TypeInv', ReviewInv, NEW r \in Runner, Persist(r)
  PROVE  ReviewInv'
<1> DEFINE a == AttemptOf(r)
<1>1. CASE exec'[r] = Idle /\ UNCHANGED attempts
  BY <1>1, PersistType, OneStays DEF hub
<1>2. CASE /\ Moves(r, "review") /\ attempts[a].verdict = NoVerdict
           /\ attempts'[a].verdict = exec[r].verdict
           /\ attempts'[a].evidence = attempts[a].evidence + 1
           /\ attempts'[a].nonce = attempts[a].nonce
           /\ attempts'[a].recorded = attempts[a].recorded
           /\ \A b \in Attempt : b # a => attempts'[b] = attempts[b]
  <2>1. /\ exec[r].job[1] = "result" /\ exec[r].pc \in Reviewing /\ a \in Attempt
        /\ UNCHANGED <<assignment, successor, hub>> /\ Others(r)
    BY PersistType DEF Reviewing
  <2>2. exec[r].verdict # NoVerdict
    BY <2>1, ReviewingExecution DEF Verdict, NoVerdict
  <2>3. RowGrows(a)
    BY <1>2, <2>2 DEF RowGrows
  <2>4. AttemptOf(r)' = a
    BY <1>2 DEF AttemptOf, CommitOf, Moves
  <2>5. exec'[r].stage <= assignment.stage /\ ShowsStored(r)'
    BY <1>2, <2>4 DEF ShowsStored, Moves, ReviewInv
  <2> QED
    BY <1>2, <2>1, <2>3, <2>5, OneRowGrows DEF hub
<1> QED
  BY <1>1, <1>2, PersistType

LEMMA DispatchStages ==
  ASSUME TypeInv, TypeInv', ReviewInv, NEW r \in Runner, Dispatch(r)
  PROVE  ReviewInv'
<1> DEFINE new == NewRun(AttemptOf(r))
<1>1. /\ UNCHANGED <<rows, reviews, comments>> /\ Others(r)
      /\ exec'[r] = Idle \/ Moves(r, "mark")
      /\ runs' = [runs EXCEPT ![new] = attempts[AttemptOf(r)].nonce]
  BY DispatchType
<1>2. new[1] = AttemptOf(r)
  BY DEF NewRun
<1> HIDE DEF new
<1>3. \A run \in Run : runs'[run] = runs[run] \/ runs'[run] = attempts'[run[1]].nonce
  BY <1>1, <1>2 DEF rows, TypeInv, TypeOK
<1>4. Idle.pc = "idle" /\ Idle.stage = 1 /\ assignment.stage \in Stage
  BY DEF Idle, TypeInv, TypeOK
<1>5. exec'[r].stage <= assignment'.stage /\ ShowsStored(r)'
  BY <1>1, <1>4 DEF ShowsStored, Shown, Moves, ReviewInv, rows, Stage
<1>6. assignment.stage <= assignment'.stage
  BY <1>1, <1>4 DEF rows, Stage
<1>7. \A a \in Attempt : RowGrows(a)
  BY <1>1, SameRowGrows DEF rows
<1> QED
  BY <1>1, <1>3, <1>5, <1>6, <1>7, ReviewInvKept DEF Others

LEMMA ApplyStages ==
  ASSUME TypeInv, TypeInv', ReviewInv, NEW r \in Runner, ApplyTransition(r)
  PROVE  ReviewInv'
<1>1. /\ UNCHANGED <<successor, attempts, hub>> /\ Others(r)
      /\ exec'[r].pc \in {"idle", "announce"} /\ exec'[r].stage <= assignment'.stage
      /\ assignment'.stage = assignment.stage \/ assignment'.stage = assignment.stage + 1
  BY ApplyTransitionType
<1>2. assignment.stage <= assignment'.stage
  BY <1>1 DEF TypeInv, TypeOK, Stage
<1>3. \A a \in Attempt : RowGrows(a)
  BY <1>1, SameRowGrows
<1>4. ShowsStored(r)'
  BY <1>1 DEF ShowsStored, Shown
<1> QED
  BY <1>1, <1>2, <1>3, <1>4, ReviewInvKept DEF hub, Others

LEMMA ReviewInvStep == TypeInv /\ TypeInv' /\ ReviewInv /\ [Next]_vars => ReviewInv'
<1> SUFFICES ASSUME TypeInv, TypeInv', ReviewInv, [Next]_vars PROVE ReviewInv'
  OBVIOUS
<1>1. CASE \/ \E c \in Commit : LearnerPushes(c)
           \/ \E action \in PullAction : PullRequestChanges(action)
           \/ \E run \in Run : RunEnds(run)
  BY <1>1, FilingType, RowsStay DEF rows, hub
<1>2. CASE CreateSuccessor
  BY <1>2, SuccessorType, RowsStay DEF hub
<1>3. ASSUME NEW r \in Runner,
             \/ \E j \in Job : Claim(r, j)
             \/ HandlerFails(r) \/ Crash(r) \/ LeaseLapses(r)
      PROVE  ReviewInv'
  BY <1>3, QuietStages
<1>4. ASSUME NEW r \in Runner, HandlerStep(r) PROVE ReviewInv'
  BY <1>4, QuietStages, ReadForResultStages, FindReviewStages, PostReviewStages, RowStages,
     PersistStages, DispatchStages, ApplyStages DEF HandlerStep
<1>5. CASE UNCHANGED vars
  BY <1>5, RowsStay DEF vars
<1> QED
  BY <1>1, <1>2, <1>3, <1>4, <1>5 DEF Next

LEMMA ReviewInvHolds == Spec => []ReviewInv
BY ReviewInvInit, ReviewInvStep, TypeInvHolds, PTL DEF Spec

\* However many runs, retries and overlapping executions grade an attempt, the learner
\* model takes its evidence once, with its one evaluation (learner.py, evaluation.py).
THEOREM EvidenceOnce == Spec => []EvidenceAppliedOnce
<1>1. ReviewInv => EvidenceAppliedOnce
  BY DEF ReviewInv
<1> QED
  BY <1>1, ReviewInvHolds, PTL

\* A dispatched run carries the nonce stored with its attempt, so process_ci_result
\* never disowns a run of a retried or overlapping push (orchestrator.py).
THEOREM NonceKept == Spec => []RunsKeepTheirNonce
<1>1. ReviewInv => RunsKeepTheirNonce
  BY DEF ReviewInv
<1> QED
  BY <1>1, ReviewInvHolds, PTL

(* What a step that unlocks a stage has to show.                            *)
UnlocksNext ==
  assignment'.stage # assignment.stage =>
    /\ assignment'.stage = assignment.stage + 1
    /\ \E c \in Commit : attempts[<<c, assignment.stage>>].verdict.next = "new_stage"

LEMMA ApplyUnlocksNext ==
  ASSUME TypeInv, ReviewInv, NEW r \in Runner, ApplyTransition(r)
  PROVE  UnlocksNext
<1>1. CASE assignment'.stage = assignment.stage
  BY <1>1 DEF UnlocksNext
<1>2. CASE /\ assignment'.stage = assignment.stage + 1
           /\ exec[r].verdict.next = "new_stage" /\ ~(assignment.stage > exec[r].stage)
  <2>1. exec[r].job[1] = "result" /\ exec[r].pc = "apply"
    BY ApplyTransitionType
  <2>2. PICK run \in Run : run[1][1] \in Commit /\ AttemptOf(r) = <<run[1][1], exec[r].stage>>
    BY <2>1, ResultExecution
  <2>3. exec[r].stage = assignment.stage
    BY <1>2 DEF ReviewInv, TypeInv, TypeOK, Execution, Stage
  <2>4. attempts[AttemptOf(r)].verdict = exec[r].verdict
    BY <2>1 DEF ReviewInv, ShowsStored, Shown
  <2> QED
    BY <1>2, <2>2, <2>3, <2>4 DEF UnlocksNext
<1> QED
  BY <1>1, <1>2, ApplyTransitionType

LEMMA StepUnlocksNext == TypeInv /\ ReviewInv /\ [Next]_vars => UnlocksNext
<1> SUFFICES ASSUME TypeInv, ReviewInv, [Next]_vars PROVE UnlocksNext
  OBVIOUS
<1>1. CASE \/ \E c \in Commit : LearnerPushes(c)
           \/ \E action \in PullAction : PullRequestChanges(action)
           \/ \E run \in Run : RunEnds(run)
  BY <1>1, FilingType DEF rows, UnlocksNext
<1>2. CASE CreateSuccessor
  BY <1>2, SuccessorType DEF UnlocksNext
<1>3. ASSUME NEW r \in Runner,
             \/ \E j \in Job : Claim(r, j)
             \/ HandlerFails(r) \/ Crash(r) \/ LeaseLapses(r)
      PROVE  UnlocksNext
  BY <1>3, ClaimType, FailureType, LapseType DEF rows, UnlocksNext
<1>4. ASSUME NEW r \in Runner, HandlerStep(r) PROVE UnlocksNext
  <2>1. CASE ApplyTransition(r)
    BY <2>1, ApplyUnlocksNext
  <2>2. CASE ReadForPush(r) \/ RecordAttempt(r) \/ Submit(r) \/ BindDispatch(r)
             \/ Dispatch(r) \/ MarkDispatched(r)
    BY <2>2, ReadForPushType, RecordAttemptType, SubmitType, BindDispatchType, DispatchType,
       MarkDispatchedType DEF rows, UnlocksNext
  <2>3. CASE ReadForResult(r) \/ Grade(r) \/ Persist(r) \/ FindReview(r) \/ PostReview(r)
             \/ MarkPosted(r)
    BY <2>3, ReadForResultType, GradeType, PersistType, FindReviewType, PostReviewType,
       MarkPostedType DEF rows, UnlocksNext
  <2>4. CASE FindComment(r) \/ PostComment(r) \/ ReadForPull(r) \/ WriteStatus(r)
    BY <2>4, FindCommentType, PostCommentType, ReadForPullType, WriteStatusType
    DEF rows, UnlocksNext
  <2> QED
    BY <1>4, <2>1, <2>2, <2>3, <2>4 DEF HandlerStep
<1>5. CASE UNCHANGED vars
  BY <1>5 DEF vars, UnlocksNext
<1> QED
  BY <1>1, <1>2, <1>3, <1>4, <1>5 DEF Next

\* Stages are unlocked one at a time, each by a stored review that asked for it of an
\* attempt at the stage before, whichever executions overlap (assignments.py
\* apply_review_transition).
THEOREM UnlocksInOrder == Spec => StagesUnlockInOrder
<1>1. TypeInv /\ ReviewInv /\ [Next]_vars => [UnlocksNext]_vars
  BY StepUnlocksNext
<1>2. Spec => [][UnlocksNext]_vars
  BY <1>1, TypeInvHolds, ReviewInvHolds, PTL DEF Spec
<1> QED
  BY <1>2 DEF StagesUnlockInOrder, UnlocksNext

-----------------------------------------------------------------------------
(* What the learner sees, with one result handled at a time *)

(* Pushes and pull request changes may be handled beside it.                *)
OneResultAtATime ==
  \A q, r \in Runner : exec[q].job[1] = "result" /\ exec[r].job[1] = "result" => q = r

(* An execution looked before it posts, and nobody posted since.            *)
LooksFirst(r) ==
  /\ exec[r].pc = "post" => reviews[AttemptOf(r)] = 0
  /\ exec[r].pc = "posted" => reviews[AttemptOf(r)] = 1
  /\ exec[r].pc = "comment" => comments[exec[r].stage] = 0

SeenInv == SeenOnce /\ \A r \in Runner : LooksFirst(r)

SeenRow(a) ==
  /\ attempts[a].verdict # NoVerdict => attempts'[a].verdict # NoVerdict
  /\ attempts'[a].posted => attempts[a].posted \/ reviews[a] = 1

LEMMA SeenInvKept ==
  ASSUME SeenInv, UNCHANGED <<reviews, comments>>, \A a \in Attempt : SeenRow(a),
         \A r \in Runner : exec'[r] = exec[r] \/ LooksFirst(r)'
  PROVE  SeenInv'
<1>1. SeenOnce'
  BY DEF SeenInv, SeenOnce, SeenRow
<1>2. ASSUME NEW r \in Runner, exec'[r] = exec[r] PROVE LooksFirst(r)'
  <2>1. AttemptOf(r)' = AttemptOf(r)
    BY <1>2 DEF AttemptOf, CommitOf
  <2> QED
    BY <1>2, <2>1 DEF SeenInv, LooksFirst
<1> QED
  BY <1>1, <1>2 DEF SeenInv

LEMMA SeenElsewhere ==
  ASSUME SeenInv, UNCHANGED <<attempts, reviews, comments>>, NEW r \in Runner, Others(r),
         exec'[r] = Idle \/ exec'[r].pc \notin {"post", "posted", "comment"}
  PROVE  SeenInv'
<1>1. Idle.pc = "idle"
  BY DEF Idle
<1>2. LooksFirst(r)'
  BY <1>1 DEF LooksFirst
<1>3. \A a \in Attempt : SeenRow(a)
  BY DEF SeenRow
<1> QED
  BY <1>2, <1>3, SeenInvKept DEF Others

LEMMA SeenInvInit == Init => SeenInv
<1> SUFFICES ASSUME Init PROVE SeenInv
  OBVIOUS
<1>1. \A a \in Attempt : reviews[a] = 0 /\ ~attempts[a].posted
  BY DEF Init, NoAttempt
<1>2. SeenOnce
  BY <1>1 DEF SeenOnce, Init
<1>3. \A r \in Runner : LooksFirst(r)
  BY DEF Init, Idle, LooksFirst
<1> QED
  BY <1>2, <1>3 DEF SeenInv

LEMMA QuietSeen ==
  ASSUME TypeInv, SeenInv, NEW r \in Runner,
         \/ \E j \in Job : Claim(r, j)
         \/ HandlerFails(r) \/ Crash(r) \/ LeaseLapses(r)
         \/ ReadForPush(r) \/ Submit(r) \/ Dispatch(r) \/ ReadForResult(r) \/ Grade(r)
         \/ ApplyTransition(r) \/ ReadForPull(r) \/ WriteStatus(r)
  PROVE  SeenInv'
<1>1. CASE \E j \in Job : Claim(r, j)
  BY <1>1, ClaimType, SeenElsewhere DEF rows, hub, Others
<1>2. CASE HandlerFails(r) \/ Crash(r)
  BY <1>2, FailureType, SeenElsewhere DEF rows, hub, Others
<1>3. CASE LeaseLapses(r)
  BY <1>3, LapseType, SeenInvKept DEF rows, hub, SeenRow
<1>4. CASE ReadForPush(r) \/ Submit(r)
  BY <1>4, ReadForPushType, SubmitType, SeenElsewhere DEF rows, hub, Moves
<1>5. CASE Dispatch(r)
  BY <1>5, DispatchType, SeenElsewhere DEF rows, Moves
<1>6. CASE ReadForResult(r) \/ Grade(r)
  BY <1>6, ReadForResultType, GradeType, SeenElsewhere DEF rows, hub
<1>7. CASE ApplyTransition(r)
  BY <1>7, ApplyTransitionType, SeenElsewhere DEF hub
<1>8. CASE ReadForPull(r) \/ WriteStatus(r)
  BY <1>8, ReadForPullType, WriteStatusType, SeenElsewhere DEF rows, hub, Moves
<1> QED
  BY <1>1, <1>2, <1>3, <1>4, <1>5, <1>6, <1>7, <1>8

LEMMA RowSeen ==
  ASSUME TypeInv, SeenInv, NEW r \in Runner,
         RecordAttempt(r) \/ BindDispatch(r) \/ MarkDispatched(r) \/ Persist(r)
  PROVE  SeenInv'
<1>0. \A a \in Attempt : attempts[a] \in AttemptRow
  BY DEF TypeInv, TypeOK
<1>1. /\ UNCHANGED <<reviews, comments>> /\ Others(r)
      /\ exec'[r] = Idle \/ exec'[r].pc \notin {"post", "posted", "comment"}
  BY RecordAttemptType, BindDispatchType, MarkDispatchedType, PersistType DEF hub, Moves
<1>2. ASSUME NEW a \in Attempt PROVE SeenRow(a)
  <2>1. CASE RecordAttempt(r)
    <3>1. a # AttemptOf(r) => attempts'[a] = attempts[a]
      BY <2>1, RecordAttemptType
    <3>2. a = AttemptOf(r) => attempts'[a] = [attempts[a] EXCEPT !.recorded = TRUE]
      BY <2>1, RecordAttemptType
    <3> QED
      BY <1>0, <3>1, <3>2 DEF SeenRow, AttemptRow
  <2>2. CASE BindDispatch(r)
    <3>1. UNCHANGED attempts \/ (a # AttemptOf(r) => attempts'[a] = attempts[a])
      BY <2>2, BindDispatchType
    <3>2. UNCHANGED attempts \/ (a = AttemptOf(r) => attempts'[a] = Bound(attempts[a]))
      BY <2>2, BindDispatchType
    <3> QED
      BY <1>0, <3>1, <3>2 DEF SeenRow, AttemptRow, Bound
  <2>3. CASE MarkDispatched(r)
    <3>1. a # AttemptOf(r) => attempts'[a] = attempts[a]
      BY <2>3, MarkDispatchedType
    <3>2. a = AttemptOf(r) => attempts'[a] = [attempts[a] EXCEPT !.dispatched = TRUE]
      BY <2>3, MarkDispatchedType
    <3> QED
      BY <1>0, <3>1, <3>2 DEF SeenRow, AttemptRow
  <2>4. CASE Persist(r)
    <3>1. CASE UNCHANGED attempts
      BY <3>1 DEF SeenRow
    <3>2. CASE a # AttemptOf(r)
      BY <2>4, <3>2, PersistType DEF SeenRow
    <3>3. CASE /\ attempts[AttemptOf(r)].verdict = NoVerdict
               /\ attempts'[AttemptOf(r)].posted = attempts[AttemptOf(r)].posted
      BY <3>2, <3>3 DEF SeenRow
    <3> QED
      BY <2>4, <3>1, <3>2, <3>3, PersistType
  <2> QED
    BY <2>1, <2>2, <2>3, <2>4
<1>3. Idle.pc = "idle"
  BY DEF Idle
<1>4. LooksFirst(r)'
  BY <1>1, <1>3 DEF LooksFirst
<1> QED
  BY <1>1, <1>2, <1>4, SeenInvKept DEF Others

(* Only an execution for a result shows something.                          *)
LEMMA OthersDoNotShow ==
  ASSUME OneResultAtATime, TypeInv, NEW r \in Runner, exec[r].job[1] = "result", Others(r),
         NEW q \in Runner, q # r
  PROVE  LooksFirst(q)'
<1>1. exec'[q] = exec[q] /\ exec[q].job[1] # "result"
  BY DEF Others, OneResultAtATime
<1>2. Fits(exec[q])
  BY DEF TypeInv
<1>3. exec[q].pc \notin {"post", "posted", "comment"}
  BY <1>1, <1>2 DEF Fits, ResultJob
<1> QED
  BY <1>1, <1>3 DEF LooksFirst

LEMMA ReviewSeen ==
  ASSUME OneResultAtATime, TypeInv, ReviewInv, SeenInv, NEW r \in Runner,
         FindReview(r) \/ PostReview(r) \/ MarkPosted(r)
  PROVE  SeenInv'
<1> DEFINE a == AttemptOf(r)
<1>1. /\ exec[r].job[1] = "result" /\ exec[r].pc \in {"review", "post", "posted"}
      /\ a \in Attempt
  BY FindReviewType, PostReviewType, MarkPostedType
<1>2. attempts[a].verdict = exec[r].verdict /\ exec[r].verdict # NoVerdict
  <2>1. exec[r].verdict \in Verdict
    BY <1>1, ReviewingExecution DEF Reviewing
  <2>2. exec[r].verdict # NoVerdict
    BY <2>1 DEF Verdict, NoVerdict
  <2>3. attempts[a].verdict = exec[r].verdict
    BY <1>1 DEF ReviewInv, ShowsStored, Shown
  <2> QED
    BY <2>2, <2>3
<1>3. reviews[a] \in Nat /\ attempts[a] \in AttemptRow
  BY <1>1 DEF TypeInv, TypeOK
<1>4. LooksFirst(r) /\ SeenOnce
  BY DEF SeenInv
<1>5. ASSUME NEW pc, Moves(r, pc) PROVE AttemptOf(r)' = a
  BY <1>5 DEF AttemptOf, CommitOf, Moves
<1> HIDE DEF a
<1>6. CASE FindReview(r)
  <2>1. /\ UNCHANGED <<attempts, reviews, comments>> /\ Others(r)
        /\ \/ Moves(r, "posted") /\ reviews[a] > 0
           \/ Moves(r, "post") /\ ~(reviews[a] > 0)
    BY <1>6, FindReviewType DEF rows, hub, a
  <2>2. reviews[a] <= 1
    BY <1>1, <1>4 DEF SeenOnce
  <2>3. LooksFirst(r)'
    BY <1>3, <1>5, <2>1, <2>2 DEF LooksFirst, Moves
  <2> QED
    BY <2>1, <2>3, SeenInvKept DEF SeenRow, Others
<1>7. CASE PostReview(r)
  <2>1. /\ UNCHANGED <<attempts, comments>> /\ exec[r].pc = "post" /\ Others(r)
        /\ exec'[r] = Idle \/ Moves(r, "posted")
        /\ reviews' = [reviews EXCEPT ![a] = @ + 1]
    BY <1>7, PostReviewType DEF rows, a
  <2>2. reviews[a] = 0
    BY <1>4, <2>1 DEF LooksFirst, a
  <2>3. reviews'[a] = 1 /\ \A b \in Attempt : b # a => reviews'[b] = reviews[b]
    BY <1>1, <2>1, <2>2 DEF TypeInv, TypeOK
  <2>4. SeenOnce'
    BY <1>2, <1>4, <2>1, <2>3 DEF SeenOnce
  <2>5. Idle.pc = "idle"
    BY DEF Idle
  <2>6. LooksFirst(r)'
    BY <1>5, <2>1, <2>3, <2>5 DEF LooksFirst, Moves
  <2> QED
    BY <1>1, <2>1, <2>4, <2>6, OthersDoNotShow DEF SeenInv
<1>8. CASE MarkPosted(r)
  <2>1. /\ UNCHANGED <<reviews, comments>> /\ Others(r) /\ exec[r].pc = "posted"
        /\ Moves(r, "apply") /\ attempts'[a] = [attempts[a] EXCEPT !.posted = TRUE]
        /\ \A b \in Attempt : b # a => attempts'[b] = attempts[b]
    BY <1>8, MarkPostedType DEF hub, a
  <2>2. reviews[a] = 1
    BY <1>4, <2>1 DEF LooksFirst, a
  <2>3. \A b \in Attempt : SeenRow(b)
    BY <1>3, <2>1, <2>2 DEF SeenRow, AttemptRow
  <2>4. LooksFirst(r)'
    BY <2>1 DEF LooksFirst, Moves
  <2> QED
    BY <2>1, <2>3, <2>4, SeenInvKept DEF Others
<1> QED
  BY <1>6, <1>7, <1>8

LEMMA CommentSeen ==
  ASSUME OneResultAtATime, TypeInv, SeenInv, NEW r \in Runner,
         FindComment(r) \/ PostComment(r)
  PROVE  SeenInv'
<1>1. exec[r].stage \in Stage /\ comments[exec[r].stage] \in Nat
  BY DEF TypeInv, TypeOK, Execution
<1>2. CASE FindComment(r)
  <2>1. /\ UNCHANGED <<attempts, reviews, comments>> /\ Others(r)
        /\ exec'[r] = Idle \/ (Moves(r, "comment") /\ ~(comments[exec[r].stage] > 0))
    BY <1>2, FindCommentType DEF rows, hub
  <2>2. Idle.pc = "idle"
    BY DEF Idle
  <2>3. LooksFirst(r)'
    BY <1>1, <2>1, <2>2 DEF LooksFirst, Moves
  <2> QED
    BY <2>1, <2>3, SeenInvKept DEF SeenRow, Others
<1>3. CASE PostComment(r)
  <2> DEFINE s == exec[r].stage
  <2>1. /\ UNCHANGED <<attempts, reviews>> /\ exec[r].pc = "comment" /\ exec'[r] = Idle
        /\ exec[r].job[1] = "result" /\ Others(r)
        /\ comments' = [comments EXCEPT ![s] = @ + 1]
    BY <1>3, PostCommentType DEF rows
  <2>2. comments[s] = 0
    BY <2>1 DEF SeenInv, LooksFirst
  <2> HIDE DEF s
  <2>3. \A t \in Stage : comments'[t] = comments[t] \/ comments'[t] = 1
    BY <2>1, <2>2 DEF TypeInv, TypeOK
  <2>4. SeenOnce'
    BY <2>1, <2>3 DEF SeenInv, SeenOnce
  <2>5. Idle.pc = "idle"
    BY DEF Idle
  <2>6. LooksFirst(r)'
    BY <2>1, <2>5 DEF LooksFirst
  <2> QED
    BY <2>1, <2>4, <2>6, OthersDoNotShow DEF SeenInv
<1> QED
  BY <1>2, <1>3

LEMMA SeenInvStep ==
  OneResultAtATime /\ TypeInv /\ ReviewInv /\ SeenInv /\ [Next]_vars => SeenInv'
<1> SUFFICES ASSUME OneResultAtATime, TypeInv, ReviewInv, SeenInv, [Next]_vars PROVE SeenInv'
  OBVIOUS
<1>1. CASE \/ \E c \in Commit : LearnerPushes(c)
           \/ \E action \in PullAction : PullRequestChanges(action)
           \/ \E run \in Run : RunEnds(run)
  BY <1>1, FilingType, SeenInvKept DEF rows, hub, SeenRow
<1>2. CASE CreateSuccessor
  BY <1>2, SuccessorType, SeenInvKept DEF hub, SeenRow
<1>3. ASSUME NEW r \in Runner,
             \/ \E j \in Job : Claim(r, j)
             \/ HandlerFails(r) \/ Crash(r) \/ LeaseLapses(r)
      PROVE  SeenInv'
  BY <1>3, QuietSeen
<1>4. ASSUME NEW r \in Runner, HandlerStep(r) PROVE SeenInv'
  BY <1>4, QuietSeen, RowSeen, ReviewSeen, CommentSeen DEF HandlerStep
<1>5. CASE UNCHANGED vars
  BY <1>5, SeenInvKept DEF vars, SeenRow
<1> QED
  BY <1>1, <1>2, <1>3, <1>4, <1>5 DEF Next

(* While one result is handled at a time, beside any pushes and whatever     *)
(* stalls, the learner sees each review and each stage announcement once, and *)
(* only of a stored evaluation: ensure_review and ensure_comment look for the *)
(* marker first (github.py), whatever responses were lost. Two results of one *)
(* attempt, reported of a push that was dispatched twice, need no stall.     *)
THEOREM ResultsSeenOnce == Spec /\ []OneResultAtATime => []SeenOnce
<1>1. SeenInv => SeenOnce
  BY DEF SeenInv
<1>2. OneResultAtATime /\ TypeInv /\ ReviewInv /\ SeenInv /\ [Next]_vars => SeenInv'
  BY SeenInvStep
<1> QED
  BY <1>1, <1>2, SeenInvInit, TypeInvHolds, ReviewInvHolds, PTL DEF Spec

(* One runner handles one result at a time.                                *)
THEOREM SeenOnceAlone ==
  ASSUME \A q, r \in Runner : q = r
  PROVE  Spec => []SeenOnce
<1>1. OneResultAtATime
  BY DEF OneResultAtATime
<1> QED
  BY <1>1, ResultsSeenOnce, PTL

-----------------------------------------------------------------------------
(* The queue's contract                                                    *)

Executes(q, j) == exec[q].pc # "idle" /\ exec[q].job = j

LEMMA ExecutingMeans ==
  ASSUME NEW j \in Job
  PROVE  /\ Executing[j] = {q \in Runner : Executes(q, j)}
         /\ Executing'[j] = {q \in Runner : Executes(q, j)'}
BY DEF Executing, Executes

LEMMA ContractOperators ==
  ASSUME NEW entry, NEW r, NEW outcome
  PROVE  /\ Contract!Filed(entry) = Filed(entry)
         /\ Contract!IsClaimable(entry) <=> IsClaimable(entry)
         /\ Contract!Taken(entry, r) = Taken(entry, r)
         /\ Contract!Lapsed(entry) = Lapsed(entry)
         /\ Contract!Reported(entry, r, outcome) = Reported(entry, r, outcome)
<1>1. Contract!Filed(entry) = Filed(entry) /\ Contract!Taken(entry, r) = Taken(entry, r)
      /\ (Contract!IsClaimable(entry) <=> IsClaimable(entry))
  BY DEF Contract!Filed, Filed, Contract!Taken, Taken, Contract!IsClaimable, IsClaimable
<1>2. Contract!Lapsed(entry) = Lapsed(entry)
  BY DEF Contract!Lapsed, Lapsed
<1>3. Contract!Reported(entry, r, outcome) = Reported(entry, r, outcome)
  BY <1>2 DEF Contract!Reported, Reported
<1> QED
  BY <1>1, <1>2, <1>3

(* A job whose row and executions stay as they are.                        *)
LEMMA JobRests ==
  ASSUME NEW j \in Job, jobs'[j] = jobs[j],
         \A q \in Runner : Executes(q, j)' <=> Executes(q, j)
  PROVE  Contract!JobStep(j)
<1>1. Executing'[j] = Executing[j]
  BY ExecutingMeans
<1> QED
  BY <1>1 DEF Contract!JobStep, Contract!Rest

(* A step of a handler that goes on, and one of nobody.                     *)
GoesOn(r) ==
  /\ UNCHANGED jobs /\ Others(r)
  /\ exec[r].pc # "idle" /\ exec'[r].pc # "idle" /\ exec'[r].job = exec[r].job

LEMMA HandlerGoesOn ==
  ASSUME NEW r \in Runner, GoesOn(r)
  PROVE  Contract!Next
<1> SUFFICES ASSUME NEW j \in Job PROVE Contract!JobStep(j)
  BY DEF Contract!Next
<1>1. \A q \in Runner : Executes(q, j)' <=> Executes(q, j)
  BY DEF Executes, Others, GoesOn
<1> QED
  BY <1>1, JobRests DEF GoesOn

LEMMA WorkerRests ==
  ASSUME UNCHANGED <<jobs, exec>>
  PROVE  Contract!Next
<1> SUFFICES ASSUME NEW j \in Job PROVE Contract!JobStep(j)
  BY DEF Contract!Next
<1>1. \A q \in Runner : Executes(q, j)' <=> Executes(q, j)
  BY DEF Executes
<1> QED
  BY <1>1, JobRests

(* A handler that ends and reports.                                        *)
Reports(r) == exec[r].pc # "idle" /\ \E outcome \in Outcome : Finish(r, outcome)

LEMMA HandlerReports ==
  ASSUME TypeInv, NEW r \in Runner, Reports(r)
  PROVE  Contract!Next
<1> PICK outcome \in Outcome : Finish(r, outcome)
  BY DEF Reports
<1> DEFINE k == exec[r].job
           out == Reported(jobs[k], r, outcome)
<1>1. /\ k \in Job /\ jobs \in [Job -> JobRow] /\ jobs' = [jobs EXCEPT ![k] = out]
      /\ exec \in [Runner -> Execution] /\ exec' = [exec EXCEPT ![r] = Idle]
  BY JobOfExecution DEF Finish, Reports, TypeInv, TypeOK
<1>2. Contract!Reported(jobs[k], r, outcome) = out
  BY ContractOperators
<1>3. Executes(r, k) /\ \A j \in Job : j # k => ~Executes(r, j)
  BY DEF Executes, Reports
<1> HIDE DEF k, out
<1>4. /\ \A q \in Runner : q # r => \A j \in Job : Executes(q, j)' <=> Executes(q, j)
      /\ \A j \in Job : ~Executes(r, j)'
  BY <1>1 DEF Executes, Idle
<1>5. Contract!JobStep(k)
  <2>1. jobs'[k] = out
    BY <1>1
  <2>2. r \in Executing[k] /\ Executing'[k] = Executing[k] \ {r}
    BY <1>1, <1>3, <1>4, ExecutingMeans
  <2> QED
    BY <1>2, <2>1, <2>2 DEF Contract!JobStep, Contract!Finish, Outcome
<1>6. ASSUME NEW j \in Job, j # k PROVE Contract!JobStep(j)
  <2>1. jobs'[j] = jobs[j]
    BY <1>1, <1>6
  <2>2. \A q \in Runner : Executes(q, j)' <=> Executes(q, j)
    BY <1>3, <1>4, <1>6
  <2> QED
    BY <2>1, <2>2, JobRests
<1> QED
  BY <1>5, <1>6 DEF Contract!Next

(* Somebody files a job, which no execution works on yet or which was filed. *)
LEMMA JobIsFiled ==
  ASSUME TypeInv, NEW k \in Job, jobs' = [jobs EXCEPT ![k] = Filed(jobs[k])],
         \A q \in Runner, j \in Job : Executes(q, j)' <=> Executes(q, j)
  PROVE  Contract!Next
<1> SUFFICES ASSUME NEW j \in Job PROVE Contract!JobStep(j)
  BY DEF Contract!Next
<1>1. jobs \in [Job -> JobRow]
  BY DEF TypeInv, TypeOK
<1>2. CASE j # k \/ jobs[k].status # "absent"
  <2>1. jobs'[j] = jobs[j]
    BY <1>1, <1>2 DEF Filed
  <2> QED
    BY <2>1, JobRests
<1>3. CASE j = k /\ jobs[k].status = "absent"
  <2>1. jobs'[j] = Contract!Filed(jobs[j])
    BY <1>1, <1>3, ContractOperators
  <2>2. Executing'[j] = Executing[j]
    BY ExecutingMeans
  <2> QED
    BY <1>3, <2>1, <2>2 DEF Contract!JobStep, Contract!Accept
<1> QED
  BY <1>2, <1>3

(* A runner that takes a job.                                              *)
LEMMA JobIsTaken ==
  ASSUME TypeInv, NEW r \in Runner, NEW k \in Job, Claim(r, k)
  PROVE  Contract!Next
<1> DEFINE out == Taken(jobs[k], r)
<1>1. /\ jobs \in [Job -> JobRow] /\ jobs' = [jobs EXCEPT ![k] = out]
      /\ IsClaimable(jobs[k]) /\ exec[r].pc = "idle"
  BY DEF Claim, TypeInv, TypeOK
<1>2. jobs[k].tries < MaxTries
  BY <1>1 DEF TypeInv, RowFits
<1>3. Contract!Taken(jobs[k], r) = out /\ Contract!IsClaimable(jobs[k])
  BY <1>1, ContractOperators
<1> HIDE DEF out
<1>4. exec'[r].job = k /\ exec'[r].pc = "read" /\ Others(r)
  BY ClaimType DEF Others
<1>5. /\ \A q \in Runner : q # r => \A j \in Job : Executes(q, j)' <=> Executes(q, j)
      /\ \A j \in Job : ~Executes(r, j) /\ (Executes(r, j)' <=> j = k)
  BY <1>1, <1>4 DEF Executes, Others
<1>6. Contract!JobStep(k)
  <2>1. jobs'[k] = out
    BY <1>1
  <2>2. r \notin Executing[k] /\ Executing'[k] = Executing[k] \cup {r}
    BY <1>5, ExecutingMeans
  <2> QED
    BY <1>2, <1>3, <2>1, <2>2 DEF Contract!JobStep, Contract!Claim
<1>7. ASSUME NEW j \in Job, j # k PROVE Contract!JobStep(j)
  <2>1. jobs'[j] = jobs[j]
    BY <1>1, <1>7
  <2>2. \A q \in Runner : Executes(q, j)' <=> Executes(q, j)
    BY <1>5, <1>7
  <2> QED
    BY <2>1, <2>2, JobRests
<1> QED
  BY <1>6, <1>7 DEF Contract!Next

(* A lease that ends under its handler.                                     *)
LEMMA LeaseIsLost ==
  ASSUME TypeInv, NEW r \in Runner, LeaseLapses(r)
  PROVE  Contract!Next
<1> DEFINE k == exec[r].job
           out == Lapsed(jobs[k])
<1>1. /\ k \in Job /\ jobs \in [Job -> JobRow] /\ jobs' = [jobs EXCEPT ![k] = out]
      /\ UNCHANGED exec /\ jobs[k].holder = r /\ Stalls
  BY JobOfExecution DEF LeaseLapses, TypeInv, TypeOK
<1>2. Contract!Lapsed(jobs[k]) = out /\ r # NoRunner
  BY ContractOperators, HandlerJobsAssumption
<1> HIDE DEF k, out
<1>3. \A j \in Job, q \in Runner : Executes(q, j)' <=> Executes(q, j)
  BY <1>1 DEF Executes
<1>4. Contract!JobStep(k)
  <2>1. jobs'[k] = out
    BY <1>1
  <2>2. Executing'[k] = Executing[k]
    BY <1>1, <1>3, ExecutingMeans
  <2> QED
    BY <1>1, <1>2, <2>1, <2>2 DEF Contract!JobStep, Contract!Lapse
<1>5. ASSUME NEW j \in Job, j # k PROVE Contract!JobStep(j)
  <2>1. jobs'[j] = jobs[j]
    BY <1>1, <1>5
  <2> QED
    BY <1>3, <2>1, JobRests
<1> QED
  BY <1>4, <1>5 DEF Contract!Next

LEMMA ContractInit == Init => Contract!Init
<1> SUFFICES ASSUME Init PROVE Contract!Init
  OBVIOUS
<1>1. Executing = [j \in Job |-> {}]
  BY DEF Init, Idle, Executing
<1>2. Contract!Unfiled = Unfiled
  BY DEF Contract!Unfiled, Unfiled
<1> QED
  BY <1>1, <1>2 DEF Init, Contract!Init

LEMMA GoToGoesOn ==
  ASSUME TypeInv, NEW r \in Runner, NEW pc \in Step \ {"idle"}, GoTo(r, pc), exec[r].pc # "idle"
  PROVE  GoesOn(r)
BY DEF GoTo, GoesOn, Others, TypeInv, TypeOK, Execution

LEMMA HandlerKeepsContract ==
  ASSUME TypeInv, NEW r \in Runner, HandlerStep(r)
  PROVE  GoesOn(r) \/ Reports(r)
<1>1. CASE ReadForPush(r) \/ RecordAttempt(r) \/ Grade(r) \/ FindReview(r) \/ MarkPosted(r)
  <2>1. exec[r].pc # "idle" /\ UNCHANGED jobs
    BY <1>1 DEF ReadForPush, RecordAttempt, Grade, FindReview, MarkPosted, At, GoTo
  <2>2. Others(r) /\ exec'[r].pc # "idle" /\ exec'[r].job = exec[r].job
    BY <1>1, ReadForPushType, RecordAttemptType, GradeType, FindReviewType, MarkPostedType
       DEF Moves
  <2> QED
    BY <2>1, <2>2 DEF GoesOn
<1>2. CASE ReadForPull(r)
  <2>1. exec[r].pc # "idle" /\ UNCHANGED jobs
    BY <1>2 DEF ReadForPull, At
  <2> QED
    BY <1>2, <2>1, ReadForPullType DEF GoesOn, Moves
<1>3. CASE Submit(r) \/ BindDispatch(r) \/ Dispatch(r) \/ MarkDispatched(r)
  <2>1. /\ exec[r].pc # "idle"
        /\ \/ \E pc \in Step \ {"idle"} : GoTo(r, pc)
           \/ \E outcome \in Outcome : Finish(r, outcome)
    BY <1>3 DEF Submit, BindDispatch, Dispatch, MarkDispatched, At, Step, Outcome
  <2> QED
    BY <2>1, GoToGoesOn DEF Reports
<1>4. CASE Persist(r) \/ PostReview(r) \/ FindComment(r) \/ PostComment(r) \/ WriteStatus(r)
  <2>1. /\ exec[r].pc # "idle"
        /\ \/ \E pc \in Step \ {"idle"} : GoTo(r, pc)
           \/ \E outcome \in Outcome : Finish(r, outcome)
    BY <1>4 DEF Persist, PostReview, FindComment, PostComment, WriteStatus, At, Step, Outcome
  <2> QED
    BY <2>1, GoToGoesOn DEF Reports
<1>5. CASE ReadForResult(r)
  <2>1. exec[r].pc # "idle"
    BY <1>5 DEF ReadForResult, At
  <2>2. CASE Finish(r, "refused")
    BY <2>1, <2>2 DEF Reports, Outcome
  <2>3. CASE ~Finish(r, "refused")
    <3> DEFINE Row(s) == attempts[<<CommitOf(r), s>>]
               Pc(s) == IF Row(s).verdict = NoVerdict THEN "grade"
                        ELSE IF Row(s).posted THEN "apply" ELSE "review"
    <3>1. PICK s \in Stage :
            /\ exec' = [exec EXCEPT ![r].stage = s, ![r].verdict = Row(s).verdict,
                                    ![r].pc = Pc(s)]
            /\ UNCHANGED jobs
      BY <1>5, <2>3 DEF ReadForResult
    <3>2. PICK v, pc : v = Row(s).verdict /\ pc = Pc(s)
      OBVIOUS
    <3>3. pc # "idle"
      BY <3>2
    <3>4. exec' = [exec EXCEPT ![r].stage = s, ![r].verdict = v, ![r].pc = pc]
      BY <3>1, <3>2
    <3> HIDE DEF Row, Pc
    <3>5. Others(r) /\ exec'[r].pc = pc /\ exec'[r].job = exec[r].job
      BY <3>4 DEF Others, TypeInv, TypeOK, Execution
    <3> QED
      BY <2>1, <3>1, <3>3, <3>5 DEF GoesOn
  <2> QED
    BY <2>2, <2>3
<1>6. CASE ApplyTransition(r)
  <2>1. exec[r].pc # "idle"
    BY <1>6 DEF ApplyTransition, At
  <2>2. CASE \E outcome \in Outcome : Finish(r, outcome)
    BY <2>1, <2>2 DEF Reports
  <2>3. CASE ~\E outcome \in Outcome : Finish(r, outcome)
    <3>1. UNCHANGED jobs /\ \E s : exec' = [exec EXCEPT ![r].pc = "announce", ![r].stage = s]
      BY <1>6, <2>3 DEF ApplyTransition, Outcome
    <3>2. Others(r) /\ exec'[r].pc = "announce" /\ exec'[r].job = exec[r].job
      BY <3>1 DEF Others, TypeInv, TypeOK, Execution
    <3> QED
      BY <2>1, <3>1, <3>2 DEF GoesOn
  <2> QED
    BY <2>2, <2>3
<1> QED
  BY <1>1, <1>2, <1>3, <1>4, <1>5, <1>6 DEF HandlerStep

LEMMA ContractStep == TypeInv /\ [Next]_vars => Contract!Next
<1> SUFFICES ASSUME TypeInv, [Next]_vars PROVE Contract!Next
  OBVIOUS
<1>1. ASSUME NEW j \in Job, File(j) PROVE Contract!Next
  <2>1. \A q \in Runner, k \in Job : Executes(q, k)' <=> Executes(q, k)
    BY <1>1 DEF File, Executes
  <2> QED
    BY <1>1, <2>1, JobIsFiled DEF File
<1>2. CASE \/ \E c \in Commit : LearnerPushes(c)
           \/ \E action \in PullAction : PullRequestChanges(action)
           \/ \E run \in Run : RunEnds(run)
  BY <1>1, <1>2 DEF LearnerPushes, PullRequestChanges, RunEnds, Job
<1>3. CASE CreateSuccessor
  BY <1>3, WorkerRests DEF CreateSuccessor
<1>4. ASSUME NEW r \in Runner, NEW j \in Job, Claim(r, j) PROVE Contract!Next
  BY <1>4, JobIsTaken
<1>5. ASSUME NEW r \in Runner, HandlerFails(r) \/ Crash(r) PROVE Reports(r)
  BY <1>5 DEF HandlerFails, Crash, Reports, Outcome
<1>6. CASE UNCHANGED vars
  BY <1>6, WorkerRests DEF vars
<1> QED
  BY <1>2, <1>3, <1>4, <1>5, <1>6, HandlerKeepsContract, HandlerGoesOn, HandlerReports,
     LeaseIsLost DEF Next

(* The handlers of pushes, results and pull requests use the queue as its    *)
(* contract allows and in no other way: a job is filed once, taken when      *)
(* nobody holds it, reported by the execution that ends, else left alone.    *)
THEOREM ReviewUnderContract == Spec => RunsUnderContract
<1>1. Init => Contract!Init
  BY ContractInit
<1>2. TypeInv /\ [Next]_vars => [Contract!Next]_(Contract!contractVars)
  BY ContractStep
<1>3. Spec => []TypeInv
  BY TypeInvInit, TypeInvStep, PTL DEF Spec
<1> QED
  BY <1>1, <1>2, <1>3, PTL DEF Spec, RunsUnderContract, Contract!Spec
=============================================================================
