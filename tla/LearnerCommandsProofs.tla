------------------------ MODULE LearnerCommandsProofs ------------------------
(***************************************************************************)
(* TLAPS proofs about LearnerCommands, for any commands, levels, runners   *)
(* and tries, with or without a terminal.                                  *)
(***************************************************************************)
EXTENDS LearnerCommands, FiniteSetTheorems, TLAPS

(* Which steps each kind of job takes.                                     *)
Fits(e) ==
  \/ e.job = NoJob /\ e.pc = "idle"
  \/ \E c \in Command :
       /\ e.job = <<"command", c>> /\ e.try \in 1..MaxTries
       /\ \/ e.pc = "read"
          \/ c \in Hint /\ e.pc \in {"store", "show"}
          \/ c \in Appeal /\ e.pc \in {"create", "enqueue", "promise", "nothing"}
  \/ \E a \in AppealId : e.job = <<"review", a>> /\ e.pc \in {"read", "grade", "post"}

(* A job that may be claimed has a try left, and one not filed used none.  *)
RowFits(entry) ==
  /\ entry.status = "absent" => entry.tries = 0
  /\ IsClaimable(entry) => entry.tries < MaxTries

TypeInv ==
  /\ TypeOK
  /\ \A r \in Runner : Fits(exec[r])
  /\ \A j \in Job : RowFits(jobs[j])

-----------------------------------------------------------------------------
(* Rows of the job table *)

LEMMA RowFiled ==
  ASSUME NEW entry \in JobRow, RowFits(entry)
  PROVE  /\ Filed(entry) \in JobRow /\ RowFits(Filed(entry)) /\ Filed(entry).status # "absent"
         /\ Filed(entry).status = "completed" => entry.status = "completed"
         /\ Filed(entry).tries = entry.tries
BY HandlerJobsAssumption DEF Filed, JobRow, RowFits, IsClaimable

LEMMA RowTaken ==
  ASSUME NEW entry \in JobRow, IsClaimable(entry), RowFits(entry), NEW r \in Runner
  PROVE  /\ Taken(entry, r) \in JobRow /\ RowFits(Taken(entry, r))
         /\ Taken(entry, r).status = "open" /\ Taken(entry, r).tries = entry.tries + 1
         /\ entry.tries + 1 \in 1..MaxTries
<1> DEFINE n == entry.tries + 1
           out == [entry EXCEPT !.holder = r, !.tries = n]
<1>1. n \in 1..MaxTries /\ n \in 0..MaxTries /\ r # NoRunner
  BY HandlerJobsAssumption DEF JobRow, RowFits
<1>2. Taken(entry, r) = out
  BY DEF Taken
<1> HIDE DEF n
<1>3. /\ out \in JobRow /\ out.status = entry.status /\ out.tries = n
      /\ out.holder = r /\ entry.status = "open"
  BY <1>1 DEF JobRow, IsClaimable
<1> HIDE DEF out
<1>4. RowFits(out)
  BY <1>1, <1>3 DEF RowFits, IsClaimable
<1> QED
  BY <1>1, <1>2, <1>3, <1>4 DEF n

LEMMA RowLapsed ==
  ASSUME NEW entry \in JobRow
  PROVE  /\ Lapsed(entry) \in JobRow /\ RowFits(Lapsed(entry))
         /\ Lapsed(entry).status \in {"open", "dead_letter"}
         /\ Lapsed(entry).tries = entry.tries
<1> DEFINE st == IF entry.tries = MaxTries THEN "dead_letter" ELSE "open"
           out == [entry EXCEPT !.holder = NoRunner, !.status = st]
<1>1. st \in {"dead_letter", "open"} /\ (st = "open" => entry.tries # MaxTries)
  OBVIOUS
<1>2. entry.tries \in 0..MaxTries
  BY DEF JobRow
<1> HIDE DEF st
<1>3. out \in JobRow /\ out.tries = entry.tries /\ out.status = st
  BY <1>1 DEF JobRow
<1>4. Lapsed(entry) = out
  BY DEF Lapsed, st
<1> HIDE DEF out
<1> QED
  BY <1>1, <1>2, <1>3, <1>4, HandlerJobsAssumption DEF RowFits, IsClaimable

JobOutcome == {"ok", "retry", "refused"}
LEMMA RowReported ==
  ASSUME NEW entry \in JobRow, RowFits(entry), NEW r \in Runner, NEW outcome \in JobOutcome
  PROVE  /\ Reported(entry, r, outcome) \in JobRow
         /\ RowFits(Reported(entry, r, outcome))
         /\ Reported(entry, r, outcome).tries = entry.tries
         /\ Reported(entry, r, outcome).status = "absent" => entry.status = "absent"
         /\ Reported(entry, r, outcome).status = "completed" =>
              entry.status = "completed" \/ outcome = "ok"
<1>1. CASE entry.holder # r
  BY <1>1 DEF Reported
<1>2. CASE entry.holder = r /\ outcome = "ok"
  <2>1. Reported(entry, r, outcome) = [entry EXCEPT !.holder = NoRunner, !.status = "completed"]
    BY <1>2 DEF Reported
  <2> QED
    BY <1>2, <2>1 DEF JobRow, RowFits, IsClaimable
<1>3. CASE entry.holder = r /\ outcome = "retry"
  <2>1. Reported(entry, r, outcome) = Lapsed(entry)
    BY <1>3 DEF Reported
  <2> QED
    BY <2>1, RowLapsed
<1>4. CASE entry.holder = r /\ outcome = "refused"
  <2>1. Reported(entry, r, outcome) = [entry EXCEPT !.holder = NoRunner, !.status = "dead_letter"]
    BY <1>4 DEF Reported
  <2> QED
    BY <2>1 DEF JobRow, RowFits, IsClaimable
<1> QED
  BY <1>1, <1>2, <1>3, <1>4 DEF JobOutcome

-----------------------------------------------------------------------------
(* Steps of the worker *)

Table(J) == J \in [Job -> JobRow] /\ \A j \in Job : RowFits(J[j])
Executions(E) == E \in [Runner -> Execution] /\ \A r \in Runner : Fits(E[r])
Others(r) == \A q \in Runner : q # r => exec'[q] = exec[q]

(* How a step may change the table: nothing filed is lost, a job is         *)
(* completed by a handler that says so, and tries are counted by claims.    *)
NoneLost == \A j \in Job : jobs'[j].status = "absent" => jobs[j].status = "absent"
SameTries == \A j \in Job : jobs'[j].tries = jobs[j].tries
CompletesOnly(S) ==
  \A j \in Job : jobs'[j].status = "completed" => jobs[j].status = "completed" \/ j \in S

LEMMA SameTable ==
  ASSUME UNCHANGED jobs PROVE NoneLost /\ SameTries /\ CompletesOnly({})
BY DEF NoneLost, SameTries, CompletesOnly

LEMMA ExecutionMoves ==
  ASSUME TypeInv, NEW r \in Runner, NEW e \in Execution, Fits(e),
         exec' = [exec EXCEPT ![r] = e]
  PROVE  Executions(exec') /\ exec'[r] = e /\ Others(r)
<1>1. exec \in [Runner -> Execution] /\ \A q \in Runner : Fits(exec[q])
  BY DEF TypeInv, TypeOK
<1> QED
  BY <1>1 DEF Executions, Others

LEMMA JobOfExecution ==
  ASSUME TypeInv, NEW r \in Runner, exec[r].pc # "idle"
  PROVE  exec[r].job \in Job
BY DEF TypeInv, Fits, Job

LEMMA IdleExecution ==
  /\ Idle \in Execution /\ Fits(Idle) /\ Idle.pc = "idle" /\ Idle.job = NoJob
  /\ \A c \in Command : Idle.job # <<"command", c>>
  /\ \A a \in AppealId : Idle.job # <<"review", a>>
<1>1. 0 \in 0..MaxTries /\ 1 \in Level
  BY HandlerJobsAssumption, CommandsAssumption DEF Level
<1> QED
  BY <1>1 DEF Idle, Execution, Step, Fits, NoJob

LEMMA FinishStep ==
  ASSUME TypeInv, NEW r \in Runner, NEW outcome \in JobOutcome, Finish(r, outcome),
         exec[r].pc # "idle",
         NEW S, outcome = "ok" => exec[r].job \in S
  PROVE  /\ Table(jobs') /\ Executions(exec') /\ exec'[r] = Idle /\ Others(r)
         /\ NoneLost /\ SameTries /\ CompletesOnly(S)
         /\ \A j \in Job : j # exec[r].job => jobs'[j] = jobs[j]
<1> DEFINE j == exec[r].job
           out == Reported(jobs[j], r, outcome)
<1>1. Executions(exec') /\ exec'[r] = Idle /\ Others(r)
  BY ExecutionMoves, IdleExecution DEF Finish
<1>2. j \in Job /\ jobs[j] \in JobRow /\ RowFits(jobs[j]) /\ jobs \in [Job -> JobRow]
      /\ \A k \in Job : RowFits(jobs[k])
  BY JobOfExecution DEF TypeInv, TypeOK
<1>3. /\ out \in JobRow /\ RowFits(out)
      /\ out.tries = jobs[j].tries
      /\ out.status = "absent" => jobs[j].status = "absent"
      /\ out.status = "completed" => jobs[j].status = "completed" \/ outcome = "ok"
  BY <1>2, RowReported
<1>4. jobs' = [jobs EXCEPT ![j] = out]
  BY DEF Finish
<1>5. outcome = "ok" => j \in S
  OBVIOUS
<1> HIDE DEF j, out
<1>6. Table(jobs')
  BY <1>2, <1>3, <1>4 DEF Table
<1>7. \A k \in Job : k # j => jobs'[k] = jobs[k]
  BY <1>2, <1>4
<1>8. NoneLost /\ SameTries /\ CompletesOnly(S)
  BY <1>2, <1>3, <1>4, <1>5 DEF NoneLost, SameTries, CompletesOnly
<1> QED
  BY <1>1, <1>6, <1>7, <1>8 DEF j

-----------------------------------------------------------------------------
(* Types, and what each step does *)

LEMMA TypeInvInit == Init => TypeInv
<1> SUFFICES ASSUME Init PROVE TypeInv
  OBVIOUS
<1>1. Unfiled \in JobRow /\ RowFits(Unfiled)
  BY HandlerJobsAssumption DEF Unfiled, JobRow, RowFits, IsClaimable
<1>2. Table(jobs)
  BY <1>1 DEF Init, Table
<1>3. Executions(exec)
  BY IdleExecution DEF Init, Executions
<1>4. 1 \in Level
  BY CommandsAssumption DEF Level
<1>5. appeals \in [AppealId -> AppealRow]
  BY DEF Init, NoAppeal, AppealRow
<1> QED
  BY <1>2, <1>3, <1>4, <1>5 DEF Init, TypeInv, TypeOK, Table, Executions

(* A step of the worker that writes no table.                              *)
OnlyWorks == UNCHANGED <<hints, appeals, reviewed, promised, terminal>>

LEMMA OnlyExecutes ==
  ASSUME TypeInv, OnlyWorks, Table(jobs'), Executions(exec')
  PROVE  TypeInv'
BY DEF TypeInv, TypeOK, OnlyWorks, Table, Executions

(* The execution moves on with the same job, try and level.                *)
Moves(r, pc) ==
  /\ exec'[r].pc = pc /\ exec'[r].job = exec[r].job
  /\ exec'[r].try = exec[r].try /\ exec'[r].level = exec[r].level

LEMMA MoveStep ==
  ASSUME TypeInv, NEW r \in Runner, NEW pc \in Step,
         exec' = [exec EXCEPT ![r].pc = pc],
         Fits([exec[r] EXCEPT !.pc = pc])
  PROVE  Executions(exec') /\ Moves(r, pc) /\ Others(r)
<1> DEFINE e == [exec[r] EXCEPT !.pc = pc]
<1>1. /\ e \in Execution /\ e.job = exec[r].job /\ e.pc = pc
      /\ e.try = exec[r].try /\ e.level = exec[r].level
  BY DEF TypeInv, TypeOK, Execution
<1>2. exec' = [exec EXCEPT ![r] = e] /\ Fits(e)
  OBVIOUS
<1> HIDE DEF e
<1> QED
  BY <1>1, <1>2, ExecutionMoves DEF Moves

LEMMA CommandExecution ==
  ASSUME TypeInv, NEW r \in Runner, NEW pc, At(r, "command", pc)
  PROVE  \E c \in Command :
           exec[r].job = <<"command", c>> /\ exec[r].job[2] = c /\ exec[r].try \in 1..MaxTries
BY DEF At, TypeInv, Fits, NoJob

LEMMA ReviewExecution ==
  ASSUME TypeInv, NEW r \in Runner, NEW pc, At(r, "review", pc)
  PROVE  \E a \in AppealId : exec[r].job = <<"review", a>> /\ exec[r].job[2] = a
BY DEF At, TypeInv, Fits, NoJob

LEMMA CommandFits ==
  ASSUME TypeInv, NEW r \in Runner, NEW c \in Command, exec[r].job = <<"command", c>>,
         exec[r].try \in 1..MaxTries, NEW pc \in Step,
         \/ c \in Hint /\ pc \in {"store", "show"}
         \/ c \in Appeal /\ pc \in {"create", "enqueue", "promise", "nothing"}
  PROVE  Fits([exec[r] EXCEPT !.pc = pc])
<1> DEFINE e == [exec[r] EXCEPT !.pc = pc]
<1>1. e.job = <<"command", c>> /\ e.try \in 1..MaxTries /\ e.pc = pc
  BY DEF TypeInv, TypeOK, Execution
<1> HIDE DEF e
<1>2. Fits(e)
  BY <1>1 DEF Fits
<1> QED
  BY <1>2 DEF e

LEMMA ReviewFits ==
  ASSUME TypeInv, NEW r \in Runner, NEW a \in AppealId, exec[r].job = <<"review", a>>,
         NEW pc \in {"grade", "post"}
  PROVE  Fits([exec[r] EXCEPT !.pc = pc])
<1> DEFINE e == [exec[r] EXCEPT !.pc = pc]
<1>1. e.job = <<"review", a>> /\ e.pc = pc
  BY DEF TypeInv, TypeOK, Execution
<1> HIDE DEF e
<1>2. Fits(e)
  BY <1>1 DEF Fits
<1> QED
  BY <1>2 DEF e

LEMMA CommentType ==
  ASSUME TypeInv, NEW c \in Command, Comment(c)
  PROVE  /\ TypeInv' /\ OnlyWorks /\ UNCHANGED exec
         /\ NoneLost /\ SameTries /\ CompletesOnly({})
<1> DEFINE j == <<"command", c>>
<1>1. /\ jobs[j] \in JobRow /\ RowFits(jobs[j]) /\ jobs \in [Job -> JobRow] /\ j \in Job
      /\ \A k \in Job : RowFits(jobs[k])
  BY DEF TypeInv, TypeOK, Job
<1>2. PICK entry : entry = Filed(jobs[j])
  OBVIOUS
<1>3. /\ entry \in JobRow /\ RowFits(entry) /\ entry.status # "absent"
      /\ entry.status = "completed" => jobs[j].status = "completed"
      /\ entry.tries = jobs[j].tries
  BY <1>1, <1>2, RowFiled
<1>4. jobs' = [jobs EXCEPT ![j] = entry] /\ OnlyWorks /\ UNCHANGED exec
  BY <1>2 DEF Comment, OnlyWorks, tables
<1> HIDE DEF j
<1>5. Table(jobs') /\ NoneLost /\ SameTries /\ CompletesOnly({})
  BY <1>1, <1>3, <1>4 DEF Table, NoneLost, SameTries, CompletesOnly
<1>6. Executions(exec')
  BY <1>4 DEF TypeInv, TypeOK, Executions
<1> QED
  BY <1>4, <1>5, <1>6, OnlyExecutes

LEMMA FirstReviewType ==
  ASSUME TypeInv, FirstReview
  PROVE  TypeInv' /\ UNCHANGED <<hints, appeals, promised, jobs, exec, terminal>>
BY DEF FirstReview, TypeInv, TypeOK, tables

LEMMA ClaimType ==
  ASSUME TypeInv, NEW r \in Runner, NEW j \in Job, Claim(r, j)
  PROVE  /\ TypeInv' /\ OnlyWorks /\ Others(r)
         /\ NoneLost /\ CompletesOnly({})
         /\ exec'[r].job = j /\ exec'[r].pc = "read" /\ exec'[r].try = jobs[j].tries + 1
         /\ jobs'[j].tries = jobs[j].tries + 1
         /\ \A k \in Job : k # j => jobs'[k] = jobs[k]
<1>1. /\ jobs[j] \in JobRow /\ RowFits(jobs[j]) /\ jobs \in [Job -> JobRow]
      /\ (\A k \in Job : RowFits(jobs[k])) /\ IsClaimable(jobs[j])
  BY DEF TypeInv, TypeOK, Claim
<1>2. PICK entry : entry = Taken(jobs[j], r)
  OBVIOUS
<1>3. /\ entry \in JobRow /\ RowFits(entry) /\ entry.status = "open"
      /\ entry.tries = jobs[j].tries + 1 /\ jobs[j].tries + 1 \in 1..MaxTries
  BY <1>1, <1>2, RowTaken
<1>4. jobs' = [jobs EXCEPT ![j] = entry] /\ OnlyWorks
  BY <1>2 DEF Claim, OnlyWorks, tables
<1>5. /\ Table(jobs') /\ NoneLost /\ CompletesOnly({})
      /\ jobs'[j].tries = jobs[j].tries + 1 /\ \A k \in Job : k # j => jobs'[k] = jobs[k]
  BY <1>1, <1>3, <1>4 DEF Table, NoneLost, CompletesOnly
<1> DEFINE n == jobs[j].tries + 1
           e1 == [Idle EXCEPT !.job = j]
           e2 == [e1 EXCEPT !.pc = "read"]
           e == [e2 EXCEPT !.try = n]
<1>6. n \in 1..MaxTries /\ n \in 0..MaxTries
  BY <1>3
<1>7. exec' = [exec EXCEPT ![r] = e]
  BY DEF Claim
<1> HIDE DEF n
<1>8. e1 \in Execution /\ e1.job = j
  BY IdleExecution DEF Execution
<1> HIDE DEF e1
<1>9. e2 \in Execution /\ e2.job = j /\ e2.pc = "read"
  BY <1>8 DEF Execution, Step
<1> HIDE DEF e2
<1>10. e \in Execution /\ e.job = j /\ e.pc = "read" /\ e.try = n
  BY <1>6, <1>9 DEF Execution
<1> HIDE DEF e
<1>11. Fits(e)
  BY <1>6, <1>10 DEF Fits, Job
<1>12. Executions(exec') /\ exec'[r] = e /\ Others(r)
  BY <1>7, <1>10, <1>11, ExecutionMoves
<1> QED
  BY <1>4, <1>5, <1>10, <1>12, OnlyExecutes DEF n

(* The execution ends; its job may complete if the handler got that far.     *)
ExecutionEnds(r) ==
  /\ exec'[r] = Idle /\ Others(r) /\ NoneLost /\ SameTries
  /\ \A j \in Job : j # exec[r].job => jobs'[j] = jobs[j]

LEMMA EndsBadly ==
  ASSUME TypeInv, NEW r \in Runner, HandlerFails(r) \/ Crash(r)
  PROVE  TypeInv' /\ OnlyWorks /\ ExecutionEnds(r) /\ CompletesOnly({})
<1>1. exec[r].pc # "idle" /\ OnlyWorks /\ (Finish(r, "retry") \/ Finish(r, "refused"))
  BY DEF HandlerFails, Crash, OnlyWorks, tables
<1>2. PICK outcome \in {"retry", "refused"} : Finish(r, outcome)
  BY <1>1
<1>3. outcome \in JobOutcome /\ outcome # "ok"
  BY DEF JobOutcome
<1>4. /\ Table(jobs') /\ Executions(exec') /\ exec'[r] = Idle /\ Others(r)
      /\ NoneLost /\ SameTries /\ CompletesOnly({})
      /\ \A j \in Job : j # exec[r].job => jobs'[j] = jobs[j]
  BY <1>1, <1>2, <1>3, FinishStep
<1> QED
  BY <1>1, <1>4, OnlyExecutes DEF ExecutionEnds

LEMMA PostedStep ==
  ASSUME TypeInv, NEW r \in Runner, Posted(r), exec[r].pc # "idle"
  PROVE  /\ Table(jobs') /\ Executions(exec') /\ ExecutionEnds(r) /\ CompletesOnly({exec[r].job})
<1>1. PICK outcome \in {"ok", "retry"} : Finish(r, outcome)
  BY DEF Posted
<1>2. outcome \in JobOutcome
  BY DEF JobOutcome
<1> QED
  BY <1>1, <1>2, FinishStep DEF ExecutionEnds

LEMMA LapseType ==
  ASSUME TypeInv, NEW r \in Runner, LeaseLapses(r)
  PROVE  /\ TypeInv' /\ OnlyWorks /\ UNCHANGED exec
         /\ NoneLost /\ SameTries /\ CompletesOnly({})
<1> DEFINE j == exec[r].job
<1>1. j \in Job
  BY JobOfExecution DEF LeaseLapses
<1>2. /\ jobs[j] \in JobRow /\ jobs \in [Job -> JobRow] /\ \A k \in Job : RowFits(jobs[k])
  BY <1>1 DEF TypeInv, TypeOK
<1>3. PICK entry : entry = Lapsed(jobs[j])
  OBVIOUS
<1>4. /\ entry \in JobRow /\ entry.tries = jobs[j].tries /\ RowFits(entry)
      /\ entry.status \in {"open", "dead_letter"}
  BY <1>2, <1>3, RowLapsed
<1>5. jobs' = [jobs EXCEPT ![j] = entry] /\ OnlyWorks /\ UNCHANGED exec
  BY <1>3 DEF LeaseLapses, OnlyWorks, tables
<1> HIDE DEF j
<1>6. Table(jobs') /\ NoneLost /\ SameTries /\ CompletesOnly({})
  BY <1>1, <1>2, <1>4, <1>5 DEF Table, NoneLost, SameTries, CompletesOnly
<1>7. Executions(exec')
  BY <1>5 DEF TypeInv, TypeOK, Executions
<1> QED
  BY <1>5, <1>6, <1>7, OnlyExecutes

LEMMA NextLevelIsNext ==
  ASSUME NEW k \in 0..Levels
  PROVE  NextLevel(1..k) \in Level /\ NextLevel(1..k) <= k + 1
<1>1. k \in Nat /\ Levels \in Nat \ {0} /\ k <= Levels
  BY CommandsAssumption
<1>2. Cardinality(1..k) = IF 1 > k THEN 0 ELSE k - 1 + 1
  BY <1>1, FS_Interval
<1>3. Cardinality(1..k) = k
  BY <1>1, <1>2
<1> QED
  BY <1>1, <1>3 DEF NextLevel, Level

LEMMA NextLevelType ==
  ASSUME TypeInv
  PROVE  NextLevel(hints) \in Level
<1>1. IsFiniteSet(1..Levels) /\ Levels \in Nat \ {0}
  BY CommandsAssumption, FS_Interval
<1>2. Cardinality(hints) \in Nat
  BY <1>1, FS_Subset, FS_CardinalityType DEF TypeInv, TypeOK, Level
<1> QED
  BY <1>1, <1>2 DEF NextLevel, Level

LEMMA CountHintsType ==
  ASSUME TypeInv, NEW r \in Runner, CountHints(r)
  PROVE  /\ TypeInv' /\ OnlyWorks /\ UNCHANGED jobs /\ Others(r)
         /\ exec'[r].pc = "store" /\ exec'[r].level = NextLevel(hints)
         /\ exec'[r].job = exec[r].job /\ exec'[r].try = exec[r].try
<1> DEFINE level == NextLevel(hints)
           e1 == [exec[r] EXCEPT !.pc = "store"]
           e == [e1 EXCEPT !.level = level]
<1>1. PICK c \in Command :
        exec[r].job = <<"command", c>> /\ c \in Hint /\ exec[r].try \in 1..MaxTries
  BY CommandExecution DEF CountHints, Commands
<1>2. /\ exec' = [exec EXCEPT ![r] = e] /\ UNCHANGED jobs /\ OnlyWorks
  BY DEF CountHints, OnlyWorks, tables, TypeInv, TypeOK
<1>3. level \in Level
  BY NextLevelType
<1> HIDE DEF level
<1>4. /\ e1 \in Execution /\ e1.job = exec[r].job /\ e1.pc = "store"
      /\ e1.try = exec[r].try
  BY DEF TypeInv, TypeOK, Execution, Step
<1> HIDE DEF e1
<1>5. /\ e \in Execution /\ e.job = exec[r].job /\ e.pc = "store" /\ e.level = level
      /\ e.try = exec[r].try
  BY <1>3, <1>4 DEF Execution
<1> HIDE DEF e
<1>6. Fits(e)
  BY <1>1, <1>5 DEF Fits
<1>7. Executions(exec') /\ exec'[r] = e /\ Others(r)
  BY <1>2, <1>5, <1>6, ExecutionMoves
<1>8. Table(jobs')
  BY <1>2 DEF Table, TypeInv, TypeOK
<1> QED
  BY <1>2, <1>5, <1>7, <1>8, OnlyExecutes DEF level

LEMMA StoreHintType ==
  ASSUME TypeInv, NEW r \in Runner, StoreHint(r)
  PROVE  /\ TypeInv' /\ UNCHANGED <<appeals, promised, jobs, terminal>> /\ Others(r)
         /\ exec[r].pc = "store" /\ Moves(r, "show")
         /\ exec[r].level \in Level /\ hints' = hints \cup {exec[r].level}
<1>1. PICK c \in Command :
        exec[r].job = <<"command", c>> /\ c \in Hint /\ exec[r].try \in 1..MaxTries
  BY CommandExecution DEF StoreHint, Commands
<1>2. /\ exec' = [exec EXCEPT ![r].pc = "show"] /\ exec[r].pc = "store"
      /\ hints' = hints \cup {exec[r].level} /\ exec[r].level \in Level
      /\ UNCHANGED <<appeals, reviewed, promised, jobs, terminal>>
  BY DEF StoreHint, Commands, At, GoTo, TypeInv, TypeOK, Execution
<1>3. Executions(exec') /\ Moves(r, "show") /\ Others(r)
  BY <1>1, <1>2, CommandFits, MoveStep DEF Step
<1>4. TypeInv'
  BY <1>2, <1>3 DEF TypeInv, TypeOK, Executions
<1> QED
  BY <1>2, <1>3, <1>4

LEMMA ShowHintType ==
  ASSUME TypeInv, NEW r \in Runner, ShowHint(r)
  PROVE  /\ TypeInv' /\ OnlyWorks /\ ExecutionEnds(r) /\ CompletesOnly({exec[r].job})
         /\ exec[r].job[1] = "command"
<1>1. /\ Posted(r) /\ OnlyWorks /\ exec[r].pc # "idle" /\ exec[r].job[1] = "command"
  BY DEF ShowHint, Commands, At, OnlyWorks, tables
<1> QED
  BY <1>1, PostedStep, OnlyExecutes

LEMMA TerminalType ==
  ASSUME TypeInv, TerminalCounts \/ TerminalStores
  PROVE  /\ TypeInv' /\ UNCHANGED <<appeals, promised, jobs, exec>>
         /\ \/ UNCHANGED hints /\ terminal'.level = NextLevel(hints)
            \/ /\ hints' = hints \cup {terminal.level} /\ terminal.level \in Level
               /\ terminal'.level = terminal.level
<1>1. CASE TerminalCounts
  <2>1. /\ terminal' = [pc |-> "store", level |-> NextLevel(hints)]
        /\ UNCHANGED <<hints, appeals, reviewed, promised, jobs, exec>>
    BY <1>1 DEF TerminalCounts, tables
  <2>2. terminal' \in [pc : {"idle", "store"}, level : Level]
    BY <2>1, NextLevelType
  <2> QED
    BY <2>1, <2>2 DEF TypeInv, TypeOK
<1>2. CASE TerminalStores
  <2>1. /\ hints' = hints \cup {terminal.level} /\ terminal' = [terminal EXCEPT !.pc = "idle"]
        /\ UNCHANGED <<appeals, reviewed, promised, jobs, exec>>
    BY <1>2 DEF TerminalStores
  <2>2. /\ terminal' \in [pc : {"idle", "store"}, level : Level] /\ terminal.level \in Level
        /\ terminal'.level = terminal.level
    BY <2>1 DEF TypeInv, TypeOK
  <2> QED
    BY <2>1, <2>2 DEF TypeInv, TypeOK
<1> QED
  BY <1>1, <1>2

LEMMA FindLatestType ==
  ASSUME TypeInv, NEW r \in Runner, FindLatest(r)
  PROVE  /\ TypeInv' /\ OnlyWorks /\ UNCHANGED jobs /\ Others(r)
         /\ exec[r].pc = "read" /\ \E pc \in {"create", "nothing"} : Moves(r, pc)
<1>1. PICK c \in Command :
        exec[r].job = <<"command", c>> /\ c \in Appeal /\ exec[r].try \in 1..MaxTries
  BY CommandExecution DEF FindLatest, Commands
<1>2. PICK pc \in {"create", "nothing"} : GoTo(r, pc)
  BY DEF FindLatest
<1>3. exec' = [exec EXCEPT ![r].pc = pc] /\ UNCHANGED jobs /\ OnlyWorks /\ exec[r].pc = "read"
  BY <1>2 DEF FindLatest, Commands, At, GoTo, OnlyWorks, tables
<1>4. Executions(exec') /\ Moves(r, pc) /\ Others(r)
  BY <1>1, <1>3, CommandFits, MoveStep DEF Step
<1>5. Table(jobs')
  BY <1>3 DEF Table, TypeInv, TypeOK
<1> QED
  BY <1>3, <1>4, <1>5, OnlyExecutes

LEMMA RefuseAppealType ==
  ASSUME TypeInv, NEW r \in Runner, RefuseAppeal(r)
  PROVE  /\ TypeInv' /\ OnlyWorks /\ ExecutionEnds(r) /\ CompletesOnly({exec[r].job})
         /\ exec[r].job[1] = "command"
<1>1. /\ Posted(r) /\ OnlyWorks /\ exec[r].pc # "idle" /\ exec[r].job[1] = "command"
  BY DEF RefuseAppeal, Commands, At, OnlyWorks, tables
<1> QED
  BY <1>1, PostedStep, OnlyExecutes

LEMMA AppealChanges ==
  ASSUME TypeInv, NEW a \in AppealId, NEW row \in AppealRow,
         appeals' = [appeals EXCEPT ![a] = row]
  PROVE  /\ appeals' \in [AppealId -> AppealRow] /\ appeals'[a] = row
         /\ \A b \in AppealId : b # a => appeals'[b] = appeals[b]
BY DEF TypeInv, TypeOK

LEMMA CreateAppealType ==
  ASSUME TypeInv, NEW r \in Runner, CreateAppeal(r)
  PROVE  /\ TypeInv' /\ UNCHANGED <<hints, promised, jobs, terminal>> /\ Others(r)
         /\ exec[r].pc = "create" /\ Moves(r, "enqueue")
         /\ AppealOf(r) \in AppealId
         /\ appeals'[AppealOf(r)] = [appeals[AppealOf(r)] EXCEPT !.status = "pending"]
         /\ \A b \in AppealId : b # AppealOf(r) => appeals'[b] = appeals[b]
         /\ \E c \in Appeal : /\ exec[r].job = <<"command", c>>
                              /\ AppealOf(r) = <<c, exec[r].try>>
<1> DEFINE a == AppealOf(r)
           row == [appeals[a] EXCEPT !.status = "pending"]
<1>1. PICK c \in Command :
        /\ exec[r].job = <<"command", c>> /\ exec[r].job[2] = c /\ c \in Appeal
        /\ exec[r].try \in 1..MaxTries
  BY CommandExecution DEF CreateAppeal, Commands
<1>2. a = <<c, exec[r].try>> /\ a \in AppealId
  BY <1>1 DEF AppealOf, AppealId
<1>3. /\ exec' = [exec EXCEPT ![r].pc = "enqueue"] /\ exec[r].pc = "create"
      /\ appeals' = [appeals EXCEPT ![a] = row]
      /\ UNCHANGED <<hints, reviewed, promised, jobs, terminal>>
  BY DEF CreateAppeal, Commands, At, GoTo
<1> HIDE DEF a
<1>4. row \in AppealRow
  BY <1>2 DEF TypeInv, TypeOK, AppealRow
<1> HIDE DEF row
<1>5. /\ appeals' \in [AppealId -> AppealRow] /\ appeals'[a] = row
      /\ \A b \in AppealId : b # a => appeals'[b] = appeals[b]
  BY <1>2, <1>3, <1>4, AppealChanges
<1>6. Executions(exec') /\ Moves(r, "enqueue") /\ Others(r)
  BY <1>1, <1>3, CommandFits, MoveStep DEF Step
<1>7. TypeInv'
  BY <1>3, <1>5, <1>6 DEF TypeInv, TypeOK, Executions
<1> QED
  BY <1>1, <1>2, <1>3, <1>5, <1>6, <1>7 DEF a, row

LEMMA EnqueueReviewType ==
  ASSUME TypeInv, NEW r \in Runner, EnqueueReview(r)
  PROVE  /\ TypeInv' /\ OnlyWorks /\ Others(r) /\ Moves(r, "promise")
         /\ NoneLost /\ SameTries /\ CompletesOnly({})
         /\ AppealOf(r) \in AppealId /\ jobs'[<<"review", AppealOf(r)>>].status # "absent"
         /\ \E c \in Appeal : /\ exec[r].job = <<"command", c>>
                              /\ AppealOf(r) = <<c, exec[r].try>>
<1> DEFINE a == AppealOf(r)
           j == <<"review", a>>
<1>1. PICK c \in Command :
        /\ exec[r].job = <<"command", c>> /\ exec[r].job[2] = c /\ c \in Appeal
        /\ exec[r].try \in 1..MaxTries
  BY CommandExecution DEF EnqueueReview, Commands
<1>2. a = <<c, exec[r].try>> /\ a \in AppealId
  BY <1>1 DEF AppealOf, AppealId
<1>3. j \in Job
  BY <1>2 DEF Job
<1>4. /\ jobs[j] \in JobRow /\ RowFits(jobs[j]) /\ jobs \in [Job -> JobRow]
      /\ \A k \in Job : RowFits(jobs[k])
  BY <1>3 DEF TypeInv, TypeOK
<1>5. PICK entry : entry = Filed(jobs[j])
  OBVIOUS
<1>6. /\ entry \in JobRow /\ RowFits(entry) /\ entry.status # "absent"
      /\ entry.status = "completed" => jobs[j].status = "completed"
      /\ entry.tries = jobs[j].tries
  BY <1>4, <1>5, RowFiled
<1>7. /\ exec' = [exec EXCEPT ![r].pc = "promise"] /\ OnlyWorks
      /\ jobs' = [jobs EXCEPT ![j] = entry]
  BY <1>5 DEF EnqueueReview, ReviewFiled, OnlyWorks, tables
<1> HIDE DEF j
<1>8. /\ Table(jobs') /\ NoneLost /\ SameTries /\ CompletesOnly({})
      /\ jobs'[j].status # "absent"
  BY <1>3, <1>4, <1>6, <1>7 DEF Table, NoneLost, SameTries, CompletesOnly
<1>9. Executions(exec') /\ Moves(r, "promise") /\ Others(r)
  BY <1>1, <1>7, CommandFits, MoveStep DEF Step
<1> QED
  BY <1>1, <1>2, <1>7, <1>8, <1>9, OnlyExecutes DEF j

LEMMA PromiseReviewType ==
  ASSUME TypeInv, NEW r \in Runner, PromiseReview(r)
  PROVE  /\ TypeInv' /\ UNCHANGED <<hints, appeals, terminal>> /\ ExecutionEnds(r)
         /\ CompletesOnly({exec[r].job}) /\ exec[r].pc = "promise"
         /\ \E c \in Appeal : /\ exec[r].job = <<"command", c>> /\ exec[r].try \in 1..MaxTries
                              /\ promised' = promised \cup {c}
<1>1. PICK c \in Command :
        /\ exec[r].job = <<"command", c>> /\ exec[r].job[2] = c /\ c \in Appeal
        /\ exec[r].try \in 1..MaxTries
  BY CommandExecution DEF PromiseReview, Commands
<1>2. /\ Posted(r) /\ promised' = promised \cup {c} /\ exec[r].pc = "promise"
      /\ UNCHANGED <<hints, appeals, reviewed, terminal>>
  BY <1>1 DEF PromiseReview, Commands, At, tables
<1>3. Table(jobs') /\ Executions(exec') /\ ExecutionEnds(r) /\ CompletesOnly({exec[r].job})
  BY <1>2, PostedStep
<1>4. TypeInv'
  BY <1>1, <1>2, <1>3 DEF TypeInv, TypeOK, Table, Executions
<1> QED
  BY <1>1, <1>2, <1>3, <1>4

LEMMA ReadAppealType ==
  ASSUME TypeInv, NEW r \in Runner, ReadAppeal(r)
  PROVE  /\ TypeInv' /\ OnlyWorks
         /\ \/ ExecutionEnds(r) /\ CompletesOnly({})
            \/ /\ UNCHANGED jobs /\ Others(r) /\ Moves(r, "grade")
               /\ \E a \in AppealId : /\ exec[r].job = <<"review", a>>
                                      /\ appeals[a].status = "pending"
<1>1. PICK a \in AppealId : exec[r].job = <<"review", a>> /\ exec[r].job[2] = a
  BY ReviewExecution DEF ReadAppeal
<1>2. OnlyWorks /\ exec[r].pc # "idle"
  BY DEF ReadAppeal, OnlyWorks, tables, At
<1>3. CASE IsPending(a) /\ GoTo(r, "grade")
  <2>1. exec' = [exec EXCEPT ![r].pc = "grade"] /\ UNCHANGED jobs /\ appeals[a].status = "pending"
    BY <1>3 DEF GoTo, IsPending
  <2>2. Executions(exec') /\ Moves(r, "grade") /\ Others(r)
    BY <1>1, <2>1, ReviewFits, MoveStep DEF Step
  <2>3. Table(jobs')
    BY <2>1 DEF Table, TypeInv, TypeOK
  <2> QED
    BY <1>1, <1>2, <2>1, <2>2, <2>3, OnlyExecutes
<1>4. CASE Finish(r, "refused")
  <2>1. /\ Table(jobs') /\ Executions(exec') /\ exec'[r] = Idle /\ Others(r)
        /\ NoneLost /\ SameTries /\ CompletesOnly({})
        /\ \A j \in Job : j # exec[r].job => jobs'[j] = jobs[j]
    BY <1>2, <1>4, FinishStep DEF JobOutcome
  <2> QED
    BY <1>2, <2>1, OnlyExecutes DEF ExecutionEnds
<1> QED
  BY <1>1, <1>3, <1>4 DEF ReadAppeal

LEMMA ResolveAppealType ==
  ASSUME TypeInv, NEW r \in Runner, ResolveAppeal(r)
  PROVE  /\ TypeInv' /\ UNCHANGED <<hints, promised, jobs, terminal>> /\ Others(r)
         /\ exec[r].pc = "grade" /\ Moves(r, "post")
         /\ \E a \in AppealId :
              /\ exec[r].job = <<"review", a>>
              /\ appeals'[a].status = "resolved" /\ appeals'[a].results = appeals[a].results + 1
              /\ appeals'[a].posted = appeals[a].posted
              /\ \A b \in AppealId : b # a => appeals'[b] = appeals[b]
<1>1. PICK a \in AppealId : exec[r].job = <<"review", a>> /\ exec[r].job[2] = a
  BY ReviewExecution DEF ResolveAppeal
<1> DEFINE old == appeals[a]
           n == old.results + 1
           row == [old EXCEPT !.status = "resolved", !.results = n]
<1>2. /\ exec' = [exec EXCEPT ![r].pc = "post"] /\ exec[r].pc = "grade"
      /\ appeals' = [appeals EXCEPT ![a] = row]
      /\ UNCHANGED <<hints, reviewed, promised, jobs, terminal>>
  BY <1>1 DEF ResolveAppeal, At, GoTo, Resolved
<1>3. old \in AppealRow /\ n \in Nat
  BY DEF TypeInv, TypeOK, AppealRow
<1> HIDE DEF n, old
<1>4. /\ row \in AppealRow /\ row.status = "resolved" /\ row.results = n
      /\ row.posted = old.posted
  BY <1>3 DEF AppealRow
<1> HIDE DEF row
<1>5. /\ appeals' \in [AppealId -> AppealRow] /\ appeals'[a] = row
      /\ \A b \in AppealId : b # a => appeals'[b] = appeals[b]
  BY <1>2, <1>4, AppealChanges
<1>6. Executions(exec') /\ Moves(r, "post") /\ Others(r)
  BY <1>1, <1>2, ReviewFits, MoveStep DEF Step
<1>7. TypeInv'
  BY <1>2, <1>5, <1>6 DEF TypeInv, TypeOK, Executions
<1> QED
  BY <1>1, <1>2, <1>4, <1>5, <1>6, <1>7 DEF n, old

LEMMA PostResultType ==
  ASSUME TypeInv, NEW r \in Runner, PostResult(r)
  PROVE  /\ TypeInv' /\ UNCHANGED <<hints, promised, terminal>> /\ ExecutionEnds(r)
         /\ exec[r].pc = "post"
         /\ \E a \in AppealId :
              /\ exec[r].job = <<"review", a>> /\ CompletesOnly({<<"review", a>>})
              /\ appeals'[a].status = appeals[a].status
              /\ appeals'[a].results = appeals[a].results
              /\ appeals'[a].posted = appeals[a].posted + 1
              /\ \A b \in AppealId : b # a => appeals'[b] = appeals[b]
<1>1. PICK a \in AppealId : exec[r].job = <<"review", a>> /\ exec[r].job[2] = a
  BY ReviewExecution DEF PostResult
<1> DEFINE old == appeals[a]
           n == old.posted + 1
           row == [old EXCEPT !.posted = n]
<1>2. /\ Posted(r) /\ exec[r].pc = "post"
      /\ appeals' = [appeals EXCEPT ![a] = row]
      /\ UNCHANGED <<hints, reviewed, promised, terminal>>
  BY <1>1 DEF PostResult, At
<1>3. old \in AppealRow /\ n \in Nat
  BY DEF TypeInv, TypeOK, AppealRow
<1> HIDE DEF n, old
<1>4. /\ row \in AppealRow /\ row.status = old.status /\ row.results = old.results
      /\ row.posted = n
  BY <1>3 DEF AppealRow
<1> HIDE DEF row
<1>5. /\ appeals' \in [AppealId -> AppealRow] /\ appeals'[a] = row
      /\ \A b \in AppealId : b # a => appeals'[b] = appeals[b]
  BY <1>2, <1>4, AppealChanges
<1>6. Table(jobs') /\ Executions(exec') /\ ExecutionEnds(r) /\ CompletesOnly({exec[r].job})
  BY <1>2, PostedStep
<1>7. TypeInv'
  BY <1>2, <1>5, <1>6 DEF TypeInv, TypeOK, Table, Executions
<1> QED
  BY <1>1, <1>2, <1>4, <1>5, <1>6, <1>7 DEF n, old

LEMMA TypeInvStep == TypeInv /\ [Next]_vars => TypeInv'
<1> SUFFICES ASSUME TypeInv, [Next]_vars PROVE TypeInv'
  OBVIOUS
<1>1. ASSUME NEW r \in Runner, HandlerStep(r) PROVE TypeInv'
  BY <1>1, CountHintsType, StoreHintType, ShowHintType, FindLatestType, RefuseAppealType,
     CreateAppealType, EnqueueReviewType, PromiseReviewType, ReadAppealType,
     ResolveAppealType, PostResultType DEF HandlerStep
<1>2. CASE UNCHANGED vars
  BY <1>2 DEF vars, tables, TypeInv, TypeOK
<1> QED
  BY <1>1, <1>2, CommentType, FirstReviewType, TerminalType, ClaimType, EndsBadly, LapseType
     DEF Next

(* Every state is well typed, however many commands, levels, runners and    *)
(* tries there are.                                                         *)
THEOREM TypeCorrect == Spec => []TypeOK
<1>1. Init => TypeInv
  BY TypeInvInit
<1>2. TypeInv /\ [Next]_vars => TypeInv'
  BY TypeInvStep
<1>3. TypeInv => TypeOK
  BY DEF TypeInv
<1> QED
  BY <1>1, <1>2, <1>3, PTL DEF Spec

-----------------------------------------------------------------------------
(* The queue's contract                                                    *)

Executes(q, j) == exec[q].pc # "idle" /\ exec[q].job = j

LEMMA ExecutingMeans ==
  ASSUME NEW j \in Job
  PROVE  /\ Executing[j] = {q \in Runner : Executes(q, j)}
         /\ Executing'[j] = {q \in Runner : Executes(q, j)'}
BY DEF Executing, Executes

LEMMA ContractOperators ==
  ASSUME NEW entry, NEW r, NEW outcome
  PROVE  /\ Contract!Filed(entry) = Filed(entry)
         /\ Contract!IsClaimable(entry) <=> IsClaimable(entry)
         /\ Contract!Taken(entry, r) = Taken(entry, r)
         /\ Contract!Lapsed(entry) = Lapsed(entry)
         /\ Contract!Reported(entry, r, outcome) = Reported(entry, r, outcome)
<1>1. Contract!Filed(entry) = Filed(entry) /\ Contract!Taken(entry, r) = Taken(entry, r)
      /\ (Contract!IsClaimable(entry) <=> IsClaimable(entry))
  BY DEF Contract!Filed, Filed, Contract!Taken, Taken, Contract!IsClaimable, IsClaimable
<1>2. Contract!Lapsed(entry) = Lapsed(entry)
  BY DEF Contract!Lapsed, Lapsed
<1>3. Contract!Reported(entry, r, outcome) = Reported(entry, r, outcome)
  BY <1>2 DEF Contract!Reported, Reported
<1> QED
  BY <1>1, <1>2, <1>3

(* A job whose row and executions stay as they are.                        *)
LEMMA JobRests ==
  ASSUME NEW j \in Job, jobs'[j] = jobs[j],
         \A q \in Runner : Executes(q, j)' <=> Executes(q, j)
  PROVE  Contract!JobStep(j)
<1>1. Executing'[j] = Executing[j]
  BY ExecutingMeans
<1> QED
  BY <1>1 DEF Contract!JobStep, Contract!Rest

(* A step of a handler that goes on, and one of nobody.                     *)
GoesOn(r) ==
  /\ UNCHANGED jobs /\ Others(r)
  /\ exec[r].pc # "idle" /\ exec'[r].pc # "idle" /\ exec'[r].job = exec[r].job

LEMMA HandlerGoesOn ==
  ASSUME NEW r \in Runner, GoesOn(r)
  PROVE  Contract!Next
<1> SUFFICES ASSUME NEW j \in Job PROVE Contract!JobStep(j)
  BY DEF Contract!Next
<1>1. \A q \in Runner : Executes(q, j)' <=> Executes(q, j)
  BY DEF Executes, Others, GoesOn
<1> QED
  BY <1>1, JobRests DEF GoesOn

LEMMA WorkerRests ==
  ASSUME UNCHANGED <<jobs, exec>>
  PROVE  Contract!Next
<1> SUFFICES ASSUME NEW j \in Job PROVE Contract!JobStep(j)
  BY DEF Contract!Next
<1>1. \A q \in Runner : Executes(q, j)' <=> Executes(q, j)
  BY DEF Executes
<1> QED
  BY <1>1, JobRests

(* A handler that ends and reports.                                        *)
Reports(r) == exec[r].pc # "idle" /\ \E outcome \in JobOutcome : Finish(r, outcome)

LEMMA HandlerReports ==
  ASSUME TypeInv, NEW r \in Runner, Reports(r)
  PROVE  Contract!Next
<1> PICK outcome \in JobOutcome : Finish(r, outcome)
  BY DEF Reports
<1> DEFINE k == exec[r].job
           out == Reported(jobs[k], r, outcome)
<1>1. /\ k \in Job /\ jobs \in [Job -> JobRow] /\ jobs' = [jobs EXCEPT ![k] = out]
      /\ exec \in [Runner -> Execution] /\ exec' = [exec EXCEPT ![r] = Idle]
  BY JobOfExecution DEF Finish, Reports, TypeInv, TypeOK
<1>2. Contract!Reported(jobs[k], r, outcome) = out
  BY ContractOperators
<1>3. Executes(r, k) /\ \A j \in Job : j # k => ~Executes(r, j)
  BY DEF Executes, Reports
<1> HIDE DEF k, out
<1>4. /\ \A q \in Runner : q # r => \A j \in Job : Executes(q, j)' <=> Executes(q, j)
      /\ \A j \in Job : ~Executes(r, j)'
  BY <1>1, IdleExecution DEF Executes
<1>5. Contract!JobStep(k)
  <2>1. jobs'[k] = out
    BY <1>1
  <2>2. r \in Executing[k] /\ Executing'[k] = Executing[k] \ {r}
    BY <1>1, <1>3, <1>4, ExecutingMeans
  <2> QED
    BY <1>2, <2>1, <2>2 DEF Contract!JobStep, Contract!Finish, JobOutcome
<1>6. ASSUME NEW j \in Job, j # k PROVE Contract!JobStep(j)
  <2>1. jobs'[j] = jobs[j]
    BY <1>1, <1>6
  <2>2. \A q \in Runner : Executes(q, j)' <=> Executes(q, j)
    BY <1>3, <1>4, <1>6
  <2> QED
    BY <2>1, <2>2, JobRests
<1> QED
  BY <1>5, <1>6 DEF Contract!Next

(* Somebody files a job, which no execution works on yet or which was filed. *)
LEMMA JobIsFiled ==
  ASSUME TypeInv, NEW k \in Job, jobs' = [jobs EXCEPT ![k] = Filed(jobs[k])],
         \A q \in Runner, j \in Job : Executes(q, j)' <=> Executes(q, j)
  PROVE  Contract!Next
<1> SUFFICES ASSUME NEW j \in Job PROVE Contract!JobStep(j)
  BY DEF Contract!Next
<1>1. jobs \in [Job -> JobRow]
  BY DEF TypeInv, TypeOK
<1>2. CASE j # k \/ jobs[k].status # "absent"
  <2>1. jobs'[j] = jobs[j]
    BY <1>1, <1>2 DEF Filed
  <2> QED
    BY <2>1, JobRests
<1>3. CASE j = k /\ jobs[k].status = "absent"
  <2>1. jobs'[j] = Contract!Filed(jobs[j])
    BY <1>1, <1>3, ContractOperators
  <2>2. Executing'[j] = Executing[j]
    BY ExecutingMeans
  <2> QED
    BY <1>3, <2>1, <2>2 DEF Contract!JobStep, Contract!Accept
<1> QED
  BY <1>2, <1>3

(* A runner that takes a job.                                              *)
LEMMA JobIsTaken ==
  ASSUME TypeInv, NEW r \in Runner, NEW k \in Job, Claim(r, k)
  PROVE  Contract!Next
<1> DEFINE out == Taken(jobs[k], r)
<1>1. /\ jobs \in [Job -> JobRow] /\ jobs' = [jobs EXCEPT ![k] = out]
      /\ IsClaimable(jobs[k]) /\ exec[r].pc = "idle"
  BY DEF Claim, TypeInv, TypeOK
<1>2. jobs[k].tries < MaxTries
  BY <1>1 DEF TypeInv, RowFits
<1>3. Contract!Taken(jobs[k], r) = out /\ Contract!IsClaimable(jobs[k])
  BY <1>1, ContractOperators
<1> HIDE DEF out
<1>4. exec'[r].job = k /\ exec'[r].pc = "read" /\ Others(r)
  BY ClaimType
<1>5. /\ \A q \in Runner : q # r => \A j \in Job : Executes(q, j)' <=> Executes(q, j)
      /\ \A j \in Job : ~Executes(r, j) /\ (Executes(r, j)' <=> j = k)
  BY <1>1, <1>4 DEF Executes, Others
<1>6. Contract!JobStep(k)
  <2>1. jobs'[k] = out
    BY <1>1
  <2>2. r \notin Executing[k] /\ Executing'[k] = Executing[k] \cup {r}
    BY <1>5, ExecutingMeans
  <2> QED
    BY <1>2, <1>3, <2>1, <2>2 DEF Contract!JobStep, Contract!Claim
<1>7. ASSUME NEW j \in Job, j # k PROVE Contract!JobStep(j)
  <2>1. jobs'[j] = jobs[j]
    BY <1>1, <1>7
  <2>2. \A q \in Runner : Executes(q, j)' <=> Executes(q, j)
    BY <1>5, <1>7
  <2> QED
    BY <2>1, <2>2, JobRests
<1> QED
  BY <1>6, <1>7 DEF Contract!Next

(* A lease that ends under its handler.                                     *)
LEMMA LeaseIsLost ==
  ASSUME TypeInv, NEW r \in Runner, LeaseLapses(r)
  PROVE  Contract!Next
<1> DEFINE k == exec[r].job
           out == Lapsed(jobs[k])
<1>1. /\ k \in Job /\ jobs \in [Job -> JobRow] /\ jobs' = [jobs EXCEPT ![k] = out]
      /\ UNCHANGED exec /\ jobs[k].holder = r
  BY JobOfExecution DEF LeaseLapses, TypeInv, TypeOK
<1>2. Contract!Lapsed(jobs[k]) = out /\ r # NoRunner
  BY ContractOperators, HandlerJobsAssumption
<1> HIDE DEF k, out
<1>3. \A j \in Job, q \in Runner : Executes(q, j)' <=> Executes(q, j)
  BY <1>1 DEF Executes
<1>4. Contract!JobStep(k)
  <2>1. jobs'[k] = out
    BY <1>1
  <2>2. Executing'[k] = Executing[k]
    BY <1>1, <1>3, ExecutingMeans
  <2> QED
    BY <1>1, <1>2, <2>1, <2>2 DEF Contract!JobStep, Contract!Lapse
<1>5. ASSUME NEW j \in Job, j # k PROVE Contract!JobStep(j)
  <2>1. jobs'[j] = jobs[j]
    BY <1>1, <1>5
  <2> QED
    BY <1>3, <2>1, JobRests
<1> QED
  BY <1>4, <1>5 DEF Contract!Next

LEMMA ContractInit == Init => Contract!Init
<1> SUFFICES ASSUME Init PROVE Contract!Init
  OBVIOUS
<1>1. Executing = [j \in Job |-> {}]
  BY DEF Init, Idle, Executing
<1>2. Contract!Unfiled = Unfiled
  BY DEF Contract!Unfiled, Unfiled
<1> QED
  BY <1>1, <1>2 DEF Init, Contract!Init

LEMMA GoToGoesOn ==
  ASSUME TypeInv, NEW r \in Runner, NEW pc \in Step \ {"idle"}, GoTo(r, pc), exec[r].pc # "idle"
  PROVE  GoesOn(r)
BY DEF GoTo, GoesOn, Others, TypeInv, TypeOK, Execution

(* What a step of the module does with the worker's tables.                *)
Files ==
  /\ \E k \in Job : jobs' = [jobs EXCEPT ![k] = Filed(jobs[k])]
  /\ \A q \in Runner, j \in Job : Executes(q, j)' <=> Executes(q, j)

LEMMA HandlerUsesQueue ==
  ASSUME TypeInv, NEW r \in Runner, HandlerStep(r)
  PROVE  GoesOn(r) \/ Reports(r) \/ Files
<1>1. CASE CountHints(r)
  BY <1>1 DEF CountHints, Commands, At, GoesOn, Others, TypeInv, TypeOK, Execution
<1>2. CASE StoreHint(r) \/ FindLatest(r) \/ CreateAppeal(r) \/ ResolveAppeal(r)
  <2>1. /\ exec[r].pc # "idle"
        /\ \E pc \in Step \ {"idle"} : GoTo(r, pc)
    BY <1>2 DEF StoreHint, FindLatest, CreateAppeal, ResolveAppeal, Commands, At, Step
  <2> QED
    BY <2>1, GoToGoesOn
<1>3. CASE ShowHint(r) \/ RefuseAppeal(r) \/ PromiseReview(r) \/ PostResult(r)
  BY <1>3 DEF ShowHint, RefuseAppeal, PromiseReview, PostResult, Commands, At, Posted,
     Reports, JobOutcome
<1>4. CASE ReadAppeal(r)
  <2>1. exec[r].pc # "idle" /\ (GoTo(r, "grade") \/ Finish(r, "refused"))
    BY <1>4 DEF ReadAppeal, At
  <2>2. GoTo(r, "grade") => GoesOn(r)
    BY <2>1, GoToGoesOn DEF Step
  <2>3. Finish(r, "refused") => Reports(r)
    BY <2>1 DEF Reports, JobOutcome
  <2> QED
    BY <2>1, <2>2, <2>3
<1>5. CASE EnqueueReview(r)
  <2> DEFINE a == AppealOf(r)
  <2>1. a \in AppealId
    BY <1>5, CommandExecution DEF EnqueueReview, Commands, AppealOf, AppealId
  <2>2. jobs' = [jobs EXCEPT ![<<"review", a>>] = Filed(jobs[<<"review", a>>])]
    BY <1>5 DEF EnqueueReview, ReviewFiled
  <2>3. \A q \in Runner, j \in Job : Executes(q, j)' <=> Executes(q, j)
    BY <1>5 DEF EnqueueReview, Commands, At, Executes, TypeInv, TypeOK, Execution
  <2>4. <<"review", a>> \in Job
    BY <2>1 DEF Job
  <2> HIDE DEF a
  <2> QED
    BY <2>2, <2>3, <2>4 DEF Files
<1> QED
  BY <1>1, <1>2, <1>3, <1>4, <1>5 DEF HandlerStep

LEMMA QueueSteps ==
  ASSUME TypeInv, [Next]_vars
  PROVE  \/ UNCHANGED <<jobs, exec>>
         \/ Files
         \/ \E r \in Runner : GoesOn(r) \/ Reports(r) \/ LeaseLapses(r)
         \/ \E r \in Runner, j \in Job : Claim(r, j)
<1>1. ASSUME NEW c \in Command, Comment(c) PROVE Files
  <2>1. \A q \in Runner, j \in Job : Executes(q, j)' <=> Executes(q, j)
    BY <1>1 DEF Comment, Executes
  <2>2. <<"command", c>> \in Job
    BY DEF Job
  <2> QED
    BY <1>1, <2>1, <2>2 DEF Comment, Files
<1>2. ASSUME FirstReview \/ TerminalCounts \/ TerminalStores PROVE UNCHANGED <<jobs, exec>>
  BY <1>2 DEF FirstReview, TerminalCounts, TerminalStores
<1>3. ASSUME NEW r \in Runner, HandlerFails(r) \/ Crash(r) PROVE Reports(r)
  BY <1>3 DEF HandlerFails, Crash, Reports, JobOutcome
<1>4. ASSUME UNCHANGED vars PROVE UNCHANGED <<jobs, exec>>
  BY <1>4 DEF vars
<1> QED
  BY <1>1, <1>2, <1>3, <1>4, HandlerUsesQueue DEF Next

LEMMA ContractStep == TypeInv /\ [Next]_vars => Contract!Next
<1> SUFFICES ASSUME TypeInv, [Next]_vars PROVE Contract!Next
  OBVIOUS
<1>1. CASE Files
  <2>1. PICK k \in Job : jobs' = [jobs EXCEPT ![k] = Filed(jobs[k])]
    BY <1>1 DEF Files
  <2> QED
    BY <1>1, <2>1, JobIsFiled DEF Files
<1> QED
  BY <1>1, QueueSteps, WorkerRests, HandlerGoesOn, HandlerReports, LeaseIsLost, JobIsTaken

(* The command handlers, and the review job that one of them files, use the  *)
(* queue as its contract allows and in no other way.                        *)
THEOREM CommandsUnderContract == Spec => RunsUnderContract
<1>1. Init => Contract!Init
  BY ContractInit
<1>2. TypeInv /\ [Next]_vars => [Contract!Next]_(Contract!contractVars)
  BY ContractStep
<1>3. Spec => []TypeInv
  BY TypeInvInit, TypeInvStep, PTL DEF Spec
<1> QED
  BY <1>1, <1>2, <1>3, PTL DEF Spec, RunsUnderContract, Contract!Spec

-----------------------------------------------------------------------------
(* Hints *)

(* The levels 1..k are stored. Whoever counted hints earlier is about to    *)
(* store a level that is at most the next, because levels are only added,    *)
(* and a level that is shown is stored.                                     *)
HintsUpTo(k) ==
  /\ hints = 1..k
  /\ \A r \in Runner : exec[r].pc = "store" => exec[r].level <= k + 1
  /\ \A r \in Runner : exec[r].pc = "show" => exec[r].level <= k
  /\ terminal.level <= k + 1
HintInv == \E k \in 0..Levels : HintsUpTo(k)

LEMMA HintInvInit == Init => HintInv
<1> SUFFICES ASSUME Init PROVE HintInv
  OBVIOUS
<1>1. 0 \in 0..Levels /\ 1..0 = {}
  BY CommandsAssumption
<1>2. HintsUpTo(0)
  BY <1>1 DEF Init, HintsUpTo, Idle
<1> QED
  BY <1>1, <1>2 DEF HintInv

(* A step that stores no hint.                                             *)
LEMMA HintsStay ==
  ASSUME TypeInv, HintInv, UNCHANGED hints,
         terminal'.level = terminal.level \/ terminal'.level = NextLevel(hints),
         \A r \in Runner :
           /\ exec'[r].pc = "store" =>
                \/ exec'[r].level = NextLevel(hints)
                \/ exec[r].pc = "store" /\ exec'[r].level = exec[r].level
           /\ exec'[r].pc = "show" => exec[r].pc = "show" /\ exec'[r].level = exec[r].level
  PROVE  HintInv'
<1>1. PICK k \in 0..Levels : HintsUpTo(k)
  BY DEF HintInv
<1>2. NextLevel(hints) <= k + 1
  BY <1>1, NextLevelIsNext DEF HintsUpTo
<1>3. HintsUpTo(k)'
  BY <1>1, <1>2 DEF HintsUpTo
<1> QED
  BY <1>3 DEF HintInv

(* A step that stores a level somebody counted.                            *)
LEMMA HintsGrow ==
  ASSUME TypeInv, NEW k \in 0..Levels, HintsUpTo(k), NEW level \in Level, level <= k + 1,
         hints' = hints \cup {level}, terminal'.level = terminal.level,
         \A r \in Runner :
           /\ exec'[r].pc = "store" => exec[r].pc = "store" /\ exec'[r].level = exec[r].level
           /\ exec'[r].pc = "show" =>
                \/ exec'[r].level = level
                \/ exec[r].pc = "show" /\ exec'[r].level = exec[r].level
  PROVE  HintInv'
<1>1. k \in Nat /\ k <= Levels /\ Levels \in Nat \ {0} /\ level \in Nat /\ level >= 1 /\ level <= Levels
  BY CommandsAssumption DEF Level
<1>2. PICK m \in 0..Levels : m >= k /\ m >= level /\ 1..m = (1..k) \cup {level}
  <2>1. CASE level <= k
    <3>1. 1..k = (1..k) \cup {level}
      BY <1>1, <2>1
    <3> QED
      BY <1>1, <2>1, <3>1
  <2>2. CASE level = k + 1
    <3>1. 1..level = (1..k) \cup {level}
      BY <1>1, <2>2
    <3> QED
      BY <1>1, <2>2, <3>1
  <2> QED
    BY <1>1, <2>1, <2>2
<1>3. ASSUME NEW r \in Runner
      PROVE  /\ exec'[r].pc = "store" => exec'[r].level <= m + 1
             /\ exec'[r].pc = "show" => exec'[r].level <= m
  <2>1. exec[r].level \in Nat
    BY DEF TypeInv, TypeOK, Execution, Level
  <2>2. CASE exec'[r].pc = "store"
    BY <1>1, <1>2, <2>1, <2>2 DEF HintsUpTo
  <2>3. CASE exec'[r].pc = "show"
    BY <1>1, <1>2, <2>1, <2>3 DEF HintsUpTo
  <2> QED
    BY <2>2, <2>3
<1>4. terminal'.level <= m + 1
  <2>1. terminal.level \in Nat
    BY DEF TypeInv, TypeOK, Level
  <2> QED
    BY <1>1, <1>2, <2>1 DEF HintsUpTo
<1>5. hints' = 1..m
  BY <1>2 DEF HintsUpTo
<1>6. HintsUpTo(m)'
  BY <1>3, <1>4, <1>5 DEF HintsUpTo
<1> QED
  BY <1>2, <1>6 DEF HintInv

(* A step of an execution that has nothing to do with hints.               *)
LEMMA HintsOf ==
  ASSUME TypeInv, HintInv, NEW r \in Runner, Others(r), UNCHANGED <<hints, terminal>>,
         exec'[r].pc \notin {"store", "show"}
  PROVE  HintInv'
<1>1. ASSUME NEW q \in Runner
      PROVE  exec'[q].pc \in {"store", "show"} => exec'[q] = exec[q]
  BY DEF Others
<1> QED
  BY <1>1, HintsStay

LEMMA HintInvStep == TypeInv /\ HintInv /\ [Next]_vars => HintInv'
<1> SUFFICES ASSUME TypeInv, HintInv, [Next]_vars PROVE HintInv'
  OBVIOUS
<1>1. ASSUME UNCHANGED <<hints, terminal, exec>> PROVE HintInv'
  BY <1>1, HintsStay
<1>2. ASSUME NEW c \in Command, Comment(c) PROVE HintInv'
  BY <1>1, <1>2, CommentType DEF OnlyWorks
<1>3. ASSUME FirstReview PROVE HintInv'
  BY <1>1, <1>3, FirstReviewType
<1>4. ASSUME TerminalCounts \/ TerminalStores PROVE HintInv'
  <2>1. UNCHANGED exec
    BY <1>4, TerminalType
  <2>2. CASE UNCHANGED hints /\ terminal'.level = NextLevel(hints)
    BY <2>1, <2>2, HintsStay
  <2>3. CASE /\ hints' = hints \cup {terminal.level} /\ terminal.level \in Level
             /\ terminal'.level = terminal.level
    <3>1. PICK k \in 0..Levels : HintsUpTo(k)
      BY DEF HintInv
    <3>2. terminal.level <= k + 1
      BY <3>1 DEF HintsUpTo
    <3> QED
      BY <2>1, <2>3, <3>1, <3>2, HintsGrow
  <2> QED
    BY <1>4, <2>2, <2>3, TerminalType
<1>5. ASSUME NEW r \in Runner, NEW j \in Job, Claim(r, j) PROVE HintInv'
  BY <1>5, ClaimType, HintsOf DEF OnlyWorks
<1>6. ASSUME NEW r \in Runner, LeaseLapses(r) PROVE HintInv'
  BY <1>1, <1>6, LapseType DEF OnlyWorks
<1>7. ASSUME NEW r \in Runner, Others(r), UNCHANGED <<hints, terminal>>, exec'[r] = Idle
      PROVE  HintInv'
  BY <1>7, HintsOf, IdleExecution
<1>8. ASSUME NEW r \in Runner, HandlerFails(r) \/ Crash(r) PROVE HintInv'
  BY <1>7, <1>8, EndsBadly DEF ExecutionEnds, OnlyWorks
<1>9. ASSUME NEW r \in Runner, HandlerStep(r) PROVE HintInv'
  <2>1. CASE CountHints(r)
    <3>1. /\ UNCHANGED <<hints, terminal>> /\ Others(r) /\ exec'[r].pc = "store"
          /\ exec'[r].level = NextLevel(hints)
      BY <2>1, CountHintsType DEF OnlyWorks
    <3>2. ASSUME NEW q \in Runner
          PROVE  /\ exec'[q].pc = "store" =>
                      \/ exec'[q].level = NextLevel(hints)
                      \/ exec[q].pc = "store" /\ exec'[q].level = exec[q].level
                 /\ exec'[q].pc = "show" => exec[q].pc = "show" /\ exec'[q].level = exec[q].level
      BY <3>1 DEF Others
    <3> QED
      BY <3>1, <3>2, HintsStay
  <2>2. CASE StoreHint(r)
    <3>1. /\ exec[r].pc = "store" /\ Moves(r, "show") /\ Others(r) /\ exec[r].level \in Level
          /\ hints' = hints \cup {exec[r].level} /\ terminal'.level = terminal.level
      BY <2>2, StoreHintType
    <3>2. PICK k \in 0..Levels : HintsUpTo(k)
      BY DEF HintInv
    <3>3. exec[r].level <= k + 1
      BY <3>1, <3>2 DEF HintsUpTo
    <3>4. ASSUME NEW q \in Runner
          PROVE  /\ exec'[q].pc = "store" => exec[q].pc = "store" /\ exec'[q].level = exec[q].level
                 /\ exec'[q].pc = "show" =>
                      \/ exec'[q].level = exec[r].level
                      \/ exec[q].pc = "show" /\ exec'[q].level = exec[q].level
      BY <3>1 DEF Others, Moves
    <3> QED
      BY <3>1, <3>2, <3>3, <3>4, HintsGrow
  <2>3. CASE ShowHint(r)
    BY <1>7, <2>3, ShowHintType DEF ExecutionEnds, OnlyWorks
  <2>4. CASE FindLatest(r)
    BY <2>4, FindLatestType, HintsOf DEF OnlyWorks, Moves
  <2>5. CASE RefuseAppeal(r)
    BY <1>7, <2>5, RefuseAppealType DEF ExecutionEnds, OnlyWorks
  <2>6. CASE CreateAppeal(r)
    BY <2>6, CreateAppealType, HintsOf DEF Moves
  <2>7. CASE EnqueueReview(r)
    BY <2>7, EnqueueReviewType, HintsOf DEF OnlyWorks, Moves
  <2>8. CASE PromiseReview(r)
    BY <1>7, <2>8, PromiseReviewType DEF ExecutionEnds
  <2>9. CASE ReadAppeal(r)
    BY <1>7, <2>9, ReadAppealType, HintsOf DEF ExecutionEnds, OnlyWorks, Moves
  <2>10. CASE ResolveAppeal(r)
    BY <2>10, ResolveAppealType, HintsOf DEF Moves
  <2>11. CASE PostResult(r)
    BY <1>7, <2>11, PostResultType DEF ExecutionEnds
  <2> QED
    BY <1>9, <2>1, <2>2, <2>3, <2>4, <2>5, <2>6, <2>7, <2>8, <2>9, <2>10, <2>11
       DEF HandlerStep
<1>10. CASE UNCHANGED vars
  BY <1>1, <1>10 DEF vars, tables
<1> QED
  BY <1>2, <1>3, <1>4, <1>5, <1>6, <1>8, <1>9, <1>10 DEF Next

(* However many comments are handled at once and whatever the terminal does  *)
(* meanwhile, the stored hints have no gap and only stored hints are shown.  *)
THEOREM HintsInOrder == Spec => []HintsAreProgressive
<1>1. TypeInv /\ HintInv => HintsAreProgressive
  <2> SUFFICES ASSUME TypeInv, HintInv PROVE HintsAreProgressive
    OBVIOUS
  <2>1. PICK k \in 0..Levels : HintsUpTo(k)
    BY DEF HintInv
  <2>2. \A l \in hints : \A lower \in 1..l : lower \in hints
    BY <2>1 DEF HintsUpTo
  <2>3. ASSUME NEW r \in Runner, Commands(r, Hint, "show") PROVE exec[r].level \in hints
    BY <2>1, <2>3 DEF HintsUpTo, Commands, At, TypeInv, TypeOK, Execution, Level
  <2> QED
    BY <2>2, <2>3 DEF HintsAreProgressive
<1>2. Init => TypeInv /\ HintInv
  BY TypeInvInit, HintInvInit
<1>3. TypeInv /\ HintInv /\ [Next]_vars => (TypeInv /\ HintInv)'
  BY TypeInvStep, HintInvStep
<1> QED
  BY <1>1, <1>2, <1>3, PTL DEF Spec

-----------------------------------------------------------------------------
(* Promised reviews, with any number of executions *)

(* An appeal command that is about to answer has filed the review of the    *)
(* appeal it created, and one that has answered filed one of them.          *)
PromiseInv ==
  /\ \A r \in Runner : \A c \in Appeal :
       exec[r].job = <<"command", c>> /\ exec[r].pc = "promise" =>
         jobs[<<"review", <<c, exec[r].try>>>>].status # "absent"
  /\ \A c \in promised :
       \E n \in 1..MaxTries : jobs[<<"review", <<c, n>>>>].status # "absent"

LEMMA ReviewJobs ==
  \A c \in Appeal : \A n \in 1..MaxTries :
    <<c, n>> \in AppealId /\ <<"review", <<c, n>>>> \in Job
BY DEF AppealId, Job

LEMMA CommandTry ==
  ASSUME TypeInv, NEW r \in Runner, NEW c \in Appeal, exec[r].job = <<"command", c>>
  PROVE  exec[r].try \in 1..MaxTries
BY DEF TypeInv, Fits, NoJob

(* A step that files no fewer jobs and answers no appeal.                  *)
LEMMA PromisesStay ==
  ASSUME TypeInv, PromiseInv, NoneLost, UNCHANGED promised,
         \A r \in Runner : exec'[r].pc = "promise" => exec'[r] = exec[r]
  PROVE  PromiseInv'
<1>1. ASSUME NEW r \in Runner, NEW c \in Appeal,
             exec'[r].job = <<"command", c>>, exec'[r].pc = "promise"
      PROVE  jobs'[<<"review", <<c, exec'[r].try>>>>].status # "absent"
  <2>1. exec'[r] = exec[r] /\ exec[r].try \in 1..MaxTries
    BY <1>1, CommandTry
  <2> QED
    BY <1>1, <2>1, ReviewJobs DEF PromiseInv, NoneLost
<1>2. ASSUME NEW c \in promised
      PROVE  \E n \in 1..MaxTries : jobs'[<<"review", <<c, n>>>>].status # "absent"
  <2>1. PICK n \in 1..MaxTries : jobs[<<"review", <<c, n>>>>].status # "absent"
    BY DEF PromiseInv
  <2>2. c \in Appeal
    BY DEF TypeInv, TypeOK
  <2> QED
    BY <2>1, <2>2, ReviewJobs DEF NoneLost
<1> QED
  BY <1>1, <1>2 DEF PromiseInv

LEMMA PromisesOf ==
  ASSUME TypeInv, PromiseInv, NEW r \in Runner, Others(r), NoneLost, UNCHANGED promised,
         exec'[r].pc # "promise"
  PROVE  PromiseInv'
<1>1. ASSUME NEW q \in Runner PROVE exec'[q].pc = "promise" => exec'[q] = exec[q]
  BY DEF Others
<1> QED
  BY <1>1, PromisesStay

LEMMA PromiseInvStep == TypeInv /\ PromiseInv /\ [Next]_vars => PromiseInv'
<1> SUFFICES ASSUME TypeInv, PromiseInv, [Next]_vars PROVE PromiseInv'
  OBVIOUS
<1>1. ASSUME UNCHANGED <<exec, promised>>, NoneLost PROVE PromiseInv'
  BY <1>1, PromisesStay
<1>2. ASSUME NEW r \in Runner, ExecutionEnds(r), UNCHANGED promised PROVE PromiseInv'
  BY <1>2, PromisesOf, IdleExecution DEF ExecutionEnds
<1>3. ASSUME NEW c \in Command, Comment(c) PROVE PromiseInv'
  BY <1>1, <1>3, CommentType DEF OnlyWorks
<1>4. ASSUME FirstReview \/ TerminalCounts \/ TerminalStores PROVE PromiseInv'
  BY <1>1, <1>4, FirstReviewType, TerminalType, SameTable
<1>5. ASSUME NEW r \in Runner, NEW j \in Job, Claim(r, j) PROVE PromiseInv'
  BY <1>5, ClaimType, PromisesOf DEF OnlyWorks
<1>6. ASSUME NEW r \in Runner, LeaseLapses(r) PROVE PromiseInv'
  BY <1>1, <1>6, LapseType DEF OnlyWorks
<1>7. ASSUME NEW r \in Runner, HandlerFails(r) \/ Crash(r) PROVE PromiseInv'
  BY <1>2, <1>7, EndsBadly DEF OnlyWorks
<1>8. ASSUME NEW r \in Runner, HandlerStep(r) PROVE PromiseInv'
  <2>1. ASSUME NEW pc, pc # "promise", UNCHANGED <<jobs, promised>>, Others(r), exec'[r].pc = pc
        PROVE  PromiseInv'
    BY <2>1, PromisesOf, SameTable
  <2>2. CASE CountHints(r)
    BY <2>1, <2>2, CountHintsType DEF OnlyWorks
  <2>3. CASE StoreHint(r)
    BY <2>1, <2>3, StoreHintType DEF Moves
  <2>4. CASE ShowHint(r) \/ RefuseAppeal(r)
    BY <1>2, <2>4, ShowHintType, RefuseAppealType DEF OnlyWorks
  <2>5. CASE FindLatest(r)
    BY <2>1, <2>5, FindLatestType DEF OnlyWorks, Moves
  <2>6. CASE CreateAppeal(r)
    BY <2>1, <2>6, CreateAppealType DEF Moves
  <2>7. CASE EnqueueReview(r)
    <3>1. /\ Others(r) /\ Moves(r, "promise") /\ NoneLost /\ UNCHANGED promised
          /\ jobs'[<<"review", AppealOf(r)>>].status # "absent"
      BY <2>7, EnqueueReviewType DEF OnlyWorks
    <3>2. PICK c \in Appeal : exec[r].job = <<"command", c>> /\ AppealOf(r) = <<c, exec[r].try>>
      BY <2>7, EnqueueReviewType
    <3>3. ASSUME NEW q \in Runner, NEW d \in Appeal,
                 exec'[q].job = <<"command", d>>, exec'[q].pc = "promise"
          PROVE  jobs'[<<"review", <<d, exec'[q].try>>>>].status # "absent"
      <4>1. CASE q = r
        <5>1. d = c /\ exec'[q].try = exec[r].try
          BY <3>1, <3>2, <3>3, <4>1 DEF Moves
        <5> QED
          BY <3>1, <3>2, <5>1
      <4>2. CASE q # r
        <5>1. exec'[q] = exec[q] /\ exec[q].try \in 1..MaxTries
          BY <3>1, <3>3, <4>2, CommandTry DEF Others
        <5> QED
          BY <3>1, <3>3, <5>1, ReviewJobs DEF PromiseInv, NoneLost
      <4> QED
        BY <4>1, <4>2
    <3>4. ASSUME NEW d \in promised
          PROVE  \E n \in 1..MaxTries : jobs'[<<"review", <<d, n>>>>].status # "absent"
      BY <3>1, ReviewJobs DEF PromiseInv, NoneLost, TypeInv, TypeOK
    <3> QED
      BY <3>1, <3>3, <3>4 DEF PromiseInv
  <2>8. CASE PromiseReview(r)
    <3>1. ExecutionEnds(r) /\ exec[r].pc = "promise"
      BY <2>8, PromiseReviewType
    <3>2. PICK c \in Appeal : /\ exec[r].job = <<"command", c>> /\ exec[r].try \in 1..MaxTries
                              /\ promised' = promised \cup {c}
      BY <2>8, PromiseReviewType
    <3>3. NoneLost /\ jobs[<<"review", <<c, exec[r].try>>>>].status # "absent"
      BY <3>1, <3>2 DEF PromiseInv, ExecutionEnds
    <3>4. ASSUME NEW d \in promised'
          PROVE  \E n \in 1..MaxTries : jobs'[<<"review", <<d, n>>>>].status # "absent"
      <4>1. CASE d = c
        BY <3>2, <3>3, <4>1, ReviewJobs DEF NoneLost
      <4>2. CASE d \in promised
        BY <3>3, <4>2, ReviewJobs DEF PromiseInv, NoneLost, TypeInv, TypeOK
      <4> QED
        BY <3>2, <4>1, <4>2
    <3>5. ASSUME NEW q \in Runner, NEW d \in Appeal,
                 exec'[q].job = <<"command", d>>, exec'[q].pc = "promise"
          PROVE  jobs'[<<"review", <<d, exec'[q].try>>>>].status # "absent"
      <4>1. q # r
        BY <3>1, <3>5, IdleExecution DEF ExecutionEnds
      <4>2. exec'[q] = exec[q] /\ exec[q].try \in 1..MaxTries
        BY <3>1, <3>5, <4>1, CommandTry DEF ExecutionEnds, Others
      <4> QED
        BY <3>3, <3>5, <4>2, ReviewJobs DEF PromiseInv, NoneLost
    <3> QED
      BY <3>4, <3>5 DEF PromiseInv
  <2>9. CASE ReadAppeal(r)
    BY <1>2, <2>1, <2>9, ReadAppealType DEF OnlyWorks, Moves
  <2>10. CASE ResolveAppeal(r)
    BY <2>1, <2>10, ResolveAppealType DEF Moves
  <2>11. CASE PostResult(r)
    BY <1>2, <2>11, PostResultType
  <2> QED
    BY <1>8, <2>2, <2>3, <2>4, <2>5, <2>6, <2>7, <2>8, <2>9, <2>10, <2>11 DEF HandlerStep
<1>9. CASE UNCHANGED vars
  BY <1>1, <1>9, SameTable DEF vars
<1> QED
  BY <1>3, <1>4, <1>5, <1>6, <1>7, <1>8, <1>9 DEF Next

-----------------------------------------------------------------------------
(* Appeals, with one execution of a job at a time *)

(* An execution that is about to create an appeal creates a new one, one that *)
(* grades finds it undecided, and one that posts has decided it and not yet   *)
(* posted.                                                                    *)
AppealFits(r) ==
  /\ \A c \in Appeal : exec[r].job = <<"command", c>> =>
       /\ exec[r].try <= jobs[<<"command", c>>].tries
       /\ exec[r].pc \in {"read", "create"} =>
            appeals[<<c, exec[r].try>>].status = "absent"
  /\ \A a \in AppealId : exec[r].job = <<"review", a>> =>
       /\ exec[r].pc = "grade" => appeals[a].status = "pending"
       /\ exec[r].pc = "post" => appeals[a].status = "resolved" /\ appeals[a].posted = 0

(* Appeals are numbered by the tries their command used.                   *)
AppealsNumbered ==
  \A c \in Appeal : \A n \in 1..MaxTries :
    appeals[<<c, n>>].status # "absent" => n <= jobs[<<"command", c>>].tries

CompletedReviewsPosted ==
  \A a \in AppealId :
    jobs[<<"review", a>>].status = "completed" =>
      appeals[a].status = "resolved" /\ appeals[a].posted = 1

AppealInv ==
  /\ AppealsNumbered /\ CompletedReviewsPosted /\ AppealDecidedOnce
  /\ \A r \in Runner : AppealFits(r)

OneRunner == \A q, r \in Runner : q = r
OneExecutionPerJob == \A q, r \in Runner, j \in Job : Executes(q, j) /\ Executes(r, j) => q = r

LEMMA BusyExecution ==
  ASSUME TypeInv, NEW r \in Runner, exec[r].job # NoJob
  PROVE  exec[r].pc # "idle"
BY DEF TypeInv, Fits

(* Another execution works on another job.                                 *)
LEMMA OtherJob ==
  ASSUME OneExecutionPerJob, TypeInv, NEW r \in Runner, NEW q \in Runner, q # r,
         exec[r].pc # "idle"
  PROVE  exec[q].pc = "idle" \/ exec[q].job # exec[r].job
BY JobOfExecution DEF OneExecutionPerJob, Executes

LEMMA JobKinds ==
  /\ \A c \in Command : <<"command", c>> \in Job
  /\ \A a \in AppealId : <<"review", a>> \in Job
  /\ \A c \in Command, a \in AppealId : <<"command", c>> # <<"review", a>>
  /\ \A a, b \in AppealId : <<"review", a>> = <<"review", b>> => a = b
  /\ \A c, d \in Command : <<"command", c>> = <<"command", d>> => c = d
  /\ Appeal \subseteq Command
BY DEF Job, Command

LEMMA AppealInvInit == Init => AppealInv
<1> SUFFICES ASSUME Init PROVE AppealInv
  OBVIOUS
<1>1. ASSUME NEW a \in AppealId
      PROVE  /\ appeals[a].status = "absent" /\ appeals[a].results = 0
             /\ appeals[a].posted = 0 /\ jobs[<<"review", a>>].status = "absent"
  <2>1. appeals[a] = NoAppeal /\ jobs[<<"review", a>>] = Unfiled
    BY JobKinds DEF Init
  <2> QED
    BY <2>1 DEF NoAppeal, Unfiled
<1>2. \A c \in Appeal : \A n \in 1..MaxTries : appeals[<<c, n>>].status = "absent"
  BY <1>1, ReviewJobs
<1>3. CompletedReviewsPosted /\ AppealDecidedOnce
  <2>1. CompletedReviewsPosted
    BY <1>1 DEF CompletedReviewsPosted
  <2>2. ASSUME NEW a \in AppealId
        PROVE  /\ appeals[a].results = IF appeals[a].status = "resolved" THEN 1 ELSE 0
               /\ appeals[a].posted <= appeals[a].results
    <3>1. appeals[a].status = "absent" /\ appeals[a].results = 0 /\ appeals[a].posted = 0
      BY <1>1
    <3> QED
      BY <3>1
  <2> QED
    BY <2>1, <2>2 DEF AppealDecidedOnce
<1>4. \A r \in Runner : AppealFits(r)
  BY IdleExecution, JobKinds DEF Init, AppealFits
<1> QED
  BY <1>2, <1>3, <1>4 DEF AppealInv, AppealsNumbered

MoreTries == \A j \in Job : jobs'[j].tries >= jobs[j].tries

LEMMA SameTriesMore == ASSUME TypeInv, SameTries PROVE MoreTries
BY DEF SameTries, MoreTries, TypeInv, TypeOK, JobRow

(* An execution that does not move still fits, if its appeals do not change. *)
LEMMA FitsStill ==
  ASSUME TypeInv, TypeInv', NEW r \in Runner, AppealFits(r), UNCHANGED appeals, MoreTries,
         exec'[r] = exec[r]
  PROVE  AppealFits(r)'
<1>1. ASSUME NEW c \in Appeal, exec[r].job = <<"command", c>>
      PROVE  exec[r].try <= jobs'[<<"command", c>>].tries
  <2> DEFINE j == <<"command", c>>
  <2>1. /\ j \in Job /\ exec[r].try <= jobs[j].tries /\ jobs'[j].tries >= jobs[j].tries
    BY <1>1, JobKinds DEF AppealFits, MoreTries
  <2> HIDE DEF j
  <2>2. jobs[j].tries \in Nat /\ jobs'[j].tries \in Nat /\ exec[r].try \in Nat
    BY <2>1, HandlerJobsAssumption DEF TypeInv, TypeOK, JobRow, Execution
  <2>3. exec[r].try <= jobs'[j].tries
    BY <2>1, <2>2
  <2> QED
    BY <2>3 DEF j
<1> QED
  BY <1>1 DEF AppealFits

(* A step that changes no appeal and completes no review.                  *)
LEMMA AppealsStay ==
  ASSUME TypeInv, TypeInv', AppealInv, UNCHANGED appeals, MoreTries,
         \A a \in AppealId : jobs'[<<"review", a>>].status = "completed" =>
                               jobs[<<"review", a>>].status = "completed",
         NEW r \in Runner, Others(r), AppealFits(r)'
  PROVE  AppealInv'
<1>1. ASSUME NEW q \in Runner PROVE AppealFits(q)'
  <2>1. CASE q = r
    BY <2>1
  <2>2. CASE q # r
    BY <2>2, FitsStill DEF Others, AppealInv
  <2> QED
    BY <2>1, <2>2
<1>2. AppealsNumbered'
  <2> SUFFICES ASSUME NEW c \in Appeal, NEW n \in 1..MaxTries, appeals[<<c, n>>].status # "absent"
               PROVE  n <= jobs'[<<"command", c>>].tries
    BY DEF AppealsNumbered
  <2> DEFINE j == <<"command", c>>
  <2>1. j \in Job /\ n <= jobs[j].tries /\ jobs'[j].tries >= jobs[j].tries
    BY JobKinds DEF AppealInv, AppealsNumbered, MoreTries
  <2> HIDE DEF j
  <2>2. jobs[j].tries \in Nat /\ jobs'[j].tries \in Nat /\ n \in Nat
    BY <2>1, HandlerJobsAssumption DEF TypeInv, TypeOK, JobRow
  <2>3. n <= jobs'[j].tries
    BY <2>1, <2>2
  <2> QED
    BY <2>3 DEF j
<1>3. CompletedReviewsPosted' /\ AppealDecidedOnce'
  BY DEF AppealInv, CompletedReviewsPosted, AppealDecidedOnce
<1>4. \A q \in Runner : AppealFits(q)'
  BY <1>1
<1>5. (\A q \in Runner : AppealFits(q))'
  BY <1>4
<1> QED
  BY <1>2, <1>3, <1>5 DEF AppealInv

(* The same, for a step that moves no execution.                           *)
LEMMA NobodyMoves ==
  ASSUME TypeInv, TypeInv', AppealInv, UNCHANGED <<appeals, exec>>, SameTries,
         CompletesOnly({})
  PROVE  AppealInv'
<1>1. CASE Runner = {}
  <2>1. AppealsNumbered' /\ CompletedReviewsPosted' /\ AppealDecidedOnce'
    BY JobKinds DEF AppealInv, AppealsNumbered, CompletedReviewsPosted, AppealDecidedOnce,
                    SameTries, CompletesOnly
  <2> QED
    BY <1>1, <2>1 DEF AppealInv
<1>2. CASE Runner # {}
  <2>1. PICK r \in Runner : TRUE
    BY <1>2
  <2>2. Others(r) /\ exec'[r] = exec[r] /\ MoreTries
    BY SameTriesMore DEF Others
  <2>3. AppealFits(r)'
    BY <2>2, FitsStill DEF AppealInv
  <2>4. \A a \in AppealId : jobs'[<<"review", a>>].status = "completed" =>
                              jobs[<<"review", a>>].status = "completed"
    BY JobKinds DEF CompletesOnly
  <2> QED
    BY <2>2, <2>3, <2>4, AppealsStay
<1> QED
  BY <1>1, <1>2

(* The end of an execution that completed no review.                       *)
LEMMA EndsKept ==
  ASSUME TypeInv, TypeInv', AppealInv, UNCHANGED appeals, NEW r \in Runner, ExecutionEnds(r), NEW S,
         CompletesOnly(S), \A a \in AppealId : <<"review", a>> \notin S
  PROVE  AppealInv'
<1>1. Others(r) /\ exec'[r] = Idle /\ MoreTries
  BY SameTriesMore DEF ExecutionEnds
<1>2. AppealFits(r)'
  BY <1>1, IdleExecution, JobKinds DEF AppealFits
<1>3. \A a \in AppealId : jobs'[<<"review", a>>].status = "completed" =>
                            jobs[<<"review", a>>].status = "completed"
  BY JobKinds DEF CompletesOnly
<1> QED
  BY <1>1, <1>2, <1>3, AppealsStay

(* An execution that goes on in its handler, and changes no appeal.        *)
LEMMA GoesOnKept ==
  ASSUME TypeInv, TypeInv', AppealInv, UNCHANGED appeals, NEW r \in Runner, Others(r),
         SameTries, CompletesOnly({}),
         exec'[r].job = exec[r].job, exec'[r].try = exec[r].try,
         exec'[r].pc \in {"read", "create"} => exec[r].pc \in {"read", "create"},
         exec'[r].pc = "grade" =>
           \E a \in AppealId : exec[r].job = <<"review", a>> /\ appeals[a].status = "pending",
         exec'[r].pc # "post"
  PROVE  AppealInv'
<1>1. MoreTries
  BY SameTriesMore
<1>2. AppealFits(r)
  BY DEF AppealInv
<1>3. ASSUME NEW c \in Appeal, exec'[r].job = <<"command", c>>
      PROVE  /\ exec'[r].try <= jobs'[<<"command", c>>].tries
             /\ exec'[r].pc \in {"read", "create"} =>
                  appeals'[<<c, exec'[r].try>>].status = "absent"
  BY <1>2, <1>3, JobKinds DEF AppealFits, SameTries
<1>4. ASSUME NEW a \in AppealId, exec'[r].job = <<"review", a>>, exec'[r].pc = "grade"
      PROVE  appeals'[a].status = "pending"
  BY <1>4, JobKinds
<1>5. AppealFits(r)'
  BY <1>3, <1>4 DEF AppealFits
<1>6. \A a \in AppealId : jobs'[<<"review", a>>].status = "completed" =>
                            jobs[<<"review", a>>].status = "completed"
  BY JobKinds DEF CompletesOnly
<1> QED
  BY <1>1, <1>5, <1>6, AppealsStay

LEMMA ClaimKept ==
  ASSUME TypeInv, AppealInv, NEW r \in Runner, NEW j \in Job, Claim(r, j)
  PROVE  AppealInv'
<1>1. /\ TypeInv' /\ OnlyWorks /\ Others(r)
      /\ CompletesOnly({})
      /\ exec'[r].job = j /\ exec'[r].pc = "read" /\ exec'[r].try = jobs[j].tries + 1
      /\ jobs'[j].tries = jobs[j].tries + 1
      /\ \A k \in Job : k # j => jobs'[k] = jobs[k]
  BY ClaimType
<1>2. UNCHANGED appeals
  BY <1>1 DEF OnlyWorks
<1>3. \A k \in Job : jobs[k].tries \in Nat
  BY HandlerJobsAssumption DEF TypeInv, TypeOK, JobRow
<1>4. MoreTries
  <2> SUFFICES ASSUME NEW k \in Job PROVE jobs'[k].tries >= jobs[k].tries
    BY DEF MoreTries
  <2>1. CASE k = j
    BY <1>1, <1>3, <2>1
  <2>2. CASE k # j
    BY <1>1, <1>3, <2>2
  <2> QED
    BY <2>1, <2>2
<1>5. ASSUME NEW c \in Appeal, j = <<"command", c>>
      PROVE  /\ exec'[r].try <= jobs'[j].tries
             /\ appeals[<<c, exec'[r].try>>].status = "absent"
  <2>1. exec'[r].try \in 1..MaxTries
    BY <1>1, <1>5, CommandTry, JobKinds DEF TypeInv, Fits, NoJob
  <2>2. jobs[j].tries \in Nat /\ exec'[r].try = jobs[j].tries + 1
    BY <1>1, <1>3
  <2>3. ~(exec'[r].try <= jobs[j].tries) /\ exec'[r].try <= jobs'[j].tries
    BY <1>1, <2>2
  <2> QED
    BY <1>5, <2>1, <2>3 DEF AppealInv, AppealsNumbered
<1>6. AppealFits(r)'
  BY <1>1, <1>2, <1>5 DEF AppealFits
<1>7. \A a \in AppealId : jobs'[<<"review", a>>].status = "completed" =>
                            jobs[<<"review", a>>].status = "completed"
  BY <1>1, JobKinds DEF CompletesOnly
<1> QED
  BY <1>1, <1>2, <1>4, <1>6, <1>7, AppealsStay

(* The appeal that a try creates is new, so nothing was decided about it.  *)
LEMMA CreateAppealKept ==
  ASSUME OneExecutionPerJob, TypeInv, AppealInv, NEW r \in Runner, CreateAppeal(r)
  PROVE  AppealInv'
<1> DEFINE a == AppealOf(r)
<1>1. /\ TypeInv' /\ UNCHANGED jobs
      /\ exec[r].pc = "create" /\ Moves(r, "enqueue") /\ a \in AppealId
      /\ appeals'[a] = [appeals[a] EXCEPT !.status = "pending"]
      /\ \A b \in AppealId : b # a => appeals'[b] = appeals[b]
  BY CreateAppealType
<1>2. PICK c \in Appeal : exec[r].job = <<"command", c>> /\ a = <<c, exec[r].try>>
  BY CreateAppealType
<1> HIDE DEF a
<1>3. /\ appeals'[a].status = "pending" /\ appeals'[a].results = appeals[a].results
      /\ appeals'[a].posted = appeals[a].posted
  BY <1>1 DEF TypeInv, TypeOK, AppealRow
<1>4. /\ appeals[a].status = "absent" /\ exec[r].try <= jobs[<<"command", c>>].tries
  BY <1>1, <1>2 DEF AppealInv, AppealFits
<1>5. appeals[a].results = 0 /\ appeals[a].posted <= appeals[a].results
  BY <1>1, <1>4 DEF AppealInv, AppealDecidedOnce
<1>6. ASSUME NEW b \in AppealId
      PROVE  /\ appeals'[b].results = IF appeals'[b].status = "resolved" THEN 1 ELSE 0
             /\ appeals'[b].posted <= appeals'[b].results
             /\ jobs'[<<"review", b>>].status = "completed" =>
                  appeals'[b].status = "resolved" /\ appeals'[b].posted = 1
  <2>1. CASE b = a
    BY <1>1, <1>3, <1>4, <1>5, <2>1 DEF AppealInv, CompletedReviewsPosted
  <2>2. CASE b # a
    BY <1>1, <2>2 DEF AppealInv, CompletedReviewsPosted, AppealDecidedOnce
  <2> QED
    BY <2>1, <2>2
<1>7. AppealsNumbered'
  <2> SUFFICES ASSUME NEW d \in Appeal, NEW n \in 1..MaxTries, appeals'[<<d, n>>].status # "absent"
               PROVE  n <= jobs[<<"command", d>>].tries
    BY <1>1 DEF AppealsNumbered
  <2>1. CASE <<d, n>> = a
    BY <1>2, <1>4, <2>1
  <2>2. CASE <<d, n>> # a
    BY <1>1, <2>2, ReviewJobs DEF AppealInv, AppealsNumbered
  <2> QED
    BY <2>1, <2>2
<1>8. AppealFits(r)'
  BY <1>1, <1>2, <1>4, JobKinds DEF AppealFits, Moves
<1>9. ASSUME NEW q \in Runner, q # r PROVE AppealFits(q)'
  <2>1. Others(r) /\ exec'[q] = exec[q] /\ AppealFits(q)
    BY <1>9, CreateAppealType DEF Others, AppealInv
  <2>2. exec[q].pc = "idle" \/ exec[q].job # <<"command", c>>
    BY <1>1, <1>2, <1>9, OtherJob
  <2>3. ASSUME NEW d \in Appeal, exec[q].job = <<"command", d>>
        PROVE  /\ exec[q].try <= jobs[<<"command", d>>].tries
               /\ exec[q].pc \in {"read", "create"} =>
                    appeals'[<<d, exec[q].try>>].status = "absent"
    <3>1. exec[q].try \in 1..MaxTries /\ exec[q].pc # "idle"
      BY <2>3, CommandTry, BusyExecution DEF NoJob
    <3>2. <<d, exec[q].try>> \in AppealId /\ <<d, exec[q].try>> # a
      BY <1>2, <2>2, <2>3, <3>1, ReviewJobs
    <3> QED
      BY <1>1, <2>1, <2>3, <3>2 DEF AppealFits
  <2>4. ASSUME NEW b \in AppealId, exec[q].job = <<"review", b>>
        PROVE  /\ exec[q].pc = "grade" => appeals'[b].status = "pending"
               /\ exec[q].pc = "post" => appeals'[b].status = "resolved" /\ appeals'[b].posted = 0
    BY <1>1, <1>4, <2>1, <2>4 DEF AppealFits
  <2> QED
    BY <1>1, <2>1, <2>3, <2>4 DEF AppealFits
<1>10. (\A q \in Runner : AppealFits(q))'
  BY <1>8, <1>9
<1> QED
  BY <1>6, <1>7, <1>10 DEF AppealInv, CompletedReviewsPosted, AppealDecidedOnce

(* An appeal is decided while it is pending, hence for the first time.     *)
LEMMA ResolveAppealKept ==
  ASSUME OneExecutionPerJob, TypeInv, AppealInv, NEW r \in Runner, ResolveAppeal(r)
  PROVE  AppealInv'
<1>1. TypeInv' /\ UNCHANGED jobs /\ exec[r].pc = "grade" /\ Moves(r, "post")
  BY ResolveAppealType
<1>2. PICK a \in AppealId :
        /\ exec[r].job = <<"review", a>>
        /\ appeals'[a].status = "resolved" /\ appeals'[a].results = appeals[a].results + 1
        /\ appeals'[a].posted = appeals[a].posted
        /\ \A b \in AppealId : b # a => appeals'[b] = appeals[b]
  BY ResolveAppealType
<1>3. appeals[a].status = "pending"
  BY <1>1, <1>2 DEF AppealInv, AppealFits
<1>4. appeals[a].results = 0 /\ appeals[a].posted <= 0 /\ appeals[a].posted \in Nat
  BY <1>3 DEF AppealInv, AppealDecidedOnce, TypeInv, TypeOK, AppealRow
<1>5. appeals[a].posted = 0
  BY <1>4
<1>6. ASSUME NEW b \in AppealId
      PROVE  /\ appeals'[b].results = IF appeals'[b].status = "resolved" THEN 1 ELSE 0
             /\ appeals'[b].posted <= appeals'[b].results
             /\ jobs'[<<"review", b>>].status = "completed" =>
                  appeals'[b].status = "resolved" /\ appeals'[b].posted = 1
  <2>1. CASE b = a
    BY <1>1, <1>2, <1>3, <1>4, <1>5, <2>1 DEF AppealInv, CompletedReviewsPosted
  <2>2. CASE b # a
    BY <1>1, <1>2, <2>2 DEF AppealInv, CompletedReviewsPosted, AppealDecidedOnce
  <2> QED
    BY <2>1, <2>2
<1>7. AppealsNumbered'
  BY <1>1, <1>2, <1>3, ReviewJobs DEF AppealInv, AppealsNumbered
<1>8. AppealFits(r)'
  BY <1>1, <1>2, <1>5, JobKinds DEF AppealFits, Moves
<1>9. ASSUME NEW q \in Runner, q # r PROVE AppealFits(q)'
  <2>1. exec'[q] = exec[q] /\ AppealFits(q)
    BY <1>9, ResolveAppealType DEF ExecutionEnds, Others, AppealInv
  <2>2. exec[q].pc = "idle" \/ exec[q].job # <<"review", a>>
    BY <1>1, <1>2, <1>9, OtherJob
  <2>3. ASSUME NEW d \in Appeal, exec[q].job = <<"command", d>>
        PROVE  /\ exec[q].try <= jobs'[<<"command", d>>].tries
               /\ exec[q].pc \in {"read", "create"} =>
                    appeals'[<<d, exec[q].try>>].status = "absent"
    <3>1. <<d, exec[q].try>> \in AppealId
      BY <2>3, CommandTry, ReviewJobs
    <3>2. jobs'[<<"command", d>>].tries = jobs[<<"command", d>>].tries
      BY <1>1, JobKinds
    <3> QED
      BY <1>2, <1>3, <2>1, <2>3, <3>1, <3>2 DEF AppealFits
  <2>4. ASSUME NEW b \in AppealId, exec[q].job = <<"review", b>>
        PROVE  /\ exec[q].pc = "grade" => appeals'[b].status = "pending"
               /\ exec[q].pc = "post" => appeals'[b].status = "resolved" /\ appeals'[b].posted = 0
    <3>1. exec[q].pc # "idle" /\ b # a
      BY <2>2, <2>4, BusyExecution DEF NoJob
    <3> QED
      BY <1>2, <2>1, <2>4, <3>1 DEF AppealFits
  <2> QED
    BY <2>1, <2>3, <2>4 DEF AppealFits
<1>10. (\A q \in Runner : AppealFits(q))'
  BY <1>8, <1>9
<1> QED
  BY <1>6, <1>7, <1>10 DEF AppealInv, CompletedReviewsPosted, AppealDecidedOnce

(* The result is posted by the execution that decided, and by no other.    *)
LEMMA PostResultKept ==
  ASSUME OneExecutionPerJob, TypeInv, AppealInv, NEW r \in Runner, PostResult(r)
  PROVE  AppealInv'
<1>1. TypeInv' /\ ExecutionEnds(r) /\ exec[r].pc = "post"
  BY PostResultType
<1>2. PICK a \in AppealId :
        /\ exec[r].job = <<"review", a>> /\ CompletesOnly({<<"review", a>>})
        /\ appeals'[a].status = appeals[a].status
        /\ appeals'[a].results = appeals[a].results
        /\ appeals'[a].posted = appeals[a].posted + 1
        /\ \A b \in AppealId : b # a => appeals'[b] = appeals[b]
  BY PostResultType
<1>3. appeals[a].status = "resolved" /\ appeals[a].posted = 0
  BY <1>1, <1>2 DEF AppealInv, AppealFits
<1>4. appeals[a].results = 1
  BY <1>3 DEF AppealInv, AppealDecidedOnce
<1>5. \A b \in AppealId : b # a =>
        (jobs'[<<"review", b>>].status = "completed" =>
           jobs[<<"review", b>>].status = "completed")
  BY <1>2, JobKinds DEF CompletesOnly
<1>6. ASSUME NEW b \in AppealId
      PROVE  /\ appeals'[b].results = IF appeals'[b].status = "resolved" THEN 1 ELSE 0
             /\ appeals'[b].posted <= appeals'[b].results
             /\ jobs'[<<"review", b>>].status = "completed" =>
                  appeals'[b].status = "resolved" /\ appeals'[b].posted = 1
  <2>1. CASE b = a
    BY <1>2, <1>3, <1>4, <2>1
  <2>2. CASE b # a
    BY <1>2, <1>5, <2>2 DEF AppealInv, CompletedReviewsPosted, AppealDecidedOnce
  <2> QED
    BY <2>1, <2>2
<1>7. AppealsNumbered'
  <2>1. \A c \in Appeal : jobs'[<<"command", c>>].tries = jobs[<<"command", c>>].tries
    BY <1>1, JobKinds DEF ExecutionEnds, SameTries
  <2> QED
    BY <1>2, <2>1, ReviewJobs DEF AppealInv, AppealsNumbered
<1>8. AppealFits(r)'
  BY <1>1, IdleExecution, JobKinds DEF AppealFits, ExecutionEnds
<1>9. ASSUME NEW q \in Runner, q # r PROVE AppealFits(q)'
  <2>1. exec'[q] = exec[q] /\ AppealFits(q)
    BY <1>9, PostResultType DEF ExecutionEnds, Others, AppealInv
  <2>2. exec[q].pc = "idle" \/ exec[q].job # <<"review", a>>
    BY <1>1, <1>2, <1>9, OtherJob
  <2>3. ASSUME NEW d \in Appeal, exec[q].job = <<"command", d>>
        PROVE  /\ exec[q].try <= jobs'[<<"command", d>>].tries
               /\ exec[q].pc \in {"read", "create"} =>
                    appeals'[<<d, exec[q].try>>].status = "absent"
    <3>1. <<d, exec[q].try>> \in AppealId
      BY <2>3, CommandTry, ReviewJobs
    <3>2. jobs'[<<"command", d>>].tries = jobs[<<"command", d>>].tries
      BY <1>1, JobKinds DEF ExecutionEnds, SameTries
    <3> QED
      BY <1>2, <1>3, <2>1, <2>3, <3>1, <3>2 DEF AppealFits
  <2>4. ASSUME NEW b \in AppealId, exec[q].job = <<"review", b>>
        PROVE  /\ exec[q].pc = "grade" => appeals'[b].status = "pending"
               /\ exec[q].pc = "post" => appeals'[b].status = "resolved" /\ appeals'[b].posted = 0
    <3>1. exec[q].pc # "idle" /\ b # a
      BY <2>2, <2>4, BusyExecution DEF NoJob
    <3> QED
      BY <1>2, <2>1, <2>4, <3>1 DEF AppealFits
  <2> QED
    BY <2>1, <2>3, <2>4 DEF AppealFits
<1>10. (\A q \in Runner : AppealFits(q))'
  BY <1>8, <1>9
<1> QED
  BY <1>6, <1>7, <1>10 DEF AppealInv, CompletedReviewsPosted, AppealDecidedOnce

LEMMA AppealInvStep == OneExecutionPerJob /\ TypeInv /\ AppealInv /\ [Next]_vars => AppealInv'
<1> SUFFICES ASSUME OneExecutionPerJob, TypeInv, AppealInv, [Next]_vars PROVE AppealInv'
  OBVIOUS
<1>1. TypeInv'
  BY TypeInvStep
<1>2. ASSUME UNCHANGED <<appeals, exec>>, SameTries, CompletesOnly({}) PROVE AppealInv'
  BY <1>1, <1>2, NobodyMoves
<1>3. CASE UNCHANGED <<appeals, exec, jobs>>
  BY <1>2, <1>3, SameTable
<1>4. ASSUME NEW c \in Command, Comment(c) PROVE AppealInv'
  BY <1>2, <1>4, CommentType DEF OnlyWorks
<1>5. ASSUME FirstReview \/ TerminalCounts \/ TerminalStores PROVE AppealInv'
  BY <1>3, <1>5, FirstReviewType, TerminalType
<1>6. ASSUME NEW r \in Runner, LeaseLapses(r) PROVE AppealInv'
  BY <1>2, <1>6, LapseType DEF OnlyWorks
<1>7. ASSUME NEW r \in Runner, HandlerFails(r) \/ Crash(r) PROVE AppealInv'
  BY <1>1, <1>7, EndsBadly, EndsKept DEF OnlyWorks
<1>8. ASSUME NEW r \in Runner, HandlerStep(r) PROVE AppealInv'
  <2>1. CASE CountHints(r)
    BY <1>1, <2>1, CountHintsType, SameTable, GoesOnKept DEF OnlyWorks
  <2>2. CASE StoreHint(r)
    BY <1>1, <2>2, StoreHintType, SameTable, GoesOnKept DEF Moves
  <2>3. CASE ShowHint(r) \/ RefuseAppeal(r)
    <3>1. /\ UNCHANGED appeals /\ ExecutionEnds(r) /\ CompletesOnly({exec[r].job})
          /\ exec[r].job[1] = "command"
      BY <2>3, ShowHintType, RefuseAppealType DEF OnlyWorks
    <3>2. \A a \in AppealId : <<"review", a>> \notin {exec[r].job}
      BY <3>1
    <3> QED
      BY <1>1, <3>1, <3>2, EndsKept
  <2>4. CASE FindLatest(r)
    BY <1>1, <2>4, FindLatestType, SameTable, GoesOnKept DEF OnlyWorks, Moves
  <2>5. CASE CreateAppeal(r)
    BY <2>5, CreateAppealKept
  <2>6. CASE EnqueueReview(r)
    BY <1>1, <2>6, EnqueueReviewType, GoesOnKept DEF OnlyWorks, Moves
  <2>7. CASE PromiseReview(r)
    <3>1. /\ UNCHANGED appeals /\ ExecutionEnds(r) /\ CompletesOnly({exec[r].job})
          /\ \E c \in Appeal : exec[r].job = <<"command", c>>
      BY <2>7, PromiseReviewType
    <3>2. \A a \in AppealId : <<"review", a>> \notin {exec[r].job}
      BY <3>1
    <3> QED
      BY <1>1, <3>1, <3>2, EndsKept
  <2>8. CASE ReadAppeal(r)
    <3>1. UNCHANGED appeals
      BY <2>8, ReadAppealType DEF OnlyWorks
    <3>2. CASE ExecutionEnds(r) /\ CompletesOnly({})
      BY <1>1, <3>1, <3>2, EndsKept
    <3>3. CASE /\ UNCHANGED jobs /\ Others(r) /\ Moves(r, "grade")
               /\ \E a \in AppealId : /\ exec[r].job = <<"review", a>>
                                      /\ appeals[a].status = "pending"
      BY <1>1, <3>1, <3>3, SameTable, GoesOnKept DEF Moves
    <3> QED
      BY <2>8, <3>2, <3>3, ReadAppealType
  <2>9. CASE ResolveAppeal(r)
    BY <2>9, ResolveAppealKept
  <2>10. CASE PostResult(r)
    BY <2>10, PostResultKept
  <2> QED
    BY <1>8, <2>1, <2>2, <2>3, <2>4, <2>5, <2>6, <2>7, <2>8, <2>9, <2>10 DEF HandlerStep
<1>9. CASE UNCHANGED vars
  BY <1>3, <1>9 DEF vars, tables
<1> QED
  BY <1>4, <1>5, <1>6, <1>7, <1>8, <1>9, ClaimKept DEF Next

LEMMA AppealInvAlways == Spec /\ []OneExecutionPerJob => [](TypeInv /\ AppealInv)
<1>1. Init => TypeInv /\ AppealInv
  BY TypeInvInit, AppealInvInit
<1>2. OneExecutionPerJob /\ TypeInv /\ AppealInv /\ [Next]_vars => (TypeInv /\ AppealInv)'
  BY TypeInvStep, AppealInvStep
<1> QED
  BY <1>1, <1>2, PTL DEF Spec

(* While no job has two executions at once, an appeal is decided at most     *)
(* once and its result is posted at most once, after it was decided,         *)
(* whatever other jobs run beside it, although resolve_appeal does not look  *)
(* at the status again when it writes. Two executions of a review, one of    *)
(* which lost its lease, can decide it twice.                                *)
THEOREM DecidedOnce == Spec /\ []OneExecutionPerJob => []AppealDecidedOnce
<1>1. AppealInv => AppealDecidedOnce
  BY DEF AppealInv
<1> QED
  BY <1>1, AppealInvAlways, PTL

(* While no job has two executions at once, a promised review is queued, and *)
(* one that completes has decided its appeal and posted the result once.     *)
THEOREM PromiseKept == Spec /\ []OneExecutionPerJob => []PromisedReviewIsQueued
<1>1. PromiseInv /\ AppealInv => PromisedReviewIsQueued
  BY DEF PromiseInv, AppealInv, CompletedReviewsPosted, PromisedReviewIsQueued
<1>2. Init => PromiseInv
  BY DEF Init, PromiseInv, Idle
<1>3. TypeInv /\ PromiseInv /\ [Next]_vars => PromiseInv'
  BY PromiseInvStep
<1> QED
  BY <1>1, <1>2, <1>3, AppealInvAlways, PTL DEF Spec

(* With one runner the queue gives no job two executions, so each appeal is *)
(* decided once and each promised review is queued, leases lapsing or not.   *)
THEOREM OneRunnerSuffices ==
  ASSUME OneRunner PROVE Spec => [](AppealDecidedOnce /\ PromisedReviewIsQueued)
<1>1. OneExecutionPerJob
  BY DEF OneRunner, OneExecutionPerJob
<1> QED
  BY <1>1, DecidedOnce, PromiseKept, PTL

-----------------------------------------------------------------------------
(* Any number of runners whose leases do not lapse under them *)

Holders == \A r \in Runner, j \in Job : Executes(r, j) => jobs[j].holder = r
Calm == \A r \in Runner : ~LeaseLapses(r)

LEMMA HoldersAlone == Holders => OneExecutionPerJob
BY DEF Holders, OneExecutionPerJob

LEMMA FinishedHolders ==
  ASSUME TypeInv, Holders, NEW r \in Runner, Reports(r)
  PROVE  Holders'
<1>1. PICK outcome \in JobOutcome : Finish(r, outcome)
  BY DEF Reports
<1>2. /\ exec[r].job \in Job /\ exec'[r] = Idle /\ Others(r)
      /\ \A j \in Job : j # exec[r].job => jobs'[j] = jobs[j]
  BY <1>1, JobOfExecution, FinishStep DEF Reports
<1> SUFFICES ASSUME NEW q \in Runner, NEW j \in Job, Executes(q, j)'
             PROVE  jobs'[j].holder = q
  BY DEF Holders
<1>3. q # r /\ Executes(q, j)
  BY <1>2, IdleExecution DEF Executes, Others
<1>4. jobs[j].holder = q /\ jobs[exec[r].job].holder = r
  BY <1>2, <1>3 DEF Holders, Reports, Executes
<1> QED
  BY <1>2, <1>3, <1>4

LEMMA HoldersStep == TypeInv /\ Holders /\ [Next /\ Calm]_vars => Holders'
<1> SUFFICES ASSUME TypeInv, Holders, [Next /\ Calm]_vars PROVE Holders'
  OBVIOUS
<1>1. CASE UNCHANGED <<jobs, exec>>
  BY <1>1 DEF Holders, Executes
<1>2. CASE Files
  <2>1. PICK k \in Job : jobs' = [jobs EXCEPT ![k] = Filed(jobs[k])]
    BY <1>2 DEF Files
  <2>2. jobs \in [Job -> JobRow] /\ jobs[k] \in JobRow
    BY DEF TypeInv, TypeOK
  <2>3. Filed(jobs[k]).holder = jobs[k].holder
    BY <2>2 DEF Filed, JobRow
  <2>4. \A j \in Job : jobs'[j].holder = jobs[j].holder
    BY <2>1, <2>2, <2>3
  <2> QED
    BY <1>2, <2>4 DEF Files, Holders
<1>3. ASSUME NEW r \in Runner, GoesOn(r) PROVE Holders'
  BY <1>3 DEF GoesOn, Others, Holders, Executes
<1>4. ASSUME NEW r \in Runner, NEW k \in Job, Claim(r, k) PROVE Holders'
  <2>1. /\ jobs[k] \in JobRow /\ jobs[k].holder = NoRunner /\ jobs' = [jobs EXCEPT ![k] = Taken(jobs[k], r)]
        /\ jobs \in [Job -> JobRow]
    BY <1>4 DEF Claim, IsClaimable, TypeInv, TypeOK
  <2>2. Taken(jobs[k], r).holder = r
    BY <2>1 DEF Taken, JobRow
  <2>3. exec'[r].job = k /\ Others(r)
    BY <1>4, ClaimType
  <2> SUFFICES ASSUME NEW q \in Runner, NEW j \in Job, Executes(q, j)'
               PROVE  jobs'[j].holder = q
    BY DEF Holders
  <2>4. CASE q = r
    BY <2>1, <2>2, <2>3, <2>4 DEF Executes
  <2>5. CASE q # r
    <3>1. Executes(q, j) /\ jobs[j].holder = q /\ q # NoRunner
      BY <2>3, <2>5, HandlerJobsAssumption DEF Executes, Others, Holders
    <3> QED
      BY <2>1, <3>1
  <2> QED
    BY <2>4, <2>5
<1>5. UNCHANGED vars \/ (Next /\ Calm)
  OBVIOUS
<1>6. UNCHANGED vars => UNCHANGED <<jobs, exec>>
  BY DEF vars
<1> QED
  BY <1>1, <1>2, <1>3, <1>4, <1>5, <1>6, FinishedHolders, QueueSteps DEF Calm

(* While no lease lapses under a handler, each execution holds the lease of   *)
(* its job, so no job has two of them.                                       *)
LEMMA CalmIsAlone == CalmSpec => Spec /\ []OneExecutionPerJob
<1>1. Init => Holders
  BY DEF Init, Idle, Holders, Executes
<1>2. [Next /\ Calm]_vars => [Next]_vars
  OBVIOUS
<1> QED
  BY <1>1, <1>2, TypeInvInit, TypeInvStep, HoldersStep, HoldersAlone, PTL
     DEF CalmSpec, Spec, Calm

(* Any number of workers, and renewal threads that beat on time: an appeal   *)
(* gets one result, posted once, and a promised review is queued. JobQueue   *)
(* gives such workers one execution of a job (CalmQueueRunsOneExecution).    *)
THEOREM CalmWorkersDecideOnce == CalmSpec => [](AppealDecidedOnce /\ PromisedReviewIsQueued)
BY CalmIsAlone, DecidedOnce, PromiseKept, PTL
=============================================================================
