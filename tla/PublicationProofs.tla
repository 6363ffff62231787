--------------------------- MODULE PublicationProofs ---------------------------
(***************************************************************************)
(* TLAPS proofs about Publication: any commits, kits, failures, runners and *)
(* tries, and one call of create_next_assignment at a time.                *)
(***************************************************************************)
EXTENDS Publication, TLAPS

(* Which steps each kind of job takes.                                     *)
Fits(e) ==
  \/ e.job = NoJob /\ e.pc = "idle"
  \/ \E sha \in Sha :
       e.job = PushJob(sha) /\ e.pc \in {"read", "record", "submit", "dispatch"}
  \/ \E action \in {"opened", "closed"} :
       e.job = PullJob(action) /\ e.pc \in {"read", "write"}

(* A job that may be claimed has a try left, and one not filed used none.  *)
RowFits(entry) ==
  /\ entry.status = "absent" => entry.tries = 0
  /\ IsClaimable(entry) => entry.tries < MaxTries

TypeInv ==
  /\ TypeOK
  /\ \A r \in Runner : Fits(exec[r])
  /\ \A j \in Job : RowFits(jobs[j])
  /\ rotating => control < Kits

-----------------------------------------------------------------------------
(* Rows of the job table *)

LEMMA RowFiled ==
  ASSUME NEW entry \in JobRow, RowFits(entry)
  PROVE  /\ Filed(entry) \in JobRow /\ RowFits(Filed(entry)) /\ Filed(entry).status # "absent"
         /\ Filed(entry).status = "completed" => entry.status = "completed"
BY HandlerJobsAssumption DEF Filed, JobRow, RowFits, IsClaimable

LEMMA RowTaken ==
  ASSUME NEW entry \in JobRow, IsClaimable(entry), RowFits(entry), NEW r \in Runner
  PROVE  /\ Taken(entry, r) \in JobRow /\ RowFits(Taken(entry, r))
         /\ Taken(entry, r).status = "open"
<1>1. entry.tries + 1 \in 0..MaxTries
  BY HandlerJobsAssumption DEF JobRow, RowFits
<1> QED
  BY <1>1, HandlerJobsAssumption DEF Taken, JobRow, RowFits, IsClaimable

LEMMA RowLapsed ==
  ASSUME NEW entry \in JobRow
  PROVE  /\ Lapsed(entry) \in JobRow /\ RowFits(Lapsed(entry))
         /\ Lapsed(entry).status \in {"open", "dead_letter"}
<1> DEFINE st == IF entry.tries = MaxTries THEN "dead_letter" ELSE "open"
           out == [entry EXCEPT !.holder = NoRunner, !.status = st]
<1>1. st \in {"dead_letter", "open"} /\ (st = "open" => entry.tries # MaxTries)
  OBVIOUS
<1>2. entry.tries \in 0..MaxTries
  BY DEF JobRow
<1> HIDE DEF st
<1>3. out \in JobRow /\ out.tries = entry.tries /\ out.status = st
  BY <1>1 DEF JobRow
<1>4. Lapsed(entry) = out
  BY DEF Lapsed, st
<1> HIDE DEF out
<1> QED
  BY <1>1, <1>2, <1>3, <1>4, HandlerJobsAssumption DEF RowFits, IsClaimable

Outcome == {"ok", "retry", "refused"}
LEMMA RowReported ==
  ASSUME NEW entry \in JobRow, RowFits(entry), NEW r \in Runner, NEW outcome \in Outcome
  PROVE  /\ Reported(entry, r, outcome) \in JobRow
         /\ RowFits(Reported(entry, r, outcome))
         /\ Reported(entry, r, outcome).status = "absent" => entry.status = "absent"
         /\ Reported(entry, r, outcome).status = "completed" =>
              entry.status = "completed" \/ outcome = "ok"
<1>1. CASE entry.holder # r
  BY <1>1 DEF Reported
<1>2. CASE entry.holder = r /\ outcome = "ok"
  <2>1. Reported(entry, r, outcome) = [entry EXCEPT !.holder = NoRunner, !.status = "completed"]
    BY <1>2 DEF Reported
  <2> QED
    BY <1>2, <2>1 DEF JobRow, RowFits, IsClaimable
<1>3. CASE entry.holder = r /\ outcome = "retry"
  <2>1. Reported(entry, r, outcome) = Lapsed(entry)
    BY <1>3 DEF Reported
  <2> QED
    BY <2>1, RowLapsed
<1>4. CASE entry.holder = r /\ outcome = "refused"
  <2>1. Reported(entry, r, outcome) = [entry EXCEPT !.holder = NoRunner, !.status = "dead_letter"]
    BY <1>4 DEF Reported
  <2> QED
    BY <2>1 DEF JobRow, RowFits, IsClaimable
<1> QED
  BY <1>1, <1>2, <1>3, <1>4 DEF Outcome


-----------------------------------------------------------------------------
(* Steps of the worker *)

Table(J) == J \in [Job -> JobRow] /\ \A j \in Job : RowFits(J[j])
Executions(E) == E \in [Runner -> Execution] /\ \A r \in Runner : Fits(E[r])
Others(r) == \A q \in Runner : q # r => exec'[q] = exec[q]

(* How a step may change the table: nothing filed is lost, and a job is     *)
(* completed by a handler that says so.                                     *)
NoneLost == \A j \in Job : jobs'[j].status = "absent" => jobs[j].status = "absent"
NoneFiled == \A j \in Job : jobs[j].status = "absent" => jobs'[j].status = "absent"
CompletesOnly(S) ==
  \A j \in Job : jobs'[j].status = "completed" => jobs[j].status = "completed" \/ j \in S

LEMMA SameTable ==
  ASSUME UNCHANGED jobs PROVE NoneLost /\ NoneFiled /\ CompletesOnly({})
BY DEF NoneLost, NoneFiled, CompletesOnly

LEMMA ExecutionMoves ==
  ASSUME TypeInv, NEW r \in Runner, NEW e \in Execution, Fits(e),
         exec' = [exec EXCEPT ![r] = e]
  PROVE  Executions(exec') /\ exec'[r] = e /\ Others(r)
<1>1. exec \in [Runner -> Execution] /\ \A q \in Runner : Fits(exec[q])
  BY DEF TypeInv, TypeOK
<1> QED
  BY <1>1 DEF Executions, Others

LEMMA JobOfExecution ==
  ASSUME TypeInv, NEW r \in Runner, exec[r].pc # "idle"
  PROVE  exec[r].job \in Job
BY DEF TypeInv, Fits, Job

LEMMA IdleExecution == Idle \in Execution /\ Fits(Idle) /\ Idle.pc = "idle"
<1>1. 0 \in 0..Kits
  BY PublicationAssumption
<1> QED
  BY <1>1 DEF Idle, Execution, Status, Fits

LEMMA FinishStep ==
  ASSUME TypeInv, NEW r \in Runner, NEW outcome \in Outcome, Finish(r, outcome),
         exec[r].pc # "idle",
         NEW S, outcome = "ok" => exec[r].job \in S
  PROVE  /\ Table(jobs') /\ Executions(exec') /\ exec'[r] = Idle /\ Others(r)
         /\ NoneLost /\ CompletesOnly(S)
         /\ \A j \in Job : j # exec[r].job => jobs'[j] = jobs[j]
<1> DEFINE j == exec[r].job
           out == Reported(jobs[j], r, outcome)
<1>1. Executions(exec') /\ exec'[r] = Idle /\ Others(r)
  BY ExecutionMoves, IdleExecution DEF Finish
<1>2. j \in Job /\ jobs[j] \in JobRow /\ RowFits(jobs[j]) /\ jobs \in [Job -> JobRow]
      /\ \A k \in Job : RowFits(jobs[k])
  BY JobOfExecution DEF TypeInv, TypeOK
<1>3. /\ out \in JobRow /\ RowFits(out)
      /\ out.status = "absent" => jobs[j].status = "absent"
      /\ out.status = "completed" => jobs[j].status = "completed" \/ outcome = "ok"
  BY <1>2, RowReported
<1>4. jobs' = [jobs EXCEPT ![j] = out]
  BY DEF Finish
<1>5. outcome = "ok" => j \in S
  OBVIOUS
<1> HIDE DEF j, out
<1>6. Table(jobs')
  BY <1>2, <1>3, <1>4 DEF Table
<1>7. \A k \in Job : k # j => jobs'[k] = jobs[k]
  BY <1>2, <1>4
<1>8. NoneLost /\ CompletesOnly(S)
  BY <1>2, <1>3, <1>4, <1>5 DEF NoneLost, CompletesOnly
<1> QED
  BY <1>1, <1>6, <1>7, <1>8 DEF j

-----------------------------------------------------------------------------
(* Types *)

LEMMA TypeInvInit == Init => TypeInv
<1> SUFFICES ASSUME Init PROVE TypeInv
  OBVIOUS
<1>1. Unfiled \in JobRow /\ RowFits(Unfiled)
  BY HandlerJobsAssumption DEF Unfiled, JobRow, RowFits, IsClaimable
<1>2. Table(jobs)
  BY <1>1 DEF Init, Table
<1>3. Executions(exec)
  BY IdleExecution DEF Init, Executions
<1>4. 0 \in 0..Kits /\ 1 \in Kit /\ 0 \in 0..MaxFailures
  BY PublicationAssumption DEF Kit
<1>5. row \in Row /\ branch \in [head : Sha \cup {NoSha}, manifest : 0..Kits]
  BY <1>4 DEF Init, NoRow, Row, Status
<1>6. NotCalling \in Call
  BY <1>4 DEF NotCalling, Call, CallStep
<1>7. call \in [Caller -> Call]
  BY <1>6 DEF Init
<1> QED
  BY <1>2, <1>3, <1>4, <1>5, <1>7 DEF Init, TypeInv, TypeOK, Table, Executions

(* Steps of a call: they leave the worker and the setup alone.             *)
OtherCalls(c) == \A b \in Caller : b # c => call'[b] = call[b]
Calls(C) == C \in [Caller -> Call]
CallKeeps(c) ==
  /\ call'[c].fresh = call[c].fresh /\ call'[c].known = call[c].known
  /\ call'[c].kit = call[c].kit /\ call'[c].head = call[c].head
Elsewhere == UNCHANGED <<attempts, control, rotating, worker>>

LEMMA CallMoves ==
  ASSUME TypeInv, NEW c \in Caller, NEW k \in Call, call' = [call EXCEPT ![c] = k]
  PROVE  Calls(call') /\ call'[c] = k /\ OtherCalls(c)
BY DEF TypeInv, TypeOK, Calls, OtherCalls

LEMMA GoToStep ==
  ASSUME TypeInv, NEW c \in Caller, NEW pc \in CallStep, GoTo(c, pc)
  PROVE  Calls(call') /\ call'[c].pc = pc /\ CallKeeps(c) /\ OtherCalls(c)
<1> DEFINE k == [call[c] EXCEPT !.pc = pc]
<1>1. /\ k \in Call /\ k.pc = pc /\ k.fresh = call[c].fresh /\ k.known = call[c].known
      /\ k.kit = call[c].kit /\ k.head = call[c].head
  BY DEF TypeInv, TypeOK, Call
<1>2. call' = [call EXCEPT ![c] = k]
  BY DEF GoTo
<1> HIDE DEF k
<1> QED
  BY <1>1, <1>2, CallMoves DEF CallKeeps

LEMMA ReturnStep ==
  ASSUME TypeInv, NEW c \in Caller, Return(c)
  PROVE  Calls(call') /\ call'[c] = NotCalling /\ OtherCalls(c)
<1>1. 0 \in 0..Kits
  BY PublicationAssumption
<1>2. NotCalling \in Call
  BY <1>1 DEF NotCalling, Call, CallStep
<1> QED
  BY <1>2, CallMoves DEF Return

LEMMA OnlyCalls ==
  ASSUME TypeInv, Calls(call'), UNCHANGED <<tables, hub, failures, worker>>
  PROVE  TypeInv'
BY DEF TypeInv, TypeOK, Calls, tables, hub, worker

LEMMA LookForActiveType ==
  ASSUME TypeInv, NEW c \in Caller, LookForActive(c)
  PROVE  /\ TypeInv' /\ UNCHANGED <<tables, hub, failures, worker>> /\ OtherCalls(c)
         /\ row.status = "absent" \/ IsResumable
         /\ call'[c].pc = "preflight" /\ call'[c].known = row.manifest
         /\ call'[c].fresh = (row.status = "absent")
<1> DEFINE fresh == row.status = "absent"
           known == row.manifest
           k1 == [NotCalling EXCEPT !.pc = "preflight"]
           k2 == [k1 EXCEPT !.fresh = fresh]
           k == [k2 EXCEPT !.known = known]
<1>1. 0 \in 0..Kits /\ fresh \in BOOLEAN /\ known \in 0..Kits
  BY PublicationAssumption DEF TypeInv, TypeOK, Row
<1>2. /\ UNCHANGED <<tables, hub, failures, worker>>
      /\ row.status = "absent" \/ IsResumable
      /\ call' = [call EXCEPT ![c] = k]
  BY DEF LookForActive
<1> HIDE DEF fresh, known
<1>3. k1 \in Call /\ k1.pc = "preflight"
  BY <1>1 DEF NotCalling, Call, CallStep
<1> HIDE DEF k1
<1>4. k2 \in Call /\ k2.pc = "preflight" /\ k2.fresh = fresh
  BY <1>1, <1>3 DEF Call
<1> HIDE DEF k2
<1>5. k \in Call /\ k.pc = "preflight" /\ k.fresh = fresh /\ k.known = known
  BY <1>1, <1>4 DEF Call
<1> HIDE DEF k
<1>6. Calls(call') /\ call'[c] = k /\ OtherCalls(c)
  BY <1>2, <1>5, CallMoves
<1>7. TypeInv'
  BY <1>2, <1>6, OnlyCalls
<1> QED
  BY <1>2, <1>5, <1>6, <1>7 DEF fresh, known

LEMMA PreflightType ==
  ASSUME TypeInv, NEW c \in Caller, Preflight(c)
  PROVE  /\ TypeInv' /\ UNCHANGED <<tables, hub, failures, worker>> /\ OtherCalls(c)
         /\ call[c].pc = "preflight" /\ call'[c].known = call[c].known
         /\ call'[c].pc = IF call[c].fresh THEN "create" ELSE "manifest"
         /\ call'[c].kit = control /\ control \in Kit
<1> DEFINE pc == IF call[c].fresh THEN "create" ELSE "manifest"
           k1 == [call[c] EXCEPT !.kit = control]
           k == [k1 EXCEPT !.pc = pc]
<1>1. control \in Kit /\ Kit \subseteq 0..Kits /\ pc \in CallStep /\ call[c] \in Call
  BY PublicationAssumption DEF TypeInv, TypeOK, Kit, CallStep
<1>2. /\ UNCHANGED <<tables, hub, failures, worker>> /\ call[c].pc = "preflight"
      /\ call' = [call EXCEPT ![c] = k]
  BY DEF Preflight, TypeInv, TypeOK
<1> HIDE DEF pc
<1>3. k1 \in Call /\ k1.known = call[c].known /\ k1.kit = control
  BY <1>1 DEF Call
<1> HIDE DEF k1
<1>4. k \in Call /\ k.pc = pc /\ k.known = call[c].known /\ k.kit = control
  BY <1>1, <1>3 DEF Call
<1> HIDE DEF k
<1>5. Calls(call') /\ call'[c] = k /\ OtherCalls(c)
  BY <1>2, <1>4, CallMoves
<1>6. TypeInv'
  BY <1>2, <1>5, OnlyCalls
<1> QED
  BY <1>1, <1>2, <1>4, <1>5, <1>6 DEF pc

(* A step that may write the row but no other table nor GitHub.            *)
LEMMA RowAndCalls ==
  ASSUME TypeInv, Calls(call'), row' \in Row, Elsewhere, UNCHANGED <<hub, failures>>
  PROVE  TypeInv'
BY DEF TypeInv, TypeOK, Calls, Elsewhere, hub, worker

LEMMA CreateType ==
  ASSUME TypeInv, NEW c \in Caller, Create(c)
  PROVE  /\ TypeInv' /\ UNCHANGED <<hub, failures>> /\ Elsewhere /\ OtherCalls(c)
         /\ call[c].pc = "create"
         /\ \/ /\ row.status = "absent" /\ row' = [row EXCEPT !.status = "validated"]
               /\ call'[c].pc = "manifest" /\ CallKeeps(c)
            \/ UNCHANGED row /\ call'[c] = NotCalling
<1>1. UNCHANGED <<hub, failures>> /\ Elsewhere /\ call[c].pc = "create"
  BY DEF Create, Elsewhere
<1>2. CASE row.status = "absent"
  <2>1. row' = [row EXCEPT !.status = "validated"] /\ GoTo(c, "manifest")
    BY <1>2 DEF Create
  <2>2. row' \in Row
    BY <2>1 DEF TypeInv, TypeOK, Row, Status
  <2>3. Calls(call') /\ call'[c].pc = "manifest" /\ CallKeeps(c) /\ OtherCalls(c)
    BY <2>1, GoToStep DEF CallStep
  <2>4. TypeInv'
    BY <1>1, <2>2, <2>3, RowAndCalls
  <2> QED
    BY <1>1, <1>2, <2>1, <2>3, <2>4
<1>3. CASE row.status # "absent"
  <2>1. UNCHANGED row /\ Return(c)
    BY <1>3 DEF Create
  <2>2. Calls(call') /\ call'[c] = NotCalling /\ OtherCalls(c)
    BY <2>1, ReturnStep
  <2>3. row' \in Row
    BY <2>1 DEF TypeInv, TypeOK
  <2>4. TypeInv'
    BY <1>1, <2>2, <2>3, RowAndCalls
  <2> QED
    BY <1>1, <2>1, <2>2, <2>4
<1> QED
  BY <1>2, <1>3

LEMMA BindManifestType ==
  ASSUME TypeInv, NEW c \in Caller, BindManifest(c)
  PROVE  /\ TypeInv' /\ UNCHANGED <<hub, failures>> /\ Elsewhere /\ OtherCalls(c)
         /\ call[c].pc = "manifest" /\ call'[c].pc = "branch"
         /\ \/ call[c].known # 0 /\ call'[c].kit = call[c].known /\ UNCHANGED row
            \/ /\ call[c].known = 0 /\ call'[c].kit = call[c].kit
               /\ row' = [row EXCEPT !.manifest = call[c].kit]
<1>1. /\ UNCHANGED <<hub, failures>> /\ Elsewhere /\ call[c].pc = "manifest" /\ call[c] \in Call
  BY DEF BindManifest, Elsewhere, TypeInv, TypeOK
<1>2. CASE call[c].known # 0
  <2> DEFINE k1 == [call[c] EXCEPT !.pc = "branch"]
             k == [k1 EXCEPT !.kit = call[c].known]
  <2>1. call' = [call EXCEPT ![c] = k] /\ UNCHANGED row
    BY <1>2 DEF BindManifest, IsSigned, TypeInv, TypeOK
  <2>2. k1 \in Call /\ k1.pc = "branch"
    BY <1>1 DEF Call, CallStep
  <2> HIDE DEF k1
  <2>3. k \in Call /\ k.pc = "branch" /\ k.kit = call[c].known
    BY <1>1, <2>2 DEF Call
  <2> HIDE DEF k
  <2>4. Calls(call') /\ call'[c] = k /\ OtherCalls(c)
    BY <2>1, <2>3, CallMoves
  <2>5. row' \in Row
    BY <2>1 DEF TypeInv, TypeOK
  <2>6. TypeInv'
    BY <1>1, <2>4, <2>5, RowAndCalls
  <2> QED
    BY <1>1, <1>2, <2>1, <2>3, <2>4, <2>6
<1>3. CASE call[c].known = 0
  <2>1. row' = [row EXCEPT !.manifest = call[c].kit] /\ GoTo(c, "branch")
    BY <1>3 DEF BindManifest, IsSigned
  <2>2. Calls(call') /\ call'[c].pc = "branch" /\ CallKeeps(c) /\ OtherCalls(c)
    BY <2>1, GoToStep DEF CallStep
  <2>3. row' \in Row
    BY <1>1, <2>1 DEF TypeInv, TypeOK, Row, Call
  <2>4. TypeInv'
    BY <1>1, <2>2, <2>3, RowAndCalls
  <2> QED
    BY <1>1, <1>3, <2>1, <2>2, <2>4 DEF CallKeeps
<1> QED
  BY <1>2, <1>3

LEMMA StoreType ==
  ASSUME TypeInv, NEW c \in Caller, Store(c)
  PROVE  /\ TypeInv' /\ UNCHANGED <<hub, failures>> /\ Elsewhere /\ OtherCalls(c)
         /\ call[c].pc = "store" /\ call'[c] = NotCalling
         /\ row'.status = "published" /\ row'.pull /\ row'.manifest = row.manifest
<1> DEFINE head == call[c].head
           r1 == [row EXCEPT !.status = "published"]
           r2 == [r1 EXCEPT !.pull = TRUE]
           r3 == [r2 EXCEPT !.publication = head]
<1>1. /\ UNCHANGED <<hub, failures>> /\ Elsewhere /\ call[c].pc = "store" /\ Return(c)
      /\ row' = r3
  BY DEF Store, Elsewhere
<1>2. head \in Sha \cup {NoSha} /\ row \in Row
  BY DEF TypeInv, TypeOK, Call
<1>3. r1 \in Row /\ r1.status = "published" /\ r1.manifest = row.manifest
  BY <1>2 DEF Row, Status
<1> HIDE DEF r1, head
<1>4. r2 \in Row /\ r2.status = "published" /\ r2.manifest = row.manifest /\ r2.pull
  BY <1>3 DEF Row
<1> HIDE DEF r2
<1>5. r3 \in Row /\ r3.status = "published" /\ r3.manifest = row.manifest /\ r3.pull
  BY <1>2, <1>4 DEF Row
<1> HIDE DEF r3
<1>6. Calls(call') /\ call'[c] = NotCalling /\ OtherCalls(c)
  BY <1>1, ReturnStep
<1>7. TypeInv'
  BY <1>1, <1>5, <1>6, RowAndCalls
<1> QED
  BY <1>1, <1>5, <1>6, <1>7

LEMMA CallFailsType ==
  ASSUME TypeInv, NEW c \in Caller, CallFails(c)
  PROVE  /\ TypeInv' /\ UNCHANGED <<tables, hub, worker>> /\ OtherCalls(c)
         /\ call'[c] = NotCalling
<1>1. UNCHANGED <<tables, hub, worker>> /\ Return(c)
  BY DEF CallFails
<1>2. failures' \in 0..MaxFailures
  BY PublicationAssumption DEF CallFails, TypeInv, TypeOK
<1>3. Calls(call') /\ call'[c] = NotCalling /\ OtherCalls(c)
  BY <1>1, ReturnStep
<1>4. TypeInv'
  BY <1>1, <1>2, <1>3 DEF TypeInv, TypeOK, Calls, tables, hub, worker
<1> QED
  BY <1>1, <1>3, <1>4

LEMMA FindBranchType ==
  ASSUME TypeInv, NEW c \in Caller, FindBranch(c)
  PROVE  /\ TypeInv' /\ UNCHANGED <<tables, hub, failures, worker>> /\ OtherCalls(c)
         /\ call[c].pc = "branch"
         /\ \/ ~BranchExists /\ call'[c].pc = "push" /\ CallKeeps(c)
            \/ BranchExists /\ call'[c].pc = "pulls" /\ call'[c].kit = call[c].kit
            \/ call'[c] = NotCalling
<1>1. UNCHANGED <<tables, hub, failures, worker>> /\ call[c].pc = "branch"
  BY DEF FindBranch
<1>2. CASE ~BranchExists /\ GoTo(c, "push")
  <2>1. Calls(call') /\ call'[c].pc = "push" /\ CallKeeps(c) /\ OtherCalls(c)
    BY <1>2, GoToStep DEF CallStep
  <2> QED
    BY <1>1, <1>2, <2>1, OnlyCalls
<1>3. CASE BranchExists /\ call' = [call EXCEPT ![c].pc = "pulls", ![c].head = branch.head]
  <2> DEFINE head == branch.head
             k1 == [call[c] EXCEPT !.pc = "pulls"]
             k == [k1 EXCEPT !.head = head]
  <2>1. head \in Sha \cup {NoSha} /\ call[c] \in Call
    BY DEF TypeInv, TypeOK
  <2>2. call' = [call EXCEPT ![c] = k]
    BY <1>3 DEF TypeInv, TypeOK
  <2> HIDE DEF head
  <2>3. k1 \in Call /\ k1.pc = "pulls" /\ k1.kit = call[c].kit
    BY <2>1 DEF Call, CallStep
  <2> HIDE DEF k1
  <2>4. k \in Call /\ k.pc = "pulls" /\ k.kit = call[c].kit
    BY <2>1, <2>3 DEF Call
  <2> HIDE DEF k
  <2>5. Calls(call') /\ call'[c] = k /\ OtherCalls(c)
    BY <2>2, <2>4, CallMoves
  <2> QED
    BY <1>1, <1>3, <2>4, <2>5, OnlyCalls
<1>4. CASE Return(c)
  <2>1. Calls(call') /\ call'[c] = NotCalling /\ OtherCalls(c)
    BY <1>4, ReturnStep
  <2> QED
    BY <1>1, <2>1, OnlyCalls
<1> QED
  BY <1>2, <1>3, <1>4 DEF FindBranch

LEMMA FindPullType ==
  ASSUME TypeInv, NEW c \in Caller, FindPull(c)
  PROVE  /\ TypeInv' /\ UNCHANGED <<tables, hub, failures, worker>> /\ OtherCalls(c)
         /\ call[c].pc = "pulls" /\ CallKeeps(c)
         /\ \/ pulls > 0 /\ call'[c].pc = "store"
            \/ ~(pulls > 0) /\ call'[c].pc = "open"
<1> DEFINE pc == IF HasPull THEN "store" ELSE "open"
<1>1. /\ UNCHANGED <<tables, hub, failures, worker>> /\ call[c].pc = "pulls" /\ GoTo(c, pc)
  BY DEF FindPull
<1>2. pc \in CallStep
  BY DEF CallStep
<1>3. Calls(call') /\ call'[c].pc = pc /\ CallKeeps(c) /\ OtherCalls(c)
  BY <1>1, <1>2, GoToStep
<1>4. TypeInv'
  BY <1>1, <1>3, OnlyCalls
<1> QED
  BY <1>1, <1>3, <1>4 DEF HasPull

LEMMA PushBranchType ==
  ASSUME TypeInv, NEW c \in Caller, PushBranch(c)
  PROVE  /\ TypeInv' /\ UNCHANGED <<tables, pulls, open, failures, worker>> /\ OtherCalls(c)
         /\ call[c].pc = "push"
         /\ \/ UNCHANGED branch /\ call'[c] = NotCalling
            \/ /\ branch.head = NoSha /\ branch' = [head |-> Base, manifest |-> call[c].kit]
               /\ \/ call'[c].pc = "open" /\ call'[c].kit = call[c].kit
                  \/ call'[c] = NotCalling
<1>1. /\ UNCHANGED <<tables, pulls, open, failures, worker>> /\ call[c].pc = "push"
      /\ call[c] \in Call /\ Base \in Sha /\ call[c].kit \in 0..Kits
  BY DEF PushBranch, TypeInv, TypeOK, Call, Sha
<1>2. CASE branch.head = NoSha
  <2>1. /\ branch' = [head |-> Base, manifest |-> call[c].kit] /\ pushed' = {Base}
        /\ \/ call' = [call EXCEPT ![c].pc = "open", ![c].head = Base]
           \/ Return(c)
    BY <1>2 DEF PushBranch
  <2>2. branch' \in [head : Sha \cup {NoSha}, manifest : 0..Kits] /\ pushed' \subseteq Sha
    BY <1>1, <2>1
  <2>3. ASSUME Calls(call') PROVE TypeInv'
    BY <1>1, <2>2, <2>3 DEF TypeInv, TypeOK, Calls, tables, worker
  <2>4. CASE call' = [call EXCEPT ![c].pc = "open", ![c].head = Base]
    <3> DEFINE k1 == [call[c] EXCEPT !.pc = "open"]
               k == [k1 EXCEPT !.head = Base]
    <3>1. call' = [call EXCEPT ![c] = k]
      BY <2>4 DEF TypeInv, TypeOK
    <3>2. k1 \in Call /\ k1.pc = "open" /\ k1.kit = call[c].kit
      BY <1>1 DEF Call, CallStep
    <3> HIDE DEF k1
    <3>3. k \in Call /\ k.pc = "open" /\ k.kit = call[c].kit
      BY <1>1, <3>2 DEF Call
    <3> HIDE DEF k
    <3>4. Calls(call') /\ call'[c] = k /\ OtherCalls(c)
      BY <3>1, <3>3, CallMoves
    <3> QED
      BY <1>1, <1>2, <2>1, <2>3, <3>3, <3>4
  <2>5. CASE Return(c)
    <3>1. Calls(call') /\ call'[c] = NotCalling /\ OtherCalls(c)
      BY <2>5, ReturnStep
    <3> QED
      BY <1>1, <1>2, <2>1, <2>3, <3>1
  <2> QED
    BY <2>1, <2>4, <2>5
<1>3. CASE branch.head # NoSha
  <2>1. Return(c) /\ UNCHANGED <<branch, pushed>>
    BY <1>3 DEF PushBranch
  <2>2. Calls(call') /\ call'[c] = NotCalling /\ OtherCalls(c)
    BY <2>1, ReturnStep
  <2>3. TypeInv'
    BY <1>1, <2>1, <2>2, OnlyCalls DEF tables, hub, worker
  <2> QED
    BY <1>1, <2>1, <2>2, <2>3
<1> QED
  BY <1>2, <1>3

LEMMA OpenPullType ==
  ASSUME TypeInv, NEW c \in Caller, OpenPull(c)
  PROVE  /\ TypeInv' /\ UNCHANGED <<tables, branch, pushed, failures, worker>>
         /\ OtherCalls(c) /\ call[c].pc = "open"
         /\ \/ UNCHANGED pulls /\ call'[c] = NotCalling
            \/ /\ pulls' = pulls + 1
               /\ \/ call'[c].pc = "store" /\ CallKeeps(c)
                  \/ call'[c] = NotCalling
<1>1. UNCHANGED <<tables, branch, pushed, failures, worker>> /\ call[c].pc = "open"
  BY DEF OpenPull
<1>2. /\ GoTo(c, "store") \/ Return(c)
      /\ \/ open' = TRUE /\ pulls' = pulls + 1
         \/ Return(c) /\ UNCHANGED <<open, pulls>>
  BY DEF OpenPull
<1>3. Calls(call') /\ OtherCalls(c)
      /\ ((call'[c].pc = "store" /\ CallKeeps(c)) \/ call'[c] = NotCalling)
  BY <1>2, GoToStep, ReturnStep DEF CallStep
<1>4. pulls' \in Nat /\ open' \in BOOLEAN
  <2>1. pulls \in Nat /\ open \in BOOLEAN
    BY DEF TypeInv, TypeOK
  <2>2. CASE open' = TRUE /\ pulls' = pulls + 1
    BY <2>1, <2>2
  <2>3. CASE open' = open /\ pulls' = pulls
    BY <2>1, <2>3
  <2> QED
    BY <1>2, <2>2, <2>3
<1>5. TypeInv'
  BY <1>1, <1>3, <1>4 DEF TypeInv, TypeOK, Calls, tables, worker
<1>6. Return(c) => call'[c] = NotCalling
  BY ReturnStep
<1> QED
  BY <1>1, <1>2, <1>3, <1>5, <1>6

-----------------------------------------------------------------------------
(* The learner and the setup, and the worker *)

LEMMA OutsideType ==
  ASSUME TypeInv,
         (\E sha \in Commit : LearnerPushes(sha)) \/ LearnerCloses \/ FindNoAssignment \/ Rotate
  PROVE  /\ TypeInv' /\ UNCHANGED <<row, attempts, pulls, call, worker>>
         /\ branch.head = NoSha => UNCHANGED branch
         /\ branch.head # NoSha => branch'.head # NoSha /\ branch'.manifest = branch.manifest
<1>1. CASE \E sha \in Commit : LearnerPushes(sha)
  <2>1. PICK sha \in Commit : LearnerPushes(sha)
    BY <1>1
  <2>2. /\ branch.head # NoSha /\ branch' = [branch EXCEPT !.head = sha]
        /\ pushed' = pushed \cup {sha}
        /\ UNCHANGED <<tables, pulls, open, call, failures, worker>>
    BY <2>1 DEF LearnerPushes
  <2>3. sha \in Sha /\ sha # NoSha
    BY PublicationAssumption DEF Sha
  <2>4. /\ branch' \in [head : Sha \cup {NoSha}, manifest : 0..Kits] /\ pushed' \subseteq Sha
        /\ branch'.head = sha /\ branch'.manifest = branch.manifest
    BY <2>2, <2>3 DEF TypeInv, TypeOK
  <2>5. TypeInv'
    BY <2>2, <2>4 DEF TypeInv, TypeOK, tables, worker
  <2> QED
    BY <2>2, <2>3, <2>4, <2>5 DEF tables
<1>2. CASE LearnerCloses
  <2>1. open' = FALSE /\ UNCHANGED <<tables, branch, pushed, pulls, call, failures, worker>>
    BY <1>2 DEF LearnerCloses
  <2>2. TypeInv'
    BY <2>1 DEF TypeInv, TypeOK, tables, worker
  <2> QED
    BY <2>1, <2>2 DEF tables
<1>3. CASE FindNoAssignment
  <2>1. /\ control < Kits /\ rotating' = TRUE
        /\ UNCHANGED <<row, attempts, control, hub, call, failures, worker>>
    BY <1>3 DEF FindNoAssignment
  <2>2. TypeInv'
    BY <2>1 DEF TypeInv, TypeOK, hub, worker
  <2> QED
    BY <2>1, <2>2 DEF hub
<1>4. CASE Rotate
  <2>1. /\ rotating /\ rotating' = FALSE /\ control' = control + 1
        /\ UNCHANGED <<row, attempts, hub, call, failures, worker>>
    BY <1>4 DEF Rotate
  <2>2. control' \in Kit
    BY <2>1, PublicationAssumption DEF TypeInv, TypeOK, Kit
  <2>3. TypeInv'
    BY <2>1, <2>2 DEF TypeInv, TypeOK, hub, worker
  <2> QED
    BY <2>1, <2>3 DEF hub
<1> QED
  BY <1>1, <1>2, <1>3, <1>4

(* A step of the worker that writes no table and not GitHub.               *)
OnlyWorks == UNCHANGED <<tables, hub, call, failures>>

LEMMA OnlyExecutes ==
  ASSUME TypeInv, OnlyWorks, Table(jobs'), Executions(exec')
  PROVE  TypeInv'
BY DEF TypeInv, TypeOK, OnlyWorks, tables, hub, Table, Executions

LEMMA DeliverType ==
  ASSUME TypeInv, NEW j \in Job, Deliver(j)
  PROVE  /\ TypeInv' /\ OnlyWorks /\ UNCHANGED exec
         /\ NoneLost /\ CompletesOnly({})
         /\ \A k \in Job : k # j => jobs'[k] = jobs[k]
         /\ (\E action \in {"opened", "closed"} : j = PullJob(action)) => pulls > 0
<1>1. /\ jobs[j] \in JobRow /\ RowFits(jobs[j]) /\ jobs \in [Job -> JobRow]
      /\ \A k \in Job : RowFits(jobs[k])
  BY DEF TypeInv, TypeOK
<1>2. PICK entry : entry = Filed(jobs[j])
  OBVIOUS
<1>3. /\ entry \in JobRow /\ RowFits(entry) /\ entry.status # "absent"
      /\ entry.status = "completed" => jobs[j].status = "completed"
  BY <1>1, <1>2, RowFiled
<1>4. jobs' = [jobs EXCEPT ![j] = entry] /\ OnlyWorks /\ UNCHANGED exec
  BY <1>2 DEF Deliver, OnlyWorks
<1>5. /\ Table(jobs') /\ NoneLost /\ CompletesOnly({})
      /\ \A k \in Job : k # j => jobs'[k] = jobs[k]
  BY <1>1, <1>3, <1>4 DEF Table, NoneLost, CompletesOnly
<1>6. (\E action \in {"opened", "closed"} : j = PullJob(action)) => pulls > 0
  BY DEF Deliver, PullJob, PushJob
<1>7. Executions(exec')
  BY <1>4 DEF TypeInv, TypeOK, Executions
<1> QED
  BY <1>4, <1>5, <1>6, <1>7, OnlyExecutes

LEMMA ClaimType ==
  ASSUME TypeInv, NEW r \in Runner, NEW j \in Job, Claim(r, j)
  PROVE  /\ TypeInv' /\ OnlyWorks /\ Others(r)
         /\ NoneLost /\ NoneFiled /\ CompletesOnly({})
         /\ exec'[r].job = j /\ exec'[r].pc = "read" /\ jobs'[j].status # "absent"
<1>1. /\ jobs[j] \in JobRow /\ RowFits(jobs[j]) /\ jobs \in [Job -> JobRow]
      /\ (\A k \in Job : RowFits(jobs[k])) /\ IsClaimable(jobs[j])
  BY DEF TypeInv, TypeOK, Claim
<1>2. PICK entry : entry = Taken(jobs[j], r)
  OBVIOUS
<1>3. entry \in JobRow /\ RowFits(entry) /\ entry.status = "open" /\ jobs[j].status = "open"
  BY <1>1, <1>2, RowTaken DEF IsClaimable
<1>4. jobs' = [jobs EXCEPT ![j] = entry] /\ OnlyWorks
  BY <1>2 DEF Claim, OnlyWorks
<1>5. Table(jobs') /\ NoneLost /\ NoneFiled /\ CompletesOnly({}) /\ jobs'[j].status # "absent"
  BY <1>1, <1>3, <1>4 DEF Table, NoneLost, NoneFiled, CompletesOnly
<1> DEFINE e == [Idle EXCEPT !.job = j, !.pc = "read"]
<1>6. e.job = j /\ e.pc = "read" /\ e \in Execution
  BY IdleExecution DEF Idle, Execution
<1>7. Fits(e)
  BY <1>6 DEF Fits, Job
<1>8. exec' = [exec EXCEPT ![r] = e]
  BY DEF Claim
<1> HIDE DEF e
<1>9. Executions(exec') /\ exec'[r] = e /\ Others(r)
  BY <1>6, <1>7, <1>8, ExecutionMoves
<1> QED
  BY <1>4, <1>5, <1>6, <1>9, OnlyExecutes

LEMMA HandlerFailsType ==
  ASSUME TypeInv, NEW r \in Runner, HandlerFails(r)
  PROVE  /\ TypeInv' /\ OnlyWorks /\ Others(r) /\ exec'[r] = Idle
         /\ NoneLost /\ CompletesOnly({})
         /\ \A k \in Job : k # exec[r].job => jobs'[k] = jobs[k]
<1>1. exec[r].pc # "idle" /\ Finish(r, "retry") /\ OnlyWorks
  BY DEF HandlerFails, OnlyWorks
<1>2. /\ Table(jobs') /\ Executions(exec') /\ exec'[r] = Idle /\ Others(r)
      /\ NoneLost /\ CompletesOnly({})
      /\ \A k \in Job : k # exec[r].job => jobs'[k] = jobs[k]
  BY <1>1, FinishStep DEF Outcome
<1> QED
  BY <1>1, <1>2, OnlyExecutes

LEMMA PushExecution ==
  ASSUME TypeInv, NEW r \in Runner, NEW pc, At(r, "push", pc)
  PROVE  \E sha \in Sha : exec[r].job = PushJob(sha) /\ exec[r].job[2] = sha
BY DEF At, TypeInv, Fits, NoJob, PushJob, PullJob

LEMMA PullExecution ==
  ASSUME TypeInv, NEW r \in Runner, NEW pc, At(r, "pull", pc)
  PROVE  \E action \in {"opened", "closed"} : exec[r].job = PullJob(action)
BY DEF At, TypeInv, Fits, NoJob, PushJob, PullJob

(* A push moves on to its next step.                                       *)
LEMMA PushMoves ==
  ASSUME TypeInv, NEW r \in Runner, NEW sha \in Sha, exec[r].job = PushJob(sha),
         NEW pc \in {"record", "submit", "dispatch"}, exec' = [exec EXCEPT ![r].pc = pc]
  PROVE  /\ Executions(exec') /\ Others(r)
         /\ exec'[r].job = exec[r].job /\ exec'[r].pc = pc
<1> DEFINE e == [exec[r] EXCEPT !.pc = pc]
<1>1. e \in Execution /\ e.job = exec[r].job /\ e.pc = pc
  BY DEF TypeInv, TypeOK, Execution
<1>2. exec' = [exec EXCEPT ![r] = e]
  OBVIOUS
<1> HIDE DEF e
<1>3. Fits(e)
  BY <1>1 DEF Fits
<1> QED
  BY <1>1, <1>2, <1>3, ExecutionMoves

LEMMA ReadForPushType ==
  ASSUME TypeInv, NEW r \in Runner, ReadForPush(r)
  PROVE  /\ TypeInv' /\ OnlyWorks /\ Others(r) /\ NoneLost
         /\ \A k \in Job : k # exec[r].job => jobs'[k] = jobs[k]
         /\ \E sha \in Sha :
              /\ exec[r].job = PushJob(sha) /\ exec[r].pc = "read"
              /\ \/ /\ row.publication = sha /\ CompletesOnly({PushJob(sha)})
                    /\ exec'[r] = Idle
                 \/ /\ CompletesOnly({}) /\ exec'[r].pc = "record"
                    /\ exec'[r].job = exec[r].job
<1>1. OnlyWorks /\ exec[r].pc = "read"
  BY DEF ReadForPush, OnlyWorks, At
<1>2. PICK sha \in Sha : exec[r].job = PushJob(sha) /\ exec[r].job[2] = sha
  BY PushExecution DEF ReadForPush
<1>3. CASE row.publication = sha
  <2>1. Finish(r, "ok")
    BY <1>2, <1>3 DEF ReadForPush, IsPublication
  <2>2. /\ Table(jobs') /\ Executions(exec') /\ exec'[r] = Idle /\ Others(r)
        /\ NoneLost /\ CompletesOnly({PushJob(sha)})
        /\ \A k \in Job : k # exec[r].job => jobs'[k] = jobs[k]
    BY <1>1, <1>2, <2>1, FinishStep DEF Outcome
  <2> QED
    BY <1>1, <1>2, <1>3, <2>2, OnlyExecutes
<1>4. CASE row.publication # sha
  <2> DEFINE e1 == [exec[r] EXCEPT !.pc = "record"]
             m == row.manifest
             e == [e1 EXCEPT !.manifest = m]
  <2>1. exec' = [exec EXCEPT ![r] = e] /\ UNCHANGED jobs
    BY <1>2, <1>4 DEF ReadForPush, IsPublication, TypeInv, TypeOK
  <2>2. e1 \in Execution /\ e1.job = exec[r].job /\ e1.pc = "record" /\ m \in 0..Kits
    BY DEF TypeInv, TypeOK, Execution, Row
  <2> HIDE DEF e1, m
  <2>3. e \in Execution /\ e.job = exec[r].job /\ e.pc = "record"
    BY <2>2 DEF Execution
  <2> HIDE DEF e
  <2>4. Fits(e)
    BY <1>2, <2>3 DEF Fits
  <2>5. Executions(exec') /\ exec'[r] = e /\ Others(r)
    BY <2>1, <2>3, <2>4, ExecutionMoves
  <2>6. Table(jobs') /\ NoneLost /\ CompletesOnly({})
    BY <2>1, SameTable DEF Table, TypeInv, TypeOK
  <2> QED
    BY <1>1, <1>2, <2>1, <2>3, <2>5, <2>6, OnlyExecutes
<1> QED
  BY <1>3, <1>4

LEMMA RecordAttemptType ==
  ASSUME TypeInv, NEW r \in Runner, RecordAttempt(r)
  PROVE  /\ TypeInv' /\ UNCHANGED <<row, hub, call, jobs>> /\ Others(r)
         /\ exec'[r].pc = "submit" /\ exec'[r].job = exec[r].job
         /\ attempts' = attempts \cup {exec[r].job[2]} /\ exec[r].pc # "idle"
<1>1. /\ exec' = [exec EXCEPT ![r].pc = "submit"] /\ exec[r].pc # "idle"
      /\ attempts' = attempts \cup {exec[r].job[2]}
      /\ UNCHANGED <<row, control, rotating, hub, call, failures, jobs>>
  BY DEF RecordAttempt, At
<1>2. PICK sha \in Sha : exec[r].job = PushJob(sha) /\ exec[r].job[2] = sha
  BY PushExecution DEF RecordAttempt
<1>3. /\ Executions(exec') /\ Others(r)
      /\ exec'[r].job = exec[r].job /\ exec'[r].pc = "submit"
  BY <1>1, <1>2, PushMoves
<1>4. attempts' \subseteq Sha
  BY <1>1, <1>2 DEF TypeInv, TypeOK
<1>5. TypeInv'
  BY <1>1, <1>3, <1>4 DEF TypeInv, TypeOK, Executions, hub
<1> QED
  BY <1>1, <1>3, <1>5

LEMMA SubmitType ==
  ASSUME TypeInv, NEW r \in Runner, Submit(r)
  PROVE  /\ TypeInv' /\ UNCHANGED <<attempts, hub, call, jobs>> /\ Others(r)
         /\ row' = [row EXCEPT !.status = "submitted"]
         /\ exec[r].pc = "submit" /\ exec'[r].pc = "dispatch" /\ exec'[r].job = exec[r].job
<1>1. /\ exec' = [exec EXCEPT ![r].pc = "dispatch"] /\ exec[r].pc = "submit"
      /\ row' = [row EXCEPT !.status = "submitted"]
      /\ UNCHANGED <<attempts, control, rotating, hub, call, failures, jobs>>
  BY DEF Submit, At
<1>2. PICK sha \in Sha : exec[r].job = PushJob(sha) /\ exec[r].job[2] = sha
  BY PushExecution DEF Submit
<1>3. /\ Executions(exec') /\ Others(r)
      /\ exec'[r].job = exec[r].job /\ exec'[r].pc = "dispatch"
  BY <1>1, <1>2, PushMoves
<1>4. row' \in Row
  BY <1>1 DEF TypeInv, TypeOK, Row, Status
<1>5. TypeInv'
  BY <1>1, <1>3, <1>4 DEF TypeInv, TypeOK, Executions, hub
<1> QED
  BY <1>1, <1>3, <1>5

LEMMA DispatchOrRefuseType ==
  ASSUME TypeInv, NEW r \in Runner, DispatchOrRefuse(r)
  PROVE  /\ TypeInv' /\ OnlyWorks /\ Others(r) /\ NoneLost /\ exec'[r] = Idle
         /\ exec[r].pc = "dispatch"
         /\ \A k \in Job : k # exec[r].job => jobs'[k] = jobs[k]
         /\ \E sha \in Sha : /\ exec[r].job = PushJob(sha) /\ exec[r].job[2] = sha
                             /\ CompletesOnly({PushJob(sha)})
<1> DEFINE outcome == IF exec[r].manifest = control THEN "ok" ELSE "refused"
<1>1. OnlyWorks /\ exec[r].pc = "dispatch" /\ Finish(r, outcome)
  BY DEF DispatchOrRefuse, OnlyWorks, At
<1>2. PICK sha \in Sha : exec[r].job = PushJob(sha) /\ exec[r].job[2] = sha
  BY PushExecution DEF DispatchOrRefuse
<1>3. outcome \in Outcome
  BY DEF Outcome
<1> HIDE DEF outcome
<1>4. /\ Table(jobs') /\ Executions(exec') /\ exec'[r] = Idle /\ Others(r)
      /\ NoneLost /\ CompletesOnly({PushJob(sha)})
      /\ \A k \in Job : k # exec[r].job => jobs'[k] = jobs[k]
  BY <1>1, <1>2, <1>3, FinishStep
<1> QED
  BY <1>1, <1>2, <1>4, OnlyExecutes

LEMMA ReadForPullType ==
  ASSUME TypeInv, NEW r \in Runner, ReadForPull(r)
  PROVE  /\ TypeInv' /\ OnlyWorks /\ Others(r) /\ UNCHANGED jobs
         /\ exec[r].pc # "idle" /\ exec'[r].pc = "write" /\ exec'[r].job = exec[r].job
         /\ exec'[r].status = row.status
         /\ \E action \in {"opened", "closed"} : exec[r].job = PullJob(action)
<1> DEFINE e1 == [exec[r] EXCEPT !.pc = "write"]
           st == row.status
           e == [e1 EXCEPT !.status = st]
<1>1. PICK action \in {"opened", "closed"} : exec[r].job = PullJob(action)
  BY PullExecution DEF ReadForPull
<1>2. /\ exec' = [exec EXCEPT ![r] = e] /\ UNCHANGED jobs /\ OnlyWorks /\ exec[r].pc # "idle"
  BY DEF ReadForPull, At, OnlyWorks, TypeInv, TypeOK
<1>3. e1 \in Execution /\ e1.job = exec[r].job /\ e1.pc = "write" /\ st \in Status
  BY DEF TypeInv, TypeOK, Execution, Row
<1> HIDE DEF e1, st
<1>4. e \in Execution /\ e.job = exec[r].job /\ e.pc = "write" /\ e.status = st
  BY <1>3 DEF Execution
<1> HIDE DEF e
<1>5. Fits(e)
  BY <1>1, <1>4 DEF Fits
<1>6. Executions(exec') /\ exec'[r] = e /\ Others(r)
  BY <1>2, <1>4, <1>5, ExecutionMoves
<1>7. Table(jobs')
  BY <1>2 DEF Table, TypeInv, TypeOK
<1> QED
  BY <1>1, <1>2, <1>4, <1>6, <1>7, OnlyExecutes DEF st

LEMMA WritePullType ==
  ASSUME TypeInv, NEW r \in Runner, WritePull(r)
  PROVE  /\ TypeInv' /\ UNCHANGED <<attempts, hub, call>> /\ Others(r)
         /\ exec[r].pc = "write" /\ exec'[r] = Idle /\ NoneLost
         /\ \A k \in Job : k # exec[r].job => jobs'[k] = jobs[k]
         /\ \E action \in {"opened", "closed"} :
              exec[r].job = PullJob(action) /\ CompletesOnly({PullJob(action)})
         /\ row'.pull /\ row'.manifest = row.manifest /\ row'.publication = row.publication
         /\ exec[r].status # "absent" => row'.status # "absent"
<1>1. PICK action \in {"opened", "closed"} : exec[r].job = PullJob(action)
  BY PullExecution DEF WritePull
<1>2. /\ exec[r].pc = "write" /\ Finish(r, "ok")
      /\ UNCHANGED <<attempts, control, rotating, hub, call, failures>>
  BY DEF WritePull, At
<1>3. PICK closed \in {"completed", "cancelled"} :
        row' = [row EXCEPT !.pull = TRUE,
                           !.status = IF exec[r].job = PullJob("closed") THEN closed
                                      ELSE exec[r].status]
  BY DEF WritePull
<1>4. PICK st : st = IF exec[r].job = PullJob("closed") THEN closed ELSE exec[r].status
  OBVIOUS
<1>5. st \in Status /\ (exec[r].status # "absent" => st # "absent")
  BY <1>4 DEF TypeInv, TypeOK, Execution, Status
<1> DEFINE r1 == [row EXCEPT !.pull = TRUE]
           r2 == [r1 EXCEPT !.status = st]
<1>6. row' = r2
  BY <1>3, <1>4
<1>7. /\ r1 \in Row /\ r1.pull /\ r1.manifest = row.manifest
      /\ r1.publication = row.publication
  BY DEF TypeInv, TypeOK, Row
<1> HIDE DEF r1
<1>8. /\ r2 \in Row /\ r2.pull /\ r2.manifest = row.manifest
      /\ r2.publication = row.publication /\ r2.status = st
  BY <1>5, <1>7 DEF Row
<1> HIDE DEF r2
<1>9. /\ Table(jobs') /\ Executions(exec') /\ exec'[r] = Idle /\ Others(r)
      /\ NoneLost /\ CompletesOnly({PullJob(action)})
      /\ \A k \in Job : k # exec[r].job => jobs'[k] = jobs[k]
  BY <1>1, <1>2, FinishStep DEF Outcome
<1>10. TypeInv'
  BY <1>2, <1>6, <1>8, <1>9 DEF TypeInv, TypeOK, hub, Table, Executions
<1> QED
  BY <1>1, <1>2, <1>5, <1>6, <1>8, <1>9, <1>10

LEMMA TypeInvStep == TypeInv /\ [Next]_vars => TypeInv'
<1> SUFFICES ASSUME TypeInv, [Next]_vars PROVE TypeInv'
  OBVIOUS
<1>1. ASSUME NEW c \in Caller, CallSteps(c) \/ CallFails(c) PROVE TypeInv'
  BY <1>1, LookForActiveType, PreflightType, CreateType, BindManifestType, FindBranchType,
     FindPullType, PushBranchType, OpenPullType, StoreType, CallFailsType DEF CallSteps
<1>2. ASSUME NEW r \in Runner,
             HandlerStep(r) \/ HandlerFails(r) \/ \E j \in Job : Claim(r, j)
      PROVE  TypeInv'
  BY <1>2, ReadForPushType, RecordAttemptType, SubmitType, DispatchOrRefuseType,
     ReadForPullType, WritePullType, HandlerFailsType, ClaimType DEF HandlerStep
<1>3. ASSUME NEW j \in Job, Deliver(j) PROVE TypeInv'
  BY <1>3, DeliverType
<1>4. CASE UNCHANGED vars
  BY <1>4 DEF vars, tables, hub, worker, TypeInv, TypeOK
<1> QED
  BY <1>1, <1>2, <1>3, <1>4, OutsideType DEF Next

(* Every state is well typed, however many calls, kits, failures, runners   *)
(* and tries there are.                                                    *)
THEOREM TypeCorrect == Spec => []TypeOK
<1>1. Init => TypeInv
  BY TypeInvInit
<1>2. TypeInv /\ [Next]_vars => TypeInv'
  BY TypeInvStep
<1>3. TypeInv => TypeOK
  BY DEF TypeInv
<1> QED
  BY <1>1, <1>2, <1>3, PTL DEF Spec

-----------------------------------------------------------------------------
(* What publication promises, one call at a time                           *)

(* What the worker relies on: it works on filed jobs only, a pull request's *)
(* job is filed after the pull request was opened, and a push is dispatched *)
(* after its attempt was recorded.                                          *)
WorkerInv ==
  /\ \A r \in Runner :
       /\ exec[r].pc # "idle" => jobs[exec[r].job].status # "absent"
       /\ exec[r].pc = "write" => exec[r].status # "absent"
       /\ exec[r].pc \in {"submit", "dispatch"} => exec[r].job[2] \in attempts
  /\ \A action \in {"opened", "closed"} :
       jobs[PullJob(action)].status # "absent" => pulls > 0
  /\ HandledPushIsRecorded

(* A pull request has a branch and a row, a branch carries the row's        *)
(* manifest, and a publication is stored with its pull request.             *)
PublishedInv ==
  /\ pulls > 0 => branch.head # NoSha /\ row.status # "absent"
  /\ branch.head # NoSha => row.manifest # 0
  /\ BranchCarriesStoredManifest
  /\ OnePullPerAssignment
  /\ row.publication # NoSha => row.pull /\ row.status # "absent"

(* How far a call is, and what it remembers, agrees with the row and GitHub. *)
CallFits(c) ==
  /\ call[c].pc # "idle" => row.publication = NoSha
  /\ call[c].pc = "preflight" /\ ~call[c].fresh => row.status # "absent"
  /\ call[c].pc \in {"manifest", "branch", "pulls", "push", "open", "store"}
       => row.status # "absent"
  /\ call[c].pc \in {"preflight", "create", "manifest"} => call[c].known = row.manifest
  /\ call[c].pc \in {"create", "manifest"} => call[c].kit # 0
  /\ call[c].pc \in {"branch", "pulls", "push", "open", "store"}
       => call[c].kit = row.manifest /\ row.manifest # 0
  /\ call[c].pc = "open" => pulls = 0
  /\ call[c].pc \in {"pulls", "open", "store"} => branch.head # NoSha

PublicationInv == TypeInv /\ WorkerInv /\ PublishedInv /\ \A c \in Caller : CallFits(c)
OneCall == \A b, c \in Caller : b = c

LEMMA PublicationInvInit == Init => PublicationInv
<1> SUFFICES ASSUME Init PROVE PublicationInv
  OBVIOUS
<1>1. TypeInv
  BY TypeInvInit
<1>2. \A sha \in Sha : PushJob(sha) \in Job
  BY DEF Job
<1>3. \A action \in {"opened", "closed"} : PullJob(action) \in Job
  BY DEF Job
<1>4. WorkerInv
  BY <1>2, <1>3 DEF Init, WorkerInv, HandledPushIsRecorded, Idle, Unfiled
<1>5. PublishedInv
  BY DEF Init, PublishedInv, BranchCarriesStoredManifest, OnePullPerAssignment, NoRow
<1>6. \A c \in Caller : CallFits(c)
  BY DEF Init, CallFits, NotCalling, NoRow
<1> QED
  BY <1>1, <1>4, <1>5, <1>6 DEF PublicationInv

(* A call that has returned fits whatever the row is.                      *)
LEMMA ReturnedFits ==
  ASSUME NEW c \in Caller, call'[c] = NotCalling
  PROVE  CallFits(c)'
BY DEF CallFits, NotCalling

(* When only one call is made at a time, its step leaves no other to check. *)
LEMMA OnlyThisCall ==
  ASSUME OneCall, NEW c \in Caller, CallFits(c)'
  PROVE  (\A b \in Caller : CallFits(b))'
BY DEF OneCall, CallFits

(* Steps of a call leave the worker's part alone, if pulls do not vanish and *)
(* no publication is stored in the place of another.                        *)
LEMMA WorkerUndisturbed ==
  ASSUME WorkerInv, UNCHANGED <<attempts, worker>>, pulls > 0 => pulls' > 0,
         row.publication = NoSha \/ row'.publication = row.publication,
         TypeInv
  PROVE  WorkerInv'
<1>1. UNCHANGED <<jobs, exec, attempts>>
  BY DEF worker
<1>2. ASSUME NEW sha \in Sha, jobs[PushJob(sha)].status = "completed"
      PROVE  sha \in attempts \cup {row'.publication}
  <2>1. sha \in attempts \cup {row.publication} /\ sha # NoSha
    BY <1>2, PublicationAssumption DEF WorkerInv, HandledPushIsRecorded
  <2> QED
    BY <2>1
<1>3. HandledPushIsRecorded'
  BY <1>1, <1>2 DEF HandledPushIsRecorded
<1> QED
  BY <1>1, <1>3 DEF WorkerInv

(* Steps of the worker, the learner and the setup leave the calls' part alone *)
(* if the row's manifest and publication stay, and nothing vanishes.          *)
LEMMA CallsUndisturbed ==
  ASSUME PublishedInv, \A c \in Caller : CallFits(c),
         UNCHANGED <<call, pulls>>,
         row'.manifest = row.manifest, row'.publication = row.publication,
         row.pull => row'.pull,
         row.status # "absent" => row'.status # "absent",
         branch.head = NoSha => UNCHANGED branch,
         branch.head # NoSha => branch'.head # NoSha /\ branch'.manifest = branch.manifest
  PROVE  PublishedInv' /\ (\A c \in Caller : CallFits(c))'
<1>1. PublishedInv'
  BY DEF PublishedInv, BranchCarriesStoredManifest, OnePullPerAssignment
<1>2. ASSUME NEW c \in Caller PROVE CallFits(c)'
  <2>1. CallFits(c)
    OBVIOUS
  <2> QED
    BY <2>1 DEF CallFits
<1> QED
  BY <1>1, <1>2

(* Steps of the one call.                                                  *)
LEMMA LookForActiveKept ==
  ASSUME PublicationInv, OneCall, NEW c \in Caller, LookForActive(c)
  PROVE  PublicationInv'
<1>1. /\ TypeInv' /\ UNCHANGED <<row, attempts, pulls, branch, worker>>
      /\ row.status = "absent" \/ IsResumable
      /\ call'[c].pc = "preflight" /\ call'[c].known = row.manifest
      /\ call'[c].fresh = (row.status = "absent")
  BY LookForActiveType DEF PublicationInv, tables, hub
<1>2. row.publication = NoSha
  BY <1>1 DEF PublicationInv, PublishedInv, IsResumable
<1>3. CallFits(c)'
  BY <1>1, <1>2 DEF CallFits
<1>4. PublishedInv'
  BY <1>1 DEF PublicationInv, PublishedInv, BranchCarriesStoredManifest, OnePullPerAssignment
<1>5. WorkerInv'
  BY <1>1, WorkerUndisturbed DEF PublicationInv
<1> QED
  BY <1>1, <1>3, <1>4, <1>5, OnlyThisCall DEF PublicationInv

LEMMA PreflightKept ==
  ASSUME PublicationInv, OneCall, NEW c \in Caller, Preflight(c)
  PROVE  PublicationInv'
<1>1. /\ TypeInv' /\ UNCHANGED <<row, attempts, pulls, branch, worker>>
      /\ call[c].pc = "preflight" /\ call'[c].known = call[c].known
      /\ call'[c].pc = IF call[c].fresh THEN "create" ELSE "manifest"
      /\ call'[c].kit = control /\ control # 0
  BY PreflightType DEF PublicationInv, tables, hub, Kit
<1>2. CallFits(c)
  BY DEF PublicationInv
<1>3. CallFits(c)'
  <2>1. CASE call[c].fresh
    BY <1>1, <1>2, <2>1 DEF CallFits
  <2>2. CASE ~call[c].fresh
    BY <1>1, <1>2, <2>2 DEF CallFits
  <2> QED
    BY <2>1, <2>2
<1>4. PublishedInv'
  BY <1>1 DEF PublicationInv, PublishedInv, BranchCarriesStoredManifest, OnePullPerAssignment
<1>5. WorkerInv'
  BY <1>1, WorkerUndisturbed DEF PublicationInv
<1> QED
  BY <1>1, <1>3, <1>4, <1>5, OnlyThisCall DEF PublicationInv

LEMMA CreateKept ==
  ASSUME PublicationInv, OneCall, NEW c \in Caller, Create(c)
  PROVE  PublicationInv'
<1>1. /\ TypeInv' /\ UNCHANGED <<attempts, pulls, branch, worker>> /\ call[c].pc = "create"
      /\ \/ /\ row.status = "absent" /\ row' = [row EXCEPT !.status = "validated"]
            /\ call'[c].pc = "manifest" /\ CallKeeps(c)
         \/ UNCHANGED row /\ call'[c] = NotCalling
  BY CreateType DEF PublicationInv, hub, Elsewhere
<1>2. /\ row'.manifest = row.manifest /\ row'.publication = row.publication
      /\ row'.pull = row.pull /\ (row.status # "absent" => row'.status # "absent")
      /\ call'[c] # NotCalling => row'.status = "validated"
  BY <1>1 DEF PublicationInv, TypeInv, TypeOK, Row
<1>3. CallFits(c)
  BY DEF PublicationInv
<1>4. CallFits(c)'
  <2>1. CASE call'[c] = NotCalling
    BY <2>1, ReturnedFits
  <2>2. CASE call'[c] # NotCalling
    BY <1>1, <1>2, <1>3, <2>2 DEF CallFits, CallKeeps
  <2> QED
    BY <2>1, <2>2
<1>5. PublishedInv'
  BY <1>1, <1>2
     DEF PublicationInv, PublishedInv, BranchCarriesStoredManifest, OnePullPerAssignment
<1>6. WorkerInv'
  BY <1>1, <1>2, WorkerUndisturbed DEF PublicationInv
<1> QED
  BY <1>1, <1>4, <1>5, <1>6, OnlyThisCall DEF PublicationInv

(* The manifest is bound once, before there is a branch that carries it.   *)
LEMMA BindManifestKept ==
  ASSUME PublicationInv, OneCall, NEW c \in Caller, BindManifest(c)
  PROVE  PublicationInv'
<1>1. /\ TypeInv' /\ UNCHANGED <<attempts, pulls, branch, worker>>
      /\ call[c].pc = "manifest" /\ call'[c].pc = "branch"
      /\ \/ call[c].known # 0 /\ call'[c].kit = call[c].known /\ UNCHANGED row
         \/ /\ call[c].known = 0 /\ call'[c].kit = call[c].kit
            /\ row' = [row EXCEPT !.manifest = call[c].kit]
  BY BindManifestType DEF PublicationInv, hub, Elsewhere
<1>2. /\ call[c].known = row.manifest /\ call[c].kit # 0 /\ row.publication = NoSha
      /\ row.status # "absent"
  BY <1>1 DEF PublicationInv, CallFits
<1>3. CASE UNCHANGED row /\ call[c].known # 0 /\ call'[c].kit = call[c].known
  <2>1. CallFits(c)'
    BY <1>1, <1>2, <1>3 DEF CallFits
  <2>2. PublishedInv'
    BY <1>1, <1>3
       DEF PublicationInv, PublishedInv, BranchCarriesStoredManifest, OnePullPerAssignment
  <2>3. WorkerInv'
    BY <1>1, <1>3, WorkerUndisturbed DEF PublicationInv
  <2> QED
    BY <1>1, <2>1, <2>2, <2>3, OnlyThisCall DEF PublicationInv
<1>4. CASE /\ call[c].known = 0 /\ call'[c].kit = call[c].kit
           /\ row' = [row EXCEPT !.manifest = call[c].kit]
  <2>1. /\ row'.manifest = call[c].kit /\ row'.publication = row.publication
        /\ row'.pull = row.pull /\ row'.status = row.status
    BY <1>4 DEF PublicationInv, TypeInv, TypeOK, Row
  <2>2. branch.head = NoSha
    BY <1>2, <1>4 DEF PublicationInv, PublishedInv
  <2>3. CallFits(c)'
    BY <1>1, <1>2, <1>4, <2>1 DEF CallFits
  <2>4. PublishedInv'
    BY <1>1, <2>1, <2>2
       DEF PublicationInv, PublishedInv, BranchCarriesStoredManifest, OnePullPerAssignment
  <2>5. WorkerInv'
    BY <1>1, <2>1, WorkerUndisturbed DEF PublicationInv
  <2> QED
    BY <1>1, <2>3, <2>4, <2>5, OnlyThisCall DEF PublicationInv
<1> QED
  BY <1>1, <1>3, <1>4

LEMMA FindBranchKept ==
  ASSUME PublicationInv, OneCall, NEW c \in Caller, FindBranch(c)
  PROVE  PublicationInv'
<1>1. /\ TypeInv' /\ UNCHANGED <<row, attempts, pulls, branch, worker>>
      /\ call[c].pc = "branch"
      /\ \/ call'[c].pc = "push" /\ CallKeeps(c)
         \/ BranchExists /\ call'[c].pc = "pulls" /\ call'[c].kit = call[c].kit
         \/ call'[c] = NotCalling
  BY FindBranchType DEF PublicationInv, tables, hub
<1>2. CallFits(c)
  BY DEF PublicationInv
<1>3. CallFits(c)'
  <2>1. CASE call'[c].pc \in {"push", "pulls"} /\ call'[c].kit = call[c].kit
             /\ (call'[c].pc = "pulls" => branch.head # NoSha)
    BY <1>1, <1>2, <2>1 DEF CallFits
  <2>2. CASE call'[c] = NotCalling
    BY <2>2, ReturnedFits
  <2> QED
    BY <1>1, <2>1, <2>2 DEF CallKeeps, BranchExists
<1>4. PublishedInv'
  BY <1>1 DEF PublicationInv, PublishedInv, BranchCarriesStoredManifest, OnePullPerAssignment
<1>5. WorkerInv'
  BY <1>1, WorkerUndisturbed DEF PublicationInv
<1> QED
  BY <1>1, <1>3, <1>4, <1>5, OnlyThisCall DEF PublicationInv

LEMMA FindPullKept ==
  ASSUME PublicationInv, OneCall, NEW c \in Caller, FindPull(c)
  PROVE  PublicationInv'
<1>1. /\ TypeInv' /\ UNCHANGED <<row, attempts, pulls, branch, worker>>
      /\ call[c].pc = "pulls" /\ call'[c].kit = call[c].kit
      /\ \/ pulls > 0 /\ call'[c].pc = "store"
         \/ ~(pulls > 0) /\ call'[c].pc = "open"
  BY FindPullType DEF PublicationInv, tables, hub, CallKeeps
<1>2. CallFits(c) /\ pulls \in Nat
  BY DEF PublicationInv, TypeInv, TypeOK
<1>3. CallFits(c)'
  BY <1>1, <1>2 DEF CallFits
<1>4. PublishedInv'
  BY <1>1 DEF PublicationInv, PublishedInv, BranchCarriesStoredManifest, OnePullPerAssignment
<1>5. WorkerInv'
  BY <1>1, WorkerUndisturbed DEF PublicationInv
<1> QED
  BY <1>1, <1>3, <1>4, <1>5, OnlyThisCall DEF PublicationInv

(* The branch is created with the stored manifest, and nothing was opened   *)
(* before it existed.                                                       *)
LEMMA PushBranchKept ==
  ASSUME PublicationInv, OneCall, NEW c \in Caller, PushBranch(c)
  PROVE  PublicationInv'
<1>1. /\ TypeInv' /\ UNCHANGED <<row, attempts, pulls, worker>> /\ call[c].pc = "push"
      /\ \/ UNCHANGED branch /\ call'[c] = NotCalling
         \/ /\ branch.head = NoSha /\ branch' = [head |-> Base, manifest |-> call[c].kit]
            /\ \/ call'[c].pc = "open" /\ call'[c].kit = call[c].kit
               \/ call'[c] = NotCalling
  BY PushBranchType DEF PublicationInv, tables
<1>2. CallFits(c) /\ pulls \in Nat
  BY DEF PublicationInv, TypeInv, TypeOK
<1>3. WorkerInv'
  BY <1>1, WorkerUndisturbed DEF PublicationInv
<1>4. CASE UNCHANGED branch /\ call'[c] = NotCalling
  <2>1. PublishedInv'
    BY <1>1, <1>4
       DEF PublicationInv, PublishedInv, BranchCarriesStoredManifest, OnePullPerAssignment
  <2> QED
    BY <1>1, <1>3, <1>4, <2>1, ReturnedFits, OnlyThisCall DEF PublicationInv
<1>5. CASE /\ branch.head = NoSha /\ branch' = [head |-> Base, manifest |-> call[c].kit]
           /\ \/ call'[c].pc = "open" /\ call'[c].kit = call[c].kit
              \/ call'[c] = NotCalling
  <2>1. /\ branch'.head # NoSha /\ branch'.manifest = row.manifest /\ row.manifest # 0
        /\ pulls = 0
    BY <1>1, <1>2, <1>5, PublicationAssumption
       DEF CallFits, Sha, PublicationInv, PublishedInv
  <2>2. PublishedInv'
    BY <1>1, <2>1
       DEF PublicationInv, PublishedInv, BranchCarriesStoredManifest, OnePullPerAssignment
  <2>3. CallFits(c)'
    <3>1. CASE call'[c].pc = "open" /\ call'[c].kit = call[c].kit
      BY <1>1, <1>2, <2>1, <3>1 DEF CallFits
    <3> QED
      BY <1>5, <3>1, ReturnedFits
  <2> QED
    BY <1>1, <1>3, <2>2, <2>3, OnlyThisCall DEF PublicationInv
<1> QED
  BY <1>1, <1>4, <1>5

LEMMA OpenPullKept ==
  ASSUME PublicationInv, OneCall, NEW c \in Caller, OpenPull(c)
  PROVE  PublicationInv'
<1>1. /\ TypeInv' /\ UNCHANGED <<row, attempts, branch, worker>> /\ call[c].pc = "open"
      /\ \/ UNCHANGED pulls /\ call'[c] = NotCalling
         \/ /\ pulls' = pulls + 1
            /\ \/ call'[c].pc = "store" /\ CallKeeps(c)
               \/ call'[c] = NotCalling
  BY OpenPullType DEF PublicationInv, tables
<1>2. /\ CallFits(c) /\ pulls = 0 /\ branch.head # NoSha /\ row.status # "absent"
  BY <1>1 DEF PublicationInv, CallFits
<1>3. WorkerInv'
  BY <1>1, <1>2, WorkerUndisturbed DEF PublicationInv
<1>4. PublishedInv'
  BY <1>1, <1>2
     DEF PublicationInv, PublishedInv, BranchCarriesStoredManifest, OnePullPerAssignment
<1>5. CallFits(c)'
  <2>1. CASE call'[c].pc = "store" /\ CallKeeps(c)
    BY <1>1, <1>2, <2>1 DEF CallFits, CallKeeps
  <2>2. CASE call'[c] = NotCalling
    BY <2>2, ReturnedFits
  <2> QED
    BY <1>1, <2>1, <2>2
<1> QED
  BY <1>1, <1>3, <1>4, <1>5, OnlyThisCall DEF PublicationInv

LEMMA StoreKept ==
  ASSUME PublicationInv, OneCall, NEW c \in Caller, Store(c)
  PROVE  PublicationInv'
<1>1. /\ TypeInv' /\ UNCHANGED <<attempts, pulls, branch, worker>>
      /\ call[c].pc = "store" /\ call'[c] = NotCalling
      /\ row'.status = "published" /\ row'.pull /\ row'.manifest = row.manifest
  BY StoreType DEF PublicationInv, hub, Elsewhere
<1>2. row.publication = NoSha
  BY <1>1 DEF PublicationInv, CallFits
<1>3. WorkerInv'
  BY <1>1, <1>2, WorkerUndisturbed DEF PublicationInv
<1>4. PublishedInv'
  BY <1>1 DEF PublicationInv, PublishedInv, BranchCarriesStoredManifest, OnePullPerAssignment
<1> QED
  BY <1>1, <1>3, <1>4, ReturnedFits, OnlyThisCall DEF PublicationInv

LEMMA CallFailsKept ==
  ASSUME PublicationInv, OneCall, NEW c \in Caller, CallFails(c)
  PROVE  PublicationInv'
<1>1. /\ TypeInv' /\ UNCHANGED <<row, attempts, pulls, branch, worker>>
      /\ call'[c] = NotCalling
  BY CallFailsType DEF PublicationInv, tables, hub
<1>2. WorkerInv'
  BY <1>1, WorkerUndisturbed DEF PublicationInv
<1>3. PublishedInv'
  BY <1>1 DEF PublicationInv, PublishedInv, BranchCarriesStoredManifest, OnePullPerAssignment
<1> QED
  BY <1>1, <1>2, <1>3, ReturnedFits, OnlyThisCall DEF PublicationInv

(* Steps of the worker, the learner and the setup.                         *)
LEMMA OutsideKept ==
  ASSUME PublicationInv,
         (\E sha \in Commit : LearnerPushes(sha)) \/ LearnerCloses \/ FindNoAssignment \/ Rotate
  PROVE  PublicationInv'
<1>1. /\ TypeInv' /\ UNCHANGED <<row, attempts, pulls, call, worker>>
      /\ branch.head = NoSha => UNCHANGED branch
      /\ branch.head # NoSha => branch'.head # NoSha /\ branch'.manifest = branch.manifest
  BY OutsideType DEF PublicationInv
<1>2. WorkerInv'
  BY <1>1, WorkerUndisturbed DEF PublicationInv
<1>3. PublishedInv' /\ (\A c \in Caller : CallFits(c))'
  BY <1>1, CallsUndisturbed DEF PublicationInv
<1> QED
  BY <1>1, <1>2, <1>3 DEF PublicationInv

(* What a step of the worker must show when it moves execution r and         *)
(* completes the jobs of S.                                                  *)
LEMMA WorkerKept ==
  ASSUME PublicationInv, NEW r \in Runner, NEW S, TypeInv', Others(r),
         UNCHANGED <<hub, call>>, NoneLost, CompletesOnly(S),
         attempts \subseteq attempts', row'.publication = row.publication,
         \A action \in {"opened", "closed"} :
           jobs'[PullJob(action)].status # "absent" =>
             jobs[PullJob(action)].status # "absent" \/ pulls > 0,
         \A sha \in Sha : PushJob(sha) \in S => sha \in attempts' \cup {row.publication},
         exec'[r].pc # "idle" => jobs'[exec'[r].job].status # "absent",
         exec'[r].pc = "write" => exec'[r].status # "absent",
         exec'[r].pc \in {"submit", "dispatch"} => exec'[r].job[2] \in attempts'
  PROVE  WorkerInv'
<1>1. WorkerInv /\ TypeInv
  BY DEF PublicationInv
<1>2. ASSUME NEW q \in Runner
      PROVE  /\ exec'[q].pc # "idle" => jobs'[exec'[q].job].status # "absent"
             /\ exec'[q].pc = "write" => exec'[q].status # "absent"
             /\ exec'[q].pc \in {"submit", "dispatch"} => exec'[q].job[2] \in attempts'
  <2>1. CASE q = r
    BY <2>1
  <2>2. CASE q # r
    <3>1. exec'[q] = exec[q]
      BY <2>2 DEF Others
    <3>2. exec[q].pc # "idle" => exec[q].job \in Job
      BY <1>1, JobOfExecution
    <3> QED
      BY <1>1, <3>1, <3>2 DEF WorkerInv, NoneLost
  <2> QED
    BY <2>1, <2>2
<1>3. ASSUME NEW action \in {"opened", "closed"}, jobs'[PullJob(action)].status # "absent"
      PROVE  pulls' > 0
  BY <1>1, <1>3 DEF WorkerInv, hub
<1>4. ASSUME NEW sha \in Sha, jobs'[PushJob(sha)].status = "completed"
      PROVE  sha \in attempts' \cup {row'.publication}
  <2>1. PushJob(sha) \in Job
    BY DEF Job
  <2>2. jobs[PushJob(sha)].status = "completed" \/ PushJob(sha) \in S
    BY <1>4, <2>1 DEF CompletesOnly
  <2> QED
    BY <1>1, <2>2 DEF WorkerInv, HandledPushIsRecorded
<1> QED
  BY <1>2, <1>3, <1>4 DEF WorkerInv, HandledPushIsRecorded

(* The other half: a step that writes neither the row nor GitHub.           *)
LEMMA RowUntouched ==
  ASSUME PublicationInv, UNCHANGED <<row, hub, call>>
  PROVE  PublishedInv' /\ (\A c \in Caller : CallFits(c))'
BY CallsUndisturbed DEF PublicationInv, hub

LEMMA DeliverKept ==
  ASSUME PublicationInv, NEW j \in Job, Deliver(j)
  PROVE  PublicationInv'
<1>1. /\ TypeInv' /\ OnlyWorks /\ UNCHANGED exec
      /\ NoneLost /\ CompletesOnly({})
      /\ \A k \in Job : k # j => jobs'[k] = jobs[k]
      /\ (\E action \in {"opened", "closed"} : j = PullJob(action)) => pulls > 0
  BY DeliverType DEF PublicationInv
<1>2. UNCHANGED <<row, attempts, hub, call, pulls>>
  BY <1>1 DEF OnlyWorks, tables, hub
<1>3. WorkerInv /\ TypeInv
  BY DEF PublicationInv
<1>4. ASSUME NEW q \in Runner, exec'[q].pc # "idle"
      PROVE  jobs'[exec'[q].job].status # "absent"
  BY <1>1, <1>3, <1>4, JobOfExecution DEF WorkerInv, NoneLost
<1>5. ASSUME NEW action \in {"opened", "closed"}, jobs'[PullJob(action)].status # "absent"
      PROVE  pulls > 0
  <2>1. PullJob(action) \in Job
    BY DEF Job
  <2> QED
    BY <1>1, <1>3, <1>5, <2>1 DEF WorkerInv
<1>6. ASSUME NEW sha \in Sha, jobs'[PushJob(sha)].status = "completed"
      PROVE  sha \in attempts \cup {row.publication}
  <2>1. PushJob(sha) \in Job
    BY DEF Job
  <2> QED
    BY <1>1, <1>3, <1>6, <2>1 DEF WorkerInv, HandledPushIsRecorded, CompletesOnly
<1>7. WorkerInv'
  BY <1>1, <1>2, <1>3, <1>4, <1>5, <1>6 DEF WorkerInv, HandledPushIsRecorded
<1> QED
  BY <1>1, <1>2, <1>7, RowUntouched DEF PublicationInv

LEMMA ClaimKept ==
  ASSUME PublicationInv, NEW r \in Runner, NEW j \in Job, Claim(r, j)
  PROVE  PublicationInv'
<1>1. /\ TypeInv' /\ OnlyWorks /\ Others(r)
      /\ NoneLost /\ NoneFiled /\ CompletesOnly({})
      /\ exec'[r].job = j /\ exec'[r].pc = "read" /\ jobs'[j].status # "absent"
  BY ClaimType DEF PublicationInv
<1>2. UNCHANGED <<row, attempts, hub, call>>
  BY <1>1 DEF OnlyWorks, tables
<1>3. \A action \in {"opened", "closed"} : PullJob(action) \in Job
  BY DEF Job
<1>4. WorkerInv'
  BY <1>1, <1>2, <1>3, WorkerKept DEF NoneFiled
<1> QED
  BY <1>1, <1>2, <1>4, RowUntouched DEF PublicationInv

(* The end of an execution files nothing, because its job was filed.       *)
LEMMA FinishedFilesNone ==
  ASSUME PublicationInv, NEW r \in Runner, exec[r].pc # "idle",
         \A k \in Job : k # exec[r].job => jobs'[k] = jobs[k]
  PROVE  \A action \in {"opened", "closed"} :
           jobs'[PullJob(action)].status # "absent" => jobs[PullJob(action)].status # "absent"
<1>1. \A action \in {"opened", "closed"} : PullJob(action) \in Job
  BY DEF Job
<1>2. jobs[exec[r].job].status # "absent"
  BY DEF PublicationInv, WorkerInv
<1> QED
  BY <1>1, <1>2

LEMMA HandlerFailsKept ==
  ASSUME PublicationInv, NEW r \in Runner, HandlerFails(r)
  PROVE  PublicationInv'
<1>1. /\ TypeInv' /\ OnlyWorks /\ Others(r) /\ exec'[r] = Idle
      /\ NoneLost /\ CompletesOnly({})
      /\ \A k \in Job : k # exec[r].job => jobs'[k] = jobs[k]
      /\ exec[r].pc # "idle"
  BY HandlerFailsType DEF PublicationInv, HandlerFails
<1>2. UNCHANGED <<row, attempts, hub, call>>
  BY <1>1 DEF OnlyWorks, tables
<1>3. WorkerInv'
  BY <1>1, <1>2, FinishedFilesNone, IdleExecution, WorkerKept
<1> QED
  BY <1>1, <1>2, <1>3, RowUntouched DEF PublicationInv

LEMMA ReadForPushKept ==
  ASSUME PublicationInv, NEW r \in Runner, ReadForPush(r)
  PROVE  PublicationInv'
<1>1. /\ TypeInv' /\ OnlyWorks /\ Others(r) /\ NoneLost
      /\ \A k \in Job : k # exec[r].job => jobs'[k] = jobs[k]
  BY ReadForPushType DEF PublicationInv
<1>2. PICK sha \in Sha :
        /\ exec[r].job = PushJob(sha) /\ exec[r].pc = "read"
        /\ \/ /\ row.publication = sha /\ CompletesOnly({PushJob(sha)})
              /\ exec'[r] = Idle
           \/ /\ CompletesOnly({}) /\ exec'[r].pc = "record"
              /\ exec'[r].job = exec[r].job
  BY ReadForPushType DEF PublicationInv
<1>3. UNCHANGED <<row, attempts, hub, call>>
  BY <1>1 DEF OnlyWorks, tables
<1>4. /\ jobs[exec[r].job].status # "absent" /\ exec[r].job \in Job
      /\ \A action \in {"opened", "closed"} :
           jobs'[PullJob(action)].status # "absent" => jobs[PullJob(action)].status # "absent"
  BY <1>1, <1>2, FinishedFilesNone, JobOfExecution DEF PublicationInv, WorkerInv
<1>5. CASE row.publication = sha /\ CompletesOnly({PushJob(sha)}) /\ exec'[r] = Idle
  <2>1. \A other \in Sha : PushJob(other) \in {PushJob(sha)} => other = sha
    BY DEF PushJob
  <2>2. WorkerInv'
    BY <1>1, <1>3, <1>4, <1>5, <2>1, IdleExecution, WorkerKept
  <2> QED
    BY <1>1, <1>3, <2>2, RowUntouched DEF PublicationInv
<1>6. CASE CompletesOnly({}) /\ exec'[r].pc = "record" /\ exec'[r].job = exec[r].job
  <2>1. jobs'[exec'[r].job].status # "absent"
    BY <1>1, <1>4, <1>6 DEF NoneLost
  <2>2. WorkerInv'
    BY <1>1, <1>3, <1>4, <1>6, <2>1, WorkerKept
  <2> QED
    BY <1>1, <1>3, <2>2, RowUntouched DEF PublicationInv
<1> QED
  BY <1>2, <1>5, <1>6

LEMMA RecordAttemptKept ==
  ASSUME PublicationInv, NEW r \in Runner, RecordAttempt(r)
  PROVE  PublicationInv'
<1>1. /\ TypeInv' /\ UNCHANGED <<row, hub, call, jobs>> /\ Others(r)
      /\ exec'[r].pc = "submit" /\ exec'[r].job = exec[r].job
      /\ attempts' = attempts \cup {exec[r].job[2]} /\ exec[r].pc # "idle"
  BY RecordAttemptType DEF PublicationInv
<1>2. jobs[exec[r].job].status # "absent" /\ NoneLost /\ CompletesOnly({})
  BY <1>1, SameTable DEF PublicationInv, WorkerInv
<1>3. WorkerInv'
  BY <1>1, <1>2, WorkerKept
<1> QED
  BY <1>1, <1>3, RowUntouched DEF PublicationInv

LEMMA SubmitKept ==
  ASSUME PublicationInv, NEW r \in Runner, Submit(r)
  PROVE  PublicationInv'
<1>1. /\ TypeInv' /\ UNCHANGED <<attempts, hub, call, jobs>> /\ Others(r)
      /\ row' = [row EXCEPT !.status = "submitted"]
      /\ exec[r].pc = "submit" /\ exec'[r].pc = "dispatch" /\ exec'[r].job = exec[r].job
  BY SubmitType DEF PublicationInv
<1>2. /\ jobs[exec[r].job].status # "absent" /\ NoneLost /\ CompletesOnly({})
      /\ exec[r].job[2] \in attempts
  BY <1>1, SameTable DEF PublicationInv, WorkerInv
<1>3. /\ row'.manifest = row.manifest /\ row'.publication = row.publication
      /\ row'.pull = row.pull /\ row'.status = "submitted"
  BY <1>1 DEF PublicationInv, TypeInv, TypeOK, Row
<1>4. WorkerInv'
  BY <1>1, <1>2, <1>3, WorkerKept
<1>5. PublishedInv' /\ (\A c \in Caller : CallFits(c))'
  BY <1>1, <1>3, CallsUndisturbed DEF PublicationInv, hub
<1> QED
  BY <1>1, <1>4, <1>5 DEF PublicationInv

LEMMA DispatchOrRefuseKept ==
  ASSUME PublicationInv, NEW r \in Runner, DispatchOrRefuse(r)
  PROVE  PublicationInv'
<1>1. /\ TypeInv' /\ OnlyWorks /\ Others(r) /\ NoneLost /\ exec'[r] = Idle
      /\ exec[r].pc = "dispatch"
      /\ \A k \in Job : k # exec[r].job => jobs'[k] = jobs[k]
  BY DispatchOrRefuseType DEF PublicationInv
<1>2. PICK sha \in Sha : /\ exec[r].job = PushJob(sha) /\ exec[r].job[2] = sha
                         /\ CompletesOnly({PushJob(sha)})
  BY DispatchOrRefuseType DEF PublicationInv
<1>3. UNCHANGED <<row, attempts, hub, call>>
  BY <1>1 DEF OnlyWorks, tables
<1>4. sha \in attempts
  BY <1>1, <1>2 DEF PublicationInv, WorkerInv
<1>5. \A other \in Sha : PushJob(other) \in {PushJob(sha)} => other = sha
  BY DEF PushJob
<1>6. WorkerInv'
  BY <1>1, <1>2, <1>3, <1>4, <1>5, FinishedFilesNone, IdleExecution, WorkerKept
<1> QED
  BY <1>1, <1>3, <1>6, RowUntouched DEF PublicationInv

LEMMA ReadForPullKept ==
  ASSUME PublicationInv, NEW r \in Runner, ReadForPull(r)
  PROVE  PublicationInv'
<1>1. /\ TypeInv' /\ OnlyWorks /\ Others(r) /\ UNCHANGED jobs
      /\ exec[r].pc # "idle" /\ exec'[r].pc = "write" /\ exec'[r].job = exec[r].job
      /\ exec'[r].status = row.status
      /\ \E action \in {"opened", "closed"} : exec[r].job = PullJob(action)
  BY ReadForPullType DEF PublicationInv
<1>2. UNCHANGED <<row, attempts, hub, call>>
  BY <1>1 DEF OnlyWorks, tables
<1>3. jobs[exec[r].job].status # "absent" /\ NoneLost /\ CompletesOnly({})
  BY <1>1, SameTable DEF PublicationInv, WorkerInv
<1>4. row.status # "absent"
  BY <1>1, <1>3 DEF PublicationInv, WorkerInv, PublishedInv
<1>5. WorkerInv'
  BY <1>1, <1>2, <1>3, <1>4, WorkerKept
<1> QED
  BY <1>1, <1>2, <1>5, RowUntouched DEF PublicationInv

LEMMA WritePullKept ==
  ASSUME PublicationInv, NEW r \in Runner, WritePull(r)
  PROVE  PublicationInv'
<1>1. /\ TypeInv' /\ UNCHANGED <<attempts, hub, call>> /\ Others(r)
      /\ exec[r].pc = "write" /\ exec'[r] = Idle /\ NoneLost
      /\ \A k \in Job : k # exec[r].job => jobs'[k] = jobs[k]
      /\ row'.pull /\ row'.manifest = row.manifest /\ row'.publication = row.publication
      /\ exec[r].status # "absent" => row'.status # "absent"
  BY WritePullType DEF PublicationInv
<1>2. PICK action \in {"opened", "closed"} :
        exec[r].job = PullJob(action) /\ CompletesOnly({PullJob(action)})
  BY WritePullType DEF PublicationInv
<1>3. row'.status # "absent"
  BY <1>1 DEF PublicationInv, WorkerInv
<1>4. \A sha \in Sha : PushJob(sha) \notin {PullJob(action)}
  BY DEF PushJob, PullJob
<1>5. WorkerInv'
  BY <1>1, <1>2, <1>4, FinishedFilesNone, IdleExecution, WorkerKept
<1>6. PublishedInv' /\ (\A c \in Caller : CallFits(c))'
  BY <1>1, <1>3, CallsUndisturbed DEF PublicationInv, hub
<1> QED
  BY <1>1, <1>5, <1>6 DEF PublicationInv

LEMMA PublicationInvStep == OneCall /\ PublicationInv /\ [Next]_vars => PublicationInv'
<1> SUFFICES ASSUME OneCall, PublicationInv, [Next]_vars PROVE PublicationInv'
  OBVIOUS
<1>1. ASSUME NEW c \in Caller, CallSteps(c) \/ CallFails(c) PROVE PublicationInv'
  BY <1>1, LookForActiveKept, PreflightKept, CreateKept, BindManifestKept, FindBranchKept,
     FindPullKept, PushBranchKept, OpenPullKept, StoreKept, CallFailsKept DEF CallSteps
<1>2. ASSUME NEW r \in Runner,
             HandlerStep(r) \/ HandlerFails(r) \/ \E j \in Job : Claim(r, j)
      PROVE  PublicationInv'
  BY <1>2, ReadForPushKept, RecordAttemptKept, SubmitKept, DispatchOrRefuseKept,
     ReadForPullKept, WritePullKept, HandlerFailsKept, ClaimKept DEF HandlerStep
<1>3. ASSUME NEW j \in Job, Deliver(j) PROVE PublicationInv'
  BY <1>3, DeliverKept
<1>4. CASE UNCHANGED vars
  <2>1. TypeInv'
    BY <1>4, TypeInvStep DEF PublicationInv
  <2>2. UNCHANGED <<row, attempts, hub, call, worker, pulls>>
    BY <1>4 DEF vars, tables, hub
  <2>3. WorkerInv'
    BY <2>2, WorkerUndisturbed DEF PublicationInv
  <2> QED
    BY <2>1, <2>2, <2>3, RowUntouched DEF PublicationInv
<1> QED
  BY <1>1, <1>2, <1>3, <1>4, OutsideKept DEF Next

(* Publication keeps its promises while calls of create_next_assignment do  *)
(* not overlap; they may fail or die anywhere and be repeated any number of *)
(* times. Two that overlap can each bind their own kit, open a second pull  *)
(* request after the first was closed, and store another publication.       *)
LEMMA PublicationInvAlways ==
  ASSUME OneCall PROVE Spec => []PublicationInv
<1>1. Init => PublicationInv
  BY PublicationInvInit
<1>2. PublicationInv /\ [Next]_vars => PublicationInv'
  BY PublicationInvStep
<1> QED
  BY <1>1, <1>2, PTL DEF Spec

(* Publication opens one pull request, whatever fails, dies or is repeated.  *)
THEOREM OnePull == ASSUME OneCall PROVE Spec => []OnePullPerAssignment
<1>1. PublicationInv => OnePullPerAssignment
  BY DEF PublicationInv, PublishedInv
<1> QED
  BY <1>1, PublicationInvAlways, PTL

(* The branch carries the manifest that the row stores, whatever kit a setup *)
(* installed between the tries.                                              *)
THEOREM StoredManifest == ASSUME OneCall PROVE Spec => []BranchCarriesStoredManifest
<1>1. PublicationInv => BranchCarriesStoredManifest
  BY DEF PublicationInv, PublishedInv
<1> QED
  BY <1>1, PublicationInvAlways, PTL

(* A handled push has its attempt unless it is the tutor's own publication.  *)
THEOREM PushRecorded == ASSUME OneCall PROVE Spec => []HandledPushIsRecorded
<1>1. PublicationInv => HandledPushIsRecorded
  BY DEF PublicationInv, WorkerInv
<1> QED
  BY <1>1, PublicationInvAlways, PTL

-----------------------------------------------------------------------------
(* The queue's contract                                                    *)

Executes(q, j) == exec[q].pc # "idle" /\ exec[q].job = j

LEMMA ExecutingMeans ==
  ASSUME NEW j \in Job
  PROVE  /\ Executing[j] = {q \in Runner : Executes(q, j)}
         /\ Executing'[j] = {q \in Runner : Executes(q, j)'}
BY DEF Executing, Executes

LEMMA ContractOperators ==
  ASSUME NEW entry, NEW r, NEW outcome
  PROVE  /\ Contract!Filed(entry) = Filed(entry)
         /\ Contract!IsClaimable(entry) <=> IsClaimable(entry)
         /\ Contract!Taken(entry, r) = Taken(entry, r)
         /\ Contract!Lapsed(entry) = Lapsed(entry)
         /\ Contract!Reported(entry, r, outcome) = Reported(entry, r, outcome)
<1>1. Contract!Filed(entry) = Filed(entry) /\ Contract!Taken(entry, r) = Taken(entry, r)
      /\ (Contract!IsClaimable(entry) <=> IsClaimable(entry))
  BY DEF Contract!Filed, Filed, Contract!Taken, Taken, Contract!IsClaimable, IsClaimable
<1>2. Contract!Lapsed(entry) = Lapsed(entry)
  BY DEF Contract!Lapsed, Lapsed
<1>3. Contract!Reported(entry, r, outcome) = Reported(entry, r, outcome)
  BY <1>2 DEF Contract!Reported, Reported
<1> QED
  BY <1>1, <1>2, <1>3

(* A job whose row and executions stay as they are.                        *)
LEMMA JobRests ==
  ASSUME NEW j \in Job, jobs'[j] = jobs[j],
         \A q \in Runner : Executes(q, j)' <=> Executes(q, j)
  PROVE  Contract!JobStep(j)
<1>1. Executing'[j] = Executing[j]
  BY ExecutingMeans
<1> QED
  BY <1>1 DEF Contract!JobStep, Contract!Rest

(* A step of a handler that goes on, and one of nobody.                     *)
GoesOn(r) ==
  /\ UNCHANGED jobs /\ Others(r)
  /\ exec[r].pc # "idle" /\ exec'[r].pc # "idle" /\ exec'[r].job = exec[r].job

LEMMA HandlerGoesOn ==
  ASSUME NEW r \in Runner, GoesOn(r)
  PROVE  Contract!Next
<1> SUFFICES ASSUME NEW j \in Job PROVE Contract!JobStep(j)
  BY DEF Contract!Next
<1>1. \A q \in Runner : Executes(q, j)' <=> Executes(q, j)
  BY DEF Executes, Others, GoesOn
<1> QED
  BY <1>1, JobRests DEF GoesOn

LEMMA WorkerRests ==
  ASSUME UNCHANGED <<jobs, exec>>
  PROVE  Contract!Next
<1> SUFFICES ASSUME NEW j \in Job PROVE Contract!JobStep(j)
  BY DEF Contract!Next
<1>1. \A q \in Runner : Executes(q, j)' <=> Executes(q, j)
  BY DEF Executes
<1> QED
  BY <1>1, JobRests

(* A handler that ends and reports.                                        *)
Reports(r) == exec[r].pc # "idle" /\ \E outcome \in Outcome : Finish(r, outcome)

LEMMA HandlerReports ==
  ASSUME TypeInv, NEW r \in Runner, Reports(r)
  PROVE  Contract!Next
<1> PICK outcome \in Outcome : Finish(r, outcome)
  BY DEF Reports
<1> DEFINE k == exec[r].job
           out == Reported(jobs[k], r, outcome)
<1>1. /\ k \in Job /\ jobs \in [Job -> JobRow] /\ jobs' = [jobs EXCEPT ![k] = out]
      /\ exec \in [Runner -> Execution] /\ exec' = [exec EXCEPT ![r] = Idle]
  BY JobOfExecution DEF Finish, Reports, TypeInv, TypeOK
<1>2. Contract!Reported(jobs[k], r, outcome) = out
  BY ContractOperators
<1>3. Executes(r, k) /\ \A j \in Job : j # k => ~Executes(r, j)
  BY DEF Executes, Reports
<1> HIDE DEF k, out
<1>4. /\ \A q \in Runner : q # r => \A j \in Job : Executes(q, j)' <=> Executes(q, j)
      /\ \A j \in Job : ~Executes(r, j)'
  BY <1>1, IdleExecution DEF Executes
<1>5. Contract!JobStep(k)
  <2>1. jobs'[k] = out
    BY <1>1
  <2>2. r \in Executing[k] /\ Executing'[k] = Executing[k] \ {r}
    BY <1>1, <1>3, <1>4, ExecutingMeans
  <2> QED
    BY <1>2, <2>1, <2>2 DEF Contract!JobStep, Contract!Finish, Outcome
<1>6. ASSUME NEW j \in Job, j # k PROVE Contract!JobStep(j)
  <2>1. jobs'[j] = jobs[j]
    BY <1>1, <1>6
  <2>2. \A q \in Runner : Executes(q, j)' <=> Executes(q, j)
    BY <1>3, <1>4, <1>6
  <2> QED
    BY <2>1, <2>2, JobRests
<1> QED
  BY <1>5, <1>6 DEF Contract!Next

(* Somebody files a job, which no execution works on yet or which was filed. *)
LEMMA JobIsFiled ==
  ASSUME TypeInv, NEW k \in Job, jobs' = [jobs EXCEPT ![k] = Filed(jobs[k])],
         \A q \in Runner, j \in Job : Executes(q, j)' <=> Executes(q, j)
  PROVE  Contract!Next
<1> SUFFICES ASSUME NEW j \in Job PROVE Contract!JobStep(j)
  BY DEF Contract!Next
<1>1. jobs \in [Job -> JobRow]
  BY DEF TypeInv, TypeOK
<1>2. CASE j # k \/ jobs[k].status # "absent"
  <2>1. jobs'[j] = jobs[j]
    BY <1>1, <1>2 DEF Filed
  <2> QED
    BY <2>1, JobRests
<1>3. CASE j = k /\ jobs[k].status = "absent"
  <2>1. jobs'[j] = Contract!Filed(jobs[j])
    BY <1>1, <1>3, ContractOperators
  <2>2. Executing'[j] = Executing[j]
    BY ExecutingMeans
  <2> QED
    BY <1>3, <2>1, <2>2 DEF Contract!JobStep, Contract!Accept
<1> QED
  BY <1>2, <1>3

(* A runner that takes a job.                                              *)
LEMMA JobIsTaken ==
  ASSUME TypeInv, NEW r \in Runner, NEW k \in Job, Claim(r, k)
  PROVE  Contract!Next
<1> DEFINE out == Taken(jobs[k], r)
<1>1. /\ jobs \in [Job -> JobRow] /\ jobs' = [jobs EXCEPT ![k] = out]
      /\ IsClaimable(jobs[k]) /\ exec[r].pc = "idle"
  BY DEF Claim, TypeInv, TypeOK
<1>2. jobs[k].tries < MaxTries
  BY <1>1 DEF TypeInv, RowFits
<1>3. Contract!Taken(jobs[k], r) = out /\ Contract!IsClaimable(jobs[k])
  BY <1>1, ContractOperators
<1> HIDE DEF out
<1>4. exec'[r].job = k /\ exec'[r].pc = "read" /\ Others(r)
  BY ClaimType
<1>5. /\ \A q \in Runner : q # r => \A j \in Job : Executes(q, j)' <=> Executes(q, j)
      /\ \A j \in Job : ~Executes(r, j) /\ (Executes(r, j)' <=> j = k)
  BY <1>1, <1>4 DEF Executes, Others
<1>6. Contract!JobStep(k)
  <2>1. jobs'[k] = out
    BY <1>1
  <2>2. r \notin Executing[k] /\ Executing'[k] = Executing[k] \cup {r}
    BY <1>5, ExecutingMeans
  <2> QED
    BY <1>2, <1>3, <2>1, <2>2 DEF Contract!JobStep, Contract!Claim
<1>7. ASSUME NEW j \in Job, j # k PROVE Contract!JobStep(j)
  <2>1. jobs'[j] = jobs[j]
    BY <1>1, <1>7
  <2>2. \A q \in Runner : Executes(q, j)' <=> Executes(q, j)
    BY <1>5, <1>7
  <2> QED
    BY <2>1, <2>2, JobRests
<1> QED
  BY <1>6, <1>7 DEF Contract!Next

LEMMA ContractInit == Init => Contract!Init
<1> SUFFICES ASSUME Init PROVE Contract!Init
  OBVIOUS
<1>1. Executing = [j \in Job |-> {}]
  BY DEF Init, Idle, Executing
<1>2. Contract!Unfiled = Unfiled
  BY DEF Contract!Unfiled, Unfiled
<1> QED
  BY <1>1, <1>2 DEF Init, Contract!Init

LEMMA ContractStep == TypeInv /\ [Next]_vars => Contract!Next
<1> SUFFICES ASSUME TypeInv, [Next]_vars PROVE Contract!Next
  OBVIOUS
<1>1. ASSUME NEW c \in Caller, CallSteps(c) \/ CallFails(c) PROVE Contract!Next
  <2>1. UNCHANGED <<jobs, exec>>
    BY <1>1 DEF CallSteps, CallFails, LookForActive, Preflight, Create, BindManifest,
       FindBranch, FindPull, PushBranch, OpenPull, Store, worker
  <2> QED
    BY <2>1, WorkerRests
<1>2. CASE (\E sha \in Commit : LearnerPushes(sha)) \/ LearnerCloses \/ FindNoAssignment \/ Rotate
  BY <1>2, OutsideType, WorkerRests DEF worker
<1>3. ASSUME NEW j \in Job, Deliver(j) PROVE Contract!Next
  <2>1. \A q \in Runner, k \in Job : Executes(q, k)' <=> Executes(q, k)
    BY <1>3 DEF Deliver, Executes
  <2> QED
    BY <1>3, <2>1, JobIsFiled DEF Deliver
<1>4. ASSUME NEW r \in Runner, HandlerStep(r) PROVE GoesOn(r) \/ Reports(r)
  <2>1. CASE ReadForPush(r)
    <3>1. exec[r].pc # "idle"
      BY <2>1 DEF ReadForPush, At
    <3>2. CASE Finish(r, "ok")
      BY <3>1, <3>2 DEF Reports, Outcome
    <3>3. CASE ~Finish(r, "ok")
      BY <2>1, <3>1, <3>3 DEF ReadForPush, GoesOn, Others, TypeInv, TypeOK, Execution
    <3> QED
      BY <3>2, <3>3
  <2>2. CASE RecordAttempt(r) \/ Submit(r) \/ ReadForPull(r)
    BY <2>2, RecordAttemptType, SubmitType, ReadForPullType DEF GoesOn
  <2>3. CASE DispatchOrRefuse(r) \/ WritePull(r)
    BY <2>3 DEF DispatchOrRefuse, WritePull, At, Reports, Outcome
  <2> QED
    BY <1>4, <2>1, <2>2, <2>3 DEF HandlerStep
<1>5. ASSUME NEW r \in Runner, HandlerFails(r) PROVE Reports(r)
  BY <1>5 DEF HandlerFails, Reports, Outcome
<1>6. ASSUME NEW r \in Runner, NEW j \in Job, Claim(r, j) PROVE Contract!Next
  BY <1>6, JobIsTaken
<1>7. CASE UNCHANGED vars
  BY <1>7, WorkerRests DEF vars, worker
<1> QED
  BY <1>1, <1>2, <1>3, <1>4, <1>5, <1>6, <1>7, HandlerGoesOn, HandlerReports DEF Next

(* The worker's handlers that run beside a publication use the queue as its  *)
(* contract without stalls allows and in no other way.                       *)
THEOREM PublicationUnderContract == Spec => RunsUnderContract
<1>1. Init => Contract!Init
  BY ContractInit
<1>2. TypeInv /\ [Next]_vars => [Contract!Next]_(Contract!contractVars)
  BY ContractStep
<1>3. Spec => []TypeInv
  BY TypeInvInit, TypeInvStep, PTL DEF Spec
<1> QED
  BY <1>1, <1>2, <1>3, PTL DEF Spec, RunsUnderContract, Contract!Spec
=============================================================================
