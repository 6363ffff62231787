--------------------------- MODULE JobQueueProofs ---------------------------
(***************************************************************************)
(* TLAPS proofs about JobQueue, for every value of its constants.          *)
(***************************************************************************)
EXTENDS JobQueue, TLAPS

(* What the inductive argument adds to the checked invariants: a holder's    *)
(* Job object names a stored job, and a row's columns fit its status.        *)
HoldersNameJobs ==
  \A w \in Worker :
    held[w].phase = "handling" => held[w].job \in Key /\ held[w].attempt > 0

RowsFitStatus ==
  \A k \in Key :
    /\ jobs[k].status = "absent" => jobs[k].attempts = 0
    /\ jobs[k].status = "running" => jobs[k].attempts > 0
    /\ jobs[k].status \in {"running"} \cup Settled => jobs[k].due = 0

IInv ==
  /\ TypeOK
  /\ HoldersNameJobs
  /\ RowsFitStatus
  /\ QueuedHasAttemptsLeft
  /\ TimelyHolderKeepsLease
  /\ EventTellsOutcome

-----------------------------------------------------------------------------
(* The helper operators on rows *)

LEMMA NewJobRow ==
  ASSUME NEW at \in Nat
  PROVE  /\ NewJob(at) \in JobRow
         /\ NewJob(at).status = "queued" /\ NewJob(at).attempts = 0
         /\ NewJob(at).due = 0
<1>1. /\ NoJob.attempts = 0 /\ NoJob.due = 0
      /\ NoJob = [status |-> "absent", attempts |-> 0, due |-> 0, lease |-> 0,
                  owner |-> NoWorker, token |-> 0, error |-> "none", created |-> 0]
  BY DEF NoJob
<1>2. 0 \in 0..MaxAttempts
  BY TimingAssumption
<1>3. NoJob \in JobRow
  BY <1>1, <1>2 DEF JobRow, JobStatus, LastError
<1>4. /\ [NoJob EXCEPT !.status = "queued", !.created = at].status = "queued"
      /\ [NoJob EXCEPT !.status = "queued", !.created = at].attempts = 0
      /\ [NoJob EXCEPT !.status = "queued", !.created = at].due = 0
  BY <1>1, <1>3 DEF JobRow
<1>5. [NoJob EXCEPT !.status = "queued", !.created = at] \in JobRow
  BY <1>3 DEF JobRow, JobStatus, LastError
<1> QED
  BY <1>4, <1>5 DEF NewJob

LEMMA UnleasedRow ==
  ASSUME NEW row \in JobRow, NEW st \in JobStatus
  PROVE  /\ Unleased(row, st) \in JobRow
         /\ Unleased(row, st).status = st
         /\ Unleased(row, st).attempts = row.attempts
         /\ Unleased(row, st).due = row.due
         /\ Unleased(row, st).error = row.error
<1> DEFINE r1 == [row EXCEPT !.status = st]
           r2 == [r1 EXCEPT !.lease = 0]
           r3 == [r2 EXCEPT !.owner = NoWorker]
           r4 == [r3 EXCEPT !.token = 0]
<1> HIDE DEF r1, r2, r3, r4
<1>1. r1 \in JobRow
  BY DEF JobRow, r1
<1>2. r2 \in JobRow
  BY <1>1 DEF JobRow, r2
<1>3. r3 \in JobRow
  BY <1>2 DEF JobRow, r3
<1>0. 0 \in 0..MaxAttempts
  BY TimingAssumption
<1>4. r4 \in JobRow
  BY <1>0, <1>3 DEF JobRow, r4
<1>5. r4 = Unleased(row, st)
  BY DEF Unleased, JobRow, r1, r2, r3, r4
<1> QED
  BY <1>4, <1>5 DEF Unleased, JobRow

LEMMA SweptRow ==
  ASSUME NEW row \in JobRow
  PROVE  /\ Swept(row) \in JobRow
         /\ Swept(row).attempts = row.attempts /\ Swept(row).due = row.due
         /\ ~Expired(row) => Swept(row) = row
         /\ Expired(row) /\ row.attempts >= MaxAttempts =>
              Swept(row).status = "dead_letter" /\ Swept(row).error = "expired"
         /\ Expired(row) /\ ~(row.attempts >= MaxAttempts) =>
              Swept(row).status = "queued"
<1> DEFINE dead == Unleased(row, "dead_letter")
<1>1. dead \in JobRow /\ dead.attempts = row.attempts /\ dead.due = row.due
      /\ dead.status = "dead_letter"
  BY UnleasedRow DEF JobStatus
<1> HIDE DEF dead
<1>2. /\ [dead EXCEPT !.error = "expired"] \in JobRow
      /\ [dead EXCEPT !.error = "expired"].attempts = row.attempts
      /\ [dead EXCEPT !.error = "expired"].due = row.due
      /\ [dead EXCEPT !.error = "expired"].status = "dead_letter"
      /\ [dead EXCEPT !.error = "expired"].error = "expired"
  BY <1>1 DEF JobRow, LastError
<1>3. /\ Unleased(row, "queued") \in JobRow
      /\ Unleased(row, "queued").attempts = row.attempts
      /\ Unleased(row, "queued").due = row.due
      /\ Unleased(row, "queued").status = "queued"
  BY UnleasedRow DEF JobStatus
<1> QED
  BY <1>2, <1>3 DEF Swept, dead

LEMMA LeasedRow ==
  ASSUME NEW row \in JobRow, row.attempts < MaxAttempts, NEW w \in Worker
  PROVE  /\ Leased(row, w) \in JobRow
         /\ Leased(row, w).status = "running"
         /\ Leased(row, w).attempts = row.attempts + 1
         /\ Leased(row, w).token = row.attempts + 1
         /\ Leased(row, w).owner = w
         /\ Leased(row, w).lease = Lease
         /\ Leased(row, w).due = row.due
<1>1. row.attempts + 1 \in 0..MaxAttempts /\ Lease \in Int
  BY TimingAssumption DEF JobRow
<1>2. Leased(row, w) \in JobRow
  BY <1>1 DEF Leased, JobRow, JobStatus, LastError
<1> QED
  BY <1>1, <1>2 DEF Leased, JobRow

-----------------------------------------------------------------------------
(* Preservation of IInv, one lemma per action *)

LEMMA InitIInv == Init => IInv
<1> SUFFICES ASSUME Init PROVE IInv
  OBVIOUS
<1>1. NoJob \in JobRow
  <2>1. 0 \in 0..MaxAttempts
    BY TimingAssumption
  <2> QED
    BY <2>1 DEF NoJob, JobRow, JobStatus, LastError
<1>2. NotHolding("down") \in Holder
  <2>1. 0 \in 0..MaxAttempts
    BY TimingAssumption
  <2> QED
    BY <2>1 DEF NotHolding, Holder
<1>3. TypeOK
  BY <1>1, <1>2 DEF Init, TypeOK, EventStatus, RegistryStatus
<1>4. \A w \in Worker : held[w].phase = "down"
  BY DEF Init, NotHolding
<1>5. \A k \in Key : jobs[k].status = "absent" /\ jobs[k].attempts = 0
  BY DEF Init, NoJob
<1> QED
  BY <1>3, <1>4, <1>5 DEF IInv, HoldersNameJobs, RowsFitStatus, QueuedHasAttemptsLeft,
     TimelyHolderKeepsLease, EventTellsOutcome, Init, Settled, Key, Delivery

\* A new row is queued and unattempted, and no worker held a lease on it.
LEMMA FileIInv ==
  ASSUME IInv, NEW k \in Key, jobs[k].status = "absent", File(k),
         UNCHANGED <<held, registry>>,
         events' \in [Delivery -> EventStatus],
         \A d \in Actionable : d # k => events'[d] = events[d],
         k \in Actionable => events'[k] = "queued"
  PROVE  IInv'
<1>1. second' \in Nat
  BY DEF IInv, TypeOK, File
<1>2. /\ jobs' = [jobs EXCEPT ![k] = NewJob(second')]
      /\ NewJob(second') \in JobRow
      /\ NewJob(second').status = "queued" /\ NewJob(second').attempts = 0
  BY <1>1, NewJobRow DEF File
<1>3. TypeOK'
  BY <1>1, <1>2 DEF IInv, TypeOK
<1>4. \A j \in Key : j # k => jobs'[j] = jobs[j]
  BY <1>2 DEF IInv, TypeOK
<1>5. jobs'[k].status = "queued" /\ jobs'[k].attempts = 0
  BY <1>2 DEF IInv, TypeOK
<1>6. (HoldersNameJobs /\ RowsFitStatus /\ QueuedHasAttemptsLeft)'
  BY <1>4, <1>5, TimingAssumption
  DEF IInv, HoldersNameJobs, RowsFitStatus, QueuedHasAttemptsLeft, Settled
<1>7. TimelyHolderKeepsLease'
  BY <1>4, <1>5 DEF IInv, HoldersNameJobs, TimelyHolderKeepsLease, Fenced
<1>8. EventTellsOutcome'
  BY <1>4, <1>5 DEF IInv, EventTellsOutcome, Key
<1> QED
  BY <1>3, <1>6, <1>7, <1>8 DEF IInv

LEMMA IngestActionableIInv ==
  ASSUME IInv, NEW d \in Actionable, IngestActionable(d)
  PROVE  IInv'
<1>1. jobs[d].status = "absent"
  BY DEF IngestActionable, IsNewDelivery, IInv, EventTellsOutcome
<1>2. events' \in [Delivery -> EventStatus]
  BY DEF IngestActionable, IInv, TypeOK, EventStatus
<1>3. /\ \A e \in Actionable : e # d => events'[e] = events[e]
      /\ events'[d] = "queued"
  BY DEF IngestActionable, IInv, TypeOK, Delivery
<1> QED
  BY <1>1, <1>2, <1>3, FileIInv DEF IngestActionable, Key

LEMMA EnqueueIInv ==
  ASSUME IInv, NEW k \in Internal, Enqueue(k)
  PROVE  IInv'
<1>1. k \in Key /\ k \notin Actionable
  BY KeysAssumption DEF Key
<1>2. events' \in [Delivery -> EventStatus]
  BY DEF Enqueue, IInv, TypeOK
<1> QED
  BY <1>1, <1>2, FileIInv DEF Enqueue, IsNewKey

LEMMA IngestIgnorableIInv ==
  ASSUME IInv, NEW d \in Ignorable, IngestIgnorable(d)
  PROVE  IInv'
<1>1. \A e \in Actionable : events'[e] = events[e]
  BY KeysAssumption DEF IngestIgnorable, IInv, TypeOK, Delivery
<1>2. TypeOK'
  BY DEF IngestIgnorable, IInv, TypeOK, EventStatus
<1> QED
  BY <1>1, <1>2 DEF IngestIgnorable, IInv, HoldersNameJobs, RowsFitStatus,
     QueuedHasAttemptsLeft, TimelyHolderKeepsLease, EventTellsOutcome, Fenced

LEMMA NotHoldingHolder ==
  ASSUME NEW phase \in {"down", "idle"}
  PROVE  NotHolding(phase) \in Holder /\ NotHolding(phase).phase = phase
<1>1. 0 \in 0..MaxAttempts
  BY TimingAssumption
<1> QED
  BY <1>1 DEF NotHolding, Holder

\* A worker that lets go of its job, with the tables as they were.
LEMMA LetGoIInv ==
  ASSUME IInv, NEW w \in Worker, NEW phase \in {"down", "idle"},
         held' = [held EXCEPT ![w] = NotHolding(phase)],
         registry' \in [Worker -> RegistryStatus],
         UNCHANGED <<events, jobs, second>>
  PROVE  IInv'
<1>1. TypeOK'
  BY NotHoldingHolder DEF IInv, TypeOK
<1>2. /\ \A v \in Worker : v # w => held'[v] = held[v]
      /\ held'[w].phase # "handling"
  BY NotHoldingHolder DEF IInv, TypeOK
<1>3. (HoldersNameJobs /\ TimelyHolderKeepsLease)'
  BY <1>2 DEF IInv, HoldersNameJobs, TimelyHolderKeepsLease, Fenced
<1>4. (RowsFitStatus /\ QueuedHasAttemptsLeft /\ EventTellsOutcome)'
  BY DEF IInv, RowsFitStatus, QueuedHasAttemptsLeft, EventTellsOutcome
<1> QED
  BY <1>1, <1>3, <1>4 DEF IInv

LEMMA LoseLeaseIInv ==
  ASSUME IInv, NEW w \in Worker, LoseLease(w)
  PROVE  IInv'
<1>1. registry' \in [Worker -> RegistryStatus]
  BY DEF LoseLease, HandlerEnds, IInv, TypeOK, RegistryStatus
<1> QED
  BY <1>1, LetGoIInv DEF LoseLease, HandlerEnds

LEMMA ProcessIInv ==
  ASSUME IInv, NEW w \in Worker, Start(w) \/ Stop(w) \/ Crash(w)
  PROVE  IInv'
<1>1. registry' \in [Worker -> RegistryStatus]
  BY DEF Start, Stop, Crash, IInv, TypeOK, RegistryStatus
<1> QED
  BY <1>1, LetGoIInv DEF Start, Stop, Crash

\* The holder of the lease writes the row: complete() and fail().
LEMMA SettleIInv ==
  ASSUME IInv, NEW w \in Worker, HandlerEnds(w), Fenced(w),
         NEW row \in JobRow,
         row.status \in {"queued", "completed", "dead_letter"},
         row.attempts = jobs[held[w].job].attempts,
         row.status = "queued" => row.attempts < MaxAttempts,
         row.status # "queued" => row.due = 0,
         jobs' = [jobs EXCEPT ![held[w].job] = row],
         NEW status \in {"processed", "failed", "retrying"},
         status = "processed" <=> row.status = "completed",
         status = "failed" <=> row.status = "dead_letter",
         events' = SetEvent(held[w].job, status)
  PROVE  IInv'
<1> DEFINE k == held[w].job
<1>1. k \in Key /\ jobs[k].status = "running" /\ jobs[k].owner = w
  BY DEF HandlerEnds, IInv, HoldersNameJobs, Fenced
<1> HIDE DEF k
<1>2. jobs'[k] = row /\ \A j \in Key : j # k => jobs'[j] = jobs[j]
  BY <1>1 DEF IInv, TypeOK, k
<1>3. /\ \A v \in Worker : v # w => held'[v] = held[v]
      /\ held'[w].phase # "handling"
  BY NotHoldingHolder DEF HandlerEnds, IInv, TypeOK
<1>4. /\ events' \in [Delivery -> EventStatus]
      /\ \A d \in Actionable : events'[d] = IF d = k THEN status ELSE events[d]
  BY DEF SetEvent, k, IInv, TypeOK, EventStatus, Delivery
<1>5. TypeOK'
  <2>1. jobs' \in [Key -> JobRow]
    BY <1>1 DEF IInv, TypeOK, k
  <2>2. held' \in [Worker -> Holder] /\ registry' \in [Worker -> RegistryStatus]
    BY NotHoldingHolder DEF HandlerEnds, IInv, TypeOK, RegistryStatus
  <2> QED
    BY <2>1, <2>2, <1>4 DEF HandlerEnds, IInv, TypeOK
<1>6. HoldersNameJobs'
  BY <1>3 DEF IInv, HoldersNameJobs
<1>7. RowsFitStatus' /\ QueuedHasAttemptsLeft'
  BY <1>2 DEF IInv, RowsFitStatus, QueuedHasAttemptsLeft, Settled
<1>8. TimelyHolderKeepsLease'
  BY <1>1, <1>2, <1>3 DEF IInv, HoldersNameJobs, TimelyHolderKeepsLease, Fenced
<1>9. EventTellsOutcome'
  <2> SUFFICES ASSUME NEW d \in Actionable
               PROVE  /\ events'[d] = "absent" <=> jobs'[d].status = "absent"
                      /\ events'[d] = "processed" <=> jobs'[d].status = "completed"
                      /\ events'[d] = "failed" <=> jobs'[d].status = "dead_letter"
    BY DEF EventTellsOutcome
  <2>1. CASE d = k
    BY <2>1, <1>2, <1>4
  <2>2. CASE d # k
    BY <2>2, <1>2, <1>4 DEF IInv, EventTellsOutcome, Key
  <2> QED
    BY <2>1, <2>2
<1> QED
  BY <1>5, <1>6, <1>7, <1>8, <1>9 DEF IInv

LEMMA CompleteIInv ==
  ASSUME IInv, NEW w \in Worker, Complete(w)
  PROVE  IInv'
<1> DEFINE row == Unleased(jobs[held[w].job], "completed")
<1>1. held[w].job \in Key /\ jobs[held[w].job] \in JobRow
      /\ jobs[held[w].job].status = "running"
  BY DEF Complete, HandlerEnds, Fenced, IInv, HoldersNameJobs, TypeOK
<1>2. row \in JobRow /\ row.status = "completed" /\ row.due = 0
      /\ row.attempts = jobs[held[w].job].attempts
  BY <1>1, UnleasedRow DEF JobStatus, IInv, RowsFitStatus
<1>3. jobs' = [jobs EXCEPT ![held[w].job] = row]
      /\ events' = SetEvent(held[w].job, "processed")
  BY DEF Complete
<1> HIDE DEF row
<1> QED
  BY <1>2, <1>3, SettleIInv DEF Complete

LEMMA FailIInv ==
  ASSUME IInv, NEW w \in Worker, NEW retryable \in BOOLEAN, Fail(w, retryable)
  PROVE  IInv'
<1> DEFINE k == held[w].job
           attempt == held[w].attempt
           st == IF attempt >= MaxAttempts \/ ~retryable THEN "dead_letter" ELSE "queued"
           delay == IF st = "queued" THEN RetryDelay[attempt] ELSE 0
           open == Unleased(jobs[k], st)
           row == [open EXCEPT !.due = delay, !.error = "raised"]
           status == IF st = "dead_letter" THEN "failed" ELSE "retrying"
<1>1. /\ k \in Key /\ jobs[k] \in JobRow /\ attempt \in 1..MaxAttempts
      /\ jobs[k].status = "running" /\ jobs[k].attempts = attempt
  BY DEF Fail, HandlerEnds, Fenced, IInv, HoldersNameJobs, TypeOK, Holder,
     QueuedHasAttemptsLeft
<1>2. st \in {"dead_letter", "queued"} /\ (st = "queued" => attempt < MaxAttempts)
  BY <1>1, TimingAssumption
<1>3. delay \in Nat /\ (st # "queued" => delay = 0)
  BY <1>1, <1>2, TimingAssumption
<1>4. jobs' = [jobs EXCEPT ![k] = row] /\ events' = SetEvent(k, status)
  BY DEF Fail
<1>5. open \in JobRow /\ open.status = st /\ open.attempts = jobs[k].attempts
  BY <1>1, <1>2, UnleasedRow DEF JobStatus
<1>6. /\ status \in {"failed", "retrying"}
      /\ status = "failed" <=> st = "dead_letter"
  BY <1>2
<1> HIDE DEF open, delay, st, k, attempt
<1>7. row \in JobRow /\ row.status = st /\ row.attempts = attempt /\ row.due = delay
  BY <1>1, <1>3, <1>5 DEF JobRow, LastError
<1> HIDE DEF row, status
<1>8. HandlerEnds(w) /\ Fenced(w)
  BY DEF Fail
<1> QED
  BY <1>1, <1>2, <1>3, <1>4, <1>6, <1>7, <1>8, SettleIInv DEF k

LEMMA RenewIInv ==
  ASSUME IInv, NEW w \in Worker, Renew(w)
  PROVE  IInv'
<1> DEFINE k == held[w].job
<1>1. k \in Key /\ jobs[k] \in JobRow /\ held[w] \in Holder
  BY DEF Renew, IInv, HoldersNameJobs, TypeOK
<1>2. registry' \in [Worker -> RegistryStatus] /\ second' \in Nat
      /\ events' = events
  BY DEF Renew, IInv, TypeOK, RegistryStatus
<1>3. CASE /\ Fenced(w)
           /\ jobs' = [jobs EXCEPT ![k] = Renewed(@)]
           /\ held' = [held EXCEPT ![w] = [@ EXCEPT !.beat = Beat, !.renewal = "timely"]]
  <2> DEFINE row == Renewed(jobs[k])
             holder == [held[w] EXCEPT !.beat = Beat, !.renewal = "timely"]
  <2>1. Lease \in Int
    BY TimingAssumption
  <2>2. /\ row \in JobRow /\ row.status = jobs[k].status
        /\ row.attempts = jobs[k].attempts /\ row.due = jobs[k].due
        /\ row.owner = jobs[k].owner /\ row.token = jobs[k].token
        /\ row.lease = Lease
    BY <1>1, <2>1 DEF Renewed, JobRow
  <2>3. /\ holder \in Holder /\ holder.phase = held[w].phase
        /\ holder.job = k /\ holder.attempt = held[w].attempt
        /\ holder.beat = Beat
    BY <1>1, TimingAssumption DEF Holder
  <2>4. jobs' = [jobs EXCEPT ![k] = row] /\ held' = [held EXCEPT ![w] = holder]
    BY <1>3
  <2>5. Fenced(w) /\ held[w].phase = "handling"
    BY <1>3 DEF Renew
  <2> HIDE DEF row, holder
  <2>6. jobs'[k] = row /\ \A j \in Key : j # k => jobs'[j] = jobs[j]
    BY <1>1, <2>4 DEF IInv, TypeOK
  <2>7. held'[w] = holder /\ \A v \in Worker : v # w => held'[v] = held[v]
    BY <2>4 DEF IInv, TypeOK
  <2>8. TypeOK'
    BY <1>1, <1>2, <2>2, <2>3, <2>4 DEF IInv, TypeOK
  <2>9. (HoldersNameJobs /\ RowsFitStatus /\ QueuedHasAttemptsLeft)'
    BY <1>1, <2>2, <2>3, <2>6, <2>7
    DEF IInv, HoldersNameJobs, RowsFitStatus, QueuedHasAttemptsLeft
  <2>10. TimelyHolderKeepsLease'
    <3> SUFFICES ASSUME NEW v \in Worker,
                        held'[v].phase = "handling", held'[v].renewal = "timely"
                 PROVE  Fenced(v)' /\ jobs'[held'[v].job].lease >= held'[v].beat
      BY DEF TimelyHolderKeepsLease
    <3>1. CASE v = w
      BY <3>1, <2>2, <2>3, <2>5, <2>6, <2>7, TimingAssumption DEF Fenced
    <3>2. CASE v # w
      <4>1. held'[v] = held[v] /\ held[v].job # k
        BY <3>2, <2>5, <2>7 DEF Fenced, IInv, TimelyHolderKeepsLease
      <4> QED
        BY <4>1, <2>6 DEF Fenced, IInv, TimelyHolderKeepsLease, HoldersNameJobs
    <3> QED
      BY <3>1, <3>2
  <2>11. EventTellsOutcome'
    BY <1>2, <2>2, <2>6 DEF IInv, EventTellsOutcome, Key
  <2> QED
    BY <2>8, <2>9, <2>10, <2>11 DEF IInv
<1>4. CASE /\ jobs' = jobs
           /\ held' = [held EXCEPT ![w] = [@ EXCEPT !.renewal = "ended"]]
  <2>1. [held[w] EXCEPT !.renewal = "ended"] \in Holder
    BY <1>1 DEF Holder
  <2>2. TypeOK'
    BY <1>2, <1>4, <2>1 DEF IInv, TypeOK
  <2>3. /\ held'[w].renewal = "ended" /\ held'[w].job = held[w].job
        /\ held'[w].attempt = held[w].attempt
        /\ held'[w].phase = held[w].phase
    BY <1>1, <1>4 DEF Holder, IInv, TypeOK
  <2>4. \A v \in Worker : v # w => held'[v] = held[v]
    BY <1>4 DEF IInv, TypeOK
  <2> QED
    BY <1>2, <1>4, <2>2, <2>3, <2>4 DEF IInv, HoldersNameJobs, RowsFitStatus,
       QueuedHasAttemptsLeft, TimelyHolderKeepsLease, EventTellsOutcome, Fenced
<1> QED
  BY <1>3, <1>4 DEF Renew

LEMMA StallIInv ==
  ASSUME IInv, NEW w \in Worker, Stall(w)
  PROVE  IInv'
<1>1. held[w] \in Holder
  BY DEF IInv, TypeOK
<1>2. [held[w] EXCEPT !.renewal = "late"] \in Holder
  BY <1>1 DEF Holder
<1>3. TypeOK'
  BY <1>2 DEF Stall, IInv, TypeOK
<1>4. /\ held'[w].renewal = "late" /\ held'[w].job = held[w].job
      /\ held'[w].attempt = held[w].attempt /\ held'[w].phase = held[w].phase
  BY <1>1 DEF Stall, Holder, IInv, TypeOK
<1>5. \A v \in Worker : v # w => held'[v] = held[v]
  BY DEF Stall, IInv, TypeOK
<1> QED
  BY <1>3, <1>4, <1>5 DEF Stall, IInv, HoldersNameJobs, RowsFitStatus,
     QueuedHasAttemptsLeft, TimelyHolderKeepsLease, EventTellsOutcome, Fenced

\* What a tick does to a row and to a holder.
LEMMA TickRow ==
  ASSUME IInv, Tick, NEW k \in Key
  PROVE  /\ jobs'[k] \in JobRow
         /\ jobs'[k].status = jobs[k].status /\ jobs'[k].attempts = jobs[k].attempts
         /\ jobs'[k].owner = jobs[k].owner /\ jobs'[k].token = jobs[k].token
         /\ jobs[k].due = 0 => jobs'[k].due = 0
         /\ jobs[k].status = "running" => jobs'[k].lease = CountDown(jobs[k].lease, -1)
         /\ jobs[k].due = 0 /\ jobs[k].status # "running" => jobs'[k] = jobs[k]
<1> DEFINE due == CountDown(jobs[k].due, 0)
           left == IF jobs[k].status = "running"
                   THEN CountDown(jobs[k].lease, -1) ELSE jobs[k].lease
<1>1. jobs[k] \in JobRow
  BY DEF IInv, TypeOK
<1>2. due \in Nat /\ left \in Int
  BY <1>1 DEF JobRow, CountDown
<1>3. jobs[k].due = 0 => due = 0
  BY DEF CountDown
<1>4. jobs'[k] = [jobs[k] EXCEPT !.due = due, !.lease = left]
  BY DEF Tick
<1>5. jobs[k].status = "running" => left = CountDown(jobs[k].lease, -1)
  OBVIOUS
<1>6. jobs[k].status # "running" => left = jobs[k].lease
  OBVIOUS
<1> HIDE DEF due, left
<1> QED
  BY <1>1, <1>2, <1>3, <1>4, <1>5, <1>6 DEF JobRow

LEMMA TickHolder ==
  ASSUME IInv, Tick, NEW w \in Worker
  PROVE  /\ held'[w] \in Holder
         /\ held'[w].phase = held[w].phase /\ held'[w].job = held[w].job
         /\ held'[w].attempt = held[w].attempt /\ held'[w].renewal = held[w].renewal
         /\ held'[w].beat = CountDown(held[w].beat, 0)
<1> DEFINE beat == CountDown(held[w].beat, 0)
<1>1. held[w] \in Holder
  BY DEF IInv, TypeOK
<1>2. beat \in Nat
  BY <1>1 DEF Holder, CountDown
<1>3. held'[w] = [held[w] EXCEPT !.beat = beat]
  BY DEF Tick
<1> HIDE DEF beat
<1>4. /\ held'[w] \in Holder
      /\ held'[w].phase = held[w].phase /\ held'[w].job = held[w].job
      /\ held'[w].attempt = held[w].attempt /\ held'[w].renewal = held[w].renewal
      /\ held'[w].beat = beat
  BY <1>1, <1>2, <1>3 DEF Holder
<1> QED
  BY <1>4 DEF beat

LEMMA TickIInv ==
  ASSUME IInv, Tick
  PROVE  IInv'
<1>1. TypeOK'
  <2>1. jobs' \in [Key -> JobRow]
    BY TickRow DEF Tick
  <2>2. held' \in [Worker -> Holder]
    BY TickHolder DEF Tick
  <2> QED
    BY <2>1, <2>2 DEF Tick, IInv, TypeOK
<1>2. (HoldersNameJobs /\ RowsFitStatus /\ QueuedHasAttemptsLeft)'
  BY TickRow, TickHolder
  DEF IInv, HoldersNameJobs, RowsFitStatus, QueuedHasAttemptsLeft
<1>3. TimelyHolderKeepsLease'
  <2> SUFFICES ASSUME NEW w \in Worker,
                      held'[w].phase = "handling", held'[w].renewal = "timely"
               PROVE  Fenced(w)' /\ jobs'[held'[w].job].lease >= held'[w].beat
    BY DEF TimelyHolderKeepsLease
  <2> DEFINE k == held[w].job
  <2>1. /\ held'[w].job = k /\ held'[w].attempt = held[w].attempt
        /\ held[w].phase = "handling" /\ held[w].renewal = "timely"
        /\ held'[w].beat = CountDown(held[w].beat, 0)
    BY TickHolder
  <2>2. k \in Key /\ held[w].beat # 0 /\ Fenced(w) /\ jobs[k].lease >= held[w].beat
    BY <2>1 DEF Tick, IInv, HoldersNameJobs, TimelyHolderKeepsLease
  <2>3. jobs'[k].lease = CountDown(jobs[k].lease, -1) /\ Fenced(w)'
    BY <2>1, <2>2, TickRow DEF Fenced
  <2>4. jobs[k].lease \in Int /\ held[w].beat \in Nat
    BY <2>2 DEF IInv, TypeOK, JobRow, Holder
  <2> QED
    BY <2>1, <2>2, <2>3, <2>4 DEF CountDown
<1>4. EventTellsOutcome'
  <2>1. events' = events /\ \A k \in Key : jobs'[k].status = jobs[k].status
    BY TickRow DEF Tick
  <2> QED
    BY <2>1 DEF IInv, EventTellsOutcome, Key
<1> QED
  BY <1>1, <1>2, <1>3, <1>4 DEF IInv

\* What recovering the expired leases does to the tables.
LEMMA SweptTables ==
  ASSUME IInv
  PROVE  /\ \A k \in Key :
              /\ SweptJobs[k] \in JobRow
              /\ SweptJobs[k].attempts = jobs[k].attempts
              /\ SweptJobs[k].due = jobs[k].due
              /\ ~Expired(jobs[k]) => SweptJobs[k] = jobs[k]
              /\ Expired(jobs[k]) =>
                   /\ jobs[k].status = "running" /\ jobs[k].attempts > 0
                   /\ \/ /\ SweptJobs[k].status = "dead_letter"
                         /\ SweptJobs[k].error = "expired"
                      \/ /\ SweptJobs[k].status = "queued"
                         /\ jobs[k].attempts < MaxAttempts
         /\ SweptEvents(SweptJobs) \in [Delivery -> EventStatus]
         /\ \A d \in Actionable :
              /\ SweptEvents(SweptJobs)[d] = "absent" <=> SweptJobs[d].status = "absent"
              /\ SweptEvents(SweptJobs)[d] = "processed"
                   <=> SweptJobs[d].status = "completed"
              /\ SweptEvents(SweptJobs)[d] = "failed"
                   <=> SweptJobs[d].status = "dead_letter"
<1>1. \A k \in Key :
        /\ SweptJobs[k] \in JobRow
        /\ SweptJobs[k].attempts = jobs[k].attempts
        /\ SweptJobs[k].due = jobs[k].due
        /\ ~Expired(jobs[k]) => SweptJobs[k] = jobs[k]
        /\ Expired(jobs[k]) =>
             /\ jobs[k].status = "running" /\ jobs[k].attempts > 0
             /\ \/ /\ SweptJobs[k].status = "dead_letter"
                   /\ SweptJobs[k].error = "expired"
                \/ /\ SweptJobs[k].status = "queued"
                   /\ jobs[k].attempts < MaxAttempts
  <2> SUFFICES ASSUME NEW k \in Key
               PROVE  /\ SweptJobs[k] \in JobRow
                      /\ SweptJobs[k].attempts = jobs[k].attempts
                      /\ SweptJobs[k].due = jobs[k].due
                      /\ ~Expired(jobs[k]) => SweptJobs[k] = jobs[k]
                      /\ Expired(jobs[k]) =>
                           /\ jobs[k].status = "running" /\ jobs[k].attempts > 0
                           /\ \/ /\ SweptJobs[k].status = "dead_letter"
                                 /\ SweptJobs[k].error = "expired"
                              \/ /\ SweptJobs[k].status = "queued"
                                 /\ jobs[k].attempts < MaxAttempts
    OBVIOUS
  <2>1. jobs[k] \in JobRow /\ SweptJobs[k] = Swept(jobs[k])
    BY DEF IInv, TypeOK, SweptJobs
  <2>2. jobs[k].attempts \in Nat
    BY <2>1 DEF JobRow
  <2>3. Expired(jobs[k]) => jobs[k].status = "running" /\ jobs[k].attempts > 0
    BY DEF Expired, IInv, RowsFitStatus
  <2> QED
    BY <2>1, <2>2, <2>3, SweptRow, TimingAssumption
<1>2. SweptEvents(SweptJobs) \in [Delivery -> EventStatus]
  BY DEF SweptEvents, IInv, TypeOK, EventStatus
<1>3. ASSUME NEW d \in Actionable
      PROVE  /\ SweptEvents(SweptJobs)[d] = "absent" <=> SweptJobs[d].status = "absent"
             /\ SweptEvents(SweptJobs)[d] = "processed"
                  <=> SweptJobs[d].status = "completed"
             /\ SweptEvents(SweptJobs)[d] = "failed"
                  <=> SweptJobs[d].status = "dead_letter"
  <2>1. d \in Key /\ d \in Delivery
    BY DEF Key, Delivery
  <2>2. SweptEvents(SweptJobs)[d] =
          IF SweptJobs[d].status = "dead_letter" /\ SweptJobs[d].error = "expired"
          THEN "failed" ELSE events[d]
    BY <2>1 DEF SweptEvents
  <2>3. CASE Expired(jobs[d])
    BY <1>1, <2>1, <2>2, <2>3 DEF IInv, EventTellsOutcome
  <2>4. CASE ~Expired(jobs[d])
    BY <1>1, <2>1, <2>2, <2>4 DEF IInv, EventTellsOutcome
  <2> QED
    BY <2>3, <2>4
<1> QED
  BY <1>1, <1>2, <1>3

\* The lease of a timely holder is not expired, so recovery leaves it alone.
LEMMA TimelyNotSwept ==
  ASSUME IInv, NEW w \in Worker, held[w].phase = "handling", held[w].renewal = "timely"
  PROVE  /\ held[w].job \in Key /\ Fenced(w)
         /\ SweptJobs[held[w].job] = jobs[held[w].job]
<1>1. held[w].job \in Key /\ Fenced(w)
  BY DEF IInv, HoldersNameJobs, TimelyHolderKeepsLease
<1>2. jobs[held[w].job].lease >= held[w].beat
  BY DEF IInv, TimelyHolderKeepsLease
<1>3. jobs[held[w].job].lease \in Int /\ held[w].beat \in Nat
  BY <1>1 DEF IInv, TypeOK, JobRow, Holder
<1>4. ~Expired(jobs[held[w].job])
  BY <1>2, <1>3 DEF Expired
<1> QED
  BY <1>1, <1>4, SweptTables

LEMMA ClaimNothingIInv ==
  ASSUME IInv, NEW w \in Worker, ClaimNothing(w)
  PROVE  IInv'
<1>1. /\ jobs' = SweptJobs /\ events' = SweptEvents(SweptJobs)
      /\ held' = held /\ second' = second
      /\ registry' \in [Worker -> RegistryStatus]
  BY DEF ClaimNothing, IInv, TypeOK, RegistryStatus
<1>2. SweptJobs \in [Key -> JobRow]
  BY SweptTables DEF SweptJobs
<1>3. TypeOK'
  BY <1>1, <1>2, SweptTables DEF IInv, TypeOK
<1>4. (HoldersNameJobs /\ RowsFitStatus /\ QueuedHasAttemptsLeft)'
  BY <1>1, SweptTables
  DEF IInv, HoldersNameJobs, RowsFitStatus, QueuedHasAttemptsLeft, Settled
<1>5. TimelyHolderKeepsLease'
  BY <1>1, TimelyNotSwept DEF IInv, TimelyHolderKeepsLease, Fenced
<1>6. EventTellsOutcome'
  BY <1>1, SweptTables DEF EventTellsOutcome
<1> QED
  BY <1>3, <1>4, <1>5, <1>6 DEF IInv

LEMMA ClaimIInv ==
  ASSUME IInv, NEW w \in Worker, Claim(w)
  PROVE  IInv'
<1>1. PICK k \in Key :
        /\ ComesFirst(k, SweptJobs)
        /\ jobs' = [SweptJobs EXCEPT ![k] = Leased(SweptJobs[k], w)]
        /\ held' = [held EXCEPT ![w] =
                      [phase |-> "handling", job |-> k,
                       attempt |-> SweptJobs[k].attempts + 1,
                       beat |-> Beat, renewal |-> "timely"]]
  BY DEF Claim
<1> DEFINE row == Leased(SweptJobs[k], w)
           attempt == SweptJobs[k].attempts + 1
           holder == [phase |-> "handling", job |-> k, attempt |-> attempt,
                      beat |-> Beat, renewal |-> "timely"]
<1>2. SweptJobs[k].status = "queued" /\ SweptJobs[k].due = 0
      /\ SweptJobs[k] \in JobRow /\ SweptJobs[k].attempts \in Nat
  <2>1. k \in Claimable(SweptJobs)
    BY <1>1 DEF ComesFirst
  <2>2. SweptJobs[k] \in JobRow
    BY SweptTables
  <2> QED
    BY <2>1, <2>2 DEF Claimable, JobRow
<1>3. SweptJobs[k].attempts < MaxAttempts
  BY <1>2, SweptTables DEF IInv, QueuedHasAttemptsLeft
<1>4. attempt \in 1..MaxAttempts
  BY <1>2, <1>3, TimingAssumption
<1>5. /\ row \in JobRow /\ row.status = "running" /\ row.attempts = attempt
      /\ row.token = attempt /\ row.owner = w /\ row.lease = Lease /\ row.due = 0
  BY <1>2, <1>3, LeasedRow
<1> HIDE DEF row, attempt
<1>6. holder \in Holder
  BY <1>4, TimingAssumption DEF Holder
<1>7. /\ holder.phase = "handling" /\ holder.job = k /\ holder.attempt = attempt
      /\ holder.beat = Beat
  OBVIOUS
<1>8. jobs' = [SweptJobs EXCEPT ![k] = row] /\ held' = [held EXCEPT ![w] = holder]
  BY <1>1 DEF row, attempt
<1> HIDE DEF holder
<1>9. /\ events' = SweptEvents(SweptJobs) /\ second' = second
      /\ registry' \in [Worker -> RegistryStatus]
  BY DEF Claim, IInv, TypeOK, RegistryStatus
<1>10. SweptJobs \in [Key -> JobRow]
  BY SweptTables DEF SweptJobs
<1>11. jobs'[k] = row /\ \A j \in Key : j # k => jobs'[j] = SweptJobs[j]
  BY <1>8, <1>10
<1>12. held'[w] = holder /\ \A v \in Worker : v # w => held'[v] = held[v]
  BY <1>8 DEF IInv, TypeOK
<1>13. TypeOK'
  BY <1>5, <1>6, <1>8, <1>9, <1>10, SweptTables DEF IInv, TypeOK
<1>14. HoldersNameJobs'
  BY <1>4, <1>7, <1>12 DEF IInv, HoldersNameJobs
<1>15. (RowsFitStatus /\ QueuedHasAttemptsLeft)'
  BY <1>4, <1>5, <1>11, SweptTables
  DEF IInv, RowsFitStatus, QueuedHasAttemptsLeft, Settled
<1>16. TimelyHolderKeepsLease'
  <2> SUFFICES ASSUME NEW v \in Worker,
                      held'[v].phase = "handling", held'[v].renewal = "timely"
               PROVE  Fenced(v)' /\ jobs'[held'[v].job].lease >= held'[v].beat
    BY DEF TimelyHolderKeepsLease
  <2>1. CASE v = w
    BY <2>1, <1>5, <1>7, <1>11, <1>12, TimingAssumption DEF Fenced
  <2>2. CASE v # w
    <3>1. held'[v] = held[v] /\ held[v].job \in Key /\ Fenced(v)
          /\ SweptJobs[held[v].job] = jobs[held[v].job]
      BY <2>2, <1>12, TimelyNotSwept
    <3>2. held[v].job # k
      BY <3>1, <1>2 DEF Fenced
    <3> QED
      BY <3>1, <3>2, <1>11 DEF Fenced, IInv, TimelyHolderKeepsLease
  <2> QED
    BY <2>1, <2>2
<1>17. EventTellsOutcome'
  <2> SUFFICES ASSUME NEW d \in Actionable
               PROVE  /\ events'[d] = "absent" <=> jobs'[d].status = "absent"
                      /\ events'[d] = "processed" <=> jobs'[d].status = "completed"
                      /\ events'[d] = "failed" <=> jobs'[d].status = "dead_letter"
    BY DEF EventTellsOutcome
  <2>1. CASE d = k
    BY <2>1, <1>2, <1>5, <1>9, <1>11, SweptTables
  <2>2. CASE d # k
    BY <2>2, <1>9, <1>11, SweptTables DEF Key
  <2> QED
    BY <2>1, <2>2
<1> QED
  BY <1>13, <1>14, <1>15, <1>16, <1>17 DEF IInv

-----------------------------------------------------------------------------
(* IInv is inductive *)

LEMMA NextIInv ==
  ASSUME IInv, [Next]_vars
  PROVE  IInv'
<1>1. CASE \E d \in Actionable : IngestActionable(d)
  BY <1>1, IngestActionableIInv
<1>2. CASE \E d \in Ignorable : IngestIgnorable(d)
  BY <1>2, IngestIgnorableIInv
<1>3. CASE \E k \in Internal : Enqueue(k)
  BY <1>3, EnqueueIInv
<1>4. CASE \E w \in Worker : WorkerStep(w)
  <2> SUFFICES ASSUME NEW w \in Worker, WorkerStep(w) PROVE IInv'
    BY <1>4
  <2>1. CASE Claim(w) \/ ClaimNothing(w)
    BY <2>1, ClaimIInv, ClaimNothingIInv
  <2>2. CASE Renew(w) \/ Stall(w)
    BY <2>2, RenewIInv, StallIInv
  <2>3. CASE RunOnceEnds(w)
    BY <2>3, CompleteIInv, FailIInv, LoseLeaseIInv DEF RunOnceEnds
  <2>4. CASE Start(w) \/ Stop(w) \/ Crash(w)
    BY <2>4, ProcessIInv
  <2> QED
    BY <2>1, <2>2, <2>3, <2>4 DEF WorkerStep
<1>5. CASE Tick
  BY <1>5, TickIInv
<1>6. CASE UNCHANGED vars
  BY <1>6 DEF vars, IInv, TypeOK, HoldersNameJobs, RowsFitStatus,
     QueuedHasAttemptsLeft, TimelyHolderKeepsLease, EventTellsOutcome, Fenced
<1> QED
  BY <1>1, <1>2, <1>3, <1>4, <1>5, <1>6 DEF Next, Redeliver, EnqueueAgain

LEMMA SpecIInv == Spec => []IInv
<1>1. Init => IInv
  BY InitIInv
<1>2. IInv /\ [Next]_vars => IInv'
  BY NextIInv
<1> QED
  BY <1>1, <1>2, PTL DEF Spec

-----------------------------------------------------------------------------
(* The invariants *)

(* Every table and every worker's memory keeps the columns and values the    *)
(* code gives them, whatever the number of workers, jobs and attempts.       *)
THEOREM TypeCorrect == Spec => []TypeOK
<1>1. IInv => TypeOK
  BY DEF IInv
<1> QED
  BY <1>1, SpecIInv, PTL

(* claim() never takes a job from a worker whose renewal thread beats on     *)
(* time: no two healthy workers ever execute one job.                        *)
THEOREM TimelyHolders == Spec => []TimelyHolderKeepsLease
<1>1. IInv => TimelyHolderKeepsLease
  BY DEF IInv
<1> QED
  BY <1>1, SpecIInv, PTL

(* No path through claim(), fail() and lease recovery requeues a job that    *)
(* has used its max_attempts.                                                *)
THEOREM QueuedJobsMayRun == Spec => []QueuedHasAttemptsLeft
<1>1. IInv => QueuedHasAttemptsLeft
  BY DEF IInv
<1> QED
  BY <1>1, SpecIInv, PTL

(* The events table and the jobs table agree on the outcome of every         *)
(* delivery in every state between two transactions.                         *)
THEOREM EventsAgree == Spec => []EventTellsOutcome
<1>1. IInv => EventTellsOutcome
  BY DEF IInv
<1> QED
  BY <1>1, SpecIInv, PTL

-----------------------------------------------------------------------------
(* What one step of the system can do to one row *)

ReportedByHolder(k) ==
  \E w \in Worker :
    /\ w = jobs[k].owner
    /\ held[w].job = k /\ held[w].attempt = jobs[k].token
    /\ held[w].phase = "handling" /\ held'[w].phase = "idle"

Kept(k) ==
  /\ jobs'[k].status = jobs[k].status /\ jobs'[k].attempts = jobs[k].attempts
  /\ jobs'[k].token = jobs[k].token
  /\ jobs[k].status \in Settled => jobs'[k] = jobs[k]
Filed(k) ==
  /\ jobs[k].status = "absent" /\ jobs'[k].status = "queued"
  /\ jobs'[k].attempts = 0
Recovered(k) ==
  /\ Expired(jobs[k]) /\ jobs'[k].status \in {"queued", "dead_letter"}
  /\ jobs'[k].attempts = jobs[k].attempts
Taken(k) ==
  /\ jobs[k].status = "queued" \/ Expired(jobs[k])
  /\ jobs[k].attempts < MaxAttempts
  /\ jobs'[k].status = "running" /\ jobs'[k].attempts = jobs[k].attempts + 1
Reported(k) ==
  /\ jobs[k].status = "running" /\ ReportedByHolder(k)
  /\ jobs'[k].status \in {"queued"} \cup Settled
  /\ jobs'[k].attempts = jobs[k].attempts

RowStep(k) == Kept(k) \/ Filed(k) \/ Recovered(k) \/ Taken(k) \/ Reported(k)

LEMMA UnchangedRow ==
  ASSUME NEW k \in Key, jobs'[k] = jobs[k]
  PROVE  Kept(k)
BY DEF Kept

LEMMA FileRowStep ==
  ASSUME IInv, NEW j \in Key, jobs[j].status = "absent", File(j), NEW k \in Key
  PROVE  RowStep(k)
<1>1. second' \in Nat
  BY DEF IInv, TypeOK, File
<1>2. CASE k = j
  <2>1. jobs'[k] = NewJob(second')
    BY <1>2 DEF File, IInv, TypeOK
  <2> QED
    BY <1>1, <1>2, <2>1, NewJobRow DEF RowStep, Filed
<1>3. CASE k # j
  BY <1>3, UnchangedRow DEF File, IInv, TypeOK, RowStep
<1> QED
  BY <1>2, <1>3

LEMMA SweptRowStep ==
  ASSUME IInv, NEW k \in Key, jobs'[k] = SweptJobs[k]
  PROVE  RowStep(k)
<1>1. CASE Expired(jobs[k])
  BY <1>1, SweptTables DEF RowStep, Recovered
<1>2. CASE ~Expired(jobs[k])
  BY <1>2, SweptTables, UnchangedRow DEF RowStep
<1> QED
  BY <1>1, <1>2

LEMMA ClaimRowStep ==
  ASSUME IInv, NEW w \in Worker, Claim(w), NEW k \in Key
  PROVE  RowStep(k)
<1>1. PICK j \in Key :
        /\ ComesFirst(j, SweptJobs)
        /\ jobs' = [SweptJobs EXCEPT ![j] = Leased(SweptJobs[j], w)]
  BY DEF Claim
<1>2. SweptJobs \in [Key -> JobRow]
  BY SweptTables DEF SweptJobs
<1>3. CASE k = j
  <2>1. /\ SweptJobs[k].status = "queued" /\ SweptJobs[k] \in JobRow
        /\ jobs'[k] = Leased(SweptJobs[k], w)
    BY <1>1, <1>2, <1>3 DEF ComesFirst, Claimable
  <2>2. /\ jobs[k].attempts < MaxAttempts
        /\ SweptJobs[k].attempts = jobs[k].attempts
        /\ jobs[k].status = "queued" \/ Expired(jobs[k])
    BY <2>1, SweptTables DEF IInv, QueuedHasAttemptsLeft
  <2> QED
    BY <2>1, <2>2, LeasedRow DEF RowStep, Taken
<1>4. CASE k # j
  BY <1>1, <1>2, <1>4, SweptRowStep
<1> QED
  BY <1>3, <1>4

LEMMA RenewRowStep ==
  ASSUME IInv, NEW w \in Worker, Renew(w), NEW k \in Key
  PROVE  RowStep(k)
<1>1. CASE jobs' = jobs
  BY <1>1, UnchangedRow DEF RowStep
<1>2. CASE Fenced(w) /\ jobs' = [jobs EXCEPT ![held[w].job] = Renewed(@)]
  <2>1. CASE k = held[w].job
    <3>1. jobs[k] \in JobRow /\ jobs'[k] = [jobs[k] EXCEPT !.lease = Lease]
          /\ jobs[k].status = "running"
      BY <1>2, <2>1 DEF IInv, TypeOK, Renewed, Fenced
    <3>2. Kept(k)
      BY <3>1 DEF Kept, JobRow, Settled
    <3> QED
      BY <3>2 DEF RowStep
  <2>2. CASE k # held[w].job
    BY <1>2, <2>2, UnchangedRow DEF RowStep, IInv, TypeOK
  <2> QED
    BY <2>1, <2>2
<1> QED
  BY <1>1, <1>2 DEF Renew

LEMMA ReportRowStep ==
  ASSUME IInv, NEW w \in Worker, HandlerEnds(w), Fenced(w),
         NEW row, row.status \in {"queued"} \cup Settled,
         row.attempts = jobs[held[w].job].attempts,
         jobs' = [jobs EXCEPT ![held[w].job] = row],
         NEW k \in Key
  PROVE  RowStep(k)
<1>1. CASE k = held[w].job
  <2>1. jobs'[k] = row
    BY <1>1 DEF IInv, TypeOK
  <2>2. held'[w].phase = "idle"
    BY NotHoldingHolder DEF HandlerEnds, IInv, TypeOK
  <2>3. ReportedByHolder(k)
    BY <1>1, <2>2 DEF ReportedByHolder, HandlerEnds, Fenced
  <2> QED
    BY <1>1, <2>1, <2>3 DEF RowStep, Reported, Fenced
<1>2. CASE k # held[w].job
  BY <1>2, UnchangedRow DEF RowStep, IInv, TypeOK
<1> QED
  BY <1>1, <1>2

LEMMA CompleteRowStep ==
  ASSUME IInv, NEW w \in Worker, Complete(w), NEW k \in Key
  PROVE  RowStep(k)
<1> DEFINE row == Unleased(jobs[held[w].job], "completed")
<1>1. HandlerEnds(w) /\ Fenced(w) /\ jobs' = [jobs EXCEPT ![held[w].job] = row]
  BY DEF Complete
<1>2. jobs[held[w].job] \in JobRow
  BY <1>1 DEF HandlerEnds, IInv, HoldersNameJobs, TypeOK
<1>3. row.status = "completed" /\ row.attempts = jobs[held[w].job].attempts
  BY <1>2, UnleasedRow DEF JobStatus
<1> HIDE DEF row
<1> QED
  BY <1>1, <1>3, ReportRowStep DEF Settled

LEMMA FailRowStep ==
  ASSUME IInv, NEW w \in Worker, NEW retryable \in BOOLEAN, Fail(w, retryable),
         NEW k \in Key
  PROVE  RowStep(k)
<1> DEFINE attempt == held[w].attempt
           st == IF attempt >= MaxAttempts \/ ~retryable THEN "dead_letter" ELSE "queued"
           delay == IF st = "queued" THEN RetryDelay[attempt] ELSE 0
           open == Unleased(jobs[held[w].job], st)
           row == [open EXCEPT !.due = delay, !.error = "raised"]
<1>1. HandlerEnds(w) /\ Fenced(w) /\ jobs' = [jobs EXCEPT ![held[w].job] = row]
  BY DEF Fail
<1>2. /\ jobs[held[w].job] \in JobRow /\ attempt \in 1..MaxAttempts
      /\ st \in {"queued", "dead_letter"}
  BY <1>1 DEF HandlerEnds, IInv, HoldersNameJobs, TypeOK, Holder
<1>3. open \in JobRow /\ open.status = st
      /\ open.attempts = jobs[held[w].job].attempts
  BY <1>2, UnleasedRow DEF JobStatus
<1> HIDE DEF st, delay, open, attempt
<1>4. row.status = st /\ row.attempts = jobs[held[w].job].attempts
  BY <1>3 DEF JobRow
<1> HIDE DEF row
<1> QED
  BY <1>1, <1>2, <1>4, ReportRowStep DEF Settled

LEMMA TickRowStep ==
  ASSUME IInv, Tick, NEW k \in Key
  PROVE  RowStep(k)
<1>1. jobs[k].status \in Settled => jobs[k].due = 0 /\ jobs[k].status # "running"
  BY DEF Settled, IInv, RowsFitStatus
<1> QED
  BY <1>1, TickRow DEF RowStep, Kept

LEMMA NextRowStep ==
  ASSUME IInv, [Next]_vars, NEW k \in Key
  PROVE  RowStep(k)
<1>1. CASE \E d \in Actionable : IngestActionable(d)
  BY <1>1, FileRowStep
  DEF IngestActionable, IsNewDelivery, IInv, EventTellsOutcome, Key
<1>2. CASE \E j \in Internal : Enqueue(j)
  BY <1>2, FileRowStep DEF Enqueue, IsNewKey, Key
<1>3. CASE \E w \in Worker : WorkerStep(w)
  <2> SUFFICES ASSUME NEW w \in Worker, WorkerStep(w) PROVE RowStep(k)
    BY <1>3
  <2>1. CASE Claim(w)
    BY <2>1, ClaimRowStep
  <2>2. CASE ClaimNothing(w)
    BY <2>2, SweptRowStep DEF ClaimNothing
  <2>3. CASE Renew(w)
    BY <2>3, RenewRowStep
  <2>4. CASE Complete(w)
    BY <2>4, CompleteRowStep
  <2>5. CASE \E retryable \in BOOLEAN : Fail(w, retryable)
    BY <2>5, FailRowStep
  <2>6. CASE Stall(w) \/ LoseLease(w) \/ Start(w) \/ Stop(w) \/ Crash(w)
    BY <2>6, UnchangedRow DEF RowStep, Stall, LoseLease, Start, Stop, Crash
  <2> QED
    BY <2>1, <2>2, <2>3, <2>4, <2>5, <2>6 DEF WorkerStep, RunOnceEnds
<1>4. CASE Tick
  BY <1>4, TickRowStep
<1>5. CASE jobs' = jobs
  BY <1>5, UnchangedRow DEF RowStep
<1> QED
  BY <1>1, <1>2, <1>3, <1>4, <1>5
  DEF Next, Redeliver, EnqueueAgain, IngestIgnorable, vars

(* A completed or dead-lettered job is final: no zombie, redelivery, lease   *)
(* recovery or clock tick changes any column of its row.                     *)
THEOREM SettledIsFinal == Spec => SettledForever
<1>1. ASSUME IInv, [Next]_vars
      PROVE  [\A k \in Key : jobs[k].status \in Settled => jobs'[k] = jobs[k]]_vars
  <2>1. ASSUME NEW k \in Key, jobs[k].status \in Settled
        PROVE  jobs'[k] = jobs[k]
    <3>1. RowStep(k)
      BY <1>1, NextRowStep
    <3> QED
      BY <2>1, <3>1
      DEF RowStep, Kept, Filed, Recovered, Taken, Reported, Expired, Settled
  <2> QED
    BY <2>1
<1> QED
  BY <1>1, SpecIInv, PTL DEF Spec, SettledForever

(* The lease token fences: a running row leaves its lease only through the   *)
(* report of the worker holding that very token, or by expiry.               *)
THEOREM LeasesAreFenced == Spec => LeaseEndsByHolderOrExpiry
<1> DEFINE Fencing ==
      \A k \in Key :
        /\ jobs[k].status = "running"
        /\ jobs'[k].status # "running" \/ jobs'[k].token # jobs[k].token
        => \/ Expired(jobs[k])
           \/ \E w \in Worker :
                /\ w = jobs[k].owner
                /\ held[w].job = k /\ held[w].attempt = jobs[k].token
                /\ held[w].phase = "handling" /\ held'[w].phase = "idle"
<1>1. ASSUME IInv, [Next]_vars
      PROVE  [Fencing]_vars
  <2>1. \A k \in Key : RowStep(k)
    BY <1>1, NextRowStep
  <2> QED
    BY <2>1
    DEF RowStep, Kept, Filed, Recovered, Taken, Reported, ReportedByHolder
<1> QED
  BY <1>1, SpecIInv, PTL DEF Spec, LeaseEndsByHolderOrExpiry

-----------------------------------------------------------------------------
(* Refinement *)

LEMMA StandingOf ==
  ASSUME NEW k \in Key
  PROVE  /\ Tries[k] = jobs[k].attempts
         /\ jobs[k].status = "absent" => Standing[k] = "unknown"
         /\ jobs[k].status \in {"queued", "running"} => Standing[k] = "open"
         /\ jobs[k].status \in Settled => Standing[k] = jobs[k].status
BY DEF Standing, Tries, Settled

LEMMA StandingOfNext ==
  ASSUME NEW k \in Key
  PROVE  /\ Tries'[k] = jobs'[k].attempts
         /\ jobs'[k].status = "absent" => Standing'[k] = "unknown"
         /\ jobs'[k].status \in {"queued", "running"} => Standing'[k] = "open"
         /\ jobs'[k].status \in Settled => Standing'[k] = jobs'[k].status
BY DEF Standing, Tries, Settled

LEMMA StepRefines ==
  ASSUME IInv, [Next]_vars
  PROVE  Ledger!Next
<1> SUFFICES ASSUME NEW k \in Key
             PROVE  Ledger!Accept(k) \/ Ledger!Attempt(k)
                    \/ Ledger!Settle(k) \/ Ledger!Rest(k)
  BY DEF Ledger!Next
<1>1. RowStep(k)
  BY NextRowStep
<1>2. jobs[k].status \in JobStatus
  BY DEF IInv, TypeOK, JobRow
<1>3. CASE Kept(k)
  BY <1>2, <1>3, StandingOf, StandingOfNext
  DEF Kept, Ledger!Rest, JobStatus, Settled
<1>4. CASE Filed(k)
  BY <1>4, StandingOf, StandingOfNext
  DEF Filed, Ledger!Accept, IInv, RowsFitStatus
<1>5. CASE Recovered(k) \/ Reported(k)
  <2>1. /\ jobs[k].status = "running" /\ jobs[k].attempts > 0
        /\ jobs'[k].status \in {"queued"} \cup Settled
        /\ jobs'[k].attempts = jobs[k].attempts
    BY <1>5 DEF Recovered, Reported, Expired, Settled, IInv, RowsFitStatus
  <2> QED
    BY <2>1, StandingOf, StandingOfNext
    DEF Ledger!Settle, Ledger!Rest, Settled
<1>6. CASE Taken(k)
  BY <1>6, StandingOf, StandingOfNext DEF Taken, Expired, Ledger!Attempt
<1> QED
  BY <1>1, <1>3, <1>4, <1>5, <1>6 DEF RowStep

(* The queue implements its ledger: through leases, retries, zombies and     *)
(* crashes every job is accepted once, attempted at most max_attempts times  *)
(* and settled at most once, never before its first attempt.                 *)
THEOREM QueueImplementsLedger == Spec => ImplementsLedger
<1>1. Init => Ledger!Init
  <2>1. SUFFICES ASSUME Init PROVE Ledger!Init
    OBVIOUS
  <2>2. \A k \in Key : jobs[k].status = "absent" /\ jobs[k].attempts = 0
    BY <2>1 DEF Init, NoJob
  <2>3. \A k \in Key : Standing[k] = "unknown" /\ Tries[k] = 0
    BY <2>2, StandingOf
  <2> QED
    BY <2>3 DEF Ledger!Init, Standing, Tries
<1>2. ASSUME IInv, [Next]_vars
      PROVE  [Ledger!Next]_(Ledger!ledgerVars)
  BY <1>2, StepRefines
<1> QED
  BY <1>1, <1>2, SpecIInv, PTL DEF Spec, ImplementsLedger, Ledger!Spec

-----------------------------------------------------------------------------
(* Executions: who works on a job, and under which attempt *)

(* No two processes ever hold the same attempt of a job, and nobody holds an *)
(* attempt that was not started: the token in a Job object names its holder. *)
HoldersAreDistinct ==
  \A w \in Worker :
    held[w].phase = "handling" =>
      /\ held[w].attempt <= jobs[held[w].job].attempts
      /\ \A v \in Worker : Holds(v, held[w].job, held[w].attempt) => v = w

EInv == IInv /\ HoldersAreDistinct

\* Only claim() makes a worker the holder of another job or attempt.
HoldersKept ==
  \A v \in Worker :
    held'[v].phase = "handling" =>
      /\ held[v].phase = "handling"
      /\ held'[v].job = held[v].job /\ held'[v].attempt = held[v].attempt

LEMMA LetGoHolders ==
  ASSUME IInv, NEW w \in Worker, NEW phase \in {"down", "idle"},
         held' = [held EXCEPT ![w] = NotHolding(phase)]
  PROVE  /\ held'[w].phase # "handling"
         /\ \A v \in Worker : v # w => held'[v] = held[v]
BY NotHoldingHolder DEF IInv, TypeOK

LEMMA RenewHolders ==
  ASSUME IInv, NEW w \in Worker, Renew(w) \/ Stall(w)
  PROVE  \A v \in Worker :
           /\ held'[v].phase = held[v].phase
           /\ held'[v].job = held[v].job /\ held'[v].attempt = held[v].attempt
<1>1. held[w] \in Holder
  BY DEF IInv, TypeOK
<1>2. CASE held' = [held EXCEPT ![w] = [@ EXCEPT !.beat = Beat, !.renewal = "timely"]]
  BY <1>1, <1>2 DEF Holder, IInv, TypeOK
<1>3. CASE held' = [held EXCEPT ![w] = [@ EXCEPT !.renewal = "ended"]]
  BY <1>1, <1>3 DEF Holder, IInv, TypeOK
<1>4. CASE held' = [held EXCEPT ![w] = [@ EXCEPT !.renewal = "late"]]
  BY <1>1, <1>4 DEF Holder, IInv, TypeOK
<1> QED
  BY <1>2, <1>3, <1>4 DEF Renew, Stall

LEMMA HoldersStep ==
  ASSUME IInv, [Next]_vars
  PROVE  HoldersKept \/ \E w \in Worker : Claim(w)
<1>1. ASSUME held' = held PROVE HoldersKept
  BY <1>1 DEF HoldersKept
<1>2. CASE Tick
  BY <1>2, TickHolder DEF HoldersKept
<1>3. CASE \E w \in Worker : WorkerStep(w)
  <2> SUFFICES ASSUME NEW w \in Worker, WorkerStep(w)
               PROVE  HoldersKept \/ Claim(w)
    BY <1>3
  <2>1. CASE Renew(w) \/ Stall(w)
    BY <2>1, RenewHolders DEF HoldersKept
  <2>2. CASE Start(w) \/ Stop(w) \/ Crash(w) \/ HandlerEnds(w)
    BY <2>2, LetGoHolders DEF HoldersKept, Start, Stop, Crash, HandlerEnds
  <2>3. CASE ClaimNothing(w)
    BY <2>3, <1>1 DEF ClaimNothing
  <2> QED
    BY <2>1, <2>2, <2>3 DEF WorkerStep, RunOnceEnds, Complete, Fail, LoseLease
<1> QED
  BY <1>1, <1>2, <1>3
  DEF Next, vars, IngestActionable, IngestIgnorable, Redeliver, Enqueue, EnqueueAgain

LEMMA AttemptsGrow ==
  ASSUME IInv, [Next]_vars, NEW k \in Key
  PROVE  jobs'[k].attempts \in Nat /\ jobs[k].attempts \in Nat
         /\ jobs[k].attempts <= jobs'[k].attempts
<1>1. jobs[k].attempts \in Nat
  BY DEF IInv, TypeOK, JobRow
<1>2. RowStep(k)
  BY NextRowStep
<1>3. jobs[k].status = "absent" => jobs[k].attempts = 0
  BY DEF IInv, RowsFitStatus
<1> QED
  BY <1>1, <1>2, <1>3 DEF RowStep, Kept, Filed, Recovered, Taken, Reported

\* What claim() does to the job it hands out.
LEMMA ClaimedJob ==
  ASSUME IInv, NEW w \in Worker, Claim(w)
  PROVE  \E k \in Key :
           /\ SweptJobs[k].status = "queued"
           /\ jobs[k].attempts \in Nat /\ jobs[k].attempts < MaxAttempts
           /\ jobs'[k].status = "running"
           /\ jobs'[k].attempts = jobs[k].attempts + 1
           /\ jobs'[k].token = jobs[k].attempts + 1
           /\ \A j \in Key : j # k => jobs'[j] = SweptJobs[j]
           /\ held[w].phase = "idle"
           /\ held'[w].phase = "handling" /\ held'[w].job = k
           /\ held'[w].attempt = jobs[k].attempts + 1
           /\ \A v \in Worker : v # w => held'[v] = held[v]
<1>1. PICK k \in Key :
        /\ ComesFirst(k, SweptJobs)
        /\ jobs' = [SweptJobs EXCEPT ![k] = Leased(SweptJobs[k], w)]
        /\ held' = [held EXCEPT ![w] =
                      [phase |-> "handling", job |-> k,
                       attempt |-> SweptJobs[k].attempts + 1,
                       beat |-> Beat, renewal |-> "timely"]]
  BY DEF Claim
<1>2. SweptJobs[k].status = "queued" /\ SweptJobs[k] \in JobRow
      /\ SweptJobs[k].attempts = jobs[k].attempts
  BY <1>1, SweptTables DEF ComesFirst, Claimable
<1>3. jobs[k].attempts \in Nat /\ jobs[k].attempts < MaxAttempts
  BY <1>2, SweptTables DEF IInv, QueuedHasAttemptsLeft, JobRow
<1>4. SweptJobs \in [Key -> JobRow]
  BY SweptTables DEF SweptJobs
<1>5. /\ jobs'[k] = Leased(SweptJobs[k], w)
      /\ \A j \in Key : j # k => jobs'[j] = SweptJobs[j]
  BY <1>1, <1>4
<1>6. /\ jobs'[k].status = "running" /\ jobs'[k].attempts = jobs[k].attempts + 1
      /\ jobs'[k].token = jobs[k].attempts + 1
  BY <1>2, <1>3, <1>5, LeasedRow
<1>7. /\ held'[w].phase = "handling" /\ held'[w].job = k
      /\ held'[w].attempt = jobs[k].attempts + 1
      /\ \A v \in Worker : v # w => held'[v] = held[v]
  BY <1>1, <1>2 DEF IInv, TypeOK
<1>8. held[w].phase = "idle"
  BY DEF Claim
<1> QED
  BY <1>2, <1>3, <1>5, <1>6, <1>7, <1>8

LEMMA InitEInv == Init => EInv
<1> SUFFICES ASSUME Init PROVE EInv
  OBVIOUS
<1>1. \A w \in Worker : held[w].phase = "down"
  BY DEF Init, NotHolding
<1> QED
  BY <1>1, InitIInv DEF EInv, HoldersAreDistinct

LEMMA NextEInv ==
  ASSUME EInv, [Next]_vars
  PROVE  EInv'
<1>1. IInv /\ IInv' /\ HoldersAreDistinct
  BY NextIInv DEF EInv
<1>2. ASSUME NEW v \in Worker, held[v].phase = "handling"
      PROVE  held[v].job \in Key /\ held[v].attempt \in Nat
             /\ held[v].attempt <= jobs'[held[v].job].attempts
             /\ held[v].attempt <= jobs[held[v].job].attempts
  <2>1. held[v].job \in Key /\ held[v].attempt \in Nat
        /\ held[v].attempt <= jobs[held[v].job].attempts
    BY <1>1, <1>2 DEF IInv, HoldersNameJobs, HoldersAreDistinct, TypeOK, Holder
  <2> QED
    BY <1>1, <2>1, AttemptsGrow
<1>3. CASE HoldersKept
  <2>1. ASSUME NEW v \in Worker, held'[v].phase = "handling"
        PROVE  /\ held'[v].attempt <= jobs'[held'[v].job].attempts
               /\ \A u \in Worker : Holds(u, held[v].job, held[v].attempt)' => u = v
    <3>1. /\ held[v].phase = "handling"
          /\ held'[v].job = held[v].job /\ held'[v].attempt = held[v].attempt
      BY <1>3, <2>1 DEF HoldersKept
    <3>2. ASSUME NEW u \in Worker, Holds(u, held[v].job, held[v].attempt)'
          PROVE  u = v
      BY <1>1, <1>3, <3>1, <3>2 DEF HoldersKept, Holds, HoldersAreDistinct
    <3> QED
      BY <1>2, <3>1, <3>2
  <2> QED
    BY <1>1, <2>1, <1>3 DEF EInv, HoldersAreDistinct, HoldersKept, Holds
<1>4. CASE \E w \in Worker : Claim(w)
  <2>1. PICK w \in Worker : Claim(w)
    BY <1>4
  <2>2. PICK k \in Key :
           /\ jobs[k].attempts \in Nat
           /\ jobs'[k].attempts = jobs[k].attempts + 1
           /\ held'[w].phase = "handling" /\ held'[w].job = k
           /\ held'[w].attempt = jobs[k].attempts + 1
           /\ \A v \in Worker : v # w => held'[v] = held[v]
    BY <1>1, <2>1, ClaimedJob
  <2>3. ASSUME NEW v \in Worker, held'[v].phase = "handling"
        PROVE  held'[v].attempt <= jobs'[held'[v].job].attempts
    BY <1>2, <2>2, <2>3
  <2>4. ASSUME NEW v \in Worker, held'[v].phase = "handling",
               NEW u \in Worker, held'[u].phase = "handling",
               held'[u].job = held'[v].job, held'[u].attempt = held'[v].attempt
        PROVE  u = v
    <3>1. CASE v = w
      BY <1>2, <2>2, <2>4, <3>1
    <3>2. CASE v # w /\ u = w
      BY <1>2, <2>2, <2>4, <3>2
    <3>3. CASE v # w /\ u # w
      BY <1>1, <2>2, <2>4, <3>3 DEF HoldersAreDistinct, Holds
    <3> QED
      BY <3>1, <3>2, <3>3
  <2> QED
    BY <1>1, <2>3, <2>4 DEF EInv, HoldersAreDistinct, Holds
<1> QED
  BY <1>1, <1>3, <1>4, HoldersStep

LEMMA SpecEInv == Spec => []EInv
<1>1. Init => EInv
  BY InitEInv
<1>2. EInv /\ [Next]_vars => EInv'
  BY NextEInv
<1> QED
  BY <1>1, <1>2, PTL DEF Spec

-----------------------------------------------------------------------------
(* Refinement of HandlerExecutions *)

LEMMA RowOf ==
  ASSUME NEW k \in Key
  PROVE  /\ Rows[k] =
              [status |-> IF jobs[k].status \in {"queued", "running"} THEN "open"
                          ELSE jobs[k].status,
               tries |-> jobs[k].attempts,
               holder |-> IF jobs[k].status = "running" THEN jobs[k].token ELSE 0]
         /\ Rows'[k] =
              [status |-> IF jobs'[k].status \in {"queued", "running"} THEN "open"
                          ELSE jobs'[k].status,
               tries |-> jobs'[k].attempts,
               holder |-> IF jobs'[k].status = "running" THEN jobs'[k].token ELSE 0]
BY DEF Rows

LEMMA RowExt ==
  ASSUME NEW x \in Executions!JobRow, NEW y \in Executions!JobRow,
         x.status = y.status, x.tries = y.tries, x.holder = y.holder
  PROVE  x = y
BY DEF Executions!JobRow

LEMMA RowFields ==
  ASSUME NEW k \in Key, NEW row, NEW mapped, row \in JobRow,
         mapped = [status |-> IF row.status \in {"queued", "running"} THEN "open"
                              ELSE row.status,
                   tries |-> row.attempts,
                   holder |-> IF row.status = "running" THEN row.token ELSE 0]
  PROVE  /\ mapped \in Executions!JobRow
         /\ row.status \in {"queued", "running"} => mapped.status = "open"
         /\ row.status \notin {"queued", "running"} => mapped.status = row.status
         /\ mapped.tries = row.attempts
         /\ row.status = "running" => mapped.holder = row.token
         /\ row.status # "running" => mapped.holder = 0
<1>1. row.token \in 0..MaxAttempts /\ 0 \in 0..MaxAttempts
  BY TimingAssumption DEF JobRow
<1>2. (1..MaxAttempts) \cup {0} = 0..MaxAttempts
  BY TimingAssumption
<1>3. CASE row.status = "running"
  BY <1>1, <1>2, <1>3 DEF Executions!JobRow, JobRow
<1>4. CASE row.status # "running"
  BY <1>1, <1>2, <1>4 DEF Executions!JobRow, JobRow, JobStatus
<1> QED
  BY <1>3, <1>4

\* The rows before and after a step, column by column.
RowMaps(mapped, row) ==
  /\ mapped \in Executions!JobRow
  /\ row.status \in {"queued", "running"} => mapped.status = "open"
  /\ row.status \notin {"queued", "running"} => mapped.status = row.status
  /\ mapped.tries = row.attempts
  /\ row.status = "running" => mapped.holder = row.token
  /\ row.status # "running" => mapped.holder = 0

LEMMA RowsMap ==
  ASSUME EInv, EInv', NEW k \in Key
  PROVE  RowMaps(Rows[k], jobs[k]) /\ RowMaps(Rows'[k], jobs'[k])
<1>1. jobs[k] \in JobRow /\ jobs'[k] \in JobRow
  BY DEF EInv, IInv, TypeOK
<1> QED
  BY <1>1, RowOf, RowFields DEF RowMaps

LEMMA RowLapses ==
  ASSUME NEW row \in Executions!JobRow
  PROVE  /\ Executions!Lapsed(row) \in Executions!JobRow
         /\ row.tries = MaxAttempts => Executions!Lapsed(row).status = "dead_letter"
         /\ row.tries # MaxAttempts => Executions!Lapsed(row).status = "open"
         /\ Executions!Lapsed(row).tries = row.tries
         /\ Executions!Lapsed(row).holder = 0
<1> DEFINE st == IF row.tries = MaxAttempts THEN "dead_letter" ELSE "open"
           out == [row EXCEPT !.holder = 0, !.status = st]
<1>1. /\ st \in {"dead_letter", "open"}
      /\ row.tries = MaxAttempts => st = "dead_letter"
      /\ row.tries # MaxAttempts => st = "open"
  OBVIOUS
<1> HIDE DEF st
<1>2. /\ out \in Executions!JobRow /\ out.tries = row.tries
      /\ out.status = st /\ out.holder = 0
  BY <1>1 DEF Executions!JobRow
<1>3. Executions!Lapsed(row) = out
  BY DEF Executions!Lapsed, st
<1> HIDE DEF out
<1> QED
  BY <1>1, <1>2, <1>3

LEMMA RowReports ==
  ASSUME NEW row \in Executions!JobRow, NEW a, row.holder = a,
         NEW outcome \in {"ok", "refused"}
  PROVE  /\ Executions!Reported(row, a, outcome) \in Executions!JobRow
         /\ outcome = "ok" => Executions!Reported(row, a, outcome).status = "completed"
         /\ outcome = "refused" =>
              Executions!Reported(row, a, outcome).status = "dead_letter"
         /\ Executions!Reported(row, a, outcome).tries = row.tries
         /\ Executions!Reported(row, a, outcome).holder = 0
BY DEF Executions!Reported, Executions!JobRow

HeldBefore(k, a) == \E v \in Worker : Holds(v, k, a)
HeldAfter(k, a) ==
  \E v \in Worker :
    held'[v].phase = "handling" /\ held'[v].job = k /\ held'[v].attempt = a

LEMMA ExecutingOf ==
  ASSUME NEW k \in Key
  PROVE  /\ Executing[k] =
              {a \in 1..MaxAttempts :
                 HeldBefore(k, a) \/ (jobs[k].status = "running" /\ jobs[k].token = a)}
         /\ Executing'[k] =
              {a \in 1..MaxAttempts :
                 HeldAfter(k, a) \/ (jobs'[k].status = "running" /\ jobs'[k].token = a)}
BY DEF Executing, HeldBefore, HeldAfter, Holds

\* A handler that lost its lease, unrecovered so far, is still at work.
GoesOn(k) == HeldBefore(k, jobs[k].token)

ReletStep(k) ==
  \E r \in 1..MaxAttempts :
    /\ Executions!Relet(k, r)
    /\ GoesOn(k) \/ /\ r \notin Executing[k] \ {Rows[k].holder}
                    /\ Executing'[k] = (Executing[k] \ {Rows[k].holder}) \cup {r}

ContractStep(k) ==
  \/ Executions!Accept(k) \/ Executions!Rest(k)
  \/ \E r \in 1..MaxAttempts :
       \/ Executions!Claim(k, r)
       \/ \E outcome \in {"ok", "retry", "refused"} : Executions!Finish(k, r, outcome)
  \/ Expired(jobs[k]) /\ GoesOn(k) /\ Executions!Lapse(k)
  \/ Expired(jobs[k]) /\ ReletStep(k)

\* The facts about a row that every case needs.
LEMMA RowFacts ==
  ASSUME EInv, NEW k \in Key
  PROVE  /\ jobs[k].status \in JobStatus /\ jobs[k].attempts \in 0..MaxAttempts
         /\ jobs[k].status = "absent" => jobs[k].attempts = 0
         /\ jobs[k].status = "queued" => jobs[k].attempts < MaxAttempts
         /\ jobs[k].status = "running" =>
              jobs[k].token = jobs[k].attempts /\ jobs[k].attempts > 0
         /\ \A a : HeldBefore(k, a) => a \in 1..MaxAttempts /\ a <= jobs[k].attempts
<1>1. IInv /\ jobs[k] \in JobRow
  BY DEF EInv, IInv, TypeOK
<1>2. ASSUME NEW a, HeldBefore(k, a)
      PROVE  a \in 1..MaxAttempts /\ a <= jobs[k].attempts
  <2>1. PICK v \in Worker : Holds(v, k, a)
    BY <1>2 DEF HeldBefore
  <2>2. held[v].attempt \in 0..MaxAttempts /\ held[v].attempt > 0
        /\ held[v].attempt <= jobs[k].attempts
    BY <1>1, <2>1 DEF EInv, Holds, HoldersAreDistinct, IInv, HoldersNameJobs, TypeOK, Holder
  <2> QED
    BY <2>1, <2>2, TimingAssumption DEF Holds
<1> QED
  BY <1>1, <1>2 DEF JobRow, IInv, RowsFitStatus, QueuedHasAttemptsLeft

LEMMA KeptContract ==
  ASSUME NEW k \in Key,
         jobs'[k].status = jobs[k].status, jobs'[k].attempts = jobs[k].attempts,
         jobs'[k].token = jobs[k].token,
         \A a \in 1..MaxAttempts : HeldAfter(k, a) <=> HeldBefore(k, a)
  PROVE  ContractStep(k)
<1>1. Rows'[k] = Rows[k]
  BY RowOf
<1>2. Executing'[k] = Executing[k]
  BY ExecutingOf
<1> QED
  BY <1>1, <1>2 DEF ContractStep, Executions!Rest

LEMMA SameHolders ==
  ASSUME \A v \in Worker :
           /\ held'[v].phase = held[v].phase
           /\ held'[v].job = held[v].job /\ held'[v].attempt = held[v].attempt
  PROVE  \A k, a : HeldAfter(k, a) <=> HeldBefore(k, a)
BY DEF HeldAfter, HeldBefore, Holds

LEMMA FiledContract ==
  ASSUME EInv, NEW j \in Key, jobs[j].status = "absent", File(j), held' = held,
         NEW k \in Key
  PROVE  ContractStep(k)
<1>1. \A a : HeldAfter(k, a) <=> HeldBefore(k, a)
  BY SameHolders
<1>2. CASE k = j
  <2>1. second' \in Nat
    BY DEF EInv, IInv, TypeOK, File
  <2>2. jobs'[k].status = "queued" /\ jobs'[k].attempts = 0
    BY <1>2, <2>1, NewJobRow DEF File, EInv, IInv, TypeOK
  <2>3. jobs[k].status = "absent" /\ jobs[k].attempts = 0
    BY <1>2, RowFacts
  <2>4. Rows[k] = [status |-> "absent", tries |-> 0, holder |-> 0]
        /\ Rows'[k] = [status |-> "open", tries |-> 0, holder |-> 0]
    BY <2>2, <2>3, RowOf
  <2>5. Rows'[k] = Executions!Filed(Rows[k])
    BY <2>4 DEF Executions!Filed
  <2>6. Executing'[k] = Executing[k]
    BY <1>1, <2>2, <2>3, ExecutingOf
  <2> QED
    BY <2>4, <2>5, <2>6 DEF ContractStep, Executions!Accept
<1>3. CASE k # j
  <2>1. jobs'[k] = jobs[k]
    BY <1>3 DEF File, EInv, IInv, TypeOK
  <2> QED
    BY <1>1, <2>1, KeptContract
<1> QED
  BY <1>2, <1>3

\* A worker lets go of the only execution with its job and attempt.
LEMMA LetGo ==
  ASSUME EInv, NEW w \in Worker, held[w].phase = "handling",
         held'[w].phase # "handling",
         \A v \in Worker : v # w => held'[v] = held[v]
  PROVE  /\ ~HeldAfter(held[w].job, held[w].attempt)
         /\ \A k, a : k # held[w].job \/ a # held[w].attempt =>
                        (HeldAfter(k, a) <=> HeldBefore(k, a))
<1>1. \A v \in Worker : Holds(v, held[w].job, held[w].attempt) => v = w
  BY DEF EInv, HoldersAreDistinct
<1> QED
  BY <1>1 DEF HeldAfter, HeldBefore, Holds

\* A process ends, or a handler whose lease is lost: no row changes.
LEMMA LetGoContract ==
  ASSUME EInv, EInv', NEW w \in Worker, jobs' = jobs,
         held'[w].phase # "handling",
         \A v \in Worker : v # w => held'[v] = held[v],
         NEW k \in Key
  PROVE  ContractStep(k)
<1>1. CASE held[w].phase # "handling"
  <2>1. \A a : HeldAfter(k, a) <=> HeldBefore(k, a)
    BY <1>1 DEF HeldAfter, HeldBefore, Holds
  <2> QED
    BY <2>1, KeptContract
<1>2. CASE held[w].phase = "handling"
  <2> DEFINE a == held[w].attempt
  <2>1. CASE held[w].job # k
    BY <1>2, <2>1, LetGo, KeptContract
  <2>2. CASE held[w].job = k
    <3>1. HeldBefore(k, a)
      BY <1>2, <2>2 DEF HeldBefore, Holds
    <3>2. a \in 1..MaxAttempts
      BY <3>1, RowFacts
    <3>3. ~HeldAfter(k, a) /\ \A b : b # a => (HeldAfter(k, b) <=> HeldBefore(k, b))
      BY <1>2, <2>2, LetGo
    <3> HIDE DEF a
    <3>4. Rows'[k] = Rows[k]
      BY RowOf
    <3>5. CASE jobs[k].status = "running" /\ jobs[k].token = a
      <4>1. Executing'[k] = Executing[k]
        BY <3>3, <3>5, ExecutingOf
      <4> QED
        BY <3>4, <4>1 DEF ContractStep, Executions!Rest
    <3>6. CASE ~(jobs[k].status = "running" /\ jobs[k].token = a)
      <4>1. a \in Executing[k] /\ Executing'[k] = Executing[k] \ {a}
        BY <3>1, <3>2, <3>3, <3>6, ExecutingOf
      <4>2. Rows[k].holder # a
        BY <3>2, <3>6, RowsMap, TimingAssumption DEF RowMaps
      <4>3. Rows'[k] = Executions!Reported(Rows[k], a, "ok")
        BY <3>4, <4>2 DEF Executions!Reported
      <4>4. Executions!Finish(k, a, "ok")
        BY <4>1, <4>3 DEF Executions!Finish
      <4> QED
        BY <3>2, <4>4 DEF ContractStep
    <3> QED
      BY <3>5, <3>6
  <2> QED
    BY <2>1, <2>2
<1> QED
  BY <1>1, <1>2

\* complete() and fail() of the lease's holder.
LEMMA ReportContract ==
  ASSUME EInv, EInv', NEW w \in Worker, HandlerEnds(w), Fenced(w),
         NEW row, NEW outcome \in {"ok", "retry", "refused"},
         row.attempts = jobs[held[w].job].attempts,
         row.status = CASE outcome = "ok" -> "completed"
                        [] outcome = "refused" -> "dead_letter"
                        [] outcome = "retry" ->
                             IF row.attempts = MaxAttempts THEN "dead_letter" ELSE "queued",
         jobs' = [jobs EXCEPT ![held[w].job] = row],
         NEW k \in Key
  PROVE  ContractStep(k)
<1> DEFINE j == held[w].job
           a == held[w].attempt
<1>1. /\ held[w].phase = "handling"
      /\ jobs[j].status = "running" /\ jobs[j].token = a
  BY DEF HandlerEnds, Fenced
<1>2. /\ held'[w].phase # "handling"
      /\ \A v \in Worker : v # w => held'[v] = held[v]
  BY LetGoHolders DEF HandlerEnds, EInv
<1>3. ~HeldAfter(j, a)
      /\ \A i, b : i # j \/ b # a => (HeldAfter(i, b) <=> HeldBefore(i, b))
  BY <1>1, <1>2, LetGo
<1>4. HeldBefore(j, a)
  BY <1>1 DEF HeldBefore, Holds
<1>5. jobs' = [jobs EXCEPT ![j] = row]
  OBVIOUS
<1>6. row.attempts = jobs[j].attempts
  OBVIOUS
<1> HIDE DEF j, a
<1>7. CASE k # j
  <2>1. jobs'[k] = jobs[k]
    BY <1>5, <1>7 DEF EInv, IInv, TypeOK
  <2> QED
    BY <1>3, <1>7, <2>1, KeptContract
<1>8. CASE k = j
  <2>1. jobs'[k] = row
    BY <1>5, <1>8 DEF EInv, IInv, TypeOK
  <2>2. a \in 1..MaxAttempts /\ a = jobs[k].attempts
    BY <1>1, <1>4, <1>8, RowFacts
  <2>5. a \in Executing[k] /\ Executing'[k] = Executing[k] \ {a}
    <3>1. row.status # "running"
      OBVIOUS
    <3> QED
      BY <1>1, <1>3, <1>4, <1>8, <2>1, <2>2, <3>1, ExecutingOf
  <2>6. Rows'[k] = Executions!Reported(Rows[k], a, outcome)
    <3>1. /\ RowMaps(Rows[k], jobs[k]) /\ RowMaps(Rows'[k], row)
          /\ Rows[k].holder = a /\ Rows[k].tries = a
      BY <1>1, <1>8, <2>1, <2>2, RowsMap DEF RowMaps
    <3>2. Rows'[k].tries = a /\ Rows'[k].holder = 0
      BY <1>6, <1>8, <2>2, <3>1 DEF RowMaps
    <3>3. CASE outcome \in {"ok", "refused"}
      BY <3>1, <3>2, <3>3, RowReports, RowExt DEF RowMaps
    <3>4. CASE outcome = "retry"
      <4>1. Executions!Reported(Rows[k], a, outcome) = Executions!Lapsed(Rows[k])
        BY <3>1, <3>4 DEF Executions!Reported
      <4>2. CASE a = MaxAttempts
        <5>1. Rows'[k].status = "dead_letter"
          BY <1>6, <1>8, <2>2, <3>1, <3>4, <4>2 DEF RowMaps
        <5> QED
          BY <3>1, <3>2, <4>1, <4>2, <5>1, RowLapses, RowExt DEF RowMaps
      <4>3. CASE a # MaxAttempts
        <5>1. Rows'[k].status = "open"
          BY <1>6, <1>8, <2>2, <3>1, <3>4, <4>3 DEF RowMaps
        <5> QED
          BY <3>1, <3>2, <4>1, <4>3, <5>1, RowLapses, RowExt DEF RowMaps
      <4> QED
        BY <4>2, <4>3
    <3> QED
      BY <3>3, <3>4
  <2>7. Executions!Finish(k, a, outcome)
    BY <2>5, <2>6 DEF Executions!Finish
  <2> QED
    BY <2>2, <2>7 DEF ContractStep
<1> QED
  BY <1>7, <1>8

LEMMA CompleteContract ==
  ASSUME EInv, EInv', NEW w \in Worker, Complete(w), NEW k \in Key
  PROVE  ContractStep(k)
<1> DEFINE row == Unleased(jobs[held[w].job], "completed")
<1>1. HandlerEnds(w) /\ Fenced(w) /\ jobs' = [jobs EXCEPT ![held[w].job] = row]
  BY DEF Complete
<1>2. jobs[held[w].job] \in JobRow
  BY <1>1 DEF HandlerEnds, EInv, IInv, HoldersNameJobs, TypeOK
<1>3. row.status = "completed" /\ row.attempts = jobs[held[w].job].attempts
  BY <1>2, UnleasedRow DEF JobStatus
<1> HIDE DEF row
<1> QED
  BY <1>1, <1>3, ReportContract

LEMMA FailContract ==
  ASSUME EInv, EInv', NEW w \in Worker, NEW retryable \in BOOLEAN, Fail(w, retryable),
         NEW k \in Key
  PROVE  ContractStep(k)
<1> DEFINE attempt == held[w].attempt
           st == IF attempt >= MaxAttempts \/ ~retryable THEN "dead_letter" ELSE "queued"
           delay == IF st = "queued" THEN RetryDelay[attempt] ELSE 0
           open == Unleased(jobs[held[w].job], st)
           row == [open EXCEPT !.due = delay, !.error = "raised"]
           outcome == IF retryable THEN "retry" ELSE "refused"
<1>1. HandlerEnds(w) /\ Fenced(w) /\ jobs' = [jobs EXCEPT ![held[w].job] = row]
  BY DEF Fail
<1>2. /\ held[w].job \in Key /\ jobs[held[w].job] \in JobRow
      /\ attempt \in 1..MaxAttempts /\ attempt = jobs[held[w].job].attempts
      /\ st \in {"queued", "dead_letter"}
  BY <1>1 DEF HandlerEnds, Fenced, EInv, IInv, HoldersNameJobs, TypeOK, Holder,
     QueuedHasAttemptsLeft
<1>3. open \in JobRow /\ open.status = st
      /\ open.attempts = jobs[held[w].job].attempts
  BY <1>2, UnleasedRow DEF JobStatus
<1>4. outcome \in {"retry", "refused"}
      /\ (outcome = "refused" => st = "dead_letter")
      /\ (outcome = "retry" =>
            st = IF attempt = MaxAttempts THEN "dead_letter" ELSE "queued")
  BY <1>2, TimingAssumption
<1> HIDE DEF st, delay, open, attempt, outcome
<1>5. row.status = st /\ row.attempts = attempt
  BY <1>2, <1>3 DEF JobRow
<1> HIDE DEF row
<1>6. row.status = CASE outcome = "ok" -> "completed"
                     [] outcome = "refused" -> "dead_letter"
                     [] outcome = "retry" ->
                          IF row.attempts = MaxAttempts THEN "dead_letter" ELSE "queued"
  BY <1>4, <1>5
<1> QED
  BY <1>1, <1>2, <1>4, <1>5, <1>6, ReportContract

\* What recovering an expired lease makes of its row.
LEMMA RecoveredRow ==
  ASSUME EInv, EInv', NEW k \in Key, Expired(jobs[k])
  PROVE  /\ jobs[k].token \in 1..MaxAttempts /\ jobs[k].token # 0
         /\ jobs[k].token = jobs[k].attempts
         /\ jobs[k].token \in Executing[k]
         /\ Rows[k] \in Executions!JobRow
         /\ Rows[k].tries = jobs[k].token /\ Rows[k].holder = jobs[k].token
         /\ Executions!Lapsed(Rows[k]) \in Executions!JobRow
         /\ Executions!Lapsed(Rows[k]).tries = jobs[k].token
         /\ Executions!Lapsed(Rows[k]).holder = 0
         /\ \/ /\ SweptJobs[k].status = "queued"
               /\ Executions!Lapsed(Rows[k]).status = "open"
            \/ /\ SweptJobs[k].status = "dead_letter"
               /\ Executions!Lapsed(Rows[k]).status = "dead_letter"
         /\ SweptJobs[k].attempts = jobs[k].token
<1>1. jobs[k].status = "running" /\ jobs[k] \in JobRow
  BY DEF Expired, EInv, IInv, TypeOK
<1>2. /\ jobs[k].token = jobs[k].attempts /\ jobs[k].token \in 1..MaxAttempts
      /\ jobs[k].token # 0
  BY <1>1, RowFacts, TimingAssumption DEF JobRow
<1>3. /\ Rows[k] \in Executions!JobRow
      /\ Rows[k].tries = jobs[k].token /\ Rows[k].holder = jobs[k].token
  BY <1>1, <1>2, RowsMap DEF RowMaps
<1>4. jobs[k].token \in Executing[k]
  BY <1>1, <1>2, ExecutingOf
<1>5. SweptJobs[k] = Swept(jobs[k])
  BY DEF SweptJobs
<1>6. /\ jobs[k].token = MaxAttempts => SweptJobs[k].status = "dead_letter"
      /\ jobs[k].token # MaxAttempts => SweptJobs[k].status = "queued"
      /\ SweptJobs[k].attempts = jobs[k].token
  BY <1>1, <1>2, <1>5, SweptRow, TimingAssumption
<1> QED
  BY <1>2, <1>3, <1>4, <1>6, RowLapses

\* A lease is recovered and not taken again: claim() of another job, or of none.
LEMMA RecoveredContract ==
  ASSUME EInv, EInv', NEW k \in Key, jobs'[k] = SweptJobs[k],
         \A a \in 1..MaxAttempts : HeldAfter(k, a) <=> HeldBefore(k, a)
  PROVE  ContractStep(k)
<1>1. CASE ~Expired(jobs[k])
  <2>1. jobs'[k] = jobs[k]
    BY <1>1, SweptTables DEF EInv
  <2> QED
    BY <2>1, KeptContract
<1>2. CASE Expired(jobs[k])
  <2> DEFINE a == jobs[k].token
  <2>1. /\ a \in 1..MaxAttempts /\ a # 0 /\ a \in Executing[k] /\ Rows[k].holder = a
        /\ Rows'[k] = Executions!Lapsed(Rows[k])
    BY <1>2, RecoveredRow, RowsMap, RowExt DEF RowMaps
  <2>2. jobs'[k].status # "running" /\ jobs[k].status = "running"
    BY <1>2, RecoveredRow DEF Expired
  <2> HIDE DEF a
  <2>3. CASE GoesOn(k)
    <3>0. \A b : jobs[k].token = b => HeldBefore(k, b)
      BY <2>3 DEF GoesOn
    <3>1. Executing'[k] = Executing[k]
      BY <2>2, <3>0, ExecutingOf
    <3>2. Executions!Lapse(k)
      BY <2>1, <3>1 DEF Executions!Lapse
    <3> QED
      BY <1>2, <2>3, <3>2 DEF ContractStep
  <2>4. CASE ~GoesOn(k)
    <3>1. Executing'[k] = Executing[k] \ {a}
      BY <2>1, <2>2, <2>4, ExecutingOf DEF GoesOn, a
    <3>2. Rows'[k] = Executions!Reported(Rows[k], a, "retry")
      BY <2>1 DEF Executions!Reported
    <3>3. Executions!Finish(k, a, "retry")
      BY <2>1, <3>1, <3>2 DEF Executions!Finish
    <3> QED
      BY <2>1, <3>3 DEF ContractStep
  <2> QED
    BY <2>3, <2>4
<1> QED
  BY <1>1, <1>2

\* claim() hands out a job: one that was queued, or one whose lease it recovered.
LEMMA ClaimContract ==
  ASSUME EInv, EInv', NEW w \in Worker, Claim(w), NEW k \in Key
  PROVE  ContractStep(k)
<1>1. PICK j \in Key :
        /\ SweptJobs[j].status = "queued"
        /\ jobs[j].attempts \in Nat /\ jobs[j].attempts < MaxAttempts
        /\ jobs'[j].status = "running"
        /\ jobs'[j].attempts = jobs[j].attempts + 1
        /\ jobs'[j].token = jobs[j].attempts + 1
        /\ \A i \in Key : i # j => jobs'[i] = SweptJobs[i]
        /\ held[w].phase = "idle"
        /\ held'[w].phase = "handling" /\ held'[w].job = j
        /\ held'[w].attempt = jobs[j].attempts + 1
        /\ \A v \in Worker : v # w => held'[v] = held[v]
  BY ClaimedJob DEF EInv
<1>2. \A i, a : HeldAfter(i, a) <=>
                  HeldBefore(i, a) \/ (i = j /\ a = jobs[j].attempts + 1)
  BY <1>1 DEF HeldAfter, HeldBefore, Holds
<1>3. CASE k # j
  <2>1. jobs'[k] = SweptJobs[k]
    BY <1>1, <1>3
  <2> QED
    BY <1>2, <1>3, <2>1, RecoveredContract
<1>4. CASE k = j
  <2> DEFINE r == jobs[k].attempts + 1
             a == jobs[k].token
  <2>1. r \in 1..MaxAttempts
    BY <1>1, <1>4, TimingAssumption
  <2>2. ~HeldBefore(k, r)
    BY <1>1, <1>4, RowFacts
  <2>3. /\ \A b : HeldAfter(k, b) <=> HeldBefore(k, b) \/ b = r
        /\ jobs'[k].status = "running" /\ jobs'[k].token = r
        /\ jobs'[k].attempts = r
    BY <1>1, <1>2, <1>4
  <2>4. /\ RowMaps(Rows[k], jobs[k])
        /\ Rows'[k] \in Executions!JobRow /\ Rows'[k].status = "open"
        /\ Rows'[k].tries = r /\ Rows'[k].holder = r
    BY <2>3, RowsMap DEF RowMaps
  <2>5. \A row \in Executions!JobRow :
          row.status = "open" /\ row.tries + 1 = r =>
            /\ Executions!Taken(row, r) = Rows'[k]
    <3> SUFFICES ASSUME NEW row \in Executions!JobRow,
                        row.status = "open", row.tries + 1 = r
                 PROVE  Executions!Taken(row, r) = Rows'[k]
      OBVIOUS
    <3>1. r \in 0..MaxAttempts
      BY <2>1, TimingAssumption
    <3> HIDE DEF r
    <3>2. /\ Executions!Taken(row, r) \in Executions!JobRow
          /\ Executions!Taken(row, r).status = "open"
          /\ Executions!Taken(row, r).tries = r
          /\ Executions!Taken(row, r).holder = r
      BY <2>1, <3>1 DEF Executions!Taken, Executions!JobRow
    <3> QED
      BY <2>4, <3>2, RowExt
  <2>6. CASE ~Expired(jobs[k])
    <3>1. jobs[k].status = "queued"
      BY <1>1, <1>4, <2>6, SweptTables DEF EInv
    <3>2. /\ Rows[k] \in Executions!JobRow
          /\ Rows[k].status = "open" /\ Rows[k].tries + 1 = r
          /\ Rows[k].holder = 0 /\ Rows[k].tries < MaxAttempts
      BY <1>1, <1>4, <2>4, <3>1 DEF RowMaps
    <3> HIDE DEF r
    <3>3. r \notin Executing[k] /\ Executing'[k] = Executing[k] \cup {r}
      BY <2>1, <2>2, <2>3, <3>1, ExecutingOf
    <3>4. Executions!Claim(k, r)
      BY <2>5, <3>2, <3>3 DEF Executions!Claim, Executions!IsClaimable
    <3> QED
      BY <2>1, <3>4 DEF ContractStep
  <2>7. CASE Expired(jobs[k])
    <3>1. /\ a \in 1..MaxAttempts /\ a # 0 /\ a = jobs[k].attempts
          /\ Rows[k].holder = a
          /\ Executions!Lapsed(Rows[k]) \in Executions!JobRow
          /\ Executions!Lapsed(Rows[k]).status = "open"
          /\ Executions!Lapsed(Rows[k]).tries + 1 = r
          /\ Executions!Lapsed(Rows[k]).holder = 0
      BY <1>1, <1>4, <2>7, RecoveredRow
    <3>2. r # a /\ jobs[k].status = "running"
      BY <1>1, <1>4, <2>7, <3>1 DEF Expired
    <3> HIDE DEF r, a
    <3>3. r \notin Executing[k]
      BY <2>2, <3>2, ExecutingOf DEF a
    <3>4. /\ Rows[k].holder # 0 /\ Executions!IsClaimable(Executions!Lapsed(Rows[k]))
          /\ Rows'[k] = Executions!Taken(Executions!Lapsed(Rows[k]), r)
      BY <2>5, <3>1 DEF Executions!IsClaimable
    <3>5. CASE GoesOn(k)
      <4>1. HeldBefore(k, a)
        BY <3>5 DEF GoesOn, a
      <4>2. Executing'[k] = (Executing[k] \ {}) \cup {r}
        <5>1. \A b : jobs[k].token = b => HeldBefore(k, b)
          BY <4>1 DEF a
        <5> QED
          BY <2>1, <2>3, <3>2, <5>1, ExecutingOf
      <4>3. Executions!Relet(k, r)
        BY <3>3, <3>4, <4>2 DEF Executions!Relet
      <4> QED
        BY <2>1, <2>7, <3>5, <4>3 DEF ContractStep, ReletStep
    <3>6. CASE ~GoesOn(k)
      <4>1. ~HeldBefore(k, a)
        BY <3>6 DEF GoesOn, a
      <4>2. Executing'[k] = (Executing[k] \ {a}) \cup {r}
        BY <2>1, <2>3, <3>2, <4>1, ExecutingOf DEF a
      <4>3. /\ {a} \in SUBSET {Rows[k].holder} /\ {a} # {}
            /\ r \notin Executing[k] \ {a}
        BY <3>1, <3>3
      <4>4. Executions!Relet(k, r)
        BY <3>4, <4>2, <4>3 DEF Executions!Relet
      <4> QED
        BY <2>1, <2>7, <3>1, <4>2, <4>3, <4>4 DEF ContractStep, ReletStep
    <3> QED
      BY <3>5, <3>6
  <2> QED
    BY <2>6, <2>7
<1> QED
  BY <1>3, <1>4

LEMMA NextContract ==
  ASSUME EInv, [Next]_vars, NEW k \in Key
  PROVE  ContractStep(k)
<1>0. EInv'
  BY NextEInv
<1>1. ASSUME jobs' = jobs, held' = held PROVE ContractStep(k)
  BY <1>1, SameHolders, KeptContract
<1>2. CASE \E d \in Actionable : IngestActionable(d)
  BY <1>2, FiledContract
  DEF IngestActionable, IsNewDelivery, EInv, IInv, EventTellsOutcome, Key
<1>3. CASE \E j \in Internal : Enqueue(j)
  BY <1>3, FiledContract DEF Enqueue, IsNewKey, Key
<1>4. CASE \E w \in Worker : WorkerStep(w)
  <2> SUFFICES ASSUME NEW w \in Worker, WorkerStep(w) PROVE ContractStep(k)
    BY <1>4
  <2>1. CASE Claim(w)
    BY <1>0, <2>1, ClaimContract
  <2>2. CASE ClaimNothing(w)
    <3>1. jobs'[k] = SweptJobs[k] /\ held' = held
      BY <2>2 DEF ClaimNothing
    <3> QED
      BY <1>0, <3>1, SameHolders, RecoveredContract
  <2>3. CASE Renew(w) \/ Stall(w)
    <3>1. \A a : HeldAfter(k, a) <=> HeldBefore(k, a)
      BY <2>3, RenewHolders, SameHolders DEF EInv
    <3>2. /\ jobs'[k].status = jobs[k].status
          /\ jobs'[k].attempts = jobs[k].attempts /\ jobs'[k].token = jobs[k].token
      <4>1. CASE jobs' = jobs
        BY <4>1
      <4>2. CASE jobs' = [jobs EXCEPT ![held[w].job] = Renewed(@)]
        <5>1. CASE k # held[w].job
          BY <4>2, <5>1 DEF EInv, IInv, TypeOK
        <5>2. CASE k = held[w].job
          <6>1. jobs[k] \in JobRow /\ jobs'[k] = [jobs[k] EXCEPT !.lease = Lease]
            BY <4>2, <5>2 DEF EInv, IInv, TypeOK, Renewed
          <6> QED
            BY <6>1 DEF JobRow
        <5> QED
          BY <5>1, <5>2
      <4> QED
        BY <2>3, <4>1, <4>2 DEF Renew, Stall
    <3> QED
      BY <3>1, <3>2, KeptContract
  <2>4. CASE Complete(w)
    BY <1>0, <2>4, CompleteContract
  <2>5. CASE \E retryable \in BOOLEAN : Fail(w, retryable)
    BY <1>0, <2>5, FailContract
  <2>6. CASE LoseLease(w) \/ Start(w) \/ Stop(w) \/ Crash(w)
    <3>1. /\ jobs' = jobs /\ held'[w].phase # "handling"
          /\ \A v \in Worker : v # w => held'[v] = held[v]
      BY <2>6, LetGoHolders DEF LoseLease, HandlerEnds, Start, Stop, Crash, EInv
    <3> QED
      BY <1>0, <3>1, LetGoContract
  <2> QED
    BY <2>1, <2>2, <2>3, <2>4, <2>5, <2>6 DEF WorkerStep, RunOnceEnds
<1>5. CASE Tick
  <2>1. \A a : HeldAfter(k, a) <=> HeldBefore(k, a)
    BY <1>5, TickHolder, SameHolders DEF EInv
  <2> QED
    BY <1>5, <2>1, TickRow, KeptContract DEF EInv
<1> QED
  BY <1>1, <1>2, <1>3, <1>4, <1>5
  DEF Next, Redeliver, EnqueueAgain, IngestIgnorable, vars

LEMMA InitContract ==
  ASSUME Init
  PROVE  /\ Rows = [k \in Key |-> [status |-> "absent", tries |-> 0, holder |-> 0]]
         /\ Executing = [k \in Key |-> {}]
<1>1. \A k \in Key : jobs[k].status = "absent" /\ jobs[k].attempts = 0
  BY DEF Init, NoJob
<1>2. \A w \in Worker : held[w].phase = "down"
  BY DEF Init, NotHolding
<1> QED
  BY <1>1, <1>2 DEF Rows, Executing, Holds

(* The queue keeps the contract that the models of the handlers rely on:     *)
(* whatever leases, sweeps, zombies, crashes and late reports do, a handler  *)
(* sees its job taken when no lease is on it, at most max_attempts times,    *)
(* and a report count only under the token it was claimed with.              *)
THEOREM QueueKeepsContract == Spec => ImplementsExecutions
<1>1. Init => Executions!Init
  BY InitContract DEF Executions!Init, Executions!Unfiled
<1>2. ASSUME EInv, [Next]_vars
      PROVE  Executions!Next
  <2> SUFFICES ASSUME NEW k \in Key PROVE Executions!JobStep(k)
    BY DEF Executions!Next
  <2>1. ContractStep(k)
    BY <1>2, NextContract
  <2> QED
    BY <2>1 DEF ContractStep, ReletStep, Executions!JobStep
<1>3. EInv /\ [Next]_vars => [Executions!Next]_(Executions!contractVars)
  BY <1>2
<1> QED
  BY <1>1, <1>3, SpecEInv, PTL DEF Spec, ImplementsExecutions, Executions!Spec

-----------------------------------------------------------------------------
(* Without stalls *)

AllTimely ==
  \A w \in Worker : held[w].phase = "handling" => held[w].renewal = "timely"

LEMMA CalmStep ==
  ASSUME EInv, AllTimely, [Next /\ \A w \in Worker : ~Stall(w)]_vars
  PROVE  AllTimely'
<1>1. CASE held' = held
  BY <1>1 DEF AllTimely
<1>2. CASE Tick
  BY <1>2, TickHolder DEF AllTimely, EInv
<1>3. CASE \E w \in Worker : WorkerStep(w) /\ ~Stall(w)
  <2> SUFFICES ASSUME NEW w \in Worker, WorkerStep(w), ~Stall(w)
               PROVE  AllTimely'
    BY <1>3
  <2>1. CASE Claim(w)
    BY <2>1 DEF Claim, AllTimely, EInv, IInv, TypeOK
  <2>2. CASE Renew(w)
    <3>1. Fenced(w)
      BY <2>2 DEF Renew, AllTimely, EInv, IInv, TimelyHolderKeepsLease
    <3>2. held[w] \in Holder
          /\ held' = [held EXCEPT ![w] = [@ EXCEPT !.beat = Beat, !.renewal = "timely"]]
      BY <2>2, <3>1 DEF Renew, EInv, IInv, TypeOK
    <3> QED
      BY <3>2 DEF Holder, AllTimely, EInv, IInv, TypeOK
  <2>3. CASE Start(w) \/ Stop(w) \/ Crash(w) \/ HandlerEnds(w)
    BY <2>3, LetGoHolders DEF AllTimely, EInv, Start, Stop, Crash, HandlerEnds
  <2>4. CASE held' = held
    BY <2>4, <1>1
  <2> QED
    BY <2>1, <2>2, <2>3, <2>4
    DEF WorkerStep, ClaimNothing, RunOnceEnds, Complete, Fail, LoseLease
<1> QED
  BY <1>1, <1>2, <1>3
  DEF Next, vars, IngestActionable, IngestIgnorable, Redeliver, Enqueue, EnqueueAgain

LEMMA CalmInvariant == CalmSpec => [](EInv /\ AllTimely)
<1>1. Init => EInv /\ AllTimely
  <2>1. Init => \A w \in Worker : held[w].phase = "down"
    BY DEF Init, NotHolding
  <2> QED
    BY <2>1, InitEInv DEF AllTimely
<1>2. EInv /\ AllTimely /\ [Next /\ \A w \in Worker : ~Stall(w)]_vars
        => (EInv /\ AllTimely)'
  BY CalmStep, NextEInv
<1> QED
  BY <1>1, <1>2, PTL DEF CalmSpec

\* A lease does not expire under a handler that renews it.
LEMMA CalmLeases ==
  ASSUME EInv, AllTimely, NEW k \in Key, Expired(jobs[k])
  PROVE  ~GoesOn(k)
<1> SUFFICES ASSUME GoesOn(k) PROVE FALSE
  OBVIOUS
<1>1. PICK v \in Worker : held[v].phase = "handling" /\ held[v].job = k
  BY DEF GoesOn, HeldBefore, Holds
<1>2. jobs[k].lease >= held[v].beat
  BY <1>1 DEF AllTimely, EInv, IInv, TimelyHolderKeepsLease
<1>3. jobs[k].lease \in Int /\ held[v].beat \in Nat
  BY DEF EInv, IInv, TypeOK, JobRow, Holder
<1> QED
  BY <1>2, <1>3 DEF Expired

(* While no renewal thread stalls, the queue keeps the stricter contract: a  *)
(* lease ends under its handler's report or with its process and never while *)
(* the handler goes on, which is what the runs without stalls take for given.*)
THEOREM CalmQueueKeepsContract == CalmSpec => ImplementsCalmExecutions
<1>1. Init => CalmExecutions!Init
  BY InitContract DEF CalmExecutions!Init, CalmExecutions!Unfiled
<1>2. ASSUME EInv, AllTimely, [Next]_vars
      PROVE  CalmExecutions!Next
  <2> SUFFICES ASSUME NEW k \in Key PROVE CalmExecutions!JobStep(k)
    BY DEF CalmExecutions!Next
  <2>1. ContractStep(k)
    BY <1>2, NextContract
  <2>2. CASE Executions!Accept(k) \/ Executions!Rest(k)
    BY <2>2
    DEF Executions!Accept, Executions!Rest, Executions!Filed, CalmExecutions!JobStep,
        CalmExecutions!Accept, CalmExecutions!Rest, CalmExecutions!Filed
  <2>3. ASSUME NEW r \in 1..MaxAttempts, Executions!Claim(k, r)
        PROVE  CalmExecutions!Claim(k, r)
    BY <2>3
    DEF Executions!Claim, Executions!IsClaimable, Executions!Taken,
        CalmExecutions!Claim, CalmExecutions!IsClaimable, CalmExecutions!Taken
  <2>4. ASSUME NEW r \in 1..MaxAttempts, NEW outcome \in {"ok", "retry", "refused"},
               Executions!Finish(k, r, outcome)
        PROVE  CalmExecutions!Finish(k, r, outcome)
    BY <2>4
    DEF Executions!Finish, Executions!Reported, Executions!Lapsed,
        CalmExecutions!Finish, CalmExecutions!Reported, CalmExecutions!Lapsed
  <2>5. ASSUME Expired(jobs[k]), NEW r \in 1..MaxAttempts, Executions!Relet(k, r),
               r \notin Executing[k] \ {Rows[k].holder},
               Executing'[k] = (Executing[k] \ {Rows[k].holder}) \cup {r}
        PROVE  CalmExecutions!Relet(k, r)
    <3>1. /\ {Rows[k].holder} \in SUBSET {Rows[k].holder}
          /\ {Rows[k].holder} # {}
      OBVIOUS
    <3> QED
      BY <2>5, <3>1
      DEF Executions!Relet, Executions!IsClaimable, Executions!Taken, Executions!Lapsed,
          CalmExecutions!Relet, CalmExecutions!IsClaimable, CalmExecutions!Taken,
          CalmExecutions!Lapsed
  <2>6. Expired(jobs[k]) => ~GoesOn(k)
    BY <1>2, CalmLeases
  <2> QED
    BY <2>1, <2>2, <2>3, <2>4, <2>5, <2>6
    DEF ContractStep, ReletStep, CalmExecutions!JobStep
<1>3. EInv /\ AllTimely /\ [Next /\ \A w \in Worker : ~Stall(w)]_vars
        => [CalmExecutions!Next]_(CalmExecutions!contractVars)
  BY <1>2
<1> QED
  BY <1>1, <1>3, CalmInvariant, PTL
  DEF CalmSpec, ImplementsCalmExecutions, CalmExecutions!Spec

(* While no renewal thread stalls, no two processes execute the same job,    *)
(* however often they crash and are restarted: what AppealDecidedOnce and    *)
(* PromisedReviewIsQueued of LearnerCommands presume.                        *)
OneExecutionPerJob ==
  \A v, w \in Worker :
    held[v].phase = "handling" /\ held[w].phase = "handling"
      /\ held[v].job = held[w].job => v = w

THEOREM CalmQueueRunsOneExecution == CalmSpec => []OneExecutionPerJob
<1>1. EInv /\ AllTimely => OneExecutionPerJob
  BY DEF EInv, IInv, AllTimely, TimelyHolderKeepsLease, Fenced, OneExecutionPerJob
<1> QED
  BY <1>1, CalmInvariant, PTL

=============================================================================
