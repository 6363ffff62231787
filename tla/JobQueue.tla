------------------------------- MODULE JobQueue -------------------------------
(***************************************************************************)
(* The durable event store, job queue and worker of jobs.py: webhook       *)
(* deliveries are stored once and become jobs, worker processes lease      *)
(* jobs, renew their leases from a heartbeat thread, and settle or requeue *)
(* them. A worker may stall, lose its lease and still finish its handler   *)
(* (a zombie), or crash with a lease held.                                 *)
(*                                                                         *)
(* Every action that writes SQLite is one BEGIN IMMEDIATE transaction of   *)
(* the code. Time is kept as the ticks left to each deadline, so the state *)
(* space is finite without bounding the clock: "lease" counts down to -1,  *)
(* which is leased_until < now, and "due" to 0, available_at <= now.       *)
(* jobs.id is identified with the UNIQUE deduplication_key and events.id   *)
(* with the UNIQUE (source, delivery_id). A lease token is a fresh uuid4;  *)
(* the attempt number it was drawn for stands for it (tokens are only      *)
(* compared together with the job's id).                                   *)
(***************************************************************************)
EXTENDS Integers, FiniteSets

CONSTANTS
  Actionable,    \* deliveries whose event type EVENT_JOB_KIND maps to a job
  Ignorable,     \* deliveries of other types, and ping
  Internal,      \* keys of jobs the handlers enqueue themselves (no event)
  Worker,        \* worker processes (a restarted one is again a process)
  NoWorker, NoKey,
  Priority,      \* [Key -> Nat], lower runs first
  MaxAttempts,   \* jobs.max_attempts
  Lease,         \* lease_seconds, in ticks
  Beat,          \* heartbeat_interval_seconds, in ticks
  RetryDelay     \* [1..MaxAttempts -> Nat], the backoff of fail()

Key == Actionable \cup Internal
Delivery == Actionable \cup Ignorable

\* min(cap, base * 2^(attempts - 1)): fail() has 15 and 3600 seconds.
Backoff(base, cap) ==
  [a \in 1..MaxAttempts |->
     IF base * 2 ^ (a - 1) < cap THEN base * 2 ^ (a - 1) ELSE cap]

ASSUME KeysAssumption ==
  /\ Actionable \cap Internal = {} /\ Actionable \cap Ignorable = {}
  /\ NoWorker \notin Worker /\ NoKey \notin Key
  /\ Priority \in [Key -> Nat]

ASSUME TimingAssumption ==
  /\ MaxAttempts \in Nat \ {0}
  /\ Lease \in Nat /\ Beat \in Nat \ {0} /\ Beat <= Lease
  /\ RetryDelay \in [1..MaxAttempts -> Nat]

VARIABLES
  events,    \* [Delivery -> EventStatus], the events table
  jobs,      \* [Key -> JobRow], the jobs table
  second,    \* the wall-clock second of the latest insertion (jobs.created_at)
  held,      \* [Worker -> Holder], each process's Job object and renewal thread
  registry   \* [Worker -> RegistryStatus], the worker_heartbeats table

vars == <<events, jobs, second, held, registry>>

EventStatus == {"absent", "ignored", "queued", "retrying", "processed", "failed"}
JobStatus == {"absent", "queued", "running", "completed", "dead_letter"}
\* jobs.last_error: a handler's diagnostic, or 'Worker lease expired after maximum attempts'
LastError == {"none", "raised", "expired"}
RegistryStatus == {"absent", "running", "stopped"}

JobRow ==
  [status : JobStatus, attempts : 0..MaxAttempts, due : Nat, lease : Int,
   owner : Worker \cup {NoWorker}, token : 0..MaxAttempts,
   error : LastError,
   created : Nat]

Holder ==
  [phase : {"down", "idle", "handling"}, job : Key \cup {NoKey},
   attempt : 0..MaxAttempts,   \* Job.attempts, and the token drawn for it
   beat : Nat,                 \* ticks until the renewal thread beats
   renewal : {"timely", "late", "ended"}]

NoJob == [status |-> "absent", attempts |-> 0, due |-> 0, lease |-> 0,
          owner |-> NoWorker, token |-> 0, error |-> "none", created |-> 0]
NotHolding(phase) == [phase |-> phase, job |-> NoKey, attempt |-> 0,
                      beat |-> 0, renewal |-> "ended"]

TypeOK ==
  /\ events \in [Delivery -> EventStatus]
  /\ jobs \in [Key -> JobRow]
  /\ second \in Nat
  /\ held \in [Worker -> Holder]
  /\ registry \in [Worker -> RegistryStatus]

Init ==
  /\ events = [d \in Delivery |-> "absent"]
  /\ jobs = [k \in Key |-> NoJob]
  /\ second = 0
  /\ held = [w \in Worker |-> NotHolding("down")]
  /\ registry = [w \in Worker |-> "absent"]

-----------------------------------------------------------------------------
(* Filing work *)

NewJob(at) == [NoJob EXCEPT !.status = "queued", !.created = at]

\* INSERT OR IGNORE: a known delivery or deduplication key inserts nothing.
\* Mutant: the delivery_id is not UNIQUE, so a redelivery is stored afresh.
IsNewDeliveryAlways(d) == TRUE
IsNewDelivery(d) == events[d] = "absent"
IsNewKey(k) == jobs[k].status = "absent"

File(k) ==
  /\ second' \in {second, second + 1}
  /\ jobs' = [jobs EXCEPT ![k] = NewJob(second')]

IngestActionable(d) ==
  /\ IsNewDelivery(d)
  /\ File(d)
  /\ events' = [events EXCEPT ![d] = "queued"]
  /\ UNCHANGED <<held, registry>>

IngestIgnorable(d) ==
  /\ IsNewDelivery(d)
  /\ events' = [events EXCEPT ![d] = "ignored"]
  /\ UNCHANGED <<jobs, second, held, registry>>

Redeliver(d) == ~IsNewDelivery(d) /\ UNCHANGED vars

Enqueue(k) ==
  /\ IsNewKey(k)
  /\ File(k)
  /\ UNCHANGED <<events, held, registry>>

EnqueueAgain(k) == ~IsNewKey(k) /\ UNCHANGED vars

-----------------------------------------------------------------------------
(* Leasing *)

Expired(row) == row.status = "running" /\ row.lease < 0

Unleased(row, status) ==
  [row EXCEPT !.status = status, !.lease = 0, !.owner = NoWorker, !.token = 0]

\* Mutants of Swept: attempts are not compared; expired leases are not recovered.
SweptToQueue(row) == IF Expired(row) THEN Unleased(row, "queued") ELSE row
SweptNever(row) == row

\* The two UPDATEs with which claim() recovers expired leases.
Swept(row) ==
  IF ~Expired(row) THEN row
  ELSE IF row.attempts >= MaxAttempts
       THEN [Unleased(row, "dead_letter") EXCEPT !.error = "expired"]
       ELSE Unleased(row, "queued")

SweptJobs == [k \in Key |-> Swept(jobs[k])]

\* Mutant: the events of swept jobs are left as they were.
SweptEventsIgnored(rows) == events

SweptEvents(rows) ==
  [d \in Delivery |->
     IF d \in Actionable /\ rows[d].status = "dead_letter" /\ rows[d].error = "expired"
     THEN "failed" ELSE events[d]]

Claimable(rows) == {k \in Key : rows[k].status = "queued" /\ rows[k].due = 0}

\* ORDER BY priority, created_at: rows of one second come in any order.
ComesFirst(k, rows) ==
  /\ k \in Claimable(rows)
  /\ \A other \in Claimable(rows) :
       \/ Priority[k] < Priority[other]
       \/ /\ Priority[k] = Priority[other]
          /\ rows[k].created <= rows[other].created

Leased(row, w) ==
  [row EXCEPT !.status = "running", !.attempts = row.attempts + 1,
              !.lease = Lease, !.owner = w, !.token = row.attempts + 1]

\* run_once() up to the handler: worker_heartbeat(), then claim().
Claim(w) ==
  /\ held[w].phase = "idle"
  /\ \E k \in Key :
       /\ ComesFirst(k, SweptJobs)
       /\ jobs' = [SweptJobs EXCEPT ![k] = Leased(SweptJobs[k], w)]
       /\ held' = [held EXCEPT ![w] =
                     [phase |-> "handling", job |-> k,
                      attempt |-> SweptJobs[k].attempts + 1,
                      beat |-> Beat, renewal |-> "timely"]]
  /\ events' = SweptEvents(SweptJobs)
  /\ registry' = [registry EXCEPT ![w] = "running"]
  /\ UNCHANGED second

ClaimNothing(w) ==
  /\ held[w].phase = "idle"
  /\ Claimable(SweptJobs) = {}
  /\ jobs' = SweptJobs
  /\ events' = SweptEvents(SweptJobs)
  /\ registry' = [registry EXCEPT ![w] = "running"]
  /\ UNCHANGED <<second, held>>

-----------------------------------------------------------------------------
(* Renewing: the heartbeat thread of _run_handler *)

\* Mutants of Fenced: the lease token and owner are not compared; nothing is.
FencedByStatus(w) == jobs[held[w].job].status = "running"
FencedNever(w) == TRUE

\* WHERE id=? AND status='running' AND worker_id=? AND lease_token=?
Fenced(w) ==
  LET row == jobs[held[w].job]
  IN  row.status = "running" /\ row.owner = w /\ row.token = held[w].attempt

\* Mutant: the heartbeat does not extend leased_until.
RenewedNothing(row) == row
Renewed(row) == [row EXCEPT !.lease = Lease]

Renew(w) ==
  /\ held[w].phase = "handling" /\ held[w].renewal # "ended" /\ held[w].beat = 0
  /\ registry' = [registry EXCEPT ![w] = "running"]
  /\ \/ /\ Fenced(w)
        /\ jobs' = [jobs EXCEPT ![held[w].job] = Renewed(@)]
        /\ held' = [held EXCEPT ![w] = [@ EXCEPT !.beat = Beat, !.renewal = "timely"]]
     \/ /\ ~Fenced(w)
        /\ jobs' = jobs
        /\ held' = [held EXCEPT ![w] = [@ EXCEPT !.renewal = "ended"]]
  /\ UNCHANGED <<events, second>>

\* The process is suspended, SQLite stays busy, or the thread dies of an
\* exception: its beat is overdue, and may come late or never.
Stall(w) ==
  /\ held[w].phase = "handling" /\ held[w].renewal = "timely" /\ held[w].beat = 0
  /\ held' = [held EXCEPT ![w] = [@ EXCEPT !.renewal = "late"]]
  /\ UNCHANGED <<events, jobs, second, registry>>

-----------------------------------------------------------------------------
(* Settling: the end of run_once *)

HandlerEnds(w) ==
  /\ held[w].phase = "handling"
  /\ held' = [held EXCEPT ![w] = NotHolding("idle")]
  /\ registry' = [registry EXCEPT ![w] = "running"]
  /\ UNCHANGED second

SetEvent(k, status) ==
  [d \in Delivery |-> IF d = k THEN status ELSE events[d]]

Complete(w) ==
  /\ HandlerEnds(w)
  /\ Fenced(w)
  /\ jobs' = [jobs EXCEPT ![held[w].job] = Unleased(@, "completed")]
  /\ events' = SetEvent(held[w].job, "processed")

\* Any BaseException ends here; only a TutorError may be retryable. Nothing
\* reads available_at of a dead letter, which is left at 0.
Fail(w, retryable) ==
  LET attempt == held[w].attempt
      status == IF attempt >= MaxAttempts \/ ~retryable
                THEN "dead_letter" ELSE "queued"
  IN  /\ HandlerEnds(w)
      /\ Fenced(w)
      /\ jobs' = [jobs EXCEPT ![held[w].job] =
                    [Unleased(@, status) EXCEPT
                       !.due = IF status = "queued" THEN RetryDelay[attempt] ELSE 0,
                       !.error = "raised"]]
      /\ events' = SetEvent(held[w].job,
                            IF status = "dead_letter" THEN "failed" ELSE "retrying")

\* complete() returns False and fail() 'lost_lease': nothing is written.
LoseLease(w) ==
  /\ HandlerEnds(w)
  /\ ~Fenced(w)
  /\ UNCHANGED <<jobs, events>>

RunOnceEnds(w) ==
  Complete(w) \/ (\E retryable \in BOOLEAN : Fail(w, retryable)) \/ LoseLease(w)

-----------------------------------------------------------------------------
(* Processes and time *)

Start(w) ==
  /\ held[w].phase = "down"
  /\ held' = [held EXCEPT ![w] = NotHolding("idle")]
  /\ UNCHANGED <<events, jobs, second, registry>>

Stop(w) ==
  /\ held[w].phase = "idle"
  /\ held' = [held EXCEPT ![w] = NotHolding("down")]
  /\ registry' = [registry EXCEPT ![w] = IF @ = "absent" THEN "absent" ELSE "stopped"]
  /\ UNCHANGED <<events, jobs, second>>

\* SIGKILL, SIGTERM (no handler is installed) or a host reboot.
Crash(w) ==
  /\ held[w].phase # "down"
  /\ held' = [held EXCEPT ![w] = NotHolding("down")]
  /\ UNCHANGED <<events, jobs, second, registry>>

CountDown(n, floor) == IF n > floor THEN n - 1 ELSE floor

\* A healthy renewal thread beats when its interval is over, before the next tick.
Tick ==
  /\ \A w \in Worker :
       ~(held[w].phase = "handling" /\ held[w].renewal = "timely" /\ held[w].beat = 0)
  /\ jobs' = [k \in Key |->
                [jobs[k] EXCEPT
                   !.due = CountDown(jobs[k].due, 0),
                   !.lease = IF jobs[k].status = "running"
                             THEN CountDown(jobs[k].lease, -1) ELSE jobs[k].lease]]
  /\ held' = [w \in Worker |-> [held[w] EXCEPT !.beat = CountDown(held[w].beat, 0)]]
  /\ UNCHANGED <<events, second, registry>>

WorkerStep(w) ==
  \/ Claim(w) \/ ClaimNothing(w)
  \/ Renew(w) \/ Stall(w)
  \/ RunOnceEnds(w)
  \/ Start(w) \/ Stop(w) \/ Crash(w)

Next ==
  \/ \E d \in Actionable : IngestActionable(d)
  \/ \E d \in Ignorable : IngestIgnorable(d)
  \/ \E d \in Delivery : Redeliver(d)
  \/ \E k \in Internal : Enqueue(k) \/ EnqueueAgain(k)
  \/ \E w \in Worker : WorkerStep(w)
  \/ Tick

Spec == Init /\ [][Next]_vars

(***************************************************************************)
(* Fairness. Time passes; a healthy renewal thread beats; compose and      *)
(* systemd restart a worker that is down; the handlers' subprocess and     *)
(* HTTP timeouts end every handler; and a worker that keeps being          *)
(* restarted claims sooner or later.                                       *)
(***************************************************************************)
Fairness ==
  /\ WF_vars(Tick)
  /\ \A w \in Worker :
       /\ WF_vars(Renew(w))
       /\ WF_vars(Start(w))
       /\ WF_vars(RunOnceEnds(w))
       /\ SF_vars(Claim(w) \/ ClaimNothing(w))

FairSpec == Spec /\ Fairness

-----------------------------------------------------------------------------
(* Properties *)

Settled == {"completed", "dead_letter"}

(* While a worker's renewal thread beats on time, the row it leased is still *)
(* its own and the lease outlives the next beat: claim() cannot hand the job *)
(* to another worker, so at most one healthy worker executes a job.          *)
TimelyHolderKeepsLease ==
  \A w \in Worker :
    held[w].phase = "handling" /\ held[w].renewal = "timely" =>
      Fenced(w) /\ jobs[held[w].job].lease >= held[w].beat

(* Recovery and retries never put a job back that has used its attempts, and *)
(* a lease always belongs to the latest attempt: a queued row can be claimed *)
(* again within max_attempts.                                                *)
QueuedHasAttemptsLeft ==
  \A k \in Key :
    /\ jobs[k].status = "queued" => jobs[k].attempts < MaxAttempts
    /\ jobs[k].status = "running" => jobs[k].token = jobs[k].attempts

(* The events table tells the outcome of the job each delivery became, also  *)
(* when a crash, a retry or lease recovery settled or requeued it.           *)
EventTellsOutcome ==
  \A d \in Actionable :
    /\ events[d] = "absent" <=> jobs[d].status = "absent"
    /\ events[d] = "processed" <=> jobs[d].status = "completed"
    /\ events[d] = "failed" <=> jobs[d].status = "dead_letter"

(* A settled job never runs or changes again, whatever a worker that lost    *)
(* its lease reports later and however often its delivery is repeated.       *)
SettledForever ==
  [][\A k \in Key : jobs[k].status \in Settled => jobs'[k] = jobs[k]]_vars

(* A lease ends only when its own holder reports, or after it expired: the   *)
(* late report of an earlier holder changes nothing.                         *)
LeaseEndsByHolderOrExpiry ==
  [][\A k \in Key :
       /\ jobs[k].status = "running"
       /\ jobs'[k].status # "running" \/ jobs'[k].token # jobs[k].token
       => \/ Expired(jobs[k])
          \/ \E w \in Worker :
               /\ w = jobs[k].owner
               /\ held[w].job = k /\ held[w].attempt = jobs[k].token
               /\ held[w].phase = "handling" /\ held'[w].phase = "idle"]_vars

(* Every job that was filed ends completed or dead-lettered, through any     *)
(* number of crashes, stalls and retryable failures.                         *)
FiledJobSettles ==
  \A k \in Key : jobs[k].status = "queued" ~> jobs[k].status \in Settled

(* The queue keeps the promise of JobLedger.                                 *)
Standing ==
  [k \in Key |-> CASE jobs[k].status = "absent" -> "unknown"
                   [] jobs[k].status \in {"queued", "running"} -> "open"
                   [] jobs[k].status \in Settled -> jobs[k].status]
Tries == [k \in Key |-> jobs[k].attempts]

Ledger == INSTANCE JobLedger WITH standing <- Standing, tries <- Tries

ImplementsLedger == Ledger!Spec

(* The queue keeps the contract its handlers are modelled under. A lease is  *)
(* named by its token, and so is the execution it was drawn for. The         *)
(* execution of a worker that crashed lasts until its lease is recovered:    *)
(* until then nobody else can take the job.                                  *)
Holds(w, k, a) ==
  held[w].phase = "handling" /\ held[w].job = k /\ held[w].attempt = a

Rows ==
  [k \in Key |->
     [status |-> IF jobs[k].status \in {"queued", "running"} THEN "open" ELSE jobs[k].status,
      tries |-> jobs[k].attempts,
      holder |-> IF jobs[k].status = "running" THEN jobs[k].token ELSE 0]]
Executing ==
  [k \in Key |->
     {a \in 1..MaxAttempts :
        \/ \E w \in Worker : Holds(w, k, a)
        \/ jobs[k].status = "running" /\ jobs[k].token = a}]

Executions == INSTANCE HandlerExecutions WITH
  Runner <- 1..MaxAttempts, NoRunner <- 0, MaxTries <- MaxAttempts,
  Stalls <- TRUE, rows <- Rows, executing <- Executing

ImplementsExecutions == Executions!Spec

(* While every renewal thread beats on time, no lease lapses under a handler *)
(* that goes on: the contract without stalls.                                *)
CalmSpec == Init /\ [][Next /\ \A w \in Worker : ~Stall(w)]_vars

CalmExecutions == INSTANCE HandlerExecutions WITH
  Runner <- 1..MaxAttempts, NoRunner <- 0, MaxTries <- MaxAttempts,
  Stalls <- FALSE, rows <- Rows, executing <- Executing

ImplementsCalmExecutions == CalmExecutions!Spec
=============================================================================
