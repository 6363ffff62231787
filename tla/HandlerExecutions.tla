-------------------------- MODULE HandlerExecutions --------------------------
(***************************************************************************)
(* The contract between the queue and the event handlers: JobQueue keeps   *)
(* it, the modules of the handlers run under it. HandlerJobs has what one  *)
(* operation does to a job's row; here is when the operations come, and    *)
(* which executions of a handler are under way meanwhile. An execution     *)
(* goes on after its lease is lost, and a process that dies takes its      *)
(* executions with it. Keys progress independently, as in JobLedger: one   *)
(* transaction may recover several leases and take another.                *)
(***************************************************************************)
EXTENDS HandlerJobs

CONSTANTS
  Key,
  Stalls       \* whether a renewal thread may stall, and a lease lapse under it

VARIABLES
  rows,        \* [Key -> JobRow]
  executing    \* [Key -> SUBSET Runner], the executions of the job's handler

contractVars == <<rows, executing>>

Init ==
  /\ rows = [k \in Key |-> Unfiled]
  /\ executing = [k \in Key |-> {}]

Accept(k) ==
  /\ rows[k].status = "absent" /\ rows'[k] = Filed(rows[k])
  /\ executing'[k] = executing[k]

Claim(k, r) ==
  /\ IsClaimable(rows[k]) /\ rows[k].tries < MaxTries
  /\ rows'[k] = Taken(rows[k], r)
  /\ r \notin executing[k] /\ executing'[k] = executing[k] \cup {r}

\* The handler ends and reports, or its process dies ("retry": the lease of a
\* dead process lapses later, and nobody else can take the job before).
Finish(k, r, outcome) ==
  /\ r \in executing[k] /\ executing'[k] = executing[k] \ {r}
  /\ rows'[k] = Reported(rows[k], r, outcome)

\* The lease ends, the handler that held it goes on.
Lapse(k) ==
  /\ Stalls
  /\ rows[k].holder # NoRunner /\ rows'[k] = Lapsed(rows[k])
  /\ executing'[k] = executing[k]

\* claim() recovers a lease and takes the same job, in one transaction.
Relet(k, r) ==
  /\ rows[k].holder # NoRunner /\ IsClaimable(Lapsed(rows[k]))
  /\ rows'[k] = Taken(Lapsed(rows[k]), r)
  /\ \E gone \in SUBSET {rows[k].holder} :
       /\ gone = {} => Stalls
       /\ r \notin executing[k] \ gone
       /\ executing'[k] = (executing[k] \ gone) \cup {r}

Rest(k) == rows'[k] = rows[k] /\ executing'[k] = executing[k]

JobStep(k) ==
  \/ Accept(k) \/ Lapse(k) \/ Rest(k)
  \/ \E r \in Runner :
       \/ Claim(k, r) \/ Relet(k, r)
       \/ \E outcome \in {"ok", "retry", "refused"} : Finish(k, r, outcome)

Next == \A k \in Key : JobStep(k)

Spec == Init /\ [][Next]_contractVars
=============================================================================
