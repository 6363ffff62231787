----------------------------- MODULE HandlerJobs -----------------------------
(***************************************************************************)
(* What the event handlers see of JobQueue: a job is executed up to        *)
(* MaxTries times, one lease at a time, and the report of an execution     *)
(* whose lease is gone counts for nothing. Leases and clocks are JobQueue's *)
(* concern; here a lease simply ends.                                      *)
(***************************************************************************)
EXTENDS Naturals

CONSTANTS
  Runner,        \* concurrent handler executions
  NoRunner,
  MaxTries       \* jobs.max_attempts

ASSUME HandlerJobsAssumption ==
  NoRunner \notin Runner /\ MaxTries \in Nat \ {0}

JobRow == [status : {"absent", "open", "completed", "dead_letter"},
           tries : 0..MaxTries, holder : Runner \cup {NoRunner}]
Unfiled == [status |-> "absent", tries |-> 0, holder |-> NoRunner]
Filed(row) == IF row.status = "absent" THEN [row EXCEPT !.status = "open"] ELSE row

IsClaimable(row) == row.status = "open" /\ row.holder = NoRunner
Taken(row, r) == [row EXCEPT !.holder = r, !.tries = @ + 1]

\* Mutant: a job that used its tries is queued again.
LapsedToQueue(row) == [row EXCEPT !.holder = NoRunner, !.status = "open"]

\* claim() after a lapsed lease, and fail() with a retryable error.
Lapsed(row) ==
  [row EXCEPT !.holder = NoRunner,
              !.status = IF row.tries = MaxTries THEN "dead_letter" ELSE "open"]

\* complete() and fail(), which write only while the lease is still r's.
Reported(row, r, outcome) ==
  CASE row.holder # r -> row
    [] row.holder = r /\ outcome = "ok" ->
         [row EXCEPT !.holder = NoRunner, !.status = "completed"]
    [] row.holder = r /\ outcome = "retry" -> Lapsed(row)
    [] row.holder = r /\ outcome = "refused" ->
         [row EXCEPT !.holder = NoRunner, !.status = "dead_letter"]
=============================================================================
