----------------------------- MODULE MCJobQueue -----------------------------
(* Instances of JobQueue for TLC. *)
EXTENDS JobQueue, TLC

CONSTANTS push, ci, ping, appeal, w1, w2

MCPriority == [k \in Key |-> 100]
MCRetryDelay == Backoff(1, 2)
MCSymmetry == Permutations(Worker)
=============================================================================
