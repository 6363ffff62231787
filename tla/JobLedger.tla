------------------------------ MODULE JobLedger ------------------------------
(***************************************************************************)
(* What the durable queue promises to the code that files work in it,      *)
(* whatever workers, leases, retries and crashes do underneath: a job is   *)
(* accepted once per deduplication key, is attempted at most MaxAttempts   *)
(* times, and is settled at most once, never before its first attempt.     *)
(* Keys progress independently: one transaction of the queue may settle    *)
(* some jobs and start another.                                            *)
(***************************************************************************)
EXTENDS Naturals

CONSTANTS
  Key,          \* deduplication keys
  MaxAttempts   \* jobs.max_attempts

VARIABLES
  standing,     \* [Key -> Standing]
  tries         \* [Key -> Nat], attempts started so far

ledgerVars == <<standing, tries>>

Standing == {"unknown", "open", "completed", "dead_letter"}

Init ==
  /\ standing = [k \in Key |-> "unknown"]
  /\ tries = [k \in Key |-> 0]

Accept(k) ==
  /\ standing[k] = "unknown" /\ standing'[k] = "open"
  /\ tries[k] = 0 /\ tries'[k] = 0

Attempt(k) ==
  /\ standing[k] = "open" /\ standing'[k] = "open"
  /\ tries[k] < MaxAttempts /\ tries'[k] = tries[k] + 1

Settle(k) ==
  /\ standing[k] = "open" /\ standing'[k] \in {"completed", "dead_letter"}
  /\ tries[k] > 0 /\ tries'[k] = tries[k]

Rest(k) == standing'[k] = standing[k] /\ tries'[k] = tries[k]

Next == \A k \in Key : Accept(k) \/ Attempt(k) \/ Settle(k) \/ Rest(k)

Spec == Init /\ [][Next]_ledgerVars
=============================================================================
