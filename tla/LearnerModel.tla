------------------------------ MODULE LearnerModel ------------------------------
(***************************************************************************)
(* The misconceptions of a learner as evaluations are applied: learner.py.  *)
(*                                                                         *)
(* One concept and one misconception about it (one fingerprint); rows of   *)
(* other concepts and fingerprints are never read together with these. An  *)
(* evaluation is one transaction (apply_evaluation) that applies every     *)
(* finding of the review in its order. The evaluation has passed           *)
(* _validate_qualitative: it observes the one concept that an assignment   *)
(* targets, in the format of its assignment, and names a transfer context  *)
(* only with success. Each assignment has any number of attempts, and the  *)
(* result of an attempt is applied whenever it arrives, be it after those  *)
(* of later assignments. The concept's mastery row, averages of its        *)
(* evidence that no finding reads, is left out.                            *)
(***************************************************************************)
EXTENDS Integers, SequencesExt

CONSTANTS
  Formats, Contexts,   \* exercise types; normalized transfer contexts
  NoContext,
  Assignments,         \* bound: assignments made
  Evaluations,         \* bound: evaluations applied
  Findings             \* bound: findings of one evaluation about this misconception

ASSUME LearnerAssumption ==
  /\ Assignments \in Nat /\ Evaluations \in Nat /\ Findings \in Nat
  /\ NoContext \notin Contexts

Action == {"suspect", "confirm", "challenge", "resolve", "recur"}
MisconceptionStatus == {"absent", "suspected", "active", "challenged", "resolved", "recurred"}
FindingLists == BoundedSeq(Action, Findings)

\* What the evaluation-th evaluation says of the concept; a partial success and a
\* failure count the same.
Observation == {o \in [evaluation : 1..Evaluations, assignment : 1..Assignments,
                       format : Formats, success : BOOLEAN, context : Contexts \cup {NoContext}] :
                  ~o.success => o.context = NoContext}

\* misconception_evidence; evaluation stands for attempt and time of observation.
\* Of the action, whether it was a challenge is read.
EvidenceRow == [evaluation : 1..Evaluations, assignment : 1..Assignments, format : Formats,
                context : Contexts \cup {NoContext}, challenge : BOOLEAN]

VARIABLES
  misconception,  \* [status, frequency, evidence, resolvedBy: evaluation or 0]
  assigned,       \* formats of the assignments made
  applied         \* evaluations applied so far
learnerVars == <<misconception, assigned, applied>>

LearnerTypeOK ==
  /\ misconception.status \in MisconceptionStatus
  /\ misconception.frequency \in Nat /\ misconception.evidence \subseteq EvidenceRow
  /\ misconception.resolvedBy \in 0..Evaluations
  /\ assigned \in BoundedSeq(Formats, Assignments)
  /\ applied \in 0..Evaluations

LearnerInit ==
  /\ misconception = [status |-> "absent", frequency |-> 0, evidence |-> {}, resolvedBy |-> 0]
  /\ assigned = <<>> /\ applied = 0

-----------------------------------------------------------------------------
(* One finding *)

\* Mutant: the format of earlier evidence is not compared.
ShowsTransferInAnyFormat(rows, o) ==
  /\ o.success /\ o.context # NoContext
  /\ \E row \in rows : row.challenge
  /\ \A row \in rows : row.assignment # o.assignment /\ row.context # o.context
\* A challenge is on record, and this is another assignment in another format
\* whose success comes with a context not named before.
ShowsTransfer(rows, o) ==
  /\ o.success /\ o.context # NoContext
  /\ \E row \in rows : row.challenge
  /\ \A row \in rows : /\ row.assignment # o.assignment
                       /\ row.format # o.format
                       /\ row.context # o.context

NextMisconceptionStatus(m, action, o) ==
  CASE action = "recur" \/ (m.status = "resolved" /\ action \in {"suspect", "confirm"}) -> "recurred"
    [] action = "confirm" /\ m.status # "resolved" -> "active"
    [] action = "challenge" -> "challenged"
    [] action = "resolve" /\ m.status = "challenged" /\ ShowsTransfer(m.evidence, o) -> "resolved"
    [] OTHER -> m.status

Sighting == {"suspect", "confirm", "recur"}

\* Mutant: off by one.
IsPromotedLater(m, frequency) == m.status = "suspected" /\ frequency > 2
IsPromoted(m, frequency) == m.status = "suspected" /\ frequency >= 2

\* A second sighting makes a suspicion active, whatever the finding said.
ApplyMisconception(m, action, o) ==
  LET frequency == m.frequency + IF action \in Sighting \/ m.status = "absent" THEN 1 ELSE 0
      status == IF m.status = "absent"
                THEN IF action = "confirm" THEN "active" ELSE "suspected"
                ELSE IF IsPromoted(m, frequency) THEN "active"
                ELSE NextMisconceptionStatus(m, action, o)
  IN [status |-> status, frequency |-> frequency,
      evidence |-> m.evidence \cup {[evaluation |-> o.evaluation, assignment |-> o.assignment,
                                     format |-> o.format, context |-> o.context,
                                     challenge |-> action = "challenge"]},
      resolvedBy |-> IF status = "resolved" /\ m.status # "resolved"
                     THEN o.evaluation ELSE m.resolvedBy]

-----------------------------------------------------------------------------
(* Evaluations *)

\* Of an attempt at any assignment made: neither the status of the assignment nor
\* the order of the results is looked at.
ApplyEvaluation ==
  /\ applied < Evaluations
  /\ \E o \in Observation, findings \in FindingLists :
       /\ o.evaluation = applied + 1
       /\ o.assignment \in DOMAIN assigned /\ o.format = assigned[o.assignment]
       /\ misconception' = FoldLeft(LAMBDA m, action : ApplyMisconception(m, action, o),
                                    misconception, findings)
  /\ applied' = applied + 1
  /\ UNCHANGED assigned

\* The orchestrator publishes the next assignment (TutorPlan).
NextAssignment ==
  /\ Len(assigned) < Assignments
  /\ \E f \in Formats : assigned' = Append(assigned, f)
  /\ UNCHANGED <<misconception, applied>>

LearnerNext == ApplyEvaluation \/ NextAssignment
LearnerSpec == LearnerInit /\ [][LearnerNext]_learnerVars

-----------------------------------------------------------------------------
(* Properties *)

\* A misconception stays suspected only while it has been sighted once: another
\* sighting, in the same evaluation or a later one, makes it more than a
\* suspicion, whatever happened in between.
SuspicionIsFirstSighting ==
  misconception.status = "suspected" => misconception.frequency = 1

\* docs/adaptation.md: "Repeating the same answer cannot resolve it. Resolution
\* requires successful evidence in a new exercise format and an explicit transfer
\* context." The evaluation that resolved a misconception came after one that
\* challenged it, and all that came before were of other assignments, in other
\* formats and without its transfer context, over every sequence of findings and
\* attempts, results of earlier assignments that arrive late among them.
ResolutionIsTransfer ==
  misconception.status = "resolved" =>
    \E proof \in misconception.evidence :
      LET earlier == {row \in misconception.evidence : row.evaluation < proof.evaluation} IN
      /\ proof.evaluation = misconception.resolvedBy /\ proof.context # NoContext
      /\ \E row \in earlier : row.challenge
      /\ \A row \in earlier : /\ row.assignment # proof.assignment
                              /\ row.format # proof.format
                              /\ row.context # proof.context
=============================================================================
