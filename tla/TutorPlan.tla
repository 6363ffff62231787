------------------------------- MODULE TutorPlan -------------------------------
(***************************************************************************)
(* What the tutor sets next: create_next_assignment (orchestrator.py) with *)
(* the scheduler's recommendation (scheduler.py), the choice of a          *)
(* blueprint (generation.py) and the checks of the result (assignments.py).*)
(*                                                                         *)
(* The curriculum package is a constant, validated as _validate_graph does.*)
(* A concept's priority is a product of eleven factors of the clock and    *)
(* the learner's rows: any concept may come first. The estimate of its     *)
(* mastery is any of the bands the difficulty tells apart, and a study     *)
(* session brings any formats, energy and time. Formats are numbered in    *)
(* the order of ExerciseType. Each assignment is evaluated once, about its *)
(* concept, or withdrawn before the next, and no two rows of a query share *)
(* their time. A refusal raises before anything is stored, so it is no     *)
(* step here; the checks of the authored text pass for every blueprint or  *)
(* for none.                                                               *)
(***************************************************************************)
EXTENDS Integers, SequencesExt

CONSTANTS
  Base,       \* [concept -> base_difficulty]
  Supported,  \* [concept -> its exercise types]
  Blueprint,  \* [id, concepts, formats, low, high, minutes]
  Session,    \* [formats, energy, minutes]
  Mastery,    \* mastery estimates, in percent
  Outcome,    \* outcomes of an evaluation
  MaxMade     \* bound: assignments made

Concept == DOMAIN Base

ASSUME PlanAssumption ==
  /\ Base \in [Concept -> 1..10] /\ MaxMade \in Nat
  /\ Mastery \subseteq 0..100 /\ Outcome \subseteq {"success", "partial", "failure"}
  /\ \A c \in Concept : Supported[c] \subseteq Nat
  /\ \A b \in Blueprint : /\ b.low \in 1..10 /\ b.high \in b.low..10
                         /\ b.minutes \in Nat /\ b.id \in Nat
  /\ \A b, d \in Blueprint : b.id = d.id => b = d
  /\ \A c \in Concept : \A f \in Supported[c] :
       \E b \in Blueprint : c \in b.concepts /\ f \in b.formats

VARIABLE made   \* the assignments, oldest first

Assignment == [concept : Concept, blueprint : Blueprint, format : Nat, difficulty : 1..10,
               state : {"open", "withdrawn"} \cup Outcome]

PlanTypeOK == made \in Seq(Assignment) /\ Len(made) <= MaxMade
PlanInit == made = <<>>

Newest(seq, n) == SubSeq(seq, 1, Min({n, Len(seq)}))
Oldest(seq, n) == SubSeq(seq, Max({1, Len(seq) - n + 1}), Len(seq))
Clamp(x, low, high) == Max({low, Min({x, high})})
Lexicographic(k, l) == \E i \in DOMAIN k : k[i] < l[i] /\ \A j \in 1..(i - 1) : k[j] = l[j]

-----------------------------------------------------------------------------
(* The scheduler *)

\* The newest n of some assignments, and mastery_evidence as recommend reads it.
Latest(S, n) == {i \in S : Cardinality({j \in S : j > i}) < n}
Evidence == Latest({i \in DOMAIN made : made[i].state \in Outcome}, 24)
LastAbout(c) == Latest({i \in Evidence : made[i].concept = c}, 1)

\* Least recently used: not the concept's last format, then the rarest of ten.
FormatKey(c, f) ==
  << IF \E i \in LastAbout(c) : made[i].format = f THEN 1 ELSE 0,
     Cardinality({i \in Latest(Evidence, 10) : made[i].format = f}), f >>
SelectExerciseType(c, allowed) ==
  CHOOSE f \in allowed \cap Supported[c] :
    \A g \in (allowed \cap Supported[c]) \ {f} : Lexicographic(FormatKey(c, f), FormatKey(c, g))

Difficulty(c, mastery, session) ==
  LET With(state) == {i \in DOMAIN made : made[i].concept = c /\ made[i].state = state}
      EndedWith(state) == \E i \in LastAbout(c) : made[i].state = state
      level == IF mastery >= 80 /\ Cardinality(With("success")) >= 2 THEN 2
               ELSE IF mastery >= 60 THEN 1
               ELSE IF mastery < 30 /\ With("failure") # {} THEN -1 ELSE 0
      trend == IF EndedWith("failure") THEN -1
               ELSE IF EndedWith("success") /\ mastery >= 65 THEN 1 ELSE 0
      form == IF session.energy = "low" \/ session.minutes < 25 THEN -1
              ELSE IF session.energy = "high" /\ session.minutes >= 60 THEN 1 ELSE 0
      highest == Max({Base[c]} \cup {made[i].difficulty : i \in With("success")})
  IN Clamp(highest + level + trend + form, 1, 10)

Authored(c, f) == {b \in Blueprint : c \in b.concepts /\ f \in b.formats}
InRange(b, d) == d \in b.low..b.high

\* Mutant: the scheduler's difficulty is kept.
FitNothing(c, f, target) == target
DistanceKey(d, target) == << Max({d - target, target - d}), d >>
\* The nearest difficulty that some blueprint of the concept and format covers.
FitAuthoredDifficulty(c, f, target) ==
  LET fits == {Clamp(target, b.low, b.high) : b \in Authored(c, f)}
  IN CHOOSE d \in fits :
       \A e \in fits \ {d} : Lexicographic(DistanceKey(d, target), DistanceKey(e, target))

\* The concepts recommend may put first. Every concept with an allowed format is
\* a candidate; its place is a matter of the priority, left open here.
Schedulable(session) == {c \in Concept : session.formats \cap Supported[c] # {}}

-----------------------------------------------------------------------------
(* The generator and the validator, handed the newest eight, newest first *)

Recent == Newest(Reverse(made), 8)

Repeats(rows, b, c) == \E i \in DOMAIN rows : rows[i].blueprint = b /\ rows[i].concept = c

\* Those not repeated lately, if there are any; of these one that covers the
\* difficulty, then the nearest middle, one that fits the time, the shortest.
Candidates(c, f) ==
  LET fresh == {b \in Authored(c, f) : ~Repeats(Oldest(Recent, 5), b, c)}
  IN IF fresh = {} THEN Authored(c, f) ELSE fresh
BlueprintKey(b, d, minutes) ==
  << IF InRange(b, d) THEN 0 ELSE 1, Max({b.low + b.high - 2 * d, 2 * d - b.low - b.high}),
     IF b.minutes > minutes + 15 THEN 1 ELSE 0, b.minutes, b.id >>
SelectBlueprint(c, f, d, minutes) ==
  CHOOSE b \in Candidates(c, f) : \A e \in Candidates(c, f) \ {b} :
    Lexicographic(BlueprintKey(b, d, minutes), BlueprintKey(e, d, minutes))

\* Mutant: only formats are compared.
ValidFormat(c, f, b) ==
  LET pair == Oldest(Recent, 2) IN ~(Len(pair) = 2 /\ \A i \in 1..2 : pair[i].format = f)
Valid(c, f, b) ==
  /\ ~Repeats(Oldest(Recent, 3), b, c)
  /\ LET pair == Oldest(Recent, 2)
     IN ~(Len(pair) = 2 /\ \A i \in 1..2 : pair[i].format = f)

-----------------------------------------------------------------------------
(* Steps *)

Open == made # <<>> /\ Last(made).state = "open"

CreateNextAssignment ==
  /\ ~Open /\ Len(made) < MaxMade
  /\ \E session \in Session, mastery \in Mastery : \E c \in Schedulable(session) :
       LET f == SelectExerciseType(c, session.formats)
           d == FitAuthoredDifficulty(c, f, Difficulty(c, mastery, session))
           b == SelectBlueprint(c, f, d, session.minutes)
       IN /\ Valid(c, f, b)
          /\ made' = Append(made, [concept |-> c, blueprint |-> b, format |-> f,
                                   difficulty |-> d, state |-> "open"])

\* A review adds the outcome to the concept's evidence, from which Evidence and
\* Difficulty read the history, the counters and the highest success; the estimate
\* that it moves is any of Mastery. Or the learner gives up.
Close(state) == Open /\ made' = [made EXCEPT ![Len(made)].state = state]
ReviewAssignment == \E outcome \in Outcome : Close(outcome)
Withdraw == Close("withdrawn")

PlanNext == CreateNextAssignment \/ ReviewAssignment \/ Withdraw
PlanSpec == PlanInit /\ [][PlanNext]_made

-----------------------------------------------------------------------------
(* Properties *)

\* The difficulty an assignment states is one the curriculum authored for its
\* concept and format, and it lies outside the chosen blueprint's own range only
\* when every blueprint that covers it had been used for the concept already:
\* the scheduler's fit, the freshness filter and the order of candidates agree.
DifficultyIsAuthored ==
  \A i \in DOMAIN made :
    LET a == made[i]
        covering == {b \in Authored(a.concept, a.format) : InRange(b, a.difficulty)}
    IN /\ covering # {}
       /\ a.blueprint \in covering
          \/ \A b \in covering : Repeats(SubSeq(made, 1, i - 1), b, a.concept)

\* The first four assignments are four different problems, and the first three
\* do not all have the same format, whatever is scheduled, allowed or withdrawn.
EarlyAssignmentsVary ==
  /\ \A i, j \in DOMAIN made : i < j /\ j <= 4 =>
       ~(made[i].blueprint = made[j].blueprint /\ made[i].concept = made[j].concept)
  /\ Len(made) >= 3 => \E i, j \in 1..3 : made[i].format # made[j].format

\* assignments.py:66-67, "Assignment repeats the last two exercise formats",
\* "recent topic and format repetition avoided": an assignment never has the
\* format of both assignments before it.
NoThirdFormatInARow ==
  \A i \in 3..Len(made) : ~(/\ made[i].format = made[i - 1].format
                            /\ made[i].format = made[i - 2].format)
=============================================================================
