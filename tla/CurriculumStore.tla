---------------------------- MODULE CurriculumStore ----------------------------
(***************************************************************************)
(* Curriculum packages and learning goals: curriculum.py and goals.py, with*)
(* the goal's prerequisite path of scheduler.py.                           *)
(*                                                                         *)
(* A load checks the package and persists it in one transaction, which the *)
(* foreign keys and primary keys of the schema may abort: then nothing     *)
(* changes. Of a package the concepts, the prerequisites and the profiles  *)
(* matter here; what each file must contain is checked before and only     *)
(* refuses. Profiles are deleted and written whole with the package, so    *)
(* the stored ones are those of the package loaded last.                   *)
(***************************************************************************)
EXTENDS Integers, SequencesExt

CONSTANTS
  Concepts,     \* concept identifiers
  Package,      \* [curriculum, concepts, requires, profiles]
  Request,      \* goals asked for: [statement, profile, focus]
  Matched,      \* [statement -> [Concepts -> words of the longest term found in it]]
  NoCurriculum,
  MaxGoals, MaxLoads   \* bounds: goal revisions of a curriculum, loads

Curriculum == {p.curriculum : p \in Package}
Requirement == Concepts \X Concepts   \* <<concept, prerequisite>>
Content == [statement : DOMAIN Matched, profile : {q.profile : q \in Request},
            focus : SUBSET Concepts]

ASSUME StoreAssumption ==
  /\ \A p \in Package : p.concepts \subseteq Concepts /\ p.requires \subseteq Requirement
  /\ Matched \in [{q.statement : q \in Request} -> [Concepts -> Nat]]
  /\ Request \subseteq Content
  /\ NoCurriculum \notin Curriculum /\ MaxGoals \in Nat /\ MaxLoads \in Nat
  /\ IsFiniteSet(Concepts)

VARIABLES
  package,   \* [Curriculum -> the package loaded last, as a set of at most one]
  owner,     \* concepts: [Concepts -> curriculum of its row]
  relation,  \* concept_relationships: rows <<curriculum, requirement>>
  mastery,   \* concepts with a mastery row of the learner
  used,      \* concepts with a row in assignment_concepts
  observed,  \* concepts with rows in mastery_evidence
  goals,     \* learning_goals: rows [curriculum, revision, content, active]
  loads
storeVars == <<package, owner, relation, mastery, used, observed, goals, loads>>

GoalRow == [curriculum : Curriculum, revision : 1..MaxGoals, content : Content, active : BOOLEAN]

StoreTypeOK ==
  /\ package \in [Curriculum -> SUBSET Package]
  /\ \A k \in Curriculum : Cardinality(package[k]) <= 1
  /\ owner \in [Concepts -> Curriculum \cup {NoCurriculum}]
  /\ relation \subseteq Curriculum \X Requirement
  /\ mastery \subseteq Concepts /\ used \subseteq Concepts /\ observed \subseteq Concepts
  /\ goals \subseteq GoalRow /\ loads \in 0..MaxLoads

StoreInit ==
  /\ package = [k \in Curriculum |-> {}] /\ owner = [c \in Concepts |-> NoCurriculum]
  /\ relation = {} /\ mastery = {} /\ used = {} /\ observed = {}
  /\ goals = {} /\ loads = 0

-----------------------------------------------------------------------------
(* Graphs *)

Graph(k) == {edge[2] : edge \in {e \in relation : e[1] = k}}

\* _assert_acyclic: visit what nothing unvisited precedes, first in first out,
\* with the number of unvisited prerequisites of each concept.
Visiting(concepts) == [queue : Seq(concepts), degree : [concepts -> Int]]
Visit(v, concepts, requires) ==
  LET lower == [c \in concepts |-> v.degree[c] - IF <<c, Head(v.queue)>> \in requires THEN 1 ELSE 0]
      ready == {c \in concepts : <<c, Head(v.queue)>> \in requires /\ lower[c] = 0}
  IN [queue |-> Tail(v.queue) \o SetToSeq(ready), degree |-> lower]
\* The number of concepts visited.
Visited(concepts, requires) ==
  LET degree == [c \in concepts |-> Cardinality({p \in concepts : <<c, p>> \in requires})]
      visits[v \in Visiting(concepts)] ==
        IF v.queue = <<>> THEN 0 ELSE 1 + visits[Visit(v, concepts, requires)]
  IN visits[[queue |-> SetToSeq({c \in concepts : degree[c] = 0}), degree |-> degree]]

\* Mutant: cycles are not looked for.
IsLoadableUnvisited(p) ==
  \A r \in p.requires : r[1] \in p.concepts /\ r[2] \in p.concepts /\ r[1] # r[2]
IsLoadable(p) ==
  /\ \A r \in p.requires : r[1] \in p.concepts /\ r[2] \in p.concepts /\ r[1] # r[2]
  /\ Visited(p.concepts, p.requires) = Cardinality(p.concepts)

\* Mutant: one step only.
DirectPrerequisites(targets, requires) ==
  {p \in Concepts : \E c \in targets : <<c, p>> \in requires} \ targets
\* _transitive_prerequisites: a stack of concepts whose prerequisites are pending.
Pursuit == [pending : Seq(Concepts), closure : SUBSET Concepts]
Pursue(s, requires) ==
  LET found == {p \in Concepts \ s.closure : <<Last(s.pending), p>> \in requires}
  IN [pending |-> Front(s.pending) \o SetToSeq(found), closure |-> s.closure \cup found]
TransitivePrerequisites(targets, requires) ==
  LET close[s \in Pursuit] ==
        IF s.pending = <<>> THEN s.closure ELSE close[Pursue(s, requires)]
  IN close[[pending |-> SetToSeq(targets), closure |-> {}]] \ targets

-----------------------------------------------------------------------------
(* Loading *)

\* Mutant: the reference cascades too.
MayDropAny(dropped) == TRUE
\* assignment_concepts references concepts without a cascade.
MayDrop(dropped) == dropped \cap used = {}

\* Rows of concepts the package no longer has go first, and with them, by the
\* cascades, their mastery, evidence and relationships; a row of
\* assignment_concepts forbids it. Another curriculum's concepts are taken over,
\* but not a relationship another curriculum has stored.
Persist(p) ==
  LET k == p.curriculum
      dropped == {c \in Concepts : owner[c] = k} \ p.concepts
      others == {e \in relation : e[1] # k /\ e[2][1] \notin dropped /\ e[2][2] \notin dropped}
  IN /\ loads < MaxLoads /\ IsLoadable(p)
     /\ MayDrop(dropped)
     /\ \A e \in others : e[2] \notin p.requires
     /\ package' = [package EXCEPT ![k] = {p}]
     /\ owner' = [c \in Concepts |-> IF c \in p.concepts THEN k
                                     ELSE IF c \in dropped THEN NoCurriculum ELSE owner[c]]
     /\ relation' = others \cup {<<k, r>> : r \in p.requires}
     /\ mastery' = (mastery \ dropped) \cup p.concepts
     /\ observed' = observed \ dropped
     /\ loads' = loads + 1
     /\ UNCHANGED <<used, goals>>

-----------------------------------------------------------------------------
(* Goals *)

Owned(k) == {c \in Concepts : owner[c] = k}
Revisions(k) == {g \in goals : g.curriculum = k}

\* The concepts with the longest match, or one word less.
InferGoalConcepts(statement, k) ==
  LET words == {Matched[statement][c] : c \in Owned(k)} \ {0}
  IN IF words = {} THEN {}
     ELSE {c \in Owned(k) : Matched[statement][c] >= Max({1, Max(words) - 1})}

\* Mutant: goals are not compared.
IsActiveGoalNever(k, content) == FALSE
\* _same_goal
IsActiveGoal(k, content) == \E g \in Revisions(k) : g.active /\ g.content = content

\* GoalService.set: refusals change nothing, and so does setting the active goal
\* again; otherwise the active goal is superseded by the next revision.
SetGoal(k, q) ==
  LET content == IF q.focus # {} THEN q
                 ELSE [q EXCEPT !.focus = InferGoalConcepts(q.statement, k)]
      next == 1 + Max({0} \cup {g.revision : g \in Revisions(k)})
  IN /\ \E p \in package[k] : q.profile \in p.profiles
     /\ q.focus \subseteq Owned(k) /\ content.focus # {}
     /\ ~IsActiveGoal(k, content)
     /\ next <= MaxGoals
     /\ goals' = {[g EXCEPT !.active = @ /\ g.curriculum # k] : g \in goals}
                 \cup {[curriculum |-> k, revision |-> next, content |-> content, active |-> TRUE]}
     /\ UNCHANGED <<package, owner, relation, mastery, used, observed, loads>>

-----------------------------------------------------------------------------
(* Use of the concepts by the rest of the tutor *)

\* The scheduler only recommends concepts that have a mastery row (TutorPlan).
CreateAssignment(c) ==
  /\ owner[c] # NoCurriculum /\ c \in mastery
  /\ used' = used \cup {c} /\ used' # used
  /\ UNCHANGED <<package, owner, relation, mastery, observed, goals, loads>>

\* apply_evaluation; without a mastery row it raises ValueError (LearnerModel).
Evaluate(c) ==
  /\ c \in used /\ c \in mastery
  /\ observed' = observed \cup {c} /\ observed' # observed
  /\ UNCHANGED <<package, owner, relation, mastery, used, goals, loads>>

StoreNext ==
  \/ \E p \in Package : Persist(p)
  \/ \E k \in Curriculum, q \in Request : SetGoal(k, q)
  \/ \E c \in Concepts : CreateAssignment(c) \/ Evaluate(c)
StoreSpec == StoreInit /\ [][StoreNext]_storeVars

-----------------------------------------------------------------------------
(* Properties *)

\* Once an assignment was about a concept, no sequence of loads of its own or
\* another curriculum takes away the concept or its mastery row, and with them its
\* evidence: the evaluation of a late result always finds its row.
UsedConceptsKeepTheirRows ==
  /\ used \subseteq mastery /\ observed \subseteq used
  /\ \A c \in used : owner[c] # NoCurriculum

Reachable(c, requires) ==
  LET within[n \in Nat] == IF n = 0 THEN {p \in Concepts : <<c, p>> \in requires}
                           ELSE {p \in Concepts : \E d \in within[n - 1] \cup {c} : <<d, p>> \in requires}
                                \cup within[n - 1]
  IN within[Cardinality(Concepts)]

\* docs/curricula.md: no load of a package with a cycle in its prerequisites, of
\* any length, is stored, and the stored graph of a curriculum is that of its
\* package but for the concepts another curriculum took over and dropped.
StoredGraphIsAcyclic ==
  \A k \in Curriculum :
    /\ \A r \in Graph(k) : r[1] \notin Reachable(r[2], Graph(k)) \cup {r[2]}
    /\ \A p \in package[k] :
         /\ Graph(k) \subseteq p.requires /\ Owned(k) \subseteq p.concepts
         /\ \A r \in p.requires \ Graph(k) : {owner[r[1]], owner[r[2]]} # {k}

\* The concepts the scheduler favours for a goal are those from which, and only
\* those from which, a path of prerequisites of any length leads to its focus.
GoalSupportIsReachable ==
  \A g \in goals :
    TransitivePrerequisites(g.content.focus, Graph(g.curriculum))
      = (UNION {Reachable(c, Graph(g.curriculum)) : c \in g.content.focus}) \ g.content.focus

\* Of each curriculum's goals the newest revision, and no other, is active, the
\* revisions have no gaps, and each differs from the one it superseded.
GoalHistoryIsLinear ==
  \A k \in Curriculum :
    /\ {g.revision : g \in Revisions(k)} = 1..Cardinality(Revisions(k))
    /\ \A g \in Revisions(k) : g.active <=> g.revision = Cardinality(Revisions(k))
    /\ \A g, h \in Revisions(k) : h.revision = g.revision + 1 => h.content # g.content
=============================================================================
