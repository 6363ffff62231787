------------------------ MODULE CurriculumStoreProofs ------------------------
(***************************************************************************)
(* TLAPS proofs about CurriculumStore, for every set of concepts, packages *)
(* and goal requests: the rows and goals that loads and requests leave, and *)
(* what the traversal of _assert_acyclic and the closure of prerequisites  *)
(* compute over any graph.                                                 *)
(***************************************************************************)
EXTENDS CurriculumStore, FiniteSetTheorems, SequenceTheorems, WellFoundedInduction, TLAPS

(* The n goals of curriculum k are its revisions 1..n, one each.           *)
HistoryOfLength(k, n) ==
  /\ {g.revision : g \in Revisions(k)} = 1..n
  /\ \A g, h \in Revisions(k) : g.revision = h.revision => g = h
  /\ \A g \in Revisions(k) : g.active <=> g.revision = n
  /\ \A g, h \in Revisions(k) : h.revision = g.revision + 1 => h.content # g.content

GoalsAreRevisions == \A k \in Curriculum : \E n \in Nat : HistoryOfLength(k, n)

IInv ==
  /\ StoreTypeOK
  /\ UsedConceptsKeepTheirRows
  /\ GoalsAreRevisions

-----------------------------------------------------------------------------
(* Operators *)

LEMMA InferredConcepts ==
  ASSUME NEW statement, NEW k
  PROVE  InferGoalConcepts(statement, k) \subseteq Concepts
<1> DEFINE words == {Matched[statement][c] : c \in Owned(k)} \ {0}
           near == {c \in Owned(k) : Matched[statement][c] >= Max({1, Max(words) - 1})}
<1>1. InferGoalConcepts(statement, k) = IF words = {} THEN {} ELSE near
  BY DEF InferGoalConcepts
<1>2. near \subseteq Owned(k)
  OBVIOUS
<1> HIDE DEF words, near
<1>3. Owned(k) \subseteq Concepts
  BY DEF Owned
<1> QED
  BY <1>1, <1>2, <1>3

LEMMA MaxOfInterval ==
  ASSUME NEW n \in Nat
  PROVE  Max({0} \cup (1..n)) = n
<1>1. n \in {0} \cup (1..n) /\ \A y \in {0} \cup (1..n) : n >= y
  OBVIOUS
<1>2. \A m \in {0} \cup (1..n) : (\A y \in {0} \cup (1..n) : m >= y) => m = n
  BY <1>1
<1> QED
  BY <1>1, <1>2 DEF Max

(* A history of length n has n rows.                                       *)
LEMMA HistoryLength ==
  ASSUME NEW k, NEW n \in Nat, HistoryOfLength(k, n)
  PROVE  Cardinality(Revisions(k)) = n
<1> DEFINE f == [i \in 1..n |-> CHOOSE g \in Revisions(k) : g.revision = i]
<1>1. \A i \in 1..n : \E g \in Revisions(k) : g.revision = i
  <2> SUFFICES ASSUME NEW i \in 1..n PROVE \E g \in Revisions(k) : g.revision = i
    OBVIOUS
  <2>1. i \in {g.revision : g \in Revisions(k)}
    BY DEF HistoryOfLength
  <2> QED
    BY <2>1
<1>2. \A i \in 1..n : f[i] \in Revisions(k) /\ f[i].revision = i
  BY <1>1
<1>3. f \in [1..n -> Revisions(k)]
  BY <1>2
<1> HIDE DEF f
<1>4. \A i, j \in 1..n : f[i] = f[j] => i = j
  BY <1>2
<1>5. \A g \in Revisions(k) : \E i \in 1..n : f[i] = g
  <2> SUFFICES ASSUME NEW g \in Revisions(k) PROVE \E i \in 1..n : f[i] = g
    OBVIOUS
  <2>1. g.revision \in 1..n
    BY DEF HistoryOfLength
  <2>2. f[g.revision] \in Revisions(k) /\ f[g.revision].revision = g.revision
    BY <1>2, <2>1
  <2>3. f[g.revision] = g
    BY <2>2 DEF HistoryOfLength
  <2> QED
    BY <2>1, <2>3
<1>6. f \in Bijection(1..n, Revisions(k))
  BY <1>3, <1>4, <1>5 DEF Bijection, Injection, Surjection, IsInjective
<1> QED
  BY <1>6, FS_CountingElements DEF ExistsBijection

-----------------------------------------------------------------------------
(* The invariant *)

LEMMA IInvInit == StoreInit => IInv
<1> SUFFICES ASSUME StoreInit PROVE IInv
  OBVIOUS
<1>1. StoreTypeOK
  <2>1. \A k \in Curriculum : package[k] = {} /\ Cardinality(package[k]) = 0
    BY FS_EmptySet DEF StoreInit
  <2>2. 0 \in 0..MaxLoads
    BY StoreAssumption
  <2> QED
    BY <2>1, <2>2 DEF StoreInit, StoreTypeOK
<1>2. UsedConceptsKeepTheirRows
  BY DEF StoreInit, UsedConceptsKeepTheirRows
<1>3. GoalsAreRevisions
  <2> SUFFICES ASSUME NEW k \in Curriculum PROVE HistoryOfLength(k, 0)
    BY DEF GoalsAreRevisions
  <2>1. Revisions(k) = {}
    BY DEF StoreInit, Revisions
  <2> QED
    BY <2>1 DEF HistoryOfLength
<1> QED
  BY <1>1, <1>2, <1>3 DEF IInv

LEMMA GoalsKept ==
  ASSUME GoalsAreRevisions, UNCHANGED goals
  PROVE  GoalsAreRevisions'
BY DEF GoalsAreRevisions, HistoryOfLength, Revisions

LEMMA PersistStep ==
  ASSUME IInv, NEW p \in Package, Persist(p)
  PROVE  IInv'
<1> DEFINE k == p.curriculum
           dropped == {c \in Concepts : owner[c] = k} \ p.concepts
           others == {e \in relation : e[1] # k /\ e[2][1] \notin dropped /\ e[2][2] \notin dropped}
<1>1. /\ loads < MaxLoads /\ MayDrop(dropped)
      /\ package' = [package EXCEPT ![k] = {p}]
      /\ owner' = [c \in Concepts |-> IF c \in p.concepts THEN k
                                      ELSE IF c \in dropped THEN NoCurriculum ELSE owner[c]]
      /\ relation' = others \cup {<<k, r>> : r \in p.requires}
      /\ mastery' = (mastery \ dropped) \cup p.concepts
      /\ observed' = observed \ dropped
      /\ loads' = loads + 1
      /\ UNCHANGED <<used, goals>>
  BY DEF Persist
<1>2. others \subseteq relation
  OBVIOUS
<1>3. dropped \subseteq Concepts
  OBVIOUS
<1>4. k \in Curriculum
  BY DEF Curriculum
<1> HIDE DEF k, dropped, others
<1>5. p.concepts \subseteq Concepts /\ p.requires \subseteq Requirement
  BY StoreAssumption
<1>6. StoreTypeOK'
  <2>1. package' \in [Curriculum -> SUBSET Package]
    BY <1>1, <1>4 DEF IInv, StoreTypeOK
  <2>2. \A j \in Curriculum : Cardinality(package'[j]) <= 1
    <3>1. Cardinality({p}) = 1
      BY FS_Singleton
    <3>2. \A j \in Curriculum : package'[j] = IF j = k THEN {p} ELSE package[j]
      BY <1>1, <1>4 DEF IInv, StoreTypeOK
    <3>3. \A j \in Curriculum : Cardinality(package[j]) <= 1
      BY DEF IInv, StoreTypeOK
    <3> SUFFICES ASSUME NEW j \in Curriculum PROVE Cardinality(package'[j]) <= 1
      OBVIOUS
    <3>4. CASE j = k
      <4>1. package'[j] = {p}
        BY <3>2, <3>4
      <4> QED
        BY <3>1, <4>1
    <3>5. CASE j # k
      <4>1. package'[j] = package[j]
        BY <3>2, <3>5
      <4> QED
        BY <3>3, <4>1
    <3> QED
      BY <3>4, <3>5
  <2>3. owner' \in [Concepts -> Curriculum \cup {NoCurriculum}]
    BY <1>1, <1>4 DEF IInv, StoreTypeOK
  <2>4. relation' \subseteq Curriculum \X Requirement
    BY <1>1, <1>2, <1>4, <1>5 DEF IInv, StoreTypeOK
  <2>5. mastery' \subseteq Concepts /\ used' \subseteq Concepts /\ observed' \subseteq Concepts
    BY <1>1, <1>5 DEF IInv, StoreTypeOK
  <2>6. goals' \subseteq GoalRow
    BY <1>1 DEF IInv, StoreTypeOK
  <2>7. loads' \in 0..MaxLoads
    BY <1>1, StoreAssumption DEF IInv, StoreTypeOK
  <2> QED
    BY <2>1, <2>2, <2>3, <2>4, <2>5, <2>6, <2>7 DEF StoreTypeOK
<1>7. UsedConceptsKeepTheirRows'
  <2>1. dropped \cap used = {}
    BY <1>1 DEF MayDrop
  <2>2. used' \subseteq mastery' /\ observed' \subseteq used'
    BY <1>1, <2>1 DEF IInv, UsedConceptsKeepTheirRows
  <2>3. \A c \in used' : owner'[c] # NoCurriculum
    <3> SUFFICES ASSUME NEW c \in used PROVE owner'[c] # NoCurriculum
      BY <1>1
    <3>1. c \in Concepts /\ c \notin dropped /\ owner[c] # NoCurriculum
      BY <2>1 DEF IInv, StoreTypeOK, UsedConceptsKeepTheirRows
    <3>2. k # NoCurriculum
      BY <1>4, StoreAssumption
    <3> QED
      BY <1>1, <3>1, <3>2
  <2> QED
    BY <2>2, <2>3 DEF UsedConceptsKeepTheirRows
<1>8. GoalsAreRevisions'
  BY <1>1, GoalsKept DEF IInv
<1> QED
  BY <1>6, <1>7, <1>8 DEF IInv

LEMMA UseStep ==
  ASSUME IInv, NEW c \in Concepts, CreateAssignment(c) \/ Evaluate(c)
  PROVE  IInv'
<1>1. UNCHANGED <<package, owner, relation, mastery, goals, loads>>
  BY DEF CreateAssignment, Evaluate
<1>2. /\ used' \subseteq used \cup {c} /\ used \subseteq used'
      /\ observed' \subseteq observed \cup {c}
      /\ c \in mastery
      /\ c \in observed' => c \in used'
      /\ c \in used' => owner[c] # NoCurriculum
  BY DEF CreateAssignment, Evaluate, IInv, UsedConceptsKeepTheirRows
<1>3. StoreTypeOK'
  BY <1>1, <1>2 DEF IInv, StoreTypeOK
<1>4. UsedConceptsKeepTheirRows'
  BY <1>1, <1>2 DEF IInv, UsedConceptsKeepTheirRows
<1>5. GoalsAreRevisions'
  BY <1>1, GoalsKept DEF IInv
<1> QED
  BY <1>3, <1>4, <1>5 DEF IInv

LEMMA SetGoalStep ==
  ASSUME IInv, NEW k \in Curriculum, NEW q \in Request, SetGoal(k, q)
  PROVE  IInv'
<1> DEFINE content == IF q.focus # {} THEN q
                      ELSE [q EXCEPT !.focus = InferGoalConcepts(q.statement, k)]
           next == 1 + Max({0} \cup {g.revision : g \in Revisions(k)})
           new == [curriculum |-> k, revision |-> next, content |-> content, active |-> TRUE]
           old(g) == [g EXCEPT !.active = @ /\ g.curriculum # k]
<1>1. /\ ~IsActiveGoal(k, content) /\ next <= MaxGoals
      /\ goals' = {old(g) : g \in goals} \cup {new}
      /\ UNCHANGED <<package, owner, relation, mastery, used, observed, loads>>
  BY DEF SetGoal
<1>2. content \in Content
  BY StoreAssumption, InferredConcepts DEF Content
<1>3. PICK n \in Nat : HistoryOfLength(k, n)
  BY DEF IInv, GoalsAreRevisions
<1>4. next = n + 1
  BY <1>3, MaxOfInterval DEF HistoryOfLength
<1>5. /\ new \in GoalRow /\ new.curriculum = k /\ new.revision = n + 1
      /\ new.content = content /\ new.active = TRUE
  BY <1>1, <1>2, <1>4, StoreAssumption DEF GoalRow
<1> HIDE DEF content, next, new
<1>6. \A g \in goals : /\ old(g) \in GoalRow
                       /\ old(g).curriculum = g.curriculum /\ old(g).revision = g.revision
                       /\ old(g).content = g.content
                       /\ old(g).active = (g.active /\ g.curriculum # k)
  BY DEF IInv, StoreTypeOK, GoalRow
<1>7. \A g \in goals : g.curriculum # k => old(g) = g
  BY DEF IInv, StoreTypeOK, GoalRow
<1> HIDE DEF old
<1>8. StoreTypeOK'
  BY <1>1, <1>5, <1>6 DEF IInv, StoreTypeOK
<1>9. UsedConceptsKeepTheirRows'
  BY <1>1 DEF IInv, UsedConceptsKeepTheirRows
<1>10. HistoryOfLength(k, n + 1)'
  <2>1. Revisions(k)' = {old(g) : g \in Revisions(k)} \cup {new}
    BY <1>1, <1>5, <1>6 DEF Revisions
  <2>2. \A g \in Revisions(k) : /\ g \in goals /\ g.curriculum = k /\ g.revision \in 1..n
                                /\ old(g).revision = g.revision /\ old(g).content = g.content
                                /\ old(g).active = FALSE
    BY <1>3, <1>6 DEF Revisions, HistoryOfLength
  <2>3. \A g \in Revisions(k) : g.revision = n => g.content # content
    BY <1>1, <1>3 DEF HistoryOfLength, IsActiveGoal
  <2>4. {g.revision : g \in Revisions(k)'} = 1..(n + 1)
    <3>1. \A r \in 1..n : \E g \in Revisions(k) : g.revision = r
      <4> SUFFICES ASSUME NEW r \in 1..n PROVE \E g \in Revisions(k) : g.revision = r
        OBVIOUS
      <4>1. r \in {g.revision : g \in Revisions(k)}
        BY <1>3 DEF HistoryOfLength
      <4> QED
        BY <4>1
    <3>2. \A r \in 1..(n + 1) : \E h \in Revisions(k)' : h.revision = r
      <4> SUFFICES ASSUME NEW r \in 1..(n + 1) PROVE \E h \in Revisions(k)' : h.revision = r
        OBVIOUS
      <4>1. CASE r = n + 1
        BY <1>5, <2>1, <4>1
      <4>2. CASE r # n + 1
        <5>1. PICK g \in Revisions(k) : g.revision = r
          BY <3>1, <4>2
        <5>2. old(g) \in Revisions(k)' /\ old(g).revision = r
          BY <2>1, <2>2, <5>1
        <5> QED
          BY <5>2
      <4> QED
        BY <4>1, <4>2
    <3>3. \A h \in Revisions(k)' : h.revision \in 1..(n + 1)
      BY <1>5, <2>1, <2>2
    <3> QED
      BY <3>2, <3>3
  <2>5. ASSUME NEW g \in Revisions(k)', NEW h \in Revisions(k)', g.revision = h.revision
        PROVE  g = h
    <3>1. CASE g = new \/ h = new
      BY <1>5, <2>1, <2>2, <2>5, <3>1
    <3>2. CASE g # new /\ h # new
      <4>1. PICK g0 \in Revisions(k) : g = old(g0)
        BY <2>1, <3>2
      <4>2. PICK h0 \in Revisions(k) : h = old(h0)
        BY <2>1, <3>2
      <4>3. g0.revision = h0.revision
        BY <2>2, <2>5, <4>1, <4>2
      <4>4. g0 = h0
        BY <1>3, <4>3 DEF HistoryOfLength
      <4> QED
        BY <4>1, <4>2, <4>4
    <3> QED
      BY <3>1, <3>2
  <2>6. ASSUME NEW g \in Revisions(k)'
        PROVE  g.active <=> g.revision = n + 1
    <3>1. CASE g = new
      BY <1>5, <3>1
    <3>2. CASE g # new
      <4>1. PICK g0 \in Revisions(k) : g = old(g0)
        BY <2>1, <3>2
      <4>2. g.active = FALSE /\ g.revision \in 1..n
        BY <2>2, <4>1
      <4> QED
        BY <4>2
    <3> QED
      BY <3>1, <3>2
  <2>7. ASSUME NEW g \in Revisions(k)', NEW h \in Revisions(k)', h.revision = g.revision + 1
        PROVE  h.content # g.content
    <3>1. g # new
      BY <1>5, <2>1, <2>2, <2>7
    <3>2. PICK g0 \in Revisions(k) : g = old(g0)
      BY <2>1, <3>1
    <3>3. g.revision = g0.revision /\ g.content = g0.content
      BY <2>2, <3>2
    <3>4. CASE h = new
      <4>1. g0.revision = n
        BY <1>5, <2>2, <2>7, <3>3, <3>4
      <4> QED
        BY <1>5, <2>3, <3>3, <3>4, <4>1
    <3>5. CASE h # new
      <4>1. PICK h0 \in Revisions(k) : h = old(h0)
        BY <2>1, <3>5
      <4>2. h0.revision = g0.revision + 1 /\ h.content = h0.content
        BY <2>2, <2>7, <3>3, <4>1
      <4> QED
        BY <1>3, <3>3, <4>2 DEF HistoryOfLength
    <3> QED
      BY <3>4, <3>5
  <2> QED
    BY <2>4, <2>5, <2>6, <2>7 DEF HistoryOfLength
<1>11. ASSUME NEW j \in Curriculum, j # k
       PROVE  Revisions(j)' = Revisions(j)
  BY <1>1, <1>5, <1>6, <1>7, <1>11 DEF Revisions
<1>12. GoalsAreRevisions'
  <2> SUFFICES ASSUME NEW j \in Curriculum
               PROVE  \E m \in Nat : HistoryOfLength(j, m)'
    BY DEF GoalsAreRevisions
  <2>1. CASE j = k
    <3>1. n + 1 \in Nat
      OBVIOUS
    <3> QED
      BY <1>10, <2>1, <3>1
  <2>2. CASE j # k
    <3>1. PICK m \in Nat : HistoryOfLength(j, m)
      BY DEF IInv, GoalsAreRevisions
    <3>2. HistoryOfLength(j, m)'
      BY <1>11, <2>2, <3>1 DEF HistoryOfLength
    <3> QED
      BY <3>2
  <2> QED
    BY <2>1, <2>2
<1> QED
  BY <1>8, <1>9, <1>12 DEF IInv

LEMMA IInvStep == IInv /\ [StoreNext]_storeVars => IInv'
<1> SUFFICES ASSUME IInv, [StoreNext]_storeVars PROVE IInv'
  OBVIOUS
<1>1. CASE \E p \in Package : Persist(p)
  BY <1>1, PersistStep
<1>2. CASE \E k \in Curriculum, q \in Request : SetGoal(k, q)
  BY <1>2, SetGoalStep
<1>3. CASE \E c \in Concepts : CreateAssignment(c) \/ Evaluate(c)
  BY <1>3, UseStep
<1>4. CASE UNCHANGED storeVars
  <2>1. GoalsAreRevisions'
    BY <1>4, GoalsKept DEF IInv, storeVars
  <2>2. StoreTypeOK' /\ UsedConceptsKeepTheirRows'
    BY <1>4 DEF IInv, StoreTypeOK, UsedConceptsKeepTheirRows, storeVars
  <2> QED
    BY <2>1, <2>2 DEF IInv
<1> QED
  BY <1>1, <1>2, <1>3, <1>4 DEF StoreNext

-----------------------------------------------------------------------------
(* Theorems *)

\* The tables of the curriculum and of the goals stay well typed through every
\* load, goal and use; no curriculum has more revisions than it may.
THEOREM StoreTypeCorrect == StoreSpec => []StoreTypeOK
<1>1. IInv => StoreTypeOK
  BY DEF IInv
<1> QED
  BY <1>1, IInvInit, IInvStep, PTL DEF StoreSpec

\* No sequence of loads of any packages takes a concept that was used, its mastery
\* row or its evidence away (curriculum.py persist, with the schema's references).
THEOREM UsedConceptsAreKept == StoreSpec => []UsedConceptsKeepTheirRows
<1>1. IInv => UsedConceptsKeepTheirRows
  BY DEF IInv
<1> QED
  BY <1>1, IInvInit, IInvStep, PTL DEF StoreSpec

\* Whatever goals are set in whatever order, the newest revision of a curriculum's
\* goal is the active one, and none repeats the one before (goals.py set).
THEOREM GoalHistoriesAreLinear == StoreSpec => []GoalHistoryIsLinear
<1>1. IInv => GoalHistoryIsLinear
  <2> SUFFICES ASSUME IInv, NEW k \in Curriculum
               PROVE  /\ {g.revision : g \in Revisions(k)} = 1..Cardinality(Revisions(k))
                      /\ \A g \in Revisions(k) : g.active <=> g.revision = Cardinality(Revisions(k))
                      /\ \A g, h \in Revisions(k) : h.revision = g.revision + 1 => h.content # g.content
    BY DEF GoalHistoryIsLinear
  <2>1. PICK n \in Nat : HistoryOfLength(k, n)
    BY DEF IInv, GoalsAreRevisions
  <2>2. Cardinality(Revisions(k)) = n
    BY <2>1, HistoryLength
  <2> QED
    BY <2>1, <2>2 DEF HistoryOfLength
<1> QED
  BY <1>1, IInvInit, IInvStep, PTL DEF StoreSpec

-----------------------------------------------------------------------------
(* Recursion                                                               *)

(* A set of naturals with 0 and every successor has all of them.           *)
LEMMA NaturalsByOne ==
  ASSUME NEW T, 0 \in T, \A k \in Nat : k \in T => k + 1 \in T
  PROVE  Nat \subseteq T
<1> DEFINE R == OpToRel(<, Nat)
           U == Nat \ T
<1>1. IsWellFoundedOn(R, Nat)
  BY NatLessThanWellFounded, Zenon
<1>2. \A m, n \in Nat : m < n => <<m, n>> \in R
  BY Zenon DEF OpToRel
<1> HIDE DEF R
<1> SUFFICES ASSUME U # {} PROVE FALSE
  OBVIOUS
<1>3. PICK m \in U : \A n \in U : <<n, m>> \notin R
  BY <1>1, WFMin
<1>4. m # 0 /\ m - 1 \in Nat /\ m - 1 < m
  BY <1>3
<1>5. m - 1 \in T
  BY <1>2, <1>3, <1>4
<1>6. (m - 1) + 1 \in T
  BY <1>4, <1>5
<1> QED
  BY <1>3, <1>6

(* A recursion over D with values in V: on L it returns out, elsewhere it    *)
(* calls itself once, on step, where mu is smaller, and G makes the value.   *)
CallsLess(D, V, L, mu, step, out, G) ==
  /\ mu \in [D -> Nat] /\ step \in [D -> D] /\ out \in [D -> V] /\ G \in [D -> [V -> V]]
  /\ \A x \in D : x \notin L => mu[step[x]] < mu[x]

(* There is a function that it defines.                                    *)
LEMMA RecursionExists ==
  ASSUME NEW D, NEW V, NEW L, NEW mu, NEW step, NEW out, NEW G,
         CallsLess(D, V, L, mu, step, out, G)
  PROVE  \E f \in [D -> V] :
           \A x \in D : f[x] = IF x \in L THEN out[x] ELSE G[x][f[step[x]]]
<1> USE DEF CallsLess
<1> DEFINE Value(f, x) == IF x \in L THEN out[x] ELSE G[x][f[step[x]]]
           Upto(n, f) == f \in [D -> V] /\ \A x \in D : mu[x] < n => f[x] = Value(f, x)
           P(n) == \E f : Upto(n, f)
           T == {n \in Nat : P(n)}
           Same(n) == \A f, g : Upto(n, f) /\ Upto(n, g) => \A x \in D : mu[x] < n => f[x] = g[x]
           S == {n \in Nat : Same(n)}
<1>1. P(0)
  <2>1. Upto(0, out)
    OBVIOUS
  <2> QED
    BY <2>1
<1>2. ASSUME NEW n \in Nat, P(n) PROVE P(n + 1)
  <2>1. PICK f : Upto(n, f)
    BY <1>2
  <2> DEFINE g == [x \in D |-> Value(f, x)]
  <2>2. g \in [D -> V]
    BY <2>1
  <2>3. ASSUME NEW x \in D, mu[x] < n + 1 PROVE g[x] = Value(g, x)
    <3>1. CASE x \in L
      BY <3>1
    <3>2. CASE x \notin L
      <4>1. step[x] \in D /\ mu[step[x]] \in Nat /\ mu[x] \in Nat /\ mu[step[x]] < mu[x]
        BY <3>2
      <4>2. mu[step[x]] < n
        BY <2>3, <4>1
      <4>3. f[step[x]] = Value(f, step[x])
        BY <2>1, <4>1, <4>2
      <4>4. g[step[x]] = f[step[x]]
        BY <4>1, <4>3
      <4> QED
        BY <3>2, <4>4
    <3> QED
      BY <3>1, <3>2
  <2> HIDE DEF g
  <2>4. Upto(n + 1, g)
    BY <2>2, <2>3
  <2> QED
    BY <2>4
<1>3. Same(0)
  OBVIOUS
<1>4. ASSUME NEW n \in Nat, Same(n) PROVE Same(n + 1)
  <2> SUFFICES ASSUME NEW f, NEW g, Upto(n + 1, f), Upto(n + 1, g), NEW x \in D, mu[x] < n + 1
               PROVE  f[x] = g[x]
    OBVIOUS
  <2>1. Upto(n, f) /\ Upto(n, g)
    OBVIOUS
  <2>2. f[x] = Value(f, x) /\ g[x] = Value(g, x)
    OBVIOUS
  <2>3. CASE x \in L
    BY <2>2, <2>3
  <2>4. CASE x \notin L
    <3>1. step[x] \in D /\ mu[step[x]] < n
      BY <2>4
    <3>2. f[step[x]] = g[step[x]]
      <4> HIDE DEF Upto
      <4> QED
        BY <1>4, <2>1, <3>1
    <3> QED
      BY <2>2, <2>4, <3>2
  <2> QED
    BY <2>3, <2>4
<1> HIDE DEF P, Same
<1>5. Nat \subseteq T
  <2>1. 0 \in T
    BY <1>1, Zenon
  <2>2. \A k \in Nat : k \in T => k + 1 \in T
    BY <1>2
  <2> HIDE DEF T
  <2> QED
    BY <2>1, <2>2, NaturalsByOne
<1>6. Nat \subseteq S
  <2>1. 0 \in S
    BY <1>3, Zenon
  <2>2. \A k \in Nat : k \in S => k + 1 \in S
    BY <1>4
  <2> HIDE DEF S
  <2> QED
    BY <2>1, <2>2, NaturalsByOne
<1> DEFINE H(n) == CHOOSE f : Upto(n, f)
           h == [x \in D |-> H(mu[x] + 1)[x]]
<1>7. \A n \in Nat : Upto(n, H(n))
  <2>1. \A n \in Nat : \E f : Upto(n, f)
    BY <1>5 DEF P
  <2> HIDE DEF Upto
  <2> QED
    BY <2>1
<1>8. \A x \in D : mu[x] + 1 \in Nat
  OBVIOUS
<1>9. h \in [D -> V]
  <2> SUFFICES ASSUME NEW x \in D PROVE H(mu[x] + 1)[x] \in V
    OBVIOUS
  <2>1. H(mu[x] + 1) \in [D -> V]
    BY <1>7, <1>8, Zenon
  <2> HIDE DEF H
  <2> QED
    BY <2>1
<1>10. ASSUME NEW x \in D PROVE h[x] = Value(h, x)
  <2> DEFINE n == mu[x] + 1
  <2>1. n \in Nat /\ mu[x] \in Nat /\ Upto(n, H(n)) /\ h[x] = H(n)[x]
    <3>1. n \in Nat /\ mu[x] \in Nat
      OBVIOUS
    <3> HIDE DEF Upto, H
    <3> QED
      BY <1>7, <3>1
  <2> HIDE DEF H, h
  <2>5. PICK F : F = H(n)
    OBVIOUS
  <2>6. F \in [D -> V] /\ (\A z \in D : mu[z] < n => F[z] = Value(F, z))
    BY <2>1, <2>5, Zenon
  <2>7. mu[x] < n /\ h[x] = F[x]
    BY <2>1, <2>5
  <2>8. F[x] = Value(F, x)
    BY <2>6, <2>7
  <2>2. h[x] = Value(H(n), x)
    BY <2>5, <2>7, <2>8
  <2>3. CASE x \in L
    BY <2>2, <2>3
  <2>4. CASE x \notin L
    <3> DEFINE y == step[x]
               m == mu[y] + 1
    <3>1. y \in D /\ m \in Nat /\ mu[y] \in Nat /\ m <= mu[x] /\ mu[y] < m
      BY <2>1, <2>4
    <3>2. Upto(m, H(m)) /\ h[y] = H(m)[y]
      BY <1>7, <3>1 DEF h
    <3>3. Upto(m, H(n))
      BY <2>1, <3>1
    <3> HIDE DEF Upto
    <3>4. Same(m)
      BY <1>6, <3>1
    <3>5. H(n)[y] = H(m)[y]
      BY <3>1, <3>2, <3>3, <3>4 DEF Same
    <3> QED
      BY <2>2, <2>4, <3>2, <3>5
  <2> QED
    BY <2>3, <2>4
<1> QED
  BY <1>9, <1>10

-----------------------------------------------------------------------------
(* Reachable concepts                                                      *)

(* The prerequisites of a concept, and one more step towards Reachable.     *)
Required(c, R) == {p \in Concepts : <<c, p>> \in R}
Further(X, c, R) == {p \in Concepts : \E d \in X \cup {c} : <<d, p>> \in R} \cup X

(* Reachable is what is found after as many steps as there are concepts.    *)
LEMMA ReachableSteps ==
  ASSUME NEW c, NEW R
  PROVE  \E w \in [Nat -> SUBSET Concepts] :
           /\ w[0] = Required(c, R) /\ \A n \in Nat : w[n + 1] = Further(w[n], c, R)
           /\ Reachable(c, R) = w[Cardinality(Concepts)]
<1> DEFINE V == SUBSET Concepts
           first == Required(c, R)
           out == [n \in Nat |-> first]
           step == [n \in Nat |-> IF n = 0 THEN 0 ELSE n - 1]
           mu == [n \in Nat |-> n]
           G == [n \in Nat |-> [X \in V |-> Further(X, c, R)]]
           Is(f) == f = [n \in Nat |-> IF n = 0 THEN {p \in Concepts : <<c, p>> \in R}
                                       ELSE {p \in Concepts : \E d \in f[n - 1] \cup {c} : <<d, p>> \in R}
                                            \cup f[n - 1]]
<1>1. first \in V /\ \A X \in V : Further(X, c, R) \in V
  BY DEF Required, Further
<1>2. out \in [Nat -> V] /\ step \in [Nat -> Nat] /\ mu \in [Nat -> Nat] /\ G \in [Nat -> [V -> V]]
  <2>1. [X \in V |-> Further(X, c, R)] \in [V -> V]
    BY <1>1
  <2>2. step \in [Nat -> Nat]
    OBVIOUS
  <2> QED
    BY <1>1, <2>1, <2>2
<1>3. \A n \in Nat : n \notin {0} => mu[step[n]] < mu[n]
  OBVIOUS
<1> HIDE DEF V, first
<1>4. PICK w \in [Nat -> V] : \A n \in Nat : w[n] = IF n \in {0} THEN out[n] ELSE G[n][w[step[n]]]
  <2> DEFINE L == {0}
  <2>1. CallsLess(Nat, V, L, mu, step, out, G)
    BY <1>2, <1>3 DEF CallsLess
  <2> HIDE DEF L, out, step, mu, G
  <2>2. \E f \in [Nat -> V] : \A n \in Nat : f[n] = IF n \in L THEN out[n] ELSE G[n][f[step[n]]]
    BY <2>1, RecursionExists
  <2> QED
    BY <2>2 DEF L
<1>5. w[0] = first /\ \A n \in Nat : n # 0 => w[n] = Further(w[n - 1], c, R)
  <2>1. w[0] = out[0]
    BY <1>4
  <2>2. ASSUME NEW n \in Nat, n # 0 PROVE w[n] = Further(w[n - 1], c, R)
    <3>1. n \notin {0} /\ step[n] = n - 1 /\ n - 1 \in Nat
      BY <2>2
    <3>2. w[n - 1] \in V
      BY <1>4, <3>1
    <3>3. w[n] = G[n][w[step[n]]]
      BY <1>4, <3>1
    <3>4. G[n][w[n - 1]] = Further(w[n - 1], c, R)
      BY <3>2
    <3> QED
      BY <3>1, <3>3, <3>4
  <2> QED
    BY <2>1, <2>2
<1>6. Is(w)
  <2>1. \A n \in Nat : w[n] = IF n = 0 THEN {p \in Concepts : <<c, p>> \in R}
                              ELSE {p \in Concepts : \E d \in w[n - 1] \cup {c} : <<d, p>> \in R}
                                   \cup w[n - 1]
    BY <1>5 DEF first, Required, Further
  <2> QED
    BY <1>4, <2>1
<1>7. Reachable(c, R) = (CHOOSE f : Is(f))[Cardinality(Concepts)]
  BY DEF Reachable
<1>8. PICK v : v = CHOOSE f : Is(f)
  OBVIOUS
<1>9. Is(v)
  <2> HIDE DEF Is
  <2> QED
    BY <1>6, <1>8
<1>10. /\ v \in [Nat -> V] /\ v[0] = first
       /\ \A n \in Nat : n # 0 => v[n] = Further(v[n - 1], c, R)
  <2>1. DOMAIN v = Nat
    BY <1>9
  <2>2. v[0] = first
    BY <1>9 DEF first, Required
  <2>3. ASSUME NEW n \in Nat, n # 0 PROVE v[n] = Further(v[n - 1], c, R)
    BY <1>9, <2>3 DEF Further
  <2> DEFINE T == {n \in Nat : v[n] \in V}
  <2>4. Nat \subseteq T
    <3>1. 0 \in T
      BY <1>1, <2>2
    <3>2. \A k \in Nat : k \in T => k + 1 \in T
      <4> SUFFICES ASSUME NEW k \in Nat, v[k] \in V PROVE v[k + 1] \in V
        OBVIOUS
      <4>1. k + 1 \in Nat /\ k + 1 # 0 /\ (k + 1) - 1 = k
        OBVIOUS
      <4>2. v[k + 1] = Further(v[k], c, R)
        BY <2>3, <4>1
      <4> QED
        BY <1>1, <4>2
    <3> HIDE DEF T
    <3> QED
      BY <3>1, <3>2, NaturalsByOne
  <2>5. v = [n \in Nat |-> v[n]]
    BY <1>9
  <2> QED
    BY <2>2, <2>3, <2>4, <2>5
<1>11. \A n \in Nat : v[n + 1] = Further(v[n], c, R)
  BY <1>10
<1>12. Reachable(c, R) = v[Cardinality(Concepts)]
  BY <1>7, <1>8
<1> QED
  BY <1>10, <1>11, <1>12 DEF V, first

(* Reachable is the least set that holds the prerequisites of the concept   *)
(* and of its own members.                                                 *)
LEMMA ReachableIsLeast ==
  ASSUME IsFiniteSet(Concepts), NEW c, NEW R
  PROVE  /\ Reachable(c, R) \subseteq Concepts
         /\ \A d \in Reachable(c, R) \cup {c} : Required(d, R) \subseteq Reachable(c, R)
         /\ \A S : (\A d \in S \cup {c} : Required(d, R) \subseteq S)
                     => Reachable(c, R) \subseteq S
<1>1. PICK w \in [Nat -> SUBSET Concepts] :
        /\ w[0] = Required(c, R) /\ \A n \in Nat : w[n + 1] = Further(w[n], c, R)
        /\ Reachable(c, R) = w[Cardinality(Concepts)]
  BY ReachableSteps
<1> DEFINE m == Cardinality(Concepts)
<1>2. m \in Nat
  BY FS_CardinalityType
<1>3. \A n \in Nat : /\ w[n] \subseteq w[n + 1] /\ w[n] \subseteq Concepts
                     /\ IsFiniteSet(w[n]) /\ Cardinality(w[n]) \in Nat
                     /\ Cardinality(w[n]) <= m
  <2> TAKE n \in Nat
  <2>1. w[n] \in SUBSET Concepts /\ w[n] \subseteq w[n + 1]
    BY <1>1 DEF Further
  <2> QED
    BY <2>1, FS_Subset, FS_CardinalityType
<1> DEFINE Still(n) == w[n + 1] = w[n]
           T == {n \in Nat : Still(n) \/ Cardinality(w[n + 1]) >= n + 1}
<1>4. ASSUME NEW n \in Nat, ~Still(n) PROVE Cardinality(w[n + 1]) >= Cardinality(w[n]) + 1
  <2>1. n + 1 \in Nat
    OBVIOUS
  <2>2. /\ w[n] \in SUBSET w[n + 1] /\ IsFiniteSet(w[n + 1])
        /\ Cardinality(w[n]) \in Nat /\ Cardinality(w[n + 1]) \in Nat
    BY <1>3, <2>1
  <2>3. Cardinality(w[n]) <= Cardinality(w[n + 1]) /\ Cardinality(w[n]) # Cardinality(w[n + 1])
    BY <1>4, <2>2, FS_Subset
  <2> QED
    BY <2>2, <2>3
<1>5. Nat \subseteq T
  <2>1. 0 \in T
    <3>1. Cardinality(w[0]) \in Nat /\ Cardinality(w[0 + 1]) \in Nat
      BY <1>3
    <3>2. Still(0) \/ Cardinality(w[0 + 1]) >= 0 + 1
      BY <1>4, <3>1
    <3> QED
      BY <3>2
  <2>2. \A k \in Nat : k \in T => k + 1 \in T
    <3> SUFFICES ASSUME NEW k \in Nat, k \in T, ~Still(k + 1)
                 PROVE  Cardinality(w[(k + 1) + 1]) >= (k + 1) + 1
      OBVIOUS
    <3>1. k + 1 \in Nat /\ (k + 1) + 1 \in Nat
      OBVIOUS
    <3>2. ~Still(k)
      BY <1>1, <3>1
    <3>3. Cardinality(w[k + 1]) >= k + 1
      BY <3>2
    <3>4. Cardinality(w[(k + 1) + 1]) >= Cardinality(w[k + 1]) + 1
      BY <1>4, <3>1
    <3>5. Cardinality(w[k + 1]) \in Nat /\ Cardinality(w[(k + 1) + 1]) \in Nat
      BY <1>3, <3>1
    <3> QED
      BY <3>1, <3>3, <3>4, <3>5
  <2> HIDE DEF T
  <2> QED
    BY <2>1, <2>2, NaturalsByOne
<1>6. Still(m)
  <2>1. m + 1 \in Nat /\ m \in T
    BY <1>2, <1>5
  <2>2. Cardinality(w[m + 1]) <= m /\ Cardinality(w[m + 1]) \in Nat
    BY <1>3, <2>1
  <2> QED
    BY <1>2, <2>1, <2>2
<1>7. Further(w[m], c, R) = w[m] /\ w[m] \subseteq Concepts
  BY <1>1, <1>2, <1>6
<1>8. ASSUME NEW S, \A d \in S \cup {c} : Required(d, R) \subseteq S
      PROVE  w[m] \subseteq S
  <2> DEFINE U == {n \in Nat : w[n] \subseteq S}
  <2>1. 0 \in U
    BY <1>1, <1>8
  <2>2. \A k \in Nat : k \in U => k + 1 \in U
    <3> SUFFICES ASSUME NEW k \in Nat, w[k] \subseteq S PROVE w[k + 1] \subseteq S
      OBVIOUS
    <3>1. w[k + 1] = Further(w[k], c, R)
      BY <1>1
    <3> QED
      BY <1>8, <3>1 DEF Further, Required
  <2>3. Nat \subseteq U
    <3> HIDE DEF U
    <3> QED
      BY <2>1, <2>2, NaturalsByOne
  <2> QED
    BY <1>2, <2>3
<1>9. \A d \in w[m] \cup {c} : Required(d, R) \subseteq w[m]
  BY <1>7 DEF Further, Required
<1> QED
  BY <1>1, <1>7, <1>8, <1>9

-----------------------------------------------------------------------------
(* Sequences of concepts                                                   *)

(* A finite set as a sequence: each element once.                          *)
LEMMA SetToSeqOf ==
  ASSUME NEW S, IsFiniteSet(S)
  PROVE  /\ SetToSeq(S) \in Seq(S) /\ Len(SetToSeq(S)) = Cardinality(S)
         /\ Cardinality(S) \in Nat /\ Range(SetToSeq(S)) = S /\ IsInjective(SetToSeq(S))
<1> DEFINE n == Cardinality(S)
           s == SetToSeq(S)
<1>1. n \in Nat /\ ExistsBijection(1..n, S)
  BY FS_CardinalityType
<1>2. \E f \in [1..n -> S] : IsInjective(f)
  BY <1>1 DEF ExistsBijection, Bijection, Injection
<1>3. s \in [1..n -> S] /\ IsInjective(s)
  BY <1>2, Zenon DEF SetToSeq
<1> HIDE DEF s
<1>4. s \in Seq(S) /\ Len(s) = n
  BY <1>1, <1>3
<1>5. s \in Surjection(1..n, S)
  <2>1. IsFiniteSet(1..n) /\ Cardinality(1..n) = n
    BY <1>1, FS_Interval
  <2>2. s \in Injection(1..n, S)
    BY <1>3 DEF Injection
  <2> HIDE DEF n
  <2> QED
    BY <2>1, <2>2, FS_Injection DEF n
<1>6. Range(s) = S
  BY <1>3, <1>5 DEF Surjection, Range
<1> QED
  BY <1>1, <1>3, <1>4, <1>6 DEF s

(* What the members of a sequence are when it is joined or cut.            *)
LEMMA RangeJoined ==
  ASSUME NEW S, NEW s \in Seq(S), NEW t \in Seq(S)
  PROVE  /\ s \o t \in Seq(S) /\ Len(s \o t) = Len(s) + Len(t)
         /\ Range(s \o t) = Range(s) \cup Range(t)
<1>1. /\ s \o t \in Seq(S) /\ Len(s \o t) = Len(s) + Len(t)
      /\ \A i \in 1..(Len(s) + Len(t)) : (s \o t)[i] = IF i <= Len(s) THEN s[i] ELSE t[i - Len(s)]
  BY ConcatProperties
<1>2. /\ Len(s) \in Nat /\ Len(t) \in Nat /\ DOMAIN s = 1..Len(s) /\ DOMAIN t = 1..Len(t)
      /\ DOMAIN (s \o t) = 1..(Len(s) + Len(t))
  BY <1>1
<1>3. ASSUME NEW x \in Range(s \o t) PROVE x \in Range(s) \cup Range(t)
  <2>1. PICK i \in 1..(Len(s) + Len(t)) : x = (s \o t)[i]
    BY <1>2, <1>3 DEF Range
  <2>2. CASE i <= Len(s)
    BY <1>1, <1>2, <2>1, <2>2 DEF Range
  <2>3. CASE ~(i <= Len(s))
    <3>1. i - Len(s) \in 1..Len(t) /\ x = t[i - Len(s)]
      BY <1>1, <1>2, <2>1, <2>3
    <3> QED
      BY <1>2, <3>1 DEF Range
  <2> QED
    BY <2>2, <2>3
<1>4. ASSUME NEW x \in Range(s) PROVE x \in Range(s \o t)
  <2>1. PICK i \in 1..Len(s) : x = s[i]
    BY <1>2, <1>4 DEF Range
  <2>2. i \in 1..(Len(s) + Len(t)) /\ (s \o t)[i] = x
    BY <1>1, <1>2, <2>1
  <2> QED
    BY <1>2, <2>2 DEF Range
<1>5. ASSUME NEW x \in Range(t) PROVE x \in Range(s \o t)
  <2>1. PICK i \in 1..Len(t) : x = t[i]
    BY <1>2, <1>5 DEF Range
  <2>2. /\ i + Len(s) \in 1..(Len(s) + Len(t)) /\ ~(i + Len(s) <= Len(s))
        /\ (i + Len(s)) - Len(s) = i
    BY <1>2, <2>1
  <2>3. (s \o t)[i + Len(s)] = x
    BY <1>1, <2>1, <2>2
  <2> QED
    BY <1>2, <2>2, <2>3 DEF Range
<1> QED
  BY <1>1, <1>3, <1>4, <1>5

(* The members without the first or the last one.                          *)
LEMMA RangeCut ==
  ASSUME NEW S, NEW s \in Seq(S), s # <<>>
  PROVE  /\ Front(s) \in Seq(S) /\ Len(Front(s)) = Len(s) - 1 /\ Last(s) \in S
         /\ Range(s) = Range(Front(s)) \cup {Last(s)}
         /\ Tail(s) \in Seq(S) /\ Len(Tail(s)) = Len(s) - 1 /\ Head(s) \in S
         /\ Range(s) = Range(Tail(s)) \cup {Head(s)}
<1>0. PICK n \in Nat : n = Len(s)
  OBVIOUS
<1>1. n = Len(s) /\ n > 0 /\ DOMAIN s = 1..n /\ \A i \in 1..n : s[i] \in S
  BY <1>0
<1>2. Front(s) = SubSeq(s, 1, n - 1) /\ Last(s) = s[n]
  BY <1>1 DEF Front, Last
<1>3. /\ Front(s) \in Seq(S) /\ Len(Front(s)) = n - 1
      /\ \A i \in 1..(n - 1) : Front(s)[i] = s[i]
  <2>1. 1 \in Int /\ n - 1 \in Int /\ \A i \in 1..(n - 1) : s[i] \in S
    BY <1>1
  <2>2. /\ SubSeq(s, 1, n - 1) \in Seq(S)
        /\ Len(SubSeq(s, 1, n - 1)) = IF 1 <= n - 1 THEN (n - 1) - 1 + 1 ELSE 0
        /\ \A i \in 1..((n - 1) - 1 + 1) : SubSeq(s, 1, n - 1)[i] = s[1 + i - 1]
    BY <2>1, SubSeqProperties
  <2> QED
    BY <1>1, <1>2, <2>2
<1>4. DOMAIN Front(s) = 1..(n - 1)
  BY <1>1, <1>3
<1>5. Range(s) = Range(Front(s)) \cup {Last(s)}
  <2>1. \A i \in 1..n : i = n \/ i \in 1..(n - 1)
    BY <1>1
  <2>2. n \in 1..n /\ \A i \in 1..(n - 1) : i \in 1..n
    BY <1>1
  <2> QED
    BY <1>1, <1>2, <1>3, <1>4, <2>1, <2>2 DEF Range
<1>6. /\ Tail(s) \in Seq(S) /\ Len(Tail(s)) = n - 1 /\ Head(s) = s[1] /\ Head(s) \in S
      /\ DOMAIN Tail(s) = 1..(n - 1) /\ \A i \in 1..(n - 1) : Tail(s)[i] = s[i + 1]
  BY <1>1
<1>7. Range(s) = Range(Tail(s)) \cup {Head(s)}
  <2>1. ASSUME NEW x \in Range(s) PROVE x \in Range(Tail(s)) \cup {Head(s)}
    <3>1. PICK i \in 1..n : x = s[i]
      BY <1>1, <2>1 DEF Range
    <3>2. CASE i = 1
      BY <1>6, <3>1, <3>2
    <3>3. CASE i # 1
      <4>1. i - 1 \in 1..(n - 1) /\ (i - 1) + 1 = i
        BY <1>1, <3>1, <3>3
      <4> QED
        BY <1>6, <3>1, <4>1 DEF Range
    <3> QED
      BY <3>2, <3>3
  <2>2. ASSUME NEW x \in Range(Tail(s)) PROVE x \in Range(s)
    <3>1. PICK i \in 1..(n - 1) : x = Tail(s)[i]
      BY <1>6, <2>2 DEF Range
    <3>2. i + 1 \in 1..n /\ x = s[i + 1]
      BY <1>1, <1>6, <3>1
    <3> QED
      BY <1>1, <3>2 DEF Range
  <2>3. Head(s) \in Range(s)
    BY <1>1, <1>6 DEF Range
  <2> QED
    BY <2>1, <2>2, <2>3
<1> QED
  BY <1>1, <1>2, <1>3, <1>5, <1>6, <1>7

(* Joining and cutting keep a sequence without repetition.                 *)
LEMMA JoinedOnce ==
  ASSUME NEW S, NEW s \in Seq(S), NEW t \in Seq(S), IsInjective(s), IsInjective(t),
         Range(s) \cap Range(t) = {}
  PROVE  IsInjective(s \o t)
<1> DEFINE u == s \o t
<1>1. PICK m \in Nat, n \in Nat : m = Len(s) /\ n = Len(t)
  OBVIOUS
<1>2. /\ DOMAIN s = 1..m /\ DOMAIN t = 1..n /\ DOMAIN u = 1..(m + n)
      /\ \A i \in 1..(m + n) : u[i] = IF i <= m THEN s[i] ELSE t[i - m]
  BY <1>1, ConcatProperties
<1> HIDE DEF u
<1>3. \A i \in 1..(m + n) : \/ i \in 1..m /\ u[i] = s[i] /\ u[i] \in Range(s)
                            \/ i \notin 1..m /\ i - m \in 1..n /\ u[i] = t[i - m] /\ u[i] \in Range(t)
  <2> TAKE i \in 1..(m + n)
  <2>1. CASE i <= m
    BY <1>2, <2>1 DEF Range
  <2>2. CASE ~(i <= m)
    <3>1. i - m \in 1..n /\ i \notin 1..m /\ u[i] = t[i - m]
      BY <1>2, <2>2
    <3> QED
      BY <1>2, <3>1 DEF Range
  <2> QED
    BY <2>1, <2>2
<1>4. ASSUME NEW i \in 1..(m + n), NEW j \in 1..(m + n), u[i] = u[j] PROVE i = j
  <2>1. CASE i \in 1..m
    <3>1. j \in 1..m /\ s[i] = s[j]
      BY <1>3, <1>4, <2>1
    <3> QED
      BY <1>2, <2>1, <3>1 DEF IsInjective
  <2>2. CASE i \notin 1..m
    <3>1. j \notin 1..m /\ i - m \in 1..n /\ j - m \in 1..n /\ t[i - m] = t[j - m]
      BY <1>3, <1>4, <2>2
    <3>2. i - m = j - m
      BY <1>2, <3>1 DEF IsInjective
    <3> QED
      BY <3>2
  <2> QED
    BY <2>1, <2>2
<1> QED
  BY <1>2, <1>4 DEF IsInjective, u

LEMMA TailOnce ==
  ASSUME NEW S, NEW s \in Seq(S), s # <<>>, IsInjective(s)
  PROVE  IsInjective(Tail(s)) /\ Head(s) \notin Range(Tail(s))
<1>1. PICK n \in Nat : n = Len(s)
  OBVIOUS
<1>2. /\ n > 0 /\ DOMAIN s = 1..n /\ DOMAIN Tail(s) = 1..(n - 1) /\ Head(s) = s[1]
      /\ \A i \in 1..(n - 1) : Tail(s)[i] = s[i + 1]
  BY <1>1
<1>3. \A i \in 1..(n - 1) : i + 1 \in 1..n /\ i + 1 # 1
  BY <1>2
<1>4. ASSUME NEW i \in 1..(n - 1), NEW j \in 1..(n - 1), Tail(s)[i] = Tail(s)[j] PROVE i = j
  <2>1. i + 1 = j + 1
    BY <1>2, <1>3, <1>4 DEF IsInjective
  <2> QED
    BY <2>1
<1>5. ASSUME NEW i \in 1..(n - 1), Tail(s)[i] = Head(s) PROVE FALSE
  <2>1. s[i + 1] = s[1] /\ i + 1 \in 1..n /\ 1 \in 1..n
    BY <1>2, <1>3, <1>5
  <2> QED
    BY <1>2, <1>3, <2>1 DEF IsInjective
<1> QED
  BY <1>2, <1>4, <1>5 DEF IsInjective, Range

-----------------------------------------------------------------------------
(* The prerequisites of targets                                            *)

(* Each step pursues one concept; the work that is left shrinks.            *)
Left(s) == Len(s.pending) + 2 * Cardinality(Concepts \ s.closure)

LEMMA PursueStep ==
  ASSUME IsFiniteSet(Concepts), NEW R, NEW s \in Pursuit, s.pending # <<>>
  PROVE  LET t == Pursue(s, R)
             c == Last(s.pending)
             found == {p \in Concepts \ s.closure : <<c, p>> \in R}
         IN /\ t \in Pursuit /\ t.closure = s.closure \cup found /\ c \in Concepts
            /\ Range(t.pending) = Range(Front(s.pending)) \cup found
            /\ Range(s.pending) = Range(Front(s.pending)) \cup {c}
            /\ Left(s) \in Nat /\ Left(t) \in Nat /\ Left(t) < Left(s)
<1> DEFINE c == Last(s.pending)
           found == {p \in Concepts \ s.closure : <<c, p>> \in R}
           t == Pursue(s, R)
           work == SetToSeq(found)
           rest == Front(s.pending)
<1>1. s.pending \in Seq(Concepts) /\ s.closure \in SUBSET Concepts
  BY DEF Pursuit
<1>2. /\ rest \in Seq(Concepts) /\ Len(rest) = Len(s.pending) - 1 /\ c \in Concepts
      /\ Range(s.pending) = Range(rest) \cup {c}
  BY <1>1, RangeCut
<1>3. found \in SUBSET Concepts /\ found \in SUBSET (Concepts \ s.closure)
  OBVIOUS
<1>4. t.pending = rest \o work /\ t.closure = s.closure \cup found
      /\ t = [pending |-> rest \o work, closure |-> s.closure \cup found]
  BY DEF Pursue
<1> HIDE DEF found, t, rest, c
<1>5. IsFiniteSet(found) /\ Cardinality(found) \in Nat
  BY <1>3, FS_Subset, FS_CardinalityType
<1>6. work \in Seq(found) /\ Len(work) = Cardinality(found) /\ Range(work) = found
  BY <1>5, SetToSeqOf
<1> HIDE DEF work
<1>7. work \in Seq(Concepts)
  BY <1>3, <1>6
<1>8. /\ rest \o work \in Seq(Concepts) /\ Len(rest \o work) = Len(rest) + Len(work)
      /\ Range(rest \o work) = Range(rest) \cup Range(work)
  BY <1>2, <1>7, RangeJoined
<1>9. t \in Pursuit
  BY <1>1, <1>3, <1>4, <1>8 DEF Pursuit
<1>10. /\ Cardinality(Concepts \ s.closure) \in Nat /\ Cardinality(Concepts \ t.closure) \in Nat
       /\ Cardinality(Concepts \ s.closure) = Cardinality(found) + Cardinality(Concepts \ t.closure)
  <2> DEFINE A == Concepts \ t.closure
             B == Concepts \ s.closure
  <2>1. B = found \cup A /\ found \cap A = {} /\ A \in SUBSET Concepts
    BY <1>3, <1>4
  <2> HIDE DEF A, B
  <2>2. IsFiniteSet(A) /\ Cardinality(A) \in Nat
    BY <2>1, FS_Subset, FS_CardinalityType
  <2>3. Cardinality(found \cup A) = Cardinality(found) + Cardinality(A) - Cardinality(found \cap A)
    BY <1>5, <2>2, FS_Union
  <2>4. Cardinality(found \cap A) = 0
    BY <2>1, FS_EmptySet
  <2>5. Cardinality(found \cup A) = Cardinality(found) + Cardinality(A)
    BY <1>5, <2>2, <2>3, <2>4
  <2>6. Cardinality(B) = Cardinality(found) + Cardinality(A)
    BY <2>1, <2>5, Zenon
  <2>7. Cardinality(B) \in Nat
    BY <1>5, <2>2, <2>6
  <2> QED
    BY <2>2, <2>6, <2>7, Zenon DEF A, B
<1>11. Len(s.pending) \in Nat /\ Len(s.pending) > 0
  BY <1>1
<1>12. Left(s) \in Nat /\ Left(t) \in Nat /\ Left(t) < Left(s)
  <2>1. Len(t.pending) = (Len(s.pending) - 1) + Cardinality(found)
    BY <1>2, <1>4, <1>6, <1>8
  <2> DEFINE a == Cardinality(Concepts \ s.closure)
             b == Cardinality(Concepts \ t.closure)
             k == Cardinality(found)
             m == Len(s.pending)
  <2>2. /\ a \in Nat /\ b \in Nat /\ k \in Nat /\ m \in Nat /\ m > 0 /\ a = k + b
        /\ Left(s) = m + 2 * a /\ Left(t) = ((m - 1) + k) + 2 * b
    BY <1>5, <1>10, <1>11, <2>1 DEF Left
  <2> HIDE DEF a, b, k, m
  <2> QED
    BY <2>2
<1> QED
  BY <1>2, <1>4, <1>6, <1>8, <1>9, <1>12 DEF found, t, rest, c

(* The traversal ends and returns what it has closed.                      *)
LEMMA CloseExists ==
  ASSUME IsFiniteSet(Concepts), NEW R, NEW targets
  PROVE  \E close :
           /\ \A s \in Pursuit : close[s] = IF s.pending = <<>> THEN s.closure
                                            ELSE close[Pursue(s, R)]
           /\ TransitivePrerequisites(targets, R)
                = close[[pending |-> SetToSeq(targets), closure |-> {}]] \ targets
<1> DEFINE D == Pursuit
           V == SUBSET Concepts
           L == {s \in D : s.pending = <<>>}
           mu == [s \in D |-> Left(s)]
           out == [s \in D |-> s.closure]
           step == [s \in D |-> IF s \in L THEN s ELSE Pursue(s, R)]
           G == [s \in D |-> [X \in V |-> X]]
           Is(f) == f = [s \in D |-> IF s.pending = <<>> THEN s.closure ELSE f[Pursue(s, R)]]
<1>1. \A s \in D : Left(s) \in Nat /\ s.closure \in V
  <2> TAKE s \in D
  <2>1. s.pending \in Seq(Concepts) /\ s.closure \in V /\ Concepts \ s.closure \in SUBSET Concepts
    BY DEF Pursuit
  <2>2. Cardinality(Concepts \ s.closure) \in Nat /\ Len(s.pending) \in Nat
    BY <2>1, FS_Subset, FS_CardinalityType
  <2> QED
    BY <2>1, <2>2 DEF Left
<1>2. \A s \in D : s \notin L => Pursue(s, R) \in D /\ Left(Pursue(s, R)) < Left(s)
  BY PursueStep
<1> HIDE DEF D, V
<1>3. CallsLess(D, V, L, mu, step, out, G)
  <2>1. mu \in [D -> Nat] /\ out \in [D -> V]
    BY <1>1
  <2>2. step \in [D -> D]
    BY <1>2
  <2>3. G \in [D -> [V -> V]]
    OBVIOUS
  <2>4. \A s \in D : s \notin L => mu[step[s]] < mu[s]
    BY <1>2
  <2> HIDE DEF mu, out, step, G, L
  <2> QED
    BY <2>1, <2>2, <2>3, <2>4 DEF CallsLess
<1>4. PICK f \in [D -> V] : \A s \in D : f[s] = IF s \in L THEN out[s] ELSE G[s][f[step[s]]]
  <2> HIDE DEF mu, out, step, G, L
  <2> QED
    BY <1>3, RecursionExists
<1>5. ASSUME NEW s \in D PROVE f[s] = IF s.pending = <<>> THEN s.closure ELSE f[Pursue(s, R)]
  <2>1. CASE s \in L
    BY <1>4, <2>1
  <2>2. CASE s \notin L
    <3>1. step[s] = Pursue(s, R) /\ Pursue(s, R) \in D
      BY <1>2, <2>2
    <3>2. f[Pursue(s, R)] \in V
      BY <1>4, <3>1
    <3>3. f[s] = G[s][f[Pursue(s, R)]]
      BY <1>4, <2>2, <3>1
    <3> QED
      BY <2>2, <3>2, <3>3
  <2> QED
    BY <2>1, <2>2
<1>6. Is(f)
  BY <1>4, <1>5
<1>7. PICK g : g = CHOOSE h : Is(h)
  OBVIOUS
<1>8. Is(g)
  <2> HIDE DEF Is
  <2> QED
    BY <1>6, <1>7
<1>9. TransitivePrerequisites(targets, R)
        = (CHOOSE h : Is(h))[[pending |-> SetToSeq(targets), closure |-> {}]] \ targets
  BY DEF TransitivePrerequisites, D
<1>10. \A s \in D : g[s] = IF s.pending = <<>> THEN s.closure ELSE g[Pursue(s, R)]
  BY <1>8
<1>11. TransitivePrerequisites(targets, R)
         = g[[pending |-> SetToSeq(targets), closure |-> {}]] \ targets
  BY Zenon, <1>7, <1>9
<1> HIDE DEF Is
<1> QED
  BY <1>10, <1>11 DEF D

(* It closes the targets under prerequisites, and finds nothing else.       *)
LEMMA ClosureIsReachable ==
  ASSUME IsFiniteSet(Concepts), NEW R, NEW targets \in SUBSET Concepts
  PROVE  TransitivePrerequisites(targets, R) = (UNION {Reachable(c, R) : c \in targets}) \ targets
<1> DEFINE U == UNION {Reachable(c, R) : c \in targets}
           begin == [pending |-> SetToSeq(targets), closure |-> {}]
           \* What holds between two steps.
           Sound(s) == /\ s.closure \subseteq U /\ Range(s.pending) \subseteq targets \cup s.closure
                       /\ \A d \in targets \cup s.closure :
                            d \in Range(s.pending) \/ Required(d, R) \subseteq s.closure
<1>1. PICK close :
        /\ \A s \in Pursuit : close[s] = IF s.pending = <<>> THEN s.closure
                                         ELSE close[Pursue(s, R)]
        /\ TransitivePrerequisites(targets, R) = close[begin] \ targets
  BY CloseExists, Zenon
<1>2. /\ U \subseteq Concepts /\ \A d \in U \cup targets : Required(d, R) \subseteq U
      /\ \A S : (\A d \in S \cup targets : Required(d, R) \subseteq S) => U \subseteq S
  <2>1. \A c : /\ Reachable(c, R) \subseteq Concepts
               /\ \A d \in Reachable(c, R) \cup {c} : Required(d, R) \subseteq Reachable(c, R)
               /\ \A S : (\A d \in S \cup {c} : Required(d, R) \subseteq S) => Reachable(c, R) \subseteq S
    BY ReachableIsLeast
  <2>2. U \subseteq Concepts
    BY <2>1
  <2>3. ASSUME NEW d \in U \cup targets PROVE Required(d, R) \subseteq U
    <3>1. CASE d \in targets
      BY <2>1, <3>1
    <3>2. CASE d \in U
      <4>1. PICK c \in targets : d \in Reachable(c, R)
        BY <3>2
      <4> QED
        BY <2>1, <4>1
    <3> QED
      BY <3>1, <3>2
  <2>4. ASSUME NEW S, \A d \in S \cup targets : Required(d, R) \subseteq S PROVE U \subseteq S
    <3>1. \A c \in targets : Reachable(c, R) \subseteq S
      BY <2>1, <2>4
    <3> QED
      BY <3>1
  <2> QED
    BY <2>2, <2>3, <2>4
<1> HIDE DEF U
<1>3. ASSUME NEW s \in Pursuit, Sound(s), s.pending = <<>> PROVE s.closure = U
  <2>1. Range(s.pending) = {}
    BY <1>3 DEF Range
  <2>2. \A d \in s.closure \cup targets : Required(d, R) \subseteq s.closure
    BY <1>3, <2>1
  <2> QED
    BY <1>2, <1>3, <2>2
<1>4. ASSUME NEW s \in Pursuit, Sound(s), s.pending # <<>> PROVE Sound(Pursue(s, R))
  <2> DEFINE t == Pursue(s, R)
             c == Last(s.pending)
             found == {p \in Concepts \ s.closure : <<c, p>> \in R}
  <2>1. /\ t.closure = s.closure \cup found
        /\ Range(t.pending) = Range(Front(s.pending)) \cup found
        /\ Range(s.pending) = Range(Front(s.pending)) \cup {c}
    BY <1>4, PursueStep
  <2>2. c \in U \cup targets
    BY <1>4, <2>1
  <2>3. found \subseteq Required(c, R) /\ Required(c, R) \subseteq s.closure \cup found
    BY DEF Required
  <2> HIDE DEF t, c, found
  <2>4. t.closure \subseteq U /\ Range(t.pending) \subseteq targets \cup t.closure
    BY <1>2, <1>4, <2>1, <2>2, <2>3
  <2>5. ASSUME NEW d \in targets \cup t.closure
        PROVE  d \in Range(t.pending) \/ Required(d, R) \subseteq t.closure
    <3>1. CASE d \in found
      BY <2>1, <3>1
    <3>2. CASE d = c
      BY <2>1, <2>3, <3>2
    <3>3. CASE d \notin found /\ d # c
      <4>1. d \in targets \cup s.closure
        BY <2>1, <2>5, <3>3
      <4> QED
        BY <1>4, <2>1, <3>3, <4>1
    <3> QED
      BY <3>1, <3>2, <3>3
  <2> QED
    BY <2>4, <2>5 DEF t
<1>5. begin \in Pursuit /\ Sound(begin)
  <2>1. IsFiniteSet(targets)
    BY FS_Subset
  <2>2. SetToSeq(targets) \in Seq(targets) /\ Range(SetToSeq(targets)) = targets
    BY <2>1, SetToSeqOf
  <2>3. SetToSeq(targets) \in Seq(Concepts)
    BY <2>2
  <2> QED
    BY <2>2, <2>3 DEF Pursuit
<1> HIDE DEF Sound, begin
<1> DEFINE T == {n \in Nat : \A s \in Pursuit : Left(s) < n /\ Sound(s) => close[s] = U}
<1>6. \A s \in Pursuit : Left(s) \in Nat
  <2> TAKE s \in Pursuit
  <2>1. s.pending \in Seq(Concepts) /\ Concepts \ s.closure \in SUBSET Concepts
    BY DEF Pursuit
  <2>2. Cardinality(Concepts \ s.closure) \in Nat /\ Len(s.pending) \in Nat
    BY <2>1, FS_Subset, FS_CardinalityType
  <2> QED
    BY <2>2 DEF Left
<1>7. Nat \subseteq T
  <2>1. 0 \in T
    BY <1>6
  <2>2. \A n \in Nat : n \in T => n + 1 \in T
    <3> SUFFICES ASSUME NEW n \in Nat, n \in T, NEW s \in Pursuit, Left(s) < n + 1, Sound(s)
                 PROVE  close[s] = U
      OBVIOUS
    <3>1. CASE s.pending = <<>>
      BY <1>1, <1>3, <3>1
    <3>2. CASE s.pending # <<>>
      <4>1. /\ Pursue(s, R) \in Pursuit /\ Left(Pursue(s, R)) \in Nat /\ Left(s) \in Nat
            /\ Left(Pursue(s, R)) < Left(s)
        BY <3>2, PursueStep
      <4>2. Sound(Pursue(s, R)) /\ Left(Pursue(s, R)) < n
        BY <1>4, <3>2, <4>1
      <4>3. close[Pursue(s, R)] = U
        BY <4>1, <4>2
      <4> QED
        BY <1>1, <3>2, <4>3
    <3> QED
      BY <3>1, <3>2
  <2> HIDE DEF T
  <2> QED
    BY <2>1, <2>2, NaturalsByOne
<1>8. close[begin] = U
  <2>1. Left(begin) \in Nat /\ Left(begin) + 1 \in T /\ Left(begin) < Left(begin) + 1
    BY <1>5, <1>6, <1>7
  <2> QED
    BY <1>5, <2>1
<1>9. TransitivePrerequisites(targets, R) = U \ targets
  BY Zenon, <1>1, <1>8
<1> QED
  BY Zenon, <1>9 DEF U

-----------------------------------------------------------------------------
(* The traversal of _assert_acyclic                                        *)

(* The work left, and what a visit readies.                                *)
Positive(v, cs) == {c \in cs : v.degree[c] > 0}
Pending(v, cs) == Len(v.queue) + 2 * Cardinality(Positive(v, cs))
Readied(v, cs, R) ==
  {c \in cs : <<c, Head(v.queue)>> \in R
              /\ v.degree[c] - (IF <<c, Head(v.queue)>> \in R THEN 1 ELSE 0) = 0}

(* The work left is a natural number.                                      *)
LEMMA PendingType ==
  ASSUME NEW cs, IsFiniteSet(cs), NEW v \in Visiting(cs)
  PROVE  /\ v.queue \in Seq(cs) /\ v.degree \in [cs -> Int] /\ Pending(v, cs) \in Nat
         /\ IsFiniteSet(Positive(v, cs)) /\ Cardinality(Positive(v, cs)) \in Nat
<1>1. v.queue \in Seq(cs) /\ v.degree \in [cs -> Int]
  BY DEF Visiting
<1>2. Positive(v, cs) \in SUBSET cs
  BY DEF Positive
<1>3. IsFiniteSet(Positive(v, cs)) /\ Cardinality(Positive(v, cs)) \in Nat /\ Len(v.queue) \in Nat
  BY <1>1, <1>2, FS_Subset, FS_CardinalityType
<1> QED
  BY <1>1, <1>3 DEF Pending

(* A visit readies the dependents whose last prerequisite it was: each leaves *)
(* the positive degrees, so that the work left shrinks.                     *)
LEMMA VisitStep ==
  ASSUME NEW cs, IsFiniteSet(cs), NEW R, NEW v \in Visiting(cs), v.queue # <<>>
  PROVE  LET t == Visit(v, cs, R)
             ready == Readied(v, cs, R)
         IN /\ t \in Visiting(cs) /\ Pending(t, cs) < Pending(v, cs)
            /\ t.queue = Tail(v.queue) \o SetToSeq(ready)
            /\ \A c \in cs : t.degree[c]
                               = v.degree[c] - IF <<c, Head(v.queue)>> \in R THEN 1 ELSE 0
            /\ IsFiniteSet(ready) /\ Head(v.queue) \in cs
<1> DEFINE t == Visit(v, cs, R)
           ready == Readied(v, cs, R)
           h == Head(v.queue)
           lower == [c \in cs |-> v.degree[c] - IF <<c, h>> \in R THEN 1 ELSE 0]
           work == SetToSeq(ready)
           rest == Tail(v.queue)
<1>1. v.queue \in Seq(cs) /\ v.degree \in [cs -> Int]
  BY PendingType
<1>2. /\ rest \in Seq(cs) /\ Len(rest) = Len(v.queue) - 1 /\ h \in cs
  BY <1>1, RangeCut
<1>3. lower \in [cs -> Int]
  BY <1>1
<1>4. ready = {c \in cs : <<c, h>> \in R /\ lower[c] = 0}
  BY DEF Readied
<1>5. t = [queue |-> rest \o work, degree |-> lower]
  BY <1>4, Zenon DEF Visit
<1>6. ready \in SUBSET cs
  BY DEF Readied
<1>7. IsFiniteSet(ready) /\ Cardinality(ready) \in Nat
  BY <1>6, FS_Subset, FS_CardinalityType
<1> HIDE DEF ready, h, rest
<1>8. work \in Seq(ready) /\ Len(work) = Cardinality(ready)
  BY <1>7, SetToSeqOf
<1> HIDE DEF work
<1>9. work \in Seq(cs)
  BY <1>6, <1>8
<1>10. rest \o work \in Seq(cs) /\ Len(rest \o work) = Len(rest) + Len(work)
  BY <1>2, <1>9, RangeJoined
<1>11. t.queue = rest \o work /\ t.degree = lower /\ t \in Visiting(cs)
  BY <1>3, <1>5, <1>10 DEF Visiting
<1>12. \A c \in cs : t.degree[c] = v.degree[c] - IF <<c, h>> \in R THEN 1 ELSE 0
  BY <1>11
<1> HIDE DEF t
<1>13. Cardinality(Positive(t, cs)) + Cardinality(ready) <= Cardinality(Positive(v, cs))
  <2> DEFINE A == Positive(t, cs)
             B == Positive(v, cs)
  <2>1. A \cup ready \subseteq B /\ A \cap ready = {}
    <3>1. \A c \in cs : t.degree[c] = lower[c] /\ v.degree[c] \in Int
      BY <1>1, <1>11
    <3>2. ASSUME NEW c \in cs
          PROVE  t.degree[c] \in Int /\ v.degree[c] \in Int /\ t.degree[c] <= v.degree[c]
      <4>1. lower[c] = v.degree[c] \/ lower[c] = v.degree[c] - 1
        BY <3>1
      <4> QED
        BY <3>1, <4>1
    <3>3. \A c \in ready : t.degree[c] = 0 /\ v.degree[c] = 1
      <4> TAKE c \in ready
      <4>1. c \in cs /\ <<c, h>> \in R /\ lower[c] = 0
        BY <1>4
      <4>2. lower[c] = v.degree[c] - 1 /\ v.degree[c] \in Int
        BY <3>1, <4>1
      <4> QED
        BY <3>1, <4>1, <4>2
    <3> QED
      BY <1>6, <3>2, <3>3 DEF Positive
  <2>2. /\ IsFiniteSet(A) /\ Cardinality(A) \in Nat
        /\ IsFiniteSet(B) /\ Cardinality(B) \in Nat
    BY <1>11, PendingType
  <2> HIDE DEF A, B
  <2>3. Cardinality(A \cup ready) = Cardinality(A) + Cardinality(ready) - Cardinality(A \cap ready)
    BY <1>7, <2>2, FS_Union
  <2>4. Cardinality(A \cap ready) = 0
    BY <2>1, FS_EmptySet
  <2>5. Cardinality(A \cup ready) <= Cardinality(B)
    BY <2>1, <2>2, FS_Subset
  <2>6. Cardinality(A) + Cardinality(ready) <= Cardinality(B)
    BY <1>7, <2>2, <2>3, <2>4, <2>5
  <2> QED
    BY <2>6 DEF A, B
<1>14. Pending(t, cs) < Pending(v, cs)
  <2> DEFINE a == Cardinality(Positive(t, cs))
             b == Cardinality(Positive(v, cs))
             k == Cardinality(ready)
             m == Len(v.queue)
  <2>1. m \in Nat /\ m > 0
    BY <1>1
  <2>2. a \in Nat /\ b \in Nat /\ k \in Nat /\ a + k <= b
    BY <1>7, <1>11, <1>13, PendingType
  <2>3. Len(t.queue) = (m - 1) + k
    BY <1>2, <1>8, <1>10, <1>11
  <2>4. Pending(t, cs) = ((m - 1) + k) + 2 * a /\ Pending(v, cs) = m + 2 * b
    BY <2>3 DEF Pending
  <2> HIDE DEF a, b, k, m
  <2> QED
    BY <2>1, <2>2, <2>4
<1> QED
  BY <1>2, <1>7, <1>11, <1>12, <1>14 DEF t, ready, h, rest, work

(* Where the traversal starts.                                             *)
Begin(cs, R) ==
  LET degree == [c \in cs |-> Cardinality({p \in cs : <<c, p>> \in R})]
  IN [queue |-> SetToSeq({c \in cs : degree[c] = 0}), degree |-> degree]

(* The traversal ends, and Visited is the number of its steps.             *)
LEMMA VisitsExist ==
  ASSUME NEW cs, IsFiniteSet(cs), NEW R
  PROVE  \E visits :
           /\ \A v \in Visiting(cs) : visits[v] = IF v.queue = <<>> THEN 0
                                                  ELSE 1 + visits[Visit(v, cs, R)]
           /\ Visited(cs, R) = visits[Begin(cs, R)]
<1> DEFINE D == Visiting(cs)
           L == {v \in D : v.queue = <<>>}
           mu == [v \in D |-> Pending(v, cs)]
           out == [v \in D |-> 0]
           step == [v \in D |-> IF v \in L THEN v ELSE Visit(v, cs, R)]
           G == [v \in D |-> [n \in Nat |-> 1 + n]]
           Is(f) == f = [v \in D |-> IF v.queue = <<>> THEN 0 ELSE 1 + f[Visit(v, cs, R)]]
<1>1. \A v \in D : Pending(v, cs) \in Nat
  BY PendingType
<1>2. \A v \in D : v \notin L => Visit(v, cs, R) \in D /\ Pending(Visit(v, cs, R), cs) < Pending(v, cs)
  BY VisitStep
<1> HIDE DEF D
<1>3. CallsLess(D, Nat, L, mu, step, out, G)
  <2>1. mu \in [D -> Nat] /\ out \in [D -> Nat]
    BY <1>1
  <2>2. step \in [D -> D]
    BY <1>2
  <2>3. G \in [D -> [Nat -> Nat]]
    OBVIOUS
  <2>4. \A v \in D : v \notin L => mu[step[v]] < mu[v]
    BY <1>2
  <2> HIDE DEF mu, out, step, G, L
  <2> QED
    BY <2>1, <2>2, <2>3, <2>4 DEF CallsLess
<1>4. PICK f \in [D -> Nat] : \A v \in D : f[v] = IF v \in L THEN out[v] ELSE G[v][f[step[v]]]
  <2> HIDE DEF mu, out, step, G, L
  <2> QED
    BY <1>3, RecursionExists
<1>5. ASSUME NEW v \in D PROVE f[v] = IF v.queue = <<>> THEN 0 ELSE 1 + f[Visit(v, cs, R)]
  <2>1. CASE v \in L
    BY <1>4, <2>1
  <2>2. CASE v \notin L
    <3>1. step[v] = Visit(v, cs, R) /\ Visit(v, cs, R) \in D
      BY <1>2, <2>2
    <3>2. f[Visit(v, cs, R)] \in Nat
      BY <1>4, <3>1
    <3>3. f[v] = G[v][f[Visit(v, cs, R)]]
      BY <1>4, <2>2, <3>1
    <3> QED
      BY <2>2, <3>2, <3>3
  <2> QED
    BY <2>1, <2>2
<1>6. Is(f)
  BY <1>4, <1>5
<1>7. PICK g : g = CHOOSE h : Is(h)
  OBVIOUS
<1>8. Is(g)
  <2> HIDE DEF Is
  <2> QED
    BY <1>6, <1>7
<1>9. Visited(cs, R) = (CHOOSE h : Is(h))[Begin(cs, R)]
  BY DEF Visited, Begin, D
<1>10. \A v \in D : g[v] = IF v.queue = <<>> THEN 0 ELSE 1 + g[Visit(v, cs, R)]
  BY <1>8
<1>11. Visited(cs, R) = g[Begin(cs, R)]
  BY Zenon, <1>7, <1>9
<1> HIDE DEF Is
<1> QED
  BY <1>10, <1>11 DEF D

(* What holds between two visits when the concepts of W are unvisited and   *)
(* each of K needs another of K.                                           *)
Degrees(v, W, cs, R) == \A c \in cs : v.degree[c] = Cardinality({p \in W : <<c, p>> \in R})
Underway(v, W, K, cs, R) ==
  /\ W \subseteq cs /\ K \subseteq W /\ Degrees(v, W, cs, R)
  /\ IsInjective(v.queue) /\ Range(v.queue) \subseteq W \ K
  /\ \A c \in Range(v.queue) \cup (cs \ W) : v.degree[c] = 0

(* A visit takes an unvisited concept outside K, and K stays out of reach.  *)
LEMMA UnderwayKept ==
  ASSUME NEW cs, IsFiniteSet(cs), NEW R, NEW v \in Visiting(cs), v.queue # <<>>,
         NEW W, NEW K, \A c \in K : \E p \in K : <<c, p>> \in R, Underway(v, W, K, cs, R)
  PROVE  /\ Head(v.queue) \in W \ K
         /\ Underway(Visit(v, cs, R), W \ {Head(v.queue)}, K, cs, R)
<1> DEFINE t == Visit(v, cs, R)
           ready == Readied(v, cs, R)
           h == Head(v.queue)
           W2 == W \ {h}
           rest == Tail(v.queue)
<1>1. /\ t.queue = rest \o SetToSeq(ready) /\ IsFiniteSet(ready) /\ h \in cs
      /\ \A c \in cs : t.degree[c] = v.degree[c] - IF <<c, h>> \in R THEN 1 ELSE 0
  BY VisitStep
<1>2. v.queue \in Seq(cs) /\ v.degree \in [cs -> Int]
  BY PendingType
<1>3. rest \in Seq(cs) /\ Range(v.queue) = Range(rest) \cup {h}
  BY <1>2, RangeCut
<1>4. IsInjective(rest) /\ h \notin Range(rest)
  BY <1>2, TailOnce DEF Underway
<1>5. /\ SetToSeq(ready) \in Seq(ready) /\ Range(SetToSeq(ready)) = ready
      /\ IsInjective(SetToSeq(ready))
  BY <1>1, SetToSeqOf
<1>6. ready \subseteq cs /\ SetToSeq(ready) \in Seq(cs)
  <2>1. ready \subseteq cs
    BY DEF Readied
  <2> HIDE DEF ready
  <2> QED
    BY <1>5, <2>1
<1>7. \A c \in ready : t.degree[c] = 0 /\ v.degree[c] = 1
  BY <1>1, <1>2 DEF Readied
<1> HIDE DEF t, ready, rest, h
<1>8. h \in W \ K /\ K \subseteq W2 /\ W2 \subseteq cs
  BY <1>3 DEF Underway
<1>9. ASSUME NEW c \in cs
      PROVE  t.degree[c] = Cardinality({p \in W2 : <<c, p>> \in R})
  <2> DEFINE A == {p \in W : <<c, p>> \in R}
  <2>1. A \in SUBSET cs /\ {p \in W2 : <<c, p>> \in R} = A \ {h}
    BY DEF Underway
  <2>2. (h \in A <=> <<c, h>> \in R) /\ v.degree[c] = Cardinality(A)
    BY <1>8 DEF Underway, Degrees
  <2> HIDE DEF A
  <2>3. IsFiniteSet(A)
    BY <2>1, FS_Subset
  <2>4. Cardinality(A) \in Nat
        /\ Cardinality(A \ {h}) = IF h \in A THEN Cardinality(A) - 1 ELSE Cardinality(A)
    BY <2>3, FS_RemoveElement, FS_CardinalityType
  <2>5. t.degree[c] = Cardinality(A \ {h})
    BY <1>1, <2>2, <2>4
  <2> QED
    BY <2>1, <2>5
<1>10. ready \cap (Range(v.queue) \cup (cs \ W)) = {}
  BY <1>7 DEF Underway
<1>11. \A c \in Range(v.queue) \cup (cs \ W) : t.degree[c] = 0
  <2> TAKE c \in Range(v.queue) \cup (cs \ W)
  <2>1. c \in cs /\ v.degree[c] = 0
    BY DEF Underway
  <2> DEFINE A == {p \in W : <<c, p>> \in R}
  <2>2. A \in SUBSET cs /\ Cardinality(A) = 0
    BY <2>1 DEF Underway, Degrees
  <2>3. A = {}
    <3> HIDE DEF A
    <3> QED
      BY <2>2, FS_Subset, FS_EmptySet
  <2>4. <<c, h>> \notin R
    BY <1>8, <2>3
  <2> QED
    BY <1>1, <2>1, <2>4
<1>12. \A c \in K : t.degree[c] # 0
  <2> TAKE c \in K
  <2>1. PICK p \in K : <<c, p>> \in R
    OBVIOUS
  <2> DEFINE A == {q \in W2 : <<c, q>> \in R}
  <2>2. p \in A /\ A \in SUBSET cs /\ c \in cs
    BY <1>8, <2>1
  <2>3. t.degree[c] = Cardinality(A)
    BY <1>9, <2>2
  <2> HIDE DEF A
  <2>4. IsFiniteSet(A) /\ Cardinality(A) # 0
    BY <2>2, FS_Subset, FS_EmptySet
  <2> QED
    BY <2>3, <2>4
<1>13. Range(t.queue) = Range(rest) \cup ready /\ IsInjective(t.queue)
  <2>1. Range(rest) \cap Range(SetToSeq(ready)) = {}
    BY <1>3, <1>5, <1>10
  <2>2. IsInjective(rest \o SetToSeq(ready))
    BY <1>3, <1>4, <1>5, <1>6, <2>1, JoinedOnce
  <2>3. Range(rest \o SetToSeq(ready)) = Range(rest) \cup Range(SetToSeq(ready))
    BY <1>3, <1>6, RangeJoined
  <2> QED
    BY <1>1, <1>5, <2>2, <2>3
<1>14. Range(t.queue) \subseteq W2 \ K
  <2>1. Range(rest) \subseteq W2 \ K
    BY <1>3, <1>4 DEF Underway
  <2>2. ready \subseteq W2 \ K
    BY <1>3, <1>6, <1>7, <1>10, <1>12
  <2> QED
    BY <1>13, <2>1, <2>2
<1>15. \A c \in Range(t.queue) \cup (cs \ W2) : t.degree[c] = 0
  <2> TAKE c \in Range(t.queue) \cup (cs \ W2)
  <2>1. c \in ready \/ c \in Range(v.queue) \cup (cs \ W)
    BY <1>3, <1>13
  <2> QED
    BY <1>7, <1>11, <2>1
<1>16. Degrees(t, W2, cs, R)
  BY <1>9 DEF Degrees
<1> HIDE DEF W2
<1>17. Underway(t, W2, K, cs, R)
  BY <1>8, <1>13, <1>14, <1>15, <1>16 DEF Underway
<1> QED
  BY <1>8, <1>17 DEF W2, t, h

(* Not all concepts of a cyclic graph are visited: if they are, every set of *)
(* concepts has one that requires none of the set.                          *)
LEMMA VisitedIsAcyclic ==
  ASSUME NEW cs, IsFiniteSet(cs), NEW R, Visited(cs, R) = Cardinality(cs),
         NEW K \in SUBSET cs, K # {}
  PROVE  \E c \in K : \A p \in K : <<c, p>> \notin R
<1> SUFFICES ASSUME \A c \in K : \E p \in K : <<c, p>> \in R PROVE FALSE
  OBVIOUS
<1> DEFINE degree == [c \in cs |-> Cardinality({p \in cs : <<c, p>> \in R})]
           first == {c \in cs : degree[c] = 0}
           begin == Begin(cs, R)
<1>1. PICK visits :
        /\ \A v \in Visiting(cs) : visits[v] = IF v.queue = <<>> THEN 0
                                               ELSE 1 + visits[Visit(v, cs, R)]
        /\ Visited(cs, R) = visits[begin]
  BY VisitsExist
<1>9. begin = [queue |-> SetToSeq(first), degree |-> degree]
  BY Zenon DEF Begin
<1> HIDE DEF begin
<1>2. \A c \in cs : degree[c] \in Nat
  <2> TAKE c \in cs
  <2>1. {p \in cs : <<c, p>> \in R} \in SUBSET cs
    OBVIOUS
  <2> QED
    BY <2>1, FS_Subset, FS_CardinalityType
<1>3. \A c \in K : degree[c] # 0
  <2> TAKE c \in K
  <2> DEFINE A == {p \in cs : <<c, p>> \in R}
  <2>1. A \in SUBSET cs /\ A # {} /\ degree[c] = Cardinality(A)
    OBVIOUS
  <2> HIDE DEF A
  <2>2. IsFiniteSet(A) /\ Cardinality(A) # 0
    BY <2>1, FS_Subset, FS_EmptySet
  <2> QED
    BY <2>1, <2>2
<1>4. begin \in Visiting(cs) /\ Underway(begin, cs, K, cs, R)
  <2>1. first \in SUBSET cs /\ first \cap K = {}
    BY <1>3
  <2>2. degree \in [cs -> Int] /\ \A c \in first : degree[c] = 0
    BY <1>2
  <2>3. Degrees(begin, cs, cs, R)
    BY <1>9 DEF Degrees
  <2>4. IsFiniteSet(first)
    BY <2>1, FS_Subset
  <2> HIDE DEF first
  <2>5. /\ SetToSeq(first) \in Seq(first) /\ Range(SetToSeq(first)) = first
        /\ IsInjective(SetToSeq(first))
    BY <2>4, SetToSeqOf
  <2>6. SetToSeq(first) \in Seq(cs)
    BY <2>1, <2>5
  <2> HIDE DEF degree
  <2>7. begin \in Visiting(cs)
    BY <1>9, <2>2, <2>6 DEF Visiting
  <2> QED
    BY <1>9, <2>1, <2>2, <2>3, <2>5, <2>7 DEF Underway
<1> DEFINE Few(v) == \A W : Underway(v, W, K, cs, R)
                              => visits[v] \in Nat /\ visits[v] <= Cardinality(W \ K)
           T == {n \in Nat : \A v \in Visiting(cs) : Pending(v, cs) < n => Few(v)}
<1>5. Nat \subseteq T
  <2>1. 0 \in T
    BY PendingType
  <2>2. \A n \in Nat : n \in T => n + 1 \in T
    <3> HIDE DEF Few
    <3> SUFFICES ASSUME NEW n \in Nat, n \in T, NEW v \in Visiting(cs), Pending(v, cs) < n + 1
                 PROVE  Few(v)
      OBVIOUS
    <3> SUFFICES ASSUME NEW W, Underway(v, W, K, cs, R)
                 PROVE  visits[v] \in Nat /\ visits[v] <= Cardinality(W \ K)
      BY DEF Few
    <3>1. W \ K \in SUBSET cs
      BY DEF Underway
    <3>2. IsFiniteSet(W \ K) /\ Cardinality(W \ K) \in Nat
      BY <3>1, FS_Subset, FS_CardinalityType
    <3>3. CASE v.queue = <<>>
      BY <1>1, <3>2, <3>3
    <3>4. CASE v.queue # <<>>
      <4> DEFINE t == Visit(v, cs, R)
                 h == Head(v.queue)
      <4>1. h \in W \ K /\ Underway(t, W \ {h}, K, cs, R)
        BY <3>4, UnderwayKept
      <4>2. t \in Visiting(cs) /\ Pending(t, cs) < Pending(v, cs)
        BY <3>4, VisitStep
      <4>3. Pending(t, cs) \in Nat /\ Pending(v, cs) \in Nat
        BY <4>2, PendingType
      <4> HIDE DEF t, h
      <4>4. Pending(t, cs) < n
        BY <4>2, <4>3
      <4>5. visits[t] \in Nat /\ visits[t] <= Cardinality((W \ {h}) \ K)
        BY <4>1, <4>2, <4>4 DEF Few
      <4>6. (W \ {h}) \ K = (W \ K) \ {h}
        OBVIOUS
      <4>7. Cardinality((W \ K) \ {h}) = Cardinality(W \ K) - 1
        <5> DEFINE B == W \ K
        <5>1. IsFiniteSet(B) /\ h \in B
          BY <3>2, <4>1
        <5> HIDE DEF B
        <5>2. Cardinality(B \ {h}) = Cardinality(B) - 1
          BY <5>1, FS_RemoveElement
        <5> QED
          BY <5>2 DEF B
      <4>8. visits[v] = 1 + visits[t]
        BY <1>1, <3>4 DEF t
      <4>9. Cardinality((W \ {h}) \ K) = Cardinality(W \ K) - 1
        BY <4>6, <4>7, Zenon
      <4> QED
        BY <3>2, <4>5, <4>8, <4>9
    <3> QED
      BY <3>3, <3>4
  <2> HIDE DEF T
  <2> QED
    BY <2>1, <2>2, NaturalsByOne
<1>6. visits[begin] \in Nat /\ visits[begin] <= Cardinality(cs \ K)
  <2>1. Pending(begin, cs) \in Nat
    BY <1>4, PendingType
  <2>2. Pending(begin, cs) + 1 \in T /\ Pending(begin, cs) < Pending(begin, cs) + 1
    BY <1>5, <2>1
  <2> QED
    BY <1>4, <2>2
<1>7. Cardinality(cs \ K) < Cardinality(cs)
  <2>1. cs \ K \in SUBSET cs /\ cs \ K # cs
    OBVIOUS
  <2> DEFINE A == cs \ K
  <2> HIDE DEF A
  <2>2. Cardinality(A) <= Cardinality(cs) /\ Cardinality(A) # Cardinality(cs) /\ IsFiniteSet(A)
    BY <2>1, FS_Subset DEF A
  <2>3. Cardinality(A) \in Nat /\ Cardinality(cs) \in Nat
    BY <2>2, FS_CardinalityType
  <2> QED
    BY <2>2, <2>3 DEF A
<1>8. Cardinality(cs \ K) \in Nat /\ Cardinality(cs) \in Nat
  BY FS_Subset, FS_CardinalityType
<1> QED
  BY <1>1, <1>6, <1>7, <1>8

-----------------------------------------------------------------------------
(* The stored graphs                                                       *)

(* In a graph all of whose sets have a member that requires none of the set  *)
(* no concept is reached from itself.                                      *)
LEMMA NoCycle ==
  ASSUME IsFiniteSet(Concepts), NEW cs \in SUBSET Concepts, NEW G \in SUBSET (cs \X cs),
         \A K \in SUBSET cs : K # {} => \E c \in K : \A p \in K : <<c, p>> \notin G,
         NEW a, NEW b, <<a, b>> \in G
  PROVE  a \notin Reachable(b, G) \cup {b}
<1> SUFFICES ASSUME a \in Reachable(b, G) \cup {b} PROVE FALSE
  OBVIOUS
<1> DEFINE K == {d \in cs : a \in Reachable(d, G)}
<1>1. a \in cs /\ b \in cs
  OBVIOUS
<1>2. \A c : /\ \A d \in Reachable(c, G) \cup {c} : Required(d, G) \subseteq Reachable(c, G)
             /\ \A S : (\A d \in S \cup {c} : Required(d, G) \subseteq S) => Reachable(c, G) \subseteq S
  BY ReachableIsLeast
<1>3. a \in K
  <2>1. b \in Required(a, G)
    BY <1>1 DEF Required
  <2>2. b \in Reachable(a, G)
    BY <1>2, <2>1
  <2>3. Reachable(b, G) \subseteq Reachable(a, G)
    BY <1>2, <2>2
  <2> QED
    BY <1>1, <2>2, <2>3
<1>4. ASSUME NEW d \in K PROVE \E p \in K : <<d, p>> \in G
  <2> DEFINE S == UNION {{p} \cup Reachable(p, G) : p \in Required(d, G)}
  <2>1. \A e \in S \cup {d} : Required(e, G) \subseteq S
    <3> TAKE e \in S \cup {d}
    <3>1. CASE e = d
      BY <3>1
    <3>2. CASE e \in S
      <4>1. PICK p \in Required(d, G) : e \in Reachable(p, G) \cup {p}
        BY <3>2
      <4>2. Required(e, G) \subseteq Reachable(p, G)
        BY <1>2, <4>1
      <4> QED
        BY <4>1, <4>2
    <3> QED
      BY <3>1, <3>2
  <2>2. Reachable(d, G) \subseteq S
    <3> HIDE DEF S
    <3> QED
      BY <1>2, <2>1
  <2>3. PICK p \in Required(d, G) : a \in Reachable(p, G) \cup {p}
    BY <2>2
  <2>4. <<d, p>> \in G /\ p \in cs
    BY <2>3 DEF Required
  <2>5. CASE a = p
    BY <1>3, <2>4, <2>5
  <2>6. CASE a # p
    BY <2>3, <2>4, <2>6
  <2> QED
    BY <2>5, <2>6
<1>5. K \in SUBSET cs /\ K # {}
  BY <1>3
<1> HIDE DEF K
<1> QED
  BY <1>4, <1>5

(* What a loadable package is good for.                                    *)
LEMMA LoadableIsAcyclic ==
  ASSUME NEW p \in Package, IsLoadable(p), NEW K \in SUBSET p.concepts, K # {}
  PROVE  \E c \in K : \A q \in K : <<c, q>> \notin p.requires
<1>1. p.concepts \in SUBSET Concepts /\ IsFiniteSet(Concepts)
  BY StoreAssumption
<1>2. IsFiniteSet(p.concepts)
  BY <1>1, FS_Subset
<1>3. Visited(p.concepts, p.requires) = Cardinality(p.concepts)
  BY DEF IsLoadable
<1> QED
  BY <1>2, <1>3, VisitedIsAcyclic

(* What the rows of a curriculum have to do with its package.              *)
GraphFits(k) ==
  /\ package[k] = {} => Graph(k) = {}
  /\ \A p \in package[k] :
       /\ IsLoadable(p)
       /\ Graph(k) \subseteq p.requires /\ Owned(k) \subseteq p.concepts
       /\ \A r \in p.requires \ Graph(k) : {owner[r[1]], owner[r[2]]} # {k}
GraphsFit == \A k \in Curriculum : GraphFits(k)

(* The rows of a stored graph.                                              *)
LEMMA GraphRows == \A k, r : r \in Graph(k) <=> \E e \in relation : e[1] = k /\ e[2] = r
  BY DEF Graph

(* A load keeps every stored graph fitting, that of its own curriculum and   *)
(* those it takes concepts from.                                           *)
LEMMA PersistFits ==
  ASSUME StoreTypeOK, GraphsFit, NEW p \in Package, Persist(p), NEW k \in Curriculum
  PROVE  GraphFits(k)'
<1> DEFINE m == p.curriculum
           dropped == {c \in Concepts : owner[c] = m} \ p.concepts
           others == {e \in relation : e[1] # m /\ e[2][1] \notin dropped /\ e[2][2] \notin dropped}
<1>1. /\ package' = [package EXCEPT ![m] = {p}] /\ IsLoadable(p)
      /\ owner' = [c \in Concepts |-> IF c \in p.concepts THEN m
                                      ELSE IF c \in dropped THEN NoCurriculum ELSE owner[c]]
      /\ relation' = others \cup {<<m, r>> : r \in p.requires}
  BY DEF Persist
<1>2. /\ m \in Curriculum /\ NoCurriculum \notin Curriculum
      /\ p.concepts \subseteq Concepts /\ p.requires \subseteq Requirement
  BY StoreAssumption DEF Curriculum
<1>3. /\ package \in [Curriculum -> SUBSET Package] /\ owner \in [Concepts -> Curriculum \cup {NoCurriculum}]
      /\ relation \subseteq Curriculum \X Requirement
  BY DEF StoreTypeOK
<1>4. \A r : r \in Graph(k)' <=> \E e \in relation' : e[1] = k /\ e[2] = r
  BY DEF Graph
<1>5. \A c : c \in Owned(k)' <=> c \in Concepts /\ owner'[c] = k
  BY DEF Owned
<1> HIDE DEF dropped, m
<1>6. CASE k = m
  <2>1. package'[k] = {p}
    BY <1>1, <1>2, <1>3, <1>6
  <2>2. Graph(k)' = p.requires
    <3>1. \A e \in others : e[1] # k
      BY <1>6
    <3>2. \A r \in p.requires : <<m, r>>[1] = k /\ <<m, r>>[2] = r /\ <<m, r>> \in relation'
      BY <1>1, <1>6
    <3>3. \A r \in p.requires : r \in Graph(k)'
      BY <1>4, <3>2
    <3>4. ASSUME NEW r \in Graph(k)' PROVE r \in p.requires
      <4>1. PICK e \in relation' : e[1] = k /\ e[2] = r
        BY <1>4
      <4>2. PICK q \in p.requires : e = <<m, q>>
        BY <1>1, <3>1, <4>1
      <4> QED
        BY <4>1, <4>2
    <3> QED
      BY <3>3, <3>4
  <2>3. Owned(k)' \subseteq p.concepts
    BY <1>1, <1>2, <1>5, <1>6 DEF dropped, m
  <2> QED
    BY <1>1, <2>1, <2>2, <2>3 DEF GraphFits
<1>7. CASE k # m
  <2>1. package'[k] = package[k]
    BY <1>1, <1>3, <1>7
  <2>2. \A r : r \in Graph(k)' <=> r \in Graph(k) /\ r[1] \notin dropped /\ r[2] \notin dropped
    BY <1>1, <1>4, <1>7, GraphRows
  <2>3. \A c \in Concepts : owner'[c] = k => owner[c] = k /\ c \notin dropped
    BY <1>1, <1>2, <1>7
  <2>4. Owned(k)' \subseteq Owned(k)
    BY <1>5, <2>3 DEF Owned
  <2>5. ASSUME NEW q \in package[k], NEW r \in q.requires \ Graph(k)',
               {owner'[r[1]], owner'[r[2]]} = {k}
        PROVE  FALSE
    <3>1. owner'[r[1]] = k /\ owner'[r[2]] = k
      BY <2>5
    <3>2. r[1] \in Concepts /\ r[2] \in Concepts
      <4>1. q \in Package
        BY <1>3
      <4> QED
        BY <4>1, StoreAssumption DEF Requirement
    <3>3. owner[r[1]] = k /\ owner[r[2]] = k /\ r[1] \notin dropped /\ r[2] \notin dropped
      BY <2>3, <3>1, <3>2
    <3>4. r \notin Graph(k)
      BY <2>2, <2>5, <3>3
    <3> QED
      BY <2>5, <3>3, <3>4 DEF GraphsFit, GraphFits
  <2>6. GraphFits(k)
    BY DEF GraphsFit
  <2>7. package'[k] = {} => Graph(k)' = {}
    BY <2>1, <2>2, <2>6 DEF GraphFits
  <2> QED
    BY <2>1, <2>2, <2>4, <2>5, <2>6, <2>7 DEF GraphFits
<1> QED
  BY <1>6, <1>7

(* The graphs fit from the first state on.                                 *)
LEMMA GraphsFitInit == StoreInit => GraphsFit
  BY DEF StoreInit, GraphsFit, GraphFits, Graph

(* Only a load changes them.                                               *)
LEMMA GraphsFitStep == StoreTypeOK /\ GraphsFit /\ [StoreNext]_storeVars => GraphsFit'
<1> SUFFICES ASSUME StoreTypeOK, GraphsFit, [StoreNext]_storeVars PROVE GraphsFit'
  OBVIOUS
<1>1. ASSUME NEW p \in Package, Persist(p) PROVE GraphsFit'
  BY <1>1, PersistFits DEF GraphsFit, Curriculum
<1>2. CASE UNCHANGED <<package, owner, relation>>
  BY <1>2 DEF GraphsFit, GraphFits, Graph, Owned
<1>3. ASSUME NEW k \in Curriculum, NEW q \in Request, SetGoal(k, q) PROVE GraphsFit'
  BY <1>2, <1>3 DEF SetGoal
<1>4. ASSUME NEW c \in Concepts, CreateAssignment(c) \/ Evaluate(c) PROVE GraphsFit'
  BY <1>2, <1>4 DEF CreateAssignment, Evaluate
<1>5. CASE UNCHANGED storeVars
  BY <1>2, <1>5 DEF storeVars
<1> QED
  BY <1>1, <1>3, <1>4, <1>5 DEF StoreNext

(* Graphs that fit their packages have the property.                       *)
LEMMA FittingGraphsAreAcyclic == StoreTypeOK /\ GraphsFit => StoredGraphIsAcyclic
<1> SUFFICES ASSUME StoreTypeOK, GraphsFit, NEW k \in Curriculum
             PROVE  /\ \A r \in Graph(k) : r[1] \notin Reachable(r[2], Graph(k)) \cup {r[2]}
                    /\ \A p \in package[k] :
                         /\ Graph(k) \subseteq p.requires /\ Owned(k) \subseteq p.concepts
                         /\ \A r \in p.requires \ Graph(k) : {owner[r[1]], owner[r[2]]} # {k}
  BY Zenon DEF StoredGraphIsAcyclic
<1>1. GraphFits(k)
  BY DEF GraphsFit
<1>2. ASSUME NEW r \in Graph(k) PROVE r[1] \notin Reachable(r[2], Graph(k)) \cup {r[2]}
  <2>1. PICK p \in package[k] : IsLoadable(p) /\ Graph(k) \subseteq p.requires
    BY <1>1, <1>2 DEF GraphFits
  <2>2. p \in Package /\ p.concepts \in SUBSET Concepts /\ IsFiniteSet(Concepts)
        /\ p.requires \subseteq Requirement
    BY StoreAssumption DEF StoreTypeOK
  <2>3. \A e \in p.requires : e = <<e[1], e[2]>> /\ e[1] \in p.concepts /\ e[2] \in p.concepts
    BY <2>1, <2>2 DEF IsLoadable, Requirement
  <2> DEFINE G == Graph(k)
  <2>4. G \in SUBSET (p.concepts \X p.concepts)
    BY <2>1, <2>3
  <2>5. <<r[1], r[2]>> \in G
    BY <1>2, <2>1, <2>3
  <2>6. \A K \in SUBSET p.concepts : K # {} => \E c \in K : \A q \in K : <<c, q>> \notin p.requires
    BY <2>1, <2>2, LoadableIsAcyclic
  <2>7. \A K \in SUBSET p.concepts : K # {} => \E c \in K : \A q \in K : <<c, q>> \notin G
    BY <2>1, <2>6
  <2> HIDE DEF G
  <2>8. r[1] \notin Reachable(r[2], G) \cup {r[2]}
    BY <2>2, <2>4, <2>5, <2>7, NoCycle
  <2> QED
    BY <2>8 DEF G
<1> QED
  BY <1>1, <1>2 DEF GraphFits

(* For any packages, loads and curricula that take concepts over, no stored *)
(* graph has a cycle, and each is that of its package but for the concepts  *)
(* taken over: Kahn's traversal in _assert_acyclic refuses every cycle.     *)
THEOREM StoredGraphsAreAcyclic == StoreSpec => []StoredGraphIsAcyclic
<1>1. StoreSpec => []GraphsFit
  BY StoreTypeCorrect, GraphsFitInit, GraphsFitStep, PTL DEF StoreSpec
<1> QED
  BY <1>1, StoreTypeCorrect, FittingGraphsAreAcyclic, PTL

(* For any graph and focus, the prerequisites the scheduler favours are those *)
(* that some path leads to: _transitive_prerequisites is exact.             *)
THEOREM GoalsReachTheirSupport == StoreSpec => []GoalSupportIsReachable
<1>1. StoreTypeOK => GoalSupportIsReachable
  <2> SUFFICES ASSUME StoreTypeOK, NEW g \in goals
               PROVE  TransitivePrerequisites(g.content.focus, Graph(g.curriculum))
                        = (UNION {Reachable(c, Graph(g.curriculum)) : c \in g.content.focus})
                          \ g.content.focus
    BY Zenon DEF GoalSupportIsReachable
  <2>1. g.content.focus \in SUBSET Concepts
    BY DEF StoreTypeOK, GoalRow, Content
  <2>2. IsFiniteSet(Concepts)
    BY StoreAssumption
  <2> QED
    BY <2>1, <2>2, ClosureIsReachable
<1> QED
  BY <1>1, StoreTypeCorrect, PTL
=============================================================================
