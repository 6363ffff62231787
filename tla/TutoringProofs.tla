---------------------------- MODULE TutoringProofs ----------------------------
(***************************************************************************)
(* TLAPS proofs about what the tutor concludes and sets: LearnerModel, for *)
(* any formats, contexts, assignments, evaluations and findings, and       *)
(* TutorPlan, for any curriculum, study sessions and number of assignments;*)
(* and about MCTutor, which lets one of seven parts move at a time.        *)
(***************************************************************************)
EXTENDS MCTutor, LearnerCommandsProofs, CurriculumStoreProofs, EvaluationProofs,
        FiniteSetTheorems, SequenceTheorems, WellFoundedInduction, TLAPS

-----------------------------------------------------------------------------
(* Induction and folds *)

(* The greatest of the first naturals is there.                            *)
LEMMA MaxOfSome ==
  \A n \in Nat : \A s \in SUBSET (1..n) : s # {} => Max(s) \in s /\ \A y \in s : y <= Max(s)
<1> DEFINE P(n) == \A s \in SUBSET (1..n) : s # {} => \E x \in s : \A y \in s : x >= y
           T == {n \in Nat : P(n)}
<1>1. P(0)
  <2>1. 1..0 = {}
    OBVIOUS
  <2> QED
    BY <2>1
<1>2. ASSUME NEW n \in Nat, P(n) PROVE P(n + 1)
  <2> SUFFICES ASSUME NEW s \in SUBSET (1..(n + 1)), s # {}
               PROVE  \E x \in s : \A y \in s : x >= y
    OBVIOUS
  <2>1. CASE n + 1 \in s
    BY <2>1
  <2>2. CASE n + 1 \notin s
    <3>1. s \in SUBSET (1..n)
      BY <2>2
    <3> QED
      BY <1>2, <3>1
  <2> QED
    BY <2>1, <2>2
<1> HIDE DEF P
<1>3. Nat \subseteq T
  <2>1. 0 \in T
    BY <1>1, Zenon
  <2>2. \A k \in Nat : k \in T => k + 1 \in T
    <3> SUFFICES ASSUME NEW k \in Nat, k \in T PROVE k + 1 \in T
      OBVIOUS
    <3>1. k + 1 \in Nat
      OBVIOUS
    <3>2. P(k + 1)
      BY <1>2, Zenon
    <3> QED
      BY <3>1, <3>2, Zenon
  <2> HIDE DEF T
  <2> QED
    BY <2>1, <2>2, NaturalsByOne
<1> SUFFICES ASSUME NEW n \in Nat, NEW s \in SUBSET (1..n), s # {}
             PROVE  Max(s) \in s /\ \A y \in s : y <= Max(s)
  OBVIOUS
<1>4. \E x \in s : \A y \in s : x >= y
  BY <1>3 DEF P
<1>5. Max(s) \in s /\ \A y \in s : Max(s) >= y
  BY <1>4, Zenon DEF Max
<1> QED
  BY <1>5

(* The function by which a fold over a list is defined exists, and stays in a *)
(* set that the operation, given as a function, does not leave.               *)
FoldsTo(h, base, F, list) ==
  \A s \in DOMAIN h : h[s] = IF s = {} THEN base ELSE F[<<h[s \ {Max(s)}], list[Max(s)]>>]

LEMMA FoldExists ==
  ASSUME NEW G, NEW A, NEW F \in [G \X A -> G], NEW n \in Nat, NEW list \in [1..n -> A],
         NEW base \in G
  PROVE  \E h \in [SUBSET (1..n) -> G] : FoldsTo(h, base, F, list)
<1> DEFINE P(k) == k <= n => \E h \in [SUBSET (1..k) -> G] : FoldsTo(h, base, F, list)
           T == {k \in Nat : P(k)}
<1>1. P(0)
  <2> DEFINE h == [s \in SUBSET (1..0) |-> base]
  <2>1. h \in [SUBSET (1..0) -> G] /\ \A s \in SUBSET (1..0) : s = {}
    OBVIOUS
  <2>2. FoldsTo(h, base, F, list)
    BY <2>1 DEF FoldsTo
  <2> QED
    BY <2>1, <2>2
<1>2. ASSUME NEW k \in Nat, P(k) PROVE P(k + 1)
  <2> SUFFICES ASSUME k + 1 <= n
               PROVE  \E h \in [SUBSET (1..(k + 1)) -> G] : FoldsTo(h, base, F, list)
    OBVIOUS
  <2>9. k <= n
    OBVIOUS
  <2>1. PICK g \in [SUBSET (1..k) -> G] : FoldsTo(g, base, F, list)
    BY <1>2, <2>9
  <2>7. k + 1 \in Nat
    OBVIOUS
  <2>8. /\ \A s \in SUBSET (1..(k + 1)) : s # {} => Max(s) \in s /\ \A y \in s : y <= Max(s)
        /\ \A s \in SUBSET (1..k) : s # {} => Max(s) \in s /\ \A y \in s : y <= Max(s)
    BY <2>7, MaxOfSome, Zenon
  <2> DEFINE top(s) == F[<<g[s \ {k + 1}], list[k + 1]>>]
             h == [s \in SUBSET (1..(k + 1)) |-> IF k + 1 \in s THEN top(s) ELSE g[s]]
  <2>2. /\ k + 1 \in 1..n /\ list[k + 1] \in A /\ k + 1 \in Nat
        /\ \A s \in SUBSET (1..(k + 1)) :
             /\ s \ {k + 1} \in SUBSET (1..k)
             /\ k + 1 \notin s => s \in SUBSET (1..k)
        /\ \A s \in SUBSET (1..k) : s \in SUBSET (1..(k + 1)) /\ k + 1 \notin s
        /\ k <= n
    OBVIOUS
  <2>3. ASSUME NEW s \in SUBSET (1..(k + 1)), k + 1 \in s
        PROVE  Max(s) = k + 1 /\ top(s) \in G
    <3> HIDE DEF h
    <3>1. Max(s) \in s /\ k + 1 <= Max(s)
      BY <2>3, <2>8
    <3>2. Max(s) \in 1..(k + 1)
      BY <3>1
    <3>3. g[s \ {k + 1}] \in G
      BY <2>2
    <3> QED
      BY <2>2, <3>1, <3>2, <3>3
  <2>4. \A s \in SUBSET (1..(k + 1)) : h[s] = IF k + 1 \in s THEN top(s) ELSE g[s]
    OBVIOUS
  <2>5. h \in [SUBSET (1..(k + 1)) -> G]
    BY <2>2, <2>3
  <2> HIDE DEF h
  <2>6. ASSUME NEW s \in SUBSET (1..(k + 1))
        PROVE  h[s] = IF s = {} THEN base ELSE F[<<h[s \ {Max(s)}], list[Max(s)]>>]
    <3>1. CASE k + 1 \in s
      <4>1. h[s \ {k + 1}] = g[s \ {k + 1}]
        BY <2>2, <2>4
      <4> QED
        BY <2>3, <2>4, <3>1, <4>1
    <3>2. CASE k + 1 \notin s /\ s # {}
      <4>1. s \in SUBSET (1..k) /\ Max(s) \in s
        BY <2>2, <2>8, <3>2
      <4>2. s \ {Max(s)} \in SUBSET (1..k)
        BY <4>1
      <4>3. h[s] = g[s] /\ h[s \ {Max(s)}] = g[s \ {Max(s)}]
        BY <2>2, <2>4, <4>1, <4>2
      <4>4. g[s] = F[<<g[s \ {Max(s)}], list[Max(s)]>>]
        BY <2>1, <3>2, <4>1 DEF FoldsTo
      <4> QED
        BY <3>2, <4>3, <4>4
    <3>3. CASE s = {}
      <4>1. s \in SUBSET (1..k)
        BY <3>3
      <4>2. g[s] = base
        BY <2>1, <3>3, <4>1 DEF FoldsTo
      <4> QED
        BY <2>2, <2>4, <3>3, <4>1, <4>2
    <3> QED
      BY <3>1, <3>2, <3>3
  <2>10. FoldsTo(h, base, F, list)
    BY <2>5, <2>6 DEF FoldsTo
  <2> QED
    BY <2>5, <2>10
<1> HIDE DEF P
<1>3. Nat \subseteq T
  <2>1. 0 \in T
    BY <1>1, Zenon
  <2>2. \A k \in Nat : k \in T => k + 1 \in T
    <3> SUFFICES ASSUME NEW k \in Nat, k \in T PROVE k + 1 \in T
      OBVIOUS
    <3>1. k + 1 \in Nat
      OBVIOUS
    <3>2. P(k + 1)
      BY <1>2, Zenon
    <3> QED
      BY <3>1, <3>2, Zenon
  <2> HIDE DEF T
  <2> QED
    BY <2>1, <2>2, NaturalsByOne
<1>4. P(n)
  BY <1>3
<1>5. n <= n
  OBVIOUS
<1> QED
  BY <1>4, <1>5, Zenon DEF P

-----------------------------------------------------------------------------
(* One misconception *)

MisconceptionRow == [status : MisconceptionStatus, frequency : Nat,
                     evidence : SUBSET EvidenceRow, resolvedBy : 0..Evaluations]

(* The evaluation that resolved it came after a challenge, and all before   *)
(* were of other assignments, in other formats and contexts.                *)
Proves(proof, m) ==
  /\ proof.evaluation = m.resolvedBy /\ proof.context # NoContext
  /\ \E shown \in m.evidence : shown.challenge /\ shown.evaluation < proof.evaluation
  /\ \A shown \in m.evidence :
       shown.evaluation < proof.evaluation => /\ shown.assignment # proof.assignment
                                              /\ shown.format # proof.format
                                              /\ shown.context # proof.context

(* A row that tells no more than the first k evaluations can have shown: one *)
(* that is suspected was sighted once, and one that is resolved has its proof. *)
Sound(k) ==
  {m \in MisconceptionRow :
     /\ m.status = "absent" => m.frequency = 0
     /\ m.status = "suspected" => m.frequency = 1
     /\ \A shown \in m.evidence : shown.evaluation <= k
     /\ m.resolvedBy <= k
     /\ m.status = "resolved" => \E proof \in m.evidence : Proves(proof, m)}

(* The row while the evaluation that says o is applied: what it has added so *)
(* far is of its assignment.                                                *)
SoundWithin(o) ==
  {m \in Sound(o.evaluation) :
     \A shown \in m.evidence : shown.evaluation = o.evaluation => shown.assignment = o.assignment}

LEMMA FindingKeepsSound ==
  ASSUME NEW o \in Observation, NEW m \in SoundWithin(o), NEW action \in Action
  PROVE  ApplyMisconception(m, action, o) \in SoundWithin(o)
<1> DEFINE frequency == m.frequency + IF action \in Sighting \/ m.status = "absent" THEN 1 ELSE 0
           status == IF m.status = "absent"
                     THEN IF action = "confirm" THEN "active" ELSE "suspected"
                     ELSE IF IsPromoted(m, frequency) THEN "active"
                     ELSE NextMisconceptionStatus(m, action, o)
           seen == [evaluation |-> o.evaluation, assignment |-> o.assignment, format |-> o.format,
                    context |-> o.context, challenge |-> action = "challenge"]
           gathered == m.evidence \cup {seen}
           resolvedBy == IF status = "resolved" /\ m.status # "resolved"
                         THEN o.evaluation ELSE m.resolvedBy
           out == [status |-> status, frequency |-> frequency, evidence |-> gathered,
                   resolvedBy |-> resolvedBy]
<1>1. /\ o.evaluation \in 1..Evaluations /\ o.assignment \in 1..Assignments /\ o.format \in Formats
      /\ o.context \in Contexts \cup {NoContext}
  BY DEF Observation
<1>2. /\ m.status \in MisconceptionStatus /\ m.frequency \in Nat
      /\ m.evidence \subseteq EvidenceRow /\ m.resolvedBy \in 0..Evaluations
      /\ m.status = "absent" => m.frequency = 0
      /\ m.status = "suspected" => m.frequency = 1
      /\ \A shown \in m.evidence : /\ shown.evaluation <= o.evaluation
                                   /\ shown.evaluation = o.evaluation => shown.assignment = o.assignment
      /\ m.resolvedBy <= o.evaluation
      /\ m.status = "resolved" => \E proof \in m.evidence : Proves(proof, m)
  BY DEF SoundWithin, Sound, MisconceptionRow
<1>3. NextMisconceptionStatus(m, action, o) =
        IF action = "recur" \/ (m.status = "resolved" /\ action \in {"suspect", "confirm"})
        THEN "recurred"
        ELSE IF action = "confirm" THEN "active"
        ELSE IF action = "challenge" THEN "challenged"
        ELSE IF action = "resolve" /\ m.status = "challenged" /\ ShowsTransfer(m.evidence, o)
        THEN "resolved" ELSE m.status
  BY DEF NextMisconceptionStatus
<1>4. /\ status \in MisconceptionStatus /\ frequency \in Nat /\ status # "absent"
      /\ status = "suspected" => frequency = 1
      /\ status = "resolved" => \/ m.status = "resolved"
                               \/ (ShowsTransfer(m.evidence, o) /\ action = "resolve")
  BY <1>2, <1>3 DEF MisconceptionStatus, IsPromoted, Sighting, Action
<1> HIDE DEF status, frequency
<1>5. /\ seen \in EvidenceRow /\ seen.evaluation = o.evaluation
      /\ seen.assignment = o.assignment /\ seen.format = o.format /\ seen.context = o.context
  BY <1>1 DEF EvidenceRow
<1> HIDE DEF seen
<1>6. /\ gathered \subseteq EvidenceRow /\ resolvedBy \in 0..Evaluations
      /\ \A shown \in gathered : shown.evaluation <= o.evaluation
      /\ \A shown \in gathered : shown.evaluation = o.evaluation => shown.assignment = o.assignment
      /\ resolvedBy <= o.evaluation
  BY <1>1, <1>2, <1>5
<1>7. out \in MisconceptionRow /\ out.status = status /\ out.frequency = frequency
      /\ out.evidence = gathered /\ out.resolvedBy = resolvedBy
  BY <1>4, <1>6 DEF MisconceptionRow
<1>8. ASSUME status = "resolved" PROVE \E proof \in gathered : Proves(proof, out)
  <2>1. CASE m.status = "resolved"
    <3>1. PICK proof \in m.evidence : Proves(proof, m)
      BY <1>2, <2>1
    <3>2. resolvedBy = m.resolvedBy
      BY <2>1
    <3>3. Proves(proof, out)
      BY <1>1, <1>2, <1>5, <1>7, <3>1, <3>2 DEF Proves
    <3> QED
      BY <3>1, <3>3
  <2>2. CASE m.status # "resolved"
    <3>1. resolvedBy = o.evaluation /\ ShowsTransfer(m.evidence, o)
      BY <1>4, <1>8, <2>2
    <3>2. PICK shown \in m.evidence : shown.challenge
      BY <3>1 DEF ShowsTransfer
    <3>3. shown.evaluation < o.evaluation
      <4>1. shown.evaluation \in Nat /\ shown.evaluation <= o.evaluation /\ o.evaluation \in Nat
        BY <1>1, <1>2 DEF EvidenceRow
      <4> QED
        BY <1>2, <3>1, <4>1 DEF ShowsTransfer
    <3>4. \A other \in gathered :
            other.evaluation < o.evaluation => /\ other.assignment # o.assignment
                                               /\ other.format # o.format
                                               /\ other.context # o.context
      BY <1>1, <1>5, <3>1 DEF ShowsTransfer
    <3>5. o.context # NoContext
      BY <3>1 DEF ShowsTransfer
    <3>6. Proves(seen, out)
      BY <1>5, <1>7, <3>1, <3>2, <3>3, <3>4, <3>5 DEF Proves
    <3> QED
      BY <3>6
  <2> QED
    BY <2>1, <2>2
<1>9. ApplyMisconception(m, action, o) = out
  BY DEF ApplyMisconception, status, frequency, seen
<1> HIDE DEF out, gathered, resolvedBy
<1>10. out \in Sound(o.evaluation)
  BY <1>4, <1>6, <1>7, <1>8 DEF Sound
<1> QED
  BY <1>6, <1>7, <1>9, <1>10 DEF SoundWithin

(* A review that lists any findings keeps the row sound.                   *)
LEMMA ReviewKeepsSound ==
  ASSUME NEW o \in Observation, NEW m \in SoundWithin(o), NEW findings \in FindingLists
  PROVE  FoldLeft(LAMBDA x, action : ApplyMisconception(x, action, o), m, findings)
           \in SoundWithin(o)
<1> DEFINE G == SoundWithin(o)
           Folded(h, s) == ApplyMisconception(h[s \ {Max(s)}], findings[Max(s)], o)
           D == DOMAIN findings
           Iterates(h) == h = [s \in SUBSET D |-> IF s = {} THEN m ELSE Folded(h, s)]
           iter == CHOOSE h : Iterates(h)
           F == [p \in G \X Action |-> ApplyMisconception(p[1], p[2], o)]
<1>1. PICK n \in Nat : findings \in [1..n -> Action]
  BY LearnerAssumption DEF FindingLists, BoundedSeq, SeqOf
<1>2. D = 1..n
  BY <1>1
<1>3. FoldLeft(LAMBDA x, action : ApplyMisconception(x, action, o), m, findings) = iter[D]
  BY Zenon DEF FoldLeft, MapThenFoldSet
<1>4. ASSUME NEW x \in G, NEW action \in Action
      PROVE  ApplyMisconception(x, action, o) \in G
  BY FindingKeepsSound
<1> HIDE DEF G
<1>5. F \in [G \X Action -> G]
  BY <1>4
<1>6. m \in G
  BY DEF G
<1>7. PICK h \in [SUBSET (1..n) -> G] : FoldsTo(h, m, F, findings)
  BY <1>1, <1>5, <1>6, FoldExists
<1>8. ASSUME NEW s \in SUBSET D, s # {}
      PROVE  Max(s) \in s /\ s \ {Max(s)} \in SUBSET D
  BY <1>2, <1>8, MaxOfSome
<1>9. ASSUME NEW s \in SUBSET D
      PROVE  h[s] = IF s = {} THEN m ELSE Folded(h, s)
  <2>1. h[s] = IF s = {} THEN m ELSE F[<<h[s \ {Max(s)}], findings[Max(s)]>>]
    BY <1>2, <1>7 DEF FoldsTo
  <2>2. ASSUME s # {} PROVE F[<<h[s \ {Max(s)}], findings[Max(s)]>>] = Folded(h, s)
    <3>1. Max(s) \in D /\ s \ {Max(s)} \in SUBSET D
      BY <1>8, <2>2
    <3>2. h[s \ {Max(s)}] \in G /\ findings[Max(s)] \in Action
      BY <1>1, <1>2, <1>7, <3>1
    <3> QED
      BY <3>2
  <2> QED
    BY <2>1, <2>2
<1> HIDE DEF F
<1>10. Iterates(h)
  BY <1>2, <1>7, <1>9
<1>11. Iterates(iter)
  BY <1>10, Zenon
<1> HIDE DEF iter
<1>12. \A s \in SUBSET D : iter[s] = IF s = {} THEN m ELSE Folded(iter, s)
  BY <1>11
<1> HIDE DEF Iterates
<1> DEFINE P(k) == k <= n => iter[1..k] \in G
           T == {k \in Nat : P(k)}
<1>13. P(0)
  <2>1. 1..0 = {} /\ {} \in SUBSET D
    OBVIOUS
  <2> QED
    BY <1>6, <1>12, <2>1
<1>14. ASSUME NEW k \in Nat, P(k) PROVE P(k + 1)
  <2> SUFFICES ASSUME k + 1 <= n PROVE iter[1..(k + 1)] \in G
    OBVIOUS
  <2>7. k <= n /\ k + 1 \in Nat /\ k + 1 \in 1..(k + 1) /\ k + 1 \in 1..n
    OBVIOUS
  <2>8. 1..(k + 1) \subseteq 1..n
    OBVIOUS
  <2>1. /\ k <= n /\ k + 1 \in Nat /\ 1..(k + 1) \in SUBSET D /\ 1..(k + 1) # {}
        /\ k + 1 \in 1..(k + 1) /\ k + 1 \in D
    BY <1>2, <2>7, <2>8
  <2>2. /\ Max(1..(k + 1)) \in 1..(k + 1)
        /\ \A y \in 1..(k + 1) : y <= Max(1..(k + 1))
    BY <2>1, MaxOfSome, Zenon
  <2>3. Max(1..(k + 1)) = k + 1
    BY <2>1, <2>2
  <2>4. (1..(k + 1)) \ {k + 1} = 1..k
    OBVIOUS
  <2>5. iter[1..(k + 1)] = ApplyMisconception(iter[1..k], findings[k + 1], o)
    BY <1>12, <2>1, <2>3, <2>4
  <2>6. iter[1..k] \in G /\ findings[k + 1] \in Action
    BY <1>1, <1>2, <1>14, <2>1
  <2> QED
    BY <1>4, <2>5, <2>6
<1> HIDE DEF P
<1>15. 0 \in T /\ \A k \in Nat : k \in T => k + 1 \in T
  <2>1. 0 \in T
    BY <1>13, Zenon
  <2> SUFFICES ASSUME NEW k \in Nat, k \in T PROVE k + 1 \in T
    BY <2>1
  <2>2. k + 1 \in Nat
    OBVIOUS
  <2>3. P(k + 1)
    BY <1>14, Zenon
  <2> QED
    BY <2>2, <2>3, Zenon
<1>16. P(n)
  <2> HIDE DEF T
  <2>1. Nat \subseteq T
    BY <1>15, NaturalsByOne
  <2> QED
    BY <2>1 DEF T
<1>17. n <= n
  OBVIOUS
<1> QED
  BY <1>2, <1>3, <1>16, <1>17 DEF P, G

-----------------------------------------------------------------------------
(* Every evaluation                                                        *)

LearnerInv == LearnerTypeOK /\ misconception \in Sound(applied)

LEMMA LearnerInvInit == LearnerInit => LearnerInv
<1> SUFFICES ASSUME LearnerInit PROVE LearnerInv
  OBVIOUS
<1>1. assigned \in BoundedSeq(Formats, Assignments) /\ Len(assigned) = 0
  <2>1. 0 \in 0..Assignments /\ 1..0 = {} /\ assigned = <<>>
    BY LearnerAssumption DEF LearnerInit
  <2>2. assigned \in [1..0 -> Formats]
    BY <2>1
  <2> QED
    BY <2>1, <2>2 DEF BoundedSeq, SeqOf
<1>2. misconception \in MisconceptionRow
  BY LearnerAssumption DEF LearnerInit, MisconceptionRow, MisconceptionStatus
<1>3. misconception \in Sound(applied)
  BY <1>1, <1>2 DEF LearnerInit, Sound
<1> QED
  BY <1>1, <1>2, <1>3, LearnerAssumption
     DEF LearnerInit, LearnerInv, LearnerTypeOK, MisconceptionRow

(* What was sound is still so when the next evaluation begins.              *)
LEMMA NextReview ==
  ASSUME NEW k \in Nat, NEW m \in Sound(k), NEW o \in Observation, o.evaluation = k + 1
  PROVE  m \in SoundWithin(o)
<1>1. m \in MisconceptionRow /\ m.resolvedBy \in Nat
      /\ \A shown \in m.evidence : shown.evaluation \in Nat
  BY DEF Sound, MisconceptionRow, EvidenceRow
<1> QED
  BY <1>1 DEF Sound, SoundWithin

LEMMA AssignedIsList ==
  \A list : list \in BoundedSeq(Formats, Assignments)
             <=> list \in Seq(Formats) /\ Len(list) \in 0..Assignments
<1> SUFFICES ASSUME NEW list
             PROVE  list \in BoundedSeq(Formats, Assignments)
                    <=> list \in Seq(Formats) /\ Len(list) \in 0..Assignments
  OBVIOUS
<1>1. ASSUME list \in BoundedSeq(Formats, Assignments)
      PROVE  list \in Seq(Formats) /\ Len(list) \in 0..Assignments
  <2>1. PICK n \in 0..Assignments : list \in [1..n -> Formats]
    BY <1>1 DEF BoundedSeq, SeqOf
  <2> QED
    BY <2>1, LearnerAssumption
<1>2. ASSUME list \in Seq(Formats), Len(list) \in 0..Assignments
      PROVE  list \in BoundedSeq(Formats, Assignments)
  <2>1. list \in [1..Len(list) -> Formats]
    BY <1>2
  <2> QED
    BY <1>2, <2>1 DEF BoundedSeq, SeqOf
<1> QED
  BY <1>1, <1>2

LEMMA LearnerInvStep == LearnerInv /\ [LearnerNext]_learnerVars => LearnerInv'
<1> SUFFICES ASSUME LearnerInv, [LearnerNext]_learnerVars PROVE LearnerInv'
  OBVIOUS
<1>1. /\ assigned \in Seq(Formats) /\ Len(assigned) \in 0..Assignments
      /\ misconception \in Sound(applied) /\ applied \in 0..Evaluations
  BY AssignedIsList DEF LearnerInv, LearnerTypeOK
<1>2. ASSUME assigned' \in Seq(Formats), Len(assigned') \in 0..Assignments,
             misconception' \in Sound(applied'), applied' \in 0..Evaluations
      PROVE  LearnerInv'
  <2>1. misconception' \in MisconceptionRow /\ assigned' \in BoundedSeq(Formats, Assignments)
    BY <1>2, AssignedIsList DEF Sound
  <2> QED
    BY <1>2, <2>1 DEF LearnerInv, LearnerTypeOK, MisconceptionRow
<1>3. CASE ApplyEvaluation
  <2>1. /\ applied' = applied + 1 /\ applied < Evaluations /\ UNCHANGED assigned
    BY <1>3 DEF ApplyEvaluation
  <2>2. PICK o \in Observation, findings \in FindingLists :
          /\ o.evaluation = applied + 1
          /\ misconception' = FoldLeft(LAMBDA m, action : ApplyMisconception(m, action, o),
                                       misconception, findings)
    BY <1>3, Zenon DEF ApplyEvaluation
  <2>3. o.evaluation = applied + 1
    BY <2>2, Zenon
  <2>4. misconception \in SoundWithin(o)
    <3>1. applied \in Nat
      BY <1>1, LearnerAssumption
    <3> QED
      BY <1>1, <2>3, <3>1, NextReview
  <2>5. misconception' \in SoundWithin(o)
    BY <2>2, <2>4, ReviewKeepsSound, Zenon
  <2>6. misconception' \in Sound(applied')
    BY <2>1, <2>3, <2>5 DEF SoundWithin
  <2>7. applied' \in 0..Evaluations
    BY <1>1, <2>1, LearnerAssumption
  <2> QED
    BY <1>1, <1>2, <2>1, <2>6, <2>7
<1>4. CASE NextAssignment
  <2>1. PICK f \in Formats : assigned' = Append(assigned, f)
    BY <1>4 DEF NextAssignment
  <2>2. Len(assigned) < Assignments /\ UNCHANGED <<misconception, applied>>
    BY <1>4 DEF NextAssignment
  <2>3. assigned' \in Seq(Formats) /\ Len(assigned') = Len(assigned) + 1
    BY <1>1, <2>1
  <2>4. Len(assigned') \in 0..Assignments
    BY <1>1, <2>2, <2>3, LearnerAssumption
  <2> QED
    BY <1>1, <1>2, <2>2, <2>3, <2>4
<1>5. CASE UNCHANGED learnerVars
  BY <1>1, <1>2, <1>5 DEF learnerVars
<1> QED
  BY <1>3, <1>4, <1>5 DEF LearnerNext

LEMMA LearnerInvHolds == LearnerSpec => []LearnerInv
BY LearnerInvInit, LearnerInvStep, PTL DEF LearnerSpec

(* The misconception, its evidence and the list of assignments stay well     *)
(* typed over any evaluations with any findings.                            *)
THEOREM LearnerTypeCorrect == LearnerSpec => []LearnerTypeOK
<1>1. LearnerInv => LearnerTypeOK
  BY DEF LearnerInv
<1> QED
  BY <1>1, LearnerInvHolds, PTL

(* After any evaluations, with any number of findings each, a misconception  *)
(* that is still suspected has been sighted once.                           *)
THEOREM SuspectedOnce == LearnerSpec => []SuspicionIsFirstSighting
<1>1. LearnerInv => SuspicionIsFirstSighting
  BY DEF LearnerInv, Sound, SuspicionIsFirstSighting
<1> QED
  BY <1>1, LearnerInvHolds, PTL

(* After any evaluations, with any number of findings each, a misconception  *)
(* that is resolved was challenged before the evaluation that resolved it, and *)
(* no evaluation before that one was of its assignment, in its format or in   *)
(* its context, in whatever order the results of the assignments arrived.    *)
THEOREM ResolvedByTransfer == LearnerSpec => []ResolutionIsTransfer
<1>1. LearnerInv => ResolutionIsTransfer
  BY DEF LearnerInv, Sound, Proves, ResolutionIsTransfer
<1> QED
  BY <1>1, LearnerInvHolds, PTL

-----------------------------------------------------------------------------
(* Least elements and bounds                                               *)

(* A set of naturals has a least one.                                       *)
LEMMA LeastNatural ==
  ASSUME NEW S, S \subseteq Nat, S # {}
  PROVE  \E m \in S : \A k \in S : m <= k
<1> DEFINE R == OpToRel(<, Nat)
<1>1. IsWellFoundedOn(R, Nat)
  BY NatLessThanWellFounded, Zenon
<1>2. \A m, n \in Nat : m < n => <<m, n>> \in R
  BY Zenon DEF OpToRel
<1> HIDE DEF R
<1>3. PICK m \in S : \A k \in S : <<k, m>> \notin R
  BY <1>1, WFMin
<1>4. ASSUME NEW k \in S PROVE m <= k
  <2>1. k \in Nat /\ m \in Nat /\ ~(k < m)
    BY <1>2, <1>3
  <2> QED
    BY <2>1
<1> QED
  BY <1>4

(* Among things with different keys of n naturals one has the least key.    *)
LEMMA LeastKey ==
  ASSUME NEW n \in Nat, NEW S, S # {}, NEW K \in [S -> [1..n -> Nat]],
         \A x, y \in S : K[x] = K[y] => x = y
  PROVE  \E x \in S : \A y \in S \ {x} : Lexicographic(K[x], K[y])
<1> DEFINE R == OpToRel(<, Nat)
           L == LexProductOrdering(R, Nat, n)
           T == {K[x] : x \in S}
<1>1. IsWellFoundedOn(R, Nat)
  BY NatLessThanWellFounded, Zenon
<1>2. \A a, b \in Nat : a < b => <<a, b>> \in R
  BY Zenon DEF OpToRel
<1> HIDE DEF R
<1>3. IsWellFoundedOn(L, [1..n -> Nat])
  BY <1>1, WFLexProductOrdering, Zenon
<1>4. \A k, l \in [1..n -> Nat] :
        (\E j \in 1..n : (\A i \in 1..(j - 1) : k[i] = l[i]) /\ <<k[j], l[j]>> \in R)
          => <<k, l>> \in L
  BY DEF LexProductOrdering
<1> HIDE DEF L
<1>5. T \subseteq [1..n -> Nat] /\ T # {}
  OBVIOUS
<1>6. PICK m \in T : \A l \in T : <<l, m>> \notin L
  BY <1>3, <1>5, WFMin
<1>7. PICK x \in S : m = K[x]
  OBVIOUS
<1>8. ASSUME NEW y \in S \ {x} PROVE Lexicographic(K[x], K[y])
  <2> DEFINE D == {i \in 1..n : K[x][i] # K[y][i]}
  <2>1. K[x] \in [1..n -> Nat] /\ K[y] \in [1..n -> Nat] /\ K[x] # K[y]
    OBVIOUS
  <2>8. \E i \in 1..n : K[x][i] # K[y][i]
    <3> SUFFICES ASSUME \A i \in 1..n : K[x][i] = K[y][i] PROVE FALSE
      OBVIOUS
    <3>1. K[x] = [i \in 1..n |-> K[x][i]] /\ K[y] = [i \in 1..n |-> K[y][i]]
      BY <2>1
    <3> QED
      BY <2>1, <3>1
  <2>2. D \subseteq Nat /\ D # {}
    <3>1. D \subseteq Nat
      OBVIOUS
    <3>2. PICK i \in 1..n : K[x][i] # K[y][i]
      BY <2>8
    <3>3. i \in D
      BY <3>2
    <3> HIDE DEF D
    <3> QED
      BY <3>1, <3>3
  <2>3. PICK j \in D : \A k \in D : j <= k
    BY <2>2, LeastNatural
  <2>4. \A i \in 1..(j - 1) : K[x][i] = K[y][i] /\ i \in 1..n
    BY <2>3
  <2>5. K[x][j] \in Nat /\ K[y][j] \in Nat /\ K[x][j] # K[y][j] /\ j \in 1..n
    BY <2>1, <2>3
  <2>6. ~(K[y][j] < K[x][j])
    <3> SUFFICES ASSUME K[y][j] < K[x][j] PROVE FALSE
      OBVIOUS
    <3>1. <<K[y][j], K[x][j]>> \in R
      BY <1>2, <2>5
    <3>2. <<K[y], K[x]>> \in L
      BY <1>4, <2>1, <2>4, <2>5, <3>1
    <3> QED
      BY <1>6, <1>7, <3>2
  <2>7. K[x][j] < K[y][j] /\ DOMAIN K[x] = 1..n
    BY <2>1, <2>5, <2>6
  <2> QED
    BY <2>4, <2>5, <2>7 DEF Lexicographic
<1> QED
  BY <1>8

(* What Max, Min and Clamp give for two integers.                           *)
LEMMA MaxOfTwo ==
  ASSUME NEW a \in Int, NEW b \in Int
  PROVE  Max({a, b}) = (IF a >= b THEN a ELSE b) /\ Min({a, b}) = (IF a <= b THEN a ELSE b)
<1> DEFINE m == IF a >= b THEN a ELSE b
           l == IF a <= b THEN a ELSE b
<1>1. m \in {a, b} /\ \A y \in {a, b} : m >= y
  OBVIOUS
<1>2. \A x \in {a, b} : (\A y \in {a, b} : x >= y) => x = m
  OBVIOUS
<1>3. l \in {a, b} /\ \A y \in {a, b} : l <= y
  OBVIOUS
<1>4. \A x \in {a, b} : (\A y \in {a, b} : x <= y) => x = l
  OBVIOUS
<1> HIDE DEF m, l
<1>5. Max({a, b}) = m
  BY <1>1, <1>2 DEF Max
<1>6. Min({a, b}) = l
  BY <1>3, <1>4 DEF Min
<1> QED
  BY <1>5, <1>6 DEF m, l

(* A clamped integer is in its interval.                                    *)
LEMMA Clamped ==
  ASSUME NEW x \in Int, NEW low \in Int, NEW high \in Int, low <= high
  PROVE  Clamp(x, low, high) \in low..high
<1>1. Min({x, high}) = IF x <= high THEN x ELSE high
  BY MaxOfTwo
<1>2. Max({low, Min({x, high})}) = IF low >= Min({x, high}) THEN low ELSE Min({x, high})
  BY <1>1, MaxOfTwo
<1> QED
  BY <1>1, <1>2 DEF Clamp

-----------------------------------------------------------------------------
(* TutorPlan: the choices of the scheduler and the generator               *)

(* Sets of assignments are counted.                                         *)
LEMMA CountOf ==
  ASSUME PlanTypeOK, NEW S, S \subseteq DOMAIN made
  PROVE  Cardinality(S) \in Nat
<1>1. DOMAIN made = 1..Len(made) /\ Len(made) \in Nat
  BY DEF PlanTypeOK
<1>2. IsFiniteSet(1..Len(made))
  BY <1>1, FS_Interval
<1> QED
  BY <1>1, <1>2, FS_Subset, FS_CardinalityType

(* The format chosen is one allowed and supported.                          *)
LEMMA FormatSelected ==
  ASSUME PlanTypeOK, NEW c \in Concept, NEW allowed, allowed \cap Supported[c] # {}
  PROVE  SelectExerciseType(c, allowed) \in allowed \cap Supported[c]
<1> DEFINE S == allowed \cap Supported[c]
           K == [f \in S |-> FormatKey(c, f)]
           Best(f) == \A g \in S \ {f} : Lexicographic(FormatKey(c, f), FormatKey(c, g))
<1>1. \A f \in S : f \in Nat
  BY PlanAssumption
<1>2. ASSUME NEW f \in S
      PROVE  FormatKey(c, f) \in [1..3 -> Nat] /\ FormatKey(c, f)[3] = f
  <2> DEFINE first == IF \E i \in LastAbout(c) : made[i].format = f THEN 1 ELSE 0
             second == Cardinality({i \in Latest(Evidence, 10) : made[i].format = f})
  <2>1. first \in Nat
    OBVIOUS
  <2>2. {i \in Latest(Evidence, 10) : made[i].format = f} \subseteq DOMAIN made
    BY DEF Latest, Evidence
  <2>3. second \in Nat
    BY <2>2, CountOf
  <2> HIDE DEF first, second
  <2>4. f \in Nat
    BY <1>1
  <2>5. << first, second, f >> \in [1..3 -> Nat] /\ << first, second, f >>[3] = f
    BY <2>1, <2>3, <2>4
  <2>6. FormatKey(c, f) = << first, second, f >>
    BY DEF FormatKey, first, second
  <2> QED
    BY <2>5, <2>6
<1>3. K \in [S -> [1..3 -> Nat]] /\ \A x, y \in S : K[x] = K[y] => x = y
  BY <1>2
<1>4. \E x \in S : \A y \in S \ {x} : Lexicographic(K[x], K[y])
  <2>1. S # {} /\ 3 \in Nat
    OBVIOUS
  <2> HIDE DEF S, K
  <2> QED
    BY <1>3, <2>1, LeastKey
<1>5. \E x \in S : Best(x)
  BY <1>4
<1>6. SelectExerciseType(c, allowed) = CHOOSE x \in S : Best(x)
  BY DEF SelectExerciseType
<1> HIDE DEF Best
<1> QED
  BY <1>5, <1>6

(* The difficulty aimed at is on the scale, whatever the history.           *)
LEMMA DifficultyInScale ==
  ASSUME PlanTypeOK, NEW c \in Concept, NEW grasp, NEW session
  PROVE  Difficulty(c, grasp, session) \in 1..10
<1> DEFINE With(state) == {i \in DOMAIN made : made[i].concept = c /\ made[i].state = state}
           EndedWith(state) == \E i \in LastAbout(c) : made[i].state = state
           level == IF grasp >= 80 /\ Cardinality(With("success")) >= 2 THEN 2
                    ELSE IF grasp >= 60 THEN 1
                    ELSE IF grasp < 30 /\ With("failure") # {} THEN -1 ELSE 0
           trend == IF EndedWith("failure") THEN -1
                    ELSE IF EndedWith("success") /\ grasp >= 65 THEN 1 ELSE 0
           form == IF session.energy = "low" \/ session.minutes < 25 THEN -1
                   ELSE IF session.energy = "high" /\ session.minutes >= 60 THEN 1 ELSE 0
           all == {Base[c]} \cup {made[i].difficulty : i \in With("success")}
<1>1. level \in Int /\ trend \in Int /\ form \in Int
  OBVIOUS
<1>2. \A i \in DOMAIN made : made[i].difficulty \in 1..10
  <2>1. \A i \in DOMAIN made : made[i] \in Assignment
    BY DEF PlanTypeOK
  <2> QED
    BY <2>1 DEF Assignment
<1>3. all \in SUBSET (1..10) /\ all # {}
  BY <1>2, PlanAssumption
<1>4. Max(all) \in 1..10
  <2> HIDE DEF all
  <2>1. 10 \in Nat
    OBVIOUS
  <2> QED
    BY <1>3, <2>1, MaxOfSome
<1>5. Difficulty(c, grasp, session) = Clamp(Max(all) + level + trend + form, 1, 10)
  BY DEF Difficulty
<1> HIDE DEF all, level, trend, form
<1>6. Max(all) + level + trend + form \in Int
  BY <1>1, <1>4
<1>7. 1 \in Int /\ 10 \in Int /\ 1 <= 10
  OBVIOUS
<1> QED
  BY <1>5, <1>6, <1>7, Clamped

(* The fitted difficulty is one a blueprint of the concept and format covers. *)
LEMMA DifficultyFits ==
  ASSUME NEW c, NEW f, Authored(c, f) # {}, NEW target \in Int
  PROVE  \E b \in Authored(c, f) :
           FitAuthoredDifficulty(c, f, target) \in b.low..b.high
<1> DEFINE S == {Clamp(target, b.low, b.high) : b \in Authored(c, f)}
           K == [d \in S |-> DistanceKey(d, target)]
           Best(d) == \A e \in S \ {d} : Lexicographic(DistanceKey(d, target), DistanceKey(e, target))
<1>1. \A b \in Authored(c, f) :
        /\ b.low \in 1..10 /\ b.high \in b.low..10
        /\ Clamp(target, b.low, b.high) \in b.low..b.high
  <2> SUFFICES ASSUME NEW b \in Authored(c, f)
               PROVE  /\ b.low \in 1..10 /\ b.high \in b.low..10
                      /\ Clamp(target, b.low, b.high) \in b.low..b.high
    OBVIOUS
  <2>1. b.low \in 1..10 /\ b.high \in b.low..10
    BY PlanAssumption DEF Authored
  <2>2. b.low \in Int /\ b.high \in Int /\ b.low <= b.high
    BY <2>1
  <2> QED
    BY <2>1, <2>2, Clamped
<1>2. S \subseteq Nat /\ S # {}
  BY <1>1
<1>3. ASSUME NEW d \in S
      PROVE  DistanceKey(d, target) \in [1..2 -> Nat] /\ DistanceKey(d, target)[2] = d
  <2>1. d \in Nat /\ d - target \in Int /\ target - d \in Int
    BY <1>2
  <2>2. Max({d - target, target - d}) = IF d - target >= target - d THEN d - target ELSE target - d
    BY <2>1, MaxOfTwo
  <2> DEFINE far == Max({d - target, target - d})
  <2>3. far \in Nat
    BY <2>1, <2>2
  <2> HIDE DEF far
  <2>4. << far, d >> \in [1..2 -> Nat] /\ << far, d >>[2] = d
    BY <2>1, <2>3
  <2> QED
    BY <2>4 DEF DistanceKey, far
<1> HIDE DEF S
<1>4. K \in [S -> [1..2 -> Nat]] /\ \A x, y \in S : K[x] = K[y] => x = y
  BY <1>3
<1>5. \E x \in S : \A y \in S \ {x} : Lexicographic(K[x], K[y])
  <2> HIDE DEF K
  <2>1. 2 \in Nat
    OBVIOUS
  <2> QED
    BY <1>2, <1>4, <2>1, LeastKey
<1>6. \E x \in S : Best(x)
  BY <1>5
<1>7. FitAuthoredDifficulty(c, f, target) = CHOOSE x \in S : Best(x)
  BY DEF FitAuthoredDifficulty, S
<1> HIDE DEF Best
<1>8. FitAuthoredDifficulty(c, f, target) \in S
  BY <1>6, <1>7
<1> QED
  BY <1>1, <1>8 DEF S

(* The blueprint chosen is a candidate, and covers the difficulty if one does. *)
LEMMA BlueprintSelected ==
  ASSUME NEW c, NEW f, Authored(c, f) # {}, NEW d \in 1..10, NEW minutes
  PROVE  /\ SelectBlueprint(c, f, d, minutes) \in Candidates(c, f)
         /\ \A b \in Candidates(c, f) :
              InRange(b, d) => InRange(SelectBlueprint(c, f, d, minutes), d)
<1> DEFINE S == Candidates(c, f)
           K == [b \in S |-> BlueprintKey(b, d, minutes)]
           Best(b) == \A e \in S \ {b} :
                        Lexicographic(BlueprintKey(b, d, minutes), BlueprintKey(e, d, minutes))
<1>1. S # {} /\ S \subseteq Blueprint
  BY DEF Candidates, Authored
<1>2. ASSUME NEW b \in S
      PROVE  /\ BlueprintKey(b, d, minutes) \in [1..5 -> Nat]
             /\ BlueprintKey(b, d, minutes)[5] = b.id
             /\ BlueprintKey(b, d, minutes)[1] = IF InRange(b, d) THEN 0 ELSE 1
  <2>1. b.low \in Int /\ b.high \in Int /\ b.minutes \in Nat /\ b.id \in Nat
    BY <1>1, PlanAssumption
  <2> DEFINE k1 == IF InRange(b, d) THEN 0 ELSE 1
             over == b.low + b.high - 2 * d
             under == 2 * d - b.low - b.high
             k2 == Max({over, under})
             k3 == IF b.minutes > minutes + 15 THEN 1 ELSE 0
  <2>2. over \in Int /\ under \in Int /\ under = 0 - over
    BY <2>1
  <2>3. k1 \in Nat /\ k3 \in Nat
    OBVIOUS
  <2>4. BlueprintKey(b, d, minutes) = << k1, k2, k3, b.minutes, b.id >>
    BY DEF BlueprintKey
  <2> HIDE DEF over, under, k1, k3
  <2>5. k2 = IF over >= under THEN over ELSE under
    BY <2>2, MaxOfTwo
  <2>6. k2 \in Nat
    BY <2>2, <2>5
  <2> HIDE DEF k2
  <2>7. /\ << k1, k2, k3, b.minutes, b.id >> \in [1..5 -> Nat]
        /\ << k1, k2, k3, b.minutes, b.id >>[5] = b.id
        /\ << k1, k2, k3, b.minutes, b.id >>[1] = k1
    BY <2>1, <2>3, <2>6
  <2> QED
    BY <2>4, <2>7 DEF k1
<1> HIDE DEF S
<1>3. K \in [S -> [1..5 -> Nat]] /\ \A x, y \in S : K[x] = K[y] => x = y
  BY <1>1, <1>2, PlanAssumption
<1>4. \E x \in S : \A y \in S \ {x} : Lexicographic(K[x], K[y])
  <2> HIDE DEF K
  <2>1. 5 \in Nat
    OBVIOUS
  <2> QED
    BY <1>1, <1>3, <2>1, LeastKey
<1>5. \E x \in S : Best(x)
  BY <1>4
<1> DEFINE chosen == SelectBlueprint(c, f, d, minutes)
<1>6. chosen = CHOOSE x \in S : Best(x)
  BY DEF SelectBlueprint, S
<1> HIDE DEF Best, chosen
<1>7. chosen \in S /\ Best(chosen)
  BY <1>5, <1>6
<1>8. ASSUME NEW b \in S, InRange(b, d), ~InRange(chosen, d) PROVE FALSE
  <2>1. b # chosen
    BY <1>8
  <2>2. Lexicographic(BlueprintKey(chosen, d, minutes), BlueprintKey(b, d, minutes))
    BY <1>7, <2>1 DEF Best
  <2> DEFINE k == BlueprintKey(chosen, d, minutes)
             l == BlueprintKey(b, d, minutes)
  <2>3. k[1] = 1 /\ l[1] = 0 /\ k \in [1..5 -> Nat]
    BY <1>2, <1>7, <1>8
  <2> HIDE DEF k, l
  <2>4. PICK i \in DOMAIN k : k[i] < l[i] /\ \A j \in 1..(i - 1) : k[j] = l[j]
    BY <2>2 DEF Lexicographic, k, l
  <2>5. i \in 1..5
    BY <2>3, <2>4
  <2>6. CASE i = 1
    BY <2>3, <2>4, <2>6
  <2>7. CASE i # 1
    <3>1. 1 \in 1..(i - 1)
      BY <2>5, <2>7
    <3> QED
      BY <2>3, <2>4, <3>1
  <2> QED
    BY <2>6, <2>7
<1> QED
  BY <1>7, <1>8 DEF S, chosen

-----------------------------------------------------------------------------
(* The windows over the newest assignments                                 *)

(* A window holds assignments made, and all of them while they are few.     *)
LEMMA WindowRows ==
  ASSUME PlanTypeOK, NEW k \in Nat, k > 0
  PROVE  /\ \A i \in DOMAIN Oldest(Recent, k) :
              \E j \in DOMAIN made : Oldest(Recent, k)[i] = made[j]
         /\ Len(made) <= k /\ k <= 8 => Oldest(Recent, k) = Reverse(made)
<1> DEFINE M == {made[j] : j \in DOMAIN made}
           rev == Reverse(made)
           n == Len(made)
<1>1. n \in Nat /\ DOMAIN made = 1..n
  BY DEF PlanTypeOK
<1>2. rev = [i \in 1..n |-> made[(n - i) + 1]]
  BY DEF Reverse
<1>3. \A i \in 1..n : (n - i) + 1 \in 1..n
  BY <1>1
<1>4. rev \in [1..n -> M]
  BY <1>1, <1>2, <1>3
<1> HIDE DEF rev, M
<1>5. rev \in Seq(M) /\ Len(rev) = n
  BY <1>1, <1>4
<1> HIDE DEF n
<1>6. Min({8, n}) = IF 8 <= n THEN 8 ELSE n
  <2>1. 8 \in Int /\ n \in Int
    BY <1>1
  <2> QED
    BY <2>1, MaxOfTwo, Zenon
<1>7. Min({8, n}) \in Int /\ \A i \in 1..Min({8, n}) : rev[i] \in M
  <2> DEFINE m == Min({8, n})
  <2> HIDE DEF m
  <2>1. m = IF 8 <= n THEN 8 ELSE n
    BY <1>6 DEF m
  <2>2. m \in Int /\ m <= n
    BY <1>1, <2>1
  <2>3. \A i \in 1..m : i \in 1..n
    BY <1>1, <2>2
  <2> QED
    BY <1>4, <2>2, <2>3 DEF m
<1>8. Recent = SubSeq(rev, 1, Min({8, n}))
  BY <1>5 DEF Recent, Newest, rev
<1>9. Recent \in Seq(M)
  <2>1. 1 \in Int
    OBVIOUS
  <2> QED
    BY <1>7, <1>8, <2>1, SubSeqProperties
<1> DEFINE r == Recent
<1> HIDE DEF r
<1>10. Len(r) \in Nat /\ \A i \in 1..Len(r) : r[i] \in M
  BY <1>9 DEF r
<1>11. Max({1, Len(r) - k + 1}) = IF 1 >= Len(r) - k + 1 THEN 1 ELSE Len(r) - k + 1
  BY <1>10, MaxOfTwo
<1> DEFINE start == Max({1, Len(r) - k + 1})
<1>12. start \in Int /\ start >= 1 /\ \A i \in start..Len(r) : r[i] \in M
  <2> HIDE DEF start
  <2>1. start = IF 1 >= Len(r) - k + 1 THEN 1 ELSE Len(r) - k + 1
    BY <1>11 DEF start
  <2>2. start \in Int /\ start >= 1
    BY <1>10, <2>1
  <2> QED
    BY <1>10, <2>2
<1>13. Oldest(Recent, k) = SubSeq(r, start, Len(r))
  BY DEF Oldest, r
<1>14. Oldest(Recent, k) \in Seq(M)
  <2> HIDE DEF start
  <2> QED
    BY <1>10, <1>12, <1>13, SubSeqProperties
<1>15. ASSUME NEW i \in DOMAIN Oldest(Recent, k)
       PROVE  \E j \in DOMAIN made : Oldest(Recent, k)[i] = made[j]
  <2> DEFINE o == Oldest(Recent, k)
  <2> HIDE DEF o
  <2>1. o \in Seq(M) /\ i \in DOMAIN o
    BY <1>14 DEF o
  <2>2. o[i] \in M
    BY <2>1
  <2> QED
    BY <2>2 DEF o, M
<1>16. ASSUME n <= k, k <= 8 PROVE Oldest(Recent, k) = rev
  <2>1. Min({8, n}) = n
    BY <1>1, <1>6, <1>16
  <2>2. r = rev
    BY <1>5, <1>8, <2>1, SubSeqFull DEF r
  <2>3. start = 1
    BY <1>1, <1>5, <1>11, <1>16, <2>2
  <2> QED
    BY <1>5, <1>13, <2>2, <2>3, SubSeqFull
<1> QED
  BY <1>15, <1>16 DEF n, rev

(* What two windows say of the assignments made.                           *)
LEMMA RepeatsInWindow ==
  ASSUME PlanTypeOK, NEW k \in Nat, k > 0, NEW b, NEW c, Repeats(Oldest(Recent, k), b, c)
  PROVE  \E j \in DOMAIN made : made[j].blueprint = b /\ made[j].concept = c
<1>1. PICK i \in DOMAIN Oldest(Recent, k) :
        Oldest(Recent, k)[i].blueprint = b /\ Oldest(Recent, k)[i].concept = c
  BY DEF Repeats
<1> QED
  BY <1>1, WindowRows

LEMMA ReverseRows ==
  ASSUME PlanTypeOK
  PROVE  /\ Len(Reverse(made)) = Len(made)
         /\ \A j \in DOMAIN made : /\ (Len(made) - j) + 1 \in DOMAIN Reverse(made)
                                  /\ Reverse(made)[(Len(made) - j) + 1] = made[j]
<1>1. Len(made) \in Nat /\ DOMAIN made = 1..Len(made)
  BY DEF PlanTypeOK
<1>2. Reverse(made) = [i \in 1..Len(made) |-> made[(Len(made) - i) + 1]]
  BY DEF Reverse
<1>3. \A j \in 1..Len(made) : /\ (Len(made) - j) + 1 \in 1..Len(made)
                               /\ (Len(made) - ((Len(made) - j) + 1)) + 1 = j
  BY <1>1
<1> QED
  BY <1>1, <1>2, <1>3

(* While at most three assignments were made, a valid one repeats none, and  *)
(* when two were made it does not have the format of both.                   *)
LEMMA ValidEarly ==
  ASSUME PlanTypeOK, NEW c, NEW f, NEW b, Valid(c, f, b)
  PROVE  /\ Len(made) <= 3 => \A j \in DOMAIN made :
                                ~(made[j].blueprint = b /\ made[j].concept = c)
         /\ Len(made) = 2 => \E j \in 1..2 : made[j].format # f
<1>1. Len(made) \in Nat /\ DOMAIN made = 1..Len(made)
  BY DEF PlanTypeOK
<1>2. ASSUME Len(made) <= 3, NEW j \in DOMAIN made, made[j].blueprint = b, made[j].concept = c
      PROVE  FALSE
  <2>1. Oldest(Recent, 3) = Reverse(made)
    BY <1>2, WindowRows
  <2>2. Repeats(Reverse(made), b, c)
    BY <1>2, ReverseRows DEF Repeats
  <2> QED
    BY <2>1, <2>2 DEF Valid
<1>3. ASSUME Len(made) = 2 PROVE \E j \in 1..2 : made[j].format # f
  <2>1. Oldest(Recent, 2) = Reverse(made)
    BY <1>3, WindowRows
  <2>2. Len(Reverse(made)) = 2
    BY <1>3, ReverseRows
  <2>3. PICK i \in 1..2 : Reverse(made)[i].format # f
    BY <2>1, <2>2 DEF Valid
  <2>4. 3 - i \in 1..2 /\ (2 - (3 - i)) + 1 = i
    OBVIOUS
  <2>5. Reverse(made)[i] = made[3 - i]
    BY <1>1, <1>3, <2>4, ReverseRows
  <2> QED
    BY <2>3, <2>4, <2>5
<1> QED
  BY <1>2, <1>3

-----------------------------------------------------------------------------
(* TutorPlan: every assignment                                             *)

(* DifficultyIsAuthored of one assignment, by the places of earlier ones.   *)
Covers(b, a) == b \in Authored(a.concept, a.format) /\ InRange(b, a.difficulty)
UsedBefore(i, b) ==
  \E j \in 1..(i - 1) : made[j].blueprint = b /\ made[j].concept = made[i].concept
FairlySet(i) ==
  /\ \E b \in Blueprint : Covers(b, made[i])
  /\ \/ Covers(made[i].blueprint, made[i])
     \/ \A b \in Blueprint : Covers(b, made[i]) => UsedBefore(i, b)

PlanInv ==
  /\ PlanTypeOK /\ EarlyAssignmentsVary
  /\ \A i \in DOMAIN made : FairlySet(i)

(* A step may add an assignment and end the last one, and rewrites none.    *)
SameProblem(i) ==
  /\ made'[i].concept = made[i].concept /\ made'[i].blueprint = made[i].blueprint
  /\ made'[i].format = made[i].format /\ made'[i].difficulty = made[i].difficulty

LEMMA FairlySetKept ==
  ASSUME PlanTypeOK, PlanTypeOK', Len(made) <= Len(made'),
         \A i \in DOMAIN made : SameProblem(i), NEW i \in DOMAIN made, FairlySet(i)
  PROVE  FairlySet(i)'
<1>1. /\ Len(made) \in Nat /\ DOMAIN made = 1..Len(made)
      /\ \A j \in 1..(i - 1) : j \in DOMAIN made
  BY DEF PlanTypeOK
<1>2. SameProblem(i) /\ \A j \in 1..(i - 1) : SameProblem(j)
  BY <1>1
<1>3. \A b : Covers(b, made'[i]) <=> Covers(b, made[i])
  BY <1>2 DEF Covers, SameProblem
<1>4. \A b : UsedBefore(i, b) => UsedBefore(i, b)'
  BY <1>2 DEF UsedBefore, SameProblem
<1> DEFINE blueprint == made[i].blueprint
<1>5. made'[i].blueprint = blueprint
  BY <1>2 DEF SameProblem
<1> QED
  BY <1>3, <1>4, <1>5 DEF FairlySet

LEMMA PlanInvInit == PlanInit => PlanInv
<1> SUFFICES ASSUME PlanInit PROVE PlanInv
  OBVIOUS
<1>1. made = <<>> /\ DOMAIN made = {} /\ Len(made) = 0
  BY DEF PlanInit
<1>2. PlanTypeOK /\ EarlyAssignmentsVary
  BY <1>1, PlanAssumption DEF PlanTypeOK, EarlyAssignmentsVary
<1> QED
  BY <1>1, <1>2 DEF PlanInv

LEMMA CloseKept ==
  ASSUME PlanInv, NEW state \in {"withdrawn"} \cup Outcome, Close(state)
  PROVE  PlanInv'
<1> DEFINE n == Len(made)
           e == [made[n] EXCEPT !.state = state]
<1>1. /\ made \in Seq(Assignment) /\ n <= MaxMade /\ n \in Nat /\ DOMAIN made = 1..n
      /\ made # <<>>
  BY DEF PlanInv, PlanTypeOK, Close, Open
<1>2. n \in DOMAIN made /\ made[n] \in Assignment
  BY <1>1
<1>3. /\ e \in Assignment
      /\ e.concept = made[n].concept /\ e.blueprint = made[n].blueprint
      /\ e.format = made[n].format /\ e.difficulty = made[n].difficulty
  BY <1>2 DEF Assignment
<1>4. made' = [made EXCEPT ![n] = e]
  BY DEF Close
<1> HIDE DEF e
<1>5. made' \in Seq(Assignment) /\ Len(made') = n /\ DOMAIN made' = DOMAIN made
  BY <1>1, <1>2, <1>3, <1>4
<1>6. PlanTypeOK'
  BY <1>1, <1>5 DEF PlanTypeOK
<1>7. ASSUME NEW i \in DOMAIN made PROVE SameProblem(i)
  BY <1>1, <1>3, <1>4, <1>7 DEF SameProblem
<1>8. \A i \in DOMAIN made' : FairlySet(i)'
  BY <1>1, <1>5, <1>6, <1>7, FairlySetKept DEF PlanInv
<1>9. EarlyAssignmentsVary'
  <2>1. Len(made') >= 3 => 1..3 \subseteq DOMAIN made
    BY <1>1, <1>5
  <2> QED
    BY <1>5, <1>7, <2>1 DEF PlanInv, EarlyAssignmentsVary, SameProblem
<1> QED
  BY <1>6, <1>8, <1>9 DEF PlanInv

LEMMA CreateKept ==
  ASSUME PlanInv, CreateNextAssignment
  PROVE  PlanInv'
<1>1. PICK session \in Session, grasp \in Mastery :
        \E c \in Schedulable(session) :
          LET f == SelectExerciseType(c, session.formats)
              d == FitAuthoredDifficulty(c, f, Difficulty(c, grasp, session))
              b == SelectBlueprint(c, f, d, session.minutes)
          IN /\ Valid(c, f, b)
             /\ made' = Append(made, [concept |-> c, blueprint |-> b, format |-> f,
                                      difficulty |-> d, state |-> "open"])
  BY Zenon DEF CreateNextAssignment
<1>2. PICK c \in Schedulable(session) :
        LET f == SelectExerciseType(c, session.formats)
            d == FitAuthoredDifficulty(c, f, Difficulty(c, grasp, session))
            b == SelectBlueprint(c, f, d, session.minutes)
        IN /\ Valid(c, f, b)
           /\ made' = Append(made, [concept |-> c, blueprint |-> b, format |-> f,
                                    difficulty |-> d, state |-> "open"])
  BY Zenon, <1>1
<1> DEFINE f == SelectExerciseType(c, session.formats)
           target == Difficulty(c, grasp, session)
           d == FitAuthoredDifficulty(c, f, target)
           b == SelectBlueprint(c, f, d, session.minutes)
           a == [concept |-> c, blueprint |-> b, format |-> f, difficulty |-> d, state |-> "open"]
<1>3. PICK n \in Nat : n = Len(made)
  BY DEF PlanInv, PlanTypeOK
<1>4. Valid(c, f, b) /\ made' = Append(made, a)
  BY Zenon, <1>2
<1>5. /\ PlanTypeOK /\ made \in Seq(Assignment) /\ n = Len(made) /\ n < MaxMade
      /\ DOMAIN made = 1..n /\ EarlyAssignmentsVary /\ \A i \in DOMAIN made : FairlySet(i)
  BY <1>3 DEF PlanInv, PlanTypeOK, CreateNextAssignment
<1>6. c \in Concept /\ session.formats \cap Supported[c] # {}
  BY DEF Schedulable
<1> HIDE DEF f
<1>7. f \in Supported[c] /\ f \in Nat
  BY <1>5, <1>6, FormatSelected, PlanAssumption DEF f
<1>8. Authored(c, f) # {}
  BY <1>6, <1>7, PlanAssumption DEF Authored
<1> HIDE DEF target
<1>9. target \in Int
  BY <1>5, <1>6, DifficultyInScale DEF target
<1> HIDE DEF d
<1>10. PICK fit \in Authored(c, f) : d \in fit.low..fit.high
  BY <1>8, <1>9, DifficultyFits DEF d
<1>11. d \in 1..10 /\ InRange(fit, d) /\ fit \in Blueprint
  BY <1>10, PlanAssumption DEF Authored, InRange
<1> HIDE DEF b
<1>12. /\ b \in Candidates(c, f)
       /\ \A x \in Candidates(c, f) : InRange(x, d) => InRange(b, d)
  BY <1>8, <1>11, BlueprintSelected DEF b
<1>13. b \in Authored(c, f) /\ b \in Blueprint
  BY <1>12 DEF Candidates, Authored
<1>14. /\ a \in Assignment /\ a.concept = c /\ a.blueprint = b /\ a.format = f
       /\ a.difficulty = d
  BY <1>6, <1>7, <1>11, <1>13 DEF Assignment
<1> HIDE DEF a
<1>15. /\ made' \in Seq(Assignment) /\ Len(made') = n + 1 /\ made'[n + 1] = a
       /\ DOMAIN made' = 1..(n + 1) /\ \A i \in 1..n : made'[i] = made[i]
  BY <1>4, <1>5, <1>14
<1>16. PlanTypeOK'
  BY <1>5, <1>15, PlanAssumption DEF PlanTypeOK
<1>17. \A i \in DOMAIN made : SameProblem(i)
  BY <1>5, <1>15 DEF SameProblem
<1>18. \A i \in DOMAIN made : FairlySet(i)'
  BY <1>5, <1>15, <1>17, <1>16, FairlySetKept
<1>19. FairlySet(n + 1)'
  <2>1. Covers(fit, a)
    BY <1>10, <1>11, <1>14 DEF Covers
  <2>2. ASSUME ~InRange(b, d), NEW x \in Blueprint, Covers(x, a)
        PROVE  UsedBefore(n + 1, x)'
    <3>1. x \in Authored(c, f) /\ InRange(x, d) /\ x \notin Candidates(c, f)
      BY <1>12, <1>14, <2>2 DEF Covers
    <3>2. Repeats(Oldest(Recent, 5), x, c)
      BY <3>1 DEF Candidates
    <3>3. PICK j \in DOMAIN made : made[j].blueprint = x /\ made[j].concept = c
      BY <1>5, <3>2, RepeatsInWindow
    <3>4. j \in 1..((n + 1) - 1) /\ made'[j] = made[j]
      BY <1>5, <1>15, <3>3
    <3> QED
      BY <1>14, <1>15, <3>3, <3>4 DEF UsedBefore
  <2>3. CASE InRange(b, d)
    <3>1. Covers(a.blueprint, a)
      BY <1>13, <1>14, <2>3 DEF Covers
    <3> QED
      BY <1>11, <1>15, <2>1, <3>1 DEF FairlySet
  <2>4. CASE ~InRange(b, d)
    BY <1>11, <1>15, <2>1, <2>2, <2>4 DEF FairlySet
  <2> QED
    BY <2>3, <2>4
<1>20. EarlyAssignmentsVary'
  <2>1. /\ n <= 3 => \A j \in DOMAIN made : ~(made[j].blueprint = b /\ made[j].concept = c)
        /\ n = 2 => \E j \in 1..2 : made[j].format # f
    BY <1>4, <1>5, ValidEarly
  <2>2. ASSUME NEW i \in DOMAIN made', NEW j \in DOMAIN made', i < j, j <= 4,
               made'[i].blueprint = made'[j].blueprint, made'[i].concept = made'[j].concept
        PROVE  FALSE
    <3>1. i \in 1..n
      BY <1>5, <1>15, <2>2
    <3>2. CASE j = n + 1
      BY <1>5, <1>14, <1>15, <2>1, <2>2, <3>1, <3>2
    <3>3. CASE j # n + 1
      <4>1. j \in 1..n
        BY <1>5, <1>15, <3>3
      <4> QED
        BY <1>5, <1>15, <2>2, <3>1, <4>1 DEF EarlyAssignmentsVary
    <3> QED
      BY <3>2, <3>3
  <2>3. ASSUME Len(made') >= 3 PROVE \E i, j \in 1..3 : made'[i].format # made'[j].format
    <3>1. CASE n = 2
      <4>1. PICK j \in 1..2 : made[j].format # f
        BY <2>1, <3>1
      <4>2. made'[j] = made[j] /\ made'[3] = a /\ j \in 1..3 /\ 3 \in 1..3
        BY <1>15, <3>1
      <4> QED
        BY <1>14, <4>1, <4>2
    <3>2. CASE n # 2
      <4>1. n >= 3 /\ 1..3 \subseteq 1..n
        BY <1>5, <1>15, <2>3, <3>2
      <4>2. PICK i \in 1..3, j \in 1..3 : made[i].format # made[j].format
        BY <1>5, <4>1 DEF EarlyAssignmentsVary
      <4> QED
        BY <1>15, <4>1, <4>2
    <3> QED
      BY <3>1, <3>2
  <2> QED
    BY <2>2, <2>3 DEF EarlyAssignmentsVary
<1> QED
  BY <1>5, <1>15, <1>18, <1>19, <1>20, <1>16 DEF PlanInv

LEMMA PlanInvHolds == PlanSpec => []PlanInv
<1>1. PlanInv /\ [PlanNext]_made => PlanInv'
  <2> SUFFICES ASSUME PlanInv, [PlanNext]_made PROVE PlanInv'
    OBVIOUS
  <2>1. CASE CreateNextAssignment
    BY <2>1, CreateKept
  <2>2. CASE ReviewAssignment
    BY <2>2, CloseKept DEF ReviewAssignment
  <2>3. CASE Withdraw
    BY <2>3, CloseKept DEF Withdraw
  <2>4. CASE UNCHANGED made
    <3>1. PlanTypeOK' /\ EarlyAssignmentsVary'
      BY <2>4 DEF PlanInv, PlanTypeOK, EarlyAssignmentsVary
    <3>2. \A i \in DOMAIN made' : FairlySet(i)'
      BY <2>4 DEF PlanInv, FairlySet, UsedBefore
    <3> QED
      BY <3>1, <3>2 DEF PlanInv
  <2> QED
    BY <2>1, <2>2, <2>3, <2>4 DEF PlanNext
<1> QED
  BY <1>1, PlanInvInit, PTL DEF PlanSpec

(* The assignments made stay well typed for any curriculum and any sessions: *)
(* there always is a format, a difficulty and a blueprint to choose.         *)
THEOREM PlanTypeCorrect == PlanSpec => []PlanTypeOK
<1>1. PlanInv => PlanTypeOK
  BY DEF PlanInv
<1> QED
  BY <1>1, PlanInvHolds, PTL

(* For any curriculum and any sessions, the difficulty of an assignment is one *)
(* its concept and format were authored for, and leaves the range of its        *)
(* blueprint only if every blueprint that covers it was used.                  *)
THEOREM DifficultiesAreAuthored == PlanSpec => []DifficultyIsAuthored
<1>1. PlanInv => DifficultyIsAuthored
  <2> SUFFICES ASSUME PlanInv, NEW i \in DOMAIN made
               PROVE  LET a == made[i]
                          covering == {b \in Authored(a.concept, a.format) :
                                         InRange(b, a.difficulty)}
                      IN /\ covering # {}
                         /\ a.blueprint \in covering
                            \/ \A b \in covering : Repeats(SubSeq(made, 1, i - 1), b, a.concept)
    BY Zenon DEF DifficultyIsAuthored
  <2> DEFINE a == made[i]
             covering == {b \in Authored(a.concept, a.format) : InRange(b, a.difficulty)}
             before == SubSeq(made, 1, i - 1)
  <2>1. FairlySet(i) /\ made \in Seq(Assignment) /\ i \in 1..Len(made) /\ Len(made) \in Nat
    BY DEF PlanInv, PlanTypeOK
  <2>2. \A b : b \in covering <=> b \in Blueprint /\ Covers(b, a)
    BY DEF Covers, Authored
  <2>3. /\ 1 \in Int /\ i - 1 \in Int /\ \A j \in 1..(i - 1) : made[j] \in Assignment
    BY <2>1
  <2>4. /\ before \in Seq(Assignment)
        /\ Len(before) = IF 1 <= i - 1 THEN (i - 1) - 1 + 1 ELSE 0
        /\ \A j \in 1..((i - 1) - 1 + 1) : before[j] = made[1 + j - 1]
    BY <2>3, SubSeqProperties
  <2> HIDE DEF before, covering
  <2>5. DOMAIN before = 1..(i - 1) /\ \A j \in 1..(i - 1) : before[j] = made[j]
    BY <2>1, <2>4
  <2>6. \A b : UsedBefore(i, b) => Repeats(before, b, a.concept)
    BY <2>5 DEF UsedBefore, Repeats
  <2>7. a \in Assignment /\ a.blueprint \in Blueprint
    <3>1. a \in Assignment
      BY <2>1
    <3> QED
      BY <3>1 DEF Assignment
  <2>8. covering # {} /\ (a.blueprint \in covering \/ \A b \in covering : Repeats(before, b, a.concept))
    BY <2>1, <2>2, <2>6, <2>7 DEF FairlySet
  <2> QED
    BY <2>8 DEF before, covering
<1> QED
  BY <1>1, PlanInvHolds, PTL

(* For any curriculum and any sessions, the first four assignments are four    *)
(* different problems and the first three do not all have one format.          *)
THEOREM EarlyOnesVary == PlanSpec => []EarlyAssignmentsVary
<1>1. PlanInv => EarlyAssignmentsVary
  BY DEF PlanInv
<1> QED
  BY <1>1, PlanInvHolds, PTL

-----------------------------------------------------------------------------
(* The parts of MCTutor *)

(* A part moves by its own steps and rests while another moves.              *)
LEMMA PartsStep ==
  ASSUME [PartsNext]_<<part, vars, learnerVars, made, storeVars, evaluatorVars, graderVars, bundleVars>>
  PROVE  /\ [Next]_vars /\ [LearnerNext]_learnerVars /\ [PlanNext]_made
         /\ [StoreNext]_storeVars /\ [EvaluatorNext]_evaluatorVars
         /\ [GraderNext]_graderVars /\ [BundleNext]_bundleVars
BY DEF PartsNext, Only

(* A behaviour of MCTutor is one of every part, so what is proved of a part  *)
(* holds of it: no part disturbs another.                                    *)
THEOREM PartsRunAlone ==
  PartsSpec => /\ Spec /\ LearnerSpec /\ PlanSpec /\ StoreSpec
               /\ EvaluatorSpec /\ GraderSpec /\ BundleSpec
<1>1. PartsInit => /\ Init /\ LearnerInit /\ PlanInit /\ StoreInit
                   /\ EvaluatorInit /\ GraderInit /\ BundleInit
  BY DEF PartsInit
<1> QED
  BY <1>1, PartsStep, PTL
     DEF PartsSpec, Spec, LearnerSpec, PlanSpec, StoreSpec, EvaluatorSpec, GraderSpec, BundleSpec

(* Whichever part moves, its variables keep their types.                     *)
THEOREM PartsTypeCorrect ==
  ASSUME IsFiniteSet(Invocation)
  PROVE  PartsSpec => []PartsTypeOK
<1>1. /\ TypeOK /\ LearnerTypeOK /\ PlanTypeOK /\ StoreTypeOK
      /\ EvaluatorTypeOK /\ GraderTypeOK /\ BundleTypeOK
      => PartsTypeOK
  BY DEF PartsTypeOK
<1>2. GraderSpec => []GraderTypeOK
  BY GraderTypeCorrect
<1> QED
  BY <1>1, <1>2, PartsRunAlone, TypeCorrect, LearnerTypeCorrect, PlanTypeCorrect,
     StoreTypeCorrect, EvaluatorTypeCorrect, BundleTypeCorrect, PTL
=============================================================================
