-------------------------- MODULE ProofGraphProofs --------------------------
(***************************************************************************)
(* Proofs about ProofGraph, for every value of its constants.              *)
(***************************************************************************)
EXTENDS ProofGraph, TLAPS

\* The decompositions the graph holds cite goals that are proved, which their
\* parents will depend on whenever propagation selects them.
CitesProved == \A d \in Present : d.cites \subseteq Proved

\* The inductive invariant.
GraphInv ==
  /\ GraphTypeOK
  /\ NoDecompositionCycle
  /\ ProofsSupported
  /\ PropagationComplete
  /\ CitesProved

-----------------------------------------------------------------------------
(***************************************************************************)
(* Decompositions and propagation                                          *)
(***************************************************************************)
ProvedIn(os) == {g \in Goal : os[g] = "proved"}
PresentIn(as) == {d \in Decomposition : as[d] # "absent"}

LEMMA DecompositionType ==
  ASSUME NEW d \in Decomposition
  PROVE  /\ d.parent \in Goal /\ d.cites \subseteq Goal
         /\ Required(d) \subseteq Children(d) /\ Children(d) \subseteq Goal
<1>1. d \in [parent : Goal, kids : Seq(Goal), spare : SUBSET Goal, cites : SUBSET Goal]
  BY DecompositionAssumption
<1>2. \A i \in DOMAIN d.kids : d.kids[i] \in Goal
  BY <1>1
<1> QED
  BY <1>1, <1>2 DEF Required, Children

\* Saturation is the least settled set above S.
LEMMA SaturationLeast ==
  ASSUME NEW S \in SUBSET Goal, NEW D \in SUBSET Decomposition
  PROVE  /\ S \subseteq Saturation(S, D) /\ Saturation(S, D) \subseteq Goal
         /\ Settled(Saturation(S, D), D)
<1>1. S \subseteq Saturation(S, D) /\ Saturation(S, D) \subseteq Goal
  BY DEF Saturation
<1>2. ASSUME NEW d \in D, Required(d) \subseteq Saturation(S, D)
      PROVE  d.parent \in Saturation(S, D)
  <2>1. ASSUME NEW T \in SUBSET Goal, S \subseteq T, Settled(T, D)
        PROVE  d.parent \in T
    <3>1. Saturation(S, D) \subseteq T
      BY <2>1 DEF Saturation
    <3> QED
      BY <1>2, <2>1, <3>1 DEF Settled
  <2> QED
    BY <2>1, DecompositionType DEF Saturation
<1> QED
  BY <1>1, <1>2 DEF Settled

\* What a transaction that ends in Propagate leaves behind.
Outcome(os, as, sel) ==
  /\ orStatus' \in [Goal -> OrStatus]
  /\ andStatus' \in [Decomposition -> AndStatus]
  /\ proof' \in [Goal -> Decomposition \cup {Unproved, Direct}]
  /\ ProvedIn(os) \subseteq Proved'
  /\ Present' = PresentIn(as)
  /\ Settled(Proved', Present')
  /\ \A d \in Decomposition :
       andStatus'[d] = IF d \in Present' /\ Required(d) \subseteq Proved'
                         THEN "proved" ELSE as[d]
  /\ \A g \in Goal : g \in ProvedIn(os) \/ g \notin Proved' => proof'[g] = sel[g]
  /\ \A g \in Proved' \ ProvedIn(os) :
       /\ proof'[g] \in Present' /\ proof'[g].parent = g
       /\ Required(proof'[g]) \subseteq Proved'

LEMMA PropagateOutcome ==
  ASSUME NEW os \in [Goal -> OrStatus], NEW as \in [Decomposition -> AndStatus],
         NEW sel \in [Goal -> Decomposition \cup {Unproved, Direct}],
         Propagate(os, as, sel)
  PROVE  Outcome(os, as, sel)
<1> DEFINE D == PresentIn(as)
           before == ProvedIn(os)
           after == Saturation(before, D)
           complete == {d \in D : Required(d) \subseteq after}
<1>a. PICK S \in {after} :
        /\ orStatus' = [g \in Goal |-> IF g \in S THEN "proved" ELSE os[g]]
        /\ andStatus' = [d \in Decomposition |->
                           IF d \in {e \in D : Required(e) \subseteq S}
                             THEN "proved" ELSE as[d]]
        /\ \E pick \in [S \ before -> {e \in D : Required(e) \subseteq S}] :
             /\ \A g \in S \ before : pick[g].parent = g
             /\ proof' = [g \in Goal |-> IF g \in S \ before THEN pick[g] ELSE sel[g]]
  BY DEF Propagate, ProvedIn, PresentIn
<1>b. S = after
  OBVIOUS
<1> HIDE DEF before, after, D
<1>1. /\ orStatus' = [g \in Goal |-> IF g \in after THEN "proved" ELSE os[g]]
      /\ andStatus' = [d \in Decomposition |-> IF d \in complete THEN "proved" ELSE as[d]]
  BY <1>a, <1>b
<1>2. PICK pick \in [after \ before -> complete] :
        /\ \A g \in after \ before : pick[g].parent = g
        /\ proof' = [g \in Goal |-> IF g \in after \ before THEN pick[g] ELSE sel[g]]
  BY <1>a, <1>b
<1> USE DEF before, after, D
<1>3. before \subseteq after /\ after \subseteq Goal /\ Settled(after, D)
  BY SaturationLeast DEF ProvedIn, PresentIn
<1>4. Proved' = after
  BY <1>1, <1>3 DEF Proved, ProvedIn
<1>5. Present' = D
  BY <1>1 DEF Present, PresentIn
<1>6. orStatus' \in [Goal -> OrStatus] /\ andStatus' \in [Decomposition -> AndStatus]
  BY <1>1 DEF OrStatus, AndStatus
<1>7. complete \subseteq Decomposition
  BY DEF PresentIn
<1>8. proof' \in [Goal -> Decomposition \cup {Unproved, Direct}]
  BY <1>2, <1>7
<1>9. \A g \in Proved' \ before : 
              /\ proof'[g] \in Present' /\ proof'[g].parent = g
              /\ Required(proof'[g]) \subseteq Proved'
  BY <1>2, <1>3, <1>4, <1>5
<1>10. \A d \in Decomposition :
         andStatus'[d] = IF d \in Present' /\ Required(d) \subseteq Proved'
                           THEN "proved" ELSE as[d]
  BY <1>1, <1>4, <1>5
<1>11. \A g \in Goal : g \in before \/ g \notin Proved' => proof'[g] = sel[g]
  BY <1>2, <1>4
<1>12. Settled(Proved', Present')
  BY <1>3, <1>4, <1>5 DEF Settled
<1> QED
  BY <1>3, <1>4, <1>5, <1>6, <1>8, <1>9, <1>10, <1>11, <1>12 DEF Outcome

-----------------------------------------------------------------------------
(***************************************************************************)
(* The decomposition edges stay acyclic                                    *)
(***************************************************************************)
Acyclic(D) ==
  \A S \in SUBSET Goal : S # {} =>
    \E g \in S : \A d \in D : d.parent = g => Children(d) \cap S = {}

LEMMA AcyclicFounded ==
  ASSUME NEW D
  PROVE  Founded([g \in Goal |-> UNION {Children(d) : d \in {e \in D : e.parent = g}}])
           <=> Acyclic(D)
<1> DEFINE next == [g \in Goal |-> UNION {Children(d) : d \in {e \in D : e.parent = g}}]
<1>1. ASSUME NEW S \in SUBSET Goal, NEW g \in S
      PROVE  next[g] \cap S = {}
               <=> \A d \in D : d.parent = g => Children(d) \cap S = {}
  <2>1. next[g] = UNION {Children(d) : d \in {e \in D : e.parent = g}}
    OBVIOUS
  <2>2. \A x : x \in next[g] <=> \E d \in D : d.parent = g /\ x \in Children(d)
    BY <2>1
  <2> HIDE DEF next
  <2> QED
    BY <2>2
<1>2. DOMAIN next = Goal
  OBVIOUS
<1> HIDE DEF next
<1>3. Founded(next)
        <=> \A S \in SUBSET Goal : S # {} => \E g \in S : next[g] \cap S = {}
  BY <1>2 DEF Founded
<1>4. ASSUME NEW S \in SUBSET Goal
      PROVE  (\E g \in S : next[g] \cap S = {})
               <=> \E g \in S : \A d \in D : d.parent = g => Children(d) \cap S = {}
  BY <1>1
<1>5. Founded(next) <=> Acyclic(D)
  BY <1>3, <1>4 DEF Acyclic
<1> QED
  BY <1>5 DEF next

LEMMA AcyclicSame ==
  /\ NoDecompositionCycle <=> Acyclic(Present)
  /\ NoDecompositionCycle' <=> Acyclic(Present')
BY AcyclicFounded DEF NoDecompositionCycle

\* What the children of a new decomposition reach is closed and avoids its
\* parent, so a cycle would have to be one of the old graph.
LEMMA AcyclicExtends ==
  ASSUME NEW D \in SUBSET Decomposition, NEW d \in Decomposition, Acyclic(D),
         \A c \in Children(d) : ~Reachable(D, c, d.parent)
  PROVE  Acyclic(D \cup {d})
<1> DEFINE R == {y \in Goal : \E c \in Children(d) : Reachable(D, c, y)}
<1>1. Children(d) \subseteq R
  BY DecompositionType DEF Reachable
<1>2. d.parent \notin R
  OBVIOUS
<1>3. ASSUME NEW e \in D, e.parent \in R PROVE Children(e) \subseteq R
  <2>1. PICK c \in Children(d) : Reachable(D, c, e.parent)
    BY <1>3
  <2>2. \A y \in Children(e) : Reachable(D, c, y)
    BY <2>1 DEF Reachable, ClosedDownward
  <2> QED
    BY <2>2, DecompositionType
<1> SUFFICES ASSUME NEW S \in SUBSET Goal, S # {},
                    \A g \in S : \E e \in D \cup {d} :
                      e.parent = g /\ Children(e) \cap S # {}
             PROVE  FALSE
  BY DEF Acyclic
<1>4. CASE S \cap R # {}
  <2>1. PICK g \in S \cap R : \A e \in D : e.parent = g => Children(e) \cap (S \cap R) = {}
    BY <1>4 DEF Acyclic
  <2>2. PICK e \in D \cup {d} : e.parent = g /\ Children(e) \cap S # {}
    OBVIOUS
  <2>3. e \in D
    BY <1>2, <2>2
  <2> QED
    BY <1>3, <2>1, <2>2, <2>3
<1>5. CASE S \cap R = {}
  <2>1. PICK g \in S : \A e \in D : e.parent = g => Children(e) \cap S = {}
    BY DEF Acyclic
  <2>2. Children(d) \cap S = {}
    BY <1>1, <1>5
  <2> QED
    BY <2>1, <2>2
<1> QED
  BY <1>4, <1>5

-----------------------------------------------------------------------------
(***************************************************************************)
(* The invariant is inductive                                              *)
(***************************************************************************)
\* A transaction that ends in Propagate and wrote nothing before that is not
\* supported by proved goals.
Transaction(os, as, sel) ==
  /\ Propagate(os, as, sel) /\ UNCHANGED leases
  /\ deps' \in [Goal -> SUBSET Goal]
  /\ Proved \subseteq ProvedIn(os) /\ Present \subseteq PresentIn(as)
  /\ Acyclic(PresentIn(as))
  /\ \A d \in PresentIn(as) : d.cites \subseteq Proved
  /\ \A d \in Decomposition : as[d] = "proved" <=> andStatus[d] = "proved"
  /\ \A g \in ProvedIn(os) :
       \/ sel[g] = Direct /\ deps'[g] \subseteq Proved
       \/ g \in Proved /\ sel[g] = proof[g] /\ deps'[g] = deps[g]

SomeTransaction ==
  \E os \in [Goal -> OrStatus], as \in [Decomposition -> AndStatus],
     sel \in [Goal -> Decomposition \cup {Unproved, Direct}] : Transaction(os, as, sel)

\* It keeps the invariant.
LEMMA TransactionInv ==
  ASSUME GraphInv, NEW os \in [Goal -> OrStatus], NEW as \in [Decomposition -> AndStatus],
         NEW sel \in [Goal -> Decomposition \cup {Unproved, Direct}],
         Transaction(os, as, sel)
  PROVE  GraphInv'
<1> USE DEF Transaction, Outcome
<1>1. Outcome(os, as, sel)
  BY PropagateOutcome
<1>2. Proved \subseteq Proved' /\ Present \subseteq Present'
  BY <1>1
<1>3. GraphTypeOK'
  BY <1>1 DEF GraphInv, GraphTypeOK, leases
<1>4. NoDecompositionCycle'
  BY <1>1, AcyclicSame
<1>5. ASSUME NEW g \in Proved'
      PROVE  /\ proof'[g] = Direct \/ (proof'[g] \in Present' /\ proof'[g].parent = g)
             /\ Dependencies(g)' \subseteq Proved'
  <2>1. CASE g \notin ProvedIn(os)
    <3>1. proof'[g] \in Present' /\ proof'[g].parent = g /\ Required(proof'[g]) \subseteq Proved'
      BY <1>1, <2>1
    <3>2. proof'[g] # Direct /\ proof'[g].cites \subseteq Proved
      BY <1>1, <3>1, SentinelAssumption DEF PresentIn
    <3> QED
      BY <1>2, <3>1, <3>2 DEF Dependencies
  <2>2. CASE g \in ProvedIn(os) /\ sel[g] = Direct /\ deps'[g] \subseteq Proved
    BY <1>1, <1>2, <2>2 DEF Dependencies, ProvedIn
  <2>3. CASE g \in ProvedIn(os) /\ g \in Proved /\ sel[g] = proof[g] /\ deps'[g] = deps[g]
    <3>1. proof'[g] = proof[g]
      BY <1>1, <2>3 DEF Proved
    <3>2. Dependencies(g)' = Dependencies(g)
      BY <2>3, <3>1 DEF Dependencies
    <3>3. /\ proof[g] = Direct \/ (proof[g] \in Present /\ proof[g].parent = g)
          /\ Dependencies(g) \subseteq Proved
      BY <2>3 DEF GraphInv, ProofsSupported
    <3> QED
      BY <1>2, <3>1, <3>2, <3>3
  <2> QED
    BY <2>1, <2>2, <2>3
<1>6. ProofsSupported'
  BY <1>5 DEF ProofsSupported
<1>7. ASSUME NEW d \in Present'
      PROVE  /\ andStatus'[d] = "proved" <=> Required(d) \subseteq Proved'
             /\ andStatus'[d] = "proved" => d.parent \in Proved'
  <2>1. d \in Decomposition
    BY <1>7 DEF Present
  <2>2. as[d] = "proved" => Required(d) \subseteq Proved'
    BY <1>2, <2>1 DEF GraphInv, PropagationComplete, Present
  <2>3. andStatus'[d] = "proved" <=> Required(d) \subseteq Proved'
    BY <1>1, <1>7, <2>1, <2>2
  <2> QED
    BY <1>1, <1>7, <2>3 DEF Settled
<1>8. PropagationComplete'
  BY <1>7 DEF PropagationComplete
<1>9. CitesProved'
  BY <1>1, <1>2 DEF CitesProved
<1> QED
  BY <1>3, <1>4, <1>6, <1>8, <1>9 DEF GraphInv

\* A step that proves nothing, decomposes nothing and keeps every proof.
LEMMA QuietInv ==
  ASSUME GraphInv, GraphTypeOK', Proved' = Proved, Present' = Present,
         UNCHANGED <<proof, deps>>,
         \A d \in Present : andStatus'[d] = "proved" <=> andStatus[d] = "proved"
  PROVE  GraphInv'
<1>1. NoDecompositionCycle'
  BY AcyclicSame DEF GraphInv
<1>2. ProofsSupported'
  BY DEF GraphInv, ProofsSupported, Dependencies
<1>3. PropagationComplete'
  BY DEF GraphInv, PropagationComplete
<1>4. CitesProved'
  BY DEF GraphInv, CitesProved
<1> QED
  BY <1>1, <1>2, <1>3, <1>4 DEF GraphInv

LEMMA GraphInvInit == GraphInit => GraphInv
<1> SUFFICES ASSUME GraphInit PROVE GraphInv
  OBVIOUS
<1>1. Proved = {} /\ Present = {}
  BY DEF GraphInit, Proved, Present
<1>2. GraphTypeOK
  BY DEF GraphInit, GraphTypeOK, OrStatus, AndStatus
<1>3. NoDecompositionCycle
  BY <1>1, AcyclicSame DEF Acyclic
<1> QED
  BY <1>1, <1>2, <1>3 DEF GraphInv, ProofsSupported, PropagationComplete, CitesProved

\* Leases touch a goal's status only to turn it from open to solving or back.
LEMMA LeaseStepQuiet ==
  ASSUME GraphTypeOK, LeaseStep
  PROVE  /\ GraphTypeOK'
         /\ Proved' = Proved /\ Present' = Present
         /\ UNCHANGED <<andStatus, proof, deps>>
<1>a. LiveLease \in [Goal -> Worker \cup {Nobody}]
  BY DEF LiveLease, GraphTypeOK
<1>1. ASSUME NEW w \in Worker, NEW g \in Goal, AcquireLease(w, g)
      PROVE  /\ GraphTypeOK' /\ Proved' = Proved
             /\ UNCHANGED <<andStatus, proof, deps>>
  BY <1>a, <1>1 DEF AcquireLease, GraphTypeOK, OrStatus, Proved
<1>2. ASSUME NEW w \in Worker, NEW g \in Goal, RefuseLease(w, g)
      PROVE  /\ GraphTypeOK' /\ Proved' = Proved
             /\ UNCHANGED <<andStatus, proof, deps>>
  BY <1>a, <1>2 DEF RefuseLease, GraphTypeOK, nodes, Proved
<1>3. ASSUME NEW w \in Worker, NEW g \in Goal, ReleaseLease(w, g)
      PROVE  /\ GraphTypeOK' /\ Proved' = Proved
             /\ UNCHANGED <<andStatus, proof, deps>>
  BY <1>3 DEF ReleaseLease, GraphTypeOK, OrStatus, Proved, leases
<1>4. ASSUME NEW g \in Goal, Expire(g)
      PROVE  /\ GraphTypeOK' /\ Proved' = Proved
             /\ UNCHANGED <<andStatus, proof, deps>>
  BY <1>4 DEF Expire, GraphTypeOK, nodes, Proved
<1> QED
  BY <1>1, <1>2, <1>3, <1>4 DEF LeaseStep, Present

LEMMA LeaseStepInv == GraphInv /\ LeaseStep => GraphInv'
BY LeaseStepQuiet, QuietInv DEF GraphInv

LEMMA CommitDirectTransaction ==
  ASSUME GraphInv, NEW g \in Goal, NEW ds \in SUBSET Goal, CommitDirect(g, ds)
  PROVE  SomeTransaction
<1> DEFINE os == [orStatus EXCEPT ![g] = "proved"]
           sel == [proof EXCEPT ![g] = Direct]
<1>1. /\ os \in [Goal -> OrStatus]
      /\ sel \in [Goal -> Decomposition \cup {Unproved, Direct}]
      /\ andStatus \in [Decomposition -> AndStatus]
      /\ deps' \in [Goal -> SUBSET Goal]
  BY DEF CommitDirect, GraphInv, GraphTypeOK, OrStatus
<1>2. ProvedIn(os) = Proved \cup {g} /\ PresentIn(andStatus) = Present
  BY DEF ProvedIn, PresentIn, Proved, Present, GraphInv, GraphTypeOK
<1>3. Acyclic(Present) /\ \A d \in Present : d.cites \subseteq Proved
  BY AcyclicSame DEF GraphInv, CitesProved
<1>4. \A h \in ProvedIn(os) :
        \/ sel[h] = Direct /\ deps'[h] \subseteq Proved
        \/ h \in Proved /\ sel[h] = proof[h] /\ deps'[h] = deps[h]
  <2>1. deps' = [deps EXCEPT ![g] = ds] /\ ds \subseteq Proved
    BY DEF CommitDirect
  <2>2. sel[g] = Direct /\ deps'[g] = ds
    BY <2>1 DEF GraphInv, GraphTypeOK
  <2>3. \A h \in Goal \ {g} : sel[h] = proof[h] /\ deps'[h] = deps[h]
    BY <2>1 DEF GraphInv, GraphTypeOK
  <2> QED
    BY <1>2, <2>1, <2>2, <2>3 DEF Proved
<1>5. Propagate(os, andStatus, sel) /\ UNCHANGED leases
  BY DEF CommitDirect
<1> HIDE DEF os, sel
<1> QED
  BY <1>1, <1>2, <1>3, <1>4, <1>5 DEF Transaction, SomeTransaction

LEMMA CommitDecompositionTransaction ==
  ASSUME GraphInv, NEW d \in Decomposition, CommitDecomposition(d)
  PROVE  SomeTransaction
<1> DEFINE opened == {c \in Children(d) : orStatus[c] = "absent"} \cup ({d.parent} \ Proved)
           os == [g \in Goal |-> IF g \in opened THEN "open" ELSE orStatus[g]]
           as == [andStatus EXCEPT ![d] = IF @ = "absent" THEN "open" ELSE @]
<1>1. /\ os \in [Goal -> OrStatus]
      /\ as \in [Decomposition -> AndStatus]
      /\ proof \in [Goal -> Decomposition \cup {Unproved, Direct}]
      /\ deps' \in [Goal -> SUBSET Goal]
  BY DEF CommitDecomposition, GraphInv, GraphTypeOK, OrStatus, AndStatus
<1>2. ProvedIn(os) = Proved
  BY DEF ProvedIn, Proved
<1>3. PresentIn(as) = Present \cup {d}
  BY DEF PresentIn, Present, GraphInv, GraphTypeOK
<1>4. Acyclic(PresentIn(as))
  <2>1. \A c \in Children(d) : ~Reachable(Present, c, d.parent)
    BY DEF CommitDecomposition, Acceptable
  <2>2. Acyclic(Present) /\ Present \subseteq Decomposition
    BY AcyclicSame DEF GraphInv, Present
  <2> QED
    BY <1>3, <2>1, <2>2, AcyclicExtends
<1>5. \A e \in PresentIn(as) : e.cites \subseteq Proved
  BY <1>3 DEF CommitDecomposition, Acceptable, GraphInv, CitesProved
<1>6. \A e \in Decomposition : as[e] = "proved" <=> andStatus[e] = "proved"
  BY DEF GraphInv, GraphTypeOK
<1>7. Propagate(os, as, proof) /\ UNCHANGED leases /\ deps' = deps
  BY DEF CommitDecomposition
<1> HIDE DEF os, as
<1> QED
  BY <1>1, <1>2, <1>3, <1>4, <1>5, <1>6, <1>7 DEF Transaction, SomeTransaction

LEMMA PropagateAllTransaction == GraphInv /\ PropagateAll => SomeTransaction
<1> SUFFICES ASSUME GraphInv, PropagateAll PROVE SomeTransaction
  OBVIOUS
<1>1. ProvedIn(orStatus) = Proved /\ PresentIn(andStatus) = Present
  BY DEF ProvedIn, PresentIn, Proved, Present
<1>2. Acyclic(Present) /\ \A d \in Present : d.cites \subseteq Proved
  BY AcyclicSame DEF GraphInv, CitesProved
<1>3. GraphTypeOK /\ Propagate(orStatus, andStatus, proof) /\ UNCHANGED leases /\ deps' = deps
  BY DEF GraphInv, PropagateAll
<1> QED
  BY <1>1, <1>2, <1>3 DEF GraphTypeOK, Transaction, SomeTransaction

LEMMA QuietNodeStep ==
  ASSUME GraphTypeOK,
         \/ \E g \in Goal : RegisterGoal(g)
         \/ \E d \in Decomposition : PauseAnd(d) \/ ActivateAnd(d)
  PROVE  /\ GraphTypeOK'
         /\ Proved' = Proved /\ Present' = Present
         /\ UNCHANGED <<proof, deps, leases>>
         /\ \A e \in Decomposition : andStatus'[e] = "proved" <=> andStatus[e] = "proved"
<1>1. ASSUME NEW g \in Goal, RegisterGoal(g)
      PROVE  GraphTypeOK' /\ Proved' = Proved /\ Present' = Present
  BY <1>1 DEF RegisterGoal, GraphTypeOK, OrStatus, Proved, Present, leases
<1>2. ASSUME NEW d \in Decomposition, PauseAnd(d)
      PROVE  /\ GraphTypeOK' /\ Proved' = Proved /\ Present' = Present
             /\ \A e \in Decomposition : andStatus'[e] = "proved" <=> andStatus[e] = "proved"
  BY <1>2 DEF PauseAnd, GraphTypeOK, AndStatus, Proved, Present, leases
<1>3. ASSUME NEW d \in Decomposition, ActivateAnd(d)
      PROVE  /\ GraphTypeOK' /\ Proved' = Proved /\ Present' = Present
             /\ \A e \in Decomposition : andStatus'[e] = "proved" <=> andStatus[e] = "proved"
  BY <1>3 DEF ActivateAnd, GraphTypeOK, AndStatus, Proved, Present, leases
<1> QED
  BY <1>1, <1>2, <1>3 DEF RegisterGoal, PauseAnd, ActivateAnd

LEMMA NodeStepCases ==
  GraphInv /\ NodeStep =>
    \/ \E g \in Goal : RegisterGoal(g)
    \/ \E d \in Decomposition : PauseAnd(d) \/ ActivateAnd(d)
    \/ SomeTransaction
BY CommitDirectTransaction, CommitDecompositionTransaction, PropagateAllTransaction
   DEF NodeStep

LEMMA NodeStepInv == GraphInv /\ NodeStep => GraphInv'
<1> SUFFICES ASSUME GraphInv, NodeStep PROVE GraphInv'
  OBVIOUS
<1>1. CASE \/ \E g \in Goal : RegisterGoal(g)
           \/ \E d \in Decomposition : PauseAnd(d) \/ ActivateAnd(d)
  BY <1>1, QuietNodeStep, QuietInv DEF GraphInv, Present
<1>2. CASE SomeTransaction
  BY <1>2, TransactionInv DEF SomeTransaction
<1> QED
  BY <1>1, <1>2, NodeStepCases

LEMMA GraphInvStep == GraphInv /\ [GraphNext]_graph => GraphInv'
<1> SUFFICES ASSUME GraphInv, [GraphNext]_graph PROVE GraphInv'
  OBVIOUS
<1>1. CASE UNCHANGED graph
  <2>1. GraphTypeOK' /\ Proved' = Proved /\ Present' = Present
    BY <1>1 DEF graph, nodes, leases, GraphInv, GraphTypeOK, Proved, Present
  <2> QED
    BY <1>1, <2>1, QuietInv DEF graph, nodes
<1> QED
  BY <1>1, LeaseStepInv, NodeStepInv DEF GraphNext

THEOREM GraphInvariant == GraphSpec => []GraphInv
BY GraphInvInit, GraphInvStep, PTL DEF GraphSpec

\* The graph's variables keep their types.
THEOREM GraphTyping == GraphSpec => []GraphTypeOK
BY GraphInvariant, PTL DEF GraphInv

\* No sequence of transactions, by however many workers, makes the decomposition
\* edges cyclic.
THEOREM DecompositionsAcyclic == GraphSpec => []NoDecompositionCycle
BY GraphInvariant, PTL DEF GraphInv

\* A proved goal refers to proved goals only.
THEOREM ProvedAreSupported == GraphSpec => []ProofsSupported
BY GraphInvariant, PTL DEF GraphInv

\* No transaction leaves a complete decomposition without its consequences.
THEOREM NothingLeftToPropagate == GraphSpec => []PropagationComplete
BY GraphInvariant, PTL DEF GraphInv

-----------------------------------------------------------------------------
(***************************************************************************)
(* What a step may not do                                                  *)
(***************************************************************************)
\* What g's new proof refers to was proved before the transaction, or g is the
\* parent of a complete decomposition the transaction selected.
NewlyProved(g) ==
  \/ proof'[g] = Direct /\ deps'[g] \subseteq Proved
  \/ /\ proof'[g] \in Present' /\ proof'[g].parent = g
     /\ proof'[g].cites \subseteq Proved

\* The proved nodes, the decompositions and the proved decompositions grow.
Grows ==
  /\ Proved \subseteq Proved'
  /\ Present \subseteq Present'
  /\ \A d \in Present : andStatus[d] = "proved" => andStatus'[d] = "proved"

LEMMA TransactionGrows ==
  ASSUME GraphInv, NEW os \in [Goal -> OrStatus], NEW as \in [Decomposition -> AndStatus],
         NEW sel \in [Goal -> Decomposition \cup {Unproved, Direct}],
         Transaction(os, as, sel)
  PROVE  Grows /\ \A g \in Proved' \ Proved : NewlyProved(g)
<1>1. Outcome(os, as, sel)
  BY PropagateOutcome DEF Transaction
<1>2. Grows
  BY <1>1 DEF Outcome, Grows, Transaction, Present
<1>3. ASSUME NEW g \in Proved' \ Proved PROVE NewlyProved(g)
  <2>1. CASE g \in ProvedIn(os)
    BY <1>1, <1>3, <2>1 DEF Outcome, Transaction, NewlyProved, ProvedIn
  <2>2. CASE g \notin ProvedIn(os)
    <3>1. proof'[g] \in PresentIn(as) /\ proof'[g].parent = g
      BY <1>1, <1>3, <2>2 DEF Outcome
    <3> QED
      BY <1>1, <3>1 DEF Outcome, Transaction, NewlyProved
  <2> QED
    BY <2>1, <2>2
<1> QED
  BY <1>2, <1>3

LEMMA StepGrows ==
  ASSUME GraphInv, [GraphNext]_graph
  PROVE  Grows /\ \A g \in Proved' \ Proved : NewlyProved(g)
<1>1. CASE UNCHANGED graph
  BY <1>1 DEF graph, nodes, Grows, Proved, Present
<1>2. CASE LeaseStep
  BY <1>2, LeaseStepQuiet DEF Grows, GraphInv
<1>3. CASE \/ \E g \in Goal : RegisterGoal(g)
           \/ \E d \in Decomposition : PauseAnd(d) \/ ActivateAnd(d)
  BY <1>3, QuietNodeStep DEF Grows, GraphInv, Present
<1>4. CASE SomeTransaction
  BY <1>4, TransactionGrows DEF SomeTransaction
<1> QED
  BY <1>1, <1>2, <1>3, <1>4, NodeStepCases DEF GraphNext

\* Proved goals and decompositions stay proved and nothing is deleted.
THEOREM ProofsAreKept == GraphSpec => ProvedForever
<1>1. GraphInv /\ [GraphNext]_graph =>
        [/\ Proved \subseteq Proved'
         /\ Present \subseteq Present'
         /\ \A d \in Present : andStatus[d] = "proved" => andStatus'[d] = "proved"]_graph
  BY StepGrows DEF Grows
<1> QED
  BY <1>1, GraphInvariant, PTL DEF GraphSpec, ProvedForever

\* A worker gets a lease only when it is free, its own, or past its time.
THEOREM LeasesAreNotStolen == GraphSpec => NoLeaseStolen
<1>1. ASSUME GraphTypeOK, LeaseStep, NEW g \in Goal \ expired, lease[g] # Nobody
      PROVE  lease'[g] \in {lease[g], Nobody}
  <2>1. ASSUME NEW w \in Worker, NEW h \in Goal, AcquireLease(w, h)
        PROVE  lease'[g] \in {lease[g], Nobody}
    BY <1>1, <2>1 DEF AcquireLease, LiveLease
  <2>2. ASSUME NEW w \in Worker, NEW h \in Goal, RefuseLease(w, h)
        PROVE  lease'[g] \in {lease[g], Nobody}
    BY <1>1, <2>2 DEF RefuseLease, LiveLease
  <2>3. ASSUME NEW w \in Worker, NEW h \in Goal, ReleaseLease(w, h)
        PROVE  lease'[g] \in {lease[g], Nobody}
    BY <1>1, <2>3 DEF ReleaseLease, GraphTypeOK, leases
  <2>4. ASSUME NEW h \in Goal, Expire(h)
        PROVE  lease'[g] \in {lease[g], Nobody}
    BY <2>4 DEF Expire
  <2> QED
    BY <1>1, <2>1, <2>2, <2>3, <2>4 DEF LeaseStep
<1>2. NodeStep => lease' = lease
  BY DEF NodeStep, RegisterGoal, CommitDirect, CommitDecomposition, PauseAnd, ActivateAnd,
         PropagateAll, leases
<1>3. GraphTypeOK /\ [GraphNext]_graph =>
        [\A g \in Goal \ expired :
           lease[g] # Nobody => lease'[g] \in {lease[g], Nobody}]_graph
  BY <1>1, <1>2 DEF GraphNext
<1> QED
  BY <1>3, GraphTyping, PTL DEF GraphSpec, NoLeaseStolen

\* Foundedness in terms of sets of proved goals.
LEMMA SelectedFoundedMeans ==
  SelectedFounded <=>
    \A S \in SUBSET Proved : S # {} => \E g \in S : Dependencies(g) \cap S = {}
BY DEF SelectedFounded, Founded

LEMMA SelectedFoundedMeansNext ==
  SelectedFounded' <=>
    \A S \in SUBSET (Proved') : S # {} => \E g \in S : Dependencies(g)' \cap S = {}
BY DEF SelectedFounded, Founded

\* Among new proofs only, a cycle would be a cycle of decompositions.
LEMMA NewProofsFounded ==
  ASSUME GraphInv', NEW S \in SUBSET (Proved'), S # {}, S \cap Proved = {},
         \A g \in S : NewlyProved(g)
  PROVE  \E g \in S : Dependencies(g)' \cap S = {}
<1>1. PICK g \in S : \A d \in Present' : d.parent = g => Children(d) \cap S = {}
  <2>1. Acyclic(Present')
    BY AcyclicSame DEF GraphInv
  <2>2. S \subseteq Goal
    BY DEF Proved
  <2> QED
    BY <2>1, <2>2 DEF Acyclic
<1>2. NewlyProved(g)
  OBVIOUS
<1>3. CASE proof'[g] = Direct /\ deps'[g] \subseteq Proved
  BY <1>3 DEF Dependencies
<1>4. CASE /\ proof'[g] \in Present' /\ proof'[g].parent = g
           /\ proof'[g].cites \subseteq Proved
  <2>1. proof'[g] \in Decomposition
    BY <1>4 DEF Present
  <2>2. Children(proof'[g]) \cap S = {} /\ Required(proof'[g]) \subseteq Children(proof'[g])
    BY <1>1, <1>4, <2>1, DecompositionType
  <2>3. proof'[g] # Direct
    BY <2>1, SentinelAssumption
  <2> QED
    BY <1>4, <2>2, <2>3 DEF Dependencies
<1> QED
  BY <1>2, <1>3, <1>4 DEF NewlyProved

\* A direct proof of x may replace the one x had, if what it refers to lies in a
\* set of proved goals that refer to each other only and x is not among them: a
\* cycle through that set would be an old one, and there is none through x.
LEMMA FoundedReplaced ==
  ASSUME GraphInv, GraphInv', \A g \in Proved' \ Proved : NewlyProved(g), SelectedFounded,
         NEW x, NEW C \in SUBSET Proved, x \notin C, \A h \in C : Dependencies(h) \subseteq C,
         proof'[x] = Direct, deps'[x] \subseteq C,
         \A g \in Proved \ {x} : proof'[g] = proof[g] /\ deps'[g] = deps[g]
  PROVE  SelectedFounded'
<1> SUFFICES ASSUME NEW S \in SUBSET (Proved'), S # {}
             PROVE  \E g \in S : Dependencies(g)' \cap S = {}
  BY SelectedFoundedMeansNext
<1>1. \A g \in Proved \ {x} : Dependencies(g)' = Dependencies(g)
  BY DEF Dependencies
<1>2. CASE S \cap C # {}
  <2>1. PICK g \in S \cap C : Dependencies(g) \cap (S \cap C) = {}
    BY <1>2, SelectedFoundedMeans
  <2>2. Dependencies(g)' = Dependencies(g) /\ Dependencies(g) \subseteq C
    BY <1>1
  <2> QED
    BY <2>1, <2>2
<1>3. CASE S \cap C = {} /\ x \in S
  BY <1>3 DEF Dependencies
<1>4. CASE x \notin S /\ S \cap Proved # {}
  <2>1. PICK g \in S \cap Proved : Dependencies(g) \cap (S \cap Proved) = {}
    BY <1>4, SelectedFoundedMeans
  <2>2. Dependencies(g)' = Dependencies(g)
    BY <1>1, <1>4
  <2>3. Dependencies(g) \subseteq Proved
    BY DEF GraphInv, ProofsSupported
  <2> QED
    BY <2>1, <2>2, <2>3
<1>5. CASE S \cap Proved = {}
  BY <1>5, NewProofsFounded
<1> QED
  BY <1>2, <1>3, <1>4, <1>5

\* A cycle through an old goal would be an old cycle, since old proofs refer to
\* old goals.
LEMMA FoundedStep ==
  ASSUME GraphInv, GraphInv', \A g \in Proved' \ Proved : NewlyProved(g),
         SelectedFounded, \A g \in Proved : proof'[g] = proof[g] /\ deps'[g] = deps[g]
  PROVE  SelectedFounded'
<1> SUFFICES ASSUME NEW S \in SUBSET (Proved'), S # {}
             PROVE  \E g \in S : Dependencies(g)' \cap S = {}
  BY SelectedFoundedMeansNext
<1>1. CASE S \cap Proved # {}
  <2>1. PICK g \in S \cap Proved : Dependencies(g) \cap (S \cap Proved) = {}
    BY <1>1, SelectedFoundedMeans
  <2>2. Dependencies(g)' = Dependencies(g)
    BY DEF Dependencies
  <2>3. Dependencies(g) \subseteq Proved
    BY DEF GraphInv, ProofsSupported
  <2> QED
    BY <2>1, <2>2, <2>3
<1>2. CASE S \cap Proved = {}
  BY <1>2, NewProofsFounded
<1> QED
  BY <1>1, <1>2

\* The final module can be ordered as long as no proof of a proved goal has been
\* replaced: only commit_direct_proof on such a goal can make references cyclic.
THEOREM OnlyReplacementCanUnfound == GraphSpec => FoundedUnlessReplaced
<1>1. GraphInv /\ [GraphNext]_graph =>
        [SelectedFounded /\ (\A g \in Proved : proof'[g] = proof[g] /\ deps'[g] = deps[g])
           => SelectedFounded']_graph
  BY GraphInvStep, StepGrows, FoundedStep
<1> QED
  BY <1>1, GraphInvariant, PTL DEF GraphSpec, FoundedUnlessReplaced
=============================================================================
