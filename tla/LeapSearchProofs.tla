-------------------------- MODULE LeapSearchProofs --------------------------
(***************************************************************************)
(* Proofs about LeapSearch: every search uses the graph by its             *)
(* transactions only and never recurses into a goal on its stack, for any  *)
(* number of workers, goals and decompositions.                            *)
(***************************************************************************)
EXTENDS LeapSearch, ProofGraphProofs, SequenceTheorems

\* In a graph with the decompositions P, the branch a frame has in hand is one of
\* its goal's own: proposed at count and expand, in the graph from activate on.
BranchIn(P, f) ==
  /\ f.at \in {"count", "expand"} => f.and \in Decomposition /\ f.and.parent = f.goal
  /\ f.at \in {"activate", "child"} => f.and \in P /\ f.and.parent = f.goal
  /\ f.at = "child" => \A k \in DOMAIN f.kids : f.kids[k] \in Required(f.and)
  /\ \A d \in f.todo \cup f.later : d \in P /\ d.parent = f.goal

\* Outer frames wait for a required child of the branch they have in hand, and no
\* two frames beyond the recursion guard are on the same goal.
StackIn(P, s) ==
  /\ \A i \in 1..Len(s) : BranchIn(P, s[i])
  /\ \A i \in 1..(Len(s) - 1) :
       s[i].at = "child" /\ s[i + 1].goal \in Required(s[i].and)
  /\ \A i, j \in 1..Len(s) :
       i # j /\ s[i].at # "enter" /\ s[j].at # "enter" => s[i].goal # s[j].goal

StackInv ==
  /\ LeapTypeOK
  /\ \A w \in Worker : StackIn(Present, stack[w])

-----------------------------------------------------------------------------
(***************************************************************************)
(* Stacks                                                                  *)
(***************************************************************************)
LEMMA StackGrowsWith ==
  ASSUME NEW P, NEW Q, P \subseteq Q, NEW s, StackIn(P, s)
  PROVE  StackIn(Q, s)
BY DEF StackIn, BranchIn

\* The top frame is replaced by one for the same goal.
LEMMA ReplaceTop ==
  ASSUME NEW P, NEW s \in Seq(FrameType), Len(s) > 0, StackIn(P, s),
         NEW f \in FrameType, BranchIn(P, f), f.goal = s[Len(s)].goal,
         \/ s[Len(s)].at # "enter"
         \/ \A i \in 1..(Len(s) - 1) : s[i].goal # f.goal
  PROVE  /\ [s EXCEPT ![Len(s)] = f] \in Seq(FrameType) \ {<< >>}
         /\ StackIn(P, [s EXCEPT ![Len(s)] = f])
<1> DEFINE t == [s EXCEPT ![Len(s)] = f]
<1>1. t \in Seq(FrameType) /\ Len(t) = Len(s)
  OBVIOUS
<1>2. t[Len(s)] = f /\ \A i \in 1..Len(s) : i # Len(s) => t[i] = s[i]
  OBVIOUS
<1> HIDE DEF t
<1>3. \A i \in 1..Len(t) : BranchIn(P, t[i])
  BY <1>1, <1>2 DEF StackIn
<1>4. \A i \in 1..(Len(t) - 1) : t[i].at = "child" /\ t[i + 1].goal \in Required(t[i].and)
  BY <1>1, <1>2 DEF StackIn
<1>5. ASSUME NEW i \in 1..Len(t), NEW j \in 1..Len(t),
             i # j, t[i].at # "enter", t[j].at # "enter"
      PROVE  t[i].goal # t[j].goal
  BY <1>1, <1>2, <1>5 DEF StackIn
<1>6. t # << >>
  BY <1>1
<1> QED
  BY <1>1, <1>3, <1>4, <1>5, <1>6 DEF StackIn, t

\* The frame below the top after the top frame has ended.
Popped(s, stage) ==
  [i \in 1..(Len(s) - 1) |->
     IF i = Len(s) - 1 THEN [s[i] EXCEPT !.at = stage] ELSE s[i]]

LEMMA PopTop ==
  ASSUME NEW P, NEW s \in Seq(FrameType), Len(s) > 0, StackIn(P, s),
         NEW stage \in {"child", "pause", "raise"}
  PROVE  /\ Popped(s, stage) \in Seq(FrameType) /\ StackIn(P, Popped(s, stage))
         /\ Len(Popped(s, stage)) = Len(s) - 1
<1> DEFINE t == Popped(s, stage)
<1>1. \A i \in 1..Len(s) : s[i] \in FrameType
  OBVIOUS
<1>2. ASSUME NEW f \in FrameType
      PROVE  /\ [f EXCEPT !.at = stage] \in FrameType
             /\ [f EXCEPT !.at = stage].goal = f.goal
             /\ [f EXCEPT !.at = stage].at = stage
             /\ f.at = "child" /\ BranchIn(P, f) => BranchIn(P, [f EXCEPT !.at = stage])
  BY DEF FrameType, Leased, BranchIn
<1>3. \A i \in 1..(Len(s) - 1) : t[i] \in FrameType
  BY <1>1, <1>2 DEF Popped
<1>4. t \in Seq(FrameType) /\ Len(t) = Len(s) - 1
  BY <1>3 DEF Popped
<1>5. \A i \in 1..Len(t) :
        /\ t[i].goal = s[i].goal /\ s[i].at = "child" /\ BranchIn(P, t[i])
        /\ i < Len(t) => t[i] = s[i]
  BY <1>1, <1>2, <1>4 DEF Popped, StackIn
<1> HIDE DEF t
<1>6. ASSUME NEW i \in 1..(Len(t) - 1)
      PROVE  t[i].at = "child" /\ t[i + 1].goal \in Required(t[i].and)
  <2>1. i \in 1..(Len(s) - 1) /\ i \in 1..Len(t) /\ i + 1 \in 1..Len(t) /\ i < Len(t)
    BY <1>4
  <2>2. t[i] = s[i] /\ t[i + 1].goal = s[i + 1].goal
    BY <1>5, <2>1
  <2> QED
    BY <2>1, <2>2 DEF StackIn
<1>7. ASSUME NEW i \in 1..Len(t), NEW j \in 1..Len(t), i # j
      PROVE  t[i].goal # t[j].goal
  <2>1. i \in 1..Len(s) /\ j \in 1..Len(s) /\ s[i].at # "enter" /\ s[j].at # "enter"
    BY <1>4, <1>5
  <2> QED
    BY <1>5, <1>7, <2>1 DEF StackIn
<1> QED
  BY <1>4, <1>5, <1>6, <1>7 DEF StackIn, t

\* The next child of the branch in hand is called.
Pushed(s) ==
  Append([s EXCEPT ![Len(s)].kids = Tail(s[Len(s)].kids)], Call(Head(s[Len(s)].kids)))

LEMMA CallType ==
  ASSUME NEW g \in Goal
  PROVE  /\ Call(g) \in FrameType /\ Call(g).goal = g /\ Call(g).at = "enter"
         /\ \A P : BranchIn(P, Call(g))
BY WorkerAssumption DEF Call, FrameType, Unleased, BranchIn

LEMMA PushTop ==
  ASSUME NEW P, NEW s \in Seq(FrameType), Len(s) > 0, StackIn(P, s),
         s[Len(s)].at = "child", s[Len(s)].kids # << >>
  PROVE  Pushed(s) \in Seq(FrameType) \ {<< >>} /\ StackIn(P, Pushed(s))
<1> DEFINE f == s[Len(s)]
           h == [f EXCEPT !.kids = Tail(f.kids)]
           t == [s EXCEPT ![Len(s)] = h]
           c == Call(Head(f.kids))
<1>1. f \in FrameType /\ BranchIn(P, f)
  BY DEF StackIn
<1>2. f.kids \in Seq(Goal) /\ f.kids # << >>
  BY <1>1 DEF FrameType
<1>3. Head(f.kids) \in Goal /\ Tail(f.kids) \in Seq(Goal)
  BY <1>2
<1>4. Head(f.kids) \in Required(f.and)
  BY <1>1, <1>2 DEF BranchIn
<1>5. h \in FrameType /\ h.goal = f.goal /\ h.at = "child" /\ h.and = f.and
  BY <1>1, <1>3 DEF FrameType
<1>6. \A k \in DOMAIN Tail(f.kids) : Tail(f.kids)[k] \in Required(f.and)
  BY <1>1, <1>2 DEF BranchIn
<1>7. BranchIn(P, h)
  BY <1>1, <1>5, <1>6 DEF BranchIn, FrameType
<1>8. t \in Seq(FrameType) /\ t # << >> /\ StackIn(P, t)
  <2>1. s[Len(s)].at # "enter" /\ h \in FrameType /\ h.goal = s[Len(s)].goal
    BY <1>5
  <2> HIDE DEF h
  <2> QED
    BY <1>7, <2>1, ReplaceTop
<1>9. c \in FrameType /\ c.goal = Head(f.kids) /\ c.at = "enter" /\ BranchIn(P, c)
  BY <1>3, CallType
<1>10. Len(t) = Len(s) /\ t[Len(s)] = h
  OBVIOUS
<1>11. Pushed(s) = Append(t, c)
  BY DEF Pushed
<1> HIDE DEF t, c, h, f
<1> DEFINE u == Append(t, c)
<1>12. u \in Seq(FrameType) /\ Len(u) = Len(t) + 1 /\ u[Len(t) + 1] = c
       /\ \A i \in 1..Len(t) : u[i] = t[i]
  BY <1>8, <1>9
<1>13. u # << >>
  BY <1>12, <1>8
<1> HIDE DEF u
<1>14. ASSUME NEW i \in 1..Len(u) PROVE BranchIn(P, u[i])
  <2>1. i \in 1..Len(t) \/ i = Len(t) + 1
    BY <1>8, <1>12
  <2>2. \A k \in 1..Len(t) : BranchIn(P, t[k])
    BY <1>8 DEF StackIn
  <2> QED
    BY <1>9, <1>12, <2>1, <2>2
<1>15. ASSUME NEW i \in 1..(Len(u) - 1)
       PROVE  u[i].at = "child" /\ u[i + 1].goal \in Required(u[i].and)
  <2>1. CASE i = Len(t)
    BY <1>4, <1>5, <1>9, <1>10, <1>12, <2>1
  <2>2. CASE i # Len(t)
    <3>1. i \in 1..(Len(t) - 1) /\ i \in 1..Len(t) /\ i + 1 \in 1..Len(t)
      BY <1>8, <1>12, <2>2
    <3> QED
      BY <1>8, <1>12, <3>1 DEF StackIn
  <2> QED
    BY <2>1, <2>2
<1>16. ASSUME NEW i \in 1..Len(u), NEW j \in 1..Len(u),
              i # j, u[i].at # "enter", u[j].at # "enter"
       PROVE  u[i].goal # u[j].goal
  <2>1. i \in 1..Len(t) /\ j \in 1..Len(t)
    BY <1>8, <1>9, <1>12, <1>16
  <2> QED
    BY <1>8, <1>12, <1>16, <2>1 DEF StackIn
<1> QED
  BY <1>11, <1>12, <1>13, <1>14, <1>15, <1>16 DEF StackIn, u

-----------------------------------------------------------------------------
(***************************************************************************)
(* The search calls the graph                                              *)
(***************************************************************************)
LEMMA TopFacts ==
  ASSUME StackInv, NEW w \in Worker, Depth(w) > 0
  PROVE  /\ stack[w] \in Seq(FrameType) /\ StackIn(Present, stack[w])
         /\ Top(w) \in FrameType /\ Top(w).goal \in Goal /\ Top(w).cites \subseteq Goal
         /\ BranchIn(Present, Top(w))
         /\ phase[w] = "search"
<1>1. /\ stack[w] \in Seq(FrameType) /\ StackIn(Present, stack[w])
      /\ (phase[w] = "search" <=> stack[w] # << >>)
  BY DEF StackInv, LeapTypeOK
<1>2. Top(w) \in FrameType /\ BranchIn(Present, Top(w))
  BY <1>1 DEF Top, Depth, StackIn
<1>3. phase[w] = "search"
  BY <1>1 DEF Depth
<1> QED
  BY <1>1, <1>2, <1>3 DEF FrameType

LEMMA StepUsesGraph ==
  ASSUME StackInv, NEW w \in Worker, Step(w)
  PROVE  [GraphNext]_graph
<1>1. CASE \/ Enter(w) \/ Tactics(w) \/ Partition(w) \/ Judge(w) \/ Prove(w) \/ Blueprint(w)
           \/ CountNodes(w) \/ Status(w) \/ Raise(w) \/ Assemble(w)
  BY <1>1 DEF Enter, Tactics, Partition, Judge, Prove, Blueprint, CountNodes, Status, Raise,
              Assemble
<1>2. CASE Lease(w)
  BY <1>2, TopFacts DEF Lease, At, GraphNext, LeaseStep
<1>3. CASE Close(w)
  BY <1>3, TopFacts DEF Close, At, GraphNext, NodeStep
<1>4. CASE Priority(w)
  BY <1>4 DEF Priority, GraphNext, NodeStep, ActivateAnd, Present
<1>5. CASE Child(w)
  BY <1>5 DEF Child, GraphNext, NodeStep
<1>6. CASE Pause(w)
  BY <1>6 DEF Pause, GraphNext, NodeStep, PauseAnd, Present
<1>7. CASE Commit(w)
  BY <1>7, TopFacts DEF Commit, At, GraphNext, NodeStep
<1>8. CASE Expand(w)
  BY <1>8, TopFacts DEF Expand, At, BranchIn, GraphNext, NodeStep
<1>9. CASE Activate(w)
  BY <1>9 DEF Activate, GraphNext, NodeStep, ActivateAnd, Present
<1>10. CASE Deferred(w)
  BY <1>10 DEF Deferred, GraphNext, NodeStep, ActivateAnd, Present
<1>11. CASE Leave(w)
  BY <1>11, TopFacts DEF Leave, At, GraphNext, LeaseStep
<1>12. CASE Unwind(w)
  BY <1>12, TopFacts DEF Unwind, At, GraphNext, LeaseStep
<1> QED
  BY <1>1, <1>2, <1>3, <1>4, <1>5, <1>6, <1>7, <1>8, <1>9, <1>10, <1>11, <1>12 DEF Step

LEMMA SearchUsesGraph == StackInv /\ [LeapNext]_vars => [GraphNext]_graph
<1> SUFFICES ASSUME StackInv, [LeapNext]_vars PROVE [GraphNext]_graph
  OBVIOUS
<1>1. ASSUME NEW w \in Worker, Start(w) PROVE [GraphNext]_graph
  BY <1>1, WorkerAssumption DEF Start, GraphNext, NodeStep
<1>2. ASSUME NEW w \in Worker, Crash(w) PROVE [GraphNext]_graph
  BY <1>2 DEF Crash
<1>3. ASSUME NEW g \in Goal, LeaseEnds(g) PROVE [GraphNext]_graph
  BY <1>3 DEF LeaseEnds, GraphNext, LeaseStep
<1>4. CASE UNCHANGED vars
  BY <1>4 DEF vars
<1> QED
  BY <1>1, <1>2, <1>3, <1>4, StepUsesGraph DEF LeapNext

-----------------------------------------------------------------------------
(***************************************************************************)
(* The stacks keep their shape                                             *)
(***************************************************************************)
LEMMA StackStep ==
  ASSUME StackInv, Present \subseteq Present', NEW w \in Worker,
         NEW t \in Seq(FrameType), StackIn(Present', t), stack' = [stack EXCEPT ![w] = t],
         phase' \in [Worker -> Phase], \A v \in Worker \ {w} : phase'[v] = phase[v],
         phase'[w] = "search" <=> t # << >>,
         tactic' \in [Goal -> Seq({"rejected", "verified"})]
  PROVE  StackInv'
<1>1. stack \in [Worker -> Seq(FrameType)]
  BY DEF StackInv, LeapTypeOK
<1>2. stack'[w] = t /\ \A v \in Worker \ {w} : stack'[v] = stack[v]
  BY <1>1
<1>3. \A v \in Worker : phase'[v] = "search" <=> stack'[v] # << >>
  BY <1>2 DEF StackInv, LeapTypeOK
<1>4. LeapTypeOK'
  BY <1>1, <1>3 DEF LeapTypeOK
<1>5. \A v \in Worker : StackIn(Present', stack'[v])
  BY <1>2, StackGrowsWith DEF StackInv
<1> QED
  BY <1>4, <1>5 DEF StackInv

LEMMA TopStep ==
  ASSUME StackInv, Present \subseteq Present', NEW w \in Worker, Depth(w) > 0,
         NEW f \in FrameType, BranchIn(Present', f), f.goal = Top(w).goal,
         Top(w).at # "enter" \/ ~Recurs(w),
         stack' = [stack EXCEPT ![w][Depth(w)] = f], phase' = phase,
         tactic' \in [Goal -> Seq({"rejected", "verified"})]
  PROVE  StackInv'
<1> DEFINE t == [stack[w] EXCEPT ![Depth(w)] = f]
<1>1. stack \in [Worker -> Seq(FrameType)] /\ phase \in [Worker -> Phase]
  BY DEF StackInv, LeapTypeOK
<1>2. stack' = [stack EXCEPT ![w] = t]
  BY <1>1
<1>3. StackIn(Present', stack[w])
  BY TopFacts, StackGrowsWith
<1>4. t \in Seq(FrameType) \ {<< >>} /\ StackIn(Present', t)
  BY <1>3, TopFacts, ReplaceTop DEF Top, Depth, Recurs
<1> QED
  BY <1>1, <1>2, <1>4, TopFacts, StackStep

LEMMA BecomeStep ==
  ASSUME StackInv, Present \subseteq Present', NEW w \in Worker, Depth(w) > 0,
         NEW f \in FrameType, BranchIn(Present', f), f.goal = Top(w).goal,
         Top(w).at # "enter" \/ ~Recurs(w), Become(w, f)
  PROVE  StackInv'
BY TopStep DEF Become, StackInv, LeapTypeOK

\* Most stages ask nothing of the branch in hand.
LEMMA NewStage ==
  ASSUME NEW P, NEW f \in FrameType, BranchIn(P, f),
         NEW stage \in (Unleased \cup Leased) \ {"count", "expand", "activate", "child"}
  PROVE  /\ [f EXCEPT !.at = stage] \in FrameType
         /\ BranchIn(P, [f EXCEPT !.at = stage])
         /\ [f EXCEPT !.at = stage].goal = f.goal
BY DEF FrameType, BranchIn

LEMMA GotoStep ==
  ASSUME StackInv, Present \subseteq Present', NEW w \in Worker, Depth(w) > 0,
         NEW stage \in (Unleased \cup Leased) \ {"count", "expand", "activate", "child"},
         Top(w).at # "enter" \/ ~Recurs(w), Goto(w, stage)
  PROVE  StackInv'
<1> DEFINE f == [Top(w) EXCEPT !.at = stage]
<1>1. Top(w) \in FrameType /\ BranchIn(Present', Top(w))
  BY TopFacts DEF BranchIn
<1>2. f \in FrameType /\ BranchIn(Present', f) /\ f.goal = Top(w).goal
  BY <1>1, NewStage
<1>3. Become(w, f)
  BY DEF Goto
<1> HIDE DEF f
<1> QED
  BY <1>2, <1>3, BecomeStep

LEMMA DropStep ==
  ASSUME StackInv, Present \subseteq Present', NEW w \in Worker, Depth(w) > 0,
         NEW stage \in {"child", "pause", "raise"}, Drop(w, stage)
  PROVE  StackInv'
<1> DEFINE t == Popped(stack[w], stage)
<1>1. stack \in [Worker -> Seq(FrameType)] /\ phase \in [Worker -> Phase]
  BY DEF StackInv, LeapTypeOK
<1>2. stack' = [stack EXCEPT ![w] = t]
  BY <1>1 DEF Drop, Popped, Depth
<1>3. StackIn(Present', stack[w])
  BY TopFacts, StackGrowsWith
<1>4. t \in Seq(FrameType) /\ StackIn(Present', t) /\ Len(t) = Depth(w) - 1
  BY <1>3, TopFacts, PopTop DEF Depth
<1>5. phase' = [phase EXCEPT ![w] = IF Depth(w) = 1 THEN "assemble" ELSE @] /\ tactic' = tactic
  BY DEF Drop
<1>6. /\ phase' \in [Worker -> Phase] /\ \A v \in Worker \ {w} : phase'[v] = phase[v]
      /\ phase'[w] = IF Depth(w) = 1 THEN "assemble" ELSE "search"
  BY <1>1, <1>5, TopFacts DEF Phase
<1>7. Depth(w) \in Nat /\ (t = << >> <=> Depth(w) = 1)
  <2>1. Depth(w) \in Nat
    BY TopFacts DEF Depth
  <2>2. t = << >> <=> Len(t) = 0
    BY <1>4, EmptySeq
  <2> QED
    BY <1>4, <2>1, <2>2
<1> HIDE DEF t
<1>8. phase'[w] = "search" <=> t # << >>
  BY <1>6, <1>7
<1> QED
  BY <1>2, <1>4, <1>5, <1>6, <1>8, StackStep DEF StackInv, LeapTypeOK

LEMMA AnswerStep ==
  ASSUME StackInv, Present \subseteq Present', NEW w \in Worker, Depth(w) > 0,
         NEW solved, Answer(w, solved)
  PROVE  StackInv'
BY DropStep DEF Answer

\* A branch of the goal is taken up: the frame may come from one with fewer
\* branches to try.
LEMMA SolvingStep ==
  ASSUME StackInv, Present \subseteq Present', NEW w \in Worker, Depth(w) > 0,
         Top(w).at # "enter", NEW d \in Present, d.parent = Top(w).goal,
         NEW f \in FrameType, f.goal = Top(w).goal,
         f.todo \subseteq Top(w).todo, f.later \subseteq Top(w).later,
         NEW back \in {"priority", "blueprints", "deferred"},
         Become(w, Solving(f, d, back))
  PROVE  StackInv'
<1> DEFINE h == Solving(f, d, back)
<1>1. d \in Decomposition /\ d.kids \in Seq(Goal)
  BY DecompositionAssumption DEF Present
<1>2. h \in FrameType /\ h.goal = Top(w).goal /\ h.at = "child" /\ h.and = d /\ h.kids = d.kids
      /\ h.todo = f.todo /\ h.later = f.later
  BY <1>1 DEF Solving, FrameType, Leased
<1> HIDE DEF h
<1>3. BranchIn(Present', h)
  BY <1>2, TopFacts DEF BranchIn, Required
<1> QED
  BY <1>2, <1>3, BecomeStep DEF h

LEMMA EnterStep ==
  ASSUME StackInv, Present \subseteq Present', NEW w \in Worker, Enter(w)
  PROVE  StackInv'
<1>1. Depth(w) > 0 /\ Top(w).at = "enter"
  BY DEF Enter, At
<1>2. CASE Answer(w, TRUE) \/ Answer(w, FALSE)
  BY <1>1, <1>2, AnswerStep
<1>3. CASE ~Recurs(w) /\ Goto(w, "lease")
  BY <1>1, <1>3, GotoStep DEF Unleased
<1> QED
  BY <1>2, <1>3 DEF Enter

LEMMA TacticsStep ==
  ASSUME StackInv, Present \subseteq Present', NEW w \in Worker, Tactics(w)
  PROVE  StackInv'
<1>1. Depth(w) > 0 /\ Top(w).at = "tactics"
  BY DEF Tactics, At
<1>2. CASE Goto(w, "branches")
  BY <1>1, <1>2, GotoStep DEF Leased
<1>3. CASE \E verdict \in {"rejected", "verified"} :
             /\ stack' = [stack EXCEPT ![w][Depth(w)].at =
                  IF verdict = "verified" THEN "closed" ELSE "tactics"]
             /\ tactic' = [tactic EXCEPT ![Top(w).goal] = Append(@, verdict)]
             /\ phase' = phase
  <2>1. PICK verdict \in {"rejected", "verified"} :
             /\ stack' = [stack EXCEPT ![w][Depth(w)].at =
                  IF verdict = "verified" THEN "closed" ELSE "tactics"]
             /\ tactic' = [tactic EXCEPT ![Top(w).goal] = Append(@, verdict)]
             /\ phase' = phase
    BY <1>3
  <2>2. PICK stage \in {"closed", "tactics"} :
             stack' = [stack EXCEPT ![w][Depth(w)].at = stage]
    BY <2>1
  <2> DEFINE f == [Top(w) EXCEPT !.at = stage]
  <2>3. f \in FrameType /\ BranchIn(Present', f) /\ f.goal = Top(w).goal
    <3>1. Top(w) \in FrameType /\ BranchIn(Present', Top(w))
      BY <1>1, TopFacts DEF BranchIn
    <3>2. stage \in (Unleased \cup Leased) \ {"count", "expand", "activate", "child"}
      BY DEF Leased
    <3> QED
      BY <3>1, <3>2, NewStage
  <2>4. stack' = [stack EXCEPT ![w][Depth(w)] = f]
    BY <2>2 DEF Top
  <2>5. tactic' \in [Goal -> Seq({"rejected", "verified"})]
    <3> DEFINE Verdicts == Seq({"rejected", "verified"})
    <3>1. tactic \in [Goal -> Verdicts]
      BY DEF StackInv, LeapTypeOK
    <3>2. \A vs \in Verdicts : Append(vs, verdict) \in Verdicts
      OBVIOUS
    <3> HIDE DEF Verdicts
    <3>3. tactic' \in [Goal -> Verdicts]
      BY <1>1, <2>1, <3>1, <3>2, TopFacts
    <3> QED
      BY <3>3 DEF Verdicts
  <2> HIDE DEF f
  <2> QED
    BY <1>1, <2>1, <2>3, <2>4, <2>5, TopStep
<1> QED
  BY <1>2, <1>3 DEF Tactics

LEMMA PartitionStep ==
  ASSUME StackInv, Present \subseteq Present', NEW w \in Worker, Partition(w)
  PROVE  StackInv'
<1> DEFINE all == Branches(Top(w).goal)
           first == {d \in all : andStatus[d] # "paused" \/ Required(d) \cap Proved # {}}
           done == {d \in all : andStatus[d] = "proved"}
           f == [Top(w) EXCEPT !.at = "priority", !.todo = first, !.later = all \ first,
                               !.settled = done]
<1>1. Depth(w) > 0 /\ Top(w).at = "branches"
  BY DEF Partition, At
<1>2. all \subseteq Decomposition /\ \A d \in all : d \in Present' /\ d.parent = Top(w).goal
  BY DEF Branches, Present
<1>3. Become(w, f)
  BY DEF Partition
<1>4. first \subseteq all /\ done \subseteq all
  OBVIOUS
<1> HIDE DEF all, first, done
<1>5. f \in FrameType /\ f.goal = Top(w).goal /\ f.at = "priority"
      /\ f.todo = first /\ f.later = all \ first
  <2>1. Top(w) \in FrameType
    BY <1>1, TopFacts
  <2> QED
    BY <1>2, <1>4, <1>1, <2>1 DEF FrameType, Leased
<1> HIDE DEF f
<1>6. BranchIn(Present', f)
  BY <1>2, <1>4, <1>5 DEF BranchIn
<1> QED
  BY <1>1, <1>3, <1>5, <1>6, BecomeStep

LEMMA PriorityStep ==
  ASSUME StackInv, Present \subseteq Present', NEW w \in Worker, Priority(w)
  PROVE  StackInv'
<1>1. Depth(w) > 0 /\ Top(w).at = "priority"
  BY DEF Priority, At
<1>2. CASE Goto(w, "direct") \/ Goto(w, "status")
  BY <1>1, <1>2, GotoStep DEF Leased
<1>3. ASSUME NEW d \in Top(w).todo \ Top(w).settled,
             Become(w, Solving([Top(w) EXCEPT !.todo = @ \ {d}], d, "priority"))
      PROVE  StackInv'
  <2> DEFINE f == [Top(w) EXCEPT !.todo = @ \ {d}]
  <2>1. /\ f \in FrameType /\ f.goal = Top(w).goal
        /\ f.todo \subseteq Top(w).todo /\ f.later \subseteq Top(w).later
    BY <1>1, TopFacts DEF FrameType
  <2>2. d \in Present /\ d.parent = Top(w).goal
    BY <1>1, <1>3, TopFacts DEF BranchIn
  <2> HIDE DEF f
  <2> QED
    BY <1>1, <1>3, <2>1, <2>2, SolvingStep DEF f
<1> QED
  BY <1>2, <1>3 DEF Priority

LEMMA DeferredStep ==
  ASSUME StackInv, Present \subseteq Present', NEW w \in Worker, Deferred(w)
  PROVE  StackInv'
<1>1. Depth(w) > 0 /\ Top(w).at = "deferred"
  BY DEF Deferred, At
<1>2. CASE Goto(w, "status")
  BY <1>1, <1>2, GotoStep DEF Leased
<1>3. ASSUME NEW d \in Top(w).later,
             Become(w, Solving([Top(w) EXCEPT !.later = @ \ {d}], d, "deferred"))
      PROVE  StackInv'
  <2> DEFINE f == [Top(w) EXCEPT !.later = @ \ {d}]
  <2>1. /\ f \in FrameType /\ f.goal = Top(w).goal
        /\ f.todo \subseteq Top(w).todo /\ f.later \subseteq Top(w).later
    BY <1>1, TopFacts DEF FrameType
  <2>2. d \in Present /\ d.parent = Top(w).goal
    BY <1>1, <1>3, TopFacts DEF BranchIn
  <2> HIDE DEF f
  <2> QED
    BY <1>1, <1>3, <2>1, <2>2, SolvingStep DEF f
<1> QED
  BY <1>2, <1>3 DEF Deferred

LEMMA ChildStep ==
  ASSUME StackInv, Present \subseteq Present', NEW w \in Worker, Child(w)
  PROVE  StackInv'
<1>1. Depth(w) > 0 /\ Top(w).at = "child"
  BY DEF Child, At
<1>2. CASE Goto(w, "judge")
  BY <1>1, <1>2, GotoStep DEF Leased
<1>3. CASE /\ Top(w).kids # << >>
           /\ stack' = [stack EXCEPT ![w] =
                Append([@ EXCEPT ![Depth(w)].kids = Tail(Top(w).kids)],
                       Call(Head(Top(w).kids)))]
           /\ UNCHANGED <<graph, phase, tactic>>
  <2> DEFINE t == Pushed(stack[w])
  <2>1. stack' = [stack EXCEPT ![w] = t]
    BY <1>3, Zenon DEF Pushed, Top, Depth
  <2>2. StackIn(Present', stack[w])
    BY <1>1, TopFacts, StackGrowsWith
  <2>3. t \in Seq(FrameType) \ {<< >>} /\ StackIn(Present', t)
    BY <1>1, <1>3, <2>2, TopFacts, PushTop DEF Top, Depth
  <2> HIDE DEF t
  <2>4. /\ phase' \in [Worker -> Phase] /\ \A v \in Worker \ {w} : phase'[v] = phase[v]
        /\ phase'[w] = "search" /\ tactic' \in [Goal -> Seq({"rejected", "verified"})]
    BY <1>1, <1>3, TopFacts DEF StackInv, LeapTypeOK
  <2> QED
    BY <2>1, <2>3, <2>4, StackStep
<1> QED
  BY <1>2, <1>3 DEF Child

LEMMA PauseStep ==
  ASSUME StackInv, Present \subseteq Present', NEW w \in Worker, Pause(w)
  PROVE  StackInv'
<1> DEFINE f == [Top(w) EXCEPT !.at = Top(w).back, !.and = NoAnd, !.kids = << >>]
<1>1. Depth(w) > 0 /\ Top(w).at = "pause" /\ Become(w, f)
  BY DEF Pause, At
<1>2. f \in FrameType /\ f.goal = Top(w).goal /\ f.todo = Top(w).todo /\ f.later = Top(w).later
      /\ f.at \in {"priority", "blueprints", "deferred"}
  <2>1. << >> \in Seq(Goal) /\ Top(w) \in FrameType
    BY <1>1, TopFacts, EmptySeq
  <2> QED
    BY <2>1 DEF FrameType, Leased
<1> HIDE DEF f
<1>3. BranchIn(Present', f)
  BY <1>1, <1>2, TopFacts DEF BranchIn
<1> QED
  BY <1>1, <1>2, <1>3, BecomeStep

LEMMA ProveStep ==
  ASSUME StackInv, Present \subseteq Present', NEW w \in Worker, Prove(w)
  PROVE  StackInv'
<1>1. Depth(w) > 0 /\ Top(w).at = "direct"
  BY DEF Prove, At
<1>2. CASE Goto(w, "blueprints")
  BY <1>1, <1>2, GotoStep DEF Leased
<1>3. ASSUME NEW gs \in Citable(Top(w).goal, {Top(w).goal}),
             Become(w, [Top(w) EXCEPT !.at = "commit", !.cites = gs])
      PROVE  StackInv'
  <2> DEFINE f == [Top(w) EXCEPT !.at = "commit", !.cites = gs]
  <2>1. gs \subseteq Goal
    BY DEF Citable, Proved
  <2>2. f \in FrameType /\ f.goal = Top(w).goal /\ f.at = "commit"
        /\ f.todo = Top(w).todo /\ f.later = Top(w).later
    <3>1. Top(w) \in FrameType
      BY <1>1, TopFacts
    <3> QED
      BY <1>1, <2>1, <3>1 DEF FrameType, Leased
  <2> HIDE DEF f
  <2>3. BranchIn(Present', f)
    BY <1>1, <2>2, TopFacts DEF BranchIn
  <2> QED
    BY <1>1, <1>3, <2>2, <2>3, BecomeStep DEF f
<1> QED
  BY <1>2, <1>3 DEF Prove

LEMMA CommitStep ==
  ASSUME StackInv, Present \subseteq Present', NEW w \in Worker, Commit(w)
  PROVE  StackInv'
<1> DEFINE f == [Top(w) EXCEPT !.at = "succeed", !.cites = {}]
<1>1. Depth(w) > 0 /\ Top(w).at = "commit" /\ Become(w, f)
  BY DEF Commit, At
<1>2. f \in FrameType /\ f.goal = Top(w).goal /\ f.todo = Top(w).todo /\ f.later = Top(w).later
      /\ f.at = "succeed"
  <2>1. Top(w) \in FrameType
    BY <1>1, TopFacts
  <2> QED
    BY <1>1, <2>1 DEF FrameType, Leased
<1> HIDE DEF f
<1>3. BranchIn(Present', f)
  BY <1>1, <1>2, TopFacts DEF BranchIn
<1> QED
  BY <1>1, <1>2, <1>3, BecomeStep

LEMMA BlueprintStep ==
  ASSUME StackInv, Present \subseteq Present', NEW w \in Worker, Blueprint(w)
  PROVE  StackInv'
<1>1. Depth(w) > 0 /\ Top(w).at = "blueprints"
  BY DEF Blueprint, At
<1>2. CASE Goto(w, "deferred")
  BY <1>1, <1>2, GotoStep DEF Leased
<1>3. Top(w).tries > 0 => Top(w).tries - 1 \in 0..MaxBlueprints
  BY <1>1, TopFacts, WorkerAssumption DEF FrameType
<1>4. CASE Top(w).tries > 0 /\ Become(w, [Top(w) EXCEPT !.tries = @ - 1])
  <2> DEFINE f == [Top(w) EXCEPT !.tries = @ - 1]
  <2>1. f \in FrameType /\ f.goal = Top(w).goal /\ f.at = "blueprints"
        /\ f.todo = Top(w).todo /\ f.later = Top(w).later
    BY <1>1, <1>3, <1>4, TopFacts DEF FrameType
  <2> HIDE DEF f
  <2>2. BranchIn(Present', f)
    BY <1>1, <2>1, TopFacts DEF BranchIn
  <2> QED
    BY <1>1, <1>4, <2>1, <2>2, BecomeStep DEF f
<1>5. ASSUME NEW d \in Decomposition, d.parent = Top(w).goal, Top(w).tries > 0,
             Become(w, [Top(w) EXCEPT !.at = "count", !.tries = @ - 1, !.and = d])
      PROVE  StackInv'
  <2> DEFINE f == [Top(w) EXCEPT !.at = "count", !.tries = @ - 1, !.and = d]
  <2>1. f \in FrameType /\ f.goal = Top(w).goal /\ f.at = "count" /\ f.and = d
        /\ f.todo = Top(w).todo /\ f.later = Top(w).later
    <3>1. Top(w) \in FrameType
      BY <1>1, TopFacts
    <3> QED
      BY <1>1, <1>3, <1>5, <3>1 DEF FrameType, Leased
  <2> HIDE DEF f
  <2>2. BranchIn(Present', f)
    BY <1>1, <1>5, <2>1, TopFacts DEF BranchIn
  <2> QED
    BY <1>1, <1>5, <2>1, <2>2, BecomeStep DEF f
<1> QED
  BY <1>2, <1>4, <1>5 DEF Blueprint

\* A blueprint is given up.
LEMMA GiveUpStep ==
  ASSUME StackInv, Present \subseteq Present', NEW w \in Worker, Depth(w) > 0,
         Top(w).at # "enter",
         Become(w, [Top(w) EXCEPT !.at = "blueprints", !.and = NoAnd])
  PROVE  StackInv'
<1> DEFINE f == [Top(w) EXCEPT !.at = "blueprints", !.and = NoAnd]
<1>1. f \in FrameType /\ f.goal = Top(w).goal /\ f.at = "blueprints"
      /\ f.todo = Top(w).todo /\ f.later = Top(w).later
  <2>1. Top(w) \in FrameType
    BY TopFacts
  <2> QED
    BY <2>1 DEF FrameType, Leased
<1> HIDE DEF f
<1>2. BranchIn(Present', f)
  BY <1>1, TopFacts DEF BranchIn
<1> QED
  BY <1>1, <1>2, BecomeStep DEF f

LEMMA CountNodesStep ==
  ASSUME StackInv, Present \subseteq Present', NEW w \in Worker, CountNodes(w)
  PROVE  StackInv'
<1>1. Depth(w) > 0 /\ Top(w).at = "count"
  BY DEF CountNodes, At
<1>2. CASE Become(w, [Top(w) EXCEPT !.at = "blueprints", !.and = NoAnd])
  BY <1>1, <1>2, GiveUpStep
<1>3. CASE Goto(w, "expand")
  <2> DEFINE f == [Top(w) EXCEPT !.at = "expand"]
  <2>1. f \in FrameType /\ f.goal = Top(w).goal /\ f.at = "expand" /\ f.and = Top(w).and
        /\ f.todo = Top(w).todo /\ f.later = Top(w).later
    <3>1. Top(w) \in FrameType
      BY <1>1, TopFacts
    <3> QED
      BY <1>1, <3>1 DEF FrameType, Leased
  <2> HIDE DEF f
  <2>2. BranchIn(Present', f)
    BY <1>1, <2>1, TopFacts DEF BranchIn
  <2> QED
    BY <1>1, <1>3, <2>1, <2>2, BecomeStep DEF f, Goto
<1> QED
  BY <1>2, <1>3 DEF CountNodes

LEMMA PropagateKeeps ==
  ASSUME NEW os, NEW as, NEW sel, Propagate(os, as, sel)
  PROVE  \A d \in Decomposition : andStatus'[d] \in {"proved", as[d]}
BY DEF Propagate

LEMMA ExpandStep ==
  ASSUME GraphTypeOK, StackInv, Present \subseteq Present', NEW w \in Worker, Expand(w)
  PROVE  StackInv'
<1>1. Depth(w) > 0 /\ Top(w).at = "expand"
  BY DEF Expand, At
<1>2. CASE Become(w, [Top(w) EXCEPT !.at = "blueprints", !.and = NoAnd])
  BY <1>1, <1>2, GiveUpStep
<1>3. CASE CommitDecomposition(Top(w).and) /\ Goto(w, "activate")
  <2> DEFINE f == [Top(w) EXCEPT !.at = "activate"]
             d == Top(w).and
             as == [andStatus EXCEPT ![d] = IF @ = "absent" THEN "open" ELSE @]
  <2>1. d \in Decomposition /\ d.parent = Top(w).goal
    BY <1>1, TopFacts DEF BranchIn
  <2>2. as[d] # "absent"
    BY <2>1 DEF GraphTypeOK
  <2>3. \E os : Propagate(os, as, proof)
    BY <1>3, Zenon DEF CommitDecomposition
  <2>4. d \in Present'
    BY <2>1, <2>2, <2>3, PropagateKeeps DEF Present
  <2>5. f \in FrameType /\ f.goal = Top(w).goal /\ f.at = "activate" /\ f.and = d
        /\ f.todo = Top(w).todo /\ f.later = Top(w).later
    <3>1. Top(w) \in FrameType
      BY <1>1, TopFacts
    <3> QED
      BY <1>1, <3>1 DEF FrameType, Leased
  <2> HIDE DEF f, d
  <2>6. BranchIn(Present', f)
    BY <1>1, <2>1, <2>4, <2>5, TopFacts DEF BranchIn
  <2> QED
    BY <1>1, <1>3, <2>5, <2>6, BecomeStep DEF f, Goto
<1> QED
  BY <1>2, <1>3 DEF Expand

LEMMA ActivateStep ==
  ASSUME StackInv, Present \subseteq Present', NEW w \in Worker, Activate(w)
  PROVE  StackInv'
<1>1. Depth(w) > 0 /\ Top(w).at = "activate"
  BY DEF Activate, At
<1>2. Top(w).and \in Present /\ Top(w).and.parent = Top(w).goal /\ Top(w) \in FrameType
  BY <1>1, TopFacts DEF BranchIn
<1>3. Become(w, Solving(Top(w), Top(w).and, "blueprints"))
  BY DEF Activate
<1> QED
  BY <1>1, <1>2, <1>3, SolvingStep

LEMMA GraphCallStep ==
  ASSUME StackInv, Present \subseteq Present', NEW w \in Worker,
         Lease(w) \/ Close(w) \/ Judge(w) \/ Status(w)
  PROVE  StackInv'
<1>1. Depth(w) > 0 /\ Top(w).at \in {"lease", "closed", "judge", "status"}
  BY DEF Lease, Close, Judge, Status, At
<1>2. CASE Answer(w, FALSE)
  BY <1>1, <1>2, AnswerStep
<1>3. CASE Goto(w, "tactics") \/ Goto(w, "succeed") \/ Goto(w, "fail")
  BY <1>1, <1>3, GotoStep DEF Leased
<1>4. CASE Judge(w) /\ Goto(w, Top(w).back)
  <2>1. Top(w).back \in {"priority", "blueprints", "deferred"}
    BY <1>1, TopFacts DEF FrameType
  <2>2. Top(w).back \in (Unleased \cup Leased) \ {"count", "expand", "activate", "child"}
    BY <2>1 DEF Leased
  <2> QED
    BY <1>1, <1>4, <2>2, GotoStep
<1> QED
  BY <1>2, <1>3, <1>4 DEF Lease, Close, Judge, Status

LEMMA EndStep ==
  ASSUME StackInv, Present \subseteq Present', NEW w \in Worker,
         Leave(w) \/ Raise(w) \/ Unwind(w)
  PROVE  StackInv'
<1>1. CASE Leave(w)
  <2>1. Depth(w) > 0 /\ \E solved : Answer(w, solved)
    BY <1>1 DEF Leave, At
  <2> QED
    BY <2>1, AnswerStep
<1>2. CASE Unwind(w)
  BY <1>2, DropStep DEF Unwind, At
<1>3. CASE Raise(w) /\ At(w, "enter")
  BY <1>3, DropStep DEF Raise
<1>4. CASE Raise(w) /\ ~At(w, "enter")
  <2>1. Depth(w) > 0 /\ Top(w).at # "enter" /\ Goto(w, "raise")
    BY <1>4 DEF Raise
  <2> QED
    BY <2>1, GotoStep DEF Leased
<1> QED
  BY <1>1, <1>2, <1>3, <1>4

LEMMA EdgeStep ==
  ASSUME StackInv, Present \subseteq Present', NEW w \in Worker,
         Start(w) \/ Assemble(w) \/ Crash(w)
  PROVE  StackInv'
<1>1. /\ stack \in [Worker -> Seq(FrameType)] /\ phase \in [Worker -> Phase]
      /\ tactic \in [Goal -> Seq({"rejected", "verified"})]
      /\ \A v \in Worker : phase[v] = "search" <=> stack[v] # << >>
  BY DEF StackInv, LeapTypeOK
<1>2. CASE Start(w)
  <2> DEFINE c == Call(Root[w])
             t == <<c>>
  <2>1. c \in FrameType /\ BranchIn(Present', c)
    BY CallType, WorkerAssumption
  <2> HIDE DEF c
  <2>2. t \in Seq(FrameType) /\ t # << >> /\ Len(t) = 1 /\ t[1] = c
    BY <2>1
  <2>3. StackIn(Present', t)
    BY <2>1, <2>2 DEF StackIn
  <2>4. stack' = [stack EXCEPT ![w] = t] /\ phase' = [phase EXCEPT ![w] = "search"]
        /\ tactic' = tactic
    BY <1>2 DEF Start, c
  <2> HIDE DEF t
  <2> QED
    BY <1>1, <2>2, <2>3, <2>4, StackStep DEF Phase
<1>3. CASE Crash(w)
  <2>1. << >> \in Seq(FrameType) /\ StackIn(Present', << >>)
    BY EmptySeq DEF StackIn
  <2>2. stack' = [stack EXCEPT ![w] = << >>] /\ phase' = [phase EXCEPT ![w] = "crashed"]
        /\ tactic' = tactic
    BY <1>3 DEF Crash
  <2> QED
    BY <1>1, <2>1, <2>2, StackStep DEF Phase
<1>4. CASE Assemble(w)
  <2>1. phase[w] = "assemble" /\ tactic' = tactic /\ stack' = stack
        /\ \E p \in {"proved", "unproved"} : phase' = [phase EXCEPT ![w] = p]
    BY <1>4 DEF Assemble
  <2>2. stack' = [stack EXCEPT ![w] = stack[w]] /\ stack[w] = << >>
    BY <1>1, <2>1
  <2>3. StackIn(Present', stack[w]) /\ stack[w] \in Seq(FrameType)
    BY <1>1, StackGrowsWith DEF StackInv
  <2>4. /\ phase' \in [Worker -> Phase] /\ phase'[w] # "search"
        /\ \A v \in Worker \ {w} : phase'[v] = phase[v]
    BY <1>1, <2>1 DEF Phase
  <2>5. tactic' \in [Goal -> Seq({"rejected", "verified"})]
    BY <1>1, <2>1
  <2> QED
    BY <2>2, <2>3, <2>4, <2>5, StackStep
<1> QED
  BY <1>2, <1>3, <1>4

LEMMA StackInvStep ==
  ASSUME GraphInv, StackInv, [LeapNext]_vars
  PROVE  StackInv'
<1>1. [GraphNext]_graph
  BY SearchUsesGraph
<1>2. Present \subseteq Present'
  BY <1>1, StepGrows DEF Grows
<1>3. ASSUME NEW w \in Worker, Step(w) PROVE StackInv'
  BY <1>2, <1>3, EnterStep, TacticsStep, PartitionStep, PriorityStep, DeferredStep, ChildStep,
     PauseStep, ProveStep, CommitStep, BlueprintStep, CountNodesStep, ExpandStep, ActivateStep,
     GraphCallStep, EndStep, EdgeStep
     DEF Step, GraphInv
<1>4. CASE stack' = stack /\ phase' = phase /\ tactic' = tactic
  BY <1>2, <1>4, StackGrowsWith DEF StackInv, LeapTypeOK
<1>5. CASE UNCHANGED vars
  BY <1>4, <1>5 DEF vars, search
<1>6. ASSUME NEW g \in Goal, LeaseEnds(g) PROVE StackInv'
  BY <1>4, <1>6 DEF LeaseEnds, search
<1> QED
  BY <1>2, <1>3, <1>5, <1>6, EdgeStep DEF LeapNext

-----------------------------------------------------------------------------
(***************************************************************************)
(* The beginning                                                           *)
(***************************************************************************)
LEMMA LeapInitGraph == LeapInit => GraphInv
<1> SUFFICES ASSUME LeapInit PROVE GraphInv
  OBVIOUS
<1> DEFINE left == {d \in Decomposition : History[d] # "absent"}
<1>1. andStatus = History /\ Present = left /\ Proved = {}
  BY DEF LeapInit, Present, Proved
<1>2. GraphTypeOK
  BY HistoryAssumption DEF LeapInit, GraphTypeOK, OrStatus, AndStatus
<1>3. NoDecompositionCycle
  BY <1>1, HistoryAssumption DEF NoDecompositionCycle
<1>4. ASSUME NEW d \in left PROVE Required(d) # {} /\ d.cites = {} /\ andStatus[d] # "proved"
  <2>1. d.kids # << >> /\ d.cites = {}
    BY HistoryAssumption
  <2>2. d.kids \in Seq(Goal)
    BY DecompositionAssumption
  <2>3. 1 \in DOMAIN d.kids
    BY <2>1, <2>2
  <2>4. Required(d) # {}
    BY <2>3 DEF Required
  <2>5. History[d] # "proved"
    BY HistoryAssumption
  <2> QED
    BY <1>1, <2>1, <2>4, <2>5
<1>5. PropagationComplete /\ CitesProved /\ ProofsSupported
  BY <1>1, <1>4 DEF PropagationComplete, CitesProved, ProofsSupported
<1> QED
  BY <1>2, <1>3, <1>5 DEF GraphInv

LEMMA LeapInitStack == LeapInit => StackInv
<1> SUFFICES ASSUME LeapInit PROVE StackInv
  OBVIOUS
<1>1. << >> \in Seq(FrameType) /\ << >> \in Seq({"rejected", "verified"})
  BY EmptySeq
<1>2. LeapTypeOK
  BY <1>1 DEF LeapInit, LeapTypeOK, Phase
<1>3. StackIn(Present, << >>)
  BY DEF StackIn
<1> QED
  BY <1>2, <1>3 DEF LeapInit, StackInv

\* The stacks and the graph agree in every state: each frame that has chosen a
\* branch holds one the graph knows, a child frame works on a required goal of
\* its caller's branch, and no two leased frames of a stack are on one goal.
THEOREM SearchInvariant == LeapSpec => [](GraphInv /\ StackInv)
<1>1. LeapInit => GraphInv /\ StackInv
  BY LeapInitGraph, LeapInitStack
<1>2. GraphInv /\ StackInv /\ [LeapNext]_vars => (GraphInv /\ StackInv)'
  BY SearchUsesGraph, GraphInvStep, StackInvStep
<1> QED
  BY <1>1, <1>2, PTL DEF LeapSpec

\* Every variable of the search has its type.
THEOREM SearchTyping == LeapSpec => []LeapTypeOK
BY SearchInvariant, PTL DEF StackInv

\* Every step of every search is one transaction of the graph, or none: with an
\* empty graph to begin with, the search implements ProofGraph.
THEOREM SearchImplementsGraph ==
  ASSUME \A d \in Decomposition : History[d] = "absent"
  PROVE  LeapSpec => GraphSpec
<1>1. LeapInit => GraphInit
  BY HistoryAssumption DEF LeapInit, GraphInit, HistoryGoals
<1>2. StackInv /\ [LeapNext]_vars => [GraphNext]_graph
  BY SearchUsesGraph
<1> QED
  BY <1>1, <1>2, SearchInvariant, PTL DEF LeapSpec, GraphSpec

\* The guard against recursion never strikes: two frames on one goal would close
\* a cycle of decompositions.
THEOREM NoRecursion == LeapSpec => []NoRuntimeRecursion
<1>1. ASSUME GraphInv, StackInv, NEW w \in Worker,
             NEW i \in DOMAIN stack[w], NEW j \in DOMAIN stack[w],
             stack[w][i].goal = stack[w][j].goal, i < j
      PROVE  FALSE
  <2> DEFINE s == stack[w]
             S == {s[k].goal : k \in i..(j - 1)}
  <2>1. s \in Seq(FrameType) /\ StackIn(Present, s) /\ Acyclic(Present)
        /\ i \in 1..Len(s) /\ j \in 1..Len(s)
    BY <1>1, AcyclicSame DEF StackInv, LeapTypeOK, GraphInv
  <2> HIDE DEF s
  <2>2. \A k \in i..(j - 1) :
          /\ k \in 1..(Len(s) - 1) /\ s[k] \in FrameType /\ s[k].at = "child"
          /\ s[k].and \in Present /\ s[k].and.parent = s[k].goal
          /\ s[k + 1].goal \in Required(s[k].and)
    <3> SUFFICES ASSUME NEW k \in i..(j - 1)
                 PROVE  /\ k \in 1..(Len(s) - 1) /\ s[k] \in FrameType /\ s[k].at = "child"
                        /\ s[k].and \in Present /\ s[k].and.parent = s[k].goal
                        /\ s[k + 1].goal \in Required(s[k].and)
      OBVIOUS
    <3>1. k \in 1..(Len(s) - 1) /\ k \in 1..Len(s) /\ Len(s) \in Nat
      BY <2>1
    <3>2. s[k] \in FrameType
      BY <2>1, <3>1
    <3>3. s[k].at = "child" /\ s[k + 1].goal \in Required(s[k].and) /\ BranchIn(Present, s[k])
      BY <2>1, <3>1 DEF StackIn
    <3> QED
      BY <3>1, <3>2, <3>3 DEF BranchIn
  <2>3. \A k \in i..(j - 1) : s[k + 1].goal \in S
    <3>1. ASSUME NEW k \in i..(j - 1), k + 1 = j PROVE s[k + 1].goal \in S
      BY <1>1, <3>1, <2>1 DEF s
    <3>2. ASSUME NEW k \in i..(j - 1), k + 1 # j PROVE s[k + 1].goal \in S
      <4>1. k + 1 \in i..(j - 1)
        BY <3>2, <2>1
      <4> QED
        BY <4>1
    <3> QED
      BY <3>1, <3>2
  <2>4. S \in SUBSET Goal /\ S # {}
    <3>1. i \in i..(j - 1)
      BY <1>1, <2>1
    <3>2. \A k \in i..(j - 1) : s[k].goal \in Goal
      BY <2>2 DEF FrameType
    <3> QED
      BY <3>1, <3>2
  <2>5. PICK g \in S : \A d \in Present : d.parent = g => Children(d) \cap S = {}
    BY <2>1, <2>4 DEF Acyclic
  <2>6. PICK k \in i..(j - 1) : g = s[k].goal
    BY <2>5
  <2>7. Required(s[k].and) \subseteq Children(s[k].and)
    BY DEF Children
  <2> QED
    BY <2>2, <2>3, <2>5, <2>6, <2>7
<1>2. GraphInv /\ StackInv => NoRuntimeRecursion
  <2> SUFFICES ASSUME GraphInv, StackInv, NEW w \in Worker,
                      NEW i \in DOMAIN stack[w], NEW j \in DOMAIN stack[w],
                      stack[w][i].goal = stack[w][j].goal
               PROVE  i = j
    BY DEF NoRuntimeRecursion
  <2>1. i \in Int /\ j \in Int
    BY DEF StackInv, LeapTypeOK
  <2> QED
    BY <1>1, <2>1
<1> QED
  BY <1>2, SearchInvariant, PTL
=============================================================================
