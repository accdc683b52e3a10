-------------------------- MODULE LeapLeaseProofs --------------------------
(***************************************************************************)
(* Proofs about LeapSearch: a search that keeps to its budget holds the    *)
(* lease of every goal it is in the middle of, and a search that ends      *)
(* gives every lease back.  Searches side by side exceed the node budget   *)
(* by no more than what each of them was about to add.  Searches that run  *)
(* one after the other moreover never close a circle of proofs, and skip   *)
(* only tactics that failed; side by side they do not.                     *)
(***************************************************************************)
EXTENDS LeapSearchProofs, FiniteSetTheorems

\* The goals a worker with the stack s is in the middle of, and those of its
\* outer frames.
Held(s) == {s[i].goal : i \in {k \in 1..Len(s) : s[k].at \in Leased}}
Outer(s) == {s[i].goal : i \in 1..(Len(s) - 1)}

LeaseInv ==
  /\ \A w \in Worker \ Slow : \A g \in Held(stack[w]) : lease[g] = w
  /\ \A g \in Goal :
       lease[g] # Nobody /\ phase[lease[g]] # "crashed" => g \in Held(stack[lease[g]])
  /\ \A g \in expired : lease[g] \in Slow \/ (lease[g] # Nobody /\ phase[lease[g]] \in Ended)

-----------------------------------------------------------------------------
(***************************************************************************)
(* The goals that a stack holds                                            *)
(***************************************************************************)
LEMMA HeldByStack ==
  ASSUME NEW P, NEW s \in Seq(FrameType), Len(s) > 0, StackIn(P, s)
  PROVE  /\ s[Len(s)].at \in Leased => /\ Held(s) = Outer(s) \cup {s[Len(s)].goal}
                                       /\ s[Len(s)].goal \notin Outer(s)
         /\ s[Len(s)].at \notin Leased => Held(s) = Outer(s)
         /\ Held(s) \subseteq Goal
<1>1. \A i \in 1..Len(s) : i \in 1..(Len(s) - 1) \/ i = Len(s)
  OBVIOUS
<1>2. \A i \in 1..(Len(s) - 1) : i \in 1..Len(s) /\ i # Len(s) /\ s[i].at \in Leased
                                 /\ s[i].at # "enter"
  BY DEF StackIn, Leased
<1>3. \A i \in 1..Len(s) : s[i].goal \in Goal
  <2>1. \A i \in 1..Len(s) : s[i] \in FrameType
    OBVIOUS
  <2> QED
    BY <2>1 DEF FrameType
<1>4. Len(s) \in 1..Len(s)
  OBVIOUS
<1>5. s[Len(s)].at \in Leased => s[Len(s)].at # "enter"
  BY DEF Leased
<1>6. s[Len(s)].at \in Leased => s[Len(s)].goal \notin Outer(s)
  BY <1>2, <1>4, <1>5 DEF StackIn, Outer
<1>7. s[Len(s)].at \in Leased => Held(s) = Outer(s) \cup {s[Len(s)].goal}
  BY <1>1, <1>2, <1>4 DEF Held, Outer
<1>8. s[Len(s)].at \notin Leased => Held(s) = Outer(s)
  BY <1>1, <1>2 DEF Held, Outer
<1> QED
  BY <1>3, <1>6, <1>7, <1>8 DEF Held

LEMMA HeldEmpty == Held(<< >>) = {}
BY DEF Held

LEMMA HeldReplaced ==
  ASSUME NEW P, NEW s \in Seq(FrameType), Len(s) > 0, StackIn(P, s), NEW f, f.goal = s[Len(s)].goal
  PROVE  Held([s EXCEPT ![Len(s)] = f])
           = IF f.at \in Leased THEN Outer(s) \cup {s[Len(s)].goal} ELSE Outer(s)
<1> DEFINE t == [s EXCEPT ![Len(s)] = f]
<1>1. Len(t) = Len(s) /\ t[Len(s)] = f /\ Len(s) \in 1..Len(s)
      /\ \A i \in 1..(Len(s) - 1) : t[i] = s[i] /\ i \in 1..Len(s) /\ s[i].at \in Leased
  BY DEF StackIn, Leased
<1>2. \A i \in 1..Len(s) : i \in 1..(Len(s) - 1) \/ i = Len(s)
  OBVIOUS
<1> HIDE DEF t
<1>3. \A i \in 1..(Len(s) - 1) : i \in 1..Len(t) /\ t[i].goal = s[i].goal /\ t[i].at \in Leased
  BY <1>1
<1>4. Outer(s) \subseteq Held(t)
  BY <1>3 DEF Held, Outer
<1>5. \A x \in Held(t) : x \in Outer(s) \/ (f.at \in Leased /\ x = s[Len(s)].goal)
  BY <1>1, <1>2, <1>3 DEF Held, Outer
<1>6. f.at \in Leased => s[Len(s)].goal \in Held(t)
  BY <1>1 DEF Held
<1>7. Held(t) = IF f.at \in Leased THEN Outer(s) \cup {s[Len(s)].goal} ELSE Outer(s)
  BY <1>4, <1>5, <1>6
<1> QED
  BY <1>7 DEF t

LEMMA HeldPopped ==
  ASSUME NEW P, NEW s \in Seq(FrameType), Len(s) > 0, StackIn(P, s),
         NEW stage \in {"child", "pause", "raise"}
  PROVE  Held(Popped(s, stage)) = Outer(s)
<1> DEFINE t == Popped(s, stage)
<1>1. t \in Seq(FrameType) /\ Len(t) = Len(s) - 1
  BY PopTop
<1>2. \A f \in FrameType : [f EXCEPT !.at = stage].goal = f.goal
                           /\ [f EXCEPT !.at = stage].at = stage
  BY DEF FrameType
<1>3. \A i \in 1..(Len(s) - 1) : s[i] \in FrameType /\ s[i].at = "child"
  BY DEF StackIn
<1>4. \A i \in 1..(Len(s) - 1) : t[i].goal = s[i].goal /\ t[i].at \in Leased
  BY <1>2, <1>3 DEF Popped, Leased
<1> HIDE DEF t
<1> QED
  BY <1>1, <1>4 DEF Held, Outer, t

LEMMA HeldPushed ==
  ASSUME NEW P, NEW s \in Seq(FrameType), Len(s) > 0, StackIn(P, s),
         s[Len(s)].at = "child", s[Len(s)].kids # << >>
  PROVE  Held(Pushed(s)) = Outer(s) \cup {s[Len(s)].goal}
<1> DEFINE f == s[Len(s)]
           h == [f EXCEPT !.kids = Tail(f.kids)]
           t == [s EXCEPT ![Len(s)] = h]
           c == Call(Head(f.kids))
           u == Append(t, c)
<1>1. f \in FrameType /\ Len(s) \in 1..Len(s)
  OBVIOUS
<1>2. h.at = "child" /\ h.goal = f.goal
  BY <1>1 DEF FrameType
<1> HIDE DEF h
<1>3. Len(t) = Len(s) /\ t[Len(s)] = h /\ \A i \in 1..(Len(s) - 1) : t[i] = s[i]
  OBVIOUS
<1>4. c.at \notin Leased
  BY DEF Call, Leased
<1>5. Pushed(s) = u
  BY DEF Pushed, h
<1>6. Len(u) = Len(s) + 1 /\ u[Len(s) + 1] = c /\ u[Len(s)] = h
      /\ \A i \in 1..(Len(s) - 1) : u[i] = s[i]
  <2>1. t \in Seq({s[i] : i \in 1..Len(s)} \cup {h})
    BY <1>1
  <2> HIDE DEF t, c
  <2> QED
    BY <1>1, <1>3, <2>1
<1> HIDE DEF u, c, t
<1>7. Held(u) = Outer(s) \cup {f.goal}
  <2>1. \A i \in 1..Len(u) : i \in 1..(Len(s) - 1) \/ i = Len(s) \/ i = Len(s) + 1
    BY <1>6
  <2>2. \A i \in 1..(Len(s) - 1) : i \in 1..Len(u) /\ s[i].at \in Leased
    BY <1>6 DEF StackIn, Leased
  <2>3. Len(s) \in 1..Len(u) /\ h.at \in Leased
    BY <1>2, <1>6 DEF Leased
  <2>4. Outer(s) \cup {f.goal} \subseteq Held(u)
    <3>1. \A i \in 1..(Len(s) - 1) : u[i] = s[i] /\ u[i].at \in Leased /\ i \in 1..Len(u)
      BY <1>6, <2>2
    <3>2. u[Len(s)].at \in Leased /\ u[Len(s)].goal = f.goal
      BY <1>2, <1>6, <2>3
    <3> QED
      BY <2>3, <3>1, <3>2 DEF Held, Outer
  <2>5. Held(u) \subseteq Outer(s) \cup {f.goal}
    BY <1>2, <1>4, <1>6, <2>1 DEF Held, Outer
  <2> QED
    BY <2>4, <2>5
<1> QED
  BY <1>5, <1>7

LEMMA HeldWhileSearching ==
  ASSUME StackInv, NEW w \in Worker, NEW g \in Held(stack[w])
  PROVE  phase[w] = "search" /\ g \in Goal
<1>1. stack[w] # << >>
  BY HeldEmpty
<1>2. stack[w] \in Seq(FrameType) /\ StackIn(Present, stack[w])
      /\ (phase[w] = "search" <=> stack[w] # << >>)
  BY DEF StackInv, LeapTypeOK
<1> QED
  BY <1>1, <1>2, HeldByStack

-----------------------------------------------------------------------------
(***************************************************************************)
(* What a transaction does to the leases                                   *)
(***************************************************************************)
\* A worker's own step changes its stack and its phase only.
Alone(w) == \A v \in Worker \ {w} : stack'[v] = stack[v] /\ phase'[v] = phase[v]

LEMMA LeasesKept ==
  ASSUME GraphTypeOK, StackInv, LeaseInv, NEW w \in Worker, Alone(w), UNCHANGED leases,
         phase[w] \notin Ended, Held(stack'[w]) \subseteq Held(stack[w]),
         Held(stack'[w]) = Held(stack[w]) \/ phase'[w] = "crashed"
  PROVE  LeaseInv'
<1>1. lease' = lease /\ expired' = expired /\ expired \subseteq Goal
      /\ \A g \in Goal : lease[g] \in Worker \cup {Nobody}
  BY DEF leases, GraphTypeOK
<1>2. \A v \in Worker \ Slow : \A g \in Held(stack'[v]) : lease'[g] = v
  BY <1>1 DEF LeaseInv, Alone
<1>3. ASSUME NEW g \in Goal, lease'[g] # Nobody, phase'[lease'[g]] # "crashed"
      PROVE  g \in Held(stack'[lease'[g]])
  BY <1>1, <1>3 DEF LeaseInv, Alone, Ended
<1>4. \A g \in expired' : lease'[g] \in Slow \/ (lease'[g] # Nobody /\ phase'[lease'[g]] \in Ended)
  BY <1>1 DEF LeaseInv, Alone
<1> QED
  BY <1>2, <1>3, <1>4 DEF LeaseInv

\* The rows that acquire_lease deletes belong to no worker on their goal that
\* keeps to its budget.
LEMMA LiveHeld ==
  ASSUME StackInv, LeaseInv, NEW v \in Worker \ Slow, NEW h \in Held(stack[v])
  PROVE  h \in Goal /\ lease[h] = v /\ LiveLease[h] = v
<1>1. phase[v] = "search" /\ h \in Goal
  BY HeldWhileSearching
<1>2. lease[h] = v
  BY DEF LeaseInv
<1>3. h \notin expired
  BY <1>1, <1>2 DEF LeaseInv, Ended
<1> QED
  BY <1>1, <1>2, <1>3 DEF LiveLease

LEMMA LeaseAcquired ==
  ASSUME GraphTypeOK, StackInv, LeaseInv, NEW w \in Worker, Alone(w), NEW g \in Goal,
         AcquireLease(w, g), phase[w] = "search", Held(stack'[w]) = Held(stack[w]) \cup {g}
  PROVE  LeaseInv'
<1>1. /\ lease' = [LiveLease EXCEPT ![g] = w] /\ expired' = {} /\ LiveLease[g] \in {Nobody, w}
      /\ \A h \in Goal : lease[h] \in Worker \cup {Nobody}
  BY DEF AcquireLease, GraphTypeOK
<1>2. \A h \in Goal : lease'[h] = IF h = g THEN w ELSE IF h \in expired THEN Nobody ELSE lease[h]
  BY <1>1 DEF LiveLease
<1>3. ASSUME NEW v \in Worker \ Slow, NEW h \in Held(stack'[v]) PROVE lease'[h] = v
  <2>1. CASE h \in Held(stack[v])
    BY <1>1, <1>2, <2>1, LiveHeld, SentinelAssumption
  <2>2. CASE h \notin Held(stack[v])
    BY <1>2, <1>3, <2>2 DEF Alone
  <2> QED
    BY <2>1, <2>2
<1>4. ASSUME NEW h \in Goal, lease'[h] # Nobody, phase'[lease'[h]] # "crashed"
      PROVE  h \in Held(stack'[lease'[h]])
  <2>1. CASE h = g
    BY <1>2, <2>1
  <2>2. CASE h # g
    <3>1. lease'[h] = lease[h] /\ lease[h] \in Worker
      BY <1>1, <1>2, <1>4, <2>2
    <3>2. CASE lease[h] = w
      BY <1>4, <3>1, <3>2 DEF LeaseInv
    <3>3. CASE lease[h] # w
      BY <1>4, <3>1, <3>3 DEF LeaseInv, Alone
    <3> QED
      BY <3>2, <3>3
  <2> QED
    BY <2>1, <2>2
<1> QED
  BY <1>1, <1>3, <1>4 DEF LeaseInv

LEMMA LeaseRefused ==
  ASSUME GraphTypeOK, StackInv, LeaseInv, NEW w \in Worker, Alone(w), NEW g \in Goal,
         RefuseLease(w, g), phase[w] = "search", Held(stack'[w]) = Held(stack[w])
  PROVE  LeaseInv'
<1>1. /\ lease' = LiveLease /\ expired' = {}
      /\ \A h \in Goal : lease[h] \in Worker \cup {Nobody}
  BY DEF RefuseLease, GraphTypeOK
<1>2. \A h \in Goal : lease'[h] = IF h \in expired THEN Nobody ELSE lease[h]
  BY <1>1 DEF LiveLease
<1>3. ASSUME NEW v \in Worker \ Slow, NEW h \in Held(stack'[v]) PROVE lease'[h] = v
  BY <1>1, LiveHeld DEF Alone
<1>4. ASSUME NEW h \in Goal, lease'[h] # Nobody, phase'[lease'[h]] # "crashed"
      PROVE  h \in Held(stack'[lease'[h]])
  <2>1. lease'[h] = lease[h] /\ lease[h] \in Worker
    BY <1>1, <1>2, <1>4
  <2>2. CASE lease[h] = w
    BY <1>4, <2>1, <2>2 DEF LeaseInv
  <2>3. CASE lease[h] # w
    BY <1>4, <2>1, <2>3 DEF LeaseInv, Alone
  <2> QED
    BY <2>2, <2>3
<1> QED
  BY <1>1, <1>3, <1>4 DEF LeaseInv

LEMMA LeaseReleased ==
  ASSUME GraphTypeOK, StackInv, LeaseInv, NEW w \in Worker, Alone(w), NEW g \in Goal,
         ReleaseLease(w, g), phase[w] = "search", Held(stack'[w]) = Held(stack[w]) \ {g}
  PROVE  LeaseInv'
<1>1. /\ lease \in [Goal -> Worker \cup {Nobody}] /\ expired \subseteq Goal
      /\ IF lease[g] = w
           THEN lease' = [lease EXCEPT ![g] = Nobody] /\ expired' = expired \ {g}
           ELSE lease' = lease /\ expired' = expired
  BY DEF ReleaseLease, leases, GraphTypeOK
<1>2. \A h \in Goal : lease'[h] = IF h = g /\ lease[g] = w THEN Nobody ELSE lease[h]
  BY <1>1
<1>3. ASSUME NEW v \in Worker \ Slow, NEW h \in Held(stack'[v]) PROVE lease'[h] = v
  <2>1. h \in Held(stack[v]) /\ (v = w => h # g)
    BY <1>3 DEF Alone
  <2>2. h \in Goal /\ lease[h] = v
    BY <2>1, HeldWhileSearching DEF LeaseInv
  <2> QED
    BY <1>2, <2>1, <2>2
<1>4. ASSUME NEW h \in Goal, lease'[h] # Nobody, phase'[lease'[h]] # "crashed"
      PROVE  h \in Held(stack'[lease'[h]])
  <2>1. lease'[h] = lease[h] /\ lease[h] \in Worker /\ (h = g => lease[h] # w)
    BY <1>1, <1>2, <1>4
  <2>2. CASE lease[h] = w
    BY <1>4, <2>1, <2>2 DEF LeaseInv
  <2>3. CASE lease[h] # w
    BY <1>4, <2>1, <2>3 DEF LeaseInv, Alone
  <2> QED
    BY <2>2, <2>3
<1>5. ASSUME NEW h \in expired'
      PROVE  lease'[h] \in Slow \/ (lease'[h] # Nobody /\ phase'[lease'[h]] \in Ended)
  <2>1. h \in expired /\ h \in Goal /\ lease'[h] = lease[h]
    BY <1>1, <1>2, <1>5
  <2>2. lease[h] # w \/ lease[h] \in Slow
    BY <2>1 DEF LeaseInv, Ended
  <2> QED
    BY <1>1, <2>1, <2>2 DEF LeaseInv, Alone
<1> QED
  BY <1>3, <1>4, <1>5 DEF LeaseInv

-----------------------------------------------------------------------------
(***************************************************************************)
(* What a step of a search does to the leases                              *)
(***************************************************************************)
\* The top frame of w goes on with its goal.
LEMMA FrameGoesOn ==
  ASSUME GraphTypeOK, StackInv, LeaseInv, NEW w \in Worker, Depth(w) > 0, UNCHANGED leases,
         NEW f, f.goal = Top(w).goal, f.at \in Leased <=> Top(w).at \in Leased,
         stack' = [stack EXCEPT ![w][Depth(w)] = f], phase' = phase
  PROVE  LeaseInv'
<1>1. stack \in [Worker -> Seq(FrameType)] /\ phase[w] = "search"
      /\ stack[w] \in Seq(FrameType) /\ StackIn(Present, stack[w])
  BY TopFacts DEF StackInv, LeapTypeOK
<1>2. stack'[w] = [stack[w] EXCEPT ![Len(stack[w])] = f]
      /\ \A v \in Worker \ {w} : stack'[v] = stack[v]
  BY <1>1 DEF Depth
<1>3. Held(stack'[w]) = Held(stack[w])
  <2>1. Top(w) = stack[w][Len(stack[w])] /\ Len(stack[w]) > 0
    BY DEF Top, Depth
  <2> DEFINE s == stack[w]
  <2>2. s \in Seq(FrameType) /\ StackIn(Present, s) /\ Len(s) > 0 /\ f.goal = s[Len(s)].goal
    BY <1>1, <2>1
  <2>3. stack'[w] = [s EXCEPT ![Len(s)] = f] /\ (f.at \in Leased <=> s[Len(s)].at \in Leased)
    BY <1>2, <2>1
  <2> HIDE DEF s
  <2>4. Held([s EXCEPT ![Len(s)] = f])
          = IF f.at \in Leased THEN Outer(s) \cup {s[Len(s)].goal} ELSE Outer(s)
    BY <2>2, HeldReplaced
  <2>5. Held(s) = IF f.at \in Leased THEN Outer(s) \cup {s[Len(s)].goal} ELSE Outer(s)
    BY <2>2, <2>3, HeldByStack
  <2> QED
    BY <2>3, <2>4, <2>5 DEF s
<1> QED
  BY <1>1, <1>2, <1>3, LeasesKept DEF Alone, Ended

LEMMA FrameEnds ==
  ASSUME StackInv, NEW w \in Worker, Depth(w) > 0,
         NEW stage \in {"child", "pause", "raise"}, Drop(w, stage)
  PROVE  /\ Alone(w) /\ phase[w] = "search" /\ Top(w).goal \in Goal
         /\ Held(stack'[w])
              = IF Top(w).at \in Leased THEN Held(stack[w]) \ {Top(w).goal} ELSE Held(stack[w])
<1>1. stack \in [Worker -> Seq(FrameType)] /\ phase \in [Worker -> Phase] /\ phase[w] = "search"
      /\ stack[w] \in Seq(FrameType) /\ StackIn(Present, stack[w]) /\ Top(w).goal \in Goal
  BY TopFacts DEF StackInv, LeapTypeOK
<1>2. stack' = [stack EXCEPT ![w] = Popped(stack[w], stage)]
      /\ phase' = [phase EXCEPT ![w] = IF Depth(w) = 1 THEN "assemble" ELSE @]
  BY <1>1 DEF Drop, Popped, Depth
<1>3. Held(stack'[w]) = Outer(stack[w])
  BY <1>1, <1>2, HeldPopped DEF Depth
<1>4. Alone(w)
  BY <1>1, <1>2 DEF Alone
<1>5. Top(w) = stack[w][Len(stack[w])] /\ Len(stack[w]) > 0
  BY DEF Top, Depth
<1> QED
  BY <1>1, <1>3, <1>4, <1>5, HeldByStack

LEMMA ExceptAt ==
  ASSUME NEW f \in FrameType, NEW stage
  PROVE  [f EXCEPT !.at = stage].goal = f.goal /\ [f EXCEPT !.at = stage].at = stage
BY DEF FrameType

LEMMA FrameGoesTo ==
  ASSUME GraphTypeOK, StackInv, LeaseInv, NEW w \in Worker, Depth(w) > 0, UNCHANGED leases,
         Top(w).at \in Leased, NEW stage \in Leased, Goto(w, stage)
  PROVE  LeaseInv'
<1> DEFINE f == [Top(w) EXCEPT !.at = stage]
<1>1. f.goal = Top(w).goal /\ f.at = stage
  BY TopFacts, ExceptAt
<1>2. stack' = [stack EXCEPT ![w][Depth(w)] = f] /\ phase' = phase
  BY DEF Goto, Become
<1> HIDE DEF f
<1> QED
  BY <1>1, <1>2, FrameGoesOn

LEMMA FrameBecomes ==
  ASSUME GraphTypeOK, StackInv, LeaseInv, NEW w \in Worker, Depth(w) > 0, UNCHANGED leases,
         Top(w).at \in Leased, NEW f, f.goal = Top(w).goal, f.at \in Leased, Become(w, f)
  PROVE  LeaseInv'
BY FrameGoesOn DEF Become

LEMMA FrameSolves ==
  ASSUME GraphTypeOK, StackInv, LeaseInv, NEW w \in Worker, Depth(w) > 0, UNCHANGED leases,
         Top(w).at \in Leased, NEW f \in FrameType, f.goal = Top(w).goal, NEW d, NEW back,
         Become(w, Solving(f, d, back))
  PROVE  LeaseInv'
<1> DEFINE h == Solving(f, d, back)
<1>1. h.goal = Top(w).goal /\ h.at = "child"
  BY DEF Solving, FrameType
<1> HIDE DEF h
<1> QED
  BY <1>1, FrameBecomes DEF h, Leased

\* A stage in the middle of a goal touches no lease.
LEMMA MiddleStep ==
  ASSUME GraphTypeOK, StackInv, LeaseInv, NEW w \in Worker, UNCHANGED leases, Depth(w) > 0,
         \/ Tactics(w) \/ Close(w) \/ Partition(w) \/ Priority(w) \/ Judge(w) \/ Pause(w)
         \/ Prove(w) \/ Commit(w) \/ Blueprint(w) \/ CountNodes(w) \/ Expand(w) \/ Activate(w)
         \/ Deferred(w) \/ Status(w)
  PROVE  LeaseInv'
<1>1. Top(w) \in FrameType
  BY TopFacts
<1>2. Top(w).at \in Leased
  BY DEF Leased, At, Tactics, Close, Partition, Priority, Judge, Pause, Prove, Commit, Blueprint,
         CountNodes, Expand, Activate, Deferred, Status
<1>3. ASSUME NEW stage \in Leased, Goto(w, stage) PROVE LeaseInv'
  BY <1>2, <1>3, FrameGoesTo
<1>4. ASSUME NEW f, f.goal = Top(w).goal, f.at \in Leased, Become(w, f) PROVE LeaseInv'
  BY <1>2, <1>4, FrameBecomes
<1>5. ASSUME NEW f \in FrameType, f.goal = Top(w).goal, NEW d, NEW back,
             Become(w, Solving(f, d, back)) PROVE LeaseInv'
  BY <1>2, <1>5, FrameSolves
<1>6. CASE Close(w) \/ Status(w)
  BY <1>3, <1>6 DEF Close, Status, Leased
<1>7. CASE Judge(w)
  <2>1. Top(w).back \in Leased
    BY <1>1 DEF FrameType, Leased
  <2> QED
    BY <1>3, <1>7, <2>1 DEF Judge, Leased
<1>8. CASE Tactics(w)
  <2>1. CASE Goto(w, "branches")
    BY <1>3, <2>1 DEF Leased
  <2>2. CASE ~Goto(w, "branches")
    <3>1. PICK stage \in {"closed", "tactics"} :
            stack' = [stack EXCEPT ![w][Depth(w)].at = stage] /\ phase' = phase
      BY <1>8, <2>2 DEF Tactics
    <3> DEFINE f == [Top(w) EXCEPT !.at = stage]
    <3>2. f.goal = Top(w).goal /\ f.at \in Leased
      BY <1>1, ExceptAt DEF Leased
    <3>3. stack' = [stack EXCEPT ![w][Depth(w)] = f]
      BY <3>1 DEF Top
    <3> HIDE DEF f
    <3> QED
      BY <1>2, <3>1, <3>2, <3>3, FrameGoesOn
  <2> QED
    BY <2>1, <2>2
<1>9. CASE Partition(w)
  <2>1. PICK todo, later, done :
          Become(w, [Top(w) EXCEPT !.at = "priority", !.todo = todo, !.later = later,
                                   !.settled = done])
    BY <1>9 DEF Partition
  <2> DEFINE f == [Top(w) EXCEPT !.at = "priority", !.todo = todo, !.later = later,
                                 !.settled = done]
  <2>2. f.goal = Top(w).goal /\ f.at \in Leased
    BY <1>1 DEF FrameType, Leased
  <2> HIDE DEF f
  <2> QED
    BY <1>4, <2>1, <2>2 DEF f
<1>10. CASE Pause(w)
  <2> DEFINE f == [Top(w) EXCEPT !.at = Top(w).back, !.and = NoAnd, !.kids = << >>]
  <2>1. f.goal = Top(w).goal /\ f.at \in Leased /\ Become(w, f)
    BY <1>1, <1>10 DEF FrameType, Leased, Pause
  <2> HIDE DEF f
  <2> QED
    BY <1>4, <2>1
<1>11. CASE Commit(w)
  <2> DEFINE f == [Top(w) EXCEPT !.at = "succeed", !.cites = {}]
  <2>1. f.goal = Top(w).goal /\ f.at \in Leased /\ Become(w, f)
    BY <1>1, <1>11 DEF FrameType, Leased, Commit
  <2> HIDE DEF f
  <2> QED
    BY <1>4, <2>1
<1>12. CASE Priority(w)
  <2>1. CASE Goto(w, "direct") \/ Goto(w, "status")
    BY <1>3, <2>1 DEF Leased
  <2>2. ASSUME NEW d, Become(w, Solving([Top(w) EXCEPT !.todo = @ \ {d}], d, "priority"))
        PROVE  LeaseInv'
    <3> DEFINE f == [Top(w) EXCEPT !.todo = @ \ {d}]
    <3>1. f \in FrameType /\ f.goal = Top(w).goal
      BY <1>1 DEF FrameType
    <3> HIDE DEF f
    <3> QED
      BY <1>5, <2>2, <3>1 DEF f
  <2> QED
    BY <1>12, <2>1, <2>2 DEF Priority
<1>13. CASE Deferred(w)
  <2>1. CASE Goto(w, "status")
    BY <1>3, <2>1 DEF Leased
  <2>2. ASSUME NEW d, Become(w, Solving([Top(w) EXCEPT !.later = @ \ {d}], d, "deferred"))
        PROVE  LeaseInv'
    <3> DEFINE f == [Top(w) EXCEPT !.later = @ \ {d}]
    <3>1. f \in FrameType /\ f.goal = Top(w).goal
      BY <1>1 DEF FrameType
    <3> HIDE DEF f
    <3> QED
      BY <1>5, <2>2, <3>1 DEF f
  <2> QED
    BY <1>13, <2>1, <2>2 DEF Deferred
<1>14. CASE Prove(w)
  <2>1. CASE Goto(w, "blueprints")
    BY <1>3, <2>1 DEF Leased
  <2>2. ASSUME NEW gs, Become(w, [Top(w) EXCEPT !.at = "commit", !.cites = gs])
        PROVE  LeaseInv'
    <3> DEFINE f == [Top(w) EXCEPT !.at = "commit", !.cites = gs]
    <3>1. f.goal = Top(w).goal /\ f.at \in Leased
      BY <1>1 DEF FrameType, Leased
    <3> HIDE DEF f
    <3> QED
      BY <1>4, <2>2, <3>1 DEF f
  <2> QED
    BY <1>14, <2>1, <2>2 DEF Prove
<1>15. ASSUME Become(w, [Top(w) EXCEPT !.at = "blueprints", !.and = NoAnd]) PROVE LeaseInv'
  <2> DEFINE f == [Top(w) EXCEPT !.at = "blueprints", !.and = NoAnd]
  <2>1. f.goal = Top(w).goal /\ f.at \in Leased
    BY <1>1 DEF FrameType, Leased
  <2> HIDE DEF f
  <2> QED
    BY <1>4, <1>15, <2>1 DEF f
<1>16. CASE CountNodes(w) \/ Expand(w)
  BY <1>3, <1>15, <1>16 DEF CountNodes, Expand, Leased
<1>17. CASE Blueprint(w)
  <2>1. CASE Goto(w, "deferred")
    BY <1>3, <2>1 DEF Leased
  <2>2. CASE Become(w, [Top(w) EXCEPT !.tries = @ - 1])
    <3> DEFINE f == [Top(w) EXCEPT !.tries = @ - 1]
    <3>1. f.goal = Top(w).goal /\ f.at = Top(w).at
      BY <1>1 DEF FrameType
    <3> HIDE DEF f
    <3> QED
      BY <1>2, <1>4, <2>2, <3>1 DEF f
  <2>3. ASSUME NEW d, Become(w, [Top(w) EXCEPT !.at = "count", !.tries = @ - 1, !.and = d])
        PROVE  LeaseInv'
    <3> DEFINE f == [Top(w) EXCEPT !.at = "count", !.tries = @ - 1, !.and = d]
    <3>1. f.goal = Top(w).goal /\ f.at \in Leased
      BY <1>1 DEF FrameType, Leased
    <3> HIDE DEF f
    <3> QED
      BY <1>4, <2>3, <3>1 DEF f
  <2> QED
    BY <1>17, <2>1, <2>2, <2>3 DEF Blueprint
<1>18. CASE Activate(w)
  <2>1. Become(w, Solving(Top(w), Top(w).and, "blueprints"))
    BY <1>18 DEF Activate
  <2> QED
    BY <1>1, <1>5, <2>1
<1> QED
  BY <1>6, <1>7, <1>8, <1>9, <1>10, <1>11, <1>12, <1>13, <1>14, <1>16, <1>17, <1>18

LEMMA MiddleKeepsLeases ==
  ASSUME NEW w \in Worker,
         \/ Tactics(w) \/ Close(w) \/ Partition(w) \/ Priority(w) \/ Judge(w) \/ Pause(w)
         \/ Prove(w) \/ Commit(w) \/ Blueprint(w) \/ CountNodes(w) \/ Expand(w) \/ Activate(w)
         \/ Deferred(w) \/ Status(w)
  PROVE  UNCHANGED leases /\ Depth(w) > 0
<1>1. Depth(w) > 0
  BY DEF At, Tactics, Close, Partition, Priority, Judge, Pause, Prove, Commit, Blueprint,
         CountNodes, Expand, Activate, Deferred, Status
<1>2. UNCHANGED graph => UNCHANGED leases
  BY DEF graph, leases
<1>3. UNCHANGED leases
  BY <1>2 DEF Tactics, Close, Partition, Priority, Judge, Pause, Prove, Commit, Blueprint,
         CountNodes, Expand, Activate, Deferred, Status, CommitDirect, CommitDecomposition,
         ActivateAnd, PauseAnd, PropagateAll
<1> QED
  BY <1>1, <1>3

LEMMA ChildLeases ==
  ASSUME GraphTypeOK, StackInv, LeaseInv, NEW w \in Worker, Child(w)
  PROVE  LeaseInv'
<1>1. Depth(w) > 0 /\ Top(w).at = "child" /\ UNCHANGED leases
  BY DEF Child, At, PropagateAll, graph
<1>2. CASE Goto(w, "judge")
  BY <1>1, <1>2, FrameGoesTo DEF Leased
<1>3. CASE /\ Top(w).kids # << >> /\ UNCHANGED phase
           /\ stack' = [stack EXCEPT ![w] =
                Append([@ EXCEPT ![Depth(w)].kids = Tail(Top(w).kids)],
                       Call(Head(Top(w).kids)))]
  <2>1. stack' = [stack EXCEPT ![w] = Pushed(stack[w])]
    BY <1>3, Zenon DEF Pushed, Top, Depth
  <2>2. stack \in [Worker -> Seq(FrameType)] /\ phase[w] = "search"
        /\ stack[w] \in Seq(FrameType) /\ StackIn(Present, stack[w])
    BY <1>1, TopFacts DEF StackInv, LeapTypeOK
  <2>3. stack'[w] = Pushed(stack[w]) /\ Alone(w)
    BY <1>3, <2>1, <2>2 DEF Alone
  <2>4. Held(stack'[w]) = Held(stack[w])
    BY <1>1, <1>3, <2>2, <2>3, HeldPushed, HeldByStack DEF Top, Depth, Leased
  <2> QED
    BY <1>1, <2>2, <2>3, <2>4, LeasesKept DEF Ended
<1> QED
  BY <1>2, <1>3 DEF Child

\* A frame that ends before it has its lease, or gives it back.
LEMMA EndLeases ==
  ASSUME GraphTypeOK, StackInv, LeaseInv, NEW w \in Worker, Depth(w) > 0,
         NEW stage \in {"child", "pause", "raise"}, Drop(w, stage),
         IF Top(w).at \in Leased THEN ReleaseLease(w, Top(w).goal)
                                 ELSE UNCHANGED leases \/ RefuseLease(w, Top(w).goal)
  PROVE  LeaseInv'
BY FrameEnds, LeaseReleased, LeaseRefused, LeasesKept DEF Ended

\* The top frame takes its lease or goes to ask for it.
LEMMA EnterLeases ==
  ASSUME GraphTypeOK, StackInv, LeaseInv, NEW w \in Worker, Enter(w) \/ Lease(w)
  PROVE  LeaseInv'
<1>1. Depth(w) > 0 /\ Top(w).at \in Unleased /\ Top(w).at \notin Leased /\ Top(w) \in FrameType
  BY TopFacts DEF Enter, Lease, At, Unleased, Leased
<1>2. CASE Enter(w)
  <2>1. UNCHANGED leases
    BY <1>2 DEF Enter, graph, leases
  <2>2. CASE Answer(w, TRUE) \/ Answer(w, FALSE)
    BY <1>1, <2>1, <2>2, EndLeases DEF Answer
  <2>3. CASE Goto(w, "lease")
    <3> DEFINE f == [Top(w) EXCEPT !.at = "lease"]
    <3>1. f.goal = Top(w).goal /\ f.at \notin Leased
      BY <1>1, ExceptAt DEF Leased
    <3>2. stack' = [stack EXCEPT ![w][Depth(w)] = f] /\ phase' = phase
      BY <2>3 DEF Goto, Become
    <3> HIDE DEF f
    <3> QED
      BY <1>1, <2>1, <3>1, <3>2, FrameGoesOn
  <2> QED
    BY <1>2, <2>2, <2>3 DEF Enter
<1>3. CASE RefuseLease(w, Top(w).goal) /\ Answer(w, FALSE)
  BY <1>1, <1>3, EndLeases DEF Answer
<1>4. CASE AcquireLease(w, Top(w).goal) /\ Goto(w, "tactics")
  <2> DEFINE f == [Top(w) EXCEPT !.at = "tactics"]
  <2>1. f.goal = Top(w).goal /\ f.at \in Leased
    BY <1>1, ExceptAt DEF Leased
  <2>2. stack' = [stack EXCEPT ![w][Depth(w)] = f] /\ phase' = phase
    BY <1>4 DEF Goto, Become
  <2> HIDE DEF f
  <2>3. stack \in [Worker -> Seq(FrameType)] /\ phase[w] = "search" /\ Top(w).goal \in Goal
        /\ stack[w] \in Seq(FrameType) /\ StackIn(Present, stack[w])
    BY <1>1, TopFacts DEF StackInv, LeapTypeOK
  <2>4. stack'[w] = [stack[w] EXCEPT ![Len(stack[w])] = f] /\ Alone(w)
    BY <2>2, <2>3 DEF Depth, Alone
  <2>5. Held(stack'[w]) = Held(stack[w]) \cup {Top(w).goal}
    BY <1>1, <2>1, <2>3, <2>4, HeldReplaced, HeldByStack DEF Top, Depth
  <2> QED
    BY <1>4, <2>3, <2>4, <2>5, LeaseAcquired
<1> QED
  BY <1>2, <1>3, <1>4 DEF Lease

LEMMA LeaveLeases ==
  ASSUME GraphTypeOK, StackInv, LeaseInv, NEW w \in Worker, Leave(w) \/ Raise(w) \/ Unwind(w)
  PROVE  LeaseInv'
<1>1. CASE Leave(w)
  <2>1. /\ Depth(w) > 0 /\ Top(w).at \in Leased /\ ReleaseLease(w, Top(w).goal)
        /\ Drop(w, "child") \/ Drop(w, "pause")
    BY <1>1 DEF Leave, At, Leased, Answer
  <2> QED
    BY <2>1, EndLeases
<1>2. CASE Unwind(w)
  BY <1>2, EndLeases DEF Unwind, At, Leased
<1>3. CASE Raise(w)
  <2>1. UNCHANGED leases /\ Depth(w) > 0
    BY <1>3 DEF Raise, graph, leases
  <2>2. CASE At(w, "enter")
    BY <1>3, <2>1, <2>2, EndLeases DEF Raise, At, Leased
  <2>3. CASE ~At(w, "enter")
    BY <1>3, <2>1, <2>3, FrameGoesTo DEF Raise, Leased
  <2> QED
    BY <2>2, <2>3
<1> QED
  BY <1>1, <1>2, <1>3

LEMMA EdgeLeases ==
  ASSUME GraphTypeOK, StackInv, LeaseInv, NEW w \in Worker,
         Start(w) \/ Assemble(w) \/ Crash(w)
  PROVE  LeaseInv'
<1>1. stack \in [Worker -> Seq(FrameType)] /\ phase \in [Worker -> Phase]
      /\ (phase[w] = "search" <=> stack[w] # << >>)
  BY DEF StackInv, LeapTypeOK
<1>2. CASE Start(w)
  <2>1. UNCHANGED leases
    BY <1>2 DEF Start, RegisterGoal, graph, leases
  <2> DEFINE c == Call(Root[w])
  <2>2. phase[w] = "idle" /\ stack[w] = << >> /\ stack'[w] = <<c>> /\ Alone(w)
    BY <1>1, <1>2 DEF Start, Alone
  <2>3. c.at \notin Leased
    BY DEF Call, Leased
  <2> HIDE DEF c
  <2>4. Held(<<c>>) = {}
    BY <2>3 DEF Held
  <2>5. Held(stack'[w]) = Held(stack[w])
    BY <2>2, <2>4, HeldEmpty
  <2> QED
    BY <2>1, <2>2, <2>5, LeasesKept DEF Ended
<1>3. CASE Assemble(w)
  <2>1. UNCHANGED leases /\ stack' = stack /\ phase[w] = "assemble" /\ Alone(w)
    BY <1>1, <1>3 DEF Assemble, graph, leases, Alone
  <2> QED
    BY <2>1, LeasesKept DEF Ended
<1>4. CASE Crash(w)
  <2>1. UNCHANGED leases /\ stack'[w] = << >> /\ phase'[w] = "crashed" /\ phase[w] \notin Ended
        /\ Alone(w)
    BY <1>1, <1>4 DEF Crash, graph, leases, Alone, Ended
  <2> QED
    BY <2>1, HeldEmpty, LeasesKept
<1> QED
  BY <1>2, <1>3, <1>4

LEMMA ExpiryLeases ==
  ASSUME GraphTypeOK, LeaseInv, NEW g \in Goal, LeaseEnds(g)
  PROVE  LeaseInv'
BY DEF LeaseEnds, Expire, search, LeaseInv

LEMMA LeaseInvStep == GraphInv /\ StackInv /\ LeaseInv /\ [LeapNext]_vars => LeaseInv'
<1> SUFFICES ASSUME GraphTypeOK, StackInv, LeaseInv, [LeapNext]_vars PROVE LeaseInv'
  BY DEF GraphInv
<1>1. ASSUME NEW w \in Worker, Step(w) PROVE LeaseInv'
  BY <1>1, MiddleStep, MiddleKeepsLeases, ChildLeases, EnterLeases, LeaveLeases, EdgeLeases
     DEF Step
<1>2. CASE UNCHANGED vars
  BY <1>2 DEF vars, graph, leases, search, LeaseInv
<1> QED
  BY <1>1, <1>2, EdgeLeases, ExpiryLeases DEF LeapNext

LEMMA LeapInitLeases == LeapInit => LeaseInv
BY HeldEmpty DEF LeapInit, LeaseInv

-----------------------------------------------------------------------------
(***************************************************************************)
(* Theorems                                                                *)
(***************************************************************************)
\* Leases and stacks agree: a worker that keeps to its budget has the lease of
\* every goal it is in the middle of, a lease belongs to a worker that is in the
\* middle of the goal or has died, and only the late and the dead see one expire.
THEOREM LeaseInvariant == LeapSpec => [](GraphInv /\ StackInv /\ LeaseInv)
<1>1. LeapInit => GraphInv /\ StackInv /\ LeaseInv
  BY LeapInitGraph, LeapInitStack, LeapInitLeases
<1>2. GraphInv /\ StackInv /\ LeaseInv /\ [LeapNext]_vars => (GraphInv /\ StackInv /\ LeaseInv)'
  BY SearchUsesGraph, GraphInvStep, StackInvStep, LeaseInvStep
<1> QED
  BY <1>1, <1>2, PTL DEF LeapSpec

\* No two searches that keep to their budgets are in the middle of one goal:
\* each has the lease.
THEOREM UnderLease == LeapSpec => []WorksUnderLease
<1>1. StackInv /\ LeaseInv => WorksUnderLease
  BY DEF StackInv, LeapTypeOK, LeaseInv, Held, WorksUnderLease
<1> QED
  BY <1>1, LeaseInvariant, PTL

\* A search that ends gives every lease back, unless its process dies.
THEOREM AllReturned == LeapSpec => []LeasesReturned
<1>1. GraphInv /\ StackInv /\ LeaseInv => LeasesReturned
  <2> SUFFICES ASSUME GraphInv, StackInv, LeaseInv, NEW g \in Goal, lease[g] # Nobody,
                      phase[lease[g]] # "crashed"
               PROVE  phase[lease[g]] = "search"
    BY DEF LeasesReturned
  <2>1. lease[g] \in Worker
    BY DEF GraphInv, GraphTypeOK
  <2> QED
    BY <2>1, HeldWhileSearching DEF LeaseInv
<1> QED
  BY <1>1, LeaseInvariant, PTL

-----------------------------------------------------------------------------
(***************************************************************************)
(* What a transaction does to the rows and the selected proofs             *)
(***************************************************************************)
\* Every edge of the graph joins goals it has rows for.
Known == \A d \in Present : {d.parent} \cup Children(d) \subseteq Registered

\* No transaction but a direct proof's replaces the proof of a proved goal.
KeepsProofs == \A g \in Proved : proof'[g] = proof[g] /\ deps'[g] = deps[g]

LEMMA PropagateRows ==
  ASSUME NEW os \in [Goal -> OrStatus], NEW as \in [Decomposition -> AndStatus],
         NEW sel \in [Goal -> Decomposition \cup {Unproved, Direct}],
         Propagate(os, as, sel)
  PROVE  /\ Registered' = {g \in Goal : os[g] # "absent"} \cup Proved'
         /\ \A g \in Proved' \ ProvedIn(os) : \E d \in Present' : d.parent = g
         /\ Present' = PresentIn(as)
         /\ \A g \in ProvedIn(os) : g \in Proved' /\ proof'[g] = sel[g]
<1>1. Outcome(os, as, sel)
  BY PropagateOutcome
<1>2. \E after : orStatus' = [g \in Goal |-> IF g \in after THEN "proved" ELSE os[g]]
  BY Zenon DEF Propagate
<1>3. \A g \in Goal : orStatus'[g] \in {"proved", os[g]}
  BY <1>2
<1>4. \A g \in Goal : os[g] # "absent" => orStatus'[g] # "absent"
  BY <1>3
<1>5. \A g \in Goal : orStatus'[g] # "absent" => os[g] # "absent" \/ orStatus'[g] = "proved"
  BY <1>3
<1>6. Registered' = {g \in Goal : os[g] # "absent"} \cup Proved'
  BY <1>4, <1>5 DEF Registered, Proved
<1> QED
  BY <1>1, <1>6 DEF Outcome, ProvedIn

LEMMA CommitDirectSelects ==
  ASSUME GraphInv, NEW x \in Goal, NEW ds \in SUBSET Goal, CommitDirect(x, ds)
  PROVE  /\ Present' = Present /\ Registered' = Registered \cup Proved'
         /\ \A g \in Proved' \ (Proved \cup {x}) : \E d \in Present' : d.parent = g
         /\ x \in Proved' /\ proof'[x] = Direct /\ deps'[x] = ds
         /\ \A g \in Proved \ {x} : proof'[g] = proof[g] /\ deps'[g] = deps[g]
<1> DEFINE os == [orStatus EXCEPT ![x] = "proved"]
           sel == [proof EXCEPT ![x] = Direct]
<1>1. /\ os \in [Goal -> OrStatus] /\ os[x] = "proved" /\ orStatus[x] # "absent"
      /\ \A g \in Goal \ {x} : os[g] = orStatus[g]
      /\ sel \in [Goal -> Decomposition \cup {Unproved, Direct}] /\ sel[x] = Direct
      /\ \A g \in Goal \ {x} : sel[g] = proof[g]
      /\ andStatus \in [Decomposition -> AndStatus]
  BY DEF CommitDirect, GraphInv, GraphTypeOK, OrStatus
<1>2. Propagate(os, andStatus, sel) /\ deps' = [deps EXCEPT ![x] = ds]
  BY DEF CommitDirect
<1>3. deps'[x] = ds /\ \A g \in Goal \ {x} : deps'[g] = deps[g]
  BY <1>2 DEF GraphInv, GraphTypeOK
<1> HIDE DEF os, sel
<1>4. /\ Registered' = {g \in Goal : os[g] # "absent"} \cup Proved'
      /\ \A g \in Proved' \ ProvedIn(os) : \E d \in Present' : d.parent = g
      /\ Present' = PresentIn(andStatus)
      /\ \A g \in ProvedIn(os) : g \in Proved' /\ proof'[g] = sel[g]
  BY <1>1, <1>2, PropagateRows
<1>5. ProvedIn(os) = Proved \cup {x} /\ {g \in Goal : os[g] # "absent"} = Registered
  BY <1>1 DEF ProvedIn, Proved, Registered
<1>6. Present' = Present
  BY <1>4 DEF PresentIn, Present
<1> QED
  BY <1>1, <1>3, <1>4, <1>5, <1>6 DEF Proved

LEMMA PropagateAllRows ==
  ASSUME GraphInv, PropagateAll
  PROVE  /\ Present' = Present /\ Registered' = Registered \cup Proved' /\ KeepsProofs
         /\ \A g \in Proved' \ Proved : \E d \in Present' : d.parent = g
<1>1. Propagate(orStatus, andStatus, proof) /\ deps' = deps
  BY DEF PropagateAll
<1>2. ProvedIn(orStatus) = Proved /\ PresentIn(andStatus) = Present
      /\ Registered = {g \in Goal : orStatus[g] # "absent"}
  BY DEF ProvedIn, PresentIn, Proved, Present, Registered
<1> QED
  BY <1>1, <1>2, PropagateRows DEF GraphInv, GraphTypeOK, KeepsProofs

LEMMA CommitDecompositionRows ==
  ASSUME GraphInv, NEW d \in Decomposition, CommitDecomposition(d)
  PROVE  /\ Present' = Present \cup {d} /\ KeepsProofs /\ d.parent \in Registered
         /\ Registered' = Registered \cup Children(d) \cup Proved'
         /\ \A g \in Proved' \ Proved : \E e \in Present' : e.parent = g
<1> DEFINE opened == {c \in Children(d) : orStatus[c] = "absent"} \cup ({d.parent} \ Proved)
           os == [g \in Goal |-> IF g \in opened THEN "open" ELSE orStatus[g]]
           as == [andStatus EXCEPT ![d] = IF @ = "absent" THEN "open" ELSE @]
<1>1. /\ os \in [Goal -> OrStatus]
      /\ as \in [Decomposition -> AndStatus]
      /\ proof \in [Goal -> Decomposition \cup {Unproved, Direct}]
  BY DEF GraphInv, GraphTypeOK, OrStatus, AndStatus
<1>2. d.parent \in Goal /\ d.parent \in Registered /\ Children(d) \subseteq Goal
  BY DecompositionType DEF CommitDecomposition, Registered
<1>3. ProvedIn(os) = Proved
  BY DEF ProvedIn, Proved
<1>4. PresentIn(as) = Present \cup {d}
  BY DEF PresentIn, Present, GraphInv, GraphTypeOK
<1>5. {g \in Goal : os[g] # "absent"} = Registered \cup Children(d)
  BY <1>2 DEF Registered
<1>6. Propagate(os, as, proof) /\ deps' = deps
  BY DEF CommitDecomposition
<1> HIDE DEF os, as
<1> QED
  BY <1>1, <1>2, <1>3, <1>4, <1>5, <1>6, PropagateRows DEF KeepsProofs

LEMMA SameRows ==
  ASSUME GraphInv,
         \/ UNCHANGED graph \/ LeaseStep
         \/ \E d \in Decomposition : PauseAnd(d) \/ ActivateAnd(d)
  PROVE  Registered' = Registered
<1>1. orStatus \in [Goal -> OrStatus]
  BY DEF GraphInv, GraphTypeOK
<1>2. CASE UNCHANGED graph
  BY <1>2 DEF graph, nodes, Registered
<1>3. CASE LeaseStep
  <2>1. ASSUME NEW w \in Worker, NEW g \in Goal, AcquireLease(w, g)
        PROVE  Registered' = Registered
    BY <1>1, <2>1 DEF AcquireLease, Registered
  <2>2. ASSUME NEW w \in Worker, NEW g \in Goal, RefuseLease(w, g)
        PROVE  Registered' = Registered
    BY <2>2 DEF RefuseLease, nodes, Registered
  <2>3. ASSUME NEW w \in Worker, NEW g \in Goal, ReleaseLease(w, g)
        PROVE  Registered' = Registered
    BY <1>1, <2>3 DEF ReleaseLease, Registered
  <2>4. ASSUME NEW g \in Goal, Expire(g) PROVE Registered' = Registered
    BY <2>4 DEF Expire, nodes, Registered
  <2> QED
    BY <1>3, <2>1, <2>2, <2>3, <2>4 DEF LeaseStep
<1>4. ASSUME NEW d \in Decomposition, PauseAnd(d) \/ ActivateAnd(d)
      PROVE  Registered' = Registered
  BY <1>4 DEF PauseAnd, ActivateAnd, Registered
<1> QED
  BY <1>2, <1>3, <1>4

LEMMA QuietRows ==
  ASSUME GraphInv,
         \/ UNCHANGED graph \/ LeaseStep
         \/ \E g \in Goal : RegisterGoal(g)
         \/ \E d \in Decomposition : PauseAnd(d) \/ ActivateAnd(d)
  PROVE  Present' = Present /\ Proved' = Proved /\ proof' = proof /\ deps' = deps
         /\ Registered \subseteq Registered'
         /\ \E x : Registered' \subseteq Registered \cup {x}
<1>1. CASE UNCHANGED graph
  BY <1>1, SameRows DEF graph, nodes, Present, Proved
<1>2. CASE LeaseStep
  BY <1>2, SameRows, LeaseStepQuiet DEF GraphInv
<1>3. ASSUME NEW g \in Goal, RegisterGoal(g)
      PROVE  Registered' = Registered \cup {g}
  BY <1>3 DEF RegisterGoal, Registered, GraphInv, GraphTypeOK
<1>4. CASE \/ \E g \in Goal : RegisterGoal(g)
           \/ \E d \in Decomposition : PauseAnd(d) \/ ActivateAnd(d)
  BY <1>3, <1>4, SameRows, QuietNodeStep DEF GraphInv
<1> QED
  BY <1>1, <1>2, <1>4

LEMMA KnownStep ==
  ASSUME GraphInv, Known, [GraphNext]_graph
  PROVE  Known'
<1>1. ASSUME Present' = Present, Registered \subseteq Registered' PROVE Known'
  BY <1>1 DEF Known
<1>2. ASSUME NEW x \in Goal, NEW ds \in SUBSET Goal, CommitDirect(x, ds) PROVE Known'
  BY <1>1, <1>2, CommitDirectSelects
<1>3. CASE PropagateAll
  BY <1>1, <1>3, PropagateAllRows
<1>4. ASSUME NEW d \in Decomposition, CommitDecomposition(d) PROVE Known'
  <2>1. Present' = Present \cup {d} /\ d.parent \in Registered'
        /\ Registered \subseteq Registered' /\ Children(d) \subseteq Registered'
    BY <1>4, CommitDecompositionRows
  <2> QED
    BY <2>1 DEF Known
<1> QED
  BY <1>1, <1>2, <1>3, <1>4, QuietRows DEF GraphNext, NodeStep

\* No transaction but a registration or a decomposition adds rows.
LEMMA NoNewRows ==
  ASSUME GraphInv, Known
  PROVE  /\ \A x \in Goal, ds \in SUBSET Goal : CommitDirect(x, ds) => Registered' = Registered
         /\ PropagateAll => Registered' = Registered
<1>1. \A d \in Present : d.parent \in Registered
  BY DEF Known
<1>2. Proved \subseteq Registered
  BY DEF Proved, Registered
<1>3. ASSUME NEW x \in Goal, NEW ds \in SUBSET Goal, CommitDirect(x, ds)
      PROVE  Registered' = Registered
  <2>1. x \in Registered
    BY <1>3 DEF CommitDirect, Registered
  <2> QED
    BY <1>1, <1>2, <1>3, <2>1, CommitDirectSelects
<1>4. PropagateAll => Registered' = Registered
  BY <1>1, <1>2, PropagateAllRows
<1> QED
  BY <1>3, <1>4

\* A committed decomposition registers its children and nothing else.
LEMMA DecompositionRegisters ==
  ASSUME GraphInv, Known, NEW d \in Decomposition, CommitDecomposition(d)
  PROVE  Registered' = Registered \cup Children(d)
<1>1. /\ Present' = Present \cup {d} /\ d.parent \in Registered
      /\ Registered' = Registered \cup Children(d) \cup Proved'
      /\ \A g \in Proved' \ Proved : \E e \in Present' : e.parent = g
  BY CommitDecompositionRows
<1>2. Proved' \subseteq Registered
  BY <1>1 DEF Known, Proved, Registered
<1> QED
  BY <1>1, <1>2

-----------------------------------------------------------------------------
(***************************************************************************)
(* Searches that run one after the other                                   *)
(***************************************************************************)
\* Of two searches one starts after the other has ended.
OneAfterAnother == \A v, w \in Worker : v # w => v \in Earlier[w] \/ w \in Earlier[v]

Turns == \A v, w \in Worker : v \in Earlier[w] /\ phase[w] # "idle" => phase[v] \in Ended

\* What a search has found out about the graph and is about to rely on: what its
\* proof cites is proved without the goal.
Foresight(w) ==
  At(w, "commit") => Top(w).cites \subseteq Proved /\ Top(w).goal \notin Cone(Top(w).cites)

TurnInv ==
  /\ Known /\ Turns /\ SelectedFounded
  /\ \A w \in Worker : Foresight(w)

\* The stages at which a search relies on something it has found out.
Watched == {"lease", "tactics", "branches", "closed", "commit", "expand"}
Unwatched(w) == Depth(w) > 0 => Top(w).at \notin Watched

Acts(w) == Start(w) \/ Step(w) \/ Crash(w)

LEMMA ActsPhase ==
  ASSUME StackInv, NEW w \in Worker, Acts(w)
  PROVE  /\ phase[w] \notin Ended
         /\ phase[w] = "idle" => Start(w)
<1>1. Depth(w) > 0 => phase[w] = "search"
  BY TopFacts
<1>2. Step(w) => Depth(w) > 0 \/ phase[w] = "assemble"
  BY DEF Step, At, Enter, Lease, Tactics, Close, Partition, Priority, Child, Judge, Pause, Prove,
         Commit, Blueprint, CountNodes, Expand, Activate, Deferred, Status, Leave, Raise, Unwind,
         Assemble
<1>3. Start(w) => phase[w] = "idle"
  BY DEF Start
<1>4. Crash(w) => phase[w] \in {"search", "assemble"}
  BY DEF Crash
<1> QED
  BY <1>1, <1>2, <1>3, <1>4 DEF Acts, Ended

\* The top frame is replaced.
LEMMA TopBecomes ==
  ASSUME StackInv, NEW w \in Worker, Depth(w) > 0, NEW f,
         stack' = [stack EXCEPT ![w][Depth(w)] = f]
  PROVE  /\ Depth(w)' = Depth(w) /\ Top(w)' = f
         /\ \A v \in Worker \ {w} : stack'[v] = stack[v]
<1>1. stack \in [Worker -> Seq(FrameType)] /\ stack[w] \in Seq(FrameType)
  BY DEF StackInv, LeapTypeOK
<1>2. stack'[w] = [stack[w] EXCEPT ![Depth(w)] = f]
      /\ \A v \in Worker \ {w} : stack'[v] = stack[v]
  BY <1>1
<1>3. Len(stack'[w]) = Len(stack[w]) /\ stack'[w][Len(stack[w])] = f
  BY <1>1, <1>2 DEF Depth
<1> QED
  BY <1>2, <1>3 DEF Depth, Top

LEMMA TopGoes ==
  ASSUME StackInv, NEW w \in Worker, Depth(w) > 0, NEW stage, Goto(w, stage)
  PROVE  /\ Alone(w) /\ Depth(w)' = Depth(w)
         /\ Top(w)'.at = stage /\ Top(w)'.goal = Top(w).goal /\ Top(w)'.and = Top(w).and
<1> DEFINE f == [Top(w) EXCEPT !.at = stage]
<1>1. stack' = [stack EXCEPT ![w][Depth(w)] = f] /\ phase' = phase
  BY DEF Goto, Become
<1>2. f.at = stage /\ f.goal = Top(w).goal /\ f.and = Top(w).and
  BY TopFacts DEF FrameType
<1> HIDE DEF f
<1> QED
  BY <1>1, <1>2, TopBecomes DEF Alone

LEMMA TopTurns ==
  ASSUME StackInv, NEW w \in Worker, Depth(w) > 0, NEW f, Become(w, f)
  PROVE  Alone(w) /\ Depth(w)' = Depth(w) /\ Top(w)' = f
BY TopBecomes DEF Become, Alone

LEMMA TopSolves ==
  ASSUME StackInv, NEW w \in Worker, Depth(w) > 0, NEW f \in FrameType, NEW d, NEW back,
         Become(w, Solving(f, d, back))
  PROVE  Alone(w) /\ Unwatched(w)'
<1> DEFINE h == Solving(f, d, back)
<1>1. h.at = "child"
  BY DEF Solving, FrameType
<1> HIDE DEF h
<1> QED
  BY <1>1, TopTurns DEF h, Unwatched, Watched

LEMMA TopEnds ==
  ASSUME StackInv, NEW w \in Worker, Depth(w) > 0,
         NEW stage \in {"child", "pause", "raise"}, Drop(w, stage)
  PROVE  Alone(w) /\ Unwatched(w)'
<1> DEFINE t == Popped(stack[w], stage)
<1>1. stack \in [Worker -> Seq(FrameType)] /\ stack[w] \in Seq(FrameType)
      /\ StackIn(Present, stack[w])
  BY DEF StackInv, LeapTypeOK
<1>2. stack' = [stack EXCEPT ![w] = t]
  BY <1>1 DEF Drop, Popped, Depth
<1>3. stack'[w] = t
  BY <1>1, <1>2
<1>4. t \in Seq(FrameType) /\ Len(t) = Len(stack[w]) - 1
  BY <1>1, PopTop DEF Depth
<1>5. ASSUME Len(t) > 0 PROVE t[Len(t)].at = stage
  <2>1. Len(t) \in 1..(Len(stack[w]) - 1) /\ Len(t) = Len(stack[w]) - 1
        /\ Len(t) \in 1..Len(stack[w])
    BY <1>1, <1>4, <1>5
  <2>2. stack[w][Len(t)] \in FrameType
    BY <1>1, <2>1
  <2>3. t[Len(t)] = [stack[w][Len(t)] EXCEPT !.at = stage]
    BY <2>1 DEF Popped
  <2> QED
    BY <2>2, <2>3, ExceptAt
<1> HIDE DEF t
<1>6. Unwatched(w)'
  BY <1>3, <1>5 DEF Unwatched, Depth, Top, Watched
<1> QED
  BY <1>6, FrameEnds

\* The stages that rely on nothing, or on what they hold themselves.
LEMMA MiddleUnwatched ==
  ASSUME StackInv, NEW w \in Worker,
         \/ Close(w) \/ Partition(w) \/ Priority(w) \/ Judge(w) \/ Pause(w) \/ Commit(w)
         \/ Blueprint(w) \/ Expand(w) \/ Activate(w) \/ Deferred(w) \/ Status(w)
  PROVE  Alone(w) /\ Unwatched(w)'
<1>1. Depth(w) > 0
  BY DEF At, Close, Partition, Priority, Judge, Pause, Commit, Blueprint, Expand, Activate,
         Deferred, Status
<1>2. Top(w) \in FrameType
  BY <1>1, TopFacts
<1>3. ASSUME NEW stage, stage \notin Watched, Goto(w, stage) PROVE Alone(w) /\ Unwatched(w)'
  BY <1>1, <1>3, TopGoes DEF Unwatched
<1>4. ASSUME NEW f, f.at \notin Watched, Become(w, f) PROVE Alone(w) /\ Unwatched(w)'
  BY <1>1, <1>4, TopTurns DEF Unwatched
<1>5. ASSUME NEW f \in FrameType, NEW d, NEW back, Become(w, Solving(f, d, back))
      PROVE  Alone(w) /\ Unwatched(w)'
  BY <1>1, <1>5, TopSolves
<1>6. CASE Close(w) \/ Status(w)
  BY <1>3, <1>6 DEF Close, Status, Watched
<1>7. Top(w).back \notin Watched
  BY <1>2 DEF FrameType, Watched
<1>8. CASE Judge(w)
  BY <1>3, <1>7, <1>8 DEF Judge, Watched
<1>9. CASE Partition(w)
  <2>1. PICK todo, later, done :
          Become(w, [Top(w) EXCEPT !.at = "priority", !.todo = todo, !.later = later,
                                   !.settled = done])
    BY <1>9 DEF Partition
  <2> DEFINE f == [Top(w) EXCEPT !.at = "priority", !.todo = todo, !.later = later,
                                 !.settled = done]
  <2>2. f.at \notin Watched
    BY <1>2 DEF FrameType, Watched
  <2> HIDE DEF f
  <2> QED
    BY <1>4, <2>1, <2>2 DEF f
<1>10. CASE Pause(w)
  <2> DEFINE f == [Top(w) EXCEPT !.at = Top(w).back, !.and = NoAnd, !.kids = << >>]
  <2>1. f.at \notin Watched /\ Become(w, f)
    BY <1>2, <1>7, <1>10 DEF FrameType, Pause
  <2> HIDE DEF f
  <2> QED
    BY <1>4, <2>1
<1>11. CASE Commit(w)
  <2> DEFINE f == [Top(w) EXCEPT !.at = "succeed", !.cites = {}]
  <2>1. f.at \notin Watched /\ Become(w, f)
    BY <1>2, <1>11 DEF FrameType, Watched, Commit
  <2> HIDE DEF f
  <2> QED
    BY <1>4, <2>1
<1>12. CASE Priority(w)
  <2>1. CASE Goto(w, "direct") \/ Goto(w, "status")
    BY <1>3, <2>1 DEF Watched
  <2>2. ASSUME NEW d, Become(w, Solving([Top(w) EXCEPT !.todo = @ \ {d}], d, "priority"))
        PROVE  Alone(w) /\ Unwatched(w)'
    <3> DEFINE f == [Top(w) EXCEPT !.todo = @ \ {d}]
    <3>1. f \in FrameType
      BY <1>2 DEF FrameType
    <3> HIDE DEF f
    <3> QED
      BY <1>5, <2>2, <3>1 DEF f
  <2> QED
    BY <1>12, <2>1, <2>2 DEF Priority
<1>13. CASE Deferred(w)
  <2>1. CASE Goto(w, "status")
    BY <1>3, <2>1 DEF Watched
  <2>2. ASSUME NEW d, Become(w, Solving([Top(w) EXCEPT !.later = @ \ {d}], d, "deferred"))
        PROVE  Alone(w) /\ Unwatched(w)'
    <3> DEFINE f == [Top(w) EXCEPT !.later = @ \ {d}]
    <3>1. f \in FrameType
      BY <1>2 DEF FrameType
    <3> HIDE DEF f
    <3> QED
      BY <1>5, <2>2, <3>1 DEF f
  <2> QED
    BY <1>13, <2>1, <2>2 DEF Deferred
<1>14. CASE Expand(w)
  <2>1. CASE Goto(w, "activate")
    BY <1>3, <2>1 DEF Watched
  <2>2. CASE Become(w, [Top(w) EXCEPT !.at = "blueprints", !.and = NoAnd])
    <3> DEFINE f == [Top(w) EXCEPT !.at = "blueprints", !.and = NoAnd]
    <3>1. f.at \notin Watched
      BY <1>2 DEF FrameType, Watched
    <3> HIDE DEF f
    <3> QED
      BY <1>4, <2>2, <3>1 DEF f
  <2> QED
    BY <1>14, <2>1, <2>2 DEF Expand
<1>15. CASE Blueprint(w)
  <2>1. CASE Goto(w, "deferred")
    BY <1>3, <2>1 DEF Watched
  <2>2. CASE Become(w, [Top(w) EXCEPT !.tries = @ - 1])
    <3> DEFINE f == [Top(w) EXCEPT !.tries = @ - 1]
    <3>1. f.at = Top(w).at
      BY <1>2 DEF FrameType
    <3>2. f.at \notin Watched
      BY <1>15, <3>1 DEF Blueprint, At, Watched
    <3> HIDE DEF f
    <3> QED
      BY <1>4, <2>2, <3>2 DEF f
  <2>3. ASSUME NEW d, Become(w, [Top(w) EXCEPT !.at = "count", !.tries = @ - 1, !.and = d])
        PROVE  Alone(w) /\ Unwatched(w)'
    <3> DEFINE f == [Top(w) EXCEPT !.at = "count", !.tries = @ - 1, !.and = d]
    <3>1. f.at \notin Watched
      BY <1>2 DEF FrameType, Watched
    <3> HIDE DEF f
    <3> QED
      BY <1>4, <2>3, <3>1 DEF f
  <2> QED
    BY <1>15, <2>1, <2>2, <2>3 DEF Blueprint
<1>16. CASE Activate(w)
  BY <1>2, <1>5, <1>16 DEF Activate
<1> QED
  BY <1>6, <1>8, <1>9, <1>10, <1>11, <1>12, <1>13, <1>14, <1>15, <1>16

LEMMA EdgesUnwatched ==
  ASSUME StackInv, NEW w \in Worker,
         Child(w) \/ Leave(w) \/ Raise(w) \/ Unwind(w) \/ Assemble(w) \/ Start(w) \/ Crash(w)
  PROVE  Alone(w) /\ Unwatched(w)'
<1>1. stack \in [Worker -> Seq(FrameType)] /\ phase \in [Worker -> Phase]
      /\ stack[w] \in Seq(FrameType) /\ (phase[w] = "search" <=> stack[w] # << >>)
  BY DEF StackInv, LeapTypeOK
<1>2. ASSUME NEW stage \in {"child", "pause", "raise"}, Depth(w) > 0, Drop(w, stage)
      PROVE  Alone(w) /\ Unwatched(w)'
  BY <1>2, TopEnds
<1>3. CASE Leave(w) \/ Unwind(w)
  BY <1>2, <1>3 DEF Leave, Unwind, At, Answer
<1>4. CASE Raise(w)
  <2>1. CASE Depth(w) > 0 /\ Goto(w, "raise")
    BY <2>1, TopGoes DEF Unwatched, Watched
  <2> QED
    BY <1>2, <1>4, <2>1 DEF Raise, At
<1>5. CASE Child(w)
  <2>1. CASE Depth(w) > 0 /\ Goto(w, "judge")
    BY <2>1, TopGoes DEF Unwatched, Watched
  <2>2. CASE ~Goto(w, "judge")
    <3> DEFINE h == [Top(w) EXCEPT !.kids = Tail(Top(w).kids)]
               t == [stack[w] EXCEPT ![Len(stack[w])] = h]
               c == Call(Head(Top(w).kids))
    <3>1. stack' = [stack EXCEPT ![w] = Append(t, c)] /\ phase' = phase /\ Depth(w) > 0
      BY <1>5, <2>2 DEF Child, At, Top, Depth
    <3> HIDE DEF h
    <3>2. Len(t) = Len(stack[w]) /\ \E T : t \in Seq(T)
      <4>1. PICK T : T = FrameType \cup {h}
        OBVIOUS
      <4>2. PICK s \in Seq(T) : s = stack[w]
        <5>1. Seq(FrameType) \subseteq Seq(T)
          BY <4>1
        <5> QED
          BY <1>1, <5>1
      <4>3. h \in T /\ Len(s) > 0
        BY <3>1, <4>1, <4>2 DEF Depth
      <4>4. [s EXCEPT ![Len(s)] = h] \in Seq(T) /\ Len([s EXCEPT ![Len(s)] = h]) = Len(s)
        BY <4>3
      <4>5. t = [s EXCEPT ![Len(s)] = h]
        BY <4>2
      <4>6. Len(t) = Len(stack[w]) /\ t \in Seq(T)
        BY <4>2, <4>4, <4>5
      <4> QED
        BY <4>6
    <3>3. c.at = "enter"
      BY DEF Call
    <3> HIDE DEF t, c
    <3>4. stack'[w] = Append(t, c) /\ \A v \in Worker \ {w} : stack'[v] = stack[v]
      BY <1>1, <3>1
    <3>5. Len(stack'[w]) = Len(t) + 1 /\ stack'[w][Len(t) + 1] = c
      BY <3>2, <3>4
    <3> QED
      BY <3>1, <3>3, <3>4, <3>5 DEF Alone, Unwatched, Watched, Depth, Top
  <2> QED
    BY <1>5, <2>1, <2>2 DEF Child, At
<1>6. CASE Assemble(w)
  <2>1. stack' = stack /\ stack[w] = << >> /\ \A v \in Worker \ {w} : phase'[v] = phase[v]
    BY <1>1, <1>6 DEF Assemble
  <2> QED
    BY <2>1 DEF Alone, Unwatched, Depth
<1>7. CASE Start(w)
  <2> DEFINE c == Call(Root[w])
  <2>1. c.at = "enter"
    BY DEF Call
  <2>2. stack'[w] = <<c>> /\ Alone(w)
    BY <1>1, <1>7 DEF Start, Alone
  <2> HIDE DEF c
  <2> QED
    BY <2>1, <2>2 DEF Unwatched, Watched, Depth, Top
<1>8. CASE Crash(w)
  <2>1. stack'[w] = << >> /\ Alone(w)
    BY <1>1, <1>8 DEF Crash, Alone
  <2> QED
    BY <2>1 DEF Unwatched, Depth
<1> QED
  BY <1>3, <1>4, <1>5, <1>6, <1>7, <1>8

\* The stages that find something out.
LEMMA EnterAhead ==
  ASSUME StackInv, NEW w \in Worker, Enter(w)
  PROVE  /\ Alone(w) /\ UNCHANGED <<graph, tactic>>
         /\ \/ Unwatched(w)'
            \/ /\ Top(w)'.at = "lease" /\ Top(w)'.goal = Top(w).goal
               /\ Top(w).goal \notin Proved
<1>1. Depth(w) > 0 /\ UNCHANGED <<graph, tactic>>
  BY DEF Enter, At, Answer, Drop, Goto, Become
<1>2. CASE Answer(w, TRUE) \/ Answer(w, FALSE)
  BY <1>1, <1>2, TopEnds DEF Answer
<1>3. CASE Goto(w, "lease") /\ Top(w).goal \notin Proved
  BY <1>1, <1>3, TopGoes
<1> QED
  BY <1>1, <1>2, <1>3 DEF Enter

LEMMA LeaseAhead ==
  ASSUME StackInv, GraphTypeOK, NEW w \in Worker, Lease(w)
  PROVE  /\ Alone(w) /\ Proved' = Proved /\ UNCHANGED <<andStatus, proof, deps, tactic>>
         /\ At(w, "lease")
         /\ \/ Unwatched(w)'
            \/ Top(w)'.at = "tactics" /\ Top(w)'.goal = Top(w).goal
<1>1. Depth(w) > 0 /\ Top(w).goal \in Goal /\ UNCHANGED tactic /\ At(w, "lease")
  BY TopFacts DEF Lease, At, Answer, Drop, Goto, Become
<1>2. Proved' = Proved /\ UNCHANGED <<andStatus, proof, deps>>
  BY <1>1, LeaseStepQuiet DEF Lease, LeaseStep
<1>3. CASE Answer(w, FALSE)
  BY <1>1, <1>2, <1>3, TopEnds DEF Answer
<1>4. CASE Goto(w, "tactics")
  BY <1>1, <1>2, <1>4, TopGoes
<1> QED
  BY <1>3, <1>4 DEF Lease

LEMMA TacticsAhead ==
  ASSUME StackInv, NEW w \in Worker, Tactics(w)
  PROVE  /\ Alone(w) /\ UNCHANGED graph /\ At(w, "tactics") /\ Depth(w)' > 0
         /\ Top(w)'.at \in {"tactics", "branches", "closed"} /\ Top(w)'.goal = Top(w).goal
         /\ \/ UNCHANGED tactic
            \/ \E verdict \in {"rejected", "verified"} :
                 /\ tactic' = [tactic EXCEPT ![Top(w).goal] = Append(@, verdict)]
                 /\ verdict = "verified" => Top(w)'.at = "closed"
<1>1. Depth(w) > 0 /\ UNCHANGED graph /\ At(w, "tactics") /\ Top(w) \in FrameType
  BY TopFacts DEF Tactics, At
<1>2. CASE Goto(w, "branches")
  <2>1. UNCHANGED tactic
    BY <1>2 DEF Goto, Become
  <2> QED
    BY <1>1, <1>2, <2>1, TopGoes
<1>3. CASE ~Goto(w, "branches")
  <2>1. PICK verdict \in {"rejected", "verified"} :
          /\ stack' = [stack EXCEPT ![w][Depth(w)].at =
                         IF verdict = "verified" THEN "closed" ELSE "tactics"]
          /\ tactic' = [tactic EXCEPT ![Top(w).goal] = Append(@, verdict)]
          /\ phase' = phase
    BY <1>3 DEF Tactics
  <2>2. PICK stage : stage = IF verdict = "verified" THEN "closed" ELSE "tactics"
    OBVIOUS
  <2> DEFINE f == [Top(w) EXCEPT !.at = stage]
  <2>3. f.at = stage /\ f.goal = Top(w).goal
    BY <1>1, ExceptAt
  <2>4. stack' = [stack EXCEPT ![w][Depth(w)] = f]
    BY <2>1, <2>2 DEF Top
  <2> HIDE DEF f
  <2>5. Depth(w)' = Depth(w) /\ Top(w)' = f /\ Alone(w)
    BY <1>1, <2>1, <2>4, TopBecomes DEF Alone
  <2> QED
    BY <1>1, <2>1, <2>2, <2>3, <2>5
<1> QED
  BY <1>2, <1>3

LEMMA CountAhead ==
  ASSUME StackInv, NEW w \in Worker, CountNodes(w)
  PROVE  /\ Alone(w) /\ UNCHANGED <<graph, tactic>>
         /\ \/ Unwatched(w)'
            \/ /\ Top(w)'.at = "expand" /\ Top(w)'.and = Top(w).and
               /\ ~(Cardinality(Registered \cup Children(Top(w).and)) > MaxNodes)
<1>1. Depth(w) > 0 /\ UNCHANGED <<graph, tactic>> /\ Top(w) \in FrameType
  BY TopFacts DEF CountNodes, At, Goto, Become
<1>2. CASE Become(w, [Top(w) EXCEPT !.at = "blueprints", !.and = NoAnd])
  <2> DEFINE f == [Top(w) EXCEPT !.at = "blueprints", !.and = NoAnd]
  <2>1. f.at \notin Watched
    BY <1>1 DEF FrameType, Watched
  <2> HIDE DEF f
  <2> QED
    BY <1>1, <1>2, <2>1, TopTurns DEF f, Unwatched
<1>3. CASE /\ ~(Cardinality(Registered \cup Children(Top(w).and)) > MaxNodes)
           /\ Goto(w, "expand")
  BY <1>1, <1>3, TopGoes
<1> QED
  BY <1>1, <1>2, <1>3 DEF CountNodes

LEMMA ProveAhead ==
  ASSUME StackInv, NEW w \in Worker, Prove(w)
  PROVE  /\ Alone(w) /\ UNCHANGED <<graph, tactic>>
         /\ \/ Unwatched(w)'
            \/ /\ Top(w)'.at = "commit" /\ Top(w)'.goal = Top(w).goal
               /\ Top(w)'.cites \in Citable(Top(w).goal, {Top(w).goal})
<1>1. Depth(w) > 0 /\ UNCHANGED <<graph, tactic>> /\ Top(w) \in FrameType
  BY TopFacts DEF Prove, At, Goto, Become
<1>2. CASE Goto(w, "blueprints")
  BY <1>1, <1>2, TopGoes DEF Unwatched, Watched
<1>3. ASSUME NEW gs \in Citable(Top(w).goal, {Top(w).goal}),
             Become(w, [Top(w) EXCEPT !.at = "commit", !.cites = gs])
      PROVE  /\ Alone(w) /\ Top(w)'.at = "commit" /\ Top(w)'.goal = Top(w).goal
             /\ Top(w)'.cites = gs
  <2> DEFINE f == [Top(w) EXCEPT !.at = "commit", !.cites = gs]
  <2>1. f.at = "commit" /\ f.goal = Top(w).goal /\ f.cites = gs
    BY <1>1 DEF FrameType
  <2> HIDE DEF f
  <2> QED
    BY <1>1, <1>3, <2>1, TopTurns DEF f
<1> QED
  BY <1>1, <1>2, <1>3 DEF Prove

LEMMA ActsAlone ==
  ASSUME StackInv, GraphTypeOK, NEW w \in Worker, Acts(w)
  PROVE  Alone(w)
BY MiddleUnwatched, EdgesUnwatched, EnterAhead, LeaseAhead, TacticsAhead, CountAhead, ProveAhead
   DEF Acts, Step

\* The calls that touch proofs or decompositions, and where they are made.
LEMMA ActsCalls ==
  ASSUME StackInv, NEW w \in Worker, Acts(w)
  PROVE  \/ UNCHANGED graph \/ LeaseStep
         \/ Start(w) /\ Root[w] \in Goal /\ RegisterGoal(Root[w])
         \/ \E d \in Decomposition : PauseAnd(d) \/ ActivateAnd(d)
         \/ PropagateAll
         \/ /\ At(w, "expand") /\ Top(w).and \in Decomposition
            /\ CommitDecomposition(Top(w).and)
         \/ Close(w) \/ Commit(w)
<1>1. CASE \/ Enter(w) \/ Tactics(w) \/ Partition(w) \/ Judge(w) \/ Prove(w) \/ Blueprint(w)
           \/ CountNodes(w) \/ Status(w) \/ Raise(w) \/ Assemble(w) \/ Crash(w)
  BY <1>1 DEF Enter, Tactics, Partition, Judge, Prove, Blueprint, CountNodes, Status, Raise,
              Assemble, Crash
<1>2. CASE Lease(w)
  BY <1>2, TopFacts DEF Lease, At, LeaseStep
<1>3. CASE Close(w) \/ Commit(w)
  BY <1>3
<1>4. CASE Priority(w)
  BY <1>4 DEF Priority, ActivateAnd, Present
<1>5. CASE Child(w)
  BY <1>5 DEF Child
<1>6. CASE Pause(w)
  BY <1>6 DEF Pause, PauseAnd, Present
<1>7. CASE Expand(w)
  BY <1>7, TopFacts DEF Expand, At, BranchIn
<1>8. CASE Activate(w)
  BY <1>8 DEF Activate, ActivateAnd, Present
<1>9. CASE Deferred(w)
  BY <1>9 DEF Deferred, ActivateAnd, Present
<1>10. CASE Leave(w)
  BY <1>10, TopFacts DEF Leave, At, LeaseStep
<1>11. CASE Unwind(w)
  BY <1>11, TopFacts DEF Unwind, At, LeaseStep
<1>12. CASE Start(w)
  BY <1>12, WorkerAssumption DEF Start
<1> QED
  BY <1>1, <1>2, <1>3, <1>4, <1>5, <1>6, <1>7, <1>8, <1>9, <1>10, <1>11, <1>12 DEF Acts, Step

\* While one search is on its way, the others wait for it or have ended.
LEMMA OthersAway ==
  ASSUME OneAfterAnother, StackInv, Turns, NEW w \in Worker, Acts(w),
         NEW v \in Worker \ {w}
  PROVE  Depth(v) = 0
<1>0. phase[w] \notin Ended /\ (phase[w] = "idle" => Start(w))
  BY ActsPhase
<1>1. phase[v] \in Ended \cup {"idle"}
  <2>1. CASE w \in Earlier[v]
    BY <1>0, <2>1 DEF Turns
  <2>2. CASE v \in Earlier[w] /\ phase[w] # "idle"
    BY <2>2 DEF Turns
  <2>3. CASE v \in Earlier[w] /\ Start(w)
    BY <2>3 DEF Start
  <2> QED
    BY <1>0, <2>1, <2>2, <2>3 DEF OneAfterAnother
<1>2. phase[v] # "search"
  BY <1>1 DEF Ended
<1>3. stack[v] = << >>
  BY <1>2 DEF StackInv, LeapTypeOK
<1> QED
  BY <1>3 DEF Depth

LEMMA TurnsStep ==
  ASSUME StackInv, GraphTypeOK, Turns, [LeapNext]_vars
  PROVE  Turns'
<1>1. ASSUME NEW w \in Worker, Acts(w),
             NEW u \in Worker, NEW v \in Worker, v \in Earlier[u], phase'[u] # "idle"
      PROVE  phase'[v] \in Ended
  <2>1. Alone(w) /\ phase[w] \notin Ended /\ (phase[w] = "idle" => Start(w))
    BY <1>1, ActsAlone, ActsPhase
  <2>2. phase[v] \in Ended
    <3>1. CASE u # w
      BY <1>1, <2>1, <3>1 DEF Alone, Turns
    <3>2. CASE u = w /\ phase[w] # "idle"
      BY <1>1, <3>2 DEF Turns
    <3>3. CASE u = w /\ Start(w)
      BY <1>1, <3>3 DEF Start
    <3> QED
      BY <2>1, <3>1, <3>2, <3>3
  <2> QED
    BY <2>1, <2>2 DEF Alone
<1>2. CASE UNCHANGED vars
  BY <1>2 DEF vars, search, Turns
<1>3. ASSUME NEW g \in Goal, LeaseEnds(g) PROVE Turns'
  BY <1>3 DEF LeaseEnds, search, Turns
<1> QED
  BY <1>1, <1>2, <1>3 DEF LeapNext, Acts, Turns

\* The declarations of proved lemmas refer to each other only.
LEMMA ConeClosed ==
  ASSUME GraphInv, NEW gs \in SUBSET Proved
  PROVE  /\ gs \subseteq Cone(gs) /\ Cone(gs) \subseteq Proved
         /\ \A h \in Cone(gs) : Dependencies(h) \subseteq Cone(gs)
<1>1. Proved \subseteq Goal /\ \A x \in Proved : Dependencies(x) \subseteq Proved
  BY DEF Proved, GraphInv, ProofsSupported
<1>2. gs \subseteq Cone(gs)
  BY <1>1 DEF Cone
<1>3. Cone(gs) \subseteq Proved
  <2> SUFFICES ASSUME NEW h \in Cone(gs) PROVE h \in Proved
    OBVIOUS
  <2>1. Proved \in SUBSET Goal /\ gs \subseteq Proved
        /\ \A x \in Proved \cap Proved : Dependencies(x) \subseteq Proved
    BY <1>1
  <2> QED
    BY <2>1 DEF Cone
<1>4. ASSUME NEW h \in Cone(gs), NEW y \in Dependencies(h) PROVE y \in Cone(gs)
  <2>1. h \in Proved /\ y \in Goal
    BY <1>1, <1>3
  <2>2. ASSUME NEW S \in SUBSET Goal, gs \subseteq S,
               \A x \in S \cap Proved : Dependencies(x) \subseteq S
        PROVE  y \in S
    <3>1. h \in S
      BY <2>2 DEF Cone
    <3> QED
      BY <2>1, <2>2, <3>1
  <2> QED
    BY <2>1, <2>2 DEF Cone
<1> QED
  BY <1>2, <1>3, <1>4

-----------------------------------------------------------------------------
(***************************************************************************)
(* The node budget and the order of the proofs                             *)
(***************************************************************************)
\* The decompositions change where a search has counted its nodes.
LEMMA ExpandsOrKeeps ==
  ASSUME GraphInv, StackInv, NEW w \in Worker, Acts(w), Present' # Present
  PROVE  /\ At(w, "expand") /\ Top(w).and \in Decomposition
         /\ CommitDecomposition(Top(w).and)
<1>1. ASSUME Close(w) \/ Commit(w) PROVE FALSE
  <2>1. Top(w).goal \in Goal /\ Top(w).cites \in SUBSET Goal
    BY <1>1, TopFacts DEF Close, Commit, At
  <2>2. \E ds \in SUBSET Goal : CommitDirect(Top(w).goal, ds)
    BY <1>1, <2>1 DEF Close, Commit
  <2> QED
    BY <2>1, <2>2, CommitDirectSelects
<1> QED
  BY <1>1, ActsCalls, QuietRows, PropagateAllRows

LEMMA ActsKeepsProofs ==
  ASSUME GraphInv, StackInv, NEW w \in Worker, Acts(w), ~(Close(w) \/ Commit(w))
  PROVE  KeepsProofs
<1>1. ASSUME proof' = proof, deps' = deps PROVE KeepsProofs
  BY <1>1 DEF KeepsProofs
<1> QED
  BY <1>1, ActsCalls, QuietRows, PropagateAllRows, CommitDecompositionRows

\* A search that proves its goal cites lemmas whose proofs do without the goal.
LEMMA ActsFounded ==
  ASSUME GraphInv, GraphInv', StackInv, SelectedFounded, NEW w \in Worker, Acts(w), Foresight(w),
         \A g \in Proved' \ Proved : NewlyProved(g)
  PROVE  SelectedFounded'
<1>1. CASE ~(Close(w) \/ Commit(w))
  BY <1>1, ActsKeepsProofs, FoundedStep DEF KeepsProofs
<1>2. ASSUME NEW ds \in SUBSET Proved, CommitDirect(Top(w).goal, ds), Top(w).goal \in Goal,
             Top(w).goal \notin Cone(ds)
      PROVE  SelectedFounded'
  <2>1. ds \in SUBSET Goal
    BY DEF Proved
  <2>2. /\ proof'[Top(w).goal] = Direct /\ deps'[Top(w).goal] = ds
        /\ \A g \in Proved \ {Top(w).goal} : proof'[g] = proof[g] /\ deps'[g] = deps[g]
    BY <1>2, <2>1, CommitDirectSelects
  <2>3. /\ ds \subseteq Cone(ds) /\ Cone(ds) \in SUBSET Proved
        /\ \A h \in Cone(ds) : Dependencies(h) \subseteq Cone(ds)
    BY ConeClosed
  <2> QED
    BY <1>2, <2>2, <2>3, FoundedReplaced
<1>3. CASE Close(w)
  <2>1. Cone({}) = {}
    <3>1. {} \in SUBSET Goal /\ {} \subseteq {} /\ \A x \in {} \cap Proved : Dependencies(x) \subseteq {}
      OBVIOUS
    <3> QED
      BY <3>1 DEF Cone
  <2> QED
    BY <1>2, <1>3, <2>1, TopFacts DEF Close, At
<1>4. CASE Commit(w)
  BY <1>2, <1>4, TopFacts DEF Commit, At, Foresight
<1> QED
  BY <1>1, <1>3, <1>4

\* What a search finds out stands until it relies on it.
LEMMA ForesightFound ==
  ASSUME GraphInv, StackInv, NEW w \in Worker, Acts(w)
  PROVE  Foresight(w)'
<1>1. CASE Unwatched(w)'
  BY <1>1 DEF Unwatched, Watched, Foresight, At
<1>2. ASSUME Top(w)'.at # "commit" PROVE Foresight(w)'
  BY <1>2 DEF Foresight, At
<1>3. CASE Enter(w) \/ Lease(w) \/ Tactics(w)
  BY <1>1, <1>2, <1>3, EnterAhead, LeaseAhead, TacticsAhead DEF GraphInv
<1>4. CASE CountNodes(w)
  BY <1>1, <1>2, <1>4, CountAhead
<1>5. CASE Prove(w)
  <2>1. CASE /\ Top(w)'.at = "commit" /\ Top(w)'.goal = Top(w).goal /\ UNCHANGED graph
             /\ Top(w)'.cites \in Citable(Top(w).goal, {Top(w).goal})
    <3>1. /\ Top(w)'.cites \subseteq Proved /\ Top(w).goal \notin Cone(Top(w)'.cites)
      BY <2>1 DEF Citable
    <3>2. Proved' = Proved /\ Cone(Top(w).cites)' = Cone(Top(w)'.cites)
      BY <2>1 DEF graph, nodes, Proved, Cone, Dependencies
    <3> QED
      BY <2>1, <3>1, <3>2 DEF Foresight, At
  <2> QED
    BY <1>1, <1>5, <2>1, ProveAhead
<1> QED
  BY <1>1, <1>3, <1>4, <1>5, MiddleUnwatched, EdgesUnwatched DEF Acts, Step

LEMMA AwaySeesNothing ==
  ASSUME NEW w \in Worker, Depth(w) = 0
  PROVE  Foresight(w) /\ Unwatched(w) /\ \A stage : ~At(w, stage)
BY DEF Foresight, Unwatched, At

LEMMA TurnInvActs ==
  ASSUME OneAfterAnother, GraphInv, GraphInv', StackInv, TurnInv, NEW w \in Worker, Acts(w),
         [GraphNext]_graph, [LeapNext]_vars
  PROVE  TurnInv'
<1>1. Known' /\ Turns'
  BY KnownStep, TurnsStep DEF TurnInv, GraphInv
<1>2. SelectedFounded'
  BY StepGrows, ActsFounded DEF TurnInv
<1>3. ASSUME NEW v \in Worker PROVE Foresight(v)'
  <2>1. CASE v = w
    BY <2>1, ForesightFound
  <2>2. CASE v # w
    <3>1. Depth(v) = 0 /\ stack'[v] = stack[v]
      BY <2>2, OthersAway, ActsAlone DEF TurnInv, Alone, GraphInv
    <3>2. Depth(v)' = 0
      BY <3>1 DEF Depth
    <3> QED
      BY <3>2 DEF Foresight, At
  <2> QED
    BY <2>1, <2>2
<1> QED
  BY <1>1, <1>2, <1>3 DEF TurnInv

LEMMA TurnInvStep ==
  ASSUME OneAfterAnother, GraphInv, StackInv, TurnInv, [LeapNext]_vars
  PROVE  TurnInv'
<1>1. [GraphNext]_graph
  BY SearchUsesGraph
<1>2. GraphInv'
  BY <1>1, GraphInvStep
<1>3. ASSUME UNCHANGED search, UNCHANGED nodes PROVE TurnInv'
  <2>1. Known' /\ Turns'
    BY <1>1, KnownStep, <1>3 DEF TurnInv, Turns, search
  <2>2. Proved' = Proved /\ Registered' = Registered /\ proof' = proof /\ deps' = deps
    BY <1>3 DEF nodes, Proved, Registered
  <2>3. SelectedFounded'
    BY <2>2 DEF TurnInv, SelectedFounded, Dependencies
  <2>5. ASSUME NEW w \in Worker PROVE Foresight(w)'
    <3>1. Depth(w)' = Depth(w) /\ Top(w)' = Top(w)
      BY <1>3 DEF search, Depth, Top
    <3>2. Foresight(w)
      BY DEF TurnInv
    <3>3. Cone(Top(w).cites)' = Cone(Top(w).cites)
      BY <2>2, <3>1 DEF Cone, Dependencies
    <3> QED
      BY <2>2, <3>1, <3>2, <3>3 DEF Foresight, At
  <2> QED
    BY <2>1, <2>3, <2>5 DEF TurnInv
<1>4. CASE UNCHANGED vars
  BY <1>3, <1>4 DEF vars, graph
<1>5. ASSUME NEW g \in Goal, LeaseEnds(g) PROVE TurnInv'
  BY <1>3, <1>5 DEF LeaseEnds, Expire
<1>6. ASSUME NEW w \in Worker, Acts(w) PROVE TurnInv'
  BY <1>1, <1>2, <1>6, TurnInvActs
<1> QED
  BY <1>4, <1>5, <1>6 DEF LeapNext, Acts

LEMMA LeapInitTurns == LeapInit => TurnInv
<1> SUFFICES ASSUME LeapInit PROVE TurnInv
  OBVIOUS
<1>1. Known
  <2> SUFFICES ASSUME NEW d \in Present, NEW h \in {d.parent} \cup Children(d)
               PROVE  h \in Registered
    BY DEF Known
  <2>1. d \in Decomposition /\ History[d] # "absent"
    BY DEF LeapInit, Present
  <2>2. h \in Goal /\ h \in HistoryGoals
    BY <2>1, DecompositionType DEF HistoryGoals
  <2> QED
    BY <2>2 DEF LeapInit, Registered
<1>2. Turns
  BY WorkerAssumption DEF LeapInit, Turns
<1>3. SelectedFounded
  BY DEF LeapInit, SelectedFounded, Founded, Proved
<1>4. \A w \in Worker : Depth(w) = 0
  BY DEF LeapInit, Depth
<1> QED
  BY <1>1, <1>2, <1>3, <1>4, AwaySeesNothing DEF TurnInv

LEMMA TurnInvariant ==
  ASSUME OneAfterAnother
  PROVE  LeapSpec => [](GraphInv /\ StackInv /\ TurnInv)
<1>1. LeapInit => GraphInv /\ StackInv /\ TurnInv
  BY LeapInitGraph, LeapInitStack, LeapInitTurns
<1>2. GraphInv /\ StackInv /\ TurnInv /\ [LeapNext]_vars => (GraphInv /\ StackInv /\ TurnInv)'
  BY SearchUsesGraph, GraphInvStep, StackInvStep, TurnInvStep
<1> QED
  BY <1>1, <1>2, PTL DEF LeapSpec

\* Searches that run one after the other leave proofs that can be put in an
\* order: what a proof cites was chosen without the goal it proves, and no other
\* search can make it depend on that goal before the proof is stored.
THEOREM SequentialFounded ==
  ASSUME OneAfterAnother
  PROVE  LeapSpec => []SelectedFounded
<1>1. TurnInv => SelectedFounded
  BY DEF TurnInv
<1> QED
  BY <1>1, TurnInvariant, PTL

\* What the graph file holds at the beginning is finite, and a blueprint names
\* finitely many children.
FiniteBeginning ==
  /\ IsFiniteSet(HistoryGoals)
  /\ \A d \in Decomposition : IsFiniteSet(d.spare)

LEMMA ChildrenFinite ==
  ASSUME FiniteBeginning, NEW d \in Decomposition
  PROVE  IsFiniteSet(Children(d))
<1>1. PICK s \in Seq(Goal) : s = d.kids
  BY DecompositionAssumption
<1>2. DOMAIN s = 1..Len(s) /\ Len(s) \in Int
  OBVIOUS
<1>3. s \in Surjection(1..Len(s), Required(d))
  <2>1. s = [i \in 1..Len(s) |-> s[i]]
    BY <1>2
  <2>2. \A i \in 1..Len(s) : s[i] \in Required(d)
    BY <1>1, <1>2 DEF Required
  <2>3. \A x \in Required(d) : \E i \in 1..Len(s) : s[i] = x
    BY <1>1, <1>2 DEF Required
  <2> QED
    BY <2>1, <2>2, <2>3 DEF Surjection
<1>4. IsFiniteSet(1..Len(s))
  <2>1. \A n \in Int : IsFiniteSet(1..n)
    BY FS_Interval
  <2> QED
    BY <1>2, <2>1
<1>5. IsFiniteSet(Required(d))
  BY <1>3, <1>4, FS_Surjection
<1> QED
  BY <1>5, FS_Union DEF Children, FiniteBeginning

LEMMA FiniteStep ==
  ASSUME FiniteBeginning, GraphInv, Known, IsFiniteSet(Registered), [GraphNext]_graph
  PROVE  IsFiniteSet(Registered)'
<1>1. ASSUME NEW x, Registered' \subseteq Registered \cup {x} PROVE IsFiniteSet(Registered')
  <2>1. IsFiniteSet(Registered \cup {x})
    BY FS_AddElement
  <2> QED
    BY <1>1, <2>1, FS_Subset
<1>2. ASSUME Registered' = Registered PROVE IsFiniteSet(Registered')
  BY <1>2
<1>3. ASSUME NEW d \in Decomposition, CommitDecomposition(d) PROVE IsFiniteSet(Registered')
  <2>1. IsFiniteSet(Registered \cup Children(d))
    BY ChildrenFinite, FS_Union
  <2>2. Registered' = Registered \cup Children(d)
    BY <1>3, DecompositionRegisters
  <2> QED
    BY <2>1, <2>2
<1>4. ASSUME \/ UNCHANGED graph \/ LeaseStep \/ \E g \in Goal : RegisterGoal(g)
             \/ \E d \in Decomposition : PauseAnd(d) \/ ActivateAnd(d)
      PROVE  IsFiniteSet(Registered')
  BY <1>1, <1>4, QuietRows
<1> QED
  BY <1>2, <1>3, <1>4, NoNewRows DEF GraphNext, NodeStep

-----------------------------------------------------------------------------
(***************************************************************************)
(* The node budget                                                         *)
(***************************************************************************)
\* What a worker adds to the graph if it goes on without another count.
Pending(v) ==
  IF At(v, "expand") THEN Children(Top(v).and)
  ELSE IF phase[v] = "idle" THEN {Root[v]} ELSE {}

\* The graph and what w is about to add fit into the budget, but for what the
\* others add or have added since w counted.
RoomBut(w, more) ==
  /\ more \in [Worker \ {w} -> Unseen]
  /\ \A v \in Worker \ {w} : Pending(v) \subseteq more[v]
  /\ Cardinality((Registered \cup Pending(w)) \ UNION {more[v] : v \in Worker \ {w}})
       <= MaxNodes

\* Whoever is about to expand has counted, and the last of all to count had room.
BudgetInv ==
  (\E v \in Worker : At(v, "expand")) => \E w \in Worker : \E more : RoomBut(w, more)

LEMMA SmallerFits ==
  ASSUME NEW S, NEW T, IsFiniteSet(S), T \subseteq S, Cardinality(S) <= MaxNodes
  PROVE  Cardinality(T) <= MaxNodes
<1>1. /\ Cardinality(T) <= Cardinality(S) /\ IsFiniteSet(T)
      /\ Cardinality(T) \in Nat /\ Cardinality(S) \in Nat
  BY FS_Subset, FS_CardinalityType
<1> QED
  BY <1>1, WorkerAssumption

LEMMA PendingType ==
  ASSUME StackInv, NEW v \in Worker
  PROVE  Pending(v) \in Unseen
<1>1. At(v, "expand") => Top(v).and \in Decomposition
  BY TopFacts DEF At, BranchIn
<1> QED
  BY <1>1 DEF Pending, Unseen

LEMMA PendingFinite ==
  ASSUME FiniteBeginning, StackInv, NEW v \in Worker
  PROVE  IsFiniteSet(Pending(v))
<1>1. At(v, "expand") => Top(v).and \in Decomposition
  BY TopFacts DEF At, BranchIn
<1>2. IsFiniteSet({}) /\ IsFiniteSet({Root[v]})
  BY FS_EmptySet, FS_Singleton
<1> QED
  BY <1>1, <1>2, ChildrenFinite DEF Pending

\* A step adds what was pending; its worker is no longer at the beginning.
LEMMA AddsPending ==
  ASSUME GraphInv, StackInv, Known, NEW w \in Worker, Acts(w)
  PROVE  Registered' \subseteq Registered \cup Pending(w)
<1>1. CASE Start(w) /\ Root[w] \in Goal /\ RegisterGoal(Root[w])
  <2>1. Registered' \subseteq Registered \cup {Root[w]}
    BY <1>1 DEF RegisterGoal, Registered, GraphInv, GraphTypeOK
  <2>2. phase[w] = "idle" /\ ~At(w, "expand")
    BY <1>1 DEF Start, StackInv, LeapTypeOK, At, Depth
  <2> QED
    BY <2>1, <2>2 DEF Pending
<1>2. CASE At(w, "expand") /\ Top(w).and \in Decomposition /\ CommitDecomposition(Top(w).and)
  <2>1. PICK d \in Decomposition : d = Top(w).and
    BY <1>2
  <2>2. Registered' = Registered \cup Children(d)
    BY <1>2, <2>1, DecompositionRegisters
  <2> QED
    BY <1>2, <2>1, <2>2 DEF Pending
<1>3. CASE Close(w) \/ Commit(w)
  <2>1. Top(w).goal \in Goal /\ Top(w).cites \in SUBSET Goal
    BY <1>3, TopFacts DEF Close, Commit, At
  <2>2. \E ds \in SUBSET Goal : CommitDirect(Top(w).goal, ds)
    BY <1>3, <2>1 DEF Close, Commit
  <2> QED
    BY <2>1, <2>2, NoNewRows
<1> QED
  BY <1>1, <1>2, <1>3, ActsCalls, SameRows, NoNewRows

LEMMA ActsLeavesIdle ==
  ASSUME StackInv, NEW w \in Worker, Acts(w)
  PROVE  phase'[w] # "idle"
<1>1. phase \in [Worker -> Phase]
  BY DEF StackInv, LeapTypeOK
<1>2. CASE Start(w)
  BY <1>1, <1>2 DEF Start
<1>3. CASE ~Start(w)
  <2>1. phase[w] # "idle"
    BY <1>3, ActsPhase
  <2>2. ASSUME \E f : Become(w, f) PROVE phase' = phase
    BY <2>2 DEF Become
  <2>3. ASSUME NEW stage, Drop(w, stage) PROVE phase'[w] \in {"assemble", phase[w]}
    BY <1>1, <2>3 DEF Drop
  <2>4. ASSUME NEW stage, Goto(w, stage) PROVE phase' = phase
    BY <2>2, <2>4 DEF Goto
  <2>5. CASE \/ Close(w) \/ Partition(w) \/ Priority(w) \/ Judge(w) \/ Pause(w) \/ Prove(w)
             \/ Commit(w) \/ Blueprint(w) \/ CountNodes(w) \/ Expand(w) \/ Activate(w)
             \/ Deferred(w) \/ Status(w)
    <3>1. phase' = phase
      BY <2>5 DEF Close, Partition, Priority, Judge, Pause, Prove, Commit, Blueprint, CountNodes,
                  Expand, Activate, Deferred, Status, Goto, Become
    <3> QED
      BY <2>1, <3>1
  <2>6. CASE Enter(w) \/ Lease(w) \/ Leave(w) \/ Raise(w) \/ Unwind(w)
    BY <2>1, <2>3, <2>4, <2>6 DEF Enter, Lease, Leave, Raise, Unwind, Answer
  <2>7. CASE Tactics(w)
    BY <2>1, <2>4, <2>7 DEF Tactics
  <2>8. CASE Child(w)
    BY <2>1, <2>4, <2>8 DEF Child
  <2>9. CASE Assemble(w) \/ Crash(w)
    BY <1>1, <2>9 DEF Assemble, Crash
  <2> QED
    BY <1>3, <2>5, <2>6, <2>7, <2>8, <2>9 DEF Acts, Step
<1> QED
  BY <1>2, <1>3

\* Only a count that finds room makes a worker expand.
LEMMA PendingShrinks ==
  ASSUME StackInv, GraphTypeOK, NEW w \in Worker, Acts(w)
  PROVE  \/ ~At(w, "expand")' /\ Pending(w)' = {}
         \/ /\ CountNodes(w) /\ At(w, "expand")' /\ UNCHANGED graph
            /\ Top(w)'.and = Top(w).and /\ Top(w).and \in Decomposition
            /\ ~(Cardinality(Registered \cup Children(Top(w).and)) > MaxNodes)
<1>1. ASSUME ~At(w, "expand")' PROVE Pending(w)' = {}
  BY <1>1, ActsLeavesIdle DEF Pending
<1>2. CASE Unwatched(w)'
  BY <1>1, <1>2 DEF Unwatched, Watched, At
<1>3. ASSUME Top(w)'.at # "expand" PROVE ~At(w, "expand")'
  BY <1>3 DEF At
<1>4. CASE Enter(w) \/ Lease(w) \/ Tactics(w) \/ Prove(w)
  BY <1>1, <1>2, <1>3, <1>4, EnterAhead, LeaseAhead, TacticsAhead, ProveAhead
<1>5. CASE CountNodes(w)
  <2>1. Depth(w) > 0 /\ Top(w).and \in Decomposition
    BY <1>5, TopFacts DEF CountNodes, At, BranchIn
  <2>2. CASE ~At(w, "expand")'
    BY <1>1, <2>2
  <2>3. CASE At(w, "expand")'
    BY <1>2, <1>5, <2>1, <2>3, CountAhead DEF At, Unwatched, Watched
  <2> QED
    BY <2>2, <2>3
<1> QED
  BY <1>1, <1>2, <1>4, <1>5, MiddleUnwatched, EdgesUnwatched DEF Acts, Step

\* A step that is no such count leaves the room there was.
LEMMA RoomKept ==
  ASSUME FiniteBeginning, GraphInv, StackInv, IsFiniteSet(Registered),
         NEW w \in Worker, NEW more, RoomBut(w, more), NEW u \in Worker,
         Registered' \subseteq Registered \cup Pending(u), Pending(u)' \subseteq Pending(u),
         \A v \in Worker \ {u} : Pending(v)' = Pending(v)
  PROVE  RoomBut(w, more)'
<1> DEFINE taken == UNION {more[v] : v \in Worker \ {w}}
           full == (Registered \cup Pending(w)) \ taken
           full2 == (Registered' \cup Pending(w)') \ taken
<1>1. \A v \in Worker \ {w} : Pending(v)' \subseteq more[v]
  BY DEF RoomBut
<1>2. full2 \subseteq full
  <2>1. CASE u = w
    BY <2>1
  <2>2. CASE u # w
    <3>1. Pending(u) \subseteq taken
      BY <2>2 DEF RoomBut
    <3> QED
      BY <2>2, <3>1
  <2> QED
    BY <2>1, <2>2
<1>3. IsFiniteSet(full)
  <2>1. IsFiniteSet(Registered \cup Pending(w))
    BY PendingFinite, FS_Union
  <2> QED
    BY <2>1, FS_Subset
<1>4. Cardinality(full) <= MaxNodes
  BY DEF RoomBut
<1> HIDE DEF full, full2
<1>5. Cardinality(full2) <= MaxNodes
  BY <1>2, <1>3, <1>4, SmallerFits
<1>6. more \in [Worker \ {w} -> Unseen]
  BY DEF RoomBut
<1>7. Unseen' = Unseen
  BY DEF Unseen, Children, Required
<1> QED
  BY <1>1, <1>5, <1>6, <1>7 DEF RoomBut, full2

LEMMA BudgetActs ==
  ASSUME FiniteBeginning, GraphInv, StackInv, StackInv', Known, IsFiniteSet(Registered), BudgetInv,
         NEW u \in Worker, Acts(u)
  PROVE  BudgetInv'
<1>1. \A v \in Worker \ {u} : (At(v, "expand"))' = At(v, "expand") /\ Pending(v)' = Pending(v)
  <2>1. Alone(u)
    BY ActsAlone DEF GraphInv
  <2> QED
    BY <2>1 DEF Alone, At, Depth, Top, Pending, Children, Required
<1>2. CASE ~At(u, "expand")' /\ Pending(u)' = {}
  <2>1. SUFFICES ASSUME NEW v \in Worker, At(v, "expand")'
                 PROVE  (\E w \in Worker : \E more : RoomBut(w, more))'
    BY DEF BudgetInv
  <2>2. At(v, "expand")
    BY <1>1, <1>2, <2>1
  <2>who. PICK w \in Worker : \E more : RoomBut(w, more)
    BY <2>2 DEF BudgetInv
  <2>3. PICK more : w \in Worker /\ RoomBut(w, more)
    BY <2>who
  <2>4. RoomBut(w, more)'
    BY <1>1, <1>2, <2>3, AddsPending, RoomKept
  <2> QED
    BY <2>4
<1>3. CASE /\ CountNodes(u) /\ At(u, "expand")' /\ UNCHANGED graph
           /\ Top(u)'.and = Top(u).and /\ Top(u).and \in Decomposition
           /\ ~(Cardinality(Registered \cup Children(Top(u).and)) > MaxNodes)
  <2> DEFINE now == [v \in Worker \ {u} |-> Pending(v)']
  <2>0. PICK more : more = now
    OBVIOUS
  <2> DEFINE all == Registered \cup Children(Top(u).and)
             rest == (Registered' \cup Pending(u)') \ UNION {more[v] : v \in Worker \ {u}}
  <2>1. Registered' = Registered /\ Pending(u)' = Children(Top(u).and)
    BY <1>3 DEF graph, nodes, Registered, Pending, Children, Required
  <2>2. IsFiniteSet(all)
    BY <1>3, ChildrenFinite, FS_Union
  <2>3. Cardinality(all) <= MaxNodes
    <3>1. Cardinality(all) \in Nat
      BY <2>2, FS_CardinalityType
    <3> HIDE DEF all
    <3> QED
      BY <1>3, <3>1, WorkerAssumption DEF all
  <2>4. rest \subseteq all
    BY <2>1
  <2> HIDE DEF all
  <2>5. Cardinality(rest) <= MaxNodes
    BY <2>2, <2>3, <2>4, SmallerFits
  <2>6. \A v \in Worker \ {u} : Pending(v)' \in Unseen'
    BY PendingType, <1>1 DEF Unseen, Children, Required
  <2>7. more \in [Worker \ {u} -> Unseen']
    BY <2>0, <2>6
  <2>8. \A v \in Worker \ {u} : Pending(v)' \subseteq more[v]
    BY <2>0
  <2>9. RoomBut(u, more)'
    BY <2>5, <2>7, <2>8 DEF RoomBut
  <2> QED
    BY <2>9 DEF BudgetInv
<1> QED
  BY <1>2, <1>3, PendingShrinks DEF GraphInv

LEMMA BudgetStep ==
  ASSUME FiniteBeginning, GraphInv, StackInv, StackInv', Known, IsFiniteSet(Registered), BudgetInv,
         [LeapNext]_vars
  PROVE  BudgetInv'
<1>1. ASSUME UNCHANGED search, UNCHANGED nodes PROVE BudgetInv'
  <2>1. Registered' = Registered /\ Unseen' = Unseen
        /\ \A v \in Worker : At(v, "expand")' = At(v, "expand") /\ Pending(v)' = Pending(v)
    BY <1>1 DEF nodes, search, Registered, Unseen, At, Depth, Top, Pending, Children, Required
  <2>2. ASSUME NEW w \in Worker, NEW more, RoomBut(w, more) PROVE RoomBut(w, more)'
    BY <2>1, <2>2 DEF RoomBut
  <2>3. SUFFICES ASSUME NEW v \in Worker, At(v, "expand")'
                 PROVE  (\E w \in Worker : \E more : RoomBut(w, more))'
    BY DEF BudgetInv
  <2>who. PICK w \in Worker : \E more : RoomBut(w, more)
    BY <2>1, <2>3 DEF BudgetInv
  <2>4. PICK more : w \in Worker /\ RoomBut(w, more)
    BY <2>who
  <2>5. RoomBut(w, more)'
    BY <2>2, <2>4
  <2> QED
    BY <2>5
<1>2. CASE UNCHANGED vars
  BY <1>1, <1>2 DEF vars, graph
<1>3. ASSUME NEW g \in Goal, LeaseEnds(g) PROVE BudgetInv'
  BY <1>1, <1>3 DEF LeaseEnds, Expire
<1>4. ASSUME NEW w \in Worker, Acts(w) PROVE BudgetInv'
  BY <1>4, BudgetActs
<1> QED
  BY <1>2, <1>3, <1>4 DEF LeapNext, Acts

LEMMA LeapInitBudget ==
  ASSUME FiniteBeginning, LeapInit
  PROVE  Known /\ IsFiniteSet(Registered) /\ BudgetInv
<1>1. Known
  BY LeapInitTurns DEF TurnInv
<1>2. IsFiniteSet(Registered)
  <2>1. Registered \subseteq HistoryGoals
    BY DEF LeapInit, Registered
  <2> QED
    BY <2>1, FS_Subset DEF FiniteBeginning
<1>3. \A v \in Worker : ~At(v, "expand")
  BY DEF LeapInit, At, Depth
<1> QED
  BY <1>1, <1>2, <1>3 DEF BudgetInv

\* However many searches add to the graph at the same time, each counting before
\* the others' children are there, what is over the budget was added by single
\* decompositions or roots, at most one of each search but one.
THEOREM WithinNodeBudgetHolds ==
  ASSUME FiniteBeginning
  PROVE  LeapSpec => WithinNodeBudget
<1> DEFINE Inv == GraphInv /\ StackInv /\ Known /\ IsFiniteSet(Registered) /\ BudgetInv
<1>1. LeapInit => Inv
  BY LeapInitGraph, LeapInitStack, LeapInitBudget
<1>2. Inv /\ [LeapNext]_vars => Inv'
  <2> SUFFICES ASSUME Inv, [LeapNext]_vars PROVE Inv'
    OBVIOUS
  <2>1. [GraphNext]_graph
    BY SearchUsesGraph
  <2>2. GraphInv' /\ StackInv'
    BY <2>1, GraphInvStep, StackInvStep
  <2>3. Known' /\ IsFiniteSet(Registered)'
    BY <2>1, KnownStep, FiniteStep
  <2>4. BudgetInv'
    BY <2>2, BudgetStep
  <2> QED
    BY <2>2, <2>3, <2>4
<1>3. ASSUME Inv, LeapNext, Present' # Present
      PROVE  \E w \in Worker : \E more \in [Worker \ {w} -> Unseen] :
               Cardinality(Registered' \ UNION {more[v] : v \in Worker \ {w}}) <= MaxNodes
  <2>1. PICK u \in Worker : Acts(u)
    <3>1. ASSUME NEW g \in Goal, LeaseEnds(g) PROVE FALSE
      BY <1>3, <3>1 DEF LeaseEnds, Expire, nodes, Present
    <3> QED
      BY <1>3, <3>1 DEF LeapNext, Acts
  <2>2. At(u, "expand")
    BY <1>3, <2>1, ExpandsOrKeeps
  <2>who. PICK w \in Worker : \E more : RoomBut(w, more)
    BY <1>3, <2>2 DEF BudgetInv
  <2>3. PICK more : w \in Worker /\ RoomBut(w, more)
    BY <2>who
  <2> DEFINE taken == UNION {more[v] : v \in Worker \ {w}}
             full == (Registered \cup Pending(w)) \ taken
             new == Registered' \ taken
  <2>4. new \subseteq full
    <3>1. Registered' \subseteq Registered \cup Pending(u)
      BY <1>3, <2>1, AddsPending
    <3>2. u # w => Pending(u) \subseteq taken
      BY <2>3 DEF RoomBut
    <3> QED
      BY <3>1, <3>2
  <2>5. IsFiniteSet(full)
    <3>1. IsFiniteSet(Registered \cup Pending(w))
      BY <1>3, PendingFinite, FS_Union
    <3> QED
      BY <3>1, FS_Subset
  <2>6. Cardinality(full) <= MaxNodes /\ more \in [Worker \ {w} -> Unseen]
    BY <2>3 DEF RoomBut
  <2> HIDE DEF full, new
  <2>7. Cardinality(new) <= MaxNodes
    BY <2>4, <2>5, <2>6, SmallerFits
  <2> QED
    BY <2>6, <2>7 DEF new
<1>4. Inv /\ [LeapNext]_vars
        => [Present' # Present =>
              \E w \in Worker : \E more \in [Worker \ {w} -> Unseen] :
                Cardinality(Registered' \ UNION {more[v] : v \in Worker \ {w}}) <= MaxNodes]_vars
  BY <1>3
<1> HIDE DEF Inv
<1> QED
  BY <1>1, <1>2, <1>4, PTL DEF LeapSpec, WithinNodeBudget

-----------------------------------------------------------------------------
(***************************************************************************)
(* The candidate digests                                                   *)
(***************************************************************************)
\* A search on its way through the tactics is on an unproved goal; a tactic that
\* closed a goal has been followed by the proof, or is about to be.
SkipInv ==
  /\ \A w \in Worker :
       At(w, "lease") \/ At(w, "tactics") \/ At(w, "branches") => Top(w).goal \notin Proved
  /\ \A g \in Goal : \A i \in DOMAIN tactic[g] :
       tactic[g][i] = "verified" =>
         g \in Proved \/ \E w \in Worker : At(w, "closed") /\ Top(w).goal = g

\* A goal on its way through the tactics has not been proved by anybody else.
LEMMA UnprovedStep ==
  ASSUME GraphInv, StackInv, SkipInv, NEW w \in Worker, Acts(w),
         At(w, "lease")' \/ At(w, "tactics")' \/ At(w, "branches")'
  PROVE  Top(w)'.goal \notin Proved'
<1>1. ~Unwatched(w)' /\ Top(w)'.at \notin {"commit", "expand"}
  BY DEF At, Unwatched, Watched
<1>2. CASE Enter(w)
  <2>1. Proved' = Proved
    BY <1>2, EnterAhead DEF graph, nodes, Proved
  <2> QED
    BY <1>1, <1>2, <2>1, EnterAhead
<1>3. CASE Lease(w)
  BY <1>1, <1>3, LeaseAhead DEF GraphInv, SkipInv
<1>4. CASE Tactics(w)
  <2>1. Proved' = Proved
    BY <1>4, TacticsAhead DEF graph, nodes, Proved
  <2> QED
    BY <1>4, <2>1, TacticsAhead DEF SkipInv
<1>5. CASE CountNodes(w) \/ Prove(w)
  BY <1>1, <1>5, CountAhead, ProveAhead
<1> QED
  BY <1>1, <1>2, <1>3, <1>4, <1>5, MiddleUnwatched, EdgesUnwatched DEF Acts, Step

LEMMA OnlyTacticsRecord ==
  ASSUME StackInv, GraphTypeOK, NEW w \in Worker, Acts(w), ~Tactics(w)
  PROVE  tactic' = tactic
<1>1. (\E f : Become(w, f)) \/ (\E stage : Goto(w, stage) \/ Drop(w, stage)) => tactic' = tactic
  BY DEF Become, Goto, Drop
<1>2. CASE Enter(w) \/ Lease(w) \/ CountNodes(w) \/ Prove(w)
  BY <1>2, EnterAhead, LeaseAhead, CountAhead, ProveAhead
<1>3. CASE Start(w) \/ Crash(w) \/ Assemble(w)
  BY <1>3 DEF Start, Crash, Assemble
<1>4. CASE \/ Close(w) \/ Partition(w) \/ Priority(w) \/ Child(w) \/ Judge(w) \/ Pause(w)
           \/ Commit(w) \/ Blueprint(w) \/ Expand(w) \/ Activate(w) \/ Deferred(w) \/ Status(w)
           \/ Leave(w) \/ Raise(w) \/ Unwind(w)
  BY <1>4 DEF Close, Partition, Priority, Child, Judge, Pause, Commit, Blueprint, Expand,
     Activate, Deferred, Status, Leave, Raise, Unwind, Answer, Become, Goto, Drop
<1> QED
  BY <1>2, <1>3, <1>4 DEF Acts, Step

\* A search that is about to store the proof a tactic found stores it, unless its
\* process dies.
LEMMA ClosedStep ==
  ASSUME GraphInv, StackInv, Mortal = {}, NEW w \in Worker, Acts(w), At(w, "closed")
  PROVE  Top(w).goal \in Proved'
<1>1. phase[w] = "search"
  BY TopFacts DEF At
<1>2. Close(w)
  BY <1>1 DEF Acts, Step, Start, Crash, Enter, Lease, Tactics, Close, Partition, Priority, Child,
     Judge, Pause, Prove, Commit, Blueprint, CountNodes, Expand, Activate, Deferred, Status,
     Leave, Raise, Unwind, Assemble, At
<1>3. Top(w).goal \in Goal /\ {} \in SUBSET Goal
  BY TopFacts DEF At
<1> QED
  BY <1>2, <1>3, CommitDirectSelects DEF Close

LEMMA SkipInvActs ==
  ASSUME OneAfterAnother, Mortal = {}, GraphInv, StackInv, TurnInv, SkipInv, Grows,
         NEW w \in Worker, Acts(w)
  PROVE  SkipInv'
<1>1. Alone(w) /\ Proved \subseteq Proved'
  BY ActsAlone DEF GraphInv, Grows
<1>2. ASSUME NEW v \in Worker \ {w} PROVE \A stage : ~At(v, stage) /\ ~At(v, stage)'
  <2>1. Depth(v) = 0 /\ stack'[v] = stack[v]
    BY <1>1, OthersAway DEF TurnInv, Alone
  <2>2. Depth(v)' = 0
    BY <2>1 DEF Depth
  <2> QED
    BY <2>1, <2>2 DEF At
<1>3. ASSUME NEW v \in Worker, At(v, "lease")' \/ At(v, "tactics")' \/ At(v, "branches")'
      PROVE  Top(v)'.goal \notin Proved'
  <2>1. v = w
    BY <1>2, <1>3
  <2> QED
    BY <1>3, <2>1, UnprovedStep
<1>4. ASSUME NEW g \in Goal, NEW i \in DOMAIN tactic[g], tactic[g][i] = "verified"
      PROVE  g \in Proved' \/ (At(w, "closed") /\ Top(w).goal = g)
  BY <1>1, <1>2, <1>4 DEF SkipInv
<1>5. ASSUME NEW g \in Goal, NEW i \in DOMAIN tactic[g], tactic[g][i] = "verified"
      PROVE  g \in Proved'
  BY <1>4, <1>5, ClosedStep
<1>6. ASSUME NEW g \in Goal, NEW i \in DOMAIN tactic'[g], tactic'[g][i] = "verified"
      PROVE  g \in Proved' \/ (At(w, "closed")' /\ Top(w)'.goal = g)
  <2>1. CASE tactic' = tactic
    BY <1>5, <1>6, <2>1
  <2>2. CASE tactic' # tactic
    <3>1. Tactics(w)
      BY <2>2, OnlyTacticsRecord DEF GraphInv
    <3>2. PICK verdict \in {"rejected", "verified"} :
            /\ tactic' = [tactic EXCEPT ![Top(w).goal] = Append(@, verdict)]
            /\ verdict = "verified" => Top(w)'.at = "closed"
      BY <2>2, <3>1, TacticsAhead
    <3>3. Depth(w)' > 0 /\ Top(w)'.goal = Top(w).goal
      BY <3>1, TacticsAhead
    <3>4. tactic \in [Goal -> Seq({"rejected", "verified"})]
      BY DEF StackInv, LeapTypeOK
    <3>5. CASE g # Top(w).goal
      <4>1. tactic'[g] = tactic[g]
        BY <3>2, <3>4, <3>5
      <4> QED
        BY <1>5, <1>6, <4>1
    <3>6. CASE g = Top(w).goal
      <4>1. PICK s \in Seq({"rejected", "verified"}) : s = tactic[g]
        BY <3>4
      <4>2. tactic'[g] = Append(s, verdict)
        BY <3>2, <3>4, <3>6, <4>1
      <4>3. CASE i \in DOMAIN s
        <5>1. tactic'[g][i] = s[i]
          BY <4>2, <4>3
        <5> QED
          BY <1>5, <1>6, <4>1, <4>3, <5>1
      <4>4. CASE i \notin DOMAIN s
        <5>1. verdict = "verified"
          BY <1>6, <4>2, <4>4
        <5> QED
          BY <3>2, <3>3, <3>6, <5>1 DEF At
      <4> QED
        BY <4>3, <4>4
    <3> QED
      BY <3>5, <3>6
  <2> QED
    BY <2>1, <2>2
<1> QED
  BY <1>3, <1>6 DEF SkipInv

LEMMA SkipInvStep ==
  ASSUME OneAfterAnother, Mortal = {}, GraphInv, StackInv, TurnInv, SkipInv, [LeapNext]_vars
  PROVE  SkipInv'
<1>1. Grows
  BY SearchUsesGraph, StepGrows
<1>2. ASSUME UNCHANGED search, UNCHANGED nodes PROVE SkipInv'
  BY <1>2 DEF search, nodes, SkipInv, At, Depth, Top, Proved
<1>3. CASE UNCHANGED vars
  BY <1>2, <1>3 DEF vars, graph
<1>4. ASSUME NEW g \in Goal, LeaseEnds(g) PROVE SkipInv'
  BY <1>2, <1>4 DEF LeaseEnds, Expire
<1> QED
  BY <1>1, <1>3, <1>4, SkipInvActs DEF LeapNext, Acts

\* Where no process dies and searches run one after the other, a search never
\* skips a tactic that closed its goal: the row and the proof it stands for are
\* not separated.
THEOREM SequentialSkips ==
  ASSUME OneAfterAnother, Mortal = {}
  PROVE  LeapSpec => []OnlyFailedSkipped
<1>1. LeapInit => SkipInv
  BY DEF LeapInit, SkipInv, At, Depth
<1>2. GraphInv /\ StackInv /\ TurnInv /\ SkipInv /\ [LeapNext]_vars => SkipInv'
  BY SkipInvStep
<1>3. GraphInv /\ StackInv /\ TurnInv /\ SkipInv => OnlyFailedSkipped
  <2> SUFFICES ASSUME StackInv, TurnInv, SkipInv, NEW w \in Worker, At(w, "branches"),
                      NEW i \in DOMAIN tactic[Top(w).goal], tactic[Top(w).goal][i] # "rejected"
               PROVE  FALSE
    BY DEF OnlyFailedSkipped
  <2> DEFINE g == Top(w).goal
  <2>1. g \in Goal /\ phase[w] = "search"
    BY TopFacts DEF At
  <2>2. tactic[g] \in Seq({"rejected", "verified"})
    BY <2>1 DEF StackInv, LeapTypeOK
  <2>3. tactic[g][i] = "verified"
    BY <2>2
  <2>4. PICK v \in Worker : At(v, "closed")
    BY <2>1, <2>3 DEF SkipInv
  <2>5. v # w
    BY <2>4 DEF At
  <2>6. phase[v] = "search"
    BY <2>4, TopFacts DEF At
  <2> QED
    BY <2>1, <2>5, <2>6 DEF TurnInv, Turns, OneAfterAnother, Ended
<1> QED
  BY <1>1, <1>2, <1>3, TurnInvariant, PTL DEF LeapSpec
=============================================================================
